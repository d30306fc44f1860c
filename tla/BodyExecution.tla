---------------------------- MODULE BodyExecution ----------------------------
(***************************************************************************)
(* The reference engine (execute_inner_body and BodyExecutionSession in    *)
(* crates/mncs-model/src/execution.rs): a stack of frames, each with the   *)
(* values of its function, its own step count under what is left of the    *)
(* caller's budget, and the effects it recorded.                           *)
(***************************************************************************)
EXTENDS HostCalls

CONSTANTS
    Programs,        \* the programs, each a function from names to functions
    Requests(_),     \* the requests made of a program
    MaxBudget,       \* MAX_EXECUTION_BUDGET
    MaxDepth,        \* MODEL_MAX_CALL_DEPTH
    LargeWork        \* MIN_REUSED_SEQUENCE_VALIDATION_ITEMS

VARIABLES
    program, req,       \* which program, and the request
    valid,           \* what program.validate() said when the session was made
    bodyFrames, bodyResult, bodyWorld

bodyVars == <<bodyFrames, bodyResult, bodyWorld>>
NoResult == [st |-> "Running", out |-> <<>>, why |-> "", at |-> None, steps |-> 0, effects |-> <<>>]
Top(frames) == frames[Len(frames)]
FnOf(f) == program[f.fn]
BlockOf(f) == FnOf(f).body.blocks[f.block]
OpOf(f) == BlockOf(f).ops[f.pc]
OpAt(f) == Some(<<"op", f.fn, f.block, f.pc>>)
AtOp(f) == f.pc <= Len(BlockOf(f).ops)
Lookup(env, ids) == [i \in DOMAIN ids |-> IF ids[i] \in DOMAIN env THEN env[ids[i]] ELSE Absent]
Bind(env, ids, vals) == [id \in DOMAIN env \cup Range(ids) |->
                           IF id \in Range(ids) THEN vals[CHOOSE i \in DOMAIN ids : ids[i] = id] ELSE env[id]]
IdsOf(defs) == [i \in DOMAIN defs |-> defs[i][1]]
BodyTypes(body) == TypeMap(DefsOf(body.params) \cup UNION {DefinedIn(body.blocks[b]) : b \in DOMAIN body.blocks})
DepthLimit == IF req.depth = None THEN MaxDepth ELSE req.depth[1]

\* sequence_validation_work_is_large: at the top or one level down.
Children(v) == CASE v.k \in {"seq", "vec"} -> Len(v.vals) [] v.k \in {"rec", "fin"} -> Len(v.fields) [] OTHER -> 0
LargeSequence(v) == v.k = "seq" /\ FoldLeft(LAMBDA n, x : n + Children(x), Len(v.vals), v.vals) >= LargeWork
-----------------------------------------------------------------------------
Admitted(normal) == IF normal = None THEN Refuse("argument normal form") ELSE Ok(normal[1])
\* What must hold before a function is entered, in the order it is asked; trusted arguments are
\* neither matched nor normalised.
Prologue(name, args, budget, depth, trusted) ==
    LET fn == program[name]
    IN IF ~valid THEN Refuse("program")
       ELSE IF budget \notin 1 .. MaxBudget THEN Refuse("step budget")
       ELSE IF req.depth # None /\ req.depth[1] \notin 1 .. MaxDepth THEN Refuse("depth budget")
       ELSE IF name \notin DOMAIN program THEN Refuse("function")
       ELSE IF ~fn.hasBody THEN Refuse("no body")
       ELSE IF depth > DepthLimit THEN Fail("BudgetExhausted", "depth")
       ELSE IF Len(args) # Len(fn.in) THEN Refuse("argument count")
       ELSE IF \E i \in DOMAIN args \ trusted : ~MatchesType(args[i], fn.in[i]) THEN Refuse("argument type")
       ELSE Admitted(Collect([i \in DOMAIN args |-> IF i \in trusted THEN Some(args[i]) ELSE Normalize(args[i], fn.in[i])]))
NewFrame(name, vals, budget, trusted) ==
    LET ids == IdsOf(program[name].body.params)
    IN [fn |-> name, block |-> program[name].body.entry, pc |-> 1, env |-> Bind(<<>>, ids, vals), steps |-> 0,
        budget |-> budget, effects |-> <<>>,
        reusable |-> {ids[i] : i \in {i \in DOMAIN ids : i \in trusted \/ LargeSequence(vals[i])}}]

\* The first n frames' steps and effects, each caller's before its callee's.
StepsOf(frames) == FoldLeft(LAMBDA n, f : n + f.steps, 0, frames)
EffectsOf(frames) == FoldLeft(LAMBDA s, f : s \o f.effects, <<>>, frames)
BodyEnd(st, why, at, out, frames) ==
    /\ bodyResult' = [st |-> st, out |-> out, why |-> why, at |-> at, steps |-> StepsOf(frames),
                      effects |-> EffectsOf(frames)]
    /\ bodyFrames' = <<>>
\* One step of the top frame's budget.
Stepped == [bodyFrames EXCEPT ![Len(bodyFrames)].steps = @ + 1]
BodyCanStep == bodyFrames # <<>> /\ Top(bodyFrames).steps < Top(bodyFrames).budget
Operands == Lookup(Top(bodyFrames).env, OpOf(Top(bodyFrames)).in)
SetTop(frames, f) == [frames EXCEPT ![Len(frames)] = f]

BodyStart ==
    /\ bodyFrames = <<>> /\ bodyResult.st = "Running"
    /\ UNCHANGED bodyWorld
    /\ \E p \in {Prologue(req.fn, req.args, req.budget, 0, {})} :
         IF p.st # "ok" THEN BodyEnd(p.st, p.why, None, <<>>, <<>>)
         ELSE bodyFrames' = <<NewFrame(req.fn, p.out, req.budget, {})>> /\ UNCHANGED bodyResult

BodyExhausted ==
    LET f == Top(bodyFrames)
    IN /\ bodyFrames # <<>> /\ f.steps >= f.budget
       /\ BodyEnd("BudgetExhausted", "steps", IF AtOp(f) THEN OpAt(f) ELSE None, <<>>, bodyFrames)
       /\ UNCHANGED bodyWorld

\* The outcome r of the operation the top frame is at.
BodyApply(r) ==
    LET f == Top(Stepped)
        done == [f EXCEPT !.env = Bind(@, SubSeq(IdsOf(OpOf(f).out), 1, Len(r.out)), r.out), !.pc = @ + 1,
                          !.effects = @ \o r.events]
    IN /\ bodyWorld' = bodyWorld \o r.acts
       /\ IF r.st = "ok" THEN bodyFrames' = SetTop(Stepped, done) /\ UNCHANGED bodyResult
          ELSE BodyEnd(r.st, r.why, OpAt(f), <<>>, Stepped)
BodyAt(kinds) == BodyCanStep /\ AtOp(Top(bodyFrames)) /\ OpOf(Top(bodyFrames)).kind \in kinds

BodyEvaluate ==
    LET o == OpOf(Top(bodyFrames))
    IN /\ BodyCanStep /\ AtOp(Top(bodyFrames)) /\ Evaluates(o)
       /\ BodyApply(Evaluate(o, Operands, TypesOf(o.out)))
\* A declared effect is recorded, nothing is done.
BodyEffect ==
    LET o == OpOf(Top(bodyFrames))
    IN /\ BodyAt({"effect"})
       /\ BodyApply(IF req.policy # "record" THEN Fail("Unsupported", "effect policy")
                    ELSE Done(<<>>, <<Event(Kind(o.effect), Target(o.effect), Capability(o.effect), FALSE)>>, <<>>))
BodyHost ==
    LET o == OpOf(Top(bodyFrames))
    IN /\ BodyAt({"host"})
       /\ BodyApply(HostCall(o, Operands, TypesOf(o.out), req, Top(Stepped).budget - Top(Stepped).steps))
BodyCheck == BodyAt({"check"}) /\ BodyApply(Fail("Unsupported", "runtime check"))

\* argument_validation_can_be_reused
Trusted(f, o) ==
    {i \in DOMAIN o.in : /\ o.in[i] \in f.reusable /\ o.fn \in DOMAIN program /\ i \in DOMAIN program[o.fn].in
                         /\ BodyTypes(FnOf(f).body)[o.in[i]] = program[o.fn].in[i]}
\* Variant: the callee gets the caller's whole budget.
CalleeBudget_Whole(f) == f.budget
CalleeBudget(f) == f.budget - f.steps
BodyCall ==
    LET f == Top(Stepped)
        o == OpOf(f)
        remaining == CalleeBudget(f)
        trusted == Trusted(f, o)
    IN /\ BodyAt({"call"})
       /\ UNCHANGED bodyWorld
       /\ IF Missing(Operands) THEN BodyEnd("InvalidRequest", "call operands", OpAt(f), <<>>, Stepped)
          ELSE IF remaining = 0 THEN BodyEnd("BudgetExhausted", "budget before call", OpAt(f), <<>>, Stepped)
          ELSE \E p \in {Prologue(o.fn, Operands, remaining, Len(bodyFrames), trusted)} :
                 IF p.st # "ok" THEN BodyEnd(p.st, p.why, None, <<>>, Stepped)
                 ELSE bodyFrames' = Append(Stepped, NewFrame(o.fn, p.out, remaining, trusted)) /\ UNCHANGED bodyResult

\* The caller takes the callee's steps, effects and first value.
BodyReturn ==
    LET f == Top(Stepped)
        vals == Lookup(f.env, BlockOf(f).term.vals)
        below == Front(Stepped)
        c == Top(below)
        o == OpOf(c)
        merged == [c EXCEPT !.steps = @ + f.steps, !.effects = @ \o f.effects]
    IN /\ BodyCanStep /\ ~AtOp(Top(bodyFrames)) /\ BlockOf(Top(bodyFrames)).term.k = "return"
       /\ UNCHANGED bodyWorld
       /\ IF Missing(vals) THEN BodyEnd("InvalidRequest", "return value", None, <<>>, Stepped)
          ELSE IF below = <<>> THEN BodyEnd("Returned", "", None, vals, Stepped)
          ELSE IF vals = <<>>
          THEN BodyEnd("InvalidRequest", "callee value", OpAt(c), <<>>, Stepped)
          ELSE /\ bodyFrames' = SetTop(below, [merged EXCEPT !.env = Bind(@, <<o.out[1][1]>>, <<vals[1]>>), !.pc = @ + 1])
               /\ UNCHANGED bodyResult
\* Arguments are all read before any parameter is assigned.
BodyJump(to, args, why) ==
    LET f == Top(Stepped)
        vals == Lookup(f.env, args)
        params == IdsOf(FnOf(f).body.blocks[to].params)
    IN IF to \notin DOMAIN FnOf(f).body.blocks \/ Len(params) # Len(args) \/ Missing(vals)
       THEN BodyEnd("InvalidRequest", why, None, <<>>, Stepped)
       ELSE /\ bodyFrames' = SetTop(Stepped, [f EXCEPT !.env = Bind(@, params, vals), !.block = to, !.pc = 1])
            /\ UNCHANGED bodyResult
BodyBranch ==
    LET term == BlockOf(Top(bodyFrames)).term
    IN /\ BodyCanStep /\ ~AtOp(Top(bodyFrames)) /\ term.k = "branch"
       /\ BodyJump(term.to, term.args, "branch arguments") /\ UNCHANGED bodyWorld
BodyCondBranch ==
    LET f == Top(bodyFrames)
        term == BlockOf(f).term
        on == Lookup(f.env, <<term.on>>)
    IN /\ BodyCanStep /\ ~AtOp(f) /\ term.k = "cond"
       /\ UNCHANGED bodyWorld
       /\ IF ~KindAt(on, 1, "bool") THEN BodyEnd("InvalidRequest", "branch condition", None, <<>>, Stepped)
          ELSE IF on[1].b THEN BodyJump(term.to, term.args, "conditional arguments")
          ELSE BodyJump(term.else, term.elseArgs, "conditional arguments")
BodyFailure ==
    /\ BodyCanStep /\ ~AtOp(Top(bodyFrames)) /\ BlockOf(Top(bodyFrames)).term.k = "failure"
    /\ BodyEnd("RuntimeFailure", "failure terminator", None, <<>>, Stepped)
    /\ UNCHANGED bodyWorld

BodyInit == bodyFrames = <<>> /\ bodyResult = NoResult /\ bodyWorld = <<>>
BodyNext == \/ BodyStart \/ BodyExhausted \/ BodyEvaluate \/ BodyEffect \/ BodyHost \/ BodyCheck \/ BodyCall
            \/ BodyReturn \/ BodyBranch \/ BodyCondBranch \/ BodyFailure
BodyDone == bodyResult.st # "Running"
=============================================================================

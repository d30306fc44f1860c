----------------------------- MODULE SsaExecution -----------------------------
(***************************************************************************)
(* The SSA engine (execute_prepared_function and SsaExecutionSession in    *)
(* crates/mncs-model/src/ssa_execution.rs).  All frames share one step     *)
(* count and one list of effects.  A frame remembers which of its values   *)
(* are validated; those are passed to a callee as they are.                *)
(***************************************************************************)
EXTENDS BodyExecution, SsaOperations, SsaLowering

CONSTANTS Reuse   \* reuse_validated_inputs

VARIABLES module, moduleValid, ssaFrames, ssaResult, ssaWorld

ssaVars == <<ssaFrames, ssaResult, ssaWorld>>
SsaFn(f) == module[f.fn]
SsaBlockOf(f) == SsaFn(f).blocks[f.block]
SsaOpOf(f) == SsaBlockOf(f).ops[f.pc]
SsaAtOp(f) == f.pc <= Len(SsaBlockOf(f).ops)
\* The failure block has no identity of its own in the program.
BlockAt(f) == IF f.block = Len(SsaFn(f).blocks) THEN None ELSE Some(<<"block", f.fn, f.block>>)
SsaTypes(fn) == TypeMap(DefsOf(fn.params) \cup UNION {DefinedIn(fn.blocks[b]) : b \in DOMAIN fn.blocks})
-----------------------------------------------------------------------------
SsaEnd(r, st, why, at, out) ==
    /\ ssaResult' = [r EXCEPT !.st = st, !.why = why, !.at = at, !.out = out]
    /\ ssaFrames' = <<>>
SsaCanStep == ssaFrames # <<>> /\ ssaResult.steps < req.budget
SsaStepped == [ssaResult EXCEPT !.steps = @ + 1]
SsaRemaining == req.budget - SsaStepped.steps

\* One argument: matched, checked and normalised unless the caller validated it.
SsaInput(v, ty, validated, owned) ==
    IF validated THEN Ok(<<v>>)
    ELSE IF ~SsaMatchesType(v, ty) THEN Refuse("argument type")
    ELSE IF v.k = "fin" /\ ~ValidFinite(v.id, v.variant, v.disc) THEN Refuse("finite argument")
    ELSE Yield(IF owned THEN SsaNormalizeOwned(v, ty) ELSE SsaNormalize(v, ty), "InvalidRequest", "")
\* The first failure, or all the values.
Gathered(each) ==
    LET bad == {i \in DOMAIN each : each[i].st # "ok"}
    IN IF bad # {} THEN each[CHOOSE i \in bad : \A j \in bad : i <= j] ELSE Ok([i \in DOMAIN each |-> each[i].out[1]])
InitializeInputs(fn, args, validated, owned) ==
    IF Len(args) # Len(fn.params) THEN Refuse("argument count")
    ELSE Gathered([i \in DOMAIN args |-> SsaInput(args[i], fn.params[i][2], i \in validated, owned)])
SsaFrame(name, vals) ==
    LET ids == IdsOf(module[name].params)
    IN [fn |-> name, block |-> 1, pc |-> 1, env |-> Bind(<<>>, ids, vals), validated |-> Range(ids)]
SsaPrologue ==
    IF req.budget \notin 1 .. MaxBudget THEN Refuse("step budget")
    ELSE IF req.depth # None /\ req.depth[1] \notin 1 .. MaxDepth THEN Refuse("depth budget")
    ELSE IF ~valid THEN Refuse("program")
    ELSE IF ~moduleValid THEN Refuse("SSA module")
    ELSE IF req.fn \notin DOMAIN module THEN Refuse("SSA function")
    ELSE InitializeInputs(module[req.fn], req.args, {}, req.owned)
SsaStart ==
    /\ ssaFrames = <<>> /\ ssaResult.st = "Running"
    /\ UNCHANGED ssaWorld
    /\ \E p \in {SsaPrologue} :
         IF p.st # "ok" THEN SsaEnd(ssaResult, p.st, p.why, None, <<>>)
         ELSE ssaFrames' = <<SsaFrame(req.fn, p.out)>> /\ UNCHANGED ssaResult
SsaExhausted ==
    LET f == Top(ssaFrames)
    IN /\ ssaFrames # <<>> /\ ssaResult.steps >= req.budget
       /\ SsaEnd(ssaResult, "BudgetExhausted", "steps", IF SsaAtOp(f) THEN OpAt(f) ELSE BlockAt(f), <<>>)
       /\ UNCHANGED ssaWorld

SsaInputs == Lookup(Top(ssaFrames).env, SsaOpOf(Top(ssaFrames)).in)
\* What a successful instruction produced is validated from here on.
SsaBindOutputs(f, o, vals) ==
    LET bound == [f EXCEPT !.env = Bind(@, SubSeq(IdsOf(o.out), 1, Len(vals)), vals), !.pc = @ + 1]
    IN [bound EXCEPT !.validated = @ \cup (Range(IdsOf(o.out)) \cap DOMAIN bound.env)]
SsaApply(r) ==
    LET f == Top(ssaFrames)
        stepped == [SsaStepped EXCEPT !.effects = @ \o r.events]
    IN /\ ssaWorld' = ssaWorld \o r.acts
       /\ IF r.st # "ok" THEN SsaEnd(stepped, r.st, r.why, IF r.why = "" THEN None ELSE OpAt(f), <<>>)
          ELSE ssaFrames' = SetTop(ssaFrames, SsaBindOutputs(f, SsaOpOf(f), r.out)) /\ ssaResult' = stepped
SsaAt(kinds) == SsaCanStep /\ SsaAtOp(Top(ssaFrames)) /\ SsaOpOf(Top(ssaFrames)).kind \in kinds
SsaEvaluateStep ==
    LET o == SsaOpOf(Top(ssaFrames))
    IN /\ SsaCanStep /\ SsaAtOp(Top(ssaFrames)) /\ Evaluates(o)
       /\ SsaApply(SsaEvaluate(o, SsaInputs, TypesOf(o.out)))
SsaEffect ==
    LET o == SsaOpOf(Top(ssaFrames))
    IN /\ SsaAt({"effect"})
       /\ SsaApply(IF req.policy # "record" THEN Fail("Unsupported", "effect policy")
                   ELSE Done(<<>>, <<Event(Kind(o.effect), Target(o.effect), Capability(o.effect), FALSE)>>, <<>>))
SsaHost ==
    LET o == SsaOpOf(Top(ssaFrames))
    IN SsaAt({"host"}) /\ SsaApply(SsaHostCall(o, SsaInputs, TypesOf(o.out), req, SsaRemaining))
SsaCheck == SsaAt({"check"}) /\ SsaApply(Fail("Unsupported", "runtime check"))

\* Every argument has its parameter's type, and this one is validated.
Forwarded(f, o) ==
    LET callee == module[o.fn]
        typesMatch == [i \in DOMAIN o.in |-> SsaTypes(SsaFn(f))[o.in[i]]] = TypesOf(callee.params)
    IN IF Reuse /\ typesMatch THEN {i \in DOMAIN o.in : o.in[i] \in f.validated} ELSE {}
SsaCall ==
    LET f == Top(ssaFrames)
        o == SsaOpOf(f)
    IN /\ SsaAt({"call"})
       /\ UNCHANGED ssaWorld
       /\ IF o.fn \notin DOMAIN module THEN SsaEnd(SsaStepped, "InvalidRequest", "SSA call target", OpAt(f), <<>>)
          ELSE IF Missing(SsaInputs) THEN SsaEnd(SsaStepped, "InvalidRequest", "SSA call operands", OpAt(f), <<>>)
          ELSE IF SsaRemaining = 0 THEN SsaEnd(SsaStepped, "BudgetExhausted", "budget before SSA call", OpAt(f), <<>>)
          ELSE IF Len(ssaFrames) > DepthLimit THEN SsaEnd(SsaStepped, "BudgetExhausted", "depth", None, <<>>)
          ELSE \E p \in {InitializeInputs(module[o.fn], SsaInputs, Forwarded(f, o), TRUE)} :
                 IF p.st # "ok" THEN SsaEnd(SsaStepped, p.st, p.why, None, <<>>)
                 ELSE ssaFrames' = Append(ssaFrames, SsaFrame(o.fn, p.out)) /\ ssaResult' = SsaStepped
SsaReturn ==
    LET f == Top(ssaFrames)
        vals == Lookup(f.env, SsaBlockOf(f).term.vals)
        below == Front(ssaFrames)
        c == Top(below)
        o == SsaOpOf(c)
    IN /\ SsaCanStep /\ ~SsaAtOp(f) /\ SsaBlockOf(f).term.k = "return"
       /\ UNCHANGED ssaWorld
       /\ IF Missing(vals) THEN SsaEnd(SsaStepped, "InvalidRequest", "return value", BlockAt(f), <<>>)
          ELSE IF below = <<>> THEN SsaEnd(SsaStepped, "Returned", "", None, vals)
          ELSE IF vals = <<>> THEN SsaEnd(SsaStepped, "InvalidRequest", "SSA callee value", OpAt(c), <<>>)
          ELSE /\ ssaFrames' = SetTop(below, SsaBindOutputs(c, o, <<vals[1]>>))
               /\ ssaResult' = SsaStepped
\* assign_block_arguments: a parameter inherits its argument's mark where the types are the same.
SsaJump(to, args, why) ==
    LET f == Top(ssaFrames)
        vals == Lookup(f.env, args)
        params == SsaFn(f).blocks[to].params
        ids == IdsOf(params)
        types == SsaTypes(SsaFn(f))
        marked == {ids[i] : i \in {i \in DOMAIN args : Reuse /\ types[args[i]] = params[i][2] /\ args[i] \in f.validated}}
    IN IF to \notin DOMAIN SsaFn(f).blocks \/ Len(params) # Len(args) \/ Missing(vals)
       THEN SsaEnd(SsaStepped, "InvalidRequest", why, BlockAt(f), <<>>)
       ELSE /\ ssaFrames' = SetTop(ssaFrames, [f EXCEPT !.env = Bind(@, ids, vals), !.block = to, !.pc = 1,
                                                        !.validated = (@ \ Range(ids)) \cup marked])
            /\ ssaResult' = SsaStepped
SsaBranch ==
    LET term == SsaBlockOf(Top(ssaFrames)).term
    IN /\ SsaCanStep /\ ~SsaAtOp(Top(ssaFrames)) /\ term.k = "branch"
       /\ SsaJump(term.to, term.args, "branch arguments") /\ UNCHANGED ssaWorld
SsaCondBranch ==
    LET f == Top(ssaFrames)
        term == SsaBlockOf(f).term
        on == Lookup(f.env, <<term.on>>)
    IN /\ SsaCanStep /\ ~SsaAtOp(f) /\ term.k = "cond"
       /\ UNCHANGED ssaWorld
       /\ IF ~KindAt(on, 1, "bool") THEN SsaEnd(SsaStepped, "InvalidRequest", "branch condition", BlockAt(f), <<>>)
          ELSE IF on[1].b THEN SsaJump(term.to, term.args, "conditional arguments")
          ELSE SsaJump(term.else, term.elseArgs, "conditional arguments")
SsaFailure ==
    LET f == Top(ssaFrames)
    IN /\ SsaCanStep /\ ~SsaAtOp(f) /\ SsaBlockOf(f).term.k = "failure"
       /\ SsaEnd(SsaStepped, "RuntimeFailure", "failure terminator", BlockAt(f), <<>>)
       /\ UNCHANGED ssaWorld

SsaInit == ssaFrames = <<>> /\ ssaResult = NoResult /\ ssaWorld = <<>>
SsaNext == \/ SsaStart \/ SsaExhausted \/ SsaEvaluateStep \/ SsaEffect \/ SsaHost \/ SsaCheck \/ SsaCall
           \/ SsaReturn \/ SsaBranch \/ SsaCondBranch \/ SsaFailure
SsaDone == ssaResult.st # "Running"
=============================================================================

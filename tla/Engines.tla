------------------------------- MODULE Engines -------------------------------
(***************************************************************************)
(* One request, both engines (compare_body_and_ssa in                      *)
(* crates/mncs-model/src/ssa_execution.rs): the reference engine executes  *)
(* the body, the program is lowered, and the SSA engine executes the       *)
(* module.                                                                 *)
(***************************************************************************)
EXTENDS SsaExecution

vars == <<program, req, valid, module, moduleValid, bodyVars, ssaVars>>

Init ==
    /\ program \in Programs
    /\ req \in Requests(program)
    /\ valid = ValidProgram(program)
    /\ module = LowerProgram(program)
    /\ moduleValid = (valid /\ SsaValid(module))
    /\ BodyInit /\ SsaInit
Next == /\ UNCHANGED <<program, req, valid, module, moduleValid>>
        /\ \/ ~BodyDone /\ BodyNext /\ UNCHANGED ssaVars
           \/ BodyDone /\ ~SsaDone /\ SsaNext /\ UNCHANGED bodyVars
Spec == Init /\ [][Next]_vars
-----------------------------------------------------------------------------
Compared == BodyDone /\ SsaDone
\* The front end lists the entry first and every block after the ones that dominate it.
ListedInOrder(body) ==
    body.entry = 1 /\ \A b, d \in DOMAIN body.blocks : Dominates(body, d, b) => d <= b
InOrder == \A f \in DOMAIN program : program[f].hasBody => ListedInOrder(program[f].body)
Operations == UNION {UNION {Range(program[f].body.blocks[b].ops) : b \in DOMAIN program[f].body.blocks} :
                       f \in {f \in DOMAIN program : program[f].hasBody}}
Observed(events) == [i \in DOMAIN events |-> <<events[i].kind, events[i].target, events[i].cap>>]
\* The engines word these failures differently.
SameWords == bodyResult.why \notin {"record field", "update invariant", "copy invariant", "call operands",
                                    "budget before call", "callee value", "public key", "message", "signature",
                                    "function", "argument type", "argument normal form", "no body"}
\* Nominal arguments whose fields are in the order of the declaration, under their identity.
RECURSIVE Canonical(_)
Canonical(v) ==
    CASE v.k \in {"seq", "vec"} -> \A i \in DOMAIN v.vals : Canonical(v.vals[i])
      [] v.k \in {"rec", "fin"} ->
           /\ ~v.spelled /\ \A i \in DOMAIN v.fields : Canonical(v.fields[i][2])
           /\ Increasing(Named(v.fields)) /\ (v.k = "fin" => ValidFinite(v.id, v.variant, v.disc))
      [] OTHER -> TRUE
CanonicalArguments == \A i \in DOMAIN req.args : Canonical(req.args[i])
\* The calls whose result the engines do not hold against its declared type.
DeliversWhatItDeclares == \A o \in Operations : o.kind = "host" => o.host \notin {"blob_read", "fs_read_bytes_at"}
Owned == \E o \in Operations : o.kind = "host" /\ o.host \in Lifecycle
-----------------------------------------------------------------------------
\* No call leaves the program.
Whole == \A f \in DOMAIN program : program[f].hasBody
\* compare_body_and_ssa calls two runs equivalent when these agree.  On a validated program whose
\* lowering verifies, and arguments in normal form, both engines end alike, with the same values and
\* the same effects, after the same number of steps, and word the failure the same where they share
\* the text.
EnginesAgree ==
    (Compared /\ moduleValid /\ Whole /\ InOrder /\ CanonicalArguments /\ DeliversWhatItDeclares /\ (req.session \/ ~Owned)) =>
      /\ ssaResult.st = bodyResult.st /\ ssaResult.out = bodyResult.out /\ ssaResult.steps = bodyResult.steps
      /\ Observed(ssaResult.effects) = Observed(bodyResult.effects) /\ ssaWorld = bodyWorld
      /\ SameWords => ssaResult.why = bodyResult.why
\* lower_program never fails on what validate() accepted and the front end lists in order: every
\* operand has an identity by the time it is lowered, and the verifier finds it again.
ValidatedBodiesLower ==
    (valid /\ InOrder) =>
      /\ moduleValid
      /\ \A f \in DOMAIN program : program[f].hasBody => \A b \in DOMAIN program[f].body.blocks :
           LET ops == program[f].body.blocks[b].ops
           IN \A i \in DOMAIN ops : module[f].blocks[b].ops[i].in = ops[i].in
\* What a frame of the SSA engine marks as validated has the type its definition declares: the
\* callee that takes it unchecked takes nothing it would have refused.
MarkedValuesMatch ==
    (DeliversWhatItDeclares /\ CanonicalArguments) =>
      \A i \in DOMAIN ssaFrames : \A id \in ssaFrames[i].validated \cap DOMAIN ssaFrames[i].env :
         MatchesType(ssaFrames[i].env[id], SsaTypes(SsaFn(ssaFrames[i]))[id])
\* No chain of calls spends more than the request's budget, counting what the callers spent first.
BudgetBoundsTheWholeRun ==
    StepsOf(bodyFrames) <= req.budget /\ (bodyFrames = <<>> => bodyResult.steps <= IF req.budget > 0 THEN req.budget ELSE 0)
\* Every effect a run of the entry function reports was declared by it: with its capability and kind,
\* whichever callee discharged it.
KindDeclared(kind) == IF kind \in Lifecycle THEN "process_run" ELSE kind
ReportedEffectsAreDeclared ==
    (bodyResult.st = "Returned" /\ req.provider = None) =>
      \A e \in Range(bodyResult.effects) :
        /\ e.cap \in program[req.fn].caps
        /\ \E d \in program[req.fn].effects : Kind(d) = KindDeclared(e.kind) /\ Capability(d) = e.cap
\* The wrapping fast path computes what the general evaluator does, but for left shifts at more than half
\* the host's width, for which the general one takes the largest host integer.
FastPathIsGeneral ==
    \A i \in DOMAIN bodyFrames :
      LET o == OpOf(bodyFrames[i])
          v == Lookup(bodyFrames[i].env, o.in)
      IN (/\ AtOp(bodyFrames[i]) /\ o.kind = "int" /\ o.intent = "wrapping" /\ Kinds(v, <<"int", "int">>)
          /\ InRange(v[1].n, o.ty) /\ InRange(v[2].n, o.ty) /\ (o.op = "shl" => 2 * o.ty.bits <= HostBits))
         => EvaluateInteger(o.op, o.ty, o.intent, o.bits, v[1].n, v[2].n)
              = OperationEvaluate(o.op, o.ty, o.intent, o.bits, v[1].n, v[2].n)
OpNamed(at) == program[at[2]].body.blocks[at[3]].ops[at[4]]
\* What validation leaves to the run: the host's answers, the operand of a length, the variant a payload
\* is projected from, evidence that an index is in range, whether a callee returns a value, and
\* arithmetic on u1, whose values are Booleans.
LeftToTheRun(o) == o.kind \in {"host", "seq_length", "fin_project", "call"} \/ ~o.checked
                   \/ (o.kind \in {"int", "int_compare"} /\ IsU1(o.ty))
\* A validated body runs into no operand of the wrong kind and into no index the engine does not check.
TypesAreSound ==
    (valid /\ CanonicalArguments) =>
      /\ bodyResult.st # "Panic" /\ ssaResult.st # "Panic"
      /\ (bodyResult.st = "InvalidRequest" /\ bodyResult.at # None) => LeftToTheRun(OpNamed(bodyResult.at[1]))
=============================================================================

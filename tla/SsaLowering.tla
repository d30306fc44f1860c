----------------------------- MODULE SsaLowering -----------------------------
(***************************************************************************)
(* From a body to the block-parameter SSA form and the verifier of that    *)
(* form (lower_body, declaration_function, validate_function in            *)
(* crates/mncs-model/src/ssa.rs).                                          *)
(*                                                                         *)
(* A lowered function has the shape of a body: inputs, blocks in the order *)
(* the body lists them, and one more block, the last, to which every other *)
(* one fails.  Execution starts at the first block.                        *)
(***************************************************************************)
EXTENDS BodyModel

\* Variant: each block starts with the parameters alone.
Listed_OwnBlock(body, b, upTo) ==
    {d[1] : d \in DefsOf(body.params) \cup DefsOf(body.blocks[b].params) \cup ResultsOf(body.blocks[b], upTo)}
\* The identities lowered so far, block by block in the order of the list.
Listed(body, b, upTo) ==
    {d[1] : d \in DefsOf(body.params) \cup DefsOf(body.blocks[b].params) \cup ResultsOf(body.blocks[b], upTo)
                  \cup UNION {DefinedIn(body.blocks[c]) : c \in 1 .. b - 1}}
\* What has no identity yet is left out.
Known(ids, listed) == SelectSeq(ids, LAMBDA id : id \in listed)
MissingId == 0
LowerTerminator(term, listed) ==
    CASE term.k = "failure" -> term
      [] term.k = "return" -> [term EXCEPT !.vals = Known(@, listed)]
      [] term.k = "branch" -> [term EXCEPT !.args = Known(@, listed)]
      [] term.k = "cond" -> [term EXCEPT !.on = IF @ \in listed THEN @ ELSE MissingId,
                                         !.args = Known(@, listed), !.elseArgs = Known(@, listed)]
LowerBlock(body, b) ==
    LET block == body.blocks[b]
    IN [params |-> block.params,
        ops |-> [i \in DOMAIN block.ops |-> [block.ops[i] EXCEPT !.in = Known(@, Listed(body, b, i - 1))]],
        term |-> LowerTerminator(block.term, Listed(body, b, Len(block.ops)))]
FailureBlock == [params |-> <<>>, ops |-> <<>>, term |-> [k |-> "failure"]]
LowerBody(fn) ==
    [params |-> fn.body.params, entry |-> 1, outs |-> Len(fn.outs), policy |-> fn.body.policy,
     iterations |-> fn.body.iterations,
     blocks |-> Append([b \in DOMAIN fn.body.blocks |-> LowerBlock(fn.body, b)], FailureBlock)]
\* A function without a body becomes one that returns nothing.
DeclarationFunction(fn) ==
    [params |-> [i \in DOMAIN fn.in |-> Def(i, fn.in[i])], entry |-> 1, outs |-> 0, policy |-> "legacy",
     iterations |-> {}, blocks |-> <<[params |-> <<>>, ops |-> <<>>, term |-> [k |-> "return", vals |-> <<>>]]>>]
LowerFunction(fn) == IF fn.hasBody THEN LowerBody(fn) ELSE DeclarationFunction(fn)
LowerProgram(p) == [f \in DOMAIN p |-> LowerFunction(p[f])]
-----------------------------------------------------------------------------
(* The verifier. *)
SsaSuccessors(f, b) == Targets(f.blocks[b].term) \cup (IF b = Len(f.blocks) THEN {} ELSE {Len(f.blocks)})
SsaReached(f, without) ==
    LET step[n \in 0 .. Len(f.blocks)] ==
          IF n = 0 THEN {1} \ without
          ELSE UNION {{b} \cup SsaSuccessors(f, b) : b \in step[n - 1]} \ without
    IN step[Len(f.blocks)]
SsaDominates(f, d, b) == b \in SsaReached(f, {}) /\ (d = b \/ b \notin SsaReached(f, {d}))
SsaIterationValid(f, it) ==
    /\ it.bound \in (IF it.over THEN 0 .. MaxSequence ELSE 1 .. MaxIterations)
    /\ {it.header, it.backedge, it.exit} \subseteq DOMAIN f.blocks
    /\ TypesOf(f.blocks[it.header].params) = <<it.state, U64>>
SsaBackedgesDeclared(f) ==
    f.policy = "bounded" => \A b \in DOMAIN f.blocks : \A h \in SsaSuccessors(f, b) :
        SsaDominates(f, h, b) => \E it \in f.iterations : it.backedge = b /\ it.header = h
SsaAvailable(f, b, upTo) ==
    DefsOf(f.params) \cup DefsOf(f.blocks[b].params) \cup ResultsOf(f.blocks[b], upTo)
    \cup UNION {DefinedIn(f.blocks[d]) : d \in {d \in DOMAIN f.blocks : d # b /\ SsaDominates(f, d, b)}}
\* The values of a return are counted, not looked up.
SsaEdgeValid(f, to, args, types) ==
    /\ Len(args) = Len(f.blocks[to].params)
    /\ \A i \in DOMAIN args : args[i] \in DOMAIN types /\ types[args[i]] = f.blocks[to].params[i][2]
SsaTerminatorValid(f, term, types) ==
    CASE term.k = "return" -> Len(term.vals) = f.outs
      [] term.k = "branch" -> SsaEdgeValid(f, term.to, term.args, types)
      [] term.k = "cond" -> /\ term.on \in DOMAIN types
                            /\ SsaEdgeValid(f, term.to, term.args, types)
                            /\ SsaEdgeValid(f, term.else, term.elseArgs, types)
      [] OTHER -> TRUE
SsaBlockValid(m, f, b) ==
    LET block == f.blocks[b]
    IN /\ \A i \in DOMAIN block.ops :
            /\ Range(block.ops[i].in) \subseteq DOMAIN TypeMap(SsaAvailable(f, b, i - 1))
            /\ block.ops[i].kind = "call" => block.ops[i].fn \in DOMAIN m
       /\ SsaTerminatorValid(f, block.term, TypeMap(SsaAvailable(f, b, Len(block.ops))))
SsaFunctionValid(m, f) ==
    /\ \A b \in DOMAIN f.blocks : SsaSuccessors(f, b) \subseteq DOMAIN f.blocks
    /\ SsaReached(f, {}) = DOMAIN f.blocks
    /\ SsaBackedgesDeclared(f) /\ \A it \in f.iterations : SsaIterationValid(f, it)
    /\ DefinedOnce(f)
    /\ \A b \in DOMAIN f.blocks : SsaBlockValid(m, f, b)
SsaValid(m) == \A name \in DOMAIN m : SsaFunctionValid(m, m[name])
=============================================================================

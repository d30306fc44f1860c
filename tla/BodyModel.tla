------------------------------ MODULE BodyModel ------------------------------
(***************************************************************************)
(* Executable bodies and their validation                                  *)
(* (crates/mncs-model/src/body.rs, control flow from cfg.rs).              *)
(*                                                                         *)
(* A function has the types of its inputs (in) and outputs (outs), its     *)
(* authority (caps, effects) and a body: parameters, an entry block and    *)
(* blocks of operations that end in a terminator.  Value identities are    *)
(* numbers, a definition is a pair <<identity, type>>.  An operation has   *)
(* every field an operation of any kind has; those its kind does not have  *)
(* keep the value they have in NoOp.                                       *)
(***************************************************************************)
EXTENDS Values

CONSTANTS
    MaxSequence, MaxLanes,   \* MAX_SEQUENCE_BOUND, MAX_VECTOR_LANES
    MaxIterations            \* SOURCE_PROFILE_0_4_MAX_ITERATION_BOUND

NoOp == [kind |-> "none", in |-> <<>>, out |-> <<>>, val |-> 0, ty |-> BoolT, to |-> BoolT,
         op |-> "", intent |-> "", bits |-> 0, n |-> 0, cap |-> 0, exact |-> TRUE, src |-> [exact |-> TRUE, cap |-> 0],
         nominal |-> "", variant |-> 0, names |-> <<>>, field |-> 0, checked |-> TRUE,
         fn |-> "", needs |-> "", caps |-> {}, effects |-> {}, effect |-> <<>>, host |-> ""]
Def(id, ty) == <<id, ty>>
DefsOf(defs) == {defs[i] : i \in DOMAIN defs}
TypeMap(defs) == [id \in {d[1] : d \in defs} |-> (CHOOSE d \in defs : d[1] = id)[2]]
TypesOf(defs) == [i \in DOMAIN defs |-> defs[i][2]]
-----------------------------------------------------------------------------
(* Control flow. *)
Targets(term) == CASE term.k = "branch" -> {term.to}
                   [] term.k = "cond" -> {term.to, term.else} [] OTHER -> {}
Successors(body, b) == Targets(body.blocks[b].term) \cap DOMAIN body.blocks
\* The blocks reached from the entry without passing through `without`.
Reached(body, without) ==
    LET step[n \in 0 .. Cardinality(DOMAIN body.blocks)] ==
          IF n = 0 THEN {body.entry} \ without
          ELSE UNION {{b} \cup Successors(body, b) : b \in step[n - 1]} \ without
    IN step[Cardinality(DOMAIN body.blocks)]
Reachable(body) == Reached(body, {})
Dominates(body, d, b) == b \in Reachable(body) /\ (d = b \/ b \notin Reached(body, {d}))

\* A backedge, to a block that dominates it, is one a bounded iteration declares.
BackedgesDeclared(body) ==
    body.policy = "bounded" =>
      \A b \in DOMAIN body.blocks : \A h \in Successors(body, b) :
         Dominates(body, h, b) => \E it \in body.iterations : it.backedge = b /\ it.header = h
ValidIteration(fn, it) ==
    LET blocks == fn.body.blocks
    IN /\ it.bound \in (IF it.over THEN 0 .. MaxSequence ELSE 1 .. MaxIterations)
       /\ {it.header, it.backedge, it.exit} \subseteq DOMAIN blocks
       /\ TypesOf(blocks[it.header].params) = <<it.state, U64>>
       /\ TypesOf(blocks[it.exit].params) = <<it.state>>
       /\ Successors(fn.body, it.backedge) = {it.header}
       /\ it.caps \subseteq fn.caps
-----------------------------------------------------------------------------
(* Operations: o the operation, T its operand types, R its result types. *)
OneResult(R) == Len(R) = 1
All(T, n, ty) == Len(T) = n /\ \A i \in 1 .. n : T[i] = ty

ValidConstant(o, T, R) == T = <<>> /\ R = <<o.ty>>
IsShift(o) == o.op \in {"shl", "shr"}
ValidInteger(o, T, R) ==
    /\ o.op \in Operators /\ Len(T) = 2 /\ OneResult(R)
    /\ o.op \in {"and", "or", "xor", "shl", "shr"} => o.intent = "wrapping"
    /\ T[1] = o.ty /\ (T[2] = o.ty \/ (IsShift(o) /\ T[2] = U64))
    /\ Some(R[1]) = ArithmeticResult(o.op, o.ty, o.intent, o.bits)
ValidIntegerCompare(o, T, R) ==
    o.op \in Predicates /\ All(T, 2, o.ty) /\ o.ty.t = "int" /\ OneResult(R) /\ IsBoolean(R[1])
ValidFloatConstant(o, T, R) == T = <<>> /\ R = <<FloatT>>
ValidFloatOp(o, T, R) ==
    CASE o.kind = "float" -> o.op \in {"add", "sub", "mul", "div"} /\ All(T, 2, FloatT) /\ R = <<FloatT>>
      [] o.kind = "float_compare" ->
           o.op \in Predicates /\ All(T, 2, FloatT) /\ OneResult(R) /\ IsBoolean(R[1])
      [] o.kind = "float_intrinsic" -> o.op \in {"sin", "cos", "neg"} /\ All(T, 1, FloatT) /\ R = <<FloatT>>
ValidBoolean(o, T, R) ==
    /\ R = <<BoolT>>
    /\ CASE o.kind = "bool" -> o.op \in {"and", "or"} /\ All(T, 2, BoolT)
         [] o.kind = "bool_compare" -> o.op \in {"eq", "ne"} /\ All(T, 2, BoolT)
         [] o.kind = "bool_not" -> All(T, 1, BoolT)
ValidByteOp(o, T, R) ==
    CASE o.kind = "byte" -> o.op \in {"and", "or", "xor"} /\ All(T, 2, ByteT) /\ R = <<ByteT>>
      [] o.kind = "byte_compare" -> o.op \in Predicates /\ All(T, 2, ByteT) /\ R = <<BoolT>>
      [] o.kind = "byte_shift" -> o.op \in {"shl", "shr"} /\ T = <<ByteT, U64>> /\ R = <<ByteT>>
Convertible(ty) == ty.t \in {"byte", "bool", "float"} \/ (ty.t = "int" /\ ty.bits \in 1 .. CounterBits)
ValidConvert(o, T, R) == Convertible(o.ty) /\ Convertible(o.to) /\ T = <<o.ty>> /\ R = <<o.to>>

ValidSequenceConstruct(o, T, R) ==
    /\ o.n <= MaxSequence /\ All(T, o.n, o.ty) /\ OneResult(R)
    /\ R[1].t = "seq" /\ R[1].elem = o.ty /\ Fits(o.n, R[1])
ValidSequenceProject(o, T, R) ==
    /\ Len(T) = 2 /\ OneResult(R) /\ T[2] = U64
    /\ Compatible(T[1], SeqT(R[1], o.exact, o.cap))
ValidSelect(o, T, R) ==
    /\ Len(T) = 3 /\ T[1] = (IF o.ty.t = "vec" THEN MaskT(o.ty.lanes) ELSE BoolT)
    /\ T[2] = o.ty /\ T[3] = o.ty /\ R = <<o.ty>>
ValidSequenceReplace(o, T, R) ==
    o.exact /\ T = <<SeqT(o.ty, TRUE, o.cap), U64, o.ty>> /\ R = <<SeqT(o.ty, TRUE, o.cap)>>
ValidBoundCheck(o, T, R) == Len(T) = 2 /\ T[1].t = "seq" /\ T[2] = U64 /\ R = <<U64>>
ValidSequenceCopy(o, T, R) ==
    /\ o.exact /\ Len(T) = 5 /\ T[2] = U64 /\ T[4] = U64 /\ T[5] = U64
    /\ T[1] = SeqT(o.ty, TRUE, o.cap) /\ R = <<T[1]>>
    /\ Compatible(T[3], SeqT(o.ty, o.src.exact, o.src.cap))
ValidVector(o, T, R) ==
    LET vec == VecT(o.ty, o.n)
    IN CASE o.kind = "vec_construct" -> o.n \in 1 .. MaxLanes /\ All(T, o.n, o.ty) /\ R = <<vec>>
         [] o.kind = "vec_splat" -> T = <<o.ty>> /\ R = <<vec>>
         [] o.kind = "vec_extract" -> T = <<vec, U64>> /\ R = <<o.ty>>
         [] o.kind = "vec_replace" -> T = <<vec, U64, o.ty>> /\ R = <<vec>>
ValidLanes(o, T, R) ==
    LET vec == VecT(o.ty, o.n)
    IN CASE o.kind = "vec_binary" -> o.ty.t = "int" /\ o.op \in Operators \cup {"min", "max"}
                                     /\ All(T, 2, vec) /\ R = <<vec>>
         [] o.kind = "vec_compare" -> o.ty.t = "int" /\ o.op \in Predicates /\ All(T, 2, vec)
                                      /\ R = <<MaskT(o.n)>>
         [] o.kind = "vec_reduce" -> o.op \in {"sum", "min", "max"} /\ T = <<vec>> /\ R = <<o.ty>>
         [] o.kind = "mask" -> o.op \in {"and", "or", "xor"} /\ All(T, 2, MaskT(o.n)) /\ R = <<MaskT(o.n)>>
         [] o.kind = "mask_not" -> T = <<MaskT(o.n)>> /\ R = T
         [] o.kind = "mask_reduce" -> o.op \in {"any", "all", "none"} /\ T = <<MaskT(o.n)>> /\ R = <<BoolT>>
\* The operand of a length is not looked at.
ValidSequenceLength(o, T, R) == Len(T) = 1 /\ R = <<U64>>
ValidViewConstruct(o, T, R) ==
    /\ Len(T) = 3 /\ T[2] = U64 /\ T[3] = U64 /\ ~o.exact /\ o.cap <= MaxSequence
    /\ T[1].t = "seq" /\ T[1].exact = o.src.exact /\ T[1].cap = o.src.cap
    /\ R = <<SeqT(T[1].elem, FALSE, o.cap)>>
ValidViewNarrow(o, T, R) ==
    /\ o.cap <= o.src.cap /\ o.cap <= MaxSequence /\ Len(T) = 1
    /\ T[1].t = "seq" /\ ~T[1].exact /\ T[1].cap = o.src.cap
    /\ R = <<SeqT(T[1].elem, FALSE, o.cap)>>

Named(fields) == [i \in DOMAIN fields |-> NameOf(fields[i])]
Increasing(names) == \A i \in 1 .. Len(names) - 1 : names[i] < names[i + 1]
ValidFiniteConstruct(o, T, R) ==
    /\ HasVariant(o.nominal, o.variant) /\ Increasing(o.names)
    /\ LET payload == Finites[o.nominal][o.variant]
       IN Named(payload) = o.names /\ T = TypesOf(payload)
    /\ R = <<FinT(o.nominal)>>
ValidFiniteUse(o, T, R) ==
    /\ HasVariant(o.nominal, o.variant) /\ T = <<FinT(o.nominal)>> /\ OneResult(R)
    /\ IF o.kind = "fin_is" THEN IsBoolean(R[1])
       ELSE \E f \in DefsOf(Finites[o.nominal][o.variant]) : NameOf(f) = o.field /\ R[1] = f[2]
\* The names are those of the declaration, sorted; the operands are checked in the order the
\* declaration has.
ValidRecordConstruct(o, T, R) ==
    /\ o.nominal \in DOMAIN Records /\ Increasing(o.names) /\ Len(o.names) = Len(T)
    /\ o.names = Named(Sorted(Records[o.nominal]))
    /\ T = TypesOf(Records[o.nominal]) /\ R = <<RecT(o.nominal)>>
ValidRecordProject(o, T, R) ==
    /\ o.nominal \in DOMAIN Records /\ T = <<RecT(o.nominal)>>
    /\ \E f \in DefsOf(Records[o.nominal]) : NameOf(f) = o.field /\ R = <<f[2]>>

Kind(effect) == effect[1]
Target(effect) == effect[2]
Capability(effect) == effect[3]
\* The host operations, with their arities and the effects they discharge.
FsLists == {"fs_list_count", "fs_entry_name_at", "fs_entry_kind_at", "fs_entry_size_at", "fs_entry_mtime_at",
            "fs_generation"}
FsWrites == {"fs_create_file", "fs_write_bytes_at", "fs_append_bytes_at", "fs_mkdir", "fs_delete_at",
             "fs_rename_at", "fs_sync_at"}
Lifecycle == {"process_start", "process_observe", "process_cancel", "process_reap"}
HostOps == FsLists \cup FsWrites \cup Lifecycle
           \cup {"fs_read_bytes_at", "blob_read", "blob_append", "clock_read", "sha256_digest", "structured_digest",
                 "ed25519_verify", "structured_read", "structured_read_identity", "structured_write",
                 "provider_call", "process_run"}
HostArity(op) ==
    CASE op \in {"blob_read", "clock_read", "fs_list_count", "fs_generation"} -> 0
      [] op \in {"fs_create_file", "fs_append_bytes_at", "fs_rename_at", "structured_read", "provider_call"} -> 2
      [] op \in {"structured_read_identity", "structured_write", "ed25519_verify", "fs_read_bytes_at",
                 "fs_write_bytes_at"} -> 3
      [] OTHER -> 1
HostEffect(op) ==
    CASE op \in FsLists -> "fs_list" [] op = "fs_read_bytes_at" -> "fs_read" [] op \in FsWrites -> "fs_write"
      [] op \in Lifecycle -> "process_run" [] op = "blob_append" -> "host_write"
      [] op = "structured_read_identity" -> "structured_read"
      [] op \in {"clock_read", "sha256_digest", "structured_digest", "process_run", "structured_read",
                 "provider_call", "structured_write", "ed25519_verify"} -> op
      [] OTHER -> "host_read"
\* Variant: the callee's effects need no counterpart in the caller.
ValidCall_AnyEffect(p, fn, o, T, R) ==
    /\ o.fn \in DOMAIN p /\ Len(T) = Len(p[o.fn].in) /\ R = p[o.fn].outs
    /\ \A i \in DOMAIN T : Compatible(T[i], p[o.fn].in[i])
    /\ o.caps = p[o.fn].caps /\ o.effects = p[o.fn].effects /\ o.caps \subseteq fn.caps
\* A call records the authority its callee declares, and the caller declares it as well: the
\* capability and the kind of every effect, not its target.
ValidCall(p, fn, o, T, R) ==
    /\ o.fn \in DOMAIN p /\ Len(T) = Len(p[o.fn].in) /\ R = p[o.fn].outs
    /\ \A i \in DOMAIN T : Compatible(T[i], p[o.fn].in[i])
    /\ o.caps = p[o.fn].caps /\ o.effects = p[o.fn].effects
    /\ o.caps \subseteq fn.caps
    /\ \A e \in o.effects : \E d \in fn.effects : Kind(d) = Kind(e) /\ Capability(d) = Capability(e)
ValidEffect(fn, o, T, R) == T = <<>> /\ R = <<>> /\ o.effect \in fn.effects /\ Capability(o.effect) \in fn.caps
ValidHostCall(fn, o, T, R) ==
    /\ OneResult(R) /\ o.host \in HostOps /\ Len(T) = HostArity(o.host)
    /\ o.needs \in fn.caps
    /\ \E e \in fn.effects : Kind(e) = HostEffect(o.host) /\ Capability(e) = o.needs

ValidOperation(p, fn, o, T, R) ==
    CASE o.kind = "const" -> ValidConstant(o, T, R)
      [] o.kind = "int" -> ValidInteger(o, T, R)
      [] o.kind = "int_compare" -> ValidIntegerCompare(o, T, R)
      [] o.kind = "float_const" -> ValidFloatConstant(o, T, R)
      [] o.kind \in {"float", "float_compare", "float_intrinsic"} -> ValidFloatOp(o, T, R)
      [] o.kind \in {"bool", "bool_compare", "bool_not"} -> ValidBoolean(o, T, R)
      [] o.kind \in {"byte", "byte_compare", "byte_shift"} -> ValidByteOp(o, T, R)
      [] o.kind = "convert" -> ValidConvert(o, T, R)
      [] o.kind = "seq_construct" -> ValidSequenceConstruct(o, T, R)
      [] o.kind = "seq_project" -> ValidSequenceProject(o, T, R)
      [] o.kind = "select" -> ValidSelect(o, T, R)
      [] o.kind = "seq_replace" -> ValidSequenceReplace(o, T, R)
      [] o.kind = "bound_check" -> ValidBoundCheck(o, T, R)
      [] o.kind = "seq_copy" -> ValidSequenceCopy(o, T, R)
      [] o.kind = "seq_length" -> ValidSequenceLength(o, T, R)
      [] o.kind \in {"vec_construct", "vec_splat", "vec_extract", "vec_replace"} -> ValidVector(o, T, R)
      [] o.kind \in {"vec_binary", "vec_compare", "vec_reduce", "mask", "mask_not", "mask_reduce"} ->
           ValidLanes(o, T, R)
      [] o.kind = "view" -> ValidViewConstruct(o, T, R)
      [] o.kind = "narrow" -> ValidViewNarrow(o, T, R)
      [] o.kind = "fin_construct" -> ValidFiniteConstruct(o, T, R)
      [] o.kind \in {"fin_is", "fin_project"} -> ValidFiniteUse(o, T, R)
      [] o.kind = "rec_construct" -> ValidRecordConstruct(o, T, R)
      [] o.kind = "rec_project" -> ValidRecordProject(o, T, R)
      [] o.kind = "call" -> ValidCall(p, fn, o, T, R)
      [] o.kind = "effect" -> ValidEffect(fn, o, T, R)
      [] o.kind = "host" -> ValidHostCall(fn, o, T, R)
      [] o.kind = "check" -> TRUE
-----------------------------------------------------------------------------
(* Blocks and bodies. *)
ResultsOf(block, upTo) == UNION {DefsOf(block.ops[i].out) : i \in 1 .. upTo}
DefinedIn(block) == DefsOf(block.params) \cup ResultsOf(block, Len(block.ops))
\* What an operation may use: parameters, what dominating blocks define, earlier results.
Available(body, b, upTo) ==
    DefsOf(body.params) \cup DefsOf(body.blocks[b].params) \cup ResultsOf(body.blocks[b], upTo)
    \cup UNION {DefinedIn(body.blocks[d]) :
                  d \in {d \in DOMAIN body.blocks : d # b /\ Dominates(body, d, b)}}
ValidArguments(body, target, args, types) ==
    /\ target \in DOMAIN body.blocks
    /\ Range(args) \subseteq DOMAIN types
    /\ [i \in DOMAIN args |-> types[args[i]]] = TypesOf(body.blocks[target].params)
ValidTerminator(fn, term, types) ==
    CASE term.k = "return" -> /\ Range(term.vals) \subseteq DOMAIN types /\ Len(term.vals) = Len(fn.outs)
                              /\ \A i \in DOMAIN term.vals : Compatible(types[term.vals[i]], fn.outs[i])
      [] term.k = "branch" -> ValidArguments(fn.body, term.to, term.args, types)
      [] term.k = "cond" -> /\ term.on \in DOMAIN types /\ IsBoolean(types[term.on])
                            /\ ValidArguments(fn.body, term.to, term.args, types)
                            /\ ValidArguments(fn.body, term.else, term.elseArgs, types)
      [] OTHER -> TRUE
ValidBlock(p, fn, b) ==
    LET block == fn.body.blocks[b]
    IN /\ \A i \in DOMAIN block.ops :
            LET o == block.ops[i]
                types == TypeMap(Available(fn.body, b, i - 1))
            IN /\ Range(o.in) \subseteq DOMAIN types
               /\ ValidOperation(p, fn, o, [j \in DOMAIN o.in |-> types[o.in[j]]], TypesOf(o.out))
       /\ ValidTerminator(fn, block.term, TypeMap(Available(fn.body, b, Len(block.ops))))
DefinedOnce(body) ==
    LET parts == {<<"params", 0>>} \cup {<<"block", b>> : b \in DOMAIN body.blocks}
        defs(part) == IF part[1] = "params" THEN body.params
                      ELSE body.blocks[part[2]].params
                           \o FlattenSeq([i \in DOMAIN body.blocks[part[2]].ops |-> body.blocks[part[2]].ops[i].out])
        ids(part) == {defs(part)[i][1] : i \in DOMAIN defs(part)}
    IN /\ \A part \in parts : Cardinality(ids(part)) = Len(defs(part))
       /\ \A x, y \in parts : x # y => ids(x) \cap ids(y) = {}
ValidBody(p, fn) ==
    /\ TypesOf(fn.body.params) = fn.in
    /\ fn.body.entry \in DOMAIN fn.body.blocks
    /\ Reachable(fn.body) = DOMAIN fn.body.blocks
    /\ BackedgesDeclared(fn.body) /\ \A it \in fn.body.iterations : ValidIteration(fn, it)
    /\ DefinedOnce(fn.body)
    /\ \A b \in DOMAIN fn.body.blocks : ValidBlock(p, fn, b)
ValidProgram(p) == \A f \in DOMAIN p : p[f].hasBody => ValidBody(p, p[f])
=============================================================================

----------------------------- MODULE SsaOperations -----------------------------
(***************************************************************************)
(* What one instruction computes in the SSA engine (execute_instruction in *)
(* crates/mncs-model/src/ssa_execution.rs).  The arms were written after   *)
(* the reference engine's and share its scalar evaluators; they differ in  *)
(* which check comes first and in some failure texts.                      *)
(***************************************************************************)
EXTENDS HostCalls

\* boolean_operands, float_operands, integer_operands, byte_operands: exactly these.
SsaOperands(v, ks) == Len(v) = Len(ks) /\ \A i \in DOMAIN ks : KindAt(v, i, ks[i])
Silent == Refuse("")   \* the result stays InvalidRequest with no failure recorded

SsaConstantValue(n, ty) ==
    CASE IsU1(ty) /\ n \in {0, 1} -> Some(BoolV(n = 1))
      [] ty.t = "int" /\ InRange(n, ty) -> Some(IntV(n, ty))
      [] ty = BoolT /\ n \in {0, 1} -> Some(BoolV(n = 1))
      [] ty = ByteT /\ IsByte(n) -> Some(ByteV(n))
      [] OTHER -> None
SsaConstant(o) == Yield(SsaConstantValue(o.val, o.ty), "Unsupported", "constant")
SsaRecord(o, v) ==
    CASE o.kind = "rec_construct" ->
           IF Len(o.names) # Len(v) THEN Refuse("record field count")
           ELSE IF Missing(v) THEN Refuse("record operand")
           ELSE Ok(<<RecV(o.nominal, Sorted([i \in DOMAIN v |-> <<o.names[i], v[i]>>]))>>)
      [] o.kind = "rec_project" ->
           IF v = <<>> THEN Silent
           ELSE IF ~KindAt(v, 1, "rec") THEN Refuse("not a record")
           ELSE Yield(Field(v[1].fields, o.field), "InvalidRequest", "no such record field")
\* Variant: a widened result is given its operands' type.
SsaInteger_Unwidened(o, v, R) ==
    IF ~SsaOperands(v, <<"int", "int">>) THEN Refuse("integer operands")
    ELSE Yield(Then(EvaluateInteger(o.op, o.ty, o.intent, o.bits, v[1].n, v[2].n), LAMBDA n : Some(IntV(n, o.ty))),
               "RuntimeFailure", "integer overflow")
SsaInteger(o, v, R) ==
    IF ~OperatorSupported(o.op, o.intent) THEN Fail("Unsupported", "integer operator")
    ELSE IF ~SsaOperands(v, <<"int", "int">>) THEN Refuse("integer operands")
    ELSE Yield(Then(EvaluateInteger(o.op, o.ty, o.intent, o.bits, v[1].n, v[2].n),
                    LAMBDA n : Some(IntV(n, IF R[1].t = "int" THEN R[1] ELSE o.ty))),
               "RuntimeFailure", "integer overflow")
SsaIntegerCompare(o, v) ==
    IF ~SsaOperands(v, <<"int", "int">>) THEN Refuse("integer comparison operands")
    ELSE Yield(Then(CompareIntegers(o.op, o.ty, v[1].n, v[2].n), LAMBDA b : Some(BoolV(b))),
               "Unsupported", "integer predicate")
SsaFloat(o, v) ==
    CASE o.kind = "float_const" -> Ok(<<FloatV(o.val)>>)
      [] o.kind = "float" ->
           IF o.op \notin {"add", "sub", "mul", "div"} THEN Fail("Unsupported", "float operator")
           ELSE IF ~SsaOperands(v, <<"float", "float">>) THEN Refuse("float operands")
           ELSE Yield(Then(EvaluateFloat(o.op, v[1].f, v[2].f), LAMBDA f : Some(FloatV(f))),
                      "RuntimeFailure", "float trap")
      [] o.kind = "float_compare" ->
           IF ~SsaOperands(v, <<"float", "float">>) THEN Refuse("float comparison operands")
           ELSE IF ~(Finite(v[1].f) /\ Finite(v[2].f)) THEN Fail("RuntimeFailure", "float comparison trap")
           ELSE Yield(Then(CompareFloats(o.op, v[1].f, v[2].f), LAMBDA b : Some(BoolV(b))),
                      "Unsupported", "float predicate")
      [] o.kind = "float_intrinsic" ->
           IF ~SsaOperands(v, <<"float">>) THEN Refuse("float intrinsic operand")
           ELSE IF ~Finite(v[1].f) THEN Fail("RuntimeFailure", "float intrinsic trap")
           ELSE Ok(<<FloatV(Libm(o.op, v[1].f))>>)
SsaBoolean(o, v) ==
    CASE o.kind = "bool" ->
           IF ~SsaOperands(v, <<"bool", "bool">>) THEN Refuse("boolean operands")
           ELSE Ok(<<BoolV(IF o.op = "and" THEN v[1].b /\ v[2].b ELSE v[1].b \/ v[2].b)>>)
      [] o.kind = "bool_compare" ->
           IF ~SsaOperands(v, <<"bool", "bool">>) THEN Refuse("boolean comparison operands")
           ELSE Ok(<<BoolV(IF o.op = "eq" THEN v[1].b = v[2].b ELSE v[1].b # v[2].b)>>)
      [] o.kind = "bool_not" ->
           IF Len(v) # 1 THEN Refuse("boolean negation arity")
           ELSE IF ~KindAt(v, 1, "bool") THEN Refuse("boolean negation operand") ELSE Ok(<<BoolV(~v[1].b)>>)
SsaByte(o, v) ==
    CASE o.kind = "byte" ->
           IF ~SsaOperands(v, <<"byte", "byte">>) THEN Refuse("byte operands")
           ELSE Yield(Then(EvaluateByteBitwise(o.op, v[1].byte, v[2].byte), LAMBDA b : Some(ByteV(b))),
                      "Unsupported", "byte operator")
      [] o.kind = "byte_shift" ->
           IF ~SsaOperands(v, <<"byte", "int">>) \/ v[2].n < 0 THEN Refuse("byte shift operands")
           ELSE Yield(Then(EvaluateByteShift(o.op, v[1].byte, v[2].n), LAMBDA b : Some(ByteV(b))),
                      "Unsupported", "byte shift operator")
      [] o.kind = "byte_compare" ->
           IF ~SsaOperands(v, <<"byte", "byte">>) THEN Refuse("byte comparison operands")
           ELSE Yield(Then(CompareBytes(o.op, v[1].byte, v[2].byte), LAMBDA b : Some(BoolV(b))),
                      "Unsupported", "byte predicate")
SsaConvert(o, v) ==
    IF v = <<>> \/ v[1] = Absent THEN Refuse("conversion operand") ELSE ConvertScalar(v[1], o.ty, o.to)
-----------------------------------------------------------------------------
SsaSequenceConstruct(o, v) ==
    IF Len(v) # o.n THEN Refuse("sequence element count")
    ELSE IF Missing(v) THEN Refuse("sequence operand") ELSE Ok(<<SeqV(v)>>)
SsaVectorBuild(o, v) ==
    CASE o.kind = "vec_construct" ->
           IF Missing(v) THEN Refuse("vector operand")
           ELSE IF Len(v) # o.n THEN Refuse("vector lanes") ELSE Ok(<<VecV(v)>>)
      [] o.kind = "vec_splat" ->
           IF v = <<>> \/ v[1] = Absent THEN Refuse("splat operand") ELSE Ok(<<VecV([i \in 1 .. o.n |-> v[1]])>>)
SsaVectorLane(o, v) ==
    LET outside == v[2].n < 0 \/ v[2].n >= o.n
        bounds == Fail(IF o.checked THEN "RuntimeFailure" ELSE "InvalidRequest", "lane bounds")
        past == v[2].n >= Len(v[1].vals)
    IN CASE ~KindAt(v, 1, "vec") -> Refuse(IF o.kind = "vec_extract" THEN "extraction operand" ELSE "replacement source")
         [] KindAt(v, 1, "vec") /\ ~KindAt(v, 2, "int") -> Refuse("lane index")
         [] OTHER -> IF o.kind = "vec_replace" /\ (Len(v) < 3 \/ Missing(v)) THEN Refuse("replacement element")
                     ELSE IF outside THEN bounds
                     ELSE IF past THEN Fail("Panic", "index")
                     ELSE IF o.kind = "vec_extract" THEN Ok(<<v[1].vals[v[2].n + 1]>>)
                     ELSE Ok(<<VecV([v[1].vals EXCEPT ![v[2].n + 1] = v[3]])>>)
\* ssa_vector_operands, ssa_mask_operands
TwoVectors(v) == KindAt(v, 1, "vec") /\ KindAt(v, 2, "vec") /\ Len(v[1].vals) = Len(v[2].vals)
TwoMasks(v) == KindAt(v, 1, "mask") /\ KindAt(v, 2, "mask") /\ Len(v[1].on) = Len(v[2].on)
SsaVectorPair(o, v) ==
    CASE o.kind = "vec_binary" ->
           IF ~TwoVectors(v) THEN Refuse("vector binary operands")
           ELSE Yield(Then(EvaluateVectorBinary(o, v[1].vals, v[2].vals), LAMBDA s : Some(VecV(s))),
                      "RuntimeFailure", "vector arithmetic")
      [] o.kind = "vec_compare" ->
           IF ~TwoVectors(v) THEN Refuse("vector comparison operands")
           ELSE Yield(Then(EvaluateVectorCompare(o, v[1].vals, v[2].vals), LAMBDA s : Some(MaskV(s))),
                      "InvalidRequest", "vector comparison")
SsaMask(o, v) ==
    CASE o.kind = "mask" ->
           IF ~TwoMasks(v) THEN Refuse("mask operands")
           ELSE Ok(<<MaskV([i \in DOMAIN v[1].on |-> MaskLane(o.op, v[1].on[i], v[2].on[i])])>>)
      [] ~KindAt(v, 1, "mask") -> Refuse(IF o.kind = "mask_not" THEN "mask not operand" ELSE "mask reduction operand")
      [] o.kind = "mask_not" -> Ok(<<MaskV([i \in DOMAIN v[1].on |-> ~v[1].on[i]])>>)
      [] OTHER -> Ok(<<BoolV(MaskSummary(o.op, v[1].on))>>)
SsaVectorReduce(o, v) ==
    IF ~KindAt(v, 1, "vec") THEN Refuse("reduction operand")
    ELSE Yield(EvaluateVectorReduce(o, v[1].vals), "RuntimeFailure", "vector reduction")
SsaSequenceProject(o, v) ==
    IF ~KindAt(v, 1, "seq") THEN Refuse("projection operand")
    ELSE IF ~KindAt(v, 2, "int") THEN Refuse("projection index")
    ELSE IF v[2].n < 0 THEN Refuse("projection domain")
    ELSE IF v[2].n < Len(v[1].vals) THEN Ok(<<v[1].vals[v[2].n + 1]>>)
    ELSE IF o.checked THEN Fail("RuntimeFailure", "projection range") ELSE Refuse("projection invariant")
SsaSelect(o, v) ==
    IF v = <<>> \/ v[1] = Absent THEN Refuse("selection condition")
    ELSE IF v[1].k = "mask" THEN
      IF ~KindAt(v, 2, "vec") THEN Refuse("true candidate")
      ELSE IF ~KindAt(v, 3, "vec") THEN Refuse("false candidate")
      ELSE IF Len(v[1].on) # Len(v[2].vals) \/ Len(v[1].on) # Len(v[3].vals) THEN Refuse("masked lanes")
      ELSE Ok(<<VecV(Masked(v[1].on, v[2].vals, v[3].vals))>>)
    ELSE IF v[1].k # "bool" THEN Refuse("selection condition kind")
    ELSE LET at == IF v[1].b THEN 2 ELSE 3
         IN IF at > Len(v) \/ v[at] = Absent THEN Refuse("selection candidate") ELSE Ok(<<v[at]>>)
SsaSequenceReplace(o, v) ==
    IF ~o.exact THEN Fail("Unsupported", "update bound")
    ELSE IF ~KindAt(v, 1, "seq") THEN Refuse("update source")
    ELSE IF ~KindAt(v, 2, "int") THEN Refuse("update index")
    ELSE IF Len(v) < 3 \/ Missing(v) THEN Refuse("update element")
    ELSE IF v[2].n < 0 \/ v[2].n >= o.cap
    THEN Fail("RuntimeFailure", IF o.checked THEN "update range" ELSE "update bound violated")
    ELSE Updated(v[1].vals, v[2].n, v[3])
SsaBoundCheck(o, v) ==
    IF ~KindAt(v, 1, "seq") THEN Refuse("checked sequence")
    ELSE IF ~KindAt(v, 2, "int") THEN Refuse("checked index")
    ELSE IF v[2].n < 0 \/ v[2].n >= Len(v[1].vals) THEN Fail("RuntimeFailure", "checked range")
    ELSE Ok(<<IntV(v[2].n, U64)>>)
\* Variant: the destination window is not checked.
SsaSequenceCopy_NoDestination(o, v) ==
    IF v[4].n + v[5].n > Len(v[3].vals) THEN Fail("RuntimeFailure", "copy range")
    ELSE Copied(v[1].vals, v[2].n, v[3].vals, v[4].n, v[5].n)
SsaSequenceCopy(o, v) ==
    IF ~o.exact THEN Fail("Unsupported", "copy bound")
    ELSE IF ~KindAt(v, 1, "seq") THEN Refuse("copy destination")
    ELSE IF ~KindAt(v, 3, "seq") THEN Refuse("copy source")
    ELSE IF \E i \in {2, 4, 5} : ~KindAt(v, i, "int") THEN Refuse("copy offsets")
    ELSE IF /\ \A i \in {2, 4, 5} : v[i].n >= 0
            /\ v[2].n + v[5].n <= o.cap /\ v[4].n + v[5].n <= Len(v[3].vals)
    THEN Copied(v[1].vals, v[2].n, v[3].vals, v[4].n, v[5].n)
    ELSE Fail("RuntimeFailure", IF o.checked THEN "copy range" ELSE "copy bounds violated")
SsaSequenceLength(o, v) ==
    IF ~KindAt(v, 1, "seq") THEN Refuse("length operand") ELSE Ok(<<IntV(Len(v[1].vals), U64)>>)
SsaView(o, v) ==
    CASE o.kind = "view" /\ o.exact -> Refuse("view bound")
      [] o.kind = "view" /\ ~o.exact ->
           IF ~KindAt(v, 1, "seq") THEN Refuse("view source")
           ELSE IF ~(KindAt(v, 2, "int") /\ KindAt(v, 3, "int")) THEN Refuse("view endpoints")
           ELSE IF v[2].n < 0 \/ v[3].n < v[2].n THEN Fail("RuntimeFailure", "view range")
           ELSE IF v[3].n > Len(v[1].vals) THEN Fail("RuntimeFailure", "view end")
           ELSE IF v[3].n - v[2].n > o.cap THEN Fail("RuntimeFailure", "view capacity")
           ELSE Ok(<<SeqV(SubSeq(v[1].vals, v[2].n + 1, v[3].n))>>)
      [] o.kind = "narrow" ->
           IF ~KindAt(v, 1, "seq") THEN Refuse("narrowing source")
           ELSE IF Len(v[1].vals) > o.cap THEN Fail("RuntimeFailure", "narrowed capacity") ELSE Ok(<<v[1]>>)
SsaFinite(o, v) ==
    CASE o.kind = "fin_construct" ->
           IF Missing(v) \/ Len(v) # Len(o.names) THEN Refuse("finite payload operand")
           ELSE Ok(<<FinV(o.nominal, o.variant, [i \in DOMAIN v |-> <<o.names[i], v[i]>>])>>)
      [] o.kind = "fin_project" ->
           IF ~KindAt(v, 1, "fin") THEN Refuse("payload projection operand")
           ELSE IF <<v[1].id, v[1].variant, v[1].disc>> # <<o.nominal, o.variant, o.variant>>
           THEN Refuse("payload projection variant")
           ELSE Yield(Field(v[1].fields, o.field), "InvalidRequest", "payload field")
      [] o.kind = "fin_is" ->
           IF ~KindAt(v, 1, "fin") THEN Refuse("variant test operand")
           ELSE IF v[1].id # o.nominal \/ ~ValidFinite(v[1].id, v[1].variant, v[1].disc)
           THEN Refuse("variant test value")
           ELSE Ok(<<BoolV(v[1].variant = o.variant /\ v[1].disc = o.variant)>>)
SsaEvaluate(o, v, R) ==
    CASE o.kind = "const" -> SsaConstant(o)
      [] o.kind \in {"rec_construct", "rec_project"} -> SsaRecord(o, v)
      [] o.kind = "int" -> SsaInteger(o, v, R)
      [] o.kind = "int_compare" -> SsaIntegerCompare(o, v)
      [] o.kind \in {"float_const", "float", "float_compare", "float_intrinsic"} -> SsaFloat(o, v)
      [] o.kind \in {"bool", "bool_compare", "bool_not"} -> SsaBoolean(o, v)
      [] o.kind \in {"byte", "byte_compare", "byte_shift"} -> SsaByte(o, v)
      [] o.kind = "convert" -> SsaConvert(o, v)
      [] o.kind = "seq_construct" -> SsaSequenceConstruct(o, v)
      [] o.kind \in {"vec_construct", "vec_splat"} -> SsaVectorBuild(o, v)
      [] o.kind \in {"vec_extract", "vec_replace"} -> SsaVectorLane(o, v)
      [] o.kind \in {"vec_binary", "vec_compare"} -> SsaVectorPair(o, v)
      [] o.kind \in {"mask", "mask_not", "mask_reduce"} -> SsaMask(o, v)
      [] o.kind = "vec_reduce" -> SsaVectorReduce(o, v)
      [] o.kind = "seq_project" -> SsaSequenceProject(o, v)
      [] o.kind = "select" -> SsaSelect(o, v)
      [] o.kind = "seq_replace" -> SsaSequenceReplace(o, v)
      [] o.kind = "bound_check" -> SsaBoundCheck(o, v)
      [] o.kind = "seq_copy" -> SsaSequenceCopy(o, v)
      [] o.kind = "seq_length" -> SsaSequenceLength(o, v)
      [] o.kind \in {"view", "narrow"} -> SsaView(o, v)
      [] o.kind \in {"fin_construct", "fin_project", "fin_is"} -> SsaFinite(o, v)
-----------------------------------------------------------------------------
(* Host calls. *)
SsaHostFsRead(o, v, g) ==
    IF \E i \in 1 .. HostArity(o.host) : ~HostU64(v, i) THEN Refuse("fs operands")
    ELSE LET value == FsRealize(o.host, g)
         IN IF value = None THEN AnswerFailure(g)
            ELSE Done(value, <<Event(HostEffect(o.host), "tree", o.needs, TRUE)>>, <<>>)
SsaHostFsMutate(o, v, g, observing) ==
    LET refused(i) == IF i \in ViewPositions(o.host) THEN ~View(v, i) ELSE ~HostU64(v, i)
    IN IF \E i \in 1 .. HostArity(o.host) : refused(i) THEN Refuse("fs operands")
       ELSE IF g.answer = "invalid" \/ (g.answer = "fails" /\ ~observing) THEN AnswerFailure(g)
       ELSE Done(<<IntV(0, U64)>>, <<Event("fs_write", "tree", o.needs, ~observing)>>,
                 IF observing THEN <<>> ELSE <<o.host>>)
SsaProviderCall(o, v, R, req, remaining) ==
    IF ~KindAt(v, 1, "seq") \/ ~ByteSeq(v[1]) \/ Len(v[1].vals) > DigestLen THEN Refuse("provider identity view")
    ELSE IF Len(v[1].vals) # DigestLen THEN Refuse("provider identity length")
    ELSE IF Len(v) < 2 \/ Missing(v) THEN Refuse("provider request")
    ELSE IF req.provider = None THEN Fail("Unsupported", "provider runtime")
    ELSE IF remaining = 0 THEN Fail("BudgetExhausted", "budget before provider")
    ELSE LET p == req.provider[1]
         IN IF p.answer # "ok" THEN Refuse("provider refused")
            ELSE IF ~MatchesType(p.value, R[1]) THEN FailAfter("InvalidRequest", "provider value", <<o.host>>)
            ELSE Done(<<p.value>>, <<Event("provider_call", "provider", o.needs, FALSE)>> \o p.events, <<o.host>>)
SsaStructuredRead(o, v, R, g) ==
    IF \E i \in 1 .. HostArity(o.host) : ~View(v, i) THEN Refuse("structured operand")
    ELSE IF g.answer # "ok" THEN AnswerFailure(g)
    ELSE Done(<<Sample(R[1])>>, <<Event("structured_read", "artifact", o.needs, TRUE)>>, <<>>)
SsaStructuredWrite(o, v, g, observing) ==
    IF Len(v) < 3 \/ v[3] = Absent THEN Refuse("structured value")
    ELSE IF ~(View(v, 1) /\ View(v, 2)) THEN Refuse("structured operand")
    ELSE IF g.answer = "invalid" \/ (g.answer = "fails" /\ ~observing) THEN AnswerFailure(g)
    ELSE Done(<<IntV(1, U64)>>, <<Event("structured_write", "artifact", o.needs, ~observing)>>,
              IF observing THEN <<>> ELSE <<o.host>>)
\* Without a session the start is answered as unsupported, in a value.
SsaProcessStart(o, v, R, g, req) ==
    LET acts == IF req.session /\ g.answer = "ok" THEN <<o.host>> ELSE <<>>
    IN IF ~ProcessRequestOf(v) THEN Refuse("process request")
       ELSE IF ~g.authorizes THEN Refuse("process executable")
       ELSE IF req.session /\ g.answer = "invalid" THEN Refuse("resource refuses")
       ELSE IF ~ProcessResult(R, "ProcessStartResult") THEN FailAfter("InvalidRequest", "process result", acts)
       ELSE Done(<<Sample(R[1])>>, <<Event(o.host, "process", o.needs, TRUE)>>, acts)
SsaManage(o, v, R, g, req) ==
    LET owned == req.session /\ OwnedHandle(v, g)
        acts == IF owned THEN <<o.host>> ELSE <<>>
    IN IF owned /\ ~g.authorizes THEN Refuse("owned executable")
       ELSE IF ~ProcessResult(R, "ProcessObservation") THEN FailAfter("InvalidRequest", "process result", acts)
       ELSE Done(<<Sample(R[1])>>, <<Event(o.host, IF owned THEN "process" ELSE "unknown process", o.needs, TRUE)>>, acts)
SsaLifecycle(o, v, R, g, req, observing) ==
    IF observing THEN Fail("Unsupported", "lifecycle policy")
    ELSE IF v = <<>> \/ Missing(v) THEN Refuse("process argument")
    ELSE IF o.host = "process_start" THEN SsaProcessStart(o, v, R, g, req) ELSE SsaManage(o, v, R, g, req)
\* With no session the process runs in a runtime of its own.
SsaProcessRun(o, v, R, g, observing) ==
    IF observing THEN Fail("Unsupported", "process policy")
    ELSE IF v = <<>> \/ Missing(v) THEN Refuse("process argument")
    ELSE IF ~ProcessRequestOf(v) THEN Refuse("process request")
    ELSE IF ~g.authorizes THEN Refuse("process executable")
    ELSE IF g.answer = "invalid" THEN Refuse("resource refuses")
    ELSE IF g.answer = "fails" THEN FailAfter("Unsupported", "process completion", <<o.host>>)
    ELSE IF ~ProcessResult(R, "ProcessResult") THEN FailAfter("InvalidRequest", "process result", <<o.host>>)
    ELSE Done(<<Sample(R[1])>>, <<Event("process_run", "process", o.needs, TRUE)>>, <<o.host>>)
SsaHostPure(o, v, g) ==
    LET done(val) == Done(<<val>>, <<Event(HostEffect(o.host), o.host, o.needs, TRUE)>>, <<>>)
    IN CASE o.host = "structured_digest" ->
              IF v = <<>> \/ Missing(v) THEN Refuse("digest operand") ELSE done(Bytes(DigestLen))
         [] o.host = "clock_read" -> IF g.answer # "ok" THEN Refuse("clock") ELSE done(IntV(1, U64))
         [] o.host = "sha256_digest" -> IF ~View(v, 1) THEN Refuse("digest view") ELSE done(Bytes(DigestLen))
         [] o.host = "ed25519_verify" ->
              IF \E i \in 1 .. 3 : ~View(v, i) THEN Refuse("key, message and signature")
              ELSE IF Len(v[1].vals) # DigestLen \/ Len(v[3].vals) # SignatureLen THEN Refuse("key lengths")
              ELSE done(BoolV(TRUE))
SsaBlobAppend(o, v, g, observing) ==
    IF ~View(v, 1) THEN Refuse("write view")
    ELSE IF ~observing /\ g.answer # "ok" THEN Fail("RuntimeFailure", "resource fails")
    ELSE Done(<<IntV(Len(v[1].vals), U64)>>, <<Event("host_write", o.host, o.needs, ~observing)>>,
              IF observing THEN <<>> ELSE <<o.host>>)
SsaBlobRead(o, g) == Done(<<SeqV(g.bytes)>>, <<Event("host_read", o.host, o.needs, TRUE)>>, <<>>)
SsaHostCall(o, v, R, req, remaining) ==
    LET observing == req.policy = "record"
        found == IF o.host = "provider_call" /\ req.provider # None THEN <<AdmittedGrant(o.needs)>>
                 ELSE GrantsFor(req, o.needs)
        g == found[1]
    IN IF o.host \notin HostOps THEN Fail("Unsupported", "host operation")
       ELSE IF ~observing /\ req.policy # "realize" THEN Fail("Unsupported", "host policy")
       ELSE IF found = <<>> THEN Refuse("host grant")
       ELSE IF Len(g.bytes) > MaxGrant THEN Refuse("grant bound")
       ELSE CASE o.host \in FsLists \cup {"fs_read_bytes_at"} -> SsaHostFsRead(o, v, g)
              [] o.host \in FsWrites -> SsaHostFsMutate(o, v, g, observing)
              [] o.host = "provider_call" -> SsaProviderCall(o, v, R, req, remaining)
              [] o.host \in {"structured_read", "structured_read_identity"} -> SsaStructuredRead(o, v, R, g)
              [] o.host = "structured_write" -> SsaStructuredWrite(o, v, g, observing)
              [] o.host \in Lifecycle -> SsaLifecycle(o, v, R, g, req, observing)
              [] o.host = "process_run" -> SsaProcessRun(o, v, R, g, observing)
              [] o.host = "blob_append" -> SsaBlobAppend(o, v, g, observing)
              [] o.host = "blob_read" -> SsaBlobRead(o, g)
              [] OTHER -> SsaHostPure(o, v, g)
=============================================================================

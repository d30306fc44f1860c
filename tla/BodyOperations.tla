---------------------------- MODULE BodyOperations ----------------------------
(***************************************************************************)
(* What one operation of a body computes in the reference engine           *)
(* (execute_operation in crates/mncs-model/src/execution.rs, the value     *)
(* producing arms).                                                        *)
(*                                                                         *)
(* v holds the operands; Absent stands for one the frame has no value for, *)
(* R are the types of the results.  The second argument of Fail names the  *)
(* text of the failure: equal names, equal texts.                          *)
(***************************************************************************)
EXTENDS BodyModel

Absent == [k |-> "absent"]
Kinds(v, ks) == Len(v) = Len(ks) /\ \A i \in DOMAIN v : v[i].k = ks[i]
Missing(v) == \E i \in DOMAIN v : v[i] = Absent
KindAt(v, i, k) == i \in DOMAIN v /\ v[i].k = k
Refuse(why) == Fail("InvalidRequest", why)
Yield(opt, st, why) == IF opt = None THEN Fail(st, why) ELSE Ok(opt)
Field(fields, name) == LET named == SelectSeq(fields, LAMBDA f : NameOf(f) = name)
                       IN IF named = <<>> THEN None ELSE Some(ValueOf(named[1]))
Smaller(a, b) == IF a < b THEN a ELSE b
-----------------------------------------------------------------------------
(* Evaluators both engines call. *)

\* A float that leaves the finite ones is no value.
FloatResult(f) == IF Finite(f) THEN Some(f) ELSE None
EvaluateFloat(op, a, b) ==
    IF ~Finite(a) \/ ~Finite(b) THEN None
    ELSE CASE op = "add" -> FloatResult(a + b) [] op = "sub" -> FloatResult(a - b)
           [] op = "mul" -> FloatResult(a * b)
           [] op = "div" -> IF b = 0 THEN None ELSE FloatResult(Quotient(a, b))
           [] OTHER -> None
CompareFloats(predicate, a, b) ==
    IF Finite(a) /\ Finite(b) /\ predicate \in Predicates THEN Some(Holds(predicate, a, b)) ELSE None
\* The host's mathematical functions: some finite float that depends on the input.
Libm(function, f) == IF function = "neg" THEN -f ELSE Abs(f) % 2

\* All or nothing over the lanes.
Collect(options) == IF \E i \in DOMAIN options : options[i] = None THEN None
                    ELSE Some([i \in DOMAIN options |-> options[i][1]])
LanePairs(ty, a, b, F(_, _)) ==
    IF ty.t # "int" THEN None
    ELSE Collect([i \in 1 .. Smaller(Len(a), Len(b)) |->
                    IF a[i].k # "int" \/ b[i].k # "int" \/ a[i].ty # ty \/ b[i].ty # ty THEN None
                    ELSE F(a[i].n, b[i].n)])
LaneValue(op, ty, intent, bits, a, b) ==
    CASE op = "min" -> Some(IF a < b THEN a ELSE b)
      [] op = "max" -> Some(IF a > b THEN a ELSE b)
      [] OTHER -> EvaluateInteger(op, ty, intent, bits, a, b)
EvaluateVectorBinary(o, a, b) ==
    Then(LanePairs(o.ty, a, b, LAMBDA x, y : LaneValue(o.op, o.ty, o.intent, o.bits, x, y)),
         LAMBDA s : Some([i \in DOMAIN s |-> IntV(s[i], o.ty)]))
EvaluateVectorCompare(o, a, b) == LanePairs(o.ty, a, b, LAMBDA x, y : CompareIntegers(o.op, o.ty, x, y))
\* Lanes are combined from the first to the last.
EvaluateVectorReduce(o, lanes) ==
    IF o.ty.t # "int" \/ lanes = <<>> \/ \E i \in DOMAIN lanes : lanes[i].k # "int" \/ lanes[i].ty # o.ty
    THEN None
    ELSE LET op == IF o.op = "sum" THEN "add" ELSE o.op
             step(acc, lane) == Then(acc, LAMBDA a : LaneValue(op, o.ty, o.intent, o.bits, a, lane.n))
         IN Then(FoldLeft(step, Some(lanes[1].n), Tail(lanes)), LAMBDA n : Some(IntV(n, o.ty)))
MaskLane(op, a, b) == CASE op = "and" -> a /\ b [] op = "or" -> a \/ b [] OTHER -> a # b
MaskSummary(op, on) == CASE op = "any" -> \E i \in DOMAIN on : on[i]
                         [] op = "all" -> \A i \in DOMAIN on : on[i]
                         [] OTHER -> ~\E i \in DOMAIN on : on[i]
Masked(on, a, b) == [i \in DOMAIN on |-> IF on[i] THEN a[i] ELSE b[i]]
\* An update of what is shorter than its type says indexes past its end.
Updated(s, i, x) == IF i >= Len(s) THEN Fail("Panic", "index") ELSE Ok(<<SeqV([s EXCEPT ![i + 1] = x])>>)
Copied(dst, at, src, from, n) ==
    IF at + n > Len(dst) THEN Fail("Panic", "range")
    ELSE Ok(<<SeqV([i \in DOMAIN dst |-> IF i \in at + 1 .. at + n THEN src[i - at + from] ELSE dst[i]])>>)
-----------------------------------------------------------------------------
(* Scalars. *)
EvalConstant(o) == Yield(ConstantValue(o.val, o.ty), "Unsupported", "constant")
EvalInteger(o, v, R) ==
    IF ~Kinds(v, <<"int", "int">>) THEN Refuse("integer operands")
    ELSE IF ~OperatorSupported(o.op, o.intent) THEN Fail("Unsupported", "integer operator")
    ELSE Yield(Then(EvaluateInteger(o.op, o.ty, o.intent, o.bits, v[1].n, v[2].n),
                    LAMBDA n : Some(IntV(n, IF R[1].t = "int" THEN R[1] ELSE o.ty))),
               "RuntimeFailure", "integer overflow")
EvalIntegerCompare(o, v) ==
    IF ~Kinds(v, <<"int", "int">>) THEN Refuse("integer comparison operands")
    ELSE Yield(Then(CompareIntegers(o.op, o.ty, v[1].n, v[2].n), LAMBDA b : Some(BoolV(b))),
               "Unsupported", "integer predicate")
EvalFloat(o, v) ==
    CASE o.kind = "float_const" -> Ok(<<FloatV(o.val)>>)
      [] o.kind = "float" ->
           IF ~Kinds(v, <<"float", "float">>) THEN Refuse("float operands")
           ELSE Yield(Then(EvaluateFloat(o.op, v[1].f, v[2].f), LAMBDA f : Some(FloatV(f))),
                      "RuntimeFailure", "float trap")
      [] o.kind = "float_compare" ->
           IF ~Kinds(v, <<"float", "float">>) THEN Refuse("float comparison operands")
           ELSE IF ~Finite(v[1].f) \/ ~Finite(v[2].f) THEN Fail("RuntimeFailure", "float comparison trap")
           ELSE Yield(Then(CompareFloats(o.op, v[1].f, v[2].f), LAMBDA b : Some(BoolV(b))),
                      "Unsupported", "float predicate")
      [] o.kind = "float_intrinsic" ->
           IF ~Kinds(v, <<"float">>) THEN Refuse("float intrinsic operand")
           ELSE IF ~Finite(v[1].f) THEN Fail("RuntimeFailure", "float intrinsic trap")
           ELSE Ok(<<FloatV(Libm(o.op, v[1].f))>>)
EvalBoolean(o, v) ==
    CASE o.kind = "bool" ->
           IF ~Kinds(v, <<"bool", "bool">>) THEN Refuse("boolean operands")
           ELSE Ok(<<BoolV(IF o.op = "and" THEN v[1].b /\ v[2].b ELSE v[1].b \/ v[2].b)>>)
      [] o.kind = "bool_compare" ->
           IF ~Kinds(v, <<"bool", "bool">>) THEN Refuse("boolean comparison operands")
           ELSE Ok(<<BoolV((o.op = "eq") = (v[1].b = v[2].b))>>)
      [] o.kind = "bool_not" ->
           IF ~Kinds(v, <<"bool">>) THEN Refuse("boolean negation operand") ELSE Ok(<<BoolV(~v[1].b)>>)
EvalByte(o, v) ==
    CASE o.kind = "byte" ->
           IF ~Kinds(v, <<"byte", "byte">>) THEN Refuse("byte operands")
           ELSE Yield(Then(EvaluateByteBitwise(o.op, v[1].byte, v[2].byte), LAMBDA b : Some(ByteV(b))),
                      "Unsupported", "byte operator")
      [] o.kind = "byte_shift" ->
           IF ~Kinds(v, <<"byte", "int">>) \/ v[2].n < 0 THEN Refuse("byte shift operands")
           ELSE Yield(Then(EvaluateByteShift(o.op, v[1].byte, v[2].n), LAMBDA b : Some(ByteV(b))),
                      "Unsupported", "byte shift operator")
      [] o.kind = "byte_compare" ->
           IF ~Kinds(v, <<"byte", "byte">>) THEN Refuse("byte comparison operands")
           ELSE Yield(Then(CompareBytes(o.op, v[1].byte, v[2].byte), LAMBDA b : Some(BoolV(b))),
                      "Unsupported", "byte predicate")
EvalConvert(o, v) ==
    IF v = <<>> \/ Missing(v) THEN Refuse("conversion operand") ELSE ConvertScalar(v[1], o.ty, o.to)
-----------------------------------------------------------------------------
(* Aggregates. *)
EvalRecord(o, v) ==
    CASE o.kind = "rec_construct" ->
           IF Missing(v) THEN Refuse("record operand")
           ELSE Ok(<<RecV(o.nominal, [i \in 1 .. Smaller(Len(o.names), Len(v)) |-> <<o.names[i], v[i]>>])>>)
      [] o.kind = "rec_project" ->
           IF ~KindAt(v, 1, "rec") THEN Refuse("not a record")
           ELSE Yield(Field(v[1].fields, o.field), "InvalidRequest", "record field")
EvalFinite(o, v) ==
    CASE o.kind = "fin_construct" ->
           IF Missing(v) \/ Len(v) # Len(o.names) THEN Refuse("finite payload operand")
           ELSE Ok(<<FinV(o.nominal, o.variant, [i \in DOMAIN v |-> <<o.names[i], v[i]>>])>>)
      [] o.kind = "fin_project" ->
           IF ~KindAt(v, 1, "fin") THEN Refuse("payload projection operand")
           ELSE IF \/ <<v[1].id, v[1].variant, v[1].disc>> # <<o.nominal, o.variant, o.variant>>
                   \/ ~ValidFinite(v[1].id, v[1].variant, v[1].disc) THEN Refuse("payload projection variant")
           ELSE Yield(Field(v[1].fields, o.field), "InvalidRequest", "payload field")
      [] o.kind = "fin_is" ->
           IF ~KindAt(v, 1, "fin") THEN Refuse("variant test operand")
           ELSE IF v[1].id # o.nominal \/ ~ValidFinite(v[1].id, v[1].variant, v[1].disc)
           THEN Refuse("variant test value")
           ELSE Ok(<<BoolV(v[1].variant = o.variant /\ v[1].disc = o.variant)>>)
EvalSequenceConstruct(o, v) ==
    IF Missing(v) THEN Refuse("sequence operand")
    ELSE IF Len(v) # o.n THEN Refuse("sequence count") ELSE Ok(<<SeqV(v)>>)
EvalVector(o, v) ==
    LET outside == Fail(IF o.checked THEN "RuntimeFailure" ELSE "InvalidRequest", "lane bounds")
        range == 0 .. o.n - 1
    IN CASE o.kind = "vec_construct" ->
              IF Missing(v) THEN Refuse("vector operand")
              ELSE IF Len(v) # o.n THEN Refuse("vector lanes") ELSE Ok(<<VecV(v)>>)
         [] o.kind = "vec_splat" ->
              IF v = <<>> \/ Missing(v) THEN Refuse("splat operand")
              ELSE Ok(<<VecV([i \in 1 .. o.n |-> v[1]])>>)
         [] o.kind = "vec_extract" ->
              IF ~KindAt(v, 1, "vec") THEN Refuse("extraction operand")
              ELSE IF ~KindAt(v, 2, "int") THEN Refuse("lane index")
              ELSE IF v[2].n \notin range THEN outside
              ELSE IF v[2].n >= Len(v[1].vals) THEN Fail("Panic", "index") ELSE Ok(<<v[1].vals[v[2].n + 1]>>)
         [] o.kind = "vec_replace" ->
              IF ~KindAt(v, 1, "vec") THEN Refuse("replacement source")
              ELSE IF ~KindAt(v, 2, "int") THEN Refuse("lane index")
              ELSE IF Missing(v) THEN Refuse("replacement element")
              ELSE IF v[2].n \notin range THEN outside
              ELSE IF v[2].n >= Len(v[1].vals) THEN Fail("Panic", "index")
              ELSE Ok(<<VecV([v[1].vals EXCEPT ![v[2].n + 1] = v[3]])>>)
EvalLanes(o, v) ==
    LET vectors == KindAt(v, 1, "vec") /\ KindAt(v, 2, "vec") /\ Len(v[1].vals) = Len(v[2].vals)
        masks == KindAt(v, 1, "mask") /\ KindAt(v, 2, "mask") /\ Len(v[1].on) = Len(v[2].on)
    IN CASE o.kind = "vec_binary" ->
              IF ~vectors THEN Refuse("vector binary operands")
              ELSE Yield(Then(EvaluateVectorBinary(o, v[1].vals, v[2].vals), LAMBDA s : Some(VecV(s))),
                         "RuntimeFailure", "vector arithmetic")
         [] o.kind = "vec_compare" ->
              IF ~vectors THEN Refuse("vector comparison operands")
              ELSE Yield(Then(EvaluateVectorCompare(o, v[1].vals, v[2].vals), LAMBDA s : Some(MaskV(s))),
                         "InvalidRequest", "vector comparison")
         [] o.kind = "vec_reduce" ->
              IF ~KindAt(v, 1, "vec") THEN Refuse("reduction operand")
              ELSE Yield(EvaluateVectorReduce(o, v[1].vals), "RuntimeFailure", "vector reduction")
         [] o.kind = "mask" ->
              IF ~masks THEN Refuse("mask operands")
              ELSE Ok(<<MaskV([i \in DOMAIN v[1].on |-> MaskLane(o.op, v[1].on[i], v[2].on[i])])>>)
         [] o.kind = "mask_not" ->
              IF ~KindAt(v, 1, "mask") THEN Refuse("mask not operand")
              ELSE Ok(<<MaskV([i \in DOMAIN v[1].on |-> ~v[1].on[i]])>>)
         [] o.kind = "mask_reduce" ->
              IF ~KindAt(v, 1, "mask") THEN Refuse("mask reduction operand")
              ELSE Ok(<<BoolV(MaskSummary(o.op, v[1].on))>>)
EvalSelect(o, v) ==
    IF v = <<>> \/ v[1] = Absent THEN Refuse("selection condition")
    ELSE CASE v[1].k = "mask" ->
                IF ~KindAt(v, 2, "vec") THEN Refuse("true candidate")
                ELSE IF ~KindAt(v, 3, "vec") THEN Refuse("false candidate")
                ELSE IF \E i \in {2, 3} : Len(v[i].vals) # Len(v[1].on) THEN Refuse("masked lanes")
                ELSE Ok(<<VecV(Masked(v[1].on, v[2].vals, v[3].vals))>>)
           [] v[1].k = "bool" ->
                LET chosen == v[IF v[1].b THEN 2 ELSE 3]
                IN IF chosen = Absent THEN Refuse("selection candidate") ELSE Ok(<<chosen>>)
           [] OTHER -> Refuse("selection condition kind")
-----------------------------------------------------------------------------
(* Sequences. *)
EvalSequenceReplace(o, v) ==
    IF ~o.exact THEN Fail("Unsupported", "update bound")
    ELSE IF ~KindAt(v, 1, "seq") THEN Refuse("update source")
    ELSE IF ~KindAt(v, 2, "int") THEN Refuse("update index")
    ELSE IF Missing(v) THEN Refuse("update element")
    ELSE IF v[2].n \notin 0 .. o.cap - 1
    THEN Fail("RuntimeFailure", IF o.checked THEN "update range" ELSE "update invariant")
    ELSE Updated(v[1].vals, v[2].n, v[3])
EvalBoundCheck(o, v) ==
    IF ~KindAt(v, 1, "seq") THEN Refuse("checked sequence")
    ELSE IF ~KindAt(v, 2, "int") THEN Refuse("checked index")
    ELSE IF v[2].n \notin 0 .. Len(v[1].vals) - 1 THEN Fail("RuntimeFailure", "checked range")
    ELSE Ok(<<IntV(v[2].n, U64)>>)
\* Variant: the window in the source is not checked against the source's length.
EvalSequenceCopy_NoSource(o, v) ==
    IF ~(KindAt(v, 2, "int") /\ KindAt(v, 4, "int") /\ KindAt(v, 5, "int")) THEN Refuse("copy offsets")
    ELSE IF v[2].n + v[5].n > o.cap THEN Fail("RuntimeFailure", "copy range")
    ELSE IF v[4].n + v[5].n > Len(v[3].vals) THEN Fail("Panic", "range")
    ELSE Copied(v[1].vals, v[2].n, v[3].vals, v[4].n, v[5].n)
EvalSequenceCopy(o, v) ==
    IF ~o.exact THEN Fail("Unsupported", "copy bound")
    ELSE IF ~KindAt(v, 1, "seq") THEN Refuse("copy destination")
    ELSE IF ~KindAt(v, 3, "seq") THEN Refuse("copy source")
    ELSE IF ~(KindAt(v, 2, "int") /\ KindAt(v, 4, "int") /\ KindAt(v, 5, "int")) THEN Refuse("copy offsets")
    ELSE IF \/ v[2].n < 0 \/ v[4].n < 0 \/ v[5].n < 0
            \/ v[2].n + v[5].n > o.cap \/ v[4].n + v[5].n > Len(v[3].vals)
    THEN Fail("RuntimeFailure", IF o.checked THEN "copy range" ELSE "copy invariant")
    ELSE Copied(v[1].vals, v[2].n, v[3].vals, v[4].n, v[5].n)
EvalSequenceProject(o, v) ==
    IF ~KindAt(v, 1, "seq") THEN Refuse("projection operand")
    ELSE IF ~KindAt(v, 2, "int") THEN Refuse("projection index")
    ELSE IF v[2].n \notin 0 .. 2^CounterBits - 1 THEN Refuse("projection domain")
    ELSE IF v[2].n < Len(v[1].vals) THEN Ok(<<v[1].vals[v[2].n + 1]>>)
    ELSE IF o.checked THEN Fail("RuntimeFailure", "projection range") ELSE Refuse("projection invariant")
EvalSequenceLength(o, v) ==
    IF ~KindAt(v, 1, "seq") THEN Refuse("length operand") ELSE Ok(<<IntV(Len(v[1].vals), U64)>>)
\* A view is a copy of the span.
EvalView(o, v) ==
    CASE o.kind = "view" ->
           IF o.exact THEN Refuse("view bound")
           ELSE IF ~KindAt(v, 1, "seq") THEN Refuse("view source")
           ELSE IF ~KindAt(v, 2, "int") \/ ~KindAt(v, 3, "int") THEN Refuse("view endpoints")
           ELSE LET from == v[2].n  to == v[3].n
                IN IF from < 0 \/ to < from THEN Fail("RuntimeFailure", "view range")
                   ELSE IF to > Len(v[1].vals) THEN Fail("RuntimeFailure", "view end")
                   ELSE IF to - from > o.cap THEN Fail("RuntimeFailure", "view capacity")
                   ELSE Ok(<<SeqV(SubSeq(v[1].vals, from + 1, to))>>)
      [] o.kind = "narrow" ->
           IF ~KindAt(v, 1, "seq") THEN Refuse("narrowing source")
           ELSE IF Len(v[1].vals) > o.cap THEN Fail("RuntimeFailure", "narrowed capacity") ELSE Ok(<<v[1]>>)

\* The arms that only compute.
Evaluates(o) == o.kind \notin {"call", "effect", "host", "check"}
Evaluate(o, v, R) ==
    CASE o.kind = "const" -> EvalConstant(o)
      [] o.kind = "int" -> EvalInteger(o, v, R)
      [] o.kind = "int_compare" -> EvalIntegerCompare(o, v)
      [] o.kind \in {"float_const", "float", "float_compare", "float_intrinsic"} -> EvalFloat(o, v)
      [] o.kind \in {"bool", "bool_compare", "bool_not"} -> EvalBoolean(o, v)
      [] o.kind \in {"byte", "byte_compare", "byte_shift"} -> EvalByte(o, v)
      [] o.kind = "convert" -> EvalConvert(o, v)
      [] o.kind = "seq_construct" -> EvalSequenceConstruct(o, v)
      [] o.kind \in {"vec_construct", "vec_splat", "vec_extract", "vec_replace"} -> EvalVector(o, v)
      [] o.kind \in {"vec_binary", "vec_compare", "vec_reduce", "mask", "mask_not", "mask_reduce"} -> EvalLanes(o, v)
      [] o.kind = "select" -> EvalSelect(o, v)
      [] o.kind = "seq_replace" -> EvalSequenceReplace(o, v)
      [] o.kind = "bound_check" -> EvalBoundCheck(o, v)
      [] o.kind = "seq_copy" -> EvalSequenceCopy(o, v)
      [] o.kind = "seq_project" -> EvalSequenceProject(o, v)
      [] o.kind = "seq_length" -> EvalSequenceLength(o, v)
      [] o.kind \in {"view", "narrow"} -> EvalView(o, v)
      [] o.kind \in {"fin_construct", "fin_project", "fin_is"} -> EvalFinite(o, v)
      [] o.kind \in {"rec_construct", "rec_project"} -> EvalRecord(o, v)
=============================================================================

-------------------------------- MODULE Values --------------------------------
(***************************************************************************)
(* Types, logical values and the boundary of a call                        *)
(* (BodyType in crates/mncs-model/src/body.rs, ExecutionValue and its      *)
(* matching, conversion and normalisation in execution.rs,                 *)
(* ssa_execution.rs and value_contract.rs).                                *)
(*                                                                         *)
(* A type is a record with a field t, a value one with a field k.  Field   *)
(* names are numbers, ordered as the names are.  A request may spell the   *)
(* identity of a nominal value by its name (spelled = TRUE).  A float is   *)
(* one of the integers -FloatMax .. FloatMax; FloatMax + 1 stands for every *)
(* infinity and NaN.                                                       *)
(***************************************************************************)
EXTENDS MachineIntegers, FiniteSets, SequencesExt

CONSTANTS
    CounterBits,    \* the width of u64: indices, lengths, counts
    FloatMax,       \* the largest finite float
    Records,        \* record type -> its fields in declaration order, <<name, type>>
    Finites         \* finite type -> its variants, each a sequence of payload fields

BoolT == [t |-> "bool"]
ByteT == [t |-> "byte"]
FloatT == [t |-> "float"]
U64 == IntT(CounterBits, FALSE)
U1 == IntT(1, FALSE)
SeqT(e, exact, n) == [t |-> "seq", elem |-> e, exact |-> exact, cap |-> n]
VecT(e, n) == [t |-> "vec", elem |-> e, lanes |-> n]
MaskT(n) == [t |-> "mask", lanes |-> n]
RecT(id) == [t |-> "rec", id |-> id]
FinT(id) == [t |-> "fin", id |-> id]

IntV(v, ty) == [k |-> "int", n |-> v, ty |-> ty]
BoolV(b) == [k |-> "bool", b |-> b]
ByteV(v) == [k |-> "byte", byte |-> v]
FloatV(v) == [k |-> "float", f |-> v]
SeqV(s) == [k |-> "seq", vals |-> s]
VecV(s) == [k |-> "vec", vals |-> s]
MaskV(s) == [k |-> "mask", on |-> s]
RecV(id, fields) == [k |-> "rec", id |-> id, spelled |-> FALSE, fields |-> fields]
FinV(id, variant, payload) ==
    [k |-> "fin", id |-> id, spelled |-> FALSE, variant |-> variant, disc |-> variant, fields |-> payload]

Finite(f) == f \in -FloatMax .. FloatMax
IsBoolean(ty) == ty \in {BoolT, U1}
IsU1(ty) == ty = U1
NameOf(field) == field[1]
ValueOf(field) == field[2]
Fits(n, ty) == IF ty.exact THEN n = ty.cap ELSE n <= ty.cap

\* Equality, or a view where a larger one is expected.
Widens(from, to) == /\ from.t = "seq" /\ to.t = "seq" /\ ~from.exact /\ ~to.exact
                    /\ from.elem = to.elem /\ from.cap <= to.cap
Compatible(actual, expected) == actual = expected \/ Widens(actual, expected)

\* order_fields_by_name: no field twice, none unknown, none missing.
Resolves(declared, received) ==
    /\ Len(declared) = Len(received)
    /\ {NameOf(received[i]) : i \in DOMAIN received} = {NameOf(declared[i]) : i \in DOMAIN declared}
Received(received, name) ==
    ValueOf(received[CHOOSE i \in DOMAIN received : NameOf(received[i]) = name])
Sorted(fields) == SortSeq(fields, LAMBDA a, b : NameOf(a) < NameOf(b))

HasVariant(id, v) == id \in DOMAIN Finites /\ v \in DOMAIN Finites[id]
ValidFinite(id, v, disc) == HasVariant(id, v) /\ disc = v

\* What both engines ask of a value at the boundary of a call.  They differ on finite values: the
\* reference engine checks variant and discriminant at every depth, the other one only at the top.
RECURSIVE Matches(_, _, _)
FieldsMatch(declared, received, engine) ==
    /\ Resolves(declared, received)
    /\ \A i \in DOMAIN declared :
          Matches(Received(received, NameOf(declared[i])), declared[i][2], engine)
MatchesFinite(v, ty, engine) ==
    /\ v.id = ty.id
    /\ engine = "body" => ValidFinite(ty.id, v.variant, v.disc)
    /\ IF HasVariant(ty.id, v.variant) THEN FieldsMatch(Finites[ty.id][v.variant], v.fields, engine)
       ELSE engine = "ssa" \/ v.fields = <<>>
Matches(v, ty, engine) ==
    CASE v.k = "int" -> v.ty = ty /\ InRange(v.n, ty)
      [] v.k = "bool" -> IsBoolean(ty)
      [] v.k = "byte" -> ty = ByteT /\ IsByte(v.byte)
      [] v.k = "float" -> ty = FloatT
      [] v.k = "seq" -> ty.t = "seq" /\ Fits(Len(v.vals), ty)
                        /\ \A i \in DOMAIN v.vals : Matches(v.vals[i], ty.elem, engine)
      [] v.k = "vec" -> ty.t = "vec" /\ Len(v.vals) = ty.lanes
                        /\ \A i \in DOMAIN v.vals : Matches(v.vals[i], ty.elem, engine)
      [] v.k = "mask" -> ty.t = "mask" /\ Len(v.on) = ty.lanes
      [] v.k = "rec" -> ty.t = "rec" /\ v.id = ty.id /\ FieldsMatch(Records[ty.id], v.fields, engine)
      [] v.k = "fin" -> ty.t = "fin" /\ MatchesFinite(v, ty, engine)
MatchesType(v, ty) == Matches(v, ty, "body")
SsaMatchesType(v, ty) == Matches(v, ty, "ssa")

\* The reference engine takes a nominal value as it is, but only under its exact identity.
RECURSIVE Normalize(_, _)
NormalizeAll(vals, ty) == LET all == [i \in DOMAIN vals |-> Normalize(vals[i], ty)]
                          IN IF \E i \in DOMAIN vals : all[i] = None THEN None
                             ELSE Some([i \in DOMAIN vals |-> all[i][1]])
Normalize(v, ty) ==
    IF ~MatchesType(v, ty) THEN None
    ELSE CASE v.k = "int" /\ IsU1(ty) -> Some(BoolV(v.n = 1))
           [] v.k = "seq" -> Then(NormalizeAll(v.vals, ty.elem), LAMBDA s : Some(SeqV(s)))
           [] v.k = "vec" -> Then(NormalizeAll(v.vals, ty.elem), LAMBDA s : Some(VecV(s)))
           [] v.k \in {"rec", "fin"} -> IF v.spelled THEN None ELSE Some(v)
           [] OTHER -> Some(v)

\* The other engine orders the fields of a nominal value as its declaration does.
RECURSIVE SsaNormalize(_, _)
SsaNormalizeAll(vals, ty) == LET all == [i \in DOMAIN vals |-> SsaNormalize(vals[i], ty)]
                             IN IF \E i \in DOMAIN vals : all[i] = None THEN None
                                ELSE Some([i \in DOMAIN vals |-> all[i][1]])
SsaNormalizeFields(declared, received) ==
    IF ~Resolves(declared, received) THEN None
    ELSE LET all == [i \in DOMAIN declared |->
                       SsaNormalize(Received(received, NameOf(declared[i])), declared[i][2])]
         IN IF \E i \in DOMAIN all : all[i] = None THEN None
            ELSE Some([i \in DOMAIN all |-> <<NameOf(declared[i]), all[i][1]>>])
SsaNormalize(v, ty) ==
    CASE v.k = "int" -> IF v.ty # ty \/ ~InRange(v.n, ty) THEN None
                        ELSE Some(IF IsU1(ty) THEN BoolV(v.n = 1) ELSE v)
      [] v.k = "seq" -> IF ty.t # "seq" \/ ~Fits(Len(v.vals), ty) THEN None
                        ELSE Then(SsaNormalizeAll(v.vals, ty.elem), LAMBDA s : Some(SeqV(s)))
      [] v.k = "vec" -> IF ty.t # "vec" \/ Len(v.vals) # ty.lanes THEN None
                        ELSE Then(SsaNormalizeAll(v.vals, ty.elem), LAMBDA s : Some(VecV(s)))
      [] v.k \in {"rec", "fin"} /\ (v.spelled \/ ty.t # v.k \/ v.id # ty.id) -> None
      [] v.k = "rec" -> Then(SsaNormalizeFields(Records[v.id], v.fields),
                             LAMBDA fs : Some([v EXCEPT !.fields = fs]))
      [] v.k = "fin" -> IF ~HasVariant(v.id, v.variant) THEN Some(v)
                        ELSE Then(SsaNormalizeFields(Finites[v.id][v.variant], v.fields),
                                  LAMBDA fs : Some([v EXCEPT !.fields = fs]))
      [] OTHER -> IF SsaMatchesType(v, ty) THEN Some(v) ELSE None
\* execute_owned takes a nominal value of the expected identity as it is.
SsaNormalizeOwned(v, ty) ==
    IF v.k \in {"rec", "fin"} /\ ty.t = v.k /\ ~v.spelled /\ v.id = ty.id THEN Some(v)
    ELSE SsaNormalize(v, ty)
-----------------------------------------------------------------------------
(* Constants and conversions. *)
ConstantValue(v, ty) ==
    CASE IsBoolean(ty) -> IF v \in {0, 1} THEN Some(BoolV(v = 1)) ELSE None
      [] ty.t = "int" -> IF InRange(v, ty) THEN Some(IntV(v, ty)) ELSE None
      [] ty = ByteT -> IF IsByte(v) THEN Some(ByteV(v)) ELSE None
      [] OTHER -> None

Scalar(v) == CASE v.k = "int" -> v.n [] v.k = "byte" -> v.byte [] v.k = "bool" -> (IF v.b THEN 1 ELSE 0)
KindOf(ty) == IF ty.t = "int" THEN "int" ELSE IF ty.t = "bool" THEN "bool" ELSE ty.t
\* An outcome of an operation: its values or how it failed, the effect events it records, and what
\* it did outside the program.
Done(vals, events, acts) == [st |-> "ok", why |-> "", out |-> vals, events |-> events, acts |-> acts]
FailAfter(st, why, acts) == [st |-> st, why |-> why, out |-> <<>>, events |-> <<>>, acts |-> acts]
Ok(vals) == Done(vals, <<>>, <<>>)
Fail(st, why) == FailAfter(st, why, <<>>)

\* Every integer has a float; a float becomes an integer when it is finite and in the domain.
ConvertFloatEdge(v, from, to) ==
    IF v.k # KindOf(from) THEN Fail("Unsupported", "convert")
    ELSE CASE v.k # "float" /\ to = FloatT -> Ok(<<FloatV(Scalar(v))>>)
           [] v.k = "float" /\ to = FloatT -> Ok(<<v>>)
           [] v.k = "float" /\ to.t = "int" ->
                IF Finite(v.f) /\ InRange(v.f, to) THEN Ok(<<IntV(v.f, to)>>)
                ELSE Fail("RuntimeFailure", "float trap")
           [] v.k = "float" /\ to = ByteT ->
                IF Finite(v.f) /\ IsByte(v.f) THEN Ok(<<ByteV(v.f)>>)
                ELSE Fail("RuntimeFailure", "float trap")
           [] OTHER -> Fail("Unsupported", "convert")
ConvertScalar(v, from, to) ==
    IF from = FloatT \/ to = FloatT THEN ConvertFloatEdge(v, from, to)
    ELSE IF v.k # KindOf(from) \/ v.k \notin {"int", "byte", "bool"} THEN Fail("Unsupported", "convert")
    ELSE CASE to.t = "int" -> Ok(<<IntV(Wrap(Scalar(v), to.bits, to.signed), to)>>)
           [] to = ByteT -> Ok(<<ByteV(Scalar(v) % 2^ByteBits)>>)
           [] OTHER -> Fail("Unsupported", "convert")
=============================================================================

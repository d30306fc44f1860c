---------------------------- MODULE ScalarLowering ----------------------------
(***************************************************************************)
(* From SSA to the scalar form the native realizations share               *)
(* (crates/mncs-codegen/src/scalar.rs, layout from composite.rs).          *)
(*                                                                         *)
(* Every value becomes one word: scalars as they are, records, boxed       *)
(* finites, exact sequences and vectors as the address of a cell, views as *)
(* a packed descriptor.  A cell is a run of slots; a slot is WideBits wide *)
(* and a field uses all of it or its low NarrowBits.  Instructions keep    *)
(* the record of BodyModel: n is a slot or a number of slots, bits the     *)
(* width of a slot, and the destination carries a scalar type.             *)
(***************************************************************************)
EXTENDS SsaLowering

CONSTANTS NarrowBits   \* 32; ByteBits is 8 (and stands for 16 as well), CounterBits 64

ASSUME WidthsDouble == NarrowBits \in Nat /\ ByteBits < NarrowBits /\ 2 * NarrowBits = CounterBits

WideBits == CounterBits
CellT == [t |-> "cell"]
ViewT == [t |-> "view"]
FiniteT == [t |-> "finite"]
Boxed(id) == \E v \in DOMAIN Finites[id] : Finites[id][v] # <<>>
ScalarTy(ty) ==
    CASE ty.t = "int" -> IF ty.bits \in {ByteBits, NarrowBits, WideBits} THEN Some(ty) ELSE None
      [] ty.t = "fin" -> Some(IF Boxed(ty.id) THEN CellT ELSE FiniteT)
      [] ty.t = "rec" -> IF ty.id \in DOMAIN Records THEN Some(CellT) ELSE None
      [] ty.t = "seq" -> Some(IF ty.exact THEN CellT ELSE ViewT)
      [] ty.t = "vec" -> Some(CellT)
      [] OTHER -> Some(ty)
IsWide(sty) == sty.t \in {"cell", "view", "mask", "float"} \/ (sty.t = "int" /\ sty.bits = WideBits)
SlotWidthOf(sty) == IF IsWide(sty) THEN WideBits ELSE NarrowBits
\* The same from the declared type of a field.
SlotWidth(ty) == CASE ty.t \in {"rec", "seq", "vec", "mask", "float"} -> WideBits
                   [] ty.t = "fin" -> IF Boxed(ty.id) THEN WideBits ELSE NarrowBits
                   [] ty.t = "int" -> IF ty.bits = WideBits THEN WideBits ELSE NarrowBits
                   [] OTHER -> NarrowBits
\* A record's fields in the order of the declaration; a boxed finite keeps its tag before them.
FieldWidths(fields) == [i \in DOMAIN fields |-> SlotWidth(fields[i][2])]
FieldSlot(fields, name) == (CHOOSE i \in DOMAIN fields : NameOf(fields[i]) = name) - 1
HasField(fields, name) == \E i \in DOMAIN fields : NameOf(fields[i]) = name
-----------------------------------------------------------------------------
Inst(kind, dest, in) == [NoOp EXCEPT !.kind = kind, !.out = <<dest>>, !.in = in]
Named3(i, op, intent, ty) == [i EXCEPT !.op = op, !.intent = intent, !.ty = ty]
ConstInst(dest, v) == [Inst("const", dest, <<>>) EXCEPT !.val = v]
IntInst(dest, op, intent, a, b) == Named3(Inst("int", dest, <<a, b>>), op, intent, dest[2])
CompareInst(dest, op, ty, a, b) == Named3(Inst("compare", dest, <<a, b>>), op, "", ty)
AllocInst(dest, slots) == [Inst("alloc", dest, <<>>) EXCEPT !.n = slots]
StoreInst(cell, slot, width, v) == [NoOp EXCEPT !.kind = "store", !.in = <<cell, v>>, !.n = slot, !.bits = width]
TagInst(cell, v) == [NoOp EXCEPT !.kind = "store_tag", !.in = <<cell>>, !.val = v]
LoadInst(dest, cell, slot, width) == [Inst("load", dest, <<cell>>) EXCEPT !.n = slot, !.bits = width]
\* A cell of these values, the first in slot `from`.
Filled(cell, from, vals, widths) == [i \in DOMAIN vals |-> StoreInst(cell, from + i - 1, widths[i], vals[i])]
\* A name for an intermediate result of the instruction that defines dest.
Temporary(dest, k, sty) == <<100 * dest[1] + k, sty>>
-----------------------------------------------------------------------------
(* Promises: the overflow check is left out when both operands are constants whose result is exact. *)
ConstantsOf(f) == {o \in UNION {Range(f.blocks[b].ops) : b \in DOMAIN f.blocks} : o.kind = "const"}
Producer(f, id) == {o \in ConstantsOf(f) : \E d \in Range(o.out) : d[1] = id}
NoOverflowPromise(f, o) ==
    /\ o.intent \in {"checked", "trapping"}
    /\ \A i \in {1, 2} : Producer(f, o.in[i]) # {}
    /\ \A x \in Producer(f, o.in[1]), y \in Producer(f, o.in[2]) :
         OperationEvaluate(o.op, o.ty, "checked", 0, x.val, y.val) # None
-----------------------------------------------------------------------------
(* One arm per kind of instruction: the scalar instructions, or nothing where it is refused. *)
LowerInteger(f, o, d) ==
    IF o.intent = "widening" \/ o.op \notin Operators THEN None
    ELSE Some(<<[IntInst(d, o.op, o.intent, o.in[1], o.in[2]) EXCEPT !.checked = ~NoOverflowPromise(f, o)]>>)
LowerFloat(o, d) ==
    IF \/ o.kind = "float" /\ o.op \notin {"add", "sub", "mul", "div"}
       \/ o.kind = "float_compare" /\ o.op \notin Predicates
       \/ o.kind = "float_intrinsic" /\ o.op \notin {"sin", "cos", "neg"}
    THEN None ELSE Some(<<[Named3(Inst(o.kind, d, o.in), o.op, "", o.ty) EXCEPT !.val = o.val]>>)
LowerFiniteConstruct(o, d) ==
    IF ~Boxed(o.nominal)
    THEN IF o.names # <<>> THEN None ELSE Some(<<[Inst("finite", d, <<>>) EXCEPT !.val = o.variant]>>)
    ELSE LET fields == Finites[o.nominal][o.variant]
         IN IF Len(fields) # Len(o.names) \/ Len(fields) # Len(o.in) THEN None
            ELSE Some(<<AllocInst(d, Len(fields) + 1), TagInst(d[1], o.variant)>>
                      \o Filled(d[1], 1, o.in, FieldWidths(fields)))
\* Bytes compare as unsigned integers.
LowerByte(o, d) ==
    Some(<<IF o.kind = "byte_compare" THEN CompareInst(d, o.op, IntT(ByteBits, FALSE), o.in[1], o.in[2])
           ELSE Named3(Inst(o.kind, d, o.in), o.op, "", o.ty)>>)
LowerConvert(o, d) ==
    IF ScalarTy(o.ty) = None \/ ScalarTy(o.to) = None THEN None
    ELSE Some(<<[Inst("convert", d, <<o.in[1]>>) EXCEPT !.ty = ScalarTy(o.ty)[1], !.to = ScalarTy(o.to)[1]]>>)
LowerSequenceConstruct(o, d) ==
    IF ScalarTy(o.ty) = None \/ o.n # Len(o.in) THEN None
    ELSE Some(<<AllocInst(d, o.n)>>
              \o Filled(d[1], 0, o.in, [i \in DOMAIN o.in |-> SlotWidthOf(ScalarTy(o.ty)[1])]))
\* Projection, replacement, copy, view, narrowing, length and bound check keep their own shape.
KeepsShape(o) == o.kind \in {"seq_project", "seq_replace", "seq_copy", "view", "narrow", "seq_length", "bound_check"}
LowerSequence(o, d) ==
    LET elem == IF o.kind = "seq_project" THEN Some(d[2]) ELSE ScalarTy(o.ty)
    IN IF \/ o.kind \in {"seq_replace", "seq_copy"} /\ (~o.exact \/ elem = None)
          \/ o.kind = "view" /\ o.exact
       THEN None
       ELSE Some(<<[o EXCEPT !.out = <<d>>, !.bits = SlotWidthOf(elem[1]), !.to = elem[1]]>>)
LowerFiniteUse(o, d) ==
    IF o.kind = "fin_is" THEN Some(<<[Inst("fin_is", d, <<o.in[1]>>) EXCEPT !.val = o.variant]>>)
    ELSE IF ~Boxed(o.nominal) \/ ~HasVariant(o.nominal, o.variant) THEN None
    ELSE LET fields == Finites[o.nominal][o.variant]
         IN IF ~HasField(fields, o.field) THEN None
            ELSE Some(<<LoadInst(d, o.in[1], FieldSlot(fields, o.field) + 1,
                                 FieldWidths(fields)[FieldSlot(fields, o.field) + 1])>>)
LowerRecordConstruct(o, d) ==
    LET fields == Records[o.nominal]
    IN IF o.nominal \notin DOMAIN Records THEN None
       ELSE IF Len(fields) # Len(o.in) \/ Named(fields) # o.names THEN None
       ELSE Some(<<AllocInst(d, Len(fields))>> \o Filled(d[1], 0, o.in, FieldWidths(fields)))
LowerRecordProject(o, d) ==
    LET fields == Records[o.nominal]
    IN IF o.nominal \notin DOMAIN Records THEN None
       ELSE IF ~HasField(fields, o.field) THEN None
       ELSE Some(<<LoadInst(d, o.in[1], FieldSlot(fields, o.field), FieldWidths(fields)[FieldSlot(fields, o.field) + 1])>>)
LowerCall(p, o, d) == IF o.fn \notin DOMAIN p THEN None ELSE Some(<<[Inst("call", d, o.in) EXCEPT !.fn = o.fn]>>)
-----------------------------------------------------------------------------
(* Vectors are cells of lanes, masks one word of lane bits; lane operations unroll. *)
IntegerLanes(o) == o.ty.t = "int" /\ ScalarTy(o.ty) # None
MaskLimit(lanes) == 2^(IF lanes >= WideBits THEN WideBits ELSE lanes) - 1
LaneWidth(o) == SlotWidthOf(o.ty)
LowerVectorConstruct(o, d) ==
    LET vals == IF o.kind = "vec_splat" THEN [i \in 1 .. o.n |-> o.in[1]] ELSE o.in
    IN IF Len(vals) # o.n THEN None
       ELSE Some(<<AllocInst(d, o.n)>> \o Filled(d[1], 0, vals, [i \in 1 .. o.n |-> LaneWidth(o)]))
\* Extraction and replacement are those of an exact sequence.
LowerVectorLane(o, d) ==
    Some(<<[o EXCEPT !.kind = IF @ = "vec_extract" THEN "seq_project" ELSE "seq_replace", !.out = <<d>>,
                     !.exact = TRUE, !.cap = o.n, !.bits = LaneWidth(o), !.to = o.ty]>>)
LowerVectorSelect(o, d) ==
    LET lanes == o.ty.lanes
        elem == o.ty.elem
        width == SlotWidthOf(elem)
        t(l, k) == Temporary(d, 10 * l + k, IF k \in {1, 2, 7} THEN elem ELSE IF k = 3 THEN U64 ELSE MaskT(lanes))
        lane(l) == <<LoadInst(t(l, 1), o.in[2], l, width), LoadInst(t(l, 2), o.in[3], l, width), ConstInst(t(l, 3), l),
                     IntInst(t(l, 4), "shr", "wrapping", o.in[1], t(l, 3)[1]), ConstInst(t(l, 5), 1),
                     IntInst(t(l, 6), "and", "wrapping", t(l, 4)[1], t(l, 5)[1]),
                     Inst("select", t(l, 7), <<t(l, 6)[1], t(l, 1)[1], t(l, 2)[1]>>),
                     StoreInst(d[1], l, width, t(l, 7)[1])>>
    IN IF elem.t # "int" \/ ScalarTy(elem) = None THEN None
       ELSE Some(<<AllocInst(d, lanes)>> \o FlattenSeq([i \in 1 .. lanes |-> lane(i - 1)]))
\* The smaller or the larger of two words.
Extreme(op, dest, cond, ty, a, b) ==
    <<CompareInst(cond, IF op = "min" THEN "lt" ELSE "gt", ty, a, b), Inst("select", dest, <<cond[1], a, b>>)>>
LowerVectorBinary(o, d) ==
    LET t(l, k) == Temporary(d, 10 * l + k, IF k = 4 THEN BoolT ELSE o.ty)
        lane(l) == <<LoadInst(t(l, 1), o.in[1], l, LaneWidth(o)), LoadInst(t(l, 2), o.in[2], l, LaneWidth(o))>>
                   \o (IF o.op \in {"min", "max"} THEN Extreme(o.op, t(l, 3), t(l, 4), o.ty, t(l, 1)[1], t(l, 2)[1])
                       ELSE <<IntInst(t(l, 3), o.op, o.intent, t(l, 1)[1], t(l, 2)[1])>>)
                   \o <<StoreInst(d[1], l, LaneWidth(o), t(l, 3)[1])>>
    IN IF o.intent = "widening" THEN None
       ELSE Some(<<AllocInst(d, o.n)>> \o FlattenSeq([i \in 1 .. o.n |-> lane(i - 1)]))
LowerVectorCompare(o, d) ==
    LET t(l, k) == Temporary(d, 10 * l + k, IF k \in {1, 2} THEN o.ty ELSE IF k = 4 THEN U64 ELSE MaskT(o.n))
        acc(l) == IF l = o.n THEN d ELSE t(l, 6)
        lane(l) == <<LoadInst(t(l, 1), o.in[1], l, LaneWidth(o)), LoadInst(t(l, 2), o.in[2], l, LaneWidth(o)),
                     CompareInst(t(l, 3), o.op, o.ty, t(l, 1)[1], t(l, 2)[1]), ConstInst(t(l, 4), l),
                     IntInst(t(l, 5), "shl", "wrapping", t(l, 3)[1], t(l, 4)[1]),
                     IntInst(acc(l + 1), "or", "wrapping", acc(l)[1], t(l, 5)[1])>>
    IN Some(<<ConstInst(acc(0), 0)>> \o FlattenSeq([i \in 1 .. o.n |-> lane(i - 1)]))
LowerVectorReduce(o, d) ==
    LET t(l, k) == Temporary(d, 10 * l + k, IF k = 2 THEN BoolT ELSE o.ty)
        acc(l) == IF l + 1 = o.n THEN d ELSE t(l, 3)
        lane(l) == <<LoadInst(t(l, 1), o.in[1], l, LaneWidth(o))>>
                   \o (IF o.op = "sum" THEN <<IntInst(acc(l), "add", o.intent, acc(l - 1)[1], t(l, 1)[1])>>
                       ELSE Extreme(o.op, acc(l), t(l, 2), o.ty, acc(l - 1)[1], t(l, 1)[1]))
    IN IF o.n = 0 \/ (o.n > 1 /\ o.op \notin {"sum", "min", "max"}) THEN None
       ELSE Some(<<LoadInst(acc(0), o.in[1], 0, LaneWidth(o))>> \o FlattenSeq([i \in 1 .. o.n - 1 |-> lane(i)]))
LowerMask(o, d) ==
    LET t == Temporary(d, 1, IF o.kind = "mask_not" THEN MaskT(o.n) ELSE U64)
    IN CASE o.kind = "mask" -> Some(<<IntInst(d, o.op, "wrapping", o.in[1], o.in[2])>>)
         [] o.kind = "mask_not" -> Some(<<ConstInst(t, MaskLimit(o.n)), IntInst(d, "xor", "wrapping", o.in[1], t[1])>>)
         [] o.kind = "mask_reduce" ->
              Some(<<ConstInst(t, IF o.op = "all" THEN MaskLimit(o.n) ELSE 0),
                     CompareInst(d, IF o.op = "any" THEN "ne" ELSE "eq", U64, o.in[1], t[1])>>)
LowerVector(o, d) ==
    CASE o.kind \in {"mask", "mask_not", "mask_reduce"} -> LowerMask(o, d)
      [] o.kind \in {"vec_construct", "vec_splat", "vec_extract", "vec_replace", "vec_binary", "vec_compare", "vec_reduce"} ->
           IF ~IntegerLanes(o) THEN None
           ELSE CASE o.kind \in {"vec_construct", "vec_splat"} -> LowerVectorConstruct(o, d)
                  [] o.kind \in {"vec_extract", "vec_replace"} -> LowerVectorLane(o, d)
                  [] o.kind = "vec_binary" -> LowerVectorBinary(o, d)
                  [] o.kind = "vec_compare" -> LowerVectorCompare(o, d)
                  [] o.kind = "vec_reduce" -> LowerVectorReduce(o, d)
-----------------------------------------------------------------------------
LowerArm(p, f, o, d) ==
    CASE o.kind = "const" -> Some(<<ConstInst(d, o.val)>>)
      [] o.kind = "int" -> LowerInteger(f, o, d)
      [] o.kind = "int_compare" -> Some(<<CompareInst(d, o.op, o.ty, o.in[1], o.in[2])>>)
      [] o.kind \in {"float_const", "float", "float_compare", "float_intrinsic"} -> LowerFloat(o, d)
      [] o.kind = "fin_construct" -> LowerFiniteConstruct(o, d)
      [] o.kind \in {"fin_is", "fin_project"} -> LowerFiniteUse(o, d)
      [] o.kind \in {"bool", "bool_compare", "bool_not"} -> Some(<<Named3(Inst(o.kind, d, o.in), o.op, "", o.ty)>>)
      [] o.kind \in {"byte", "byte_shift", "byte_compare"} -> LowerByte(o, d)
      [] o.kind = "convert" -> LowerConvert(o, d)
      [] o.kind = "seq_construct" -> LowerSequenceConstruct(o, d)
      [] KeepsShape(o) -> LowerSequence(o, d)
      [] o.kind = "select" -> IF o.ty.t = "vec" THEN LowerVectorSelect(o, d) ELSE Some(<<Inst("select", d, o.in)>>)
      [] o.kind = "rec_construct" -> LowerRecordConstruct(o, d)
      [] o.kind = "rec_project" -> LowerRecordProject(o, d)
      [] o.kind = "call" -> LowerCall(p, o, d)
      [] o.kind \in {"effect", "host", "check"} -> None
      [] OTHER -> LowerVector(o, d)
LowerInstruction(p, f, o) ==
    IF o.out = <<>> THEN None
    ELSE Then(ScalarTy(o.out[1][2]), LAMBDA sty : LowerArm(p, f, o, <<o.out[1][1], sty>>))
ScalarTerm(term) ==
    CASE term.k = "return" -> IF term.vals = <<>> THEN None ELSE Some([term EXCEPT !.vals = <<@[1]>>])
      [] OTHER -> Some(term)
\* All of them, or nothing.
Every(opts) == IF \E i \in DOMAIN opts : opts[i] = None THEN None ELSE Some([i \in DOMAIN opts |-> opts[i][1]])
ScalarDefs(defs) == Every([i \in DOMAIN defs |-> Then(ScalarTy(defs[i][2]), LAMBDA sty : Some(<<defs[i][1], sty>>))])
ScalarBlock(p, f, block) ==
    LET params == ScalarDefs(block.params)
        insts == Every([i \in DOMAIN block.ops |-> LowerInstruction(p, f, block.ops[i])])
        term == ScalarTerm(block.term)
    IN IF None \in {params, insts, term} THEN None
       ELSE Some([params |-> params[1], ops |-> FlattenSeq(insts[1]), term |-> term[1]])
ScalarFunction(p, f, outs) ==
    LET params == ScalarDefs(f.params)
        blocks == Every([b \in DOMAIN f.blocks |-> ScalarBlock(p, f, f.blocks[b])])
    IN IF Len(outs) # 1 \/ params = None \/ blocks = None THEN None
       ELSE IF ScalarTy(outs[1]) = None THEN None
       ELSE Some([params |-> params[1], result |-> ScalarTy(outs[1])[1], blocks |-> blocks[1], types |->
                    TypeMap(DefsOf(params[1]) \cup UNION {DefsOf(blocks[1][b].params) \cup
                            UNION {DefsOf(o.out) : o \in Range(blocks[1][b].ops)} : b \in DOMAIN blocks[1]})])
\* An admitted function is lowered, and so is all that it calls.
CalleesOf(f) == {o.fn : o \in {o \in UNION {Range(f.blocks[b].ops) : b \in DOMAIN f.blocks} : o.kind = "call"}}
\* Variant: only direct calls of a refused function are looked at.
RealizedFunctions_Direct(p, lowered) ==
    {f \in lowered : CalleesOf(p[f]) \cap (DOMAIN p \ lowered) = {}}
RealizedFunctions(p, lowered) ==
    LET round[n \in 0 .. Cardinality(DOMAIN p)] ==
          IF n = 0 THEN lowered
          ELSE {f \in round[n - 1] : CalleesOf(p[f]) \cap (DOMAIN p \ round[n - 1]) = {}}
    IN round[Cardinality(DOMAIN p)]
LowerToScalar(p, outs) ==
    LET lowered == [f \in DOMAIN p |-> ScalarFunction(p, p[f], outs[f])]
    IN [f \in RealizedFunctions(p, {f \in DOMAIN p : lowered[f] # None}) |-> lowered[f][1]]
=============================================================================

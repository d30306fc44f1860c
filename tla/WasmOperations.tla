--------------------------- MODULE WasmOperations ---------------------------
(***************************************************************************)
(* What the WebAssembly emitted for one SSA instruction does (lower.rs in  *)
(* crates/mncs-codegen/src).  This lowering starts from SSA itself, not    *)
(* from the scalar form of the native realizations.                        *)
(*                                                                         *)
(* A local is NarrowBits (i32) or WideBits (i64, f64) wide; a cell is      *)
(* reached through a narrow address and a view is a wide descriptor: base, *)
(* length, and in its top bit whether its bytes lie in slots of their own. *)
(* Memory is the arena of NativeExecution, which only grows until a loop   *)
(* region gives it back.                                                   *)
(***************************************************************************)
EXTENDS NativeExecution

CONSTANT WasmHalves    \* the size of linear memory, in half-words

Carrier(ty) == WasmWidth(ty)
\* A local as a number, in the signedness of its type.
Reads(w, ty) == Wrap(w, Carrier(ty), SignedOf(ty))
HalvesOf(width) == IF width = WideBits THEN 2 ELSE 1
-----------------------------------------------------------------------------
(* Memory: mncs_alloc, and accesses the engine refuses outside of it. *)
WasmAlloc(m, halves) ==
    LET next == m.bump + halves + (halves % 2)
    IN IF next > WasmHalves THEN Stopped(3, [m EXCEPT !.exhausted = TRUE]) ELSE Going(m.bump, [m EXCEPT !.bump = next])
OutOfMemory(m, at, width) == at + HalvesOf(width) - 1 \notin DOMAIN m.data
\* An address that is negative as an i32 is not even looked up.
BadAccess(m, at) == Stopped(IF at >= 2^(NarrowBits - 1) THEN 4 ELSE 1, m)
WasmLoad(m, at, width) ==
    IF OutOfMemory(m, at, width) THEN BadAccess(m, at)
    ELSE Going(CASE width = WideBits -> m.data[at] + m.data[at + 1] * 2^NarrowBits
                 [] width = ByteBits -> m.data[at] % 2^ByteBits [] OTHER -> m.data[at], m)
WasmStore(m, at, width, w) ==
    IF OutOfMemory(m, at, width) THEN BadAccess(m, at)
    ELSE Going(0, IF width = WideBits THEN [m EXCEPT !.data[at] = Low(w), !.data[at + 1] = High(w)] ELSE [m EXCEPT !.data[at] = Low(w)])
\* Several loads, and a new cell with several stores; places are in half-words.
Place(at, width) == [at |-> at, width |-> width]
WasmLoads(m, gets) ==
    FoldLeft(LAMBDA r, g : AndThen(r, LAMBDA ws, n : AndThen(WasmLoad(n, Low(g.at), g.width), LAMBDA w, n2 : Going(Append(ws, w), n2))),
             Going(<<>>, m), gets)
Fill(m, halves, puts, words) ==
    AndThen(WasmAlloc(m, halves), LAMBDA cell, n :
      FoldLeft(LAMBDA r, k : AndThen(r, LAMBDA w, n2 : AndThen(WasmStore(n2, Low(cell + puts[k].at), puts[k].width, words[k]),
                                                               LAMBDA w2, n3 : Going(cell, n3))),
               Going(cell, n), [k \in DOMAIN puts |-> k]))
\* Slots one after the other from slot `first`, and lanes at their own stride.
Slots(first, widths) == [k \in DOMAIN widths |-> Place(2 * (first + k - 1), widths[k])]
Lanes(elem, n) == LET ty == VecT(elem, n) IN [k \in 1 .. n |-> Place(LaneStride(ty) * (k - 1), Carrier(elem))]
Moved(places, by) == [k \in DOMAIN places |-> [places[k] EXCEPT !.at = @ + by]]
-----------------------------------------------------------------------------
(* Integers. *)
\* mask_width: a narrow result comes back into its type.
MaskWidth(w, ty) == IF ty.bits < NarrowBits THEN Pat(Wrap(w, ty.bits, ty.signed), NarrowBits) ELSE w
\* A narrow count is masked with bits - 1: the count modulo the width where that is a power of two, as
\* the widths of the machine are.
NarrowCount(b, bits) ==
    IF bits \in {ByteBits, NarrowBits} THEN Low(b) % bits ELSE Bitwise2("and", Low(b), bits - 1, NarrowBits)
WasmShift(op, ty, a, b) ==
    LET count == IF Carrier(ty) = WideBits THEN b % WideBits ELSE NarrowCount(b, ty.bits)
    IN MaskWidth(Pat(IF op = "shl" THEN a * 2^count ELSE Reads(a, ty) \div 2^count, Carrier(ty)), ty)
\* The machine's own instruction, at the width of the carrier.
WasmNative(op, ty, a, b) ==
    CASE op \in {"div", "mod"} -> Stored(Divide(op, Reads(a, ty), Reads(b, ty), IntT(Carrier(ty), ty.signed)), Carrier(ty))
      [] op \in {"and", "or", "xor"} -> Some(Bitwise2(op, a, b, Carrier(ty)))
      [] OTHER -> Some(Pat(Arithmetic(op, Reads(a, ty), Reads(b, ty)), Carrier(ty)))
\* Whether the overflow of a wide operation shows in its wrapped result d.
WideOverflows(op, signed, l, r, d) ==
    CASE op = "add" /\ signed -> (l < 0) = (r < 0) /\ (l < 0) # (d < 0)
      [] op = "sub" /\ signed -> (l < 0) # (r < 0) /\ (l < 0) # (d < 0)
      [] op = "mul" /\ signed -> IF l = -1 THEN r = Limits(WideBits, TRUE).min ELSE l # 0 /\ Quotient(d, l) # r
      [] op = "add" /\ ~signed -> d < l
      [] op = "sub" /\ ~signed -> l < d
      [] op = "mul" /\ ~signed -> r # 0 /\ d \div r # l
\* A narrow one is done at WideBits and held against the type's limits; an unsigned difference below
\* zero is large there.
NarrowExact(op, ty, a, b) == LET n == Arithmetic(op, Reads(a, ty), Reads(b, ty)) IN IF ty.signed THEN n ELSE Pat(n, WideBits)
WasmOverflows(op, ty, a, b) ==
    IF Carrier(ty) = WideBits
    THEN LET l == Reads(a, ty)
             r == Reads(b, ty)
         IN WideOverflows(op, ty.signed, l, r, Wrap(Arithmetic(op, l, r), WideBits, ty.signed))
    ELSE Outside(NarrowExact(op, ty, a, b), Limits(ty.bits, ty.signed))
WasmSaturated(op, ty, a, b) ==
    LET l == Limits(WideBits, ty.signed)
        low == CASE op = "add" -> Reads(a, ty) < 0
                 [] op = "sub" -> Reads(b, ty) >= 0 [] op = "mul" -> (Reads(a, ty) < 0) # (Reads(b, ty) < 0)
    IN Pat(IF low THEN l.min ELSE l.max, WideBits)
WasmSaturating(op, ty, a, b) ==
    IF Carrier(ty) = NarrowBits THEN Pat(Clamp(NarrowExact(op, ty, a, b), Limits(ty.bits, ty.signed)), NarrowBits)
    ELSE IF WasmOverflows(op, ty, a, b) THEN WasmSaturated(op, ty, a, b) ELSE WasmNative(op, ty, a, b)[1]
WasmInteger(o, R, a, b) ==
    CASE o.op \in {"shl", "shr"} -> Some(WasmShift(o.op, o.ty, a, b))
      [] o.op \notin {"shl", "shr"} /\ o.intent = "saturating" -> Some(WasmSaturating(o.op, o.ty, a, b))
      [] o.intent = "widening" -> Some(Pat(Wrap(NarrowExact(o.op, o.ty, a, b), R.bits, R.signed), Carrier(R)))
      [] OTHER ->
           IF o.intent \in {"checked", "trapping"} /\ o.op \notin {"div", "mod"} /\ WasmOverflows(o.op, o.ty, a, b) THEN None
           ELSE Then(WasmNative(o.op, o.ty, a, b), LAMBDA w : Some(MaskWidth(w, o.ty)))
-----------------------------------------------------------------------------
(* The other scalars. *)
WasmConvert(o, w) ==
    LET x == IF o.ty = FloatT THEN w ELSE Reads(w, o.ty)
    IN IF o.to = FloatT THEN Some(x)
       ELSE IF o.ty = FloatT /\ (~Finite(w) \/ Outside(w, FloatGuardBounds(o.to))) THEN None
       ELSE Some(Pat(Wrap(x, BitsOf(o.to), SignedOf(o.to)), Carrier(o.to)))
WasmBoolean(o, v) ==
    CASE o.kind = "bool" -> Bitwise2(o.op, v[1], v[2], NarrowBits)
      [] o.kind = "bool_compare" -> Flag((v[1] = v[2]) = (o.op = "eq"))
      [] o.kind = "bool_not" -> Flag(v[1] = 0)
WasmByte(o, v) ==
    LET count == v[2] % ByteBits
    IN CASE o.kind = "byte" -> Bitwise2(o.op, v[1], v[2], NarrowBits)
         [] o.kind = "byte_compare" -> Flag(Holds(o.op, v[1], v[2]))
         [] o.kind = "byte_shift" -> IF o.op = "shl" THEN Pat(Low(v[1] * 2^count), ByteBits) ELSE v[1] \div 2^count
WasmMask(o, v) ==
    CASE o.kind = "mask" -> Bitwise2("and", Bitwise2(o.op, v[1], v[2], WideBits), MaskLimit(o.n), WideBits)
      [] o.kind = "mask_not" -> Bitwise2("xor", v[1], MaskLimit(o.n), WideBits)
      [] o.kind = "mask_reduce" -> Flag(CASE o.op = "any" -> v[1] # 0 [] o.op = "none" -> v[1] = 0 [] o.op = "all" -> v[1] = MaskLimit(o.n))
WasmScalar(o, R, v) ==
    CASE o.kind = "const" -> Some(Pat(o.val, Carrier(o.ty)))
      [] o.kind = "int" -> WasmInteger(o, R, v[1], v[2])
      [] o.kind = "int_compare" -> Some(Flag(Holds(o.op, Reads(v[1], o.ty), Reads(v[2], o.ty))))
      [] o.kind \in {"bool", "bool_compare", "bool_not"} -> Some(WasmBoolean(o, v))
      [] o.kind \in {"byte", "byte_compare", "byte_shift"} -> Some(WasmByte(o, v))
      [] o.kind \in {"mask", "mask_not", "mask_reduce"} -> Some(WasmMask(o, v))
      [] o.kind = "convert" -> WasmConvert(o, v[1])
      [] o.kind = "select" -> Some(IF v[1] # 0 THEN v[2] ELSE v[3])
      [] o.kind \in {"float_const", "float", "float_compare", "float_intrinsic"} -> GuardedFloat(o, v)
-----------------------------------------------------------------------------
(* Records, finites and sequences.  T are the operand types, R the result type. *)
Widths(T) == [k \in DOMAIN T |-> Carrier(T[k])]
WasmCell(o, T, R, v, m) ==
    CASE o.kind = "seq_construct" -> Fill(m, 2 * o.n, Slots(0, Widths(T)), v)
      [] o.kind = "fin_construct" ->
           IF ~Boxed(o.nominal) THEN Going(o.variant, m)
           ELSE Fill(m, 2 * (Len(v) + 1), <<Place(0, NarrowBits)>> \o Slots(1, Widths(T)), <<o.variant>> \o v)
      [] o.kind = "fin_is" ->
           AndThen(IF Boxed(o.nominal) THEN WasmLoad(m, v[1], NarrowBits) ELSE Going(v[1], m), LAMBDA w, n : Going(Flag(w = o.variant), n))
      [] o.kind = "fin_project" ->
           LET fields == Finites[o.nominal][o.variant] IN WasmLoad(m, Low(v[1] + 2 * (1 + FieldSlot(fields, o.field))), Carrier(R))
      [] o.kind = "rec_construct" ->
           LET fields == Records[o.nominal]
           IN Fill(m, 2 * Len(fields), Slots(0, [k \in DOMAIN fields |-> Carrier(fields[k][2])]), v)
      [] o.kind = "rec_project" -> WasmLoad(m, Low(v[1] + 2 * FieldSlot(Records[o.nominal], o.field)), Carrier(R))
WasmLength(w, exact, cap) == IF exact THEN cap ELSE ViewLength(w)
InSlots(w) == w >= 2^(WideBits - 1)
\* The bytes of a view lie side by side unless the view says otherwise; all else takes slots.
Stride(w, exact, elem) == IF elem = ByteT /\ ~exact /\ ~InSlots(w) THEN 1 ELSE 2
ElementWidth(elem) == IF elem = ByteT THEN ByteBits ELSE Carrier(elem)
WasmProject(o, R, v, m) ==
    IF o.checked /\ v[2] >= WasmLength(v[1], o.exact, o.cap) THEN Stopped(1, m)
    ELSE WasmLoad(m, Low(Low(v[1]) + Stride(v[1], o.exact, R) * v[2]), ElementWidth(R))
WasmReplace(o, T, v, m) ==
    LET slots == Slots(0, [k \in 1 .. o.cap |-> Carrier(T[3])])
    IN IF o.checked /\ v[2] >= o.cap THEN Stopped(1, m)
       ELSE AndThen(WasmLoads(m, Moved(slots, v[1])), LAMBDA ws, n :
              Fill(n, 2 * o.cap, Append(slots, Place(2 * v[2], Carrier(T[3]))), Append(ws, v[3])))
\* Only integers and booleans are copied at their width, what else there is by the whole slot.  Outside
\* the window the first element of the source is loaded, and not used.
CopyWidth(elem) == IF elem.t = "int" THEN Carrier(elem) ELSE IF elem.t \in {"bool", "byte"} THEN NarrowBits ELSE WideBits
WasmCopy(o, v, m) ==
    LET from(k) == IF InWindow(k, v[2], v[5]) THEN v[4] + k - v[2] ELSE 0
        slots == Slots(0, [k \in 1 .. o.cap |-> CopyWidth(o.ty)])
        gets == [k \in 1 .. o.cap |-> Place(Low(v[3]) + Stride(v[3], o.src.exact, o.ty) * from(k - 1),
                                            IF o.ty = ByteT THEN ByteBits ELSE CopyWidth(o.ty))]
        ends == {<<(v[2] + v[5]) % 2^WideBits, v[2], o.cap>>,
                 <<(v[4] + v[5]) % 2^WideBits, v[4], WasmLength(v[3], o.src.exact, o.src.cap)>>}
    IN IF o.checked /\ \E e \in ends : e[1] < e[2] \/ e[1] > e[3] THEN Stopped(1, m)
       ELSE AndThen(WasmLoads(m, gets), LAMBDA new, n : AndThen(WasmLoads(n, Moved(slots, v[1])), LAMBDA old, n2 :
              Fill(n2, 2 * o.cap, slots, [k \in 1 .. o.cap |-> IF InWindow(k - 1, v[2], v[5]) THEN new[k] ELSE old[k]])))
WasmView(o, R, v, m) ==
    LET mark == R.elem = ByteT /\ (o.src.exact \/ InSlots(v[1]))
        word == PackView(Low(v[1]) + Stride(v[1], o.src.exact, R.elem) * v[2], v[3] - v[2])
    IN IF v[2] > v[3] \/ v[3] > WasmLength(v[1], o.src.exact, o.src.cap) \/ v[3] - v[2] > o.cap THEN Stopped(1, m)
       ELSE Going(word + IF mark THEN 2^(WideBits - 1) ELSE 0, m)
WasmSequence(o, T, R, v, m) ==
    CASE o.kind = "seq_project" -> WasmProject(o, R, v, m)
      [] o.kind = "seq_replace" -> WasmReplace(o, T, v, m)
      [] o.kind = "seq_copy" -> WasmCopy(o, v, m)
      [] o.kind = "seq_length" -> Going(WasmLength(v[1], o.exact, o.cap), m)
      [] o.kind = "view" -> WasmView(o, R, v, m)
      [] o.kind = "narrow" -> IF ViewLength(v[1]) > o.cap THEN Stopped(1, m) ELSE Going(v[1], m)
      [] o.kind = "bound_check" -> IF v[2] >= WasmLength(v[1], o.exact, o.cap) THEN Stopped(1, m) ELSE Going(v[2], m)
-----------------------------------------------------------------------------
(* Vectors: cells of lanes without padding. *)
WasmLane(op, ty, a, b) ==
    CASE op \in {"min", "max"} -> IF Holds(IF op = "min" THEN "lt" ELSE "gt", Reads(a, ty), Reads(b, ty)) THEN a ELSE b
      [] op \in {"shl", "shr"} -> WasmShift(op, ty, a, b)
      [] OTHER -> WasmNative(op, ty, a, b)[1]
ReduceSeed(op, ty) == LET l == Limits(ty.bits, ty.signed) IN CASE op = "sum" -> 0 [] op = "min" -> Pat(l.max, ty.bits) [] op = "max" -> Pat(l.min, ty.bits)
LaneIndex(o, v) == Low(LaneStride(VecT(o.ty, o.n)) * v[2])
\* Lanes of two cells, taken together.
Zipped(m, lanes, a, b, F(_, _)) ==
    AndThen(WasmLoads(m, Moved(lanes, a)), LAMBDA x, n : AndThen(WasmLoads(n, Moved(lanes, b)), LAMBDA y, n2 :
        Going([k \in DOMAIN x |-> F(x[k], y[k])], n2)))
WasmVector(o, v, m) ==
    LET lanes == Lanes(o.ty, o.n)
        halves == LaneStride(VecT(o.ty, o.n)) * o.n
        new(words, n) == Fill(n, halves, lanes, words)
        out == o.checked /\ v[2] >= o.n
    IN CASE o.kind = "vec_construct" -> new(v, m)
         [] o.kind = "vec_splat" -> new([k \in 1 .. o.n |-> v[1]], m)
         [] o.kind = "vec_extract" -> IF out THEN Stopped(1, m) ELSE WasmLoad(m, Low(v[1] + LaneIndex(o, v)), Carrier(o.ty))
         [] o.kind = "vec_replace" ->
              IF out THEN Stopped(1, m)
              ELSE AndThen(WasmLoads(m, Moved(lanes, v[1])), LAMBDA ws, n :
                     Fill(n, halves, Append(lanes, Place(LaneIndex(o, v), Carrier(o.ty))), Append(ws, v[3])))
         [] o.kind = "vec_binary" -> AndThen(Zipped(m, lanes, v[1], v[2], LAMBDA a, b : WasmLane(o.op, o.ty, a, b)), new)
         [] o.kind = "vec_compare" ->
              AndThen(Zipped(m, lanes, v[1], v[2], LAMBDA a, b : Holds(o.op, Reads(a, o.ty), Reads(b, o.ty))), LAMBDA on, n : Going(PackMask(on), n))
         [] o.kind = "vec_reduce" ->
              AndThen(WasmLoads(m, Moved(lanes, v[1])), LAMBDA ws, n :
                Going(FoldLeft(LAMBDA acc, w : WasmLane(IF o.op = "sum" THEN "add" ELSE o.op, o.ty, acc, w), ReduceSeed(o.op, o.ty), ws), n))
WasmMaskedSelect(ty, v, m) ==
    AndThen(WasmLoads(m, Moved(Lanes(ty.elem, ty.lanes), v[2])), LAMBDA x, n : AndThen(WasmLoads(n, Moved(Lanes(ty.elem, ty.lanes), v[3])), LAMBDA y, n2 :
      Fill(n2, LaneStride(ty) * ty.lanes, Lanes(ty.elem, ty.lanes), [k \in 1 .. ty.lanes |-> IF Bit(v[1], k - 1) = 1 THEN x[k] ELSE y[k]])))
WasmInstruction(o, T, R, v, m) ==
    CASE o.kind \in {"seq_construct", "fin_construct", "fin_is", "fin_project", "rec_construct", "rec_project"} -> WasmCell(o, T, R, v, m)
      [] KeepsShape(o) -> WasmSequence(o, T, R, v, m)
      [] o.kind \in {"vec_construct", "vec_splat", "vec_extract", "vec_replace", "vec_binary", "vec_compare", "vec_reduce"} -> WasmVector(o, v, m)
      [] o.kind = "select" /\ o.ty.t = "vec" -> WasmMaskedSelect(o.ty, v, m)
      [] OTHER -> LET r == WasmScalar(o, R, v) IN IF r = None THEN Stopped(1, m) ELSE Going(r[1], m)
-----------------------------------------------------------------------------
(* What the lowering refuses. *)
HasCarrier(ty) == ty.t = "int" => ty.bits \in (1 .. NarrowBits) \cup {WideBits}
LaneOk(ty) == ty.t = "int" /\ ty.bits \in {NarrowBits, WideBits}
ConstantFits(n, ty) ==
    ty # FloatT /\ ~Outside(n, IF ty.t = "int" /\ ~ty.signed THEN Limits(ty.bits, FALSE) ELSE Limits(Carrier(ty), TRUE))
IntegerEmitted(o, R) ==
    /\ R.t = "int"
    /\ CASE o.intent = "wrapping" -> TRUE
         [] o.intent \in {"checked", "trapping"} -> o.op \in {"add", "sub", "mul", "div", "mod"}
         [] o.intent = "saturating" -> /\ o.op \in {"add", "sub", "mul"}
                                       /\ IF R.bits = WideBits THEN o.op # "mul" \/ o.ty.signed ELSE R = o.ty
         [] o.intent = "widening" -> /\ o.op \in {"add", "sub", "mul"} /\ o.ty.bits <= NarrowBits /\ R.signed = o.ty.signed
                                     /\ ArithmeticResult(o.op, o.ty, "widening", R.bits) = Some(R)
ConvertEmitted(o) == o.to.t \in {"int", "byte"} \/ (o.to = FloatT /\ o.ty.t \in {"int", "byte", "bool", "float"})
VectorEmitted(o) ==
    /\ LaneOk(o.ty)
    /\ o.kind \in {"vec_binary", "vec_reduce"} => o.intent = "wrapping" /\ o.n >= 1
    /\ o.kind = "vec_binary" => o.op \in {"min", "max", "add", "sub", "mul", "and", "or", "xor", "shl", "shr"}
    /\ o.kind = "vec_reduce" => o.op \in {"sum", "min", "max"}
    /\ o.kind = "vec_construct" => Len(o.in) = o.n
NominalEmitted(o) ==
    CASE o.kind = "rec_construct" -> o.names = [k \in DOMAIN Records[o.nominal] |-> Records[o.nominal][k][1]]
      [] o.kind = "rec_project" -> HasField(Records[o.nominal], o.field)
      [] o.kind = "fin_construct" -> Len(o.names) = Len(Finites[o.nominal][o.variant])
      [] o.kind = "fin_project" -> Boxed(o.nominal) /\ HasField(Finites[o.nominal][o.variant], o.field)
      [] OTHER -> TRUE
\* Arithmetic on vector lanes keeps its kinds apart from the scalar one.
Emitted(o) ==
    /\ Len(o.out) = 1 /\ o.kind \notin {"effect", "host", "check"}
    /\ o.kind = "const" => ConstantFits(o.val, o.ty)
    /\ o.kind = "int" => IntegerEmitted(o, o.out[1][2])
    /\ o.kind = "convert" => ConvertEmitted(o)
    /\ o.kind \in {"seq_replace", "seq_copy"} => o.exact
    /\ o.kind = "view" => ~o.exact
    /\ o.kind \in {"vec_construct", "vec_splat", "vec_extract", "vec_replace", "vec_binary", "vec_compare", "vec_reduce"} => VectorEmitted(o)
    /\ (o.kind = "select" /\ o.ty.t = "vec") => LaneOk(o.ty.elem)
    /\ NominalEmitted(o)
=============================================================================

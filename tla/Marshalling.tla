------------------------------ MODULE Marshalling ------------------------------
(***************************************************************************)
(* Values at the boundary of a native call (composite.rs and support.rs in *)
(* crates/mncs-codegen/src): how arguments are checked and written into an *)
(* arena image, and how a result word is read back.                        *)
(*                                                                         *)
(* An image is a sequence of half-words of NarrowBits; an address counts   *)
(* half-words from 0 and a slot is two of them.  A wide word is stored low *)
(* half first.                                                             *)
(***************************************************************************)
EXTENDS ScalarLowering

Low(w) == w % 2^NarrowBits
High(w) == w \div 2^NarrowBits
Put(img, at, width, w) ==
    IF width = WideBits THEN [img EXCEPT ![at + 1] = Low(w), ![at + 2] = High(w)] ELSE [img EXCEPT ![at + 1] = Low(w)]
Reserve(img, slots) == img \o [i \in 1 .. 2 * slots |-> 0]
PackView(base, length) == Low(base) + length * 2^NarrowBits
ViewBase(w) == Low(w)
ViewLength(w) == High(w) % 2^(NarrowBits - 1)
PackMask(on) == FoldFunction(LAMBDA bit, acc : bit + acc, 0, [i \in DOMAIN on |-> IF on[i] THEN 2^(i - 1) ELSE 0])
UnpackMask(w, lanes) == MaskV([i \in 1 .. lanes |-> (w \div 2^(i - 1)) % 2 = 1])
-----------------------------------------------------------------------------
(* The check before anything is written.  A nominal value may be spelled by name; its fields may come  *)
(* in any order. *)
RECURSIVE Accepts(_, _)
AcceptsFields(declared, received) ==
    Resolves(declared, received)
    /\ \A i \in DOMAIN declared : Accepts(Received(received, NameOf(declared[i])), declared[i][2])
Accepts(v, ty) ==
    CASE v.k = "int" -> ty = v.ty /\ InRange(v.n, ty)
      [] v.k = "bool" -> ty = BoolT
      [] v.k = "byte" -> ty = ByteT /\ IsByte(v.byte)
      [] v.k = "float" -> ty = FloatT
      [] v.k = "seq" -> ty.t = "seq" /\ Fits(Len(v.vals), ty) /\ \A i \in DOMAIN v.vals : Accepts(v.vals[i], ty.elem)
      [] v.k = "vec" -> ty.t = "vec" /\ Len(v.vals) = ty.lanes /\ \A i \in DOMAIN v.vals : Accepts(v.vals[i], ty.elem)
      [] v.k = "mask" -> ty.t = "mask" /\ Len(v.on) = ty.lanes
      [] v.k = "rec" -> ty.t = "rec" /\ v.id = ty.id /\ AcceptsFields(Records[ty.id], v.fields)
      [] v.k = "fin" -> ty.t = "fin" /\ v.id = ty.id /\ ValidFinite(ty.id, v.variant, v.disc)
                        /\ AcceptsFields(Finites[ty.id][v.variant], v.fields)
\* A call of scalars only goes without an image and without that check.
UsesCallFile(ty) == ty.t \in {"rec", "seq", "vec", "mask"} \/ (ty.t = "fin" /\ Boxed(ty.id))
ValueUsesCallFile(v) == v.k \in {"rec", "seq", "vec", "mask"} \/ (v.k = "fin" /\ v.fields # <<>>)
NeedsCallFile(args, T, outs) ==
    \/ \E i \in DOMAIN args : ValueUsesCallFile(args[i])
    \/ \E i \in DOMAIN T : UsesCallFile(T[i])
    \/ outs # <<>> /\ UsesCallFile(outs[1])
-----------------------------------------------------------------------------
(* ArenaWriter: the word of a value and the image with its cells.  A cell is reserved before the cells *)
(* of its fields. *)
RECURSIVE Encode(_, _, _)
\* Variant: fields are stored in the order they were received.
EncodeFields_AsReceived(img, at, declared, received) ==
    FoldLeft(LAMBDA acc, i : LET e == Encode(acc, received[i][2], declared[i][2])
                             IN Put(e.img, at + 2 * (i - 1), SlotWidth(declared[i][2]), e.w),
             img, [i \in DOMAIN declared |-> i])
EncodeFields(img, at, declared, received) ==
    FoldLeft(LAMBDA acc, i : LET e == Encode(acc, Received(received, NameOf(declared[i])), declared[i][2])
                             IN Put(e.img, at + 2 * (i - 1), SlotWidth(declared[i][2]), e.w),
             img, [i \in DOMAIN declared |-> i])
EncodeSequence(img, vals, elem) ==
    EncodeFields(Reserve(img, Len(vals)), Len(img), [i \in DOMAIN vals |-> <<i, elem>>], [i \in DOMAIN vals |-> <<i, vals[i]>>])
Encode(img, v, ty) ==
    LET cell(i) == [img |-> i, w |-> Len(img)]
        bits(w) == [img |-> img, w |-> w]
    IN CASE v.k = "int" -> bits(v.n % 2^WideBits)
         [] v.k = "bool" -> bits(IF v.b THEN 1 ELSE 0)
         [] v.k = "byte" -> bits(v.byte)
         [] v.k = "float" -> bits(v.f)
         [] v.k = "mask" -> bits(PackMask(v.on))
         [] v.k = "vec" -> cell(EncodeSequence(img, v.vals, ty.elem))
         [] v.k = "seq" ->
              IF ty.exact THEN cell(EncodeSequence(img, v.vals, ty.elem))
              ELSE IF v.vals = <<>> THEN bits(PackView(0, 0))
              ELSE [img |-> EncodeSequence(img, v.vals, ty.elem), w |-> PackView(Len(img), Len(v.vals))]
         [] v.k = "rec" -> LET fields == Records[v.id]
                           IN cell(EncodeFields(Reserve(img, Len(fields)), Len(img), fields, v.fields))
         [] v.k = "fin" ->
              IF v.fields = <<>> /\ (v.spelled \/ ~Boxed(v.id)) THEN bits(v.disc)
              ELSE LET fields == Finites[v.id][v.disc]
                   IN cell(EncodeFields(Put(Reserve(img, Len(fields) + 1), Len(img), NarrowBits, v.disc),
                                        Len(img) + 2, fields, v.fields))
\* All arguments of a call, one after the other.
EncodeArguments(args, T) ==
    FoldLeft(LAMBDA acc, i : LET e == Encode(acc.img, args[i], T[i]) IN [img |-> e.img, words |-> Append(acc.words, e.w)],
             [img |-> <<>>, words |-> <<>>], [i \in DOMAIN args |-> i])
\* Spelled by name, a nominal value has no layout in the registry of identities; one without fields is
\* taken for a bare tag.
RECURSIVE Written(_)
Written(v) == CASE v.k \in {"seq", "vec"} -> \A i \in DOMAIN v.vals : Written(v.vals[i])
                [] v.k \in {"rec", "fin"} -> (v.spelled => v.k = "fin" /\ v.fields = <<>>)
                                             /\ \A i \in DOMAIN v.fields : Written(v.fields[i][2])
                [] OTHER -> TRUE
-----------------------------------------------------------------------------
(* ArenaReader: the value of a word against a declared type, or nothing. *)
Get(img, at, width) ==
    IF at + width \div NarrowBits > Len(img) THEN None
    ELSE Some(IF width = WideBits THEN img[at + 1] + img[at + 2] * 2^NarrowBits ELSE img[at + 1])
\* integer_from_slot_bits.
FromSlotBits(w, ty) == IntV(Wrap(w, ty.bits, ty.signed), ty)
FiniteOf(id, disc, fields) == [FinV(id, disc, fields) EXCEPT !.disc = disc]
RECURSIVE Decode(_, _, _)
DecodeField(img, at, ty) == Then(Get(img, at, SlotWidth(ty)), LAMBDA w : Decode(img, w, ty))
DecodeFields(img, at, declared) ==
    LET each == [i \in DOMAIN declared |-> DecodeField(img, at + 2 * (i - 1), declared[i][2])]
    IN IF \E i \in DOMAIN each : each[i] = None THEN None
       ELSE Some([i \in DOMAIN each |-> <<NameOf(declared[i]), each[i][1]>>])
DecodeSequence(img, at, length, elem) ==
    Then(DecodeFields(img, at, [i \in 1 .. length |-> <<i, elem>>]),
         LAMBDA fields : Some([i \in DOMAIN fields |-> fields[i][2]]))
DecodeView(img, w, ty) ==
    IF ViewLength(w) > ty.cap THEN None
    ELSE Then(DecodeSequence(img, ViewBase(w), ViewLength(w), ty.elem), LAMBDA vals : Some(SeqV(vals)))
Decode(img, w, ty) ==
    CASE ty.t = "int" -> Some(FromSlotBits(w, ty))
      [] ty.t = "bool" -> Some(BoolV(w = 1))
      [] ty.t = "byte" -> Some(ByteV(w))
      [] ty.t = "float" -> IF Finite(w) THEN Some(FloatV(w)) ELSE None
      [] ty.t = "mask" -> Some(UnpackMask(w, ty.lanes))
      [] ty.t = "vec" -> Then(DecodeSequence(img, w, ty.lanes, ty.elem), LAMBDA vals : Some(VecV(vals)))
      [] ty.t = "seq" -> IF ty.exact THEN Then(DecodeSequence(img, w, ty.cap, ty.elem), LAMBDA vals : Some(SeqV(vals)))
                         ELSE DecodeView(img, w, ty)
      [] ty.t = "rec" -> Then(DecodeFields(img, w, Records[ty.id]), LAMBDA fields : Some(RecV(ty.id, fields)))
      [] ty.t = "fin" /\ ~Boxed(ty.id) -> IF HasVariant(ty.id, w) THEN Some(FiniteOf(ty.id, w, <<>>)) ELSE None
      [] ty.t = "fin" /\ Boxed(ty.id) ->
           Then(Get(img, w, NarrowBits),
                LAMBDA disc : IF ~HasVariant(ty.id, disc) THEN None
                              ELSE Then(DecodeFields(img, w + 2, Finites[ty.id][disc]),
                                        LAMBDA fields : Some(FiniteOf(ty.id, disc, fields))))
\* backend_output_value: a scalar result, from the signed reading of the word.
Reinterpret(n, ty) ==
    IF ty.signed THEN (IF n \in 2^(ty.bits - 1) .. 2^ty.bits - 1 THEN n - 2^ty.bits ELSE n)
    ELSE IF n < 0 /\ ty.bits \in {NarrowBits, WideBits} THEN n + 2^ty.bits ELSE n
OutputValue(w, ty) ==
    LET n == Wrap(w, WideBits, TRUE)
    IN CASE ty.t = "bool" -> IF n \in {0, 1} THEN Some(BoolV(n = 1)) ELSE None
         [] ty.t = "int" -> IF InRange(Reinterpret(n, ty), ty) THEN Some(IntV(Reinterpret(n, ty), ty)) ELSE None
         [] ty.t = "byte" -> Some(ByteV(n % 2^ByteBits))
         [] ty.t = "float" -> IF Finite(w) THEN Some(FloatV(w)) ELSE None
         [] ty.t = "mask" -> Some(UnpackMask(w, ty.lanes))
         [] ty.t = "fin" -> IF HasVariant(ty.id, n) THEN Some(FiniteOf(ty.id, n, <<>>)) ELSE None
NeedsArena(ty) == ty.t \in {"rec", "seq", "vec"} \/ (ty.t = "fin" /\ Boxed(ty.id))
\* The arena is read when the type needs it; one that is not there cannot be decoded.
DecodeObservation(img, w, ty) == IF NeedsArena(ty) THEN Decode(img, w, ty) ELSE OutputValue(w, ty)
=============================================================================

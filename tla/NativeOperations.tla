--------------------------- MODULE NativeOperations ---------------------------
(***************************************************************************)
(* What the code each native realization emits for a scalar instruction    *)
(* computes (cranelift_backend.rs, llvm.rs, c11.rs in                      *)
(* crates/mncs-codegen/src).                                               *)
(*                                                                         *)
(* A word is a bit pattern, as a natural number below 2^w, where w is the  *)
(* width of the place the target keeps the value in: always WideBits for   *)
(* Cranelift, the type's own for LLVM, that of a C type for C11.  A float  *)
(* is carried as its pattern; the model takes the float itself.  A result  *)
(* is a word, or None where the code branches to its failure block.        *)
(***************************************************************************)
EXTENDS ScalarLowering, BodyOperations

Pat(v, bits) == v % 2^bits
BitsOf(sty) == CASE sty.t = "int" -> sty.bits [] sty.t = "byte" -> ByteBits
                 [] sty.t \in {"bool", "finite"} -> NarrowBits [] OTHER -> WideBits
SignedOf(sty) == sty.t = "int" /\ sty.signed
Flag(b) == IF b THEN 1 ELSE 0
\* c_type: uint8_t, int32_t, int64_t, uint64_t and double.
CBits(sty) == IF sty.t = "byte" THEN ByteBits ELSE IF BitsOf(sty) <= NarrowBits THEN NarrowBits ELSE WideBits
CSigned(sty) == sty.t \in {"int", "bool", "finite"}
StorageBits(target, sty) ==
    CASE target = "cranelift" -> WideBits [] target = "llvm" -> BitsOf(sty) [] target = "c11" -> CBits(sty)
-----------------------------------------------------------------------------
(* Arithmetic on readings of the words. *)
Arithmetic(op, x, y) == CASE op = "sub" -> x - y [] op = "mul" -> x * y [] OTHER -> x + y
Outside(v, l) == v < l.min \/ v > l.max
\* Division fails on zero and on MIN / -1; MIN % -1 is 0.
Divide(op, x, y, sty) ==
    IF y = 0 THEN None
    ELSE IF op = "mod" THEN Some(Remainder(x, y))
    ELSE IF SignedOf(sty) /\ y = -1 /\ x = Limits(sty.bits, TRUE).min THEN None
    ELSE Some(Quotient(x, y))
Stored(opt, bits) == IF opt = None THEN None ELSE Some(Pat(opt[1], bits))
\* Floats: finite operands, finite result.
GuardedFloat(i, v) ==
    CASE i.kind = "float_const" -> Some(i.val)
      [] i.kind = "float" -> EvaluateFloat(i.op, v[1], v[2])
      [] i.kind = "float_compare" -> Then(CompareFloats(i.op, v[1], v[2]), LAMBDA b : Some(Flag(b)))
      [] i.kind = "float_intrinsic" ->
           IF ~Finite(v[1]) THEN None ELSE LET f == Libm(i.op, v[1]) IN IF Finite(f) THEN Some(f) ELSE None
-----------------------------------------------------------------------------
(* Cranelift: every value in one cell of WideBits. *)
NormalizeOne(w, bits, signed) == IF bits >= WideBits THEN w ELSE Pat(Wrap(w, bits, signed), WideBits)
CraneliftDivision(i, sty, a, b) ==
    Stored(Divide(i.op, Wrap(a, sty.bits, sty.signed), Wrap(b, sty.bits, sty.signed), sty), WideBits)
CraneliftShift(i, sty, a, b) ==
    LET left == Wrap(a, BitsOf(sty), SignedOf(sty))
        count == b % BitsOf(sty)
    IN Some(IF i.op = "shl" THEN NormalizeOne(Pat(left * 2^count, WideBits), BitsOf(sty), SignedOf(sty))
            ELSE Pat(left \div 2^count, WideBits))
\* Unsigned operands widen to an unsigned i128, in which a difference below zero is large.
CraneliftSaturating(i, sty, a, b) ==
    LET wide == Arithmetic(i.op, Wrap(a, WideBits, sty.signed), Wrap(b, WideBits, sty.signed))
    IN Some(Pat(Clamp(IF sty.signed THEN wide ELSE Pat(wide, HostBits), Limits(sty.bits, sty.signed)), WideBits))
CraneliftArithmetic(i, sty, a, b) ==
    LET raw == Pat(Arithmetic(i.op, a, b), WideBits)
        wide == Arithmetic(i.op, Wrap(a, WideBits, sty.signed), Wrap(b, WideBits, sty.signed))
        seen == IF sty.bits >= WideBits THEN wide ELSE Wrap(raw, WideBits, TRUE)
    IN IF i.intent \in {"checked", "trapping"} /\ i.checked
       THEN IF Outside(seen, Limits(sty.bits, sty.signed)) THEN None ELSE Some(raw)
       ELSE Some(NormalizeOne(raw, sty.bits, sty.signed))
CraneliftInteger(i, sty, v) ==
    CASE i.op \in {"div", "mod"} -> CraneliftDivision(i, sty, v[1], v[2])
      [] i.op \in {"and", "or", "xor"} -> Some(Bitwise2(i.op, v[1], v[2], WideBits))
      [] i.op \in {"shl", "shr"} -> CraneliftShift(i, sty, v[1], v[2])
      [] OTHER -> IF i.intent = "saturating" THEN CraneliftSaturating(i, sty, v[1], v[2])
                  ELSE CraneliftArithmetic(i, sty, v[1], v[2])
\* Variant: a signed comparison with the unsigned condition code.
CraneliftCompare_Unsigned(i, v) == Some(Flag(Holds(i.op, v[1], v[2])))
\* The whole cell is compared, in the operand's signedness.
CraneliftCompare(i, v) ==
    Some(Flag(Holds(i.op, Wrap(v[1], WideBits, i.ty.signed), Wrap(v[2], WideBits, i.ty.signed))))
CraneliftBoolean(i, v) ==
    Some(CASE i.kind = "bool" -> Bitwise2(IF i.op = "and" THEN "and" ELSE "or", v[1], v[2], WideBits)
           [] i.kind = "bool_compare" -> Flag((v[1] = v[2]) = (i.op # "ne"))
           [] i.kind = "bool_not" -> Flag(v[1] = 0))
CraneliftByte(i, v) ==
    Some(IF i.kind = "byte" THEN Bitwise2(i.op, v[1], v[2], WideBits)
         ELSE Pat(IF i.op = "shl" THEN v[1] * 2^(v[2] % ByteBits) ELSE v[1] \div 2^(v[2] % ByteBits), ByteBits))
\* The bounds a float is held against before it is converted; a float of the model is integral.
FloatGuardBounds(sty) ==
    [min |-> IF SignedOf(sty) THEN -(2^(BitsOf(sty) - 1)) ELSE 0,
     max |-> (IF SignedOf(sty) THEN 2^(BitsOf(sty) - 1) ELSE 2^BitsOf(sty)) - 1]
\* The bit pattern of a float, taken for an unsigned integer: 0 for zero, a large number for any other.
PatternAsNumber(w) == IF w = 0 THEN 0 ELSE FloatMax - 1
\* Whatever is not a signed integer is converted to float as an unsigned one, a float's pattern included.
CraneliftConvert(i, w) ==
    LET renormal(v) == Some(Pat(Wrap(v, BitsOf(i.to), SignedOf(i.to)), WideBits))
    IN IF i.to = FloatT THEN Some(IF i.ty = FloatT THEN PatternAsNumber(w) ELSE Wrap(w, WideBits, SignedOf(i.ty)))
       ELSE IF i.ty # FloatT THEN renormal(w)
       ELSE IF i.to.t \notin {"int", "byte"} \/ ~Finite(w) \/ Outside(w, FloatGuardBounds(i.to)) THEN None
       ELSE renormal(w)
CraneliftSelect(v) == Some(IF v[1] # 0 THEN v[2] ELSE v[3])
CraneliftScalar(i, T, v) ==
    CASE i.kind = "const" -> Some(Pat(i.val, WideBits))
      [] i.kind = "finite" -> Some(i.val)
      [] i.kind = "int" -> CraneliftInteger(i, i.out[1][2], v)
      [] i.kind = "compare" -> CraneliftCompare(i, v)
      [] i.kind \in {"bool", "bool_compare", "bool_not"} -> CraneliftBoolean(i, v)
      [] i.kind \in {"byte", "byte_shift"} -> CraneliftByte(i, v)
      [] i.kind = "convert" -> CraneliftConvert(i, v[1])
      [] i.kind = "select" -> CraneliftSelect(v)
      [] OTHER -> GuardedFloat(i, v)
-----------------------------------------------------------------------------
(* LLVM: registers of the type's own width. *)
LlvmCheckedDivision(i, sty, a, b) ==
    Stored(Divide(i.op, Wrap(a, sty.bits, sty.signed), Wrap(b, sty.bits, sty.signed), sty), sty.bits)
\* The saturating intrinsics; a product is clamped towards the sign it has.
LlvmSaturating(i, sty, a, b) ==
    Some(Pat(Clamp(Arithmetic(i.op, Wrap(a, sty.bits, sty.signed), Wrap(b, sty.bits, sty.signed)),
                   Limits(sty.bits, sty.signed)), sty.bits))
LlvmChecked(i, sty, a, b) ==
    LET exact == Arithmetic(i.op, Wrap(a, sty.bits, sty.signed), Wrap(b, sty.bits, sty.signed))
    IN IF Outside(exact, Limits(sty.bits, sty.signed)) THEN None ELSE Some(Pat(exact, sty.bits))
LlvmShift(i, sty, a, b) ==
    LET count == b % BitsOf(sty)
    IN Some(Pat(IF i.op = "shl" THEN a * 2^count ELSE Wrap(a, BitsOf(sty), SignedOf(sty)) \div 2^count, BitsOf(sty)))
LlvmInteger(i, sty, v) ==
    CASE i.op \in {"div", "mod"} -> LlvmCheckedDivision(i, sty, v[1], v[2])
      [] i.op \notin {"div", "mod"} /\ i.intent = "saturating" -> LlvmSaturating(i, sty, v[1], v[2])
      [] i.op \in {"add", "sub", "mul"} /\ i.intent \in {"checked", "trapping"} /\ i.checked -> LlvmChecked(i, sty, v[1], v[2])
      [] i.op \in {"shl", "shr"} -> LlvmShift(i, sty, v[1], v[2])
      [] i.op \in {"and", "or", "xor"} -> Some(Bitwise2(i.op, v[1], v[2], BitsOf(sty)))
      [] OTHER -> Some(Pat(Arithmetic(i.op, v[1], v[2]), BitsOf(sty)))
LlvmCompare(i, v) ==
    Some(Flag(Holds(i.op, Wrap(v[1], i.ty.bits, i.ty.signed), Wrap(v[2], i.ty.bits, i.ty.signed))))
LlvmBoolean(i, v) ==
    Some(CASE i.kind = "bool" -> Bitwise2(IF i.op = "and" THEN "and" ELSE "or", v[1], v[2], NarrowBits)
           [] i.kind = "bool_compare" -> Flag((v[1] = v[2]) = (i.op # "ne"))
           [] i.kind = "bool_not" -> Bitwise2("xor", v[1], 1, NarrowBits))
LlvmByte(i, v) ==
    Some(IF i.kind = "byte" THEN Bitwise2(i.op, v[1], v[2], ByteBits)
         ELSE Pat(IF i.op = "shl" THEN v[1] * 2^(v[2] % ByteBits) ELSE v[1] \div 2^(v[2] % ByteBits), ByteBits))
\* Extension by the source's signedness, truncation, or the word as it is where the types are one.
LlvmConvert(i, w) ==
    IF i.to = FloatT THEN Some(IF i.ty = FloatT THEN w ELSE Wrap(w, BitsOf(i.ty), SignedOf(i.ty)))
    ELSE IF i.ty = FloatT
    THEN IF i.to.t \notin {"int", "byte"} \/ ~Finite(w) \/ Outside(w, FloatGuardBounds(i.to)) THEN None
         ELSE Some(Pat(w, BitsOf(i.to)))
    ELSE IF BitsOf(i.ty) < BitsOf(i.to) THEN Some(Pat(Wrap(w, BitsOf(i.ty), SignedOf(i.ty)), BitsOf(i.to)))
    ELSE Some(Pat(w, BitsOf(i.to)))
LlvmSelect(v) == Some(IF v[1] # 0 THEN v[2] ELSE v[3])
LlvmScalar(i, T, v) ==
    CASE i.kind = "const" -> Some(Pat(i.val, BitsOf(i.out[1][2])))
      [] i.kind = "finite" -> Some(i.val)
      [] i.kind = "int" -> LlvmInteger(i, i.out[1][2], v)
      [] i.kind = "compare" -> LlvmCompare(i, v)
      [] i.kind \in {"bool", "bool_compare", "bool_not"} -> LlvmBoolean(i, v)
      [] i.kind \in {"byte", "byte_shift"} -> LlvmByte(i, v)
      [] i.kind = "convert" -> LlvmConvert(i, v[1])
      [] i.kind = "select" -> LlvmSelect(v)
      [] OTHER -> GuardedFloat(i, v)
-----------------------------------------------------------------------------
(* C11: unsigned integers live in signed C cells as well, and narrow ones in int32_t. *)
CValue(w, sty) == Wrap(w, CBits(sty), CSigned(sty))
CStore(v, sty) == Some(Pat(v, CBits(sty)))
\* uint64_t of a C value, and the unsigned cell of its width.
CU64(x) == Pat(x, WideBits)
CUnsigned(x, sty) == Pat(x, IF sty.bits <= NarrowBits THEN NarrowBits ELSE WideBits)
\* The cast of a count to uint32_t keeps it modulo the width, a power of two.
C11Shift(i, sty, x, y) ==
    LET bits == BitsOf(sty)
        count == CU64(y) % bits
    IN CASE i.op = "shl" -> CStore(Pat(CU64(x) * 2^count, bits), sty)
         [] i.op = "shr" /\ SignedOf(sty) -> CStore(x \div 2^count, sty)
         [] OTHER -> CStore(Pat(CU64(x), bits) \div 2^count, sty)
C11Division(i, sty, x, y) ==
    LET u(z) == IF sty.signed THEN z ELSE CUnsigned(z, sty)
    IN Stored(Divide(i.op, u(x), u(y), sty), CBits(sty))
C11Wide(i, sty, x, y) ==
    IF sty.signed THEN Arithmetic(i.op, x, y)
    ELSE Pat(Arithmetic(i.op, CUnsigned(x, sty), CUnsigned(y, sty)), HostBits)
C11Integer(i, sty, x, y) ==
    LET wide == C11Wide(i, sty, x, y)
        l == Limits(sty.bits, sty.signed)
    IN CASE i.op \in {"and", "or", "xor"} -> CStore(Bitwise2(i.op, CU64(x), CU64(y), WideBits), sty)
         [] i.op \in {"shl", "shr"} -> C11Shift(i, sty, x, y)
         [] i.op \in {"div", "mod"} -> C11Division(i, sty, x, y)
         [] OTHER ->
              IF i.intent \in {"checked", "trapping"} /\ i.checked
              THEN IF Outside(wide, l) THEN None ELSE CStore(wide, sty)
              ELSE IF i.intent = "saturating" THEN CStore(Clamp(wide, l), sty)
              ELSE CStore(Pat(Arithmetic(i.op, CU64(x), CU64(y)), sty.bits), sty)
\* Signed operands and equality compare the C cells, the rest compares after a cast to the exact width.
C11Compare(i, x, y, sty) ==
    CStore(Flag(IF i.ty.signed \/ i.op \in {"eq", "ne"} THEN Holds(i.op, x, y)
                ELSE Holds(i.op, Pat(x, i.ty.bits), Pat(y, i.ty.bits))), sty)
C11Boolean(i, x) ==
    Some(CASE i.kind = "bool" -> Flag(IF i.op = "and" THEN x[1] # 0 /\ x[2] # 0 ELSE x[1] # 0 \/ x[2] # 0)
           [] i.kind = "bool_compare" -> Flag((x[1] = x[2]) = (i.op # "ne"))
           [] i.kind = "bool_not" -> Flag(x[1] = 0))
C11Byte(i, x) ==
    LET count == CU64(x[2]) % ByteBits
    IN CStore(IF i.kind = "byte" THEN Bitwise2(i.op, x[1], x[2], ByteBits)
              ELSE IF i.op = "shl" THEN x[1] * 2^count ELSE x[1] \div 2^count, ByteT)
\* A C cast of the cell: it changes the value only where the C types differ.
C11Convert(i, x) ==
    IF i.to = FloatT THEN Some(IF i.ty.t = "int" /\ i.ty.bits = WideBits /\ ~i.ty.signed THEN CU64(x) ELSE x)
    ELSE IF i.ty = FloatT
    THEN IF i.to.t \notin {"int", "byte"} \/ ~Finite(x) \/ Outside(x, FloatGuardBounds(i.to)) THEN None
         ELSE CStore(x, i.to)
    ELSE CStore(x, i.to)
\* A blend of both candidates under the mask 0 - condition.
C11Select(x, sty) ==
    LET mask == CU64(-x[1])
        blend == Bitwise2("or", Bitwise2("and", CU64(x[2]), mask, WideBits),
                                Bitwise2("and", CU64(x[3]), CU64(-1 - mask), WideBits), WideBits)
    IN IF sty = FloatT THEN Some(IF mask = 0 THEN x[3] ELSE x[2]) ELSE CStore(blend, sty)
C11Scalar(i, T, v) ==
    LET sty == i.out[1][2]
        x == [k \in DOMAIN v |-> IF T[k] = FloatT THEN v[k] ELSE CValue(v[k], T[k])]
    IN CASE i.kind = "const" -> CStore(i.val, sty)
         [] i.kind = "finite" -> CStore(i.val, sty)
         [] i.kind = "int" -> C11Integer(i, sty, x[1], x[2])
         [] i.kind = "compare" -> C11Compare(i, x[1], x[2], sty)
         [] i.kind \in {"bool", "bool_compare", "bool_not"} -> C11Boolean(i, x)
         [] i.kind \in {"byte", "byte_shift"} -> C11Byte(i, x)
         [] i.kind = "convert" -> C11Convert(i, x[1])
         [] i.kind = "select" -> C11Select(x, sty)
         [] OTHER -> GuardedFloat(i, v)
NativeScalar(target, i, T, v) ==
    CASE target = "cranelift" -> CraneliftScalar(i, T, v)
      [] target = "llvm" -> LlvmScalar(i, T, v)
      [] target = "c11" -> C11Scalar(i, T, v)
=============================================================================

--------------------------- MODULE MachineIntegers ---------------------------
(***************************************************************************)
(* Integers and bytes of declared width                                    *)
(* (crates/mncs-model/src/machine_intent.rs: IntegerOperation, and the     *)
(* evaluators at the end of crates/mncs-model/src/execution.rs).           *)
(*                                                                         *)
(* The engines hold every integer in an i128 and admit types of 1 to 126   *)
(* bits.  The model keeps the proportions at small widths: HostBits stands *)
(* for 128, HostBits - 2 for 126, ByteBits for 8.                          *)
(***************************************************************************)
EXTENDS Integers, Sequences

CONSTANTS HostBits, ByteBits

ASSUME HostIsWide == HostBits \in Nat /\ ByteBits \in Nat /\ ByteBits >= 1 /\ HostBits >= ByteBits + 2

\* The value of an Option.
None == <<>>
Some(v) == <<v>>
Then(opt, F(_)) == IF opt = None THEN None ELSE F(opt[1])

IntT(b, s) == [t |-> "int", bits |-> b, signed |-> s]
Intents == {"checked", "wrapping", "saturating", "trapping"}
Operators == {"add", "sub", "mul", "div", "mod", "and", "or", "xor", "shl", "shr"}
Predicates == {"eq", "ne", "lt", "le", "gt", "ge"}
WidthOk(b) == b \in 1 .. HostBits - 2

Limits(b, s) == IF s THEN [min |-> -(2^(b - 1)), max |-> 2^(b - 1) - 1]
                ELSE [min |-> 0, max |-> 2^b - 1]
InRange(v, ty) == WidthOk(ty.bits) /\ Limits(ty.bits, ty.signed).min <= v
                                   /\ v <= Limits(ty.bits, ty.signed).max
Wrap(v, b, s) == LET low == v % 2^b IN IF s /\ low >= 2^(b - 1) THEN low - 2^b ELSE low

\* i128 arithmetic: checked operations yield nothing outside it, wrapping ones come back into it.
Host(v) == LET l == Limits(HostBits, TRUE) IN IF l.min <= v /\ v <= l.max THEN Some(v) ELSE None
HostWrap(v) == Wrap(v, HostBits, TRUE)
Abs(v) == IF v < 0 THEN -v ELSE v
\* Division of the host truncates towards zero; the remainder has the sign of the dividend.
Quotient(a, b) == (IF (a < 0) = (b < 0) THEN 1 ELSE -1) * (Abs(a) \div Abs(b))
Remainder(a, b) == a - b * Quotient(a, b)
Bit(v, i) == (v \div 2^i) % 2
Bitwise2(op, a, b, bits) ==
    LET digit(i) == CASE op = "and" -> Bit(a, i) * Bit(b, i)
                      [] op = "or" -> Bit(a, i) + Bit(b, i) - Bit(a, i) * Bit(b, i)
                      [] op = "xor" -> (Bit(a, i) + Bit(b, i)) % 2
        sum[i \in 0 .. bits] == IF i = 0 THEN 0 ELSE sum[i - 1] + digit(i - 1) * 2^(i - 1)
    IN sum[bits]
Holds(predicate, a, b) ==
    CASE predicate = "eq" -> a = b  [] predicate = "ne" -> a # b [] predicate = "lt" -> a < b
      [] predicate = "le" -> a <= b [] predicate = "gt" -> a > b [] OTHER -> a >= b
-----------------------------------------------------------------------------
(* IntegerOperation: the general evaluator. *)

\* The width a widening operation needs; the others keep their operand's type.
MinimumWidening(op, ty) ==
    CASE op = "add" -> Some(ty.bits + 1)
      [] op = "sub" /\ ty.signed -> Some(ty.bits + 1)
      [] op = "mul" -> Some(2 * ty.bits)
      [] OTHER -> None
ArithmeticResult(op, ty, intent, to) ==
    IF ~WidthOk(ty.bits) THEN None
    ELSE IF intent # "widening" THEN Some(ty)
    ELSE IF MinimumWidening(op, ty) = None \/ to > HostBits - 2 THEN None
    ELSE IF to < MinimumWidening(op, ty)[1] THEN None ELSE Some(IntT(to, ty.signed))

\* The shift masks the operand's digits, shifts them as an unsigned host integer, and takes the
\* largest host integer where the result is not one.
GeneralShift(op, ty, a, b) ==
    LET count == b % ty.bits
        digits == a % 2^ty.bits
        left == (digits * 2^count) % 2^HostBits
    IN IF b < 0 THEN None
       ELSE IF op = "shl"
         THEN Some(Wrap(IF Host(left) = None THEN 2^(HostBits - 1) - 1 ELSE left, ty.bits, ty.signed))
       ELSE Some((IF ty.signed THEN a ELSE digits) \div 2^count)
BitwiseValue(op, ty, a, b) ==
    Wrap(Bitwise2(op, a % 2^ty.bits, b % 2^ty.bits, ty.bits), ty.bits, ty.signed)
Raw(op, ty, intent, a, b) ==
    CASE op = "add" -> Host(a + b) [] op = "sub" -> Host(a - b) [] op = "mul" -> Host(a * b)
      [] op = "div" -> IF b = 0 THEN None ELSE Host(Quotient(a, b))
      [] op = "mod" -> IF b = 0 THEN None ELSE Host(Remainder(a, b))
      [] op \in {"shl", "shr"} -> GeneralShift(op, ty, a, b)
      [] OTHER -> IF intent = "wrapping" THEN Some(BitwiseValue(op, ty, a, b)) ELSE None
SaturationBound(op, a, b, l) ==
    CASE op = "add" -> IF b < 0 THEN l.min ELSE l.max
      [] op = "sub" -> IF b < 0 THEN l.max ELSE l.min
      [] op = "mul" -> IF (a < 0) = (b < 0) THEN l.max ELSE l.min
      [] OTHER -> l.max
Clamp(v, l) == IF v < l.min THEN l.min ELSE IF v > l.max THEN l.max ELSE v
OperationEvaluate(op, ty, intent, to, a, b) ==
    LET l == Limits(IF intent = "widening" THEN to ELSE ty.bits, ty.signed)
        raw == Raw(op, ty, intent, a, b)
        exact == IF raw # None /\ l.min <= raw[1] /\ raw[1] <= l.max THEN raw ELSE None
    IN CASE intent = "wrapping" ->
              CASE op = "add" -> Some(Wrap(HostWrap(a + b), ty.bits, ty.signed))
                [] op = "sub" -> Some(Wrap(HostWrap(a - b), ty.bits, ty.signed))
                [] op = "mul" -> Some(Wrap(HostWrap(a * b), ty.bits, ty.signed))
                [] OTHER -> IF raw = None THEN None ELSE Some(Wrap(raw[1], ty.bits, ty.signed))
         [] intent = "saturating" ->
              Some(IF raw = None THEN SaturationBound(op, a, b, l) ELSE Clamp(raw[1], l))
         [] OTHER -> exact
-----------------------------------------------------------------------------
(* The engines' evaluator: a fast path for wrapping, the general one for the rest. *)
OperatorSupported(op, intent) ==
    op \in {"add", "sub", "mul", "div", "mod"}
    \/ (op \in {"and", "or", "xor", "shl", "shr"} /\ intent = "wrapping")

\* Variant: the count is not reduced to the width.
FastShift_NoModulo(op, ty, a, b) ==
    IF b < 0 THEN None
    ELSE IF op = "shl" THEN Some(Wrap(((a % 2^ty.bits) * 2^b) % 2^ty.bits, ty.bits, ty.signed))
    ELSE Some(Wrap((IF ty.signed THEN a ELSE a % 2^ty.bits) \div 2^b, ty.bits, ty.signed))
FastShift(op, ty, a, b) ==
    LET count == b % ty.bits
    IN IF b < 0 THEN None
       ELSE IF op = "shl" THEN Some(Wrap(((a % 2^ty.bits) * 2^count) % 2^ty.bits, ty.bits, ty.signed))
       ELSE Some(Wrap((IF ty.signed THEN a ELSE a % 2^ty.bits) \div 2^count, ty.bits, ty.signed))
EvaluateWrapping(op, ty, a, b) ==
    LET wrap(v) == Some(Wrap(HostWrap(v), ty.bits, ty.signed))
    IN CASE op = "add" -> wrap(a + b) [] op = "sub" -> wrap(a - b) [] op = "mul" -> wrap(a * b)
         [] op = "div" -> IF b = 0 THEN None ELSE wrap(Quotient(a, b))
         [] op = "mod" -> IF b = 0 THEN None ELSE wrap(Remainder(a, b))
         [] op \in {"shl", "shr"} -> FastShift(op, ty, a, b)
         [] OTHER -> Some(BitwiseValue(op, ty, a, b))
EvaluateInteger(op, ty, intent, to, a, b) ==
    IF ~InRange(a, ty) \/ ~InRange(b, ty) \/ ~OperatorSupported(op, intent) THEN None
    ELSE IF intent = "wrapping" THEN EvaluateWrapping(op, ty, a, b)
    ELSE IF ArithmeticResult(op, ty, intent, to) = None THEN None
    ELSE OperationEvaluate(op, ty, intent, to, a, b)

CompareIntegers(predicate, ty, a, b) ==
    IF InRange(a, ty) /\ InRange(b, ty) THEN Some(Holds(predicate, a, b)) ELSE None

(* Bytes. *)
IsByte(v) == v \in 0 .. 2^ByteBits - 1
CompareBytes(predicate, a, b) == IF IsByte(a) /\ IsByte(b) THEN Some(Holds(predicate, a, b)) ELSE None
EvaluateByteBitwise(op, a, b) == IF IsByte(a) /\ IsByte(b) THEN Some(Bitwise2(op, a, b, ByteBits)) ELSE None
EvaluateByteShift(op, v, n) ==
    IF ~IsByte(v) \/ n < 0 THEN None
    ELSE LET count == n % ByteBits
         IN Some(IF op = "shl" THEN (v * 2^count) % 2^ByteBits ELSE v \div 2^count)
=============================================================================

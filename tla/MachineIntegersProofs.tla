------------------------ MODULE MachineIntegersProofs ------------------------
(***************************************************************************)
(* What integer arithmetic computes, for every width the model admits and  *)
(* every width of the host (the code's 128 bits are HostBits; HostIsWide   *)
(* is all that is assumed of it).                                          *)
(*                                                                         *)
(* A result is a value of its type (ResultsAreInRange).  Addition,         *)
(* subtraction and multiplication give the exact result where it fits,     *)
(* and what their intent says where it does not, although the host's own   *)
(* integers may overflow on the way (ArithmeticIsExact).  The wrapping     *)
(* fast path computes what the general evaluator does                      *)
(* (FastPathIsTheGeneralOne).  Bytes stay bytes (BytesStayBytes).          *)
(*                                                                         *)
(* The provers know nothing of 2^n.  What is needed of it (it grows, it    *)
(* doubles, 2^(m+n) = 2^m * 2^n) follows from counting: 2^n is the number  *)
(* of subsets of 1 .. n (PowerCounts).  A wrap is a remainder, and wraps   *)
(* are compared through the uniqueness of division.  Sums over digits are  *)
(* functions by recursion, whose bounds follow from the least number of    *)
(* digits at which a bound would fail.                                     *)
(***************************************************************************)
EXTENDS MachineIntegers, FiniteSetTheorems, WellFoundedInduction, NaturalsInduction, TLAPS

-----------------------------------------------------------------------------
(* Powers of two: 2^n counts the subsets of a set of n elements. *)

LEMMA PowerCounts ==
  ASSUME NEW n \in Nat
  PROVE  IsFiniteSet(SUBSET (1 .. n)) /\ Cardinality(SUBSET (1 .. n)) = 2^n /\ 2^n \in Nat \ {0}
<1>1. IsFiniteSet(1 .. n) /\ Cardinality(1 .. n) = n
  BY FS_Interval
<1>2. IsFiniteSet(SUBSET (1 .. n)) /\ Cardinality(SUBSET (1 .. n)) = 2^n
  BY <1>1, FS_SUBSET
<1>3. SUBSET (1 .. n) # {}
  OBVIOUS
<1>4. Cardinality(SUBSET (1 .. n)) \in Nat /\ Cardinality(SUBSET (1 .. n)) # 0
  BY <1>2, <1>3, FS_CardinalityType, FS_EmptySet
<1> QED BY <1>2, <1>4

LEMMA PowerGrows ==
  ASSUME NEW m \in Nat, NEW n \in Nat, m <= n
  PROVE  2^m <= 2^n
<1>1. SUBSET (1 .. m) \subseteq SUBSET (1 .. n)
  OBVIOUS
<1>2. Cardinality(SUBSET (1 .. m)) <= Cardinality(SUBSET (1 .. n))
  BY <1>1, PowerCounts, FS_Subset
<1> QED BY <1>2, PowerCounts

LEMMA PowerDoubles ==
  ASSUME NEW n \in Nat
  PROVE  2^(n + 1) = 2 * 2^n
<1> DEFINE S == SUBSET (1 .. n)  T == {X \cup {n + 1} : X \in S}  f == [X \in S |-> X \cup {n + 1}]
<1>1. IsFiniteSet(S) /\ Cardinality(S) = 2^n /\ 2^n \in Nat
  BY PowerCounts
<1>2. n + 1 \notin 1 .. n /\ 1 .. n + 1 = (1 .. n) \cup {n + 1}
  OBVIOUS
<1>3. f \in Bijection(S, T)
  <2>1. \A X, Y \in S : X \cup {n + 1} = Y \cup {n + 1} => X = Y
    BY <1>2
  <2>2. f \in [S -> T] /\ \A Y \in T : \E X \in S : f[X] = Y
    OBVIOUS
  <2>3. \A X, Y \in S : f[X] = f[Y] => X = Y
    BY <2>1
  <2> HIDE DEF f, S, T
  <2> QED BY <2>2, <2>3 DEF Bijection, Injection, Surjection, IsInjective
<1>4. IsFiniteSet(T) /\ Cardinality(T) = Cardinality(S)
  <2> HIDE DEF f, S, T
  <2> QED BY <1>1, <1>3, FS_Bijection DEF ExistsBijection
<1>5. SUBSET (1 .. n + 1) = S \cup T
  <2>1. ASSUME NEW X \in SUBSET (1 .. n + 1) PROVE X \in S \cup T
    <3>1. CASE n + 1 \in X
      <4>1. X \ {n + 1} \in S /\ X = (X \ {n + 1}) \cup {n + 1}
        BY <1>2, <3>1
      <4> QED BY <4>1
    <3>2. CASE n + 1 \notin X
      BY <1>2, <3>2
    <3> QED BY <3>1, <3>2
  <2>2. S \cup T \subseteq SUBSET (1 .. n + 1)
    BY <1>2
  <2> QED BY <2>1, <2>2
<1>6. S \cap T = {}
  BY <1>2
<1>7. Cardinality(S \cup T) = Cardinality(S) + Cardinality(T)
  <2> HIDE DEF S, T
  <2>1. Cardinality(S \cup T) = Cardinality(S) + Cardinality(T) - Cardinality(S \cap T)
    BY <1>1, <1>4, FS_Union
  <2>2. Cardinality(S \cap T) = 0
    BY <1>6, FS_EmptySet
  <2> QED BY <1>1, <1>4, <2>1, <2>2
<1>8. Cardinality(SUBSET (1 .. n + 1)) = 2^(n + 1)
  BY PowerCounts
<1> HIDE DEF S, T
<1>9. Cardinality(S \cup T) = 2^(n + 1)
  BY <1>5, <1>8
<1> QED BY <1>1, <1>4, <1>7, <1>9

LEMMA Least ==
  ASSUME NEW S \in SUBSET Nat, S # {}
  PROVE  \E m \in S : \A n \in S : m <= n
<1>1. \E m \in S : \A n \in S : ~(<<n, m>> \in OpToRel(<, Nat))
  BY NatLessThanWellFounded, WFMin
<1>2. PICK m \in S : \A n \in S : ~(n < m)
  BY <1>1 DEF OpToRel
<1>3. \A n \in S : m <= n
  BY <1>2
<1> QED BY <1>3

LEMMA PowerAdds ==
  ASSUME NEW m \in Nat, NEW n \in Nat
  PROVE  2^(m + n) = 2^m * 2^n
<1> DEFINE Bad == {k \in Nat : 2^(m + k) # 2^m * 2^k}
<1>0. \A k \in Nat : 2^k \in Nat
  BY PowerCounts
<1>1. Bad = {}
  <2> SUFFICES ASSUME Bad # {} PROVE FALSE
    OBVIOUS
  <2>1. PICK k \in Bad : \A j \in Bad : k <= j
    <3>1. Bad \in SUBSET Nat
      OBVIOUS
    <3> HIDE DEF Bad
    <3> QED BY <3>1, Least
  <2>2. k \in Nat /\ 2^(m + k) # 2^m * 2^k
    OBVIOUS
  <2>3. k # 0
    <3>1. 2^0 = 1
      OBVIOUS
    <3>2. m + 0 = m /\ 2^m * 1 = 2^m
      BY <1>0
    <3> QED BY <2>2, <3>1, <3>2
  <2>4. k - 1 \in Nat /\ k - 1 \notin Bad
    <3> HIDE DEF Bad
    <3> QED BY <2>1, <2>2, <2>3
  <2>5. 2^(m + (k - 1)) = 2^m * 2^(k - 1)
    BY <2>4
  <2> HIDE DEF Bad
  <2>6. 2^k = 2 * 2^(k - 1)
    <3>1. (k - 1) + 1 = k
      BY <2>2
    <3> QED BY <2>4, <3>1, PowerDoubles
  <2>7. 2^(m + k) = 2 * 2^(m + (k - 1))
    <3>1. (m + (k - 1)) + 1 = m + k /\ m + (k - 1) \in Nat
      BY <2>2, <2>4
    <3> QED BY <3>1, PowerDoubles
  <2>8. \A x, y \in Nat : 2 * (x * y) = x * (2 * y)
    OBVIOUS
  <2> QED BY <1>0, <2>2, <2>4, <2>5, <2>6, <2>7, <2>8
<1> QED BY <1>1

-----------------------------------------------------------------------------
(* Division *)

LEMMA Division ==
  ASSUME NEW v \in Int, NEW m \in Nat \ {0}
  PROVE  /\ v \div m \in Int /\ v % m \in 0 .. m - 1 /\ v % m \in Int
         /\ v = m * (v \div m) + (v % m)
  OBVIOUS

\* The remainder is the only number below m that differs from v by a multiple of m.
LEMMA Remains ==
  ASSUME NEW v \in Int, NEW m \in Nat \ {0}, NEW q \in Int, NEW r \in 0 .. m - 1,
         v = m * q + r
  PROVE  v % m = r
<1>1. m \in Int /\ m > 0 /\ r \in Int /\ 0 <= r /\ r < m /\ v = q * m + r
  OBVIOUS
<1> QED BY <1>1

LEMMA RemainderOfRemainder ==
  ASSUME NEW v \in Int, NEW m \in Nat \ {0}, NEW k \in Nat \ {0}
  PROVE  (v % (m * k)) % m = v % m
<1> DEFINE n == m * k  r == v % n  q == v \div n  s == r % m  p == r \div m
<1>1. n \in Nat \ {0}
  OBVIOUS
<1>2. q \in Int /\ r \in Int /\ v = n * q + r
  BY <1>1, Division
<1> HIDE DEF r, q
<1>3. s \in 0 .. m - 1 /\ p \in Int /\ r = m * p + s
  BY <1>2, Division
<1> HIDE DEF s, p
<1>4. v = m * (k * q + p) + s /\ k * q + p \in Int
  <2>1. n * q = m * (k * q)
    BY <1>2
  <2>2. k * q \in Int
    BY <1>2
  <2> HIDE DEF n
  <2>3. v = m * (k * q) + (m * p + s)
    BY <1>2, <1>3, <2>1
  <2> DEFINE z == k * q
  <2>4. z \in Int /\ v = m * z + (m * p + s)
    BY <2>2, <2>3
  <2> HIDE DEF z
  <2>5. m * (z + p) = m * z + m * p
    BY <1>3, <2>4
  <2>6. s \in Int /\ m * z \in Int /\ m * p \in Int
    BY <1>3, <2>4
  <2>7. v = m * (z + p) + s /\ z + p \in Int
    BY <1>3, <2>4, <2>5, <2>6
  <2> QED BY <2>7 DEF z
<1>5. v % m = s
  BY <1>3, <1>4, Remains
<1> QED BY <1>5 DEF s, r, n

-----------------------------------------------------------------------------
(* Wrapping *)

\* A number is within the limits of b bits.
Fits(v, b, s) == Limits(b, s).min <= v /\ v <= Limits(b, s).max

LEMMA Halves ==
  ASSUME NEW b \in Nat \ {0}
  PROVE  2^b = 2 * 2^(b - 1) /\ 2^b \in Nat \ {0} /\ 2^(b - 1) \in Nat \ {0}
<1>1. b - 1 \in Nat /\ (b - 1) + 1 = b
  OBVIOUS
<1>2. 2^((b - 1) + 1) = 2 * 2^(b - 1)
  BY <1>1, PowerDoubles
<1> QED BY <1>1, <1>2, PowerCounts

LEMMA WrapFits ==
  ASSUME NEW b \in Nat \ {0}, NEW s \in BOOLEAN, NEW v \in Int
  PROVE  Wrap(v, b, s) \in Int /\ Fits(Wrap(v, b, s), b, s)
<1> DEFINE m == 2^b  h == 2^(b - 1)  low == v % m
<1>1. m = 2 * h /\ m \in Nat \ {0} /\ h \in Nat \ {0}
  BY Halves
<1> HIDE DEF m, h
<1>2. low \in 0 .. m - 1
  BY <1>1, Division
<1> HIDE DEF low
<1>3. Wrap(v, b, s) = IF s /\ low >= h THEN low - m ELSE low
  BY DEF Wrap, low, m, h
<1>4. Limits(b, s).min = (IF s THEN -h ELSE 0) /\ Limits(b, s).max = (IF s THEN h - 1 ELSE m - 1)
  BY DEF Limits, m, h
<1>5. CASE s
  BY <1>1, <1>2, <1>3, <1>4, <1>5 DEF Fits
<1>6. CASE ~s
  BY <1>1, <1>2, <1>3, <1>4, <1>6 DEF Fits
<1> QED BY <1>5, <1>6

\* A number that fits is left alone.
LEMMA WrapOfFitting ==
  ASSUME NEW b \in Nat \ {0}, NEW s \in BOOLEAN, NEW v \in Int, Fits(v, b, s)
  PROVE  Wrap(v, b, s) = v
<1> DEFINE m == 2^b  h == 2^(b - 1)  low == v % m
<1>1. m = 2 * h /\ m \in Nat \ {0} /\ h \in Nat \ {0}
  BY Halves
<1> HIDE DEF m, h
<1>2. Limits(b, s).min = (IF s THEN -h ELSE 0) /\ Limits(b, s).max = (IF s THEN h - 1 ELSE m - 1)
  BY DEF Limits, m, h
<1>3. (IF s THEN -h ELSE 0) <= v /\ v <= (IF s THEN h - 1 ELSE m - 1)
  BY <1>2 DEF Fits
<1>4. 0 <= v => low = v
  <2> SUFFICES ASSUME 0 <= v PROVE low = v
    OBVIOUS
  <2>1. v \in 0 .. m - 1
    BY <1>1, <1>3
  <2>2. v = m * 0 + v
    BY <1>1
  <2> QED BY <1>1, <2>1, <2>2, Remains
<1>5. v < 0 => low = v + m /\ s
  <2> SUFFICES ASSUME v < 0 PROVE low = v + m /\ s
    OBVIOUS
  <2>1. s /\ v + m \in 0 .. m - 1
    BY <1>1, <1>3
  <2>2. v = m * (-1) + (v + m) /\ -1 \in Int
    BY <1>1
  <2> QED BY <1>1, <2>1, <2>2, Remains
<1> HIDE DEF low
<1>6. Wrap(v, b, s) = IF s /\ low >= h THEN low - m ELSE low
  BY DEF Wrap, low, m, h
<1>7. CASE v < 0
  BY <1>1, <1>3, <1>5, <1>6, <1>7
<1>8. CASE 0 <= v /\ s
  BY <1>1, <1>3, <1>4, <1>6, <1>8
<1>9. CASE 0 <= v /\ ~s
  BY <1>1, <1>3, <1>4, <1>6, <1>9
<1> QED BY <1>7, <1>8, <1>9

\* Wrapping looks at the digits only.
LEMMA WrapOfEqualDigits ==
  ASSUME NEW b \in Nat \ {0}, NEW s \in BOOLEAN, NEW v \in Int, NEW w \in Int, v % 2^b = w % 2^b
  PROVE  Wrap(v, b, s) = Wrap(w, b, s)
  BY DEF Wrap

\* The host's own wrapping does not show in fewer bits.
LEMMA HostWrapIsInvisible ==
  ASSUME NEW b \in 1 .. HostBits, NEW s \in BOOLEAN, NEW v \in Int
  PROVE  HostWrap(v) \in Int /\ Wrap(HostWrap(v), b, s) = Wrap(v, b, s)
<1> DEFINE m == 2^b  n == 2^HostBits  k == 2^(HostBits - b)  h == 2^(HostBits - 1)
           low == v % n  w == HostWrap(v)
<1>0. b \in Nat \ {0} /\ HostBits \in Nat \ {0} /\ HostBits - b \in Nat /\ b + (HostBits - b) = HostBits
  BY HostIsWide
<1>1. m \in Nat \ {0} /\ n \in Nat \ {0} /\ k \in Nat \ {0} /\ n = m * k
  <2>1. 2^(b + (HostBits - b)) = 2^b * 2^(HostBits - b)
    BY <1>0, PowerAdds
  <2> QED BY <1>0, <2>1, PowerCounts
<1>2. w = IF low >= h THEN low - n ELSE low
  BY DEF HostWrap, Wrap
<1> HIDE DEF m, n, k, h, w
<1>3. low \in 0 .. n - 1 /\ low \in Int
  BY <1>1, Division
<1>4. low % m = v % m
  BY <1>1, RemainderOfRemainder
<1> HIDE DEF low
<1>5. w \in Int /\ w % m = low % m
  <2>1. CASE w = low
    BY <1>3, <2>1
  <2>2. CASE w = low - n
    <3> DEFINE q == low \div m  r == low % m
    <3>1. q \in Int /\ r \in 0 .. m - 1 /\ low = m * q + r
      BY <1>1, <1>3, Division
    <3> HIDE DEF q, r
    <3>2. w = m * (q - k) + r /\ q - k \in Int
      <4>1. m * (q - k) = m * q - m * k
        BY <1>1, <3>1
      <4>2. m * q \in Int /\ m * k \in Int
        BY <1>1, <3>1
      <4> QED BY <1>1, <2>2, <3>1, <4>1, <4>2
    <3>3. w \in Int
      BY <1>1, <1>3, <2>2
    <3>4. w % m = r
      BY <1>1, <3>1, <3>2, <3>3, Remains
    <3> QED BY <3>3, <3>4 DEF r
  <2> QED BY <1>2, <2>1, <2>2
<1>6. w % 2^b = v % 2^b
  BY <1>4, <1>5 DEF m
<1> QED BY <1>0, <1>5, <1>6, WrapOfEqualDigits DEF w

\* What fits in an admitted width, and what is no larger, is an integer of the host.
LEMMA HostHolds ==
  ASSUME NEW v \in Int, -(2^(HostBits - 2)) <= v, v <= 2^(HostBits - 2)
  PROVE  Host(v) = Some(v) /\ HostWrap(v) = v
<1>1. HostBits - 1 \in Nat \ {0} /\ HostBits \in Nat \ {0} /\ (HostBits - 1) - 1 = HostBits - 2
  BY HostIsWide
<1>2. 2^(HostBits - 1) = 2 * 2^(HostBits - 2) /\ 2^(HostBits - 2) \in Nat \ {0}
  BY <1>1, Halves
<1>3. Limits(HostBits, TRUE).min = -(2^(HostBits - 1)) /\ Limits(HostBits, TRUE).max = 2^(HostBits - 1) - 1
  BY DEF Limits
<1>4. Fits(v, HostBits, TRUE)
  <2> DEFINE h == 2^(HostBits - 2)  g == 2^(HostBits - 1)
  <2>1. h \in Nat \ {0} /\ g = 2 * h /\ -h <= v /\ v <= h
    BY <1>2
  <2>2. Limits(HostBits, TRUE).min = -g /\ Limits(HostBits, TRUE).max = g - 1
    BY <1>3
  <2> HIDE DEF h, g
  <2>3. -g <= v /\ v <= g - 1
    BY <2>1
  <2> QED BY <2>2, <2>3 DEF Fits
<1>5. HostWrap(v) = v
  BY <1>1, <1>4, WrapOfFitting DEF HostWrap
<1> QED BY <1>4, <1>5 DEF Host, Fits

LEMMA FittingIsSmall ==
  ASSUME NEW b \in 1 .. HostBits - 2, NEW s \in BOOLEAN, NEW v \in Int, Fits(v, b, s)
  PROVE  -(2^(HostBits - 2)) <= v /\ v <= 2^(HostBits - 2)
<1>1. b \in Nat \ {0} /\ b - 1 \in Nat /\ HostBits - 2 \in Nat
  BY HostIsWide
<1>2. 2^b <= 2^(HostBits - 2) /\ 2^b = 2 * 2^(b - 1) /\ 2^(b - 1) \in Nat \ {0}
      /\ 2^(HostBits - 2) \in Nat /\ 2^b \in Nat
  BY <1>1, PowerGrows, Halves, PowerCounts
<1>3. /\ Limits(b, s).min = (IF s THEN -(2^(b - 1)) ELSE 0)
      /\ Limits(b, s).max = (IF s THEN 2^(b - 1) - 1 ELSE 2^b - 1)
  BY DEF Limits
<1>4. (IF s THEN -(2^(b - 1)) ELSE 0) <= v /\ v <= (IF s THEN 2^(b - 1) - 1 ELSE 2^b - 1)
  BY <1>3 DEF Fits
<1>5. CASE s
  BY <1>2, <1>4, <1>5
<1>6. CASE ~s
  BY <1>2, <1>4, <1>6
<1> QED BY <1>5, <1>6

-----------------------------------------------------------------------------
(* The operators on the host *)

LEMMA HostIsExact ==
  ASSUME NEW v \in Int
  PROVE  Host(v) \in {None, Some(v)}
  BY DEF Host

LEMMA OptionsDiffer == \A v : Some(v) # None /\ Some(v)[1] = v
  BY DEF Some, None

\* Neither the quotient nor the remainder is larger than the dividend.
LEMMA DivisionIsSmall ==
  ASSUME NEW a \in Int, NEW b \in Int, b # 0, NEW n \in Nat, -n <= a, a <= n
  PROVE  /\ Quotient(a, b) \in Int /\ -n <= Quotient(a, b) /\ Quotient(a, b) <= n
         /\ Remainder(a, b) \in Int /\ -n <= Remainder(a, b) /\ Remainder(a, b) <= n
<1> DEFINE A == Abs(a)  B == Abs(b)  q == A \div B  r == A % B
<1>1. A \in Nat /\ B \in Nat \ {0} /\ A <= n /\ a = (IF a < 0 THEN -A ELSE A)
      /\ b = (IF b < 0 THEN -B ELSE B)
  BY DEF Abs
<1> HIDE DEF A, B
<1>2. q \in Int /\ r \in 0 .. B - 1 /\ A = B * q + r
  BY <1>1, Division
<1>3. q \in Nat /\ q <= A
  BY <1>1
<1> HIDE DEF q, r
<1> DEFINE p == B * q
<1>4. p \in Nat /\ p <= A
  <2>1. p \in Nat
    BY <1>1, <1>3
  <2> HIDE DEF p
  <2>2. A = p + r
    BY <1>2 DEF p
  <2> QED BY <1>1, <1>2, <2>1, <2>2
<1>5. B * (-q) = -p /\ (-B) * q = -p /\ (-B) * (-q) = p
  BY <1>1, <1>3
<1> HIDE DEF p
<1>6. Quotient(a, b) = (IF (a < 0) = (b < 0) THEN 1 ELSE -1) * q
  BY DEF Quotient, A, B, q
<1>7. Quotient(a, b) = IF (a < 0) = (b < 0) THEN q ELSE -q
  BY <1>3, <1>6
<1>8. b * Quotient(a, b) = IF a < 0 THEN -p ELSE p
  <2>1. CASE a < 0 /\ b < 0
    BY <1>1, <1>5, <1>7, <2>1 DEF p
  <2>2. CASE a < 0 /\ ~(b < 0)
    BY <1>1, <1>5, <1>7, <2>2 DEF p
  <2>3. CASE ~(a < 0) /\ b < 0
    BY <1>1, <1>5, <1>7, <2>3 DEF p
  <2>4. CASE ~(a < 0) /\ ~(b < 0)
    BY <1>1, <1>5, <1>7, <2>4 DEF p
  <2> QED BY <2>1, <2>2, <2>3, <2>4
<1>9. Remainder(a, b) = a - b * Quotient(a, b)
  BY DEF Remainder
<1>10. Quotient(a, b) \in Int /\ -n <= Quotient(a, b) /\ Quotient(a, b) <= n
  BY <1>1, <1>3, <1>7
<1>11. Remainder(a, b) \in Int /\ -n <= Remainder(a, b) /\ Remainder(a, b) <= n
  <2>1. CASE a < 0
    BY <1>1, <1>4, <1>8, <1>9, <2>1
  <2>2. CASE ~(a < 0)
    BY <1>1, <1>4, <1>8, <1>9, <2>2
  <2> QED BY <2>1, <2>2
<1> QED BY <1>10, <1>11

Digitwise == {"and", "or", "xor"}

\* The sum of digits d over the powers of two below n.
SumOfDigits(u, d, n) ==
    u = [i \in 0 .. n |-> IF i = 0 THEN 0 ELSE u[i - 1] + d[i - 1] * 2^(i - 1)]

LEMMA SumOfDigitsFits ==
  ASSUME NEW n \in Nat, NEW d, \A i \in 0 .. n - 1 : d[i] \in {0, 1},
         NEW u, SumOfDigits(u, d, n)
  PROVE  u[n] \in 0 .. 2^n - 1
<1> DEFINE Bad == {i \in 0 .. n : u[i] \notin 0 .. 2^i - 1}
<1>1. Bad = {}
  <2> SUFFICES ASSUME Bad # {} PROVE FALSE
    OBVIOUS
  <2>1. PICK m \in Bad : \A i \in Bad : m <= i
    <3>1. Bad \in SUBSET Nat
      OBVIOUS
    <3> HIDE DEF Bad
    <3> QED BY <3>1, Least
  <2>2. m \in 0 .. n /\ u[m] \notin 0 .. 2^m - 1
    OBVIOUS
  <2>3. u[m] = IF m = 0 THEN 0 ELSE u[m - 1] + d[m - 1] * 2^(m - 1)
    BY <2>2 DEF SumOfDigits
  <2>4. m # 0
    <3> SUFFICES ASSUME m = 0 PROVE FALSE
      OBVIOUS
    <3>1. 2^0 = 1 /\ 0 \in 0 .. 1 - 1
      OBVIOUS
    <3>2. u[m] = 0 /\ 2^m = 1
      BY <2>3, <3>1
    <3> QED BY <2>2, <3>1, <3>2
  <2>5. m - 1 \in Nat /\ m - 1 \in 0 .. n /\ m - 1 \in 0 .. n - 1 /\ m \in Nat \ {0}
    BY <2>2, <2>4
  <2>6. u[m - 1] \in 0 .. 2^(m - 1) - 1
    <3>1. m - 1 \notin Bad
      <4> HIDE DEF Bad
      <4> QED BY <2>1, <2>2, <2>5
    <3> QED BY <2>5, <3>1
  <2> HIDE DEF Bad
  <2>7. 2^m = 2 * 2^(m - 1) /\ 2^(m - 1) \in Nat \ {0} /\ d[m - 1] \in {0, 1}
    BY <2>5, Halves
  <2>8. d[m - 1] * 2^(m - 1) \in {0, 2^(m - 1)}
    BY <2>7
  <2> QED BY <2>2, <2>3, <2>4, <2>6, <2>7, <2>8
<1>2. n \in 0 .. n
  OBVIOUS
<1> QED BY <1>1, <1>2

LEMMA SumOfDigitsExists ==
  ASSUME NEW n \in Nat, NEW d
  PROVE  \E u : SumOfDigits(u, d, n)
<1> DEFINE Bad == {k \in Nat : ~\E u : SumOfDigits(u, d, k)}
<1>1. Bad = {}
  <2> SUFFICES ASSUME Bad # {} PROVE FALSE
    OBVIOUS
  <2>1. PICK m \in Bad : \A i \in Bad : m <= i
    <3>1. Bad \in SUBSET Nat
      OBVIOUS
    <3> HIDE DEF Bad
    <3> QED BY <3>1, Least
  <2>2. m \in Nat /\ ~\E u : SumOfDigits(u, d, m)
    OBVIOUS
  <2>3. m # 0
    <3> SUFFICES ASSUME m = 0 PROVE FALSE
      OBVIOUS
    <3> DEFINE u == [i \in 0 .. 0 |-> 0]
    <3>1. u = [i \in 0 .. 0 |-> IF i = 0 THEN 0 ELSE u[i - 1] + d[i - 1] * 2^(i - 1)]
      OBVIOUS
    <3> HIDE DEF u
    <3>2. SumOfDigits(u, d, 0)
      BY <3>1 DEF SumOfDigits
    <3> QED BY <2>2, <3>2
  <2>4. m - 1 \in Nat /\ m - 1 \notin Bad
    <3> HIDE DEF Bad
    <3> QED BY <2>1, <2>2, <2>3
  <2>5. PICK u : SumOfDigits(u, d, m - 1)
    BY <2>4
  <2> HIDE DEF Bad
  <2>6. /\ DOMAIN u = 0 .. m - 1
        /\ \A i \in 0 .. m - 1 : u[i] = IF i = 0 THEN 0 ELSE u[i - 1] + d[i - 1] * 2^(i - 1)
    BY <2>5 DEF SumOfDigits
  <2> DEFINE w == [i \in 0 .. m |-> IF i = m THEN u[m - 1] + d[m - 1] * 2^(m - 1) ELSE u[i]]
  <2>7. \A i \in 0 .. m : w[i] = IF i = 0 THEN 0 ELSE w[i - 1] + d[i - 1] * 2^(i - 1)
    <3> TAKE i \in 0 .. m
    <3>1. CASE i = m
      <4>1. m - 1 \in 0 .. m /\ m - 1 # m
        BY <2>2, <2>4
      <4> QED BY <2>3, <3>1, <4>1
    <3>2. CASE i # m
      <4>1. i \in 0 .. m - 1
        BY <2>2, <3>2
      <4>2. i # 0 => i - 1 \in 0 .. m /\ i - 1 # m
        BY <2>2, <4>1
      <4> QED BY <2>6, <3>2, <4>1, <4>2
    <3> QED BY <3>1, <3>2
  <2>8. w = [i \in 0 .. m |-> w[i]]
    OBVIOUS
  <2> HIDE DEF w
  <2>9. SumOfDigits(w, d, m)
    BY <2>7, <2>8 DEF SumOfDigits
  <2> QED BY <2>2, <2>9
<1> QED BY <1>1

\* The bitwise operators yield a number of as many digits.
LEMMA BitwiseFits ==
  ASSUME NEW op \in Digitwise, NEW a \in Int, NEW b \in Int, NEW bits \in Nat
  PROVE  Bitwise2(op, a, b, bits) \in 0 .. 2^bits - 1
<1> DEFINE digit(i) == CASE op = "and" -> Bit(a, i) * Bit(b, i)
                         [] op = "or" -> Bit(a, i) + Bit(b, i) - Bit(a, i) * Bit(b, i)
                         [] op = "xor" -> (Bit(a, i) + Bit(b, i)) % 2
           Rec(u) == u = [i \in 0 .. bits |-> IF i = 0 THEN 0 ELSE u[i - 1] + digit(i - 1) * 2^(i - 1)]
           d == [i \in 0 .. bits - 1 |-> digit(i)]
           sum == CHOOSE u : Rec(u)
<1>1. Bitwise2(op, a, b, bits) = sum[bits]
  BY DEF Bitwise2
<1>2. \A v \in Int, i \in Nat : Bit(v, i) \in {0, 1}
  <2> TAKE v \in Int, i \in Nat
  <2>1. 2^i \in Nat \ {0}
    BY PowerCounts
  <2>2. v \div 2^i \in Int
    BY <2>1, Division
  <2>3. (v \div 2^i) % 2 \in 0 .. 2 - 1
    BY <2>2, Division
  <2> QED BY <2>3 DEF Bit
<1>3. \A i \in 0 .. bits - 1 : d[i] = digit(i) /\ digit(i) \in {0, 1}
  <2> TAKE i \in 0 .. bits - 1
  <2> DEFINE x == Bit(a, i)  y == Bit(b, i)
  <2>1. x \in {0, 1} /\ y \in {0, 1}
    BY <1>2
  <2> HIDE DEF x, y
  <2>2. digit(i) = CASE op = "and" -> x * y [] op = "or" -> x + y - x * y [] op = "xor" -> (x + y) % 2
    BY DEF x, y
  <2>3. CASE op = "and"
    BY <2>1, <2>2, <2>3
  <2>4. CASE op = "or"
    BY <2>1, <2>2, <2>4
  <2>5. CASE op = "xor"
    BY <2>1, <2>2, <2>5
  <2> QED BY <2>3, <2>4, <2>5 DEF Digitwise
<1> HIDE DEF d, digit
<1>4. \A u : Rec(u) <=> SumOfDigits(u, d, bits)
  <2> TAKE u
  <2>1. \A i \in 0 .. bits : i # 0 => i - 1 \in 0 .. bits - 1
    OBVIOUS
  <2>2. \A i \in 0 .. bits : (IF i = 0 THEN 0 ELSE u[i - 1] + digit(i - 1) * 2^(i - 1))
                            = (IF i = 0 THEN 0 ELSE u[i - 1] + d[i - 1] * 2^(i - 1))
    BY <1>3, <2>1
  <2> DEFINE f == [i \in 0 .. bits |-> IF i = 0 THEN 0 ELSE u[i - 1] + digit(i - 1) * 2^(i - 1)]
             g == [i \in 0 .. bits |-> IF i = 0 THEN 0 ELSE u[i - 1] + d[i - 1] * 2^(i - 1)]
  <2>3. f = g
    BY <2>2
  <2> HIDE DEF f, g
  <2>4. u = f <=> u = g
    BY <2>3
  <2> QED BY <2>4 DEF f, g, SumOfDigits
<1>5. \E u : Rec(u)
  BY <1>4, SumOfDigitsExists
<1>6. Rec(sum)
  <2> HIDE DEF Rec
  <2> QED BY <1>5
<1> HIDE DEF sum, Rec
<1>7. SumOfDigits(sum, d, bits)
  BY <1>4, <1>6
<1> QED BY <1>1, <1>3, <1>7, SumOfDigitsFits

-----------------------------------------------------------------------------
(* The evaluators *)

LEMMA TypeShape ==
  ASSUME NEW b, NEW s
  PROVE  IntT(b, s).bits = b /\ IntT(b, s).signed = s
  BY DEF IntT

LEMMA RangeFits ==
  ASSUME NEW b, NEW s, NEW v
  PROVE  InRange(v, IntT(b, s)) <=> b \in 1 .. HostBits - 2 /\ Fits(v, b, s)
  BY TypeShape DEF InRange, Fits, WidthOk

\* A shift by less than the width.
LEMMA ShiftCount ==
  ASSUME NEW b \in 1 .. HostBits - 2, NEW v \in Nat
  PROVE  /\ v % b \in 0 .. b - 1 /\ v % b \in Nat /\ 2^(v % b) \in Nat \ {0}
         /\ 2^b \in Nat \ {0}
<1>1. b \in Nat \ {0} /\ v \in Int
  BY HostIsWide
<1>2. v % b \in 0 .. b - 1
  BY <1>1, Division
<1>3. v % b \in Nat
  BY <1>1, <1>2
<1> QED BY <1>1, <1>2, <1>3, PowerCounts

LEMMA BitwiseValueFits ==
  ASSUME NEW op \in Digitwise, NEW b \in 1 .. HostBits - 2, NEW s \in BOOLEAN,
         NEW x \in Int, NEW y \in Int
  PROVE  BitwiseValue(op, IntT(b, s), x, y) \in Int /\ Fits(BitwiseValue(op, IntT(b, s), x, y), b, s)
<1>0. b \in Nat \ {0}
  BY HostIsWide
<1>1. b \in Nat \ {0} /\ 2^b \in Nat \ {0}
  BY <1>0, PowerCounts
<1> DEFINE v == Bitwise2(op, x % 2^b, y % 2^b, b)
<1>2. x % 2^b \in Int /\ y % 2^b \in Int
  BY <1>1, Division
<1>3. v \in Int
  <2>1. v \in 0 .. 2^b - 1
    BY <1>1, <1>2, BitwiseFits
  <2> HIDE DEF v
  <2> QED BY <1>1, <2>1
<1>4. BitwiseValue(op, IntT(b, s), x, y) = Wrap(v, b, s)
  BY TypeShape DEF BitwiseValue
<1> HIDE DEF v
<1> QED BY <1>1, <1>3, <1>4, WrapFits

\* A wrapping operation wraps some integer, or has no value.
LEMMA WrappingWraps ==
  ASSUME NEW op \in Operators, NEW b \in 1 .. HostBits - 2, NEW s \in BOOLEAN,
         NEW x \in Int, NEW y \in Int
  PROVE  \/ EvaluateWrapping(op, IntT(b, s), x, y) = None
         \/ \E v \in Int : EvaluateWrapping(op, IntT(b, s), x, y) = Some(Wrap(v, b, s))
<1> DEFINE E == EvaluateWrapping(op, IntT(b, s), x, y)
           W(v) == Some(Wrap(HostWrap(v), b, s))
<1>0. b \in Nat \ {0} /\ b \in 1 .. HostBits /\ HostBits \in Nat
  BY HostIsWide
<1>1. \A v \in Int : HostWrap(v) \in Int
  BY <1>0, HostWrapIsInvisible
<1>2. y # 0 => Quotient(x, y) \in Int /\ Remainder(x, y) \in Int
  <2>1. Abs(x) \in Nat /\ -Abs(x) <= x /\ x <= Abs(x)
    BY DEF Abs
  <2> QED BY <2>1, DivisionIsSmall
<1>3. CASE op = "add"
  <2>1. E = W(x + y) /\ x + y \in Int
    BY <1>3, TypeShape DEF EvaluateWrapping
  <2> QED BY <1>1, <2>1
<1>4. CASE op = "sub"
  <2>1. E = W(x - y) /\ x - y \in Int
    BY <1>4, TypeShape DEF EvaluateWrapping
  <2> QED BY <1>1, <2>1
<1>5. CASE op = "mul"
  <2>1. E = W(x * y) /\ x * y \in Int
    BY <1>5, TypeShape DEF EvaluateWrapping
  <2> QED BY <1>1, <2>1
<1>6. CASE op = "div"
  <2>1. E = IF y = 0 THEN None ELSE W(Quotient(x, y))
    BY <1>6, TypeShape DEF EvaluateWrapping
  <2> QED BY <1>1, <1>2, <2>1
<1>7. CASE op = "mod"
  <2>1. E = IF y = 0 THEN None ELSE W(Remainder(x, y))
    BY <1>7, TypeShape DEF EvaluateWrapping
  <2> QED BY <1>1, <1>2, <2>1
<1>8. CASE op \in {"shl", "shr"}
  <2> DEFINE m == 2^b  c == 2^(y % b)  z == IF s THEN x ELSE x % m
  <2>1. E = FastShift(op, IntT(b, s), x, y)
    BY <1>8 DEF EvaluateWrapping
  <2>2. E = IF y < 0 THEN None
            ELSE IF op = "shl" THEN Some(Wrap(((x % m) * c) % m, b, s))
            ELSE Some(Wrap(z \div c, b, s))
    <3> DEFINE ty == IntT(b, s)
    <3>1. ty.bits = b /\ ty.signed = s
      BY TypeShape
    <3> HIDE DEF ty
    <3>2. FastShift(op, ty, x, y) =
             IF y < 0 THEN None
             ELSE IF op = "shl"
               THEN Some(Wrap(((x % 2^ty.bits) * 2^(y % ty.bits)) % 2^ty.bits, ty.bits, ty.signed))
             ELSE Some(Wrap((IF ty.signed THEN x ELSE x % 2^ty.bits) \div 2^(y % ty.bits), ty.bits, ty.signed))
      BY DEF FastShift
    <3>3. FastShift(op, ty, x, y) = IF y < 0 THEN None
            ELSE IF op = "shl" THEN Some(Wrap(((x % m) * c) % m, b, s))
            ELSE Some(Wrap(z \div c, b, s))
      BY <3>1, <3>2, Zenon
    <3> QED BY <2>1, <3>3 DEF ty
  <2>3. CASE y < 0
    BY <2>2, <2>3
  <2>4. CASE ~(y < 0)
    <3>1. m \in Nat \ {0} /\ c \in Nat \ {0}
      BY <2>4, ShiftCount
    <3> HIDE DEF m, c, E
    <3>2. x % m \in Int /\ z \in Int
      BY <3>1, Division
    <3>3. (x % m) * c \in Int
      BY <3>1, <3>2
    <3> HIDE DEF z
    <3>4. ((x % m) * c) % m \in Int /\ z \div c \in Int
      BY <3>1, <3>2, <3>3, Division
    <3>5. \E v \in Int : E = Some(Wrap(v, b, s))
      <4>1. CASE op = "shl"
        BY <2>2, <2>4, <3>4, <4>1
      <4>2. CASE op # "shl"
        BY <2>2, <2>4, <3>4, <4>2
      <4> QED BY <4>1, <4>2
    <3> QED BY <3>5 DEF E
  <2> QED BY <2>3, <2>4
<1>9. CASE op \in Digitwise
  <2> DEFINE v == BitwiseValue(op, IntT(b, s), x, y)
  <2>1. E = Some(v)
    BY <1>9 DEF EvaluateWrapping, Digitwise
  <2>2. v \in Int /\ Fits(v, b, s)
    BY <1>9, BitwiseValueFits
  <2> HIDE DEF v, E
  <2>3. Wrap(v, b, s) = v
    BY <1>0, <2>2, WrapOfFitting
  <2>4. E = Some(Wrap(v, b, s))
    BY <2>1, <2>3
  <2> QED BY <2>2, <2>4 DEF E
<1> QED BY <1>3, <1>4, <1>5, <1>6, <1>7, <1>8, <1>9 DEF Operators, Digitwise

\* Both limits of a width are integers, one above the other.
LEMMA LimitsAreOrdered ==
  ASSUME NEW b \in Nat \ {0}, NEW s \in BOOLEAN
  PROVE  /\ Limits(b, s).min \in Int /\ Limits(b, s).max \in Int
         /\ Limits(b, s).min <= 0 /\ 0 <= Limits(b, s).max
<1> DEFINE m == 2^b  h == 2^(b - 1)
<1>1. m \in Nat \ {0} /\ h \in Nat \ {0}
  BY Halves
<1>2. Limits(b, s).min = (IF s THEN -h ELSE 0) /\ Limits(b, s).max = (IF s THEN h - 1 ELSE m - 1)
  BY DEF Limits
<1> HIDE DEF m, h
<1>3. CASE s
  BY <1>1, <1>2, <1>3
<1>4. CASE ~s
  BY <1>1, <1>2, <1>4
<1> QED BY <1>3, <1>4

LEMMA RawIsInteger ==
  ASSUME NEW op \in {"add", "sub", "mul", "div", "mod"}, NEW ty, NEW intent,
         NEW x \in Int, NEW y \in Int
  PROVE  Raw(op, ty, intent, x, y) # None => Raw(op, ty, intent, x, y)[1] \in Int
<1> DEFINE R == Raw(op, ty, intent, x, y)
<1>1. \A v \in Int : Host(v) # None => Host(v)[1] \in Int
  BY HostIsExact, OptionsDiffer
<1>2. y # 0 => Quotient(x, y) \in Int /\ Remainder(x, y) \in Int
  <2>1. Abs(x) \in Nat /\ -Abs(x) <= x /\ x <= Abs(x)
    BY DEF Abs
  <2> QED BY <2>1, DivisionIsSmall
<1>3. CASE op = "add"
  <2>1. R = Host(x + y) /\ x + y \in Int
    BY <1>3 DEF Raw
  <2> QED BY <1>1, <2>1
<1>4. CASE op = "sub"
  <2>1. R = Host(x - y) /\ x - y \in Int
    BY <1>4 DEF Raw
  <2> QED BY <1>1, <2>1
<1>5. CASE op = "mul"
  <2>1. R = Host(x * y) /\ x * y \in Int
    BY <1>5 DEF Raw
  <2> QED BY <1>1, <2>1
<1>6. CASE op = "div"
  <2>1. R = IF y = 0 THEN None ELSE Host(Quotient(x, y))
    BY <1>6 DEF Raw
  <2> QED BY <1>1, <1>2, <2>1
<1>7. CASE op = "mod"
  <2>1. R = IF y = 0 THEN None ELSE Host(Remainder(x, y))
    BY <1>7 DEF Raw
  <2> QED BY <1>1, <1>2, <2>1
<1> QED BY <1>3, <1>4, <1>5, <1>6, <1>7

\* Outside wrapping, what the operation computes is what the evaluator returns.
LEMMA EvaluatesOperation ==
  ASSUME NEW op, NEW b, NEW s, NEW intent, intent # "wrapping", NEW to, NEW x, NEW y
  PROVE  LET ty == IntT(b, s)
             l == Limits(IF intent = "widening" THEN to ELSE b, s)
             raw == Raw(op, ty, intent, x, y)
             E == EvaluateInteger(op, ty, intent, to, x, y)
         IN  /\ E # None => /\ InRange(x, ty) /\ InRange(y, ty) /\ OperatorSupported(op, intent)
                            /\ ArithmeticResult(op, ty, intent, to) # None
             /\ InRange(x, ty) /\ InRange(y, ty) /\ OperatorSupported(op, intent)
                  /\ ArithmeticResult(op, ty, intent, to) # None =>
                E = IF intent = "saturating"
                    THEN Some(IF raw = None THEN SaturationBound(op, x, y, l) ELSE Clamp(raw[1], l))
                    ELSE IF raw # None /\ l.min <= raw[1] /\ raw[1] <= l.max THEN raw ELSE None
<1> DEFINE ty == IntT(b, s)
<1>1. ty.bits = b /\ ty.signed = s
  BY TypeShape
<1> HIDE DEF ty
<1> DEFINE l == Limits(IF intent = "widening" THEN to ELSE ty.bits, ty.signed)
           raw == Raw(op, ty, intent, x, y)
           E == EvaluateInteger(op, ty, intent, to, x, y)
           O == OperationEvaluate(op, ty, intent, to, x, y)
           Goes == /\ InRange(x, ty) /\ InRange(y, ty) /\ OperatorSupported(op, intent)
                   /\ ArithmeticResult(op, ty, intent, to) # None
<1>2. E = IF Goes THEN O ELSE None
  BY DEF EvaluateInteger
<1>3. O = IF intent = "saturating"
          THEN Some(IF raw = None THEN SaturationBound(op, x, y, l) ELSE Clamp(raw[1], l))
          ELSE IF raw # None /\ l.min <= raw[1] /\ raw[1] <= l.max THEN raw ELSE None
  BY DEF OperationEvaluate
<1>4. l = Limits(IF intent = "widening" THEN to ELSE b, s)
  BY <1>1
<1> HIDE DEF Goes, E, O, l, raw
<1>5. /\ E # None => Goes
      /\ Goes => E = IF intent = "saturating"
                     THEN Some(IF raw = None THEN SaturationBound(op, x, y, l) ELSE Clamp(raw[1], l))
                     ELSE IF raw # None /\ l.min <= raw[1] /\ raw[1] <= l.max THEN raw ELSE None
  BY <1>2, <1>3
<1> QED BY <1>4, <1>5, Zenon DEF Goes, E, raw, ty

\* A widening that is admitted is wide enough, and narrower than the host by two bits.
LEMMA AdmittedWidening ==
  ASSUME NEW op, NEW b \in 1 .. HostBits - 2, NEW s \in BOOLEAN, NEW to \in Nat,
         ArithmeticResult(op, IntT(b, s), "widening", to) # None
  PROVE  /\ to \in 1 .. HostBits - 2
         /\ \/ op = "add" /\ to >= b + 1
            \/ op = "sub" /\ s /\ to >= b + 1
            \/ op = "mul" /\ to >= 2 * b
<1> DEFINE ty == IntT(b, s)  w == MinimumWidening(op, ty)
<1>0. ty.bits = b /\ ty.signed = s /\ HostBits \in Nat
  BY TypeShape, HostIsWide
<1> HIDE DEF ty
<1>1. w # None /\ ~(to > HostBits - 2) /\ ~(to < w[1])
  BY DEF ArithmeticResult, ty
<1>2. \/ op = "add" /\ w = Some(b + 1)
      \/ op = "sub" /\ s /\ w = Some(b + 1)
      \/ op = "mul" /\ w = Some(2 * b)
  <2>1. w = CASE op = "add" -> Some(b + 1)
              [] op = "sub" /\ s -> Some(b + 1)
              [] op = "mul" -> Some(2 * b)
              [] OTHER -> None
    BY <1>0 DEF MinimumWidening
  <2> HIDE DEF w
  <2>2. CASE op = "add"
    BY <1>1, <2>1, <2>2
  <2>3. CASE op = "sub"
    BY <1>1, <2>1, <2>3
  <2>4. CASE op = "mul"
    BY <1>1, <2>1, <2>4
  <2>5. CASE op \notin {"add", "sub", "mul"}
    BY <1>1, <2>1, <2>5
  <2> QED BY <2>2, <2>3, <2>4, <2>5
<1> HIDE DEF w
<1> QED BY <1>0, <1>1, <1>2, OptionsDiffer

-----------------------------------------------------------------------------
(* What the engines compute *)

\* Whatever the width, the intent and the operands, a result has the type it is
\* declared with (evaluate_integer in execution.rs).
THEOREM ResultsAreInRange ==
  ASSUME NEW op \in Operators, NEW b \in 1 .. HostBits - 2, NEW s \in BOOLEAN,
         NEW intent \in Intents \cup {"widening"}, NEW to \in Nat, NEW x \in Int, NEW y \in Int,
         EvaluateInteger(op, IntT(b, s), intent, to, x, y) # None
  PROVE  InRange(EvaluateInteger(op, IntT(b, s), intent, to, x, y)[1],
                 IntT(IF intent = "widening" THEN to ELSE b, s))
<1> DEFINE E == EvaluateInteger(op, IntT(b, s), intent, to, x, y)
           n == IF intent = "widening" THEN to ELSE b
           l == Limits(n, s)
           raw == Raw(op, IntT(b, s), intent, x, y)
<1>0. b \in Nat \ {0}
  BY HostIsWide
<1>1. CASE intent = "wrapping"
  <2>1. E = EvaluateWrapping(op, IntT(b, s), x, y)
    BY <1>1 DEF EvaluateInteger
  <2>2. PICK v \in Int : E = Some(Wrap(v, b, s))
    BY <2>1, WrappingWraps
  <2>3. Fits(E[1], b, s)
    BY <1>0, <2>2, OptionsDiffer, WrapFits
  <2> QED BY <1>1, <2>3, RangeFits
<1>2. CASE intent # "wrapping"
  <2>1. InRange(x, IntT(b, s)) /\ InRange(y, IntT(b, s)) /\ OperatorSupported(op, intent)
        /\ ArithmeticResult(op, IntT(b, s), intent, to) # None
    BY <1>2, EvaluatesOperation
  <2>2. E = IF intent = "saturating"
            THEN Some(IF raw = None THEN SaturationBound(op, x, y, l) ELSE Clamp(raw[1], l))
            ELSE IF raw # None /\ l.min <= raw[1] /\ raw[1] <= l.max THEN raw ELSE None
    BY <1>2, <2>1, EvaluatesOperation
  <2>3. n \in 1 .. HostBits - 2 /\ n \in Nat \ {0}
    <3>1. intent = "widening" => to \in 1 .. HostBits - 2
      BY <2>1, AdmittedWidening
    <3> QED BY <1>0, <3>1
  <2> HIDE DEF n
  <2>4. l.min \in Int /\ l.max \in Int /\ l.min <= l.max
    <3>1. Limits(n, s).min \in Int /\ Limits(n, s).max \in Int
          /\ Limits(n, s).min <= 0 /\ 0 <= Limits(n, s).max
      BY <2>3, LimitsAreOrdered
    <3> QED BY <3>1
  <2>5. op \in {"add", "sub", "mul", "div", "mod"}
    BY <1>2, <2>1 DEF OperatorSupported
  <2>6. raw # None => raw[1] \in Int
    BY <2>5, RawIsInteger
  <2> HIDE DEF l, raw
  <2>7. SaturationBound(op, x, y, l) \in {l.min, l.max}
    BY DEF SaturationBound
  <2>8. l.min <= E[1] /\ E[1] <= l.max
    <3>1. CASE intent = "saturating" /\ raw = None
      <4>1. E = Some(SaturationBound(op, x, y, l))
        BY <2>2, <3>1
      <4>2. E[1] = SaturationBound(op, x, y, l)
        BY <4>1, OptionsDiffer
      <4> HIDE DEF E
      <4> QED BY <2>4, <2>7, <4>2
    <3>2. CASE intent = "saturating" /\ raw # None
      <4>1. E = Some(Clamp(raw[1], l))
        BY <2>2, <3>2
      <4>2. E[1] = Clamp(raw[1], l)
        BY <4>1, OptionsDiffer
      <4> HIDE DEF E
      <4>3. Clamp(raw[1], l) = IF raw[1] < l.min THEN l.min ELSE IF raw[1] > l.max THEN l.max ELSE raw[1]
        BY DEF Clamp
      <4> QED BY <2>4, <2>6, <3>2, <4>2, <4>3
    <3>3. CASE intent # "saturating"
      <4>1. E # None
        OBVIOUS
      <4> HIDE DEF E
      <4> QED BY <2>2, <3>3, <4>1
    <3> QED BY <3>1, <3>2, <3>3
  <2>9. Fits(E[1], n, s)
    BY <2>8 DEF Fits, l
  <2>10. InRange(E[1], IntT(n, s))
    BY <2>3, <2>9, RangeFits
  <2> QED BY <2>10 DEF n
<1> QED BY <1>1, <1>2

\* The fast path for wrapping computes what the general evaluator does, for all
\* operands of all widths, but for left shifts of more than half the host's
\* width (evaluate_wrapping_integer in execution.rs and IntegerOperation in
\* machine_intent.rs, which takes the largest host integer instead).
THEOREM FastPathIsTheGeneralOne ==
  ASSUME NEW op \in Operators, NEW b \in 1 .. HostBits - 2, NEW s \in BOOLEAN, NEW to,
         NEW x \in Int, NEW y \in Int, InRange(x, IntT(b, s)), InRange(y, IntT(b, s)),
         op = "shl" => 2 * b <= HostBits
  PROVE  EvaluateInteger(op, IntT(b, s), "wrapping", to, x, y)
           = OperationEvaluate(op, IntT(b, s), "wrapping", to, x, y)
<1> DEFINE ty == IntT(b, s)  E == EvaluateWrapping(op, ty, x, y)
           O == OperationEvaluate(op, ty, "wrapping", to, x, y)
           raw == Raw(op, ty, "wrapping", x, y)
<1>0. ty.bits = b /\ ty.signed = s /\ b \in Nat \ {0} /\ HostBits \in Nat
  BY TypeShape, HostIsWide
<1> HIDE DEF ty
<1>1. EvaluateInteger(op, ty, "wrapping", to, x, y) = E
  BY DEF EvaluateInteger, OperatorSupported, Operators, ty
<1>2. -(2^(HostBits - 2)) <= x /\ x <= 2^(HostBits - 2)
  BY RangeFits, FittingIsSmall
<1>3. O = CASE op = "add" -> Some(Wrap(HostWrap(x + y), b, s))
            [] op = "sub" -> Some(Wrap(HostWrap(x - y), b, s))
            [] op = "mul" -> Some(Wrap(HostWrap(x * y), b, s))
            [] OTHER -> IF raw = None THEN None ELSE Some(Wrap(raw[1], b, s))
  BY <1>0 DEF OperationEvaluate
<1>4. CASE op \in {"add", "sub", "mul"}
  <2>1. op = "add" => E = Some(Wrap(HostWrap(x + y), b, s))
    BY <1>0 DEF EvaluateWrapping
  <2>2. op = "sub" => E = Some(Wrap(HostWrap(x - y), b, s))
    BY <1>0 DEF EvaluateWrapping
  <2>3. op = "mul" => E = Some(Wrap(HostWrap(x * y), b, s))
    BY <1>0 DEF EvaluateWrapping
  <2> HIDE DEF E, O
  <2>4. E = O
    BY <1>3, <1>4, <2>1, <2>2, <2>3
  <2> QED BY <1>1, <2>4 DEF O, ty
<1>5. CASE op \in {"div", "mod"}
  <2> DEFINE v == IF op = "div" THEN Quotient(x, y) ELSE Remainder(x, y)
  <2>1. raw = IF y = 0 THEN None ELSE Host(v)
    BY <1>5 DEF Raw
  <2>2. E = IF y = 0 THEN None ELSE Some(Wrap(HostWrap(v), b, s))
    <3>1. op = "div" => E = IF y = 0 THEN None ELSE Some(Wrap(HostWrap(Quotient(x, y)), b, s))
      BY <1>0 DEF EvaluateWrapping
    <3>2. op = "mod" => E = IF y = 0 THEN None ELSE Some(Wrap(HostWrap(Remainder(x, y)), b, s))
      BY <1>0 DEF EvaluateWrapping
    <3> HIDE DEF E
    <3> QED BY <1>5, <3>1, <3>2
  <2>3. y # 0 => v \in Int /\ -(2^(HostBits - 2)) <= v /\ v <= 2^(HostBits - 2)
    <3>1. HostBits - 2 \in Nat
      BY HostIsWide
    <3>2. 2^(HostBits - 2) \in Nat
      BY <3>1, PowerCounts
    <3> QED BY <1>2, <3>2, DivisionIsSmall
  <2> HIDE DEF v, E, O, raw
  <2>4. y # 0 => Host(v) = Some(v) /\ HostWrap(v) = v
    BY <2>3, HostHolds
  <2>5. O = IF raw = None THEN None ELSE Some(Wrap(raw[1], b, s))
    BY <1>3, <1>5
  <2>6. E = O
    <3>1. CASE y = 0
      BY <2>1, <2>2, <2>5, <3>1
    <3>2. CASE y # 0
      BY <2>1, <2>2, <2>4, <2>5, <3>2, OptionsDiffer
    <3> QED BY <3>1, <3>2
  <2> QED BY <1>1, <2>6 DEF O, ty
<1>6. CASE op \in Digitwise
  <2> DEFINE v == BitwiseValue(op, ty, x, y)
  <2>1. raw = Some(v) /\ E = Some(v)
    BY <1>6 DEF Raw, EvaluateWrapping, Digitwise
  <2>2. v \in Int /\ Fits(v, b, s)
    BY <1>6, BitwiseValueFits DEF ty
  <2> HIDE DEF v, E, O, raw
  <2>3. Wrap(v, b, s) = v
    BY <1>0, <2>2, WrapOfFitting
  <2>4. O = IF raw = None THEN None ELSE Some(Wrap(raw[1], b, s))
    BY <1>3, <1>6 DEF Digitwise
  <2>5. E = O
    BY <2>1, <2>3, <2>4, OptionsDiffer
  <2> QED BY <1>1, <2>5 DEF O, ty
<1>7. CASE op \in {"shl", "shr"}
  <2> DEFINE m == 2^b  c == 2^(y % b)  d == x % m  z == IF s THEN x ELSE d
             left == (d * c) % 2^HostBits
  <2>1. E = IF y < 0 THEN None
            ELSE IF op = "shl" THEN Some(Wrap((d * c) % m, b, s))
            ELSE Some(Wrap(z \div c, b, s))
    <3>1. E = FastShift(op, ty, x, y)
      BY <1>7 DEF EvaluateWrapping
    <3>2. FastShift(op, ty, x, y) =
             IF y < 0 THEN None
             ELSE IF op = "shl"
               THEN Some(Wrap(((x % 2^ty.bits) * 2^(y % ty.bits)) % 2^ty.bits, ty.bits, ty.signed))
             ELSE Some(Wrap((IF ty.signed THEN x ELSE x % 2^ty.bits) \div 2^(y % ty.bits), ty.bits, ty.signed))
      BY DEF FastShift
    <3> HIDE DEF E
    <3> QED BY <1>0, <3>1, <3>2, Zenon
  <2>2. raw = GeneralShift(op, ty, x, y)
    BY <1>7 DEF Raw
  <2>3. GeneralShift(op, ty, x, y) =
           IF y < 0 THEN None
           ELSE IF op = "shl"
             THEN Some(Wrap(IF Host(left) = None THEN 2^(HostBits - 1) - 1 ELSE left, b, s))
           ELSE Some(z \div c)
    <3>1. GeneralShift(op, ty, x, y) =
           IF y < 0 THEN None
           ELSE IF op = "shl"
             THEN Some(Wrap(IF Host(((x % 2^ty.bits) * 2^(y % ty.bits)) % 2^HostBits) = None
                            THEN 2^(HostBits - 1) - 1
                            ELSE ((x % 2^ty.bits) * 2^(y % ty.bits)) % 2^HostBits, ty.bits, ty.signed))
           ELSE Some((IF ty.signed THEN x ELSE x % 2^ty.bits) \div 2^(y % ty.bits))
      BY DEF GeneralShift
    <3> QED BY <1>0, <3>1, Zenon
  <2>4. O = IF raw = None THEN None ELSE Some(Wrap(raw[1], b, s))
    <3> HIDE DEF O, raw
    <3> QED BY <1>3, <1>7
  <2> HIDE DEF E, O, raw
  <2>5. CASE y < 0
    BY <1>1, <2>1, <2>2, <2>3, <2>4, <2>5 DEF O, ty
  <2>6. CASE ~(y < 0) /\ op # "shl"
    <3>1. raw = Some(z \div c) /\ E = Some(Wrap(z \div c, b, s))
      BY <2>1, <2>2, <2>3, <2>6
    <3>2. O = E
      BY <2>4, <3>1, OptionsDiffer
    <3> QED BY <1>1, <3>2 DEF O, ty
  <2>7. CASE ~(y < 0) /\ op = "shl"
    <3>1. m \in Nat \ {0} /\ c \in Nat \ {0} /\ y % b \in 0 .. b - 1 /\ y % b \in Nat
      BY <2>7, ShiftCount
    <3> DEFINE h == 2^(HostBits - 1)  n == 2^HostBits
    <3>2. n = 2 * h /\ h \in Nat \ {0} /\ n \in Nat \ {0}
      <4>1. HostBits \in Nat \ {0}
        BY HostIsWide
      <4> QED BY <4>1, Halves
    <3>3. m * c <= h
      <4>1. m * c = 2^(b + (y % b))
        BY <1>0, <3>1, PowerAdds
      <4>2. b + (y % b) <= HostBits - 1 /\ b + (y % b) \in Nat /\ HostBits - 1 \in Nat
        BY <1>0, <2>7, <3>1
      <4> QED BY <4>1, <4>2, PowerGrows
    <3>4. d \in 0 .. m - 1
      BY <3>1, Division
    <3> HIDE DEF m, c, d, h, n
    <3>5. d * c \in 0 .. h - 1
      <4>1. d \in Nat /\ d + 1 <= m
        BY <3>1, <3>4
      <4>2. (d + 1) * c <= m * c
        BY <3>1, <4>1
      <4>3. (d + 1) * c = d * c + c /\ d * c \in Nat
        BY <3>1, <4>1
      <4> DEFINE p == d * c  q == m * c
      <4>4. p + c <= q /\ q <= h /\ p \in Nat /\ q \in Nat
        BY <3>1, <3>3, <4>2, <4>3
      <4> HIDE DEF p, q
      <4>5. p \in 0 .. h - 1
        BY <3>1, <3>2, <4>4
      <4> QED BY <4>5 DEF p
    <3> DEFINE p == d * c
    <3> HIDE DEF p
    <3>6. p \in 0 .. h - 1
      BY <3>5 DEF p
    <3>7. left = p
      <4>1. p \in 0 .. n - 1 /\ p \in Int /\ p = n * 0 + p
        BY <3>2, <3>6
      <4>2. p % n = p
        BY <3>2, <4>1, Remains
      <4> QED BY <4>2 DEF p, n
    <3>8. Host(left) = Some(p)
      <4>1. Limits(HostBits, TRUE).min = -h /\ Limits(HostBits, TRUE).max = h - 1
        BY DEF Limits, h
      <4>2. -h <= p /\ p <= h - 1
        BY <3>2, <3>6
      <4> QED BY <3>7, <4>1, <4>2 DEF Host
    <3> HIDE DEF left
    <3>9. raw = Some(Wrap(p, b, s))
      BY <2>2, <2>3, <2>7, <3>7, <3>8, OptionsDiffer
    <3>10. Wrap(p, b, s) \in Int /\ Fits(Wrap(p, b, s), b, s)
      BY <1>0, <3>2, <3>6, WrapFits
    <3>11. Wrap(Wrap(p, b, s), b, s) = Wrap(p, b, s)
      BY <1>0, <3>10, WrapOfFitting
    <3>12. Wrap(p % m, b, s) = Wrap(p, b, s)
      <4>1. p \in Int
        BY <3>2, <3>6
      <4>2. p % m \in Int /\ (p % m) % m = p % m
        <5>1. p % m \in 0 .. m - 1 /\ p % m \in Int
          BY <3>1, <4>1, Division
        <5>2. p % m = m * 0 + (p % m)
          BY <3>1, <5>1
        <5> QED BY <3>1, <5>1, <5>2, Remains
      <4> QED BY <1>0, <4>1, <4>2, WrapOfEqualDigits DEF m
    <3>13. E = Some(Wrap(p % m, b, s))
      BY <2>1, <2>7 DEF p
    <3>14. E = O
      BY <2>4, <3>9, <3>11, <3>12, <3>13, OptionsDiffer
    <3> QED BY <1>1, <3>14 DEF O, ty
  <2> QED BY <2>5, <2>6, <2>7
<1> QED BY <1>4, <1>5, <1>6, <1>7 DEF Operators, Digitwise

-----------------------------------------------------------------------------
(* Addition, subtraction and multiplication *)

\* What the operation means, on integers of any size.
Exact(op, x, y) == IF op = "add" THEN x + y ELSE IF op = "sub" THEN x - y ELSE x * y

LEMMA Products ==
  ASSUME NEW x \in Int, NEW y \in Int, NEW n \in Nat, -n <= x, x <= n, -n <= y, y <= n
  PROVE  -(n * n) <= x * y /\ x * y <= n * n
<1>1. \A p, q \in 0 .. n : p * q \in Nat /\ p * q <= n * n
  <2> TAKE p \in 0 .. n, q \in 0 .. n
  <2>1. p * q <= n * q /\ n * q <= n * n
    OBVIOUS
  <2> QED BY <2>1
<1>2. CASE 0 <= x /\ 0 <= y
  <2>1. x * y \in Nat /\ x * y <= n * n
    BY <1>1, <1>2
  <2>2. n * n \in Nat
    OBVIOUS
  <2> QED BY <2>1, <2>2
<1>3. CASE 0 <= x /\ y < 0
  <2>1. x * (-y) \in Nat /\ x * (-y) <= n * n /\ x * (-y) = -(x * y)
    BY <1>1, <1>3
  <2>2. n * n \in Nat /\ x * y \in Int
    OBVIOUS
  <2> QED BY <2>1, <2>2
<1>4. CASE x < 0 /\ 0 <= y
  <2>1. (-x) * y \in Nat /\ (-x) * y <= n * n /\ (-x) * y = -(x * y)
    BY <1>1, <1>4
  <2>2. n * n \in Nat /\ x * y \in Int
    OBVIOUS
  <2> QED BY <2>1, <2>2
<1>5. CASE x < 0 /\ y < 0
  <2>1. (-x) * (-y) \in Nat /\ (-x) * (-y) <= n * n /\ (-x) * (-y) = x * y
    BY <1>1, <1>5
  <2>2. n * n \in Nat /\ x * y \in Int
    OBVIOUS
  <2> QED BY <2>1, <2>2
<1> QED BY <1>2, <1>3, <1>4, <1>5

\* The admitted widenings are wide enough for every result.
LEMMA WideningFits ==
  ASSUME NEW op, NEW b \in Nat \ {0}, NEW s \in BOOLEAN, NEW to \in Nat,
         NEW x \in Int, NEW y \in Int, Fits(x, b, s), Fits(y, b, s),
         \/ op = "add" /\ to >= b + 1
         \/ op = "sub" /\ s /\ to >= b + 1
         \/ op = "mul" /\ to >= 2 * b
  PROVE  Fits(Exact(op, x, y), to, s)
<1> DEFINE m == 2^b  h == 2^(b - 1)  M == 2^to  H == 2^(to - 1)  e == Exact(op, x, y)
<1>0. to \in Nat \ {0}
  OBVIOUS
<1>1. m = 2 * h /\ h \in Nat \ {0} /\ m \in Nat /\ M = 2 * H /\ H \in Nat \ {0} /\ M \in Nat
  BY <1>0, Halves
<1>2. op # "mul" => m <= H
  <2>1. op # "mul" => b <= to - 1 /\ to - 1 \in Nat /\ b \in Nat
    BY <1>0
  <2> QED BY <2>1, PowerGrows
<1>3. op = "mul" => m * m <= M
  <2>1. m * m = 2^(b + b)
    BY PowerAdds
  <2>2. op = "mul" => b + b <= to /\ b + b \in Nat
    OBVIOUS
  <2> HIDE DEF m
  <2> QED BY <2>1, <2>2, PowerGrows
<1>4. /\ Limits(b, s).min = (IF s THEN -h ELSE 0) /\ Limits(b, s).max = (IF s THEN h - 1 ELSE m - 1)
      /\ Limits(to, s).min = (IF s THEN -H ELSE 0) /\ Limits(to, s).max = (IF s THEN H - 1 ELSE M - 1)
  BY DEF Limits
<1>5. /\ (IF s THEN -h ELSE 0) <= x /\ x <= (IF s THEN h - 1 ELSE m - 1)
      /\ (IF s THEN -h ELSE 0) <= y /\ y <= (IF s THEN h - 1 ELSE m - 1)
  BY <1>4 DEF Fits
<1> HIDE DEF m, h, M, H, e
<1> SUFFICES (IF s THEN -H ELSE 0) <= e /\ e <= (IF s THEN H - 1 ELSE M - 1)
  BY <1>4 DEF Fits, e
<1>6. CASE op = "add"
  <2>1. e = x + y
    BY <1>6 DEF e, Exact
  <2>2. m <= H
    BY <1>2, <1>6
  <2> QED BY <1>1, <1>5, <2>1, <2>2
<1>7. CASE op = "sub"
  <2>1. e = x - y /\ s
    BY <1>7 DEF e, Exact
  <2>2. m <= H
    BY <1>2, <1>7
  <2> QED BY <1>1, <1>5, <2>1, <2>2
<1>8. CASE op = "mul"
  <2>1. e = x * y /\ m * m <= M
    BY <1>3, <1>8 DEF e, Exact
  <2>2. CASE s
    <3>1. -(h * h) <= x * y /\ x * y <= h * h
      <4>1. -h <= x /\ x <= h /\ -h <= y /\ y <= h /\ h \in Nat
        BY <1>1, <1>5, <2>2
      <4> QED BY <4>1, Products
    <3> DEFINE k == h * h
    <3>2. k \in Nat \ {0} /\ m * m = 4 * k
      BY <1>1
    <3> HIDE DEF k
    <3>3. -k <= e /\ e <= k /\ e \in Int /\ 2 * k <= H
      <4>1. 4 * k <= M
        BY <2>1, <3>2
      <4>2. 2 * k <= H
        BY <1>1, <3>2, <4>1
      <4> QED BY <2>1, <3>1, <4>2 DEF k
    <3> QED BY <1>1, <2>2, <3>2, <3>3
  <2>3. CASE ~s
    <3> DEFINE n == m - 1
    <3>1. n \in Nat /\ -n <= x /\ x <= n /\ -n <= y /\ y <= n /\ 0 <= x /\ 0 <= y
      BY <1>1, <1>5, <2>3
    <3>2. n * n + 2 * n + 1 = m * m
      <4>1. m = n + 1
        BY <1>1
      <4> HIDE DEF n
      <4> QED BY <3>1, <4>1
    <3> HIDE DEF n
    <3>3. x * y <= n * n /\ 0 <= x * y /\ x * y \in Int
      BY <3>1, Products
    <3> DEFINE k == n * n
    <3>4. k \in Nat
      BY <3>1
    <3> HIDE DEF k
    <3>5. k + 2 * n + 1 <= M
      BY <2>1, <3>2 DEF k
    <3>6. 0 <= e /\ e <= k /\ e \in Int
      BY <2>1, <3>3 DEF k
    <3> QED BY <1>1, <2>3, <3>1, <3>4, <3>5, <3>6
  <2> QED BY <2>2, <2>3
<1> QED BY <1>6, <1>7, <1>8

\* Outside the host, the sign of the operands tells which limit to saturate at.
LEMMA OverflowSide ==
  ASSUME NEW op \in {"add", "sub", "mul"}, NEW x \in Int, NEW y \in Int, NEW n \in Nat \ {0},
         -n <= x, x <= n, -n <= y, y <= n, NEW l, l.min \in Int, l.max \in Int,
         -n <= l.min, l.min <= l.max, l.max <= n,
         ~(-(2 * n) <= Exact(op, x, y) /\ Exact(op, x, y) <= 2 * n - 1)
  PROVE  SaturationBound(op, x, y, l) = Clamp(Exact(op, x, y), l)
<1> DEFINE e == Exact(op, x, y)
<1>1. e \in Int
  BY DEF Exact
<1> HIDE DEF e
<1>2. CASE e > 2 * n - 1
  <2>1. Clamp(e, l) = l.max
    <3>1. e > l.max /\ ~(e < l.min)
      BY <1>1, <1>2
    <3> QED BY <3>1 DEF Clamp
  <2>2. SaturationBound(op, x, y, l) = l.max
    <3>1. CASE op = "add"
      <4>1. ~(y < 0)
        BY <1>2, <3>1 DEF e, Exact
      <4> QED BY <3>1, <4>1 DEF SaturationBound
    <3>2. CASE op = "sub"
      <4>1. y < 0
        BY <1>2, <3>2 DEF e, Exact
      <4> QED BY <3>2, <4>1 DEF SaturationBound
    <3>3. CASE op = "mul"
      <4>1. x * y > 0
        BY <1>2, <3>3 DEF e, Exact
      <4>2. (x < 0) = (y < 0)
        BY <4>1
      <4> QED BY <3>3, <4>2 DEF SaturationBound
    <3> QED BY <3>1, <3>2, <3>3
  <2> QED BY <2>1, <2>2 DEF e
<1>3. CASE e < -(2 * n)
  <2>1. Clamp(e, l) = l.min
    <3>1. e < l.min
      BY <1>1, <1>3
    <3> QED BY <3>1 DEF Clamp
  <2>2. SaturationBound(op, x, y, l) = l.min
    <3>1. CASE op = "add"
      <4>1. y < 0
        BY <1>3, <3>1 DEF e, Exact
      <4> QED BY <3>1, <4>1 DEF SaturationBound
    <3>2. CASE op = "sub"
      <4>1. ~(y < 0)
        BY <1>3, <3>2 DEF e, Exact
      <4> QED BY <3>2, <4>1 DEF SaturationBound
    <3>3. CASE op = "mul"
      <4>1. x * y < 0
        BY <1>3, <3>3 DEF e, Exact
      <4>2. (x < 0) # (y < 0)
        BY <4>1
      <4> QED BY <3>3, <4>2 DEF SaturationBound
    <3> QED BY <3>1, <3>2, <3>3
  <2> QED BY <2>1, <2>2 DEF e
<1>4. e > 2 * n - 1 \/ e < -(2 * n)
  BY <1>1 DEF e
<1> QED BY <1>2, <1>3, <1>4

\* Addition, subtraction and multiplication of every width and intent are those of
\* the integers: the host's own overflow shows in none of them.  Wrapping yields
\* the result modulo the width, saturating the nearest limit, checked and trapping
\* the result or none, and a widening that is admitted always the result
\* (IntegerOperation::evaluate in machine_intent.rs, evaluate_integer in
\* execution.rs).
THEOREM ArithmeticIsExact ==
  ASSUME NEW op \in {"add", "sub", "mul"}, NEW b \in 1 .. HostBits - 2, NEW s \in BOOLEAN,
         NEW x \in Int, NEW y \in Int, InRange(x, IntT(b, s)), InRange(y, IntT(b, s)), NEW to \in Nat
  PROVE  /\ EvaluateInteger(op, IntT(b, s), "wrapping", to, x, y) = Some(Wrap(Exact(op, x, y), b, s))
         /\ EvaluateInteger(op, IntT(b, s), "saturating", to, x, y)
              = Some(Clamp(Exact(op, x, y), Limits(b, s)))
         /\ \A intent \in {"checked", "trapping"} :
               EvaluateInteger(op, IntT(b, s), intent, to, x, y)
                 = IF Fits(Exact(op, x, y), b, s) THEN Some(Exact(op, x, y)) ELSE None
         /\ ArithmeticResult(op, IntT(b, s), "widening", to) # None =>
               EvaluateInteger(op, IntT(b, s), "widening", to, x, y) = Some(Exact(op, x, y))
<1> DEFINE ty == IntT(b, s)  e == Exact(op, x, y)  n == 2^(HostBits - 2)  l == Limits(b, s)
<1>0. ty.bits = b /\ ty.signed = s /\ b \in Nat \ {0} /\ b \in 1 .. HostBits /\ HostBits \in Nat
      /\ HostBits - 2 \in Nat /\ (HostBits - 1) - 1 = HostBits - 2 /\ HostBits - 1 \in Nat \ {0}
  BY TypeShape, HostIsWide
<1>1. e \in Int
  BY DEF Exact
<1>2. Fits(x, b, s) /\ Fits(y, b, s)
  BY RangeFits
<1>3. n \in Nat \ {0} /\ 2^(HostBits - 1) = 2 * n
  BY <1>0, PowerCounts, Halves
<1>4. -n <= x /\ x <= n /\ -n <= y /\ y <= n
  BY <1>2, FittingIsSmall
<1>5. l.min \in Int /\ l.max \in Int /\ l.min <= l.max /\ -n <= l.min /\ l.max <= n
  <2>1. l.min \in Int /\ l.max \in Int /\ l.min <= 0 /\ 0 <= l.max
    BY <1>0, LimitsAreOrdered
  <2>2. Fits(l.min, b, s) /\ Fits(l.max, b, s)
    BY <2>1 DEF Fits
  <2>3. -n <= l.min /\ l.max <= n
    BY <2>1, <2>2, FittingIsSmall
  <2> HIDE DEF l, n
  <2> QED BY <2>1, <2>3
<1> HIDE DEF ty, e, n
<1>6. Host(e) = IF -(2 * n) <= e /\ e <= 2 * n - 1 THEN Some(e) ELSE None
  <2>1. Limits(HostBits, TRUE).min = -(2 * n) /\ Limits(HostBits, TRUE).max = 2 * n - 1
    BY <1>3 DEF Limits
  <2> QED BY <2>1 DEF Host
<1>7. \A intent : Raw(op, ty, intent, x, y) = Host(e)
  BY DEF Raw, e, Exact
<1>8. EvaluateInteger(op, ty, "wrapping", to, x, y) = Some(Wrap(e, b, s))
  <2>1. EvaluateInteger(op, ty, "wrapping", to, x, y) = EvaluateWrapping(op, ty, x, y)
    BY DEF EvaluateInteger, OperatorSupported, ty
  <2>2. EvaluateWrapping(op, ty, x, y) = Some(Wrap(HostWrap(e), b, s))
    BY <1>0 DEF EvaluateWrapping, e, Exact
  <2>3. Wrap(HostWrap(e), b, s) = Wrap(e, b, s)
    BY <1>0, <1>1, HostWrapIsInvisible
  <2> QED BY <2>1, <2>2, <2>3
<1>9. ASSUME NEW intent, intent # "wrapping", ArithmeticResult(op, ty, intent, to) # None
      PROVE  LET k == Limits(IF intent = "widening" THEN to ELSE b, s)
             IN  EvaluateInteger(op, ty, intent, to, x, y)
                   = IF intent = "saturating"
                     THEN Some(IF Host(e) = None THEN SaturationBound(op, x, y, k) ELSE Clamp(Host(e)[1], k))
                     ELSE IF Host(e) # None /\ k.min <= Host(e)[1] /\ Host(e)[1] <= k.max
                          THEN Host(e) ELSE None
  <2>1. OperatorSupported(op, intent)
    BY DEF OperatorSupported
  <2> QED BY <1>7, <1>9, <2>1, EvaluatesOperation DEF ty
<1>10. \A intent \in Intents : ArithmeticResult(op, ty, intent, to) # None
  <2>1. \A intent \in Intents : ArithmeticResult(op, ty, intent, to) = Some(ty)
    BY <1>0 DEF ArithmeticResult, WidthOk, Intents
  <2> QED BY <2>1, OptionsDiffer
<1>11. EvaluateInteger(op, ty, "saturating", to, x, y) = Some(Clamp(e, l))
  <2>1. EvaluateInteger(op, ty, "saturating", to, x, y)
          = Some(IF Host(e) = None THEN SaturationBound(op, x, y, l) ELSE Clamp(Host(e)[1], l))
    BY <1>9, <1>10 DEF Intents
  <2> HIDE DEF l
  <2>2. CASE -(2 * n) <= e /\ e <= 2 * n - 1
    BY <1>6, <2>1, <2>2, OptionsDiffer
  <2>3. CASE ~(-(2 * n) <= e /\ e <= 2 * n - 1)
    <3>1. SaturationBound(op, x, y, l) = Clamp(e, l)
      BY <1>3, <1>4, <1>5, <2>3, OverflowSide DEF e
    <3> QED BY <1>6, <2>1, <2>3, <3>1
  <2> QED BY <2>2, <2>3
<1>12. ASSUME NEW intent \in {"checked", "trapping"}
       PROVE  EvaluateInteger(op, ty, intent, to, x, y) = IF Fits(e, b, s) THEN Some(e) ELSE None
  <2>1. EvaluateInteger(op, ty, intent, to, x, y)
          = IF Host(e) # None /\ l.min <= Host(e)[1] /\ Host(e)[1] <= l.max THEN Host(e) ELSE None
    BY <1>9, <1>10 DEF Intents
  <2> HIDE DEF l
  <2>2. CASE -(2 * n) <= e /\ e <= 2 * n - 1
    BY <1>6, <2>1, <2>2, OptionsDiffer DEF Fits, l
  <2>3. CASE ~(-(2 * n) <= e /\ e <= 2 * n - 1)
    <3>1. ~(l.min <= e /\ e <= l.max)
      BY <1>1, <1>3, <1>5, <2>3
    <3>2. ~Fits(e, b, s)
      BY <3>1 DEF Fits, l
    <3> QED BY <1>6, <2>1, <2>3, <3>2
  <2> QED BY <2>2, <2>3
<1>13. ASSUME ArithmeticResult(op, ty, "widening", to) # None
       PROVE  EvaluateInteger(op, ty, "widening", to, x, y) = Some(e)
  <2>1. /\ to \in 1 .. HostBits - 2
        /\ \/ op = "add" /\ to >= b + 1
           \/ op = "sub" /\ s /\ to >= b + 1
           \/ op = "mul" /\ to >= 2 * b
    BY <1>13, AdmittedWidening DEF ty
  <2>2. Fits(e, to, s)
    BY <1>0, <1>2, <2>1, WideningFits DEF e
  <2>3. -n <= e /\ e <= n
    BY <1>1, <2>1, <2>2, FittingIsSmall DEF n
  <2>4. Host(e) = Some(e)
    <3>1. -(2 * n) <= e /\ e <= 2 * n - 1
      BY <1>1, <1>3, <2>3
    <3> QED BY <1>6, <3>1
  <2>5. EvaluateInteger(op, ty, "widening", to, x, y)
          = IF Host(e) # None /\ Limits(to, s).min <= Host(e)[1] /\ Host(e)[1] <= Limits(to, s).max
            THEN Host(e) ELSE None
    BY <1>9, <1>13
  <2> QED BY <2>2, <2>4, <2>5, OptionsDiffer DEF Fits
<1> QED BY <1>8, <1>11, <1>12, <1>13 DEF ty, e

\* What the operators on bytes yield is a byte (evaluate_byte_bitwise and
\* evaluate_byte_shift in execution.rs).
THEOREM BytesStayBytes ==
  ASSUME NEW op, NEW v \in Int, NEW w \in Int
  PROVE  /\ op \in Digitwise /\ EvaluateByteBitwise(op, v, w) # None =>
               IsByte(EvaluateByteBitwise(op, v, w)[1])
         /\ EvaluateByteShift(op, v, w) # None => IsByte(EvaluateByteShift(op, v, w)[1])
<1> DEFINE m == 2^ByteBits  c == 2^(w % ByteBits)
<1>1. ByteBits \in Nat \ {0} /\ ByteBits \in 1 .. HostBits - 2
  BY HostIsWide
<1>2. m \in Nat \ {0}
  BY <1>1, PowerCounts
<1>3. ASSUME op \in Digitwise, EvaluateByteBitwise(op, v, w) # None
      PROVE  IsByte(EvaluateByteBitwise(op, v, w)[1])
  <2>1. EvaluateByteBitwise(op, v, w) = Some(Bitwise2(op, v, w, ByteBits))
    BY <1>3 DEF EvaluateByteBitwise
  <2>2. Bitwise2(op, v, w, ByteBits) \in 0 .. 2^ByteBits - 1
    BY <1>1, <1>3, BitwiseFits
  <2> QED BY <2>1, <2>2, OptionsDiffer DEF IsByte
<1>4. ASSUME EvaluateByteShift(op, v, w) # None
      PROVE  IsByte(EvaluateByteShift(op, v, w)[1])
  <2>1. IsByte(v) /\ ~(w < 0)
        /\ EvaluateByteShift(op, v, w) = Some(IF op = "shl" THEN (v * c) % m ELSE v \div c)
    BY <1>4 DEF EvaluateByteShift
  <2>2. c \in Nat \ {0}
    <3>1. w \in Nat
      BY <2>1
    <3> QED BY <1>1, <3>1, ShiftCount
  <2>3. v \in 0 .. m - 1
    BY <2>1 DEF IsByte
  <2> HIDE DEF m, c
  <2>4. (v * c) % m \in 0 .. m - 1
    <3>1. v * c \in Int
      BY <2>2
    <3> QED BY <1>2, <3>1, Division
  <2>5. v \div c \in 0 .. m - 1
    <3>1. v \in Nat
      BY <1>2, <2>3
    <3>2. v \div c \in Nat /\ v \div c <= v
      BY <2>2, <3>1
    <3> QED BY <1>2, <2>3, <3>2
  <2>6. (IF op = "shl" THEN (v * c) % m ELSE v \div c) \in 0 .. m - 1
    BY <2>4, <2>5
  <2> QED BY <2>1, <2>6, OptionsDiffer DEF IsByte, m
<1> QED BY <1>3, <1>4
=============================================================================

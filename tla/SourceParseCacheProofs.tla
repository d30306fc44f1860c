----------------------- MODULE SourceParseCacheProofs -----------------------
(***************************************************************************)
(* The parse cache is transparent: for any number of versions, envelopes,  *)
(* damaged entries and doubled entries, and for any limits, parse() returns *)
(* what the running parser returns (Transparent).                          *)
(*                                                                         *)
(* That is a statement about entries the answer no longer shows, so it is  *)
(* not inductive.  The invariant Kept says what can be in the file: an     *)
(* entry some version wrote, or one that has lost one field since (Good).  *)
(* An entry states its profile and its version twice, in its key and in    *)
(* fields of their own, and its tree twice, itself and by its digest: with *)
(* one field lost, one statement of each is left, and an entry whose two   *)
(* statements agree is what was written (GoodEntries).  What remains is    *)
(* that rejecting, trimming and promoting only select among the entries.   *)
(***************************************************************************)
EXTENDS SourceParseCache, FiniteSetTheorems, SequenceTheorems, WellFoundedInduction,
        NaturalsInduction, TLAPS

\* What a version writes, and what is left of it when one field is lost.
Genuine == {EntryOf(e, v) : e \in Envelopes, v \in Versions}
Good == Genuine \cup
        UNION {{[y EXCEPT !.damaged = TRUE] : y \in Damaged(x)} : x \in Genuine}

\* The sizes are not kept, or are those of the entries beside them.
Kept ==
    /\ version \in Versions /\ schema \in Versions
    /\ entries \in Seq(Good)
    /\ sizes \in {<<>>, Own(entries)}

IndInv == Kept /\ Transparent /\ WithinLimits

-----------------------------------------------------------------------------
(* The entries *)

\* The tree is what it is wherever it was parsed.
LEMMA ParseShape ==
  ASSUME NEW e, NEW v
  PROVE  /\ Parse(e, v).text = Text[e]
         /\ Parse(e, v).id = e
         /\ Parse(e, v).tree = Tree(Text[e], Profile[e], v)
  BY DEF Parse

\* Of an entry in the file, the tree is what was written when the digest agrees,
\* and the key or else both profile and version are.
LEMMA GoodEntries ==
  ASSUME NEW x \in Good
  PROVE  /\ x.output.text \in Texts
         /\ x.damaged \in BOOLEAN
         /\ ~x.damaged => x \in Genuine
         /\ \E d \in Envelopes, v \in Versions :
               /\ x.digest = x.output => x.output = Parse(d, v)
               /\ \/ x.key = Key(Text[d], Profile[d], v)
                  \/ x.profile = Profile[d] /\ x.version = v
<1>1. CASE x \in Genuine
  <2>1. PICK d \in Envelopes, v \in Versions : x = EntryOf(d, v)
    BY <1>1 DEF Genuine
  <2>2. /\ x.output = Parse(d, v) /\ x.key = Key(Text[d], Profile[d], v)
        /\ x.damaged = FALSE
    BY <2>1 DEF EntryOf
  <2>3. x.output.text \in Texts
    BY <2>2, ParseShape DEF Texts
  <2> QED BY <1>1, <2>2, <2>3
<1>2. CASE x \notin Genuine
  <2>0. PICK g \in Genuine : \E y \in Damaged(g) : x = [y EXCEPT !.damaged = TRUE]
    BY <1>2 DEF Good
  <2>1. PICK y \in Damaged(g) : x = [y EXCEPT !.damaged = TRUE]
    BY <2>0
  <2>2. PICK d \in Envelopes, v \in Versions : g = EntryOf(d, v)
    BY DEF Genuine
  <2> DEFINE k == Key(Text[d], Profile[d], v)  o == Parse(d, v)
  <2>3. /\ g.output = o /\ g.digest = o /\ g.key = k
        /\ g.profile = Profile[d] /\ g.version = v
        /\ DOMAIN g = {"key", "id", "profile", "version", "sig", "digest", "output", "damaged"}
    BY <2>2 DEF EntryOf
  <2>4. /\ y.key = k \/ (y.profile = Profile[d] /\ y.version = v)
        /\ y.output = o \/ y.digest = o
        /\ y.output = o \/ \E e \in Envelopes, w \in Versions : y.output = Parse(e, w)
        /\ DOMAIN y = DOMAIN g
    <3> HIDE DEF o, k
    <3>1. \/ \E c : y = [g EXCEPT !.key = c]
          \/ \E c : y = [g EXCEPT !.profile = c]
          \/ \E c : y = [g EXCEPT !.version = c]
          \/ \E c : y = [g EXCEPT !.sig = c]
          \/ \E c : y = [g EXCEPT !.id = c]
          \/ \E e \in Envelopes, w \in Versions : y = [g EXCEPT !.output = Parse(e, w)]
          \/ \E c : y = [g EXCEPT !.digest = c]
      BY DEF Damaged
    <3>2. CASE \E c : y = [g EXCEPT !.key = c]
      BY <3>2, <2>3
    <3>3. CASE \E c : y = [g EXCEPT !.profile = c]
      BY <3>3, <2>3
    <3>4. CASE \E c : y = [g EXCEPT !.version = c]
      BY <3>4, <2>3
    <3>5. CASE \E c : y = [g EXCEPT !.sig = c]
      BY <3>5, <2>3
    <3>6. CASE \E c : y = [g EXCEPT !.id = c]
      BY <3>6, <2>3
    <3>7. CASE \E c : y = [g EXCEPT !.digest = c]
      BY <3>7, <2>3
    <3>8. CASE \E e \in Envelopes, w \in Versions : y = [g EXCEPT !.output = Parse(e, w)]
      BY <3>8, <2>3
    <3> QED BY <3>1, <3>2, <3>3, <3>4, <3>5, <3>6, <3>7, <3>8
  <2>5. /\ x.key = y.key /\ x.profile = y.profile /\ x.version = y.version
        /\ x.output = y.output /\ x.digest = y.digest /\ x.damaged = TRUE
    BY <2>1, <2>3, <2>4
  <2>6. x.output.text \in Texts
    BY <2>4, <2>5, ParseShape DEF Texts
  <2> QED BY <2>4, <2>5, <2>6
<1> QED BY <1>1, <1>2

\* A field of an entry that is lost leaves an entry of the file.
LEMMA DamagedIsGood ==
  ASSUME NEW x \in Good, ~x.damaged, NEW y \in Damaged(x)
  PROVE  [y EXCEPT !.damaged = TRUE] \in Good
<1>1. x \in Genuine
  BY GoodEntries
<1>2. [y EXCEPT !.damaged = TRUE] \in {[z EXCEPT !.damaged = TRUE] : z \in Damaged(x)}
  OBVIOUS
<1> QED BY <1>1, <1>2 DEF Good

\* An entry that passes the checks of an exact hit holds this envelope's tree.
LEMMA ExactIsTransparent ==
  ASSUME NEW e \in Envelopes, NEW x \in Good, EntryMatches(x, e)
  PROVE  [x.output EXCEPT !.id = e] = Parse(e, version)
<1>1. PICK d \in Envelopes, v \in Versions :
         /\ x.output = Parse(d, v)
         /\ \/ x.key = Key(Text[d], Profile[d], v)
            \/ x.profile = Profile[d] /\ x.version = v
  BY GoodEntries DEF EntryMatches
<1>2. Profile[d] = Profile[e] /\ v = version /\ Text[d] = Text[e]
  BY <1>1, ParseShape DEF EntryMatches, Key
<1> QED BY <1>1, <1>2 DEF Parse

\* One that passes the checks of a hit on equal tokens holds it after rebasing.
LEMMA TokensAreTransparent ==
  ASSUME NEW e \in Envelopes, NEW x \in Good, Text[e] \in Clean,
         EntryMatchesTokens(x, e)
  PROVE  Rebase(x.output, e) = Parse(e, version)
<1>1. PICK d \in Envelopes, v \in Versions :
         /\ x.output = Parse(d, v)
         /\ \/ x.key = Key(Text[d], Profile[d], v)
            \/ x.profile = Profile[d] /\ x.version = v
  BY GoodEntries DEF EntryMatchesTokens
<1>2. Profile[d] = Profile[e] /\ v = version /\ Sig[Text[d]] = Sig[Text[e]]
  <2>1. x.profile = Profile[e] /\ x.version = version
    BY DEF EntryMatchesTokens, SemanticCandidate
  <2>2. x.key = <<x.output.text, x.profile, version>>
    BY DEF EntryMatchesTokens, Key
  <2>3. Profile[d] = Profile[e] /\ v = version
    BY <1>1, <2>1, <2>2 DEF Key
  <2>4. x.output.text = Text[d]
    BY <1>1, ParseShape
  <2>5. Sig[x.output.text] = Sig[Text[e]]
    BY DEF EntryMatchesTokens
  <2> QED BY <2>3, <2>4, <2>5
<1>3. <<Text[d], Profile[d]>> \in Parses
  <2>1. x.output.tree.valid
    BY DEF EntryMatchesTokens
  <2>2. x.output.tree = Tree(Text[d], Profile[d], v)
    BY <1>1, ParseShape
  <2>3. Tree(Text[d], Profile[d], v).valid = (<<Text[d], Profile[d]>> \in Parses)
    BY DEF Tree
  <2> QED BY <2>1, <2>2, <2>3
<1>4. <<Text[e], Profile[e]>> \in Parses
  BY <1>2, <1>3, ConstantsAssumption
<1>5. Tree(Text[d], Profile[d], v) = Tree(Text[e], Profile[e], version)
  BY <1>2, <1>3, <1>4 DEF Tree
<1>6. x.output = [text |-> Text[d], id |-> d, tree |-> Tree(Text[d], Profile[d], v)]
  BY <1>1 DEF Parse
<1>7. Rebase(x.output, e) = [text |-> Text[e], id |-> e, tree |-> Tree(Text[d], Profile[d], v)]
  <2>1. \A a, b, t, u : [[text |-> a, id |-> b, tree |-> t] EXCEPT !.text = u]
                           = [text |-> u, id |-> b, tree |-> t]
    OBVIOUS
  <2>2. \A u, b, t : [[text |-> u, id |-> b, tree |-> t] EXCEPT !.id = e]
                        = [text |-> u, id |-> e, tree |-> t]
    OBVIOUS
  <2>3. Rebase(x.output, e) = [[x.output EXCEPT !.text = Text[e]] EXCEPT !.id = e]
    BY Zenon DEF Rebase
  <2>4. [x.output EXCEPT !.text = Text[e]]
          = [text |-> Text[e], id |-> d, tree |-> Tree(Text[d], Profile[d], v)]
    BY <1>6, <2>1
  <2> QED BY <2>2, <2>3, <2>4
<1> QED BY <1>5, <1>7 DEF Parse

-----------------------------------------------------------------------------
(* What selecting keeps *)

\* Numbers that satisfy something have a least one.
LEMMA Least ==
  ASSUME NEW S \in SUBSET Nat, S # {}
  PROVE  Min(S) \in S /\ \A n \in S : Min(S) <= n
<1>1. \E m \in S : \A n \in S : ~(<<n, m>> \in OpToRel(<, Nat))
  BY NatLessThanWellFounded, WFMin
<1>2. PICK m \in S : \A n \in S : ~(n < m)
  BY <1>1 DEF OpToRel
<1>3. m \in S /\ \A n \in S : m <= n
  BY <1>2
<1> QED BY <1>3 DEF Min

LEMMA DropIsSeq ==
  ASSUME NEW S, NEW s \in Seq(S), NEW n \in 0 .. Len(s)
  PROVE  /\ Drop(s, n) \in Seq(S) /\ Len(Drop(s, n)) = Len(s) - n
         /\ \A i \in 1 .. Len(s) - n : Drop(s, n)[i] = s[i + n]
  BY DEF Drop

LEMMA PromoteIsSeq ==
  ASSUME NEW S, NEW s \in Seq(S), NEW i \in 1 .. Len(s)
  PROVE  /\ Promote(s, i) \in Seq(S) /\ Len(Promote(s, i)) = Len(s)
         /\ \A k \in 1 .. Len(s) :
               Promote(s, i)[k] = IF k < i THEN s[k] ELSE IF k < Len(s) THEN s[k + 1] ELSE s[i]
<1> DEFINE a == SubSeq(s, 1, i - 1)  b == SubSeq(s, i + 1, Len(s))
<1>1. /\ a \in Seq(S) /\ Len(a) = i - 1 /\ \A k \in 1 .. i - 1 : a[k] = s[k]
      /\ b \in Seq(S) /\ Len(b) = Len(s) - i /\ \A k \in 1 .. Len(s) - i : b[k] = s[k + i]
  OBVIOUS
<1>2. Promote(s, i) = Append(a \o b, s[i])
  BY DEF Promote, RemoveAt
<1>3. s[i] \in S /\ Len(s) \in Nat
  OBVIOUS
<1> HIDE DEF a, b
<1>4. /\ a \o b \in Seq(S) /\ Len(a \o b) = Len(s) - 1
      /\ \A k \in 1 .. Len(s) - 1 : (a \o b)[k] = IF k < i THEN s[k] ELSE s[k + 1]
  <2>1. a \o b \in Seq(S) /\ Len(a \o b) = Len(a) + Len(b)
    BY <1>1, ConcatProperties
  <2>4. Len(a) + Len(b) = Len(s) - 1
    BY <1>1, <1>3
  <2>5. Len(a \o b) = Len(s) - 1
    BY <2>1, <2>4
  <2>2. \A k \in 1 .. Len(a) + Len(b) :
           (a \o b)[k] = IF k <= Len(a) THEN a[k] ELSE b[k - Len(a)]
    BY <1>1, ConcatProperties
  <2>3. \A k \in 1 .. Len(s) - 1 : (a \o b)[k] = IF k < i THEN s[k] ELSE s[k + 1]
    BY <1>1, <1>3, <2>2
  <2> QED BY <2>1, <2>3, <2>5, Zenon
<1> DEFINE c == a \o b
<1> HIDE DEF c
<1>5. /\ c \in Seq(S) /\ Len(c) = Len(s) - 1
      /\ \A k \in 1 .. Len(s) - 1 : c[k] = IF k < i THEN s[k] ELSE s[k + 1]
  BY <1>4 DEF c
<1>6. Promote(s, i) = Append(c, s[i])
  BY <1>2 DEF c
<1> QED BY <1>3, <1>5, <1>6

LEMMA PositionsAreFinite ==
  ASSUME NEW n \in Nat, NEW K \in SUBSET (1 .. n)
  PROVE  IsFiniteSet(K) /\ Cardinality(K) \in Nat /\ Cardinality(K) <= n
<1>1. IsFiniteSet(1 .. n) /\ Cardinality(1 .. n) = n
  BY FS_Interval
<1>2. IsFiniteSet(K) /\ Cardinality(K) <= Cardinality(1 .. n)
  BY <1>1, FS_Subset
<1> QED BY <1>1, <1>2, FS_CardinalityType

\* The position of the k-th one of K.
LEMMA NthIsPosition ==
  ASSUME NEW S, NEW s \in Seq(S), NEW K \in SUBSET (1 .. Len(s)), NEW k \in 1 .. Cardinality(K)
  PROVE  /\ Nth(K, k, s) \in 1 .. Len(s)
         /\ Cardinality({j \in K : j <= Nth(K, k, s)}) >= k
         /\ \A i \in 1 .. Len(s) : Cardinality({j \in K : j <= i}) >= k => Nth(K, k, s) <= i
<1> DEFINE T == {i \in DOMAIN s : Cardinality({j \in K : j <= i}) >= k}
<1>0. Len(s) \in Nat /\ DOMAIN s = 1 .. Len(s)
  OBVIOUS
<1>1. Cardinality(K) \in Nat
  BY <1>0, PositionsAreFinite
<1>2. Len(s) \in 1 .. Len(s)
  <2>1. K # {}
    BY <1>1, FS_EmptySet
  <2>2. PICK j \in K : j \in 1 .. Len(s)
    BY <2>1
  <2> QED BY <1>0, <2>2
<1>3. {j \in K : j <= Len(s)} = K
  <2>1. \A j \in K : j \in 1 .. Len(s)
    OBVIOUS
  <2>2. \A j \in K : j <= Len(s)
    BY <1>0, <2>1
  <2> QED BY <2>2
<1>4. Len(s) \in T
  <2>1. Cardinality({j \in K : j <= Len(s)}) >= k
    BY <1>1, <1>3
  <2>2. Len(s) \in DOMAIN s
    BY <1>0, <1>2
  <2> QED BY <2>1, <2>2, Zenon DEF T
<1>5. T \in SUBSET Nat
  BY <1>0
<1>6. Min(T) \in T /\ \A n \in T : Min(T) <= n
  BY <1>4, <1>5, Least
<1>7. Nth(K, k, s) = Min(T)
  BY DEF Nth
<1> HIDE DEF T
<1>8. \A i : i \in T <=> i \in 1 .. Len(s) /\ Cardinality({j \in K : j <= i}) >= k
  BY <1>0 DEF T
<1> QED BY <1>6, <1>7, <1>8

LEMMA WithoutIsSeq ==
  ASSUME NEW S, NEW s \in Seq(S), NEW I
  PROVE  Without(s, I) \in Seq(S) /\ Len(Without(s, I)) = Cardinality(DOMAIN s \ I)
<1> DEFINE K == DOMAIN s \ I
<1>0. Len(s) \in Nat /\ K \in SUBSET (1 .. Len(s))
  OBVIOUS
<1>1. Cardinality(K) \in Nat
  BY <1>0, PositionsAreFinite
<1> HIDE DEF K
<1>2. \A k \in 1 .. Cardinality(K) : s[Nth(K, k, s)] \in S
  <2>1. \A k \in 1 .. Cardinality(K) : Nth(K, k, s) \in 1 .. Len(s)
    BY <1>0, NthIsPosition
  <2> QED BY <2>1
<1>3. Without(s, I) = [k \in 1 .. Cardinality(K) |-> s[Nth(K, k, s)]]
  BY DEF Without, K
<1>4. Without(s, I) \in Seq(S) /\ Len(Without(s, I)) = Cardinality(K)
  <2> DEFINE f == [k \in 1 .. Cardinality(K) |-> s[Nth(K, k, s)]]
  <2>1. f \in [1 .. Cardinality(K) -> S]
    BY <1>2
  <2> HIDE DEF f
  <2>2. f \in Seq(S) /\ Len(f) = Cardinality(K)
    BY <1>1, <2>1
  <2> QED BY <1>3, <2>2 DEF f
<1> QED BY <1>4 DEF K

-----------------------------------------------------------------------------
(* The sizes *)

LEMMA AddMore == \A p, q, r \in Nat : p <= q => p <= q + r
  OBVIOUS

LEMMA AddSubtract == \A p, q, r \in Nat : ((p + q) + r) - q = p + r
  OBVIOUS

LEMMA SubtractAdd == \A p, q, r \in Nat : (p + r) - q = (p - q) + r
  OBVIOUS

\* The partial sums of a sequence of numbers.
SumsTo(f, s, n) ==
    /\ s \in [1 .. n -> Nat] /\ f \in [0 .. n -> Nat] /\ f[0] = 0
    /\ \A k \in 1 .. n : f[k] = f[k - 1] + s[k]
Sums(f, s) == SumsTo(f, s, Len(s))

\* p is s with its i-th element moved to the end.
Moved(p, s, i, n) ==
    \A k \in 1 .. n : p[k] = IF k < i THEN s[k] ELSE IF k < n THEN s[k + 1] ELSE s[i]

LEMMA SumsExist ==
  ASSUME NEW s \in Seq(Nat)
  PROVE  \E f : Sums(f, s)
<1> DEFINE Upto(n) == \E f \in [0 .. n -> Nat] :
                         f[0] = 0 /\ \A k \in 1 .. n : f[k] = f[k - 1] + s[k]
           Bad == {n \in Nat : n <= Len(s) /\ ~Upto(n)}
<1> HIDE DEF Upto
<1>0. Len(s) \in Nat
  OBVIOUS
<1>a. \A n \in Nat : n \in Bad <=> n <= Len(s) /\ ~Upto(n)
  OBVIOUS
<1>1. Bad = {}
  <2> SUFFICES ASSUME Bad # {} PROVE FALSE
    OBVIOUS
  <2> DEFINE m == Min(Bad)
  <2>1. m \in Bad /\ \A n \in Bad : m <= n
    <3>1. Bad \in SUBSET Nat
      OBVIOUS
    <3> HIDE DEF Bad
    <3> QED BY <3>1, Least
  <2>2. m \in Nat /\ m <= Len(s) /\ ~Upto(m)
    BY <2>1
  <2>3. Upto(0)
    <3>1. [k \in 0 .. 0 |-> 0] \in [0 .. 0 -> Nat] /\ [k \in 0 .. 0 |-> 0][0] = 0
      OBVIOUS
    <3>2. \A k \in 1 .. 0 : FALSE
      OBVIOUS
    <3> QED BY <3>1, <3>2 DEF Upto
  <2>4. m # 0
    BY <2>2, <2>3
  <2>5. m - 1 \notin Bad
    <3> HIDE DEF m, Bad
    <3> QED BY <2>1, <2>2
  <2>6. m - 1 \in Nat /\ m - 1 <= Len(s)
    BY <2>2, <2>4
  <2>7. Upto(m - 1)
    BY <1>a, <2>5, <2>6
  <2>8. PICK f \in [0 .. m - 1 -> Nat] : f[0] = 0 /\ \A k \in 1 .. m - 1 : f[k] = f[k - 1] + s[k]
    BY <2>7 DEF Upto
  <2> HIDE DEF m, Bad
  <2>9. s[m] \in Nat
    BY <2>2, <2>4
  <2> DEFINE g == [k \in 0 .. m |-> IF k = m THEN f[m - 1] + s[m] ELSE f[k]]
  <2>10. g \in [0 .. m -> Nat] /\ g[0] = 0 /\ \A k \in 1 .. m : g[k] = g[k - 1] + s[k]
    <3>1. m \in Nat /\ m >= 1 /\ f[m - 1] \in Nat
      BY <2>2, <2>4, <2>6, <2>8
    <3>2. \A k \in 0 .. m : k # m => k \in 0 .. m - 1
      BY <3>1
    <3>3. \A k \in 0 .. m : g[k] = IF k = m THEN f[m - 1] + s[m] ELSE f[k]
      OBVIOUS
    <3>4. \A k \in 0 .. m : (IF k = m THEN f[m - 1] + s[m] ELSE f[k]) \in Nat
      BY <2>8, <2>9, <3>1, <3>2
    <3>5. g \in [0 .. m -> Nat]
      BY <3>4
    <3>6. g[0] = 0
      BY <2>8, <3>1, <3>3
    <3>7. ASSUME NEW k \in 1 .. m PROVE g[k] = g[k - 1] + s[k]
      <4>1. k \in 0 .. m /\ k - 1 \in 0 .. m /\ k - 1 # m
        BY <3>1
      <4>2. g[k - 1] = f[k - 1]
        BY <3>3, <4>1
      <4>3. CASE k = m
        BY <3>3, <4>1, <4>2, <4>3
      <4>4. CASE k # m
        <5>1. k \in 1 .. m - 1 /\ g[k] = f[k]
          BY <3>1, <3>3, <4>1, <4>4
        <5> QED BY <2>8, <4>2, <5>1
      <4> QED BY <4>3, <4>4
    <3> QED BY <3>5, <3>6, <3>7
  <2>11. Upto(m)
    BY <2>10 DEF Upto
  <2> QED BY <2>2, <2>11
<1>2. Upto(Len(s))
  BY <1>0, <1>1, <1>a
<1> QED BY <1>2 DEF Sums, SumsTo, Upto

\* The total is the last of them.
LEMMA TotalIsLast ==
  ASSUME NEW s \in Seq(Nat)
  PROVE  \E f : Sums(f, s) /\ Total(s) = f[Len(s)]
<1> DEFINE Rec(u) == u = [k \in 0 .. Len(s) |-> IF k = 0 THEN 0 ELSE u[k - 1] + s[k]]
           u == CHOOSE u : Rec(u)
<1>1. Total(s) = u[Len(s)]
  BY DEF Total
<1>0. Len(s) \in Nat
  OBVIOUS
<1>2. PICK f : Sums(f, s)
  BY SumsExist
<1>3. Rec(f)
  <2>1. f = [k \in 0 .. Len(s) |-> f[k]]
    BY <1>2 DEF Sums, SumsTo
  <2>2. \A k \in 0 .. Len(s) : f[k] = IF k = 0 THEN 0 ELSE f[k - 1] + s[k]
    BY <1>0, <1>2 DEF Sums, SumsTo
  <2> QED BY <2>1, <2>2
<1>4. Rec(u)
  BY <1>3
<1> HIDE DEF u, Rec
<1>5. u[Len(s)] = f[Len(s)]
  <2> DEFINE Apart == {k \in 0 .. Len(s) : u[k] # f[k]}  m == Min(Apart)
  <2>1. Apart = {}
    <3> SUFFICES ASSUME Apart # {} PROVE FALSE
      OBVIOUS
    <3>1. m \in Apart /\ \A k \in Apart : m <= k
      <4>1. Apart \in SUBSET Nat
        BY <1>0
      <4> HIDE DEF Apart
      <4> QED BY <4>1, Least
    <3> HIDE DEF m
    <3>2. m \in 0 .. Len(s) /\ u[m] # f[m]
      BY <3>1
    <3>3. u[0] = 0 /\ f[0] = 0
      BY <1>0, <1>3, <1>4 DEF Rec
    <3>4. m \in 1 .. Len(s) /\ m - 1 \in 0 .. Len(s)
      BY <1>0, <3>2, <3>3
    <3>5. u[m - 1] = f[m - 1]
      BY <3>1, <3>4
    <3>6. u[m] = u[m - 1] + s[m] /\ f[m] = f[m - 1] + s[m]
      BY <1>0, <1>3, <1>4, <3>4 DEF Rec
    <3> QED BY <3>2, <3>5, <3>6
  <2> QED BY <1>0, <2>1
<1> QED BY <1>1, <1>2, <1>5 DEF u

LEMMA TotalEmpty == Total(<<>>) = 0
<1>1. <<>> \in Seq(Nat) /\ Len(<<>>) = 0
  OBVIOUS
<1> QED BY <1>1, TotalIsLast DEF Sums, SumsTo

LEMMA TotalIsNat ==
  ASSUME NEW s \in Seq(Nat)
  PROVE  Total(s) \in Nat
  BY TotalIsLast DEF Sums, SumsTo

LEMMA MovedSums ==
  ASSUME NEW n \in Nat, NEW i \in 1 .. n,
         NEW s, NEW p, NEW f, NEW g,
         Moved(p, s, i, n), SumsTo(f, s, n), SumsTo(g, p, n)
  PROVE  g[n] = f[n]
<1> DEFINE Holds(k) == g[k] = IF k < i THEN f[k] ELSE f[k + 1] - s[i]
           Bad == {k \in 0 .. n - 1 : ~Holds(k)}  m == Min(Bad)
<1>1. Bad = {}
  <2> SUFFICES ASSUME Bad # {} PROVE FALSE
    OBVIOUS
  <2>1. m \in Bad /\ \A k \in Bad : m <= k
    <3>1. Bad \in SUBSET Nat
      OBVIOUS
    <3> HIDE DEF Bad
    <3> QED BY <3>1, Least
  <2> HIDE DEF m
  <2>2. m \in 0 .. n - 1 /\ ~Holds(m)
    BY <2>1
  <2>3. Holds(0)
    BY DEF SumsTo, Moved
  <2>4. m \in 1 .. n - 1 /\ m - 1 \in 0 .. n - 1 /\ m \in 1 .. n /\ m + 1 \in 1 .. n
    BY <2>2, <2>3
  <2>5. Holds(m - 1)
    <3> HIDE DEF Holds
    <3> QED BY <2>1, <2>4
  <2> HIDE DEF Bad
  <2>9. /\ m \in 0 .. n /\ m - 1 \in 0 .. n /\ m + 1 \in 0 .. n /\ (m + 1) - 1 = m
        /\ (m - 1) + 1 = m /\ m < n
    BY <2>4
  <2>6. g[m] = g[m - 1] + p[m] /\ f[m] = f[m - 1] + s[m] /\ f[m + 1] = f[m] + s[m + 1]
    <3>1. f[m + 1] = f[(m + 1) - 1] + s[m + 1]
      BY <2>4 DEF SumsTo
    <3> QED BY <2>4, <2>9, <3>1 DEF SumsTo
  <2>7. CASE m < i
    <3>1. m - 1 < i /\ p[m] = s[m]
      BY <2>4, <2>7 DEF Moved
    <3> QED BY <2>2, <2>5, <2>6, <2>7, <3>1
  <2>8. CASE m >= i
    <3>0. g[m] # f[m + 1] - s[i]
      <4>1. ~(m < i)
        BY <2>4, <2>8
      <4> QED BY <2>2, <4>1
    <3>1. p[m] = s[m + 1]
      BY <2>4, <2>8 DEF Moved
    <3>2. f[m] \in Nat /\ f[m - 1] \in Nat /\ f[m + 1] \in Nat /\ s[m] \in Nat /\ s[i] \in Nat
          /\ s[m + 1] \in Nat /\ g[m - 1] \in Nat
      BY <2>4, <2>9 DEF SumsTo
    <3>3. CASE m = i
      <4>1. g[m - 1] = f[m - 1] /\ s[i] = s[m]
        BY <2>4, <2>5, <3>3
      <4>2. f[m + 1] = (f[m - 1] + s[m]) + s[m + 1] /\ g[m] = f[m - 1] + s[m + 1]
        BY <2>6, <3>1, <4>1
      <4>3. ((f[m - 1] + s[m]) + s[m + 1]) - s[m] = f[m - 1] + s[m + 1]
        BY <3>2, AddSubtract
      <4> QED BY <3>0, <4>1, <4>2, <4>3
    <3>4. CASE m # i
      <4>1. g[m - 1] = f[m] - s[i]
        BY <2>4, <2>5, <2>8, <2>9, <3>4
      <4>2. f[m + 1] = f[m] + s[m + 1] /\ g[m] = (f[m] - s[i]) + s[m + 1]
        BY <2>6, <3>1, <4>1
      <4>3. (f[m] + s[m + 1]) - s[i] = (f[m] - s[i]) + s[m + 1]
        BY <3>2
      <4> QED BY <3>0, <4>2, <4>3
    <3> QED BY <3>3, <3>4
  <2> QED BY <2>4, <2>7, <2>8
<1>2. Holds(n - 1)
  <2>1. n - 1 \in 0 .. n - 1
    OBVIOUS
  <2> HIDE DEF Holds
  <2> QED BY <1>1, <2>1
<1> HIDE DEF Bad
<1>3. n \in 1 .. n /\ n - 1 \in 0 .. n /\ ~(n < i)
  OBVIOUS
<1>4. g[n] = g[n - 1] + p[n] /\ f[n] = f[n - 1] + s[n] /\ p[n] = s[i]
  BY <1>3 DEF SumsTo, Moved
<1>5. f[n] \in Nat /\ f[n - 1] \in Nat /\ g[n - 1] \in Nat /\ s[i] \in Nat
  BY <1>3 DEF SumsTo
<1>6. CASE n - 1 < i
  <2>1. n = i
    BY <1>6
  <2> QED BY <1>2, <1>4, <1>6, <2>1
<1>7. CASE ~(n - 1 < i)
  BY <1>2, <1>4, <1>5, <1>7
<1> QED BY <1>6, <1>7

\* Nothing is lost or counted twice when an entry is promoted.
LEMMA TotalPromote ==
  ASSUME NEW s \in Seq(Nat), NEW i \in 1 .. Len(s)
  PROVE  Total(Promote(s, i)) = Total(s)
<1> DEFINE n == Len(s)  p == Promote(s, i)
<1>1. /\ p \in Seq(Nat) /\ Len(p) = n
      /\ \A k \in 1 .. n : p[k] = IF k < i THEN s[k] ELSE IF k < n THEN s[k + 1] ELSE s[i]
  BY PromoteIsSeq
<1> HIDE DEF p
<1>2. PICK f : Sums(f, s) /\ Total(s) = f[n]
  BY TotalIsLast
<1>3. PICK g : Sums(g, p) /\ Total(p) = g[n]
  BY <1>1, TotalIsLast
<1>4. n \in Nat /\ s \in [1 .. n -> Nat] /\ p \in [1 .. n -> Nat]
  BY <1>1
<1>5. SumsTo(f, s, n) /\ SumsTo(g, p, n)
  BY <1>1, <1>2, <1>3 DEF Sums
<1>6. i \in 1 .. n
  OBVIOUS
<1> HIDE DEF n
<1>7. g[n] = f[n]
  <2>1. Moved(p, s, i, n)
    BY <1>1 DEF Moved
  <2> QED BY <1>4, <1>5, <1>6, <2>1, MovedSums
<1> QED BY <1>2, <1>3, <1>7 DEF p

LEMMA SumsGrow ==
  ASSUME NEW n \in Nat, NEW s \in [1 .. n -> Nat],
         NEW f \in [0 .. n -> Nat], \A k \in 1 .. n : f[k] = f[k - 1] + s[k],
         NEW a \in 0 .. n, NEW b \in a .. n
  PROVE  f[a] <= f[b]
<1> DEFINE Bad == {k \in a .. n : ~(f[a] <= f[k])}  m == Min(Bad)
<1>1. Bad = {}
  <2> SUFFICES ASSUME Bad # {} PROVE FALSE
    OBVIOUS
  <2>1. m \in Bad /\ \A k \in Bad : m <= k
    <3>1. Bad \in SUBSET Nat
      OBVIOUS
    <3> HIDE DEF Bad
    <3> QED BY <3>1, Least
  <2> HIDE DEF m
  <2>2. m \in a .. n /\ ~(f[a] <= f[m])
    BY <2>1
  <2>3. f[a] \in Nat
    OBVIOUS
  <2>4. m # a
    BY <2>2, <2>3
  <2>5. m - 1 \in a .. n /\ m \in 1 .. n /\ m - 1 \in 0 .. n /\ m \in 0 .. n
    BY <2>2, <2>4
  <2>6. f[a] <= f[m - 1]
    <3>1. m - 1 \notin Bad
      <4> HIDE DEF Bad
      <4> QED BY <2>1, <2>5
    <3> QED BY <2>5, <3>1
  <2>7. f[m] = f[m - 1] + s[m] /\ f[m] \in Nat /\ f[m - 1] \in Nat /\ s[m] \in Nat
    BY <2>5
  <2>8. f[a] <= f[m]
    <3>1. f[a] <= f[m - 1] + s[m]
      BY <2>3, <2>6, <2>7, AddMore
    <3> QED BY <2>7, <3>1
  <2> QED BY <2>2, <2>8
<1> QED BY <1>1

\* The positions kept are found in their order.
LEMMA NthIncreases ==
  ASSUME NEW S, NEW s \in Seq(S), NEW K \in SUBSET (1 .. Len(s)), NEW k \in 2 .. Cardinality(K)
  PROVE  Nth(K, k - 1, s) < Nth(K, k, s)
<1> DEFINE n == Len(s)  a == Nth(K, k, s)  Upto(i) == {j \in K : j <= i}
<1>1. n \in Nat /\ IsFiniteSet(K) /\ Cardinality(K) \in Nat
  <2>1. Len(s) \in Nat
    OBVIOUS
  <2> QED BY <2>1, PositionsAreFinite
<1>0. \A j \in K : j \in 1 .. n
  OBVIOUS
<1>2. k \in 1 .. Cardinality(K) /\ k - 1 \in 1 .. Cardinality(K)
  BY <1>1
<1>3. a \in 1 .. n /\ Cardinality(Upto(a)) >= k
  <2>1. a \in 1 .. n
    BY <1>2, NthIsPosition
  <2>2. Cardinality({j \in K : j <= Nth(K, k, s)}) >= k
    BY <1>2, NthIsPosition
  <2> QED BY <2>1, <2>2
<1>4. Nth(K, k - 1, s) \in 1 .. n
      /\ \A i \in 1 .. n : Cardinality(Upto(i)) >= k - 1 => Nth(K, k - 1, s) <= i
  BY <1>2, NthIsPosition
<1> HIDE DEF n, a
<1>5. \A i : IsFiniteSet(Upto(i)) /\ Cardinality(Upto(i)) \in Nat
  <2> TAKE i
  <2>1. Upto(i) \in SUBSET K
    OBVIOUS
  <2> HIDE DEF Upto
  <2> QED BY <1>1, <2>1, FS_Subset, FS_CardinalityType
<1>6. Cardinality(Upto(a - 1)) >= k - 1
  <2>1. Upto(a) \subseteq Upto(a - 1) \cup {a}
    <3>1. \A j \in K : j \in Nat
      BY <1>0
    <3>2. a \in Nat
      BY <1>1, <1>3
    <3>3. \A j \in K : j <= a => j <= a - 1 \/ j = a
      BY <3>1, <3>2
    <3> QED BY <3>3
  <2> HIDE DEF Upto
  <2>2. IsFiniteSet(Upto(a - 1) \cup {a}) /\ Cardinality(Upto(a - 1) \cup {a}) <= Cardinality(Upto(a - 1)) + 1
        /\ Cardinality(Upto(a - 1) \cup {a}) \in Nat
    <3>0. IsFiniteSet(Upto(a - 1)) /\ Cardinality(Upto(a - 1)) \in Nat
      BY <1>5
    <3>1. CASE a \in Upto(a - 1)
      <4>0. Cardinality(Upto(a - 1)) <= Cardinality(Upto(a - 1)) + 1
            /\ Cardinality(Upto(a - 1)) \in Nat /\ IsFiniteSet(Upto(a - 1))
        BY <3>0
      <4>1. Upto(a - 1) \cup {a} = Upto(a - 1)
        BY <3>1
      <4> QED BY <4>0, <4>1
    <3>2. CASE a \notin Upto(a - 1)
      <4>1. IsFiniteSet(Upto(a - 1) \cup {a}) /\ Cardinality(Upto(a - 1) \cup {a}) = Cardinality(Upto(a - 1)) + 1
        BY <3>0, <3>2, FS_AddElement
      <4> QED BY <3>0, <4>1
    <3> QED BY <3>1, <3>2
  <2>3. Cardinality(Upto(a)) <= Cardinality(Upto(a - 1) \cup {a})
    BY <2>1, <2>2, FS_Subset
  <2> QED BY <1>2, <1>3, <1>5, <2>2, <2>3
<1>7. a - 1 \in 1 .. n
  <2> SUFFICES ASSUME a = 1 PROVE FALSE
    BY <1>1, <1>3
  <2>1. Upto(0) = {}
    <3>1. \A j \in K : ~(j <= 0)
      BY <1>0
    <3> QED BY <3>1
  <2>2. Cardinality(Upto(0)) = 0
    BY <2>1, FS_EmptySet
  <2> HIDE DEF Upto
  <2> QED BY <1>2, <1>6, <2>2
<1>8. Nth(K, k - 1, s) <= a - 1
  <2> HIDE DEF Upto
  <2> QED BY <1>4, <1>6, <1>7
<1> QED BY <1>1, <1>3, <1>4, <1>8 DEF a, n

\* What is left of a sequence of sizes has no larger total.
LEMMA TotalWithout ==
  ASSUME NEW s \in Seq(Nat), NEW I
  PROVE  Without(s, I) \in Seq(Nat) /\ Total(Without(s, I)) <= Total(s)
<1> DEFINE n == Len(s)  K == DOMAIN s \ I  w == Without(s, I)  at(k) == Nth(K, k, s)
           c == Cardinality(K)
<1>1. n \in Nat /\ K \in SUBSET (1 .. n) /\ s \in [1 .. n -> Nat]
  OBVIOUS
<1>2. c \in Nat
  BY <1>1, PositionsAreFinite
<1>3. w \in Seq(Nat) /\ Len(w) = c
  BY WithoutIsSeq
<1>4. \A k \in 1 .. c : w[k] = s[at(k)]
  <2>1. w = [k \in 1 .. c |-> s[at(k)]]
    BY DEF Without
  <2> HIDE DEF w, c, at
  <2> QED BY <2>1
<1>5. \A k \in 1 .. c : at(k) \in 1 .. n
  <2> HIDE DEF K
  <2> QED BY <1>1, NthIsPosition
<1>6. \A k \in 2 .. c : at(k - 1) < at(k)
  <2> HIDE DEF K
  <2> QED BY <1>1, NthIncreases
<1> HIDE DEF w, K, c, at
<1>7. PICK f : Sums(f, s) /\ Total(s) = f[n]
  BY TotalIsLast
<1>8. PICK g : Sums(g, w) /\ Total(w) = g[c]
  BY <1>3, TotalIsLast
<1>9. /\ f \in [0 .. n -> Nat] /\ f[0] = 0 /\ \A k \in 1 .. n : f[k] = f[k - 1] + s[k]
      /\ g \in [0 .. c -> Nat] /\ g[0] = 0 /\ \A k \in 1 .. c : g[k] = g[k - 1] + w[k]
  BY <1>3, <1>7, <1>8 DEF Sums, SumsTo
<1> HIDE DEF n
<1> DEFINE Bad == {k \in 1 .. c : ~(g[k] <= f[at(k)])}  m == Min(Bad)
<1>10. Bad = {}
  <2> SUFFICES ASSUME Bad # {} PROVE FALSE
    OBVIOUS
  <2>1. m \in Bad /\ \A k \in Bad : m <= k
    <3>1. Bad \in SUBSET Nat
      BY <1>2
    <3> HIDE DEF Bad
    <3> QED BY <3>1, Least
  <2> HIDE DEF m
  <2>2. m \in 1 .. c /\ ~(g[m] <= f[at(m)])
    BY <2>1
  <2>3. at(m) \in 1 .. n /\ at(m) - 1 \in 0 .. n /\ at(m) \in 0 .. n
    BY <1>1, <1>5, <2>2
  <2>4. /\ g[m] = g[m - 1] + s[at(m)] /\ f[at(m)] = f[at(m) - 1] + s[at(m)]
    BY <1>4, <1>9, <2>2, <2>3
  <2>5. m - 1 \in 0 .. c /\ m \in 0 .. c
    BY <1>2, <2>2
  <2>6. /\ g[m - 1] \in Nat /\ g[m] \in Nat /\ f[at(m)] \in Nat /\ f[at(m) - 1] \in Nat
        /\ s[at(m)] \in Nat
    BY <1>1, <1>9, <2>3, <2>5
  <2>7. g[m - 1] <= f[at(m) - 1]
    <3>1. CASE m = 1
      BY <1>9, <2>6, <3>1
    <3>2. CASE m # 1
      <4>1. m \in 2 .. c /\ m - 1 \in 1 .. c
        BY <1>2, <2>2, <3>2
      <4>2. m - 1 \notin Bad
        <5> HIDE DEF Bad
        <5> QED BY <2>1, <4>1
      <4>3. g[m - 1] <= f[at(m - 1)]
        BY <4>1, <4>2
      <4>4. at(m - 1) \in 1 .. n /\ at(m - 1) < at(m)
        BY <1>5, <1>6, <4>1
      <4>5. at(m - 1) \in 0 .. n /\ at(m) - 1 \in at(m - 1) .. n
        BY <1>1, <2>3, <4>4
      <4>6. f[at(m - 1)] <= f[at(m) - 1]
        BY <1>1, <1>9, <4>5, SumsGrow
      <4>7. f[at(m - 1)] \in Nat
        BY <1>9, <4>5
      <4> QED BY <2>6, <4>3, <4>6, <4>7
    <3> QED BY <3>1, <3>2
  <2> QED BY <2>2, <2>4, <2>6, <2>7
<1>11. g[c] <= f[n]
  <2>1. CASE c = 0
    <3>1. n \in 0 .. n
      BY <1>1
    <3> QED BY <1>9, <2>1, <3>1
  <2>2. CASE c # 0
    <3>1. c \in 1 .. c /\ c \in 0 .. c
      BY <1>2, <2>2
    <3>2. g[c] <= f[at(c)]
      BY <1>10, <3>1
    <3>3. at(c) \in 1 .. n /\ at(c) \in 0 .. n /\ n \in at(c) .. n /\ n \in 0 .. n
      BY <1>1, <1>5, <3>1
    <3>4. f[at(c)] <= f[n]
      BY <1>1, <1>9, <3>3, SumsGrow
    <3>5. g[c] \in Nat /\ f[at(c)] \in Nat /\ f[n] \in Nat
      BY <1>9, <3>1, <3>3
    <3> QED BY <3>2, <3>4, <3>5
  <2> QED BY <2>1, <2>2
<1> QED BY <1>3, <1>7, <1>8, <1>11 DEF w

LEMMA OwnShape ==
  ASSUME NEW xs \in Seq(Good)
  PROVE  /\ Own(xs) \in Seq(Nat) /\ Len(Own(xs)) = Len(xs) /\ DOMAIN Own(xs) = DOMAIN xs
         /\ \A i \in 1 .. Len(xs) : Own(xs)[i] = EntrySize(xs[i]) /\ xs[i] \in Good
<1>1. \A x \in Good : EntrySize(x) \in Nat
  <2> TAKE x \in Good
  <2>1. x.output.text \in Texts
    BY GoodEntries
  <2> QED BY <2>1, ConstantsAssumption DEF EntrySize
<1>2. DOMAIN xs = 1 .. Len(xs) /\ Len(xs) \in Nat /\ \A i \in 1 .. Len(xs) : xs[i] \in Good
  OBVIOUS
<1>3. Own(xs) \in [1 .. Len(xs) -> Nat]
  BY <1>1, <1>2 DEF Own
<1>4. \A i \in 1 .. Len(xs) : Own(xs)[i] = EntrySize(xs[i])
  BY <1>2 DEF Own
<1> QED BY <1>2, <1>3, <1>4

LEMMA SameSequence ==
  ASSUME NEW S, NEW a \in Seq(S), NEW b \in Seq(S), Len(a) = Len(b),
         \A i \in 1 .. Len(a) : a[i] = b[i]
  PROVE  a = b
  OBVIOUS

LEMMA EnsureOwn ==
  ASSUME NEW xs \in Seq(Good), NEW ss \in {<<>>, Own(xs)}
  PROVE  EnsureSizes(xs, ss) = Own(xs)
<1>1. CASE Len(ss) = Len(xs) /\ ss = <<>>
  <2>1. Len(xs) = 0
    BY <1>1
  <2>2. Own(xs) = <<>>
    <3>1. Own(xs) \in Seq(Nat) /\ Len(Own(xs)) = 0
      BY <2>1, OwnShape
    <3> QED BY <3>1, EmptySeq
  <2> QED BY <1>1, <2>2 DEF EnsureSizes
<1>2. CASE Len(ss) # Len(xs)
  BY <1>2 DEF EnsureSizes, Own
<1> QED BY <1>1, <1>2 DEF EnsureSizes

LEMMA OwnDrop ==
  ASSUME NEW xs \in Seq(Good), NEW n \in 0 .. Len(xs)
  PROVE  Drop(Own(xs), n) = Own(Drop(xs, n))
<1> DEFINE ys == Drop(xs, n)  s == Own(xs)
<1>1. s \in Seq(Nat) /\ Len(s) = Len(xs) /\ \A i \in 1 .. Len(xs) : s[i] = EntrySize(xs[i])
  BY OwnShape
<1>2. ys \in Seq(Good) /\ Len(ys) = Len(xs) - n /\ \A i \in 1 .. Len(xs) - n : ys[i] = xs[i + n]
  BY DropIsSeq
<1> HIDE DEF ys, s
<1>3. /\ Own(ys) \in Seq(Nat) /\ Len(Own(ys)) = Len(xs) - n
      /\ \A i \in 1 .. Len(xs) - n : Own(ys)[i] = EntrySize(xs[i + n])
  BY <1>2, OwnShape
<1>4. /\ Drop(s, n) \in Seq(Nat) /\ Len(Drop(s, n)) = Len(xs) - n
      /\ \A i \in 1 .. Len(xs) - n : Drop(s, n)[i] = s[i + n]
  BY <1>1, DropIsSeq
<1>5. \A i \in 1 .. Len(xs) - n : i + n \in 1 .. Len(xs)
  OBVIOUS
<1>6. Drop(s, n) = Own(ys)
  BY <1>1, <1>3, <1>4, <1>5, SameSequence
<1> QED BY <1>6 DEF ys, s

LEMMA OwnPromote ==
  ASSUME NEW xs \in Seq(Good), NEW i \in 1 .. Len(xs)
  PROVE  Promote(Own(xs), i) = Own(Promote(xs, i))
<1> DEFINE ys == Promote(xs, i)  s == Own(xs)
           Moves(p, r) == \A k \in 1 .. Len(xs) :
              p[k] = IF k < i THEN r[k] ELSE IF k < Len(xs) THEN r[k + 1] ELSE r[i]
<1>1. s \in Seq(Nat) /\ Len(s) = Len(xs) /\ \A k \in 1 .. Len(xs) : s[k] = EntrySize(xs[k])
  BY OwnShape
<1>2. ys \in Seq(Good) /\ Len(ys) = Len(xs) /\ Moves(ys, xs)
  BY PromoteIsSeq
<1> HIDE DEF ys, s
<1>3. /\ Own(ys) \in Seq(Nat) /\ Len(Own(ys)) = Len(xs)
      /\ \A k \in 1 .. Len(xs) : Own(ys)[k] = EntrySize(ys[k])
  BY <1>2, OwnShape
<1>4. Promote(s, i) \in Seq(Nat) /\ Len(Promote(s, i)) = Len(xs) /\ Moves(Promote(s, i), s)
  BY <1>1, PromoteIsSeq
<1>5. \A k \in 1 .. Len(xs) : Promote(s, i)[k] = Own(ys)[k]
  <2> TAKE k \in 1 .. Len(xs)
  <2>1. k < Len(xs) => k + 1 \in 1 .. Len(xs)
    OBVIOUS
  <2>2. CASE k < i
    BY <1>1, <1>2, <1>3, <1>4, <2>2
  <2>3. CASE ~(k < i) /\ k < Len(xs)
    BY <1>1, <1>2, <1>3, <1>4, <2>1, <2>3
  <2>4. CASE ~(k < i) /\ ~(k < Len(xs))
    BY <1>1, <1>2, <1>3, <1>4, <2>4
  <2> QED BY <2>2, <2>3, <2>4
<1> HIDE DEF Moves
<1>6. Promote(s, i) = Own(ys)
  BY <1>3, <1>4, <1>5, SameSequence
<1> QED BY <1>6 DEF ys, s

LEMMA OwnWithout ==
  ASSUME NEW xs \in Seq(Good), NEW I
  PROVE  Without(Own(xs), I) = Own(Without(xs, I))
<1> DEFINE K == DOMAIN xs \ I  s == Own(xs)  c == Cardinality(K)
<1>1. s \in Seq(Nat) /\ DOMAIN s = DOMAIN xs /\ \A k \in 1 .. Len(xs) : s[k] = EntrySize(xs[k])
  BY OwnShape
<1> HIDE DEF s
<1>2. \A k : Nth(K, k, s) = Nth(K, k, xs)
  BY <1>1 DEF Nth
<1>3. K \in SUBSET (1 .. Len(xs))
  OBVIOUS
<1>4. \A k \in 1 .. c : Nth(K, k, xs) \in 1 .. Len(xs)
  <2> HIDE DEF K
  <2> QED BY <1>3, NthIsPosition
<1>5. Without(s, I) = [k \in 1 .. c |-> s[Nth(K, k, xs)]]
  BY <1>1, <1>2 DEF Without
<1>6. Without(xs, I) = [k \in 1 .. c |-> xs[Nth(K, k, xs)]]
  BY DEF Without
<1>7. DOMAIN Without(xs, I) = 1 .. c
      /\ \A k \in 1 .. c : Without(xs, I)[k] = xs[Nth(K, k, xs)]
  <2> HIDE DEF c, K
  <2> QED BY <1>6
<1>8. \A k \in 1 .. c : s[Nth(K, k, xs)] = EntrySize(Without(xs, I)[k])
  <2> HIDE DEF c, K
  <2> QED BY <1>1, <1>4, <1>7
<1>9. Own(Without(xs, I)) = [k \in 1 .. c |-> s[Nth(K, k, xs)]]
  <2> HIDE DEF c, K
  <2> QED BY <1>7, <1>8 DEF Own
<1> QED BY <1>5, <1>9 DEF s

LEMMA OwnAppend ==
  ASSUME NEW xs \in Seq(Good), NEW x \in Good
  PROVE  /\ Append(xs, x) \in Seq(Good)
         /\ Own(Append(xs, x)) = Append(Own(xs), EntrySize(x))
<1> DEFINE ys == Append(xs, x)  s == Own(xs)  n == Len(xs)
<1>0. ys \in Seq(Good) /\ Len(ys) = n + 1 /\ n \in Nat
      /\ \A k \in 1 .. n + 1 : ys[k] = IF k = n + 1 THEN x ELSE xs[k]
  OBVIOUS
<1>1. s \in Seq(Nat) /\ Len(s) = n /\ \A k \in 1 .. n : s[k] = EntrySize(xs[k])
  BY OwnShape
<1> HIDE DEF ys, s
<1>2. /\ Own(ys) \in Seq(Nat) /\ Len(Own(ys)) = n + 1
      /\ \A k \in 1 .. n + 1 : Own(ys)[k] = EntrySize(ys[k])
  BY <1>0, OwnShape
<1> DEFINE z == EntrySize(x)
<1>3. z \in Nat
  <2>1. n + 1 \in 1 .. n + 1
    BY <1>0
  <2>2. Own(ys)[n + 1] \in Nat /\ ys[n + 1] = x
    BY <1>0, <1>2, <2>1
  <2> QED BY <1>2, <2>1, <2>2
<1> HIDE DEF z
<1>4. /\ Append(s, z) \in Seq(Nat) /\ Len(Append(s, z)) = n + 1
      /\ \A k \in 1 .. n + 1 : Append(s, z)[k] = IF k = n + 1 THEN z ELSE s[k]
  BY <1>1, <1>3
<1> HIDE DEF n
<1>5. \A k \in 1 .. n + 1 : Own(ys)[k] = Append(s, z)[k]
  <2> TAKE k \in 1 .. n + 1
  <2>1. k = n + 1 \/ k \in 1 .. n
    BY <1>0
  <2>2. CASE k = n + 1
    BY <1>0, <1>2, <1>4, <2>2 DEF z
  <2>3. CASE k \in 1 .. n
    <3>1. k # n + 1
      BY <1>0, <2>3
    <3> QED BY <1>0, <1>1, <1>2, <1>4, <2>3, <3>1
  <2> QED BY <2>1, <2>2, <2>3
<1>6. Own(ys) = Append(s, z)
  BY <1>2, <1>4, <1>5, SameSequence
<1> QED BY <1>0, <1>6 DEF ys, s, z

\* The entries and their sizes within both limits.
Bounded(c) ==
    /\ c.entries \in Seq(Good) /\ c.sizes = Own(c.entries)
    /\ Len(c.entries) <= MaxEntries /\ Total(c.sizes) <= MaxBytes

LEMMA TrimIsBounded ==
  ASSUME NEW xs \in Seq(Good), NEW ss \in {<<>>, Own(xs)}
  PROVE  Bounded(Trim(xs, ss))
<1> DEFINE excess == IF Len(xs) > MaxEntries THEN Len(xs) - MaxEntries ELSE 0
           ys == Drop(xs, excess)
           rs == IF excess > 0 THEN DrainedSizes(xs, ss, excess) ELSE ss
           ts == EnsureSizes(ys, rs)
           N == {k \in 0 .. Len(ys) : Total(Drop(ts, k)) <= MaxBytes}
           n == Min(N)
<1>1. excess \in 0 .. Len(xs) /\ Len(xs) - excess <= MaxEntries
  BY ConstantsAssumption
<1>2. /\ ys \in Seq(Good) /\ Len(ys) <= MaxEntries /\ Len(ys) \in Nat
      /\ excess = 0 => ys = xs
  <2> HIDE DEF excess
  <2>1. ys \in Seq(Good) /\ Len(ys) = Len(xs) - excess
    BY <1>1, DropIsSeq
  <2>2. excess = 0 => ys = xs
    BY <1>1, DropIsSeq, SameSequence
  <2> QED BY <1>1, <2>1, <2>2
<1> HIDE DEF excess
<1>3. rs \in {<<>>, Own(ys)}
  <2>1. CASE excess > 0
    <3>1. CASE ss = Own(xs)
      <4>1. rs = Drop(ss, excess)
        BY <2>1, <3>1, OwnShape DEF DrainedSizes
      <4> QED BY <1>1, <3>1, <4>1, OwnDrop
    <3>2. CASE ss = <<>>
      <4>1. Len(ss) = 0
        BY <3>2
      <4>2. Len(xs) # 0
        BY <1>1, <2>1
      <4>3. rs = <<>>
        BY <2>1, <4>1, <4>2 DEF DrainedSizes
      <4> QED BY <4>3
    <3> QED BY <3>1, <3>2
  <2>2. CASE ~(excess > 0)
    <3>1. excess = 0
      BY <1>1, <2>2
    <3> QED BY <1>2, <2>2, <3>1
  <2> QED BY <2>1, <2>2
<1> HIDE DEF ys, rs
<1>4. ts = Own(ys)
  BY <1>2, <1>3, EnsureOwn
<1> HIDE DEF ts
<1>5. n \in 0 .. Len(ys) /\ Total(Drop(ts, n)) <= MaxBytes
  <2>1. N \in SUBSET Nat
    OBVIOUS
  <2>2. Len(ys) \in N
    <3>1. Len(ys) \in 0 .. Len(ys)
      BY <1>2
    <3>2. ts \in Seq(Nat) /\ Len(ts) = Len(ys)
      BY <1>2, <1>4, OwnShape
    <3>3. Drop(ts, Len(ys)) \in Seq(Nat) /\ Len(Drop(ts, Len(ys))) = 0
      BY <1>2, <3>1, <3>2, DropIsSeq
    <3>4. Drop(ts, Len(ys)) = <<>>
      BY <3>3, EmptySeq
    <3>5. Total(Drop(ts, Len(ys))) <= MaxBytes
      BY <3>4, TotalEmpty, ConstantsAssumption
    <3> QED BY <3>1, <3>5
  <2>3. n \in N
    <3> HIDE DEF N
    <3> QED BY <2>1, <2>2, Least
  <2> HIDE DEF n
  <2> QED BY <2>3
<1> HIDE DEF N, n
<1> DEFINE zs == Drop(ys, n)  us == Drop(ts, n)
<1>6. zs \in Seq(Good) /\ Len(zs) <= MaxEntries
  <2>1. zs \in Seq(Good) /\ Len(zs) = Len(ys) - n
    BY <1>2, <1>5, DropIsSeq
  <2> HIDE DEF zs
  <2> QED BY <1>2, <1>5, <2>1, ConstantsAssumption
<1>7. us = Own(zs)
  BY <1>2, <1>4, <1>5, OwnDrop
<1>8. Total(us) <= MaxBytes
  BY <1>5
<1> HIDE DEF zs, us
<1>9. Trim(xs, ss) = [entries |-> zs, sizes |-> us, removed |-> excess + n]
  BY DEF Trim, zs, us, n, N, ts, rs, ys, excess
<1>10. Trim(xs, ss).entries = zs /\ Trim(xs, ss).sizes = us
  BY <1>9
<1> QED BY <1>6, <1>7, <1>8, <1>10 DEF Bounded

LEMMA RejectedIsBounded ==
  ASSUME NEW c, Bounded(c), NEW I
  PROVE  Bounded(Rejected(c, I))
<1> DEFINE r == Rejected(c, I)  xs == c.entries
<1>1. r.entries = Without(xs, I) /\ r.sizes = Without(c.sizes, I)
  BY DEF Rejected
<1>2. xs \in Seq(Good) /\ c.sizes = Own(xs) /\ Len(xs) <= MaxEntries /\ Total(c.sizes) <= MaxBytes
  BY DEF Bounded
<1> HIDE DEF r, xs
<1>3. r.entries \in Seq(Good) /\ Len(r.entries) = Cardinality(DOMAIN xs \ I)
  BY <1>1, <1>2, WithoutIsSeq
<1>4. Len(xs) \in Nat /\ DOMAIN xs \ I \in SUBSET (1 .. Len(xs))
  BY <1>2
<1>5. Cardinality(DOMAIN xs \ I) <= Len(xs) /\ Cardinality(DOMAIN xs \ I) \in Nat
  BY <1>4, PositionsAreFinite
<1>6. Len(r.entries) <= MaxEntries
  BY <1>2, <1>3, <1>4, <1>5, ConstantsAssumption
<1>7. r.sizes = Own(r.entries)
  BY <1>1, <1>2, OwnWithout
<1>8. Total(r.sizes) <= MaxBytes
  <2>1. c.sizes \in Seq(Nat)
    BY <1>2, OwnShape
  <2>2. r.sizes \in Seq(Nat) /\ Total(r.sizes) <= Total(c.sizes)
    BY <1>1, <2>1, TotalWithout
  <2>3. Total(r.sizes) \in Nat /\ Total(c.sizes) \in Nat
    BY <2>1, <2>2, TotalIsNat
  <2> QED BY <1>2, <2>2, <2>3, ConstantsAssumption
<1>9. Bounded(r)
  BY <1>3, <1>6, <1>7, <1>8 DEF Bounded
<1> QED BY <1>9 DEF r

LEMMA PromoteIsBounded ==
  ASSUME NEW c, Bounded(c), NEW i \in DOMAIN c.entries
  PROVE  /\ Promote(c.entries, i) \in Seq(Good)
         /\ Promote(c.sizes, i) = Own(Promote(c.entries, i))
         /\ Len(Promote(c.entries, i)) <= MaxEntries
         /\ Total(Promote(c.sizes, i)) <= MaxBytes
<1> DEFINE xs == c.entries
<1>1. xs \in Seq(Good) /\ c.sizes = Own(xs) /\ Len(xs) <= MaxEntries /\ Total(c.sizes) <= MaxBytes
  BY DEF Bounded
<1>2. i \in 1 .. Len(xs)
  BY <1>1
<1> HIDE DEF xs
<1>3. Promote(xs, i) \in Seq(Good) /\ Len(Promote(xs, i)) = Len(xs)
  BY <1>1, <1>2, PromoteIsSeq
<1>4. Promote(c.sizes, i) = Own(Promote(xs, i))
  BY <1>1, <1>2, OwnPromote
<1>5. c.sizes \in Seq(Nat) /\ i \in 1 .. Len(c.sizes)
  BY <1>1, <1>2, OwnShape
<1>6. Total(Promote(c.sizes, i)) = Total(c.sizes)
  BY <1>5, TotalPromote
<1> QED BY <1>1, <1>3, <1>4, <1>6 DEF xs

-----------------------------------------------------------------------------
(* A call *)

LEMMA NewEntryIsGood ==
  ASSUME NEW e \in Envelopes, version \in Versions
  PROVE  /\ NewEntry(e) \in Good
         /\ Publishable(e) => EntrySize(NewEntry(e)) = SizeOf[Text[e]]
<1>1. NewEntry(e) \in Good
  BY DEF NewEntry, Genuine, Good
<1>2. NewEntry(e).output = Parse(e, version)
  BY DEF NewEntry, EntryOf
<1>3. NewEntry(e).output.text = Text[e]
  BY <1>2, ParseShape
<1>4. Publishable(e) => EntrySize(NewEntry(e)) = SizeOf[Text[e]]
  BY <1>3 DEF Publishable, EntrySize
<1> QED BY <1>1, <1>4

LEMMA PublishedIsBounded ==
  ASSUME NEW c, Bounded(c), NEW e \in Envelopes, version \in Versions, Publishable(e)
  PROVE  Bounded(Published(c, e))
<1>1. c.entries \in Seq(Good) /\ c.sizes = Own(c.entries)
  BY DEF Bounded
<1>2. EnsureSizes(c.entries, c.sizes) = Own(c.entries)
  BY <1>1, EnsureOwn
<1> DEFINE x == NewEntry(e)
<1>3. x \in Good /\ EntrySize(x) = SizeOf[Text[e]]
  BY NewEntryIsGood
<1> HIDE DEF x
<1>4. /\ Append(c.entries, x) \in Seq(Good)
      /\ Own(Append(c.entries, x)) = Append(Own(c.entries), SizeOf[Text[e]])
  BY <1>1, <1>3, OwnAppend
<1>5. Bounded(Trim(Append(c.entries, x), Own(Append(c.entries, x))))
  BY <1>4, TrimIsBounded
<1>6. Published(c, e) = Trim(Append(c.entries, x), Own(Append(c.entries, x)))
  BY <1>2, <1>4 DEF Published, x
<1> QED BY <1>5, <1>6

LEMMA OpenedIsBounded ==
  ASSUME Kept
  PROVE  Bounded(Opened)
<1>1. <<>> \in Seq(Good) /\ entries \in Seq(Good) /\ sizes \in {<<>>, Own(entries)}
  BY DEF Kept
<1> DEFINE t == IF schema # version THEN Trim(<<>>, <<>>) ELSE Trim(entries, sizes)
<1>2. Bounded(t)
  <2>1. Bounded(Trim(<<>>, <<>>))
    BY <1>1, TrimIsBounded
  <2>2. Bounded(Trim(entries, sizes))
    BY <1>1, TrimIsBounded
  <2> QED BY <2>1, <2>2
<1>3. Opened.entries = t.entries /\ Opened.sizes = t.sizes
  BY DEF Opened
<1> HIDE DEF t
<1> QED BY <1>2, <1>3 DEF Bounded

LEMMA ResultShape ==
  ASSUME NEW e, NEW out, NEW how, NEW c, NEW published
  PROVE  /\ Result(e, out, how, c, published).env = e
         /\ Result(e, out, how, c, published).version = version
         /\ Result(e, out, how, c, published).out = out
  BY DEF Result

\* A call that leaves entries within the limits and answers with what the
\* parser returns.
LEMMA AnsweredCall ==
  ASSUME Kept, NEW c, Bounded(c), NEW e \in Envelopes, NEW how, NEW d, NEW published,
         entries' = c.entries, sizes' = c.sizes, schema' = version, version' = version,
         answer' = Result(e, Parse(e, version), how, d, published)
  PROVE  IndInv'
<1>1. Kept'
  BY DEF Kept, Bounded
<1>2. Transparent'
  BY ResultShape DEF Transparent
<1>3. WithinLimits'
  BY DEF WithinLimits, Bounded
<1> QED BY <1>1, <1>2, <1>3 DEF IndInv

\* Reusing an entry within the limits that holds what the parser returns.
LEMMA ReusedCall ==
  ASSUME Kept, NEW c, Bounded(c), NEW e \in Envelopes, NEW i \in DOMAIN c.entries,
         NEW how, Reuse(e, c, i, Parse(e, version), how)
  PROVE  IndInv'
<1> DEFINE b == [entries |-> Promote(c.entries, i), sizes |-> Promote(c.sizes, i)]
<1>1. Bounded(b)
  <2>1. b.entries = Promote(c.entries, i) /\ b.sizes = Promote(c.sizes, i)
    OBVIOUS
  <2> HIDE DEF b
  <2> QED BY <2>1, PromoteIsBounded DEF Bounded
<1>2. entries' = b.entries /\ sizes' = b.sizes /\ schema' = version /\ version' = version
      /\ answer' = Result(e, Parse(e, version), how, c, 0)
  BY DEF Reuse
<1> HIDE DEF b
<1> QED BY <1>1, <1>2, AnsweredCall

LEMMA CallKeeps ==
  ASSUME IndInv, ParseCall
  PROVE  IndInv'
<1>0. Kept /\ version \in Versions
  BY DEF IndInv, Kept
<1> DEFINE c0 == Opened
<1>1. Bounded(c0)
  BY <1>0, OpenedIsBounded
<1> HIDE DEF c0
<1>2. PICK e \in Envelopes : ReuseExact(c0, e) \/ ReuseTokens(c0, e) \/ ParseFresh(c0, e)
  BY DEF ParseCall, c0
<1>3. \A c : Bounded(c) => c.entries \in Seq(Good)
  BY DEF Bounded
<1>4. CASE ReuseExact(c0, e)
  <2>1. PICK i \in Exact(c0, e) :
           Reuse(e, c0, i, [c0.entries[i].output EXCEPT !.id = e], "exact")
    BY <1>4 DEF ReuseExact
  <2>2. EntryMatches(c0.entries[i], e)
    BY <1>4, <2>1 DEF ReuseExact, ExactHit
  <2>3. i \in DOMAIN c0.entries
    BY <2>1 DEF Exact
  <2>4. c0.entries[i] \in Good
    BY <1>1, <1>3, <2>3
  <2>5. [c0.entries[i].output EXCEPT !.id = e] = Parse(e, version)
    BY <2>2, <2>4, ExactIsTransparent
  <2>6. Reuse(e, c0, i, Parse(e, version), "exact")
    BY <2>1, <2>5
  <2> QED BY <1>0, <1>1, <2>3, <2>6, ReusedCall
<1>5. CASE ReuseTokens(c0, e)
  <2> DEFINE c == Rejected(c0, Exact(c0, e))
  <2>1. Bounded(c)
    BY <1>1, RejectedIsBounded
  <2> HIDE DEF c
  <2>2. PICK i \in Candidates(c, e) :
           TokenHit(c, e) /\ Reuse(e, c, i, Rebase(c.entries[i].output, e), "tokens")
    BY <1>5 DEF ReuseTokens, c
  <2>3. EntryMatchesTokens(c.entries[i], e)
    BY <2>2 DEF TokenHit
  <2>4. i \in DOMAIN c.entries /\ Text[e] \in Clean
    BY <2>2 DEF Candidates
  <2>5. c.entries[i] \in Good
    BY <1>3, <2>1, <2>4
  <2>6. Rebase(c.entries[i].output, e) = Parse(e, version)
    BY <2>3, <2>4, <2>5, TokensAreTransparent
  <2>7. Reuse(e, c, i, Parse(e, version), "tokens")
    BY <2>2, <2>6
  <2> QED BY <1>0, <2>1, <2>4, <2>7, ReusedCall
<1>6. CASE ParseFresh(c0, e)
  <2> DEFINE c1 == Rejected(c0, Exact(c0, e))  c2 == Rejected(c1, Candidates(c1, e))
  <2>1. Bounded(c1)
    BY <1>1, RejectedIsBounded
  <2>2. Bounded(c2)
    <3> HIDE DEF c1
    <3> QED BY <2>1, RejectedIsBounded
  <2> DEFINE Publish ==
               /\ Publishable(e)
               /\ \E t \in {Published(c2, e)} :
                     /\ entries' = t.entries /\ sizes' = t.sizes
                     /\ answer' = Result(e, Parse(e, version), "parsed",
                                         [c2 EXCEPT !.evicted = c2.evicted + t.removed],
                                         IF \E i \in DOMAIN t.entries :
                                               t.entries[i].key = NewEntry(e).key
                                         THEN 1 ELSE 0)
             Keep ==
               /\ ~Publishable(e)
               /\ entries' = c2.entries /\ sizes' = c2.sizes
               /\ answer' = Result(e, Parse(e, version), "parsed", c2, 0)
  <2>3. (Publish \/ Keep) /\ schema' = version /\ version' = version
    BY <1>6 DEF ParseFresh
  <2> HIDE DEF c1, c2
  <2>4. CASE Publish
    <3> DEFINE t == Published(c2, e)
    <3>1. Bounded(t)
      BY <1>0, <2>2, <2>4, PublishedIsBounded
    <3>2. entries' = t.entries /\ sizes' = t.sizes
          /\ answer' = Result(e, Parse(e, version), "parsed",
                              [c2 EXCEPT !.evicted = c2.evicted + t.removed],
                              IF \E i \in DOMAIN t.entries : t.entries[i].key = NewEntry(e).key
                              THEN 1 ELSE 0)
      BY <2>4
    <3> HIDE DEF t, Publish, Keep
    <3> QED BY <1>0, <2>3, <3>1, <3>2, AnsweredCall
  <2>5. CASE Keep
    BY <1>0, <2>2, <2>3, <2>5, AnsweredCall
  <2> HIDE DEF Publish, Keep
  <2> QED BY <2>3, <2>4, <2>5
<1> QED BY <1>2, <1>4, <1>5, <1>6

\* The file: the sizes and, but for a restart, the answer are gone.
LEMMA FileKeeps ==
  ASSUME IndInv,
         \/ Restart
         \/ \E v \in Versions : Upgrade(v)
         \/ \E i \in DOMAIN entries : Damage(i) \/ Duplicate(i)
  PROVE  IndInv'
<1>0. Kept /\ entries \in Seq(Good) /\ DOMAIN entries = 1 .. Len(entries)
  BY DEF IndInv, Kept
<1>1. CASE Restart
  BY <1>1 DEF Restart, IndInv, Kept, Transparent, WithinLimits, Answered
<1> SUFFICES ASSUME ~Restart PROVE IndInv'
  BY <1>1
<1>2. sizes' = <<>> /\ ~Answered'
  BY DEF Upgrade, Damage, Duplicate, Answered
<1>3. version' \in Versions /\ schema' \in Versions
  BY <1>0 DEF Upgrade, Damage, Duplicate, Kept
<1>4. entries' \in Seq(Good)
  <2>1. CASE \E v \in Versions : Upgrade(v)
    BY <1>0, <2>1 DEF Upgrade
  <2>2. CASE \E i \in DOMAIN entries : Damage(i)
    <3>1. PICK i \in DOMAIN entries : Damage(i)
      BY <2>2
    <3>2. PICK y \in Damaged(entries[i]) :
             entries' = [entries EXCEPT ![i] = [y EXCEPT !.damaged = TRUE]]
      BY <3>1 DEF Damage
    <3>3. entries[i] \in Good /\ ~entries[i].damaged
      BY <1>0, <3>1 DEF Damage
    <3> DEFINE z == [y EXCEPT !.damaged = TRUE]
    <3>4. z \in Good
      BY <3>2, <3>3, DamagedIsGood
    <3> HIDE DEF z
    <3>5. entries' = [entries EXCEPT ![i] = z]
      BY <3>2 DEF z
    <3> QED BY <1>0, <3>4, <3>5
  <2>3. CASE \E i \in DOMAIN entries : Duplicate(i)
    <3>1. PICK i \in DOMAIN entries : Duplicate(i)
      BY <2>3
    <3>2. entries[i] \in Good /\ entries' = <<entries[i]>> \o entries
      BY <1>0, <3>1 DEF Duplicate, Cons
    <3>3. <<entries[i]>> \in Seq(Good)
      BY <3>2
    <3> QED BY <1>0, <3>2, <3>3, ConcatProperties
  <2> QED BY <2>1, <2>2, <2>3
<1> QED BY <1>2, <1>3, <1>4 DEF IndInv, Kept, Transparent, WithinLimits

\* The invariant: what the file can hold, and what a call has answered.
THEOREM IndInvHolds == Spec => []IndInv
<1>1. Init => IndInv
  <2> SUFFICES ASSUME Init PROVE IndInv
    OBVIOUS
  <2>1. <<>> \in Seq(Good)
    OBVIOUS
  <2> QED BY <2>1 DEF Init, IndInv, Kept, Transparent, WithinLimits, Answered
<1>2. IndInv /\ [Next]_vars => IndInv'
  <2> SUFFICES ASSUME IndInv, [Next]_vars PROVE IndInv'
    OBVIOUS
  <2>1. CASE ParseCall
    BY <2>1, CallKeeps
  <2>2. CASE \/ Restart
             \/ \E v \in Versions : Upgrade(v)
             \/ \E i \in DOMAIN entries : Damage(i) \/ Duplicate(i)
    BY <2>2, FileKeeps
  <2>3. CASE UNCHANGED vars
    BY <2>3 DEF vars, IndInv, Kept, Transparent, WithinLimits, Answered
  <2> QED BY <2>1, <2>2, <2>3 DEF Next
<1> QED BY <1>1, <1>2, PTL DEF Spec

\* parse() is transparent: of whatever the cache holds, what it returns is what
\* the running parser returns for this envelope (source_parse_cache.rs, parse).
THEOREM Transparency == Spec => []Transparent
<1>1. IndInv => Transparent
  BY DEF IndInv
<1> QED BY <1>1, IndInvHolds, PTL

\* After every call the entries are within max_entries and, counted by their own
\* sizes, within max_bytes (trim_bounded and the aligned entry_sizes).
THEOREM Limits == Spec => []WithinLimits
<1>1. IndInv => WithinLimits
  BY DEF IndInv
<1> QED BY <1>1, IndInvHolds, PTL
=============================================================================

-------------------------- MODULE FsResourceProofs --------------------------
(***************************************************************************)
(* The properties of FsResource for every set of paths of any length,      *)
(* every set of calls, every bound, and any order of the steps of the call,*)
(* of the other process and of the power supply.                           *)
(*                                                                         *)
(* BarrierIsDurable is not inductive: what survives a loss of power is what*)
(* is on the medium, of the file, of its name and of every directory above *)
(* it (OnMedium); the ones that a barrier syncs it takes from the tree, in *)
(* which what lies above an entry is a directory (Whole, of which          *)
(* NoEntryIsOrphaned is the first step).  That in turn depends on where a  *)
(* call works (GoodCall): on the path of an entry of its own listing, which*)
(* the index names because sorting distinct paths numbers them without a   *)
(* gap (EveryIndexNamesAnEntry), and because a walk, which has listed      *)
(* nothing below a directory it still has to read, lists each path once    *)
(* (WalkGood).  IntentIsExact needs no history: it holds of every tree     *)
(* without orphans (WholeTreesIntend).                                     *)
(***************************************************************************)
EXTENDS FsResource, FiniteSetTheorems, SequenceTheorems, TLAPS

(* Paths *)

\* The first k names of a path.
LEMMA PrefixFacts ==
  ASSUME NEW p \in Seq(Nat), NEW k \in Nat, k <= Len(p)
  PROVE  /\ SubSeq(p, 1, k) \in Seq(Nat) /\ Len(SubSeq(p, 1, k)) = k
         /\ \A j \in 1 .. k : SubSeq(p, 1, k)[j] = p[j]
  <1>1. \A j \in 1 .. k : p[j] \in Nat
    BY ElementOfSeq
  <1>2. /\ SubSeq(p, 1, k) \in Seq(Nat)
        /\ Len(SubSeq(p, 1, k)) = IF 1 <= k THEN k - 1 + 1 ELSE 0
        /\ \A j \in 1 .. k - 1 + 1 : SubSeq(p, 1, k)[j] = p[1 + j - 1]
    BY <1>1, SubSeqProperties
  <1> QED BY <1>2

\* A path is below the directories whose names it begins with.
LEMMA BelowMeans ==
  ASSUME NEW d \in Seq(Nat), NEW p \in Seq(Nat)
  PROVE  Below(d, p) <=> Len(d) < Len(p) /\ \A j \in 1 .. Len(d) : p[j] = d[j]
  <1>1. Len(d) \in Nat /\ Len(p) \in Nat
    OBVIOUS
  <1>2. CASE Len(d) < Len(p)
    <2>1. /\ SubSeq(p, 1, Len(d)) \in Seq(Nat) /\ Len(SubSeq(p, 1, Len(d))) = Len(d)
          /\ \A j \in 1 .. Len(d) : SubSeq(p, 1, Len(d))[j] = p[j]
      BY <1>1, <1>2, PrefixFacts
    <2>2. SubSeq(p, 1, Len(d)) = d <=> \A j \in 1 .. Len(d) : p[j] = d[j]
      BY <2>1, SeqEqual
    <2> QED BY <1>1, <1>2, <2>2 DEF Below
  <1>3. CASE ~(Len(d) < Len(p))
    BY <1>1, <1>3 DEF Below
  <1> QED BY <1>2, <1>3

\* The directory of a path is the path without its last name.
LEMMA ParentFacts ==
  ASSUME NEW p \in Seq(Nat), p # Root
  PROVE  /\ Len(p) \in Nat /\ Len(p) >= 1
         /\ Parent(p) \in Seq(Nat) /\ Len(Parent(p)) = Len(p) - 1
         /\ \A j \in 1 .. (Len(p) - 1) : Parent(p)[j] = p[j]
         /\ Parent(p) # p /\ Below(Parent(p), p)
  <1>1. Len(p) \in Nat /\ Len(p) >= 1
    BY EmptySeq DEF Root
  <1>2. /\ Parent(p) \in Seq(Nat) /\ Len(Parent(p)) = Len(p) - 1
        /\ \A j \in 1 .. (Len(p) - 1) : Parent(p)[j] = p[j]
    <2> DEFINE k == Len(p) - 1
    <2>1. k \in Nat /\ k <= Len(p)
      BY <1>1
    <2> HIDE DEF k
    <2>2. /\ SubSeq(p, 1, k) \in Seq(Nat) /\ Len(SubSeq(p, 1, k)) = k
          /\ \A j \in 1 .. k : SubSeq(p, 1, k)[j] = p[j]
      BY <2>1, PrefixFacts
    <2> QED BY <2>2 DEF Parent, k
  <1>3. Parent(p) # p
    <2> SUFFICES ASSUME Parent(p) = p PROVE FALSE
      OBVIOUS
    <2>1. Len(p) = Len(p) - 1
      BY <1>2
    <2> QED BY <1>1, <2>1
  <1>4. Below(Parent(p), p)
    <2>1. Len(Parent(p)) < Len(p) /\ \A j \in 1 .. Len(Parent(p)) : p[j] = Parent(p)[j]
      BY <1>1, <1>2
    <2> QED BY <1>2, <2>1, BelowMeans
  <1> QED BY <1>1, <1>2, <1>3, <1>4

\* What a path begins with is a path.
LEMMA AboveIsAPath ==
  ASSUME NEW d \in Seq(Nat), d # Root, NEW p \in Paths, Below(d, p)
  PROVE  d \in Paths
  <1>1. p \in Seq(Nat) /\ Len(d) \in Nat /\ Len(d) >= 1 /\ Len(p) \in Nat
    BY ConstantsAssumption, EmptySeq DEF Root
  <1>2. Len(d) \in 1 .. Len(p) /\ d = SubSeq(p, 1, Len(d))
    BY <1>1 DEF Below
  <1> QED BY <1>2, ConstantsAssumption

\* The directory of a path is the root or a path.
LEMMA PathFacts ==
  ASSUME NEW p \in Paths
  PROVE  /\ p \in Seq(Nat) /\ p # Root /\ Parent(p) # p /\ Below(Parent(p), p)
         /\ Parent(p) \in Seq(Nat) /\ (Parent(p) = Root \/ Parent(p) \in Paths)
         /\ Len(p) = 1 => Parent(p) = Root
  <1>1. p \in Seq(Nat) /\ p # Root
    BY ConstantsAssumption
  <1>2. Parent(p) \in Seq(Nat) /\ Parent(p) # p /\ Below(Parent(p), p) /\ Len(Parent(p)) = Len(p) - 1
    BY <1>1, ParentFacts
  <1>3. Parent(p) = Root \/ Parent(p) \in Paths
    BY <1>2, AboveIsAPath
  <1>4. Len(p) = 1 => Parent(p) = Root
    BY <1>2, EmptySeq DEF Root
  <1> QED BY <1>1, <1>2, <1>3, <1>4

\* Below is a strict order ...
LEMMA BelowIrreflexive ==
  ASSUME NEW p \in Seq(Nat)
  PROVE  ~Below(p, p)
  BY DEF Below

\* See BelowIrreflexive.
LEMMA BelowTransitive ==
  ASSUME NEW d \in Seq(Nat), NEW p \in Seq(Nat), NEW r \in Seq(Nat), Below(d, p), Below(p, r)
  PROVE  Below(d, r)
  <1>1. Len(d) \in Nat /\ Len(p) \in Nat /\ Len(r) \in Nat
    OBVIOUS
  <1>2. Len(d) < Len(p) /\ \A j \in 1 .. Len(d) : p[j] = d[j]
    BY BelowMeans
  <1>3. Len(p) < Len(r) /\ \A j \in 1 .. Len(p) : r[j] = p[j]
    BY BelowMeans
  <1>4. Len(d) < Len(r) /\ \A j \in 1 .. Len(d) : r[j] = d[j]
    BY <1>1, <1>2, <1>3
  <1> QED BY <1>4, BelowMeans

\* ... in which the directories above a path are in line ...
LEMMA BelowInLine ==
  ASSUME NEW d \in Seq(Nat), NEW p \in Seq(Nat), NEW r \in Seq(Nat), Below(d, r), Below(p, r)
  PROVE  d = p \/ Below(d, p) \/ Below(p, d)
  <1>1. Len(d) \in Nat /\ Len(p) \in Nat /\ Len(r) \in Nat
    OBVIOUS
  <1>2. /\ Len(d) < Len(r) /\ \A j \in 1 .. Len(d) : r[j] = d[j]
        /\ Len(p) < Len(r) /\ \A j \in 1 .. Len(p) : r[j] = p[j]
    BY BelowMeans
  <1>3. CASE Len(d) = Len(p)
    <2>1. \A j \in 1 .. Len(d) : d[j] = p[j]
      BY <1>2, <1>3
    <2> QED BY <1>3, <2>1, SeqEqual
  <1>4. CASE Len(d) < Len(p)
    <2>1. \A j \in 1 .. Len(d) : p[j] = d[j]
      BY <1>1, <1>2, <1>4
    <2> QED BY <1>4, <2>1, BelowMeans
  <1>5. CASE Len(p) < Len(d)
    <2>1. \A j \in 1 .. Len(p) : d[j] = p[j]
      BY <1>1, <1>2, <1>5
    <2> QED BY <1>5, <2>1, BelowMeans
  <1> QED BY <1>1, <1>3, <1>4, <1>5

\* ... and the directory of the path is the last of them.
LEMMA BelowParent ==
  ASSUME NEW d \in Seq(Nat), NEW p \in Seq(Nat), p # Root
  PROVE  Below(d, p) <=> d = Parent(p) \/ Below(d, Parent(p))
  <1>1. /\ Len(p) \in Nat /\ Len(p) >= 1 /\ Parent(p) \in Seq(Nat) /\ Len(Parent(p)) = Len(p) - 1
        /\ Below(Parent(p), p)
    BY ParentFacts
  <1>2. ASSUME Below(d, p) PROVE d = Parent(p) \/ Below(d, Parent(p))
    <2>1. ~Below(Parent(p), d)
      <3>1. Len(d) < Len(p) /\ Len(d) \in Nat
        BY <1>2, BelowMeans
      <3> QED BY <1>1, <3>1 DEF Below
    <2> QED BY <1>1, <1>2, <2>1, BelowInLine
  <1>3. ASSUME Below(d, Parent(p)) PROVE Below(d, p)
    BY <1>1, <1>3, BelowTransitive
  <1> QED BY <1>1, <1>2, <1>3

\* Between a directory and what is below it lies one of its own entries, or nothing.
LEMMA StepTowards ==
  ASSUME NEW d \in Seq(Nat), NEW r \in Paths, Below(d, r)
  PROVE  \E s \in Paths : Parent(s) = d /\ (s = r \/ Below(s, r))
  <1> DEFINE s == SubSeq(r, 1, Len(d) + 1)
  <1>1. r \in Seq(Nat) /\ Len(d) \in Nat /\ Len(r) \in Nat /\ Len(d) + 1 <= Len(r)
        /\ \A j \in 1 .. Len(d) : r[j] = d[j]
    <2>1. r \in Seq(Nat)
      BY PathFacts
    <2> QED BY <2>1, BelowMeans
  <1>2. s \in Paths
    BY <1>1, ConstantsAssumption
  <1>3. s \in Seq(Nat) /\ Len(s) = Len(d) + 1 /\ \A j \in 1 .. Len(d) + 1 : s[j] = r[j]
    BY <1>1, PrefixFacts
  <1> HIDE DEF s
  <1>4. Parent(s) = d
    <2>1. s # Root
      BY <1>2, PathFacts
    <2>2. /\ Parent(s) \in Seq(Nat) /\ Len(Parent(s)) = Len(d)
          /\ \A j \in 1 .. Len(d) : Parent(s)[j] = s[j]
      <3>1. /\ Parent(s) \in Seq(Nat) /\ Len(Parent(s)) = Len(s) - 1
            /\ \A j \in 1 .. (Len(s) - 1) : Parent(s)[j] = s[j]
        BY <1>3, <2>1, ParentFacts
      <3>2. Len(s) - 1 = Len(d)
        BY <1>1, <1>3
      <3> QED BY <3>1, <3>2
    <2>3. \A j \in 1 .. Len(d) : Parent(s)[j] = d[j]
      <3> SUFFICES ASSUME NEW j \in 1 .. Len(d) PROVE Parent(s)[j] = d[j]
        OBVIOUS
      <3>1. j \in 1 .. Len(d) + 1
        BY <1>1
      <3>2. Parent(s)[j] = s[j] /\ s[j] = r[j] /\ r[j] = d[j]
        BY <1>1, <1>3, <2>2, <3>1
      <3> QED BY <3>2
    <2> QED BY <2>2, <2>3, SeqEqual
  <1>5. s = r \/ Below(s, r)
    <2>1. CASE Len(r) = Len(d) + 1
      BY <1>1, <1>3, <2>1, SeqEqual
    <2>2. CASE Len(r) # Len(d) + 1
      <3>1. Len(s) < Len(r) /\ \A j \in 1 .. Len(s) : r[j] = s[j]
        BY <1>1, <1>3, <2>2
      <3> QED BY <1>1, <1>3, <3>1, BelowMeans
    <2> QED BY <2>1, <2>2
  <1> QED BY <1>2, <1>4, <1>5

\* What comes first in the byte order differs first at some name.
LEMMA LessMeans ==
  ASSUME NEW p \in Seq(Nat), NEW q \in Seq(Nat)
  PROVE  Less(p, q) <=>
           \E k \in 1 .. Len(q) :
              /\ k - 1 <= Len(p)
              /\ \A j \in 1 .. (k - 1) : p[j] = q[j]
              /\ Len(p) = k - 1 \/ (Len(p) >= k /\ p[k] < q[k])
  <1>1. ASSUME NEW k \in 1 .. Len(q)
        PROVE  SubSeq(p, 1, MinOf(k - 1, Len(p))) = SubSeq(q, 1, k - 1)
                 <=> k - 1 <= Len(p) /\ \A j \in 1 .. (k - 1) : p[j] = q[j]
    <2> DEFINE m == MinOf(k - 1, Len(p))
    <2>1. k \in Nat /\ k >= 1 /\ k <= Len(q) /\ Len(p) \in Nat /\ Len(q) \in Nat
      BY <1>1
    <2>2. m \in Nat /\ m <= Len(p) /\ m <= k - 1 /\ (k - 1 <= Len(p) <=> m = k - 1)
      BY <2>1 DEF MinOf
    <2> HIDE DEF m
    <2>3. \A i \in 1 .. m : p[i] \in Nat
      BY <2>1, <2>2
    <2>4. /\ SubSeq(p, 1, m) \in Seq(Nat) /\ Len(SubSeq(p, 1, m)) = m
          /\ \A i \in 1 .. m : SubSeq(p, 1, m)[i] = p[i]
      <3>1. /\ SubSeq(p, 1, m) \in Seq(Nat) /\ Len(SubSeq(p, 1, m)) = IF 1 <= m THEN m - 1 + 1 ELSE 0
            /\ \A i \in 1 .. m - 1 + 1 : SubSeq(p, 1, m)[i] = p[1 + i - 1]
        BY <2>2, <2>3, SubSeqProperties
      <3> QED BY <2>2, <3>1
    <2>5. \A i \in 1 .. (k - 1) : q[i] \in Nat
      BY <2>1
    <2>6. /\ SubSeq(q, 1, k - 1) \in Seq(Nat) /\ Len(SubSeq(q, 1, k - 1)) = k - 1
          /\ \A i \in 1 .. (k - 1) : SubSeq(q, 1, k - 1)[i] = q[i]
      <3>1. /\ SubSeq(q, 1, k - 1) \in Seq(Nat)
            /\ Len(SubSeq(q, 1, k - 1)) = IF 1 <= k - 1 THEN (k - 1) - 1 + 1 ELSE 0
            /\ \A i \in 1 .. (k - 1) - 1 + 1 : SubSeq(q, 1, k - 1)[i] = q[1 + i - 1]
        BY <2>1, <2>5, SubSeqProperties
      <3> QED BY <2>1, <3>1
    <2>7. ASSUME SubSeq(p, 1, m) = SubSeq(q, 1, k - 1)
          PROVE  k - 1 <= Len(p) /\ \A j \in 1 .. (k - 1) : p[j] = q[j]
      BY <2>2, <2>4, <2>6, <2>7
    <2>8. ASSUME k - 1 <= Len(p), \A j \in 1 .. (k - 1) : p[j] = q[j]
          PROVE  SubSeq(p, 1, m) = SubSeq(q, 1, k - 1)
      BY <2>2, <2>4, <2>6, <2>8, SeqEqual
    <2> QED BY <2>7, <2>8 DEF m
  <1> QED BY <1>1 DEF Less

\* Every name of a path is a number.
LEMMA NameAt ==
  ASSUME NEW p \in Seq(Nat), NEW k \in 1 .. Len(p)
  PROVE  k \in Nat /\ Len(p) \in Nat /\ k <= Len(p) /\ p[k] \in Nat
  OBVIOUS

\* The first name that differs settles the order.
LEMMA LessAt ==
  ASSUME NEW p \in Seq(Nat), NEW q \in Seq(Nat), NEW k \in 1 .. Len(q), k \in 1 .. Len(p),
         \A j \in 1 .. (k - 1) : p[j] = q[j], p[k] < q[k]
  PROVE  Less(p, q)
  <1>1. k \in Nat /\ Len(p) \in Nat /\ k <= Len(p)
    BY NameAt
  <1>2. k - 1 <= Len(p) /\ Len(p) >= k
    BY <1>1
  <1> QED BY <1>2, LessMeans

\* The byte order is strict ...
LEMMA LessIrreflexive ==
  ASSUME NEW p \in Seq(Nat)
  PROVE  ~Less(p, p)
  <1> SUFFICES ASSUME NEW k \in 1 .. Len(p),
                      Len(p) = k - 1 \/ (Len(p) >= k /\ p[k] < p[k])
               PROVE  FALSE
    BY LessMeans
  <1>1. k \in Nat /\ k <= Len(p) /\ Len(p) \in Nat /\ p[k] \in Nat
    OBVIOUS
  <1> QED BY <1>1

\* The order of the numbers is transitive.
LEMMA NumbersInARow ==
  ASSUME NEW i \in Nat, NEW j \in Nat, NEW k \in Nat, i < j, j < k
  PROVE  i < k
  OBVIOUS

\* ... and transitive ...
LEMMA LessTransitive ==
  ASSUME NEW p \in Seq(Nat), NEW q \in Seq(Nat), NEW r \in Seq(Nat), Less(p, q), Less(q, r)
  PROVE  Less(p, r)
  <1>1. PICK i \in 1 .. Len(q) :
              /\ i - 1 <= Len(p)
              /\ \A j \in 1 .. (i - 1) : p[j] = q[j]
              /\ Len(p) = i - 1 \/ (Len(p) >= i /\ p[i] < q[i])
    BY LessMeans
  <1>2. PICK k \in 1 .. Len(r) :
              /\ k - 1 <= Len(q)
              /\ \A j \in 1 .. (k - 1) : q[j] = r[j]
              /\ Len(q) = k - 1 \/ (Len(q) >= k /\ q[k] < r[k])
    BY LessMeans
  <1>3. /\ Len(p) \in Nat /\ Len(q) \in Nat /\ Len(r) \in Nat /\ i \in Nat /\ k \in Nat
        /\ 1 <= i /\ i <= Len(q) /\ 1 <= k /\ k <= Len(r)
    BY <1>1, <1>2
  <1>4. CASE i < k
    <2>1. q[i] = r[i] /\ i \in 1 .. Len(r)
      BY <1>2, <1>3, <1>4
    <2>2. \A j \in 1 .. (i - 1) : p[j] = r[j]
      <3> SUFFICES ASSUME NEW j \in 1 .. (i - 1) PROVE p[j] = r[j]
        OBVIOUS
      <3>1. j \in 1 .. (k - 1)
        BY <1>3, <1>4
      <3> QED BY <1>1, <1>2, <3>1
    <2> QED BY <1>1, <2>1, <2>2, LessMeans
  <1>5. CASE i = k
    <2>1. \A j \in 1 .. (k - 1) : p[j] = r[j]
      BY <1>1, <1>2, <1>5
    <2>2. Len(p) = k - 1 \/ (Len(p) >= k /\ p[k] < r[k])
      <3>1. CASE Len(p) >= k
        <4>1. p[k] \in Nat /\ q[k] \in Nat /\ r[k] \in Nat
          <5>1. k \in 1 .. Len(p) /\ k \in 1 .. Len(q)
            BY <1>3, <1>5, <3>1
          <5> QED BY <5>1, NameAt
        <4>2. Len(p) # k - 1 /\ Len(q) # k - 1
          BY <1>3, <1>5, <3>1
        <4>3. p[k] < q[k]
          BY <1>1, <1>5, <4>2
        <4>4. q[k] < r[k]
          BY <1>2, <4>2
        <4> QED BY <3>1, <4>1, <4>3, <4>4, NumbersInARow
      <3> QED BY <1>1, <1>3, <1>5, <3>1
    <2> QED BY <1>1, <1>5, <2>1, <2>2, LessMeans
  <1>6. CASE k < i
    <2>1. p[k] = q[k] /\ k - 1 <= Len(p) /\ k <= Len(p) /\ Len(q) >= k
      <3>1. k \in 1 .. (i - 1)
        BY <1>3, <1>6
      <3>2. k <= i - 1 /\ i - 1 <= Len(p)
        BY <1>1, <1>3, <1>6
      <3>3. p[k] = q[k]
        BY <1>1, <3>1
      <3>4. i \in Int /\ k \in Int /\ Len(q) \in Int /\ Len(p) \in Int /\ k < i /\ i <= Len(q)
        BY <1>3, <1>6
      <3> QED BY <3>2, <3>3, <3>4
    <2>2. q[k] < r[k]
      BY <1>2, <1>3, <2>1
    <2>3. \A j \in 1 .. (k - 1) : p[j] = r[j]
      <3> SUFFICES ASSUME NEW j \in 1 .. (k - 1) PROVE p[j] = r[j]
        OBVIOUS
      <3>1. j \in 1 .. (i - 1)
        BY <1>3, <1>6
      <3> QED BY <1>1, <1>2, <3>1
    <2> QED BY <2>1, <2>2, <2>3, LessMeans
  <1> QED BY <1>3, <1>4, <1>5, <1>6

\* A nonempty set of numbers has a least element.
LEMMA LeastNumber ==
  ASSUME NEW T \in SUBSET Nat, T # {}
  PROVE  \E i \in T : \A j \in T : i <= j
  <1>1. PICK i \in T : \A j \in T : ~ (<<j, i>> \in OpToRel(<, Nat))
    BY NatLessThanWellFounded, WFMin
  <1>2. \A j \in T : ~ (j < i)
    BY <1>1 DEF OpToRel
  <1> QED BY <1>2

\* ... and total.
LEMMA LessTotal ==
  ASSUME NEW p \in Seq(Nat), NEW q \in Seq(Nat), p # q
  PROVE  Less(p, q) \/ Less(q, p)
  <1> DEFINE D == {j \in 1 .. Len(p) : j <= Len(q) /\ p[j] # q[j]}
  <1>0. Len(p) \in Nat /\ Len(q) \in Nat
    OBVIOUS
  <1>1. CASE D = {}
    <2>1. \A j \in 1 .. Len(p) : j <= Len(q) => p[j] = q[j]
      BY <1>1
    <2>2. Len(p) # Len(q)
      BY <2>1, SeqEqual
    <2>3. CASE Len(p) < Len(q)
      <3>1. Len(p) + 1 \in 1 .. Len(q) /\ \A j \in 1 .. ((Len(p) + 1) - 1) : p[j] = q[j]
        BY <1>0, <2>1, <2>3
      <3> QED BY <1>0, <3>1, LessMeans
    <2>4. CASE Len(q) < Len(p)
      <3>1. Len(q) + 1 \in 1 .. Len(p) /\ \A j \in 1 .. ((Len(q) + 1) - 1) : q[j] = p[j]
        BY <1>0, <2>1, <2>4
      <3> QED BY <1>0, <3>1, LessMeans
    <2> QED BY <1>0, <2>2, <2>3, <2>4
  <1>2. CASE D # {}
    <2>1. D \in SUBSET Nat
      OBVIOUS
    <2>2. PICK k \in D : \A j \in D : k <= j
      <3> HIDE DEF D
      <3> QED BY <1>2, <2>1, LeastNumber
    <2>3. k \in 1 .. Len(p) /\ k \in 1 .. Len(q) /\ p[k] # q[k] /\ p[k] \in Nat /\ q[k] \in Nat
      <3>1. k \in Nat /\ 1 <= k /\ k <= Len(p) /\ k <= Len(q) /\ p[k] # q[k]
        BY <1>0, <2>2
      <3>2. k \in 1 .. Len(p) /\ k \in 1 .. Len(q)
        BY <1>0, <3>1
      <3> QED BY <3>1, <3>2, NameAt
    <2>4. \A j \in 1 .. (k - 1) : p[j] = q[j]
      BY <1>0, <2>2, <2>3
    <2>5. CASE p[k] < q[k]
      BY <2>3, <2>4, <2>5, LessAt
    <2>6. CASE q[k] < p[k]
      <3>1. \A j \in 1 .. (k - 1) : q[j] = p[j]
        BY <2>4
      <3> QED BY <2>3, <2>6, <3>1, LessAt
    <2> QED BY <2>3, <2>5, <2>6
  <1> QED BY <1>1, <1>2
-----------------------------------------------------------------------------
(* Listings *)

\* The paths of a listing, each at most once.
Distinct(snap) == \A e, f \in snap : e.path = f.path => e = f

\* A listing is finite, as the paths are.
LEMMA ListedFinite ==
  ASSUME NEW snap, \A e \in snap : e.path \in Paths, Distinct(snap)
  PROVE  /\ IsFiniteSet(Listed(snap)) /\ Cardinality(Listed(snap)) \in Nat
         /\ \A p : Rank(snap, p) \in Nat
  <1> DEFINE L == Listed(snap)
             P == {p \in Paths : \E e \in L : e.path = p}
             g == [p \in P |-> CHOOSE e \in L : e.path = p]
  <1>1. IsFiniteSet(P)
    BY ConstantsAssumption, FS_Subset
  <1>2. \A p \in P : g[p] \in L /\ g[p].path = p
    OBVIOUS
  <1>3. \A e \in L : e.path \in P /\ g[e.path] = e
    BY <1>2 DEF Distinct, Listed
  <1>4. g \in Surjection(P, L)
    BY <1>2, <1>3 DEF Surjection
  <1>5. IsFiniteSet(L)
    BY <1>1, <1>4, FS_Surjection
  <1>6. ASSUME NEW p PROVE Rank(snap, p) \in Nat
    <2>1. IsFiniteSet({e \in L : Less(e.path, p)})
      BY <1>5, FS_Subset
    <2> QED BY <2>1, FS_CardinalityType DEF Rank
  <1> QED BY <1>5, <1>6, FS_CardinalityType

\* Every index below the number of entries names exactly one of them: sorting
\* distinct paths numbers them 0, 1, 2 and so on.
LEMMA EveryIndexNamesAnEntry ==
  ASSUME NEW snap, \A e \in snap : e.path \in Paths, Distinct(snap),
         NEW i \in Nat, HasIndex(snap, i)
  PROVE  EntryAt(snap, i) \in Listed(snap) /\ Rank(snap, EntryAt(snap, i).path) = i
  <1> DEFINE L == Listed(snap)
             n == Cardinality(L)
             before(e) == {f \in L : Less(f.path, e.path)}
             rank == [e \in L |-> Cardinality(before(e))]
             R == {rank[e] : e \in L}
  <1>1. \A e \in L : e.path \in Paths /\ e.path \in Seq(Nat)
    BY ConstantsAssumption DEF Listed
  <1>2. IsFiniteSet(L) /\ n \in Nat
    BY ListedFinite
  <1>3. ASSUME NEW e \in L
        PROVE  /\ IsFiniteSet(before(e)) /\ rank[e] \in Nat /\ rank[e] < n
               /\ e \notin before(e)
    <2>1. e \notin before(e)
      BY <1>1, LessIrreflexive
    <2>2. before(e) \in SUBSET L /\ before(e) # L
      BY <2>1
    <2>3. IsFiniteSet(before(e)) /\ Cardinality(before(e)) <= n /\ Cardinality(before(e)) # n
      BY <1>2, <2>2, FS_Subset
    <2>4. Cardinality(before(e)) \in Nat
      BY <2>3, FS_CardinalityType
    <2> HIDE DEF before, n
    <2> QED BY <1>2, <2>1, <2>3, <2>4
  <1>4. ASSUME NEW e \in L, NEW f \in L, Less(e.path, f.path)
        PROVE  rank[e] < rank[f]
    <2>1. before(e) \in SUBSET before(f)
      BY <1>1, <1>4, LessTransitive
    <2>2. e \in before(f) /\ e \notin before(e)
      BY <1>3, <1>4
    <2>3. Cardinality(before(e)) <= Cardinality(before(f)) /\ Cardinality(before(e)) # Cardinality(before(f))
      BY <1>3, <2>1, <2>2, FS_Subset
    <2>4. rank[e] = Cardinality(before(e)) /\ rank[f] = Cardinality(before(f))
      OBVIOUS
    <2> HIDE DEF before, rank
    <2> QED BY <1>3, <2>3, <2>4
  <1>5. ASSUME NEW e \in L, NEW f \in L, rank[e] = rank[f]
        PROVE  e = f
    <2> SUFFICES ASSUME e # f PROVE FALSE
      OBVIOUS
    <2>1. e.path # f.path
      BY DEF Distinct, Listed
    <2>2. Less(e.path, f.path) \/ Less(f.path, e.path)
      BY <1>1, <2>1, LessTotal
    <2>3. rank[e] < rank[f] \/ rank[f] < rank[e]
      BY <1>4, <2>2
    <2>4. rank[e] \in Nat /\ rank[f] \in Nat
      BY <1>3
    <2> HIDE DEF rank
    <2> QED BY <1>5, <2>3, <2>4
  <1>6. rank \in Bijection(L, R)
    <2>1. rank \in Surjection(L, R)
      BY DEF Surjection
    <2>2. rank \in Injection(L, R)
      BY <1>5 DEF Injection, IsInjective
    <2> QED BY <2>1, <2>2 DEF Bijection
  <1>7. IsFiniteSet(R) /\ Cardinality(R) = n
    <2>1. ExistsBijection(L, R)
      BY <1>6 DEF ExistsBijection
    <2> HIDE DEF L, R
    <2> QED BY <1>2, <2>1, FS_Bijection
  <1>8. R = 0 .. (n - 1)
    <2>1. R \in SUBSET (0 .. (n - 1))
      <3> SUFFICES ASSUME NEW e \in L PROVE rank[e] \in 0 .. (n - 1)
        OBVIOUS
      <3>1. rank[e] \in Nat /\ rank[e] < n
        BY <1>3
      <3> HIDE DEF n, rank
      <3> QED BY <1>2, <3>1
    <2>2. IsFiniteSet(0 .. (n - 1)) /\ Cardinality(0 .. (n - 1)) = n
      <3> HIDE DEF n
      <3>1. 0 \in Int /\ n - 1 \in Int
        BY <1>2
      <3>2. /\ IsFiniteSet(0 .. (n - 1))
            /\ Cardinality(0 .. (n - 1)) = IF 0 > n - 1 THEN 0 ELSE (n - 1) - 0 + 1
        BY <3>1, FS_Interval
      <3> QED BY <1>2, <3>2
    <2> QED BY <1>7, <2>1, <2>2, FS_Subset
  <1>9. i \in R
    <2>1. i < n
      BY DEF HasIndex
    <2> HIDE DEF n, R
    <2> QED BY <1>2, <1>8, <2>1
  <1>10. PICK e \in L : rank[e] = i
    BY <1>9
  <1>11. \A x \in L : Rank(snap, x.path) = rank[x]
    BY DEF Rank
  <1> QED BY <1>10, <1>11 DEF EntryAt

-----------------------------------------------------------------------------
(* Calls *)

Bytes == {"p", "o", "0"}
Contents == Seq(Bytes)
Nodes == {Absent, Dir, Link} \cup {FileOf(i) : i \in Inodes}
Places == Paths \cup {Root}
Trees == [Paths -> Nodes]

\* The stages in which a call works on the path it has resolved, and the others.
OnPath == {"resolve", "measure", "open", "io", "verify", "dirsync", "empty", "remove",
           "destination", "move"}
Stages == {"idle", "walk", "select", "report", "probe", "make"} \cup OnPath

Listings == [path : Paths, kind : Kinds]
CallStates ==
    [pc : Stages, call : Calls \cup {NoCall}, snap : SUBSET Listings, todo : SUBSET Places,
     post : BOOLEAN, path : Places, was : Kinds, len : Nat, fd : Inodes \cup {0},
     st : {"none", "ok", "invalid", "failed"}, val : Nat, bytes : Contents]

\* A call under way: it works on a path below the root, creates in the root, and
\* has listed nothing that is below a directory it still has to read.
GoodCall(x) ==
    /\ x \in CallStates
    /\ x.pc \in OnPath => x.path \in Paths
    /\ x.pc \in {"probe", "make"} => x.path \in Paths /\ Len(x.path) = 1
    /\ x.pc = "io" => x.fd \in Inodes
    /\ Distinct(x.snap)
    /\ x.pc = "walk" => \A d \in x.todo : /\ \A e \in x.snap : ~Below(d, e.path)
                                          /\ \A f \in x.todo : ~Below(d, f)

\* What the calls and the other process leave behind.
GoodFiles ==
    /\ tree \in Trees /\ dtree \in Trees
    /\ data \in [Inodes -> Contents] /\ ddata \in [Inodes -> Contents]

\* The fields of a node.
LEMMA NodeFields ==
  ASSUME NEW n \in Nodes
  PROVE  /\ n.kind \in Kinds
         /\ n.kind = "file" => n.ino \in Inodes /\ n = FileOf(n.ino)
         /\ n.kind # "file" => n.ino = 0
         /\ Absent.kind = "none" /\ Dir.kind = "dir" /\ Link.kind = "link"
         /\ \A i : FileOf(i).kind = "file" /\ FileOf(i).ino = i
  BY DEF Nodes, Absent, Dir, Link, FileOf, Kinds

\* Calls carry numbers.
LEMMA CallFields ==
  ASSUME NEW call \in Calls \cup {NoCall}
  PROVE  /\ call.i \in Nat /\ call.name \in Nat /\ call.off \in Nat /\ call.n \in Nat
         /\ call.realize \in BOOLEAN
  <1>1. CASE call = NoCall
    BY <1>1 DEF NoCall
  <1>2. CASE call \in Calls
    BY <1>2, ConstantsAssumption
  <1> QED BY <1>1, <1>2

\* The fields of the call under way.
LEMMA StateFields ==
  ASSUME NEW x \in CallStates
  PROVE  /\ x.call \in Calls \cup {NoCall} /\ x.path \in Places /\ x.fd \in Inodes \cup {0}
         /\ x.snap \in SUBSET Listings /\ x.len \in Nat /\ x.pc \in Stages /\ x.todo \in SUBSET Places
         /\ x.was \in Kinds /\ x.post \in BOOLEAN
         /\ \A e \in x.snap : e.path \in Paths /\ e.kind \in Kinds
  BY DEF CallStates, Listings

\* Before its first call the program has none under way.
LEMMA IdleGood == GoodCall(Idle)
  <1>1. Idle \in CallStates
    <2>1. <<>> \in Contents
      BY EmptySeq DEF Contents
    <2> QED BY <2>1 DEF Idle, CallStates, Stages, Places, Kinds
  <1> QED BY <1>1 DEF GoodCall, Idle, OnPath, Distinct

\* Each way in which a call goes on or ends leaves it in order.
LEMMA ReplyGood ==
  ASSUME GoodCall(c), NEW st \in {"ok", "invalid", "failed"}, NEW val \in Nat, Reply(st, val)
  PROVE  GoodCall(c')
  <1>1. c' = [c EXCEPT !.pc = "idle", !.st = st, !.val = val, !.snap = {}, !.fd = 0]
    BY DEF Reply
  <1>2. c' \in CallStates
    BY <1>1 DEF GoodCall, CallStates, Stages
  <1>3. c'.pc = "idle" /\ c'.snap = {}
    BY <1>1 DEF GoodCall, CallStates
  <1> QED BY <1>2, <1>3 DEF GoodCall, OnPath, Distinct

\* See ReplyGood.
LEMMA GotoGood ==
  ASSUME GoodCall(c), c.path \in Paths, NEW pc \in OnPath \ {"io"}, Goto(pc)
  PROVE  GoodCall(c')
  <1>1. c' = [c EXCEPT !.pc = pc]
    BY DEF Goto
  <1>2. c' \in CallStates
    BY <1>1 DEF GoodCall, CallStates, Stages
  <1>3. c'.pc = pc /\ c'.snap = c.snap /\ c'.path = c.path
    BY <1>1 DEF GoodCall, CallStates
  <1> QED BY <1>2, <1>3 DEF GoodCall, OnPath

\* See ReplyGood.
LEMMA WalkAgainGood ==
  ASSUME GoodCall(c), WalkAgain
  PROVE  GoodCall(c')
  <1>1. c' = [c EXCEPT !.pc = "walk", !.post = TRUE, !.todo = {Root}, !.snap = {}]
    BY DEF WalkAgain
  <1>2. c' \in CallStates
    BY <1>1 DEF GoodCall, CallStates, Stages, Places
  <1>3. c'.pc = "walk" /\ c'.snap = {} /\ c'.todo = {Root} /\ ~Below(Root, Root)
    BY <1>1 DEF GoodCall, CallStates, Below
  <1> QED BY <1>2, <1>3 DEF GoodCall, OnPath, Distinct

-----------------------------------------------------------------------------
(* Each step of a call *)

\* What a walk reads of a directory is a listing.
LEMMA EntryType ==
  ASSUME GoodFiles, NEW p \in Paths
  PROVE  Entry(tree, p) \in Listings /\ Entry(tree, p).path = p
  <1>1. tree[p] \in Nodes
    BY DEF GoodFiles, Trees
  <1> QED BY <1>1, NodeFields DEF Entry, Listings

\* A call begins with an empty walk of the root.
LEMMA BeginGood ==
  ASSUME NEW call \in Calls, Begin(call)
  PROVE  GoodCall(c')
  <1>1. c' = [Idle EXCEPT !.pc = "walk", !.call = call, !.todo = {Root}]
    BY DEF Begin
  <1>2. Idle \in CallStates /\ Idle.snap = {}
    BY IdleGood DEF GoodCall, Idle
  <1>3. c' \in CallStates
    BY <1>1, <1>2 DEF CallStates, Stages, Places
  <1>4. c'.pc = "walk" /\ c'.snap = {} /\ c'.todo = {Root} /\ ~Below(Root, Root)
    BY <1>1, <1>2 DEF CallStates, Below
  <1> QED BY <1>3, <1>4 DEF GoodCall, OnPath, Distinct

\* A walk lists every path once: it never comes back to a directory it has read.
LEMMA WalkGood ==
  ASSUME GoodFiles, GoodCall(c), NEW d \in Places, WalkDir(d)
  PROVE  GoodCall(c')
  <1> DEFINE new == {Entry(tree, p) : p \in Children(tree, d)}
             snap == c.snap \cup new
             todo == (c.todo \ {d}) \cup {p \in Children(tree, d) \ Long : IsDir(tree, p)}
             pc == CASE todo # {} -> "walk" [] c.post -> "report" [] OTHER -> "select"
  <1>1. c.pc = "walk" /\ d \in c.todo /\ c \in CallStates
    BY DEF WalkDir, GoodCall
  <1>2. CASE ~IsDir(tree, d) \/ Cardinality(Listed(snap)) > MaxEntries
    <2>1. Reply(IF c.post THEN "failed" ELSE "invalid", 0)
      BY <1>2 DEF WalkDir, WalkFails
    <2> QED BY <2>1, ReplyGood
  <1>3. CASE ~(~IsDir(tree, d) \/ Cardinality(Listed(snap)) > MaxEntries)
    <2>1. c' = [c EXCEPT !.snap = snap, !.todo = todo, !.pc = pc]
      BY <1>3 DEF WalkDir
    <2>2. \A p \in Children(tree, d) : p \in Paths /\ Parent(p) = d
      BY DEF Children
    <2>3. \A e \in new : e \in Listings /\ e.path \in Paths /\ Parent(e.path) = d
      BY <2>2, EntryType
    <2>4. \A e, f \in new : e.path = f.path => e = f
      BY <2>2, EntryType
    <2>5. \A e \in c.snap : e \in Listings /\ e.path \in Paths
      BY <1>1 DEF CallStates, Listings
    <2>6. d \in Seq(Nat) /\ c.todo \subseteq Seq(Nat)
      <3>1. Paths \subseteq Seq(Nat) /\ Root \in Seq(Nat)
        BY ConstantsAssumption, EmptySeq DEF Root
      <3> QED BY <1>1, <3>1, StateFields DEF Places
    <2>7. Distinct(snap)
      <3> SUFFICES ASSUME NEW e \in snap, NEW g \in snap, e.path = g.path
                   PROVE  e = g
        BY DEF Distinct
      <3>1. CASE e \in c.snap /\ g \in c.snap
        BY <3>1 DEF GoodCall, Distinct
      <3>2. CASE e \in new /\ g \in new
        BY <2>4, <3>2
      <3>3. ASSUME NEW a \in c.snap, NEW b \in new, a.path = b.path PROVE FALSE
        <4>1. b.path \in Paths /\ Parent(b.path) = d
          BY <2>3
        <4>2. Below(d, b.path)
          BY <4>1, PathFacts
        <4> QED BY <1>1, <3>3, <4>2 DEF GoodCall
      <3> HIDE DEF new
      <3> QED BY <3>1, <3>2, <3>3
    <2>8. ASSUME NEW t \in todo
          PROVE  (\A e \in snap : ~Below(t, e.path)) /\ \A f \in todo : ~Below(t, f)
      <3> DEFINE Inside(r) == r \in Paths /\ Parent(r) = d
      <3>1. \A r \in todo : (r \in c.todo /\ r # d) \/ Inside(r)
        BY <2>2
      <3>2. \A e \in snap : e \in c.snap \/ Inside(e.path)
        BY <2>3
      <3>3. \A r \in Paths : Inside(r) => /\ Below(d, r) /\ r \in Seq(Nat)
                                         /\ \A x \in Seq(Nat) : Below(x, r) <=> x = d \/ Below(x, d)
        BY PathFacts, BelowParent
      <3>4. /\ \A e \in c.snap : ~Below(d, e.path) /\ e.path \in Seq(Nat)
            /\ \A r \in c.todo : ~Below(d, r) /\ ~Below(r, d)
        BY <1>1, <2>5, ConstantsAssumption DEF GoodCall
      <3> HIDE DEF new, snap, todo
      <3>5. ASSUME NEW r \in Seq(Nat), Inside(r), NEW x \in Seq(Nat), ~Below(d, x)
            PROVE  ~Below(r, x)
        BY <2>6, <3>3, <3>5, BelowTransitive
      <3>6. CASE t \in c.todo /\ t # d
        <4>1. t \in Seq(Nat) /\ ~Below(t, d)
          BY <2>6, <3>4, <3>6
        <4>2. \A r \in Paths : Inside(r) => ~Below(t, r)
          BY <3>3, <3>6, <4>1
        <4>3. (\A e \in c.snap : ~Below(t, e.path)) /\ \A f \in c.todo : ~Below(t, f)
          BY <1>1, <3>6 DEF GoodCall
        <4> QED BY <3>1, <3>2, <4>2, <4>3
      <3>7. CASE Inside(t)
        <4>1. t \in Seq(Nat) /\ Below(d, t)
          BY <3>3, <3>7
        <4>2. ~Below(t, d) /\ t # d
          BY <2>6, <4>1, BelowTransitive, BelowIrreflexive
        <4>3. \A r \in Paths : Inside(r) => ~Below(t, r)
          BY <3>3, <4>1, <4>2
        <4>4. (\A e \in c.snap : ~Below(t, e.path)) /\ \A f \in c.todo : ~Below(t, f)
          BY <2>6, <3>4, <3>5, <3>7, <4>1
        <4> QED BY <3>1, <3>2, <4>3, <4>4
      <3> QED BY <3>1, <3>6, <3>7
    <2>9. snap \in SUBSET Listings /\ todo \in SUBSET Places
      BY <1>1, <2>2, <2>3, <2>5 DEF CallStates, Places
    <2>10. pc \in {"walk", "report", "select"}
      OBVIOUS
    <2> HIDE DEF snap, todo, pc
    <2>11. c' \in CallStates
      BY <1>1, <2>1, <2>9, <2>10 DEF CallStates, Stages
    <2>12. c'.pc = pc /\ c'.snap = snap /\ c'.todo = todo
      BY <1>1, <2>1 DEF CallStates
    <2> QED BY <2>7, <2>8, <2>10, <2>11, <2>12 DEF GoodCall, OnPath
  <1> QED BY <1>2, <1>3

\* The entry that a call selects is one it has listed.
LEMMA SelectedEntry ==
  ASSUME GoodCall(c), ~Refused
  PROVE  EntryAt(c.snap, c.call.i) \in c.snap
  <1>1. HasIndex(c.snap, c.call.i)
    BY DEF Refused
  <1>2. c \in CallStates /\ Distinct(c.snap)
    BY DEF GoodCall
  <1>3. \A e \in c.snap : e.path \in Paths
    BY <1>2, StateFields
  <1>4. c.call.i \in Nat
    BY <1>2, StateFields, CallFields
  <1>5. EntryAt(c.snap, c.call.i) \in Listed(c.snap)
    BY <1>1, <1>2, <1>3, <1>4, EveryIndexNamesAnEntry
  <1> QED BY <1>5 DEF Listed

\* Ranks and numbers of entries are numbers.
LEMMA RankType ==
  ASSUME GoodCall(c)
  PROVE  /\ Cardinality(Listed(c.snap)) \in Nat
         /\ \A p : Rank(c.snap, p) \in Nat /\ WouldBeIndex(c.snap, p) \in Nat
         /\ \A p, q : RenamedIndex(c.snap, p, q) \in Nat
  <1>1. c \in CallStates /\ Distinct(c.snap)
    BY DEF GoodCall
  <1>2. \A e \in c.snap : e.path \in Paths
    BY <1>1, StateFields
  <1>3. /\ Cardinality(Listed(c.snap)) \in Nat
        /\ \A p : Rank(c.snap, p) \in Nat
    BY <1>1, <1>2, ListedFinite
  <1>4. ASSUME NEW p, NEW q PROVE RenamedIndex(c.snap, p, q) \in Nat
    <2> DEFINE rest == {e \in c.snap : e.path # p}
    <2>1. Distinct(rest) /\ \A e \in rest : e.path \in Paths
      BY <1>1, <1>2 DEF Distinct
    <2>2. Rank(rest, q) \in Nat
      <3> HIDE DEF rest
      <3> QED BY <2>1, ListedFinite
    <2> QED BY <2>2 DEF RenamedIndex, WouldBeIndex
  <1> QED BY <1>3, <1>4 DEF WouldBeIndex

\* See ReplyGood.
LEMMA SelectGood ==
  ASSUME GoodCall(c), AnswerListing \/ SelectName \/ SelectEntry
  PROVE  GoodCall(c')
  <1>1. c \in CallStates
    BY DEF GoodCall
  <1>2. CASE AnswerListing
    <2>1. CASE c.call.op = "count" \/ (c.call.op = "entry" /\ Refused)
      BY <1>2, <2>1, RankType, ReplyGood DEF AnswerListing
    <2>2. CASE ~(c.call.op = "count" \/ (c.call.op = "entry" /\ Refused))
      <3> DEFINE e == EntryAt(c.snap, c.call.i)
      <3>1. c' = [c EXCEPT !.pc = "idle", !.st = "ok", !.snap = {}, !.path = e.path] /\ ~Refused
        BY <1>2, <2>2 DEF AnswerListing
      <3>2. e.path \in Places
        BY <1>1, <3>1, SelectedEntry, StateFields DEF Places
      <3> HIDE DEF e
      <3>3. c' \in CallStates
        BY <1>1, <3>1, <3>2 DEF CallStates, Stages
      <3>4. c'.pc = "idle" /\ c'.snap = {}
        BY <1>1, <3>1 DEF CallStates
      <3> QED BY <3>3, <3>4 DEF GoodCall, OnPath, Distinct
    <2> QED BY <2>1, <2>2
  <1>3. CASE SelectName
    <2>1. CASE c.call.name = BadName
      BY <1>3, <2>1, ReplyGood DEF SelectName
    <2>2. CASE c.call.name # BadName
      <3>1. c' = [c EXCEPT !.pc = "probe", !.path = <<c.call.name>>]
        BY <1>3, <2>2 DEF SelectName
      <3>2. <<c.call.name>> \in Paths
        <4>1. c.call \in Calls
          BY <1>1, <1>3, StateFields DEF SelectName, ByName, NoCall
        <4> QED BY <1>3, <2>2, <4>1, ConstantsAssumption DEF SelectName, ByName, BadName
      <3>3. Len(<<c.call.name>>) = 1
        OBVIOUS
      <3>4. c' \in CallStates
        BY <1>1, <3>1, <3>2 DEF CallStates, Stages, Places
      <3>5. c'.pc = "probe" /\ c'.snap = c.snap /\ c'.path = <<c.call.name>>
        BY <1>1, <3>1 DEF CallStates
      <3> QED BY <3>2, <3>3, <3>4, <3>5 DEF GoodCall, OnPath
    <2> QED BY <2>1, <2>2
  <1>4. CASE SelectEntry
    <2>1. CASE Refused
      BY <1>4, <2>1, ReplyGood DEF SelectEntry
    <2>2. CASE ~Refused
      <3> DEFINE e == EntryAt(c.snap, c.call.i)
      <3>1. c' = [c EXCEPT !.pc = "resolve", !.path = e.path, !.was = e.kind]
        BY <1>4, <2>2 DEF SelectEntry
      <3>2. e.path \in Paths /\ e.kind \in Kinds
        BY <1>1, <2>2, SelectedEntry, StateFields
      <3> HIDE DEF e
      <3>3. c' \in CallStates
        BY <1>1, <3>1, <3>2 DEF CallStates, Stages, OnPath, Places
      <3>4. c'.pc = "resolve" /\ c'.snap = c.snap /\ c'.path = e.path
        BY <1>1, <3>1 DEF CallStates
      <3> QED BY <3>2, <3>3, <3>4 DEF GoodCall, OnPath
    <2> QED BY <2>1, <2>2
  <1> QED BY <1>2, <1>3, <1>4

\* The length that a call measures, and the window that it reads, are numbers.
LEMMA LengthType ==
  ASSUME GoodFiles, c.path \in Paths
  PROVE  Length \in Nat
  <1>1. tree[c.path] \in Nodes
    BY DEF GoodFiles, Trees
  <1>2. CASE tree[c.path].kind = "file"
    <2>1. data[tree[c.path].ino] \in Contents
      BY <1>1, <1>2, NodeFields DEF GoodFiles
    <2> QED BY <1>2, <2>1, LenProperties DEF Length, Contents
  <1>3. CASE tree[c.path].kind # "file"
    BY <1>3, ConstantsAssumption DEF Length
  <1> QED BY <1>2, <1>3

\* See ReplyGood: resolve_existing and the stages that check a resolved path.
LEMMA CheckGood ==
  ASSUME GoodFiles, GoodCall(c), Resolve \/ Measure \/ Verify \/ LooksEmpty \/ Destination
  PROVE  GoodCall(c')
  <1>1. c.path \in Paths /\ c \in CallStates
    BY DEF Resolve, Measure, Verify, LooksEmpty, Destination, GoodCall, OnPath
  <1>2. CASE Resolve
    <2>1. \/ Reply("failed", 0) \/ Reply("invalid", 0) \/ WalkAgain
          \/ \E pc \in {"measure", "open", "destination", "empty", "remove"} : Goto(pc)
      BY <1>2 DEF Resolve
    <2> QED BY <1>1, <2>1, ReplyGood, WalkAgainGood, GotoGood DEF OnPath
  <1>3. CASE Measure
    <2>1. \/ Reply("invalid", 0) \/ WalkAgain
          \/ c' = [c EXCEPT !.pc = "idle", !.st = "ok", !.snap = {}, !.len = Length]
          \/ c' = [c EXCEPT !.pc = "open", !.len = Length]
      BY <1>3 DEF Measure
    <2>2. CASE c' = [c EXCEPT !.pc = "idle", !.st = "ok", !.snap = {}, !.len = Length]
      <3>1. c' \in CallStates
        BY <1>1, <2>2, LengthType DEF CallStates, Stages
      <3>2. c'.pc = "idle" /\ c'.snap = {}
        BY <1>1, <2>2 DEF CallStates
      <3> QED BY <3>1, <3>2 DEF GoodCall, OnPath, Distinct
    <2>3. CASE c' = [c EXCEPT !.pc = "open", !.len = Length]
      <3>1. c' \in CallStates
        BY <1>1, <2>3, LengthType DEF CallStates, Stages, OnPath
      <3>2. c'.pc = "open" /\ c'.snap = c.snap /\ c'.path = c.path
        BY <1>1, <2>3 DEF CallStates
      <3> QED BY <1>1, <3>1, <3>2 DEF GoodCall, OnPath
    <2> QED BY <2>1, <2>2, <2>3, ReplyGood, WalkAgainGood
  <1>4. CASE Verify
    BY <1>4, ReplyGood, WalkAgainGood DEF Verify
  <1>5. CASE LooksEmpty
    <2>1. Reply("failed", 0) \/ Reply("invalid", 0) \/ WalkAgain \/ Goto("remove")
      BY <1>5 DEF LooksEmpty
    <2> QED BY <1>1, <2>1, ReplyGood, WalkAgainGood, GotoGood DEF OnPath
  <1>6. CASE Destination
    <2>1. \/ Reply("invalid", 0) \/ Goto("move")
          \/ Reply("ok", RenamedIndex(c.snap, c.path, Dest))
      BY <1>6 DEF Destination
    <2> QED BY <1>1, <2>1, ReplyGood, RankType, GotoGood DEF OnPath
  <1> QED BY <1>2, <1>3, <1>4, <1>5, <1>6

\* See ReplyGood: the stages that open, read, write and sync.
LEMMA FileGood ==
  ASSUME GoodFiles, GoodCall(c), Open \/ ReadFile \/ WriteFile \/ SyncFile \/ SyncDirs
  PROVE  GoodCall(c')
  <1>1. c.path \in Paths /\ c \in CallStates
    BY DEF Open, ReadFile, WriteFile, SyncFile, SyncDirs, GoodCall, OnPath
  <1>2. CASE Open
    <2>1. CASE tree[c.path].kind = "file"
      <3>1. c' = [c EXCEPT !.pc = "io", !.fd = tree[c.path].ino]
        BY <1>2, <2>1 DEF Open
      <3>2. tree[c.path].ino \in Inodes
        BY <1>1, <2>1, NodeFields DEF GoodFiles, Trees
      <3>3. c' \in CallStates
        BY <1>1, <3>1, <3>2 DEF CallStates, Stages, OnPath
      <3>4. c'.pc = "io" /\ c'.snap = c.snap /\ c'.path = c.path /\ c'.fd = tree[c.path].ino
        BY <1>1, <3>1 DEF CallStates
      <3> QED BY <1>1, <3>2, <3>3, <3>4 DEF GoodCall, OnPath
    <2>2. CASE tree[c.path].kind # "file"
      <3>1. Reply("invalid", 0) \/ Reply("failed", 0) \/ Goto("dirsync")
        BY <1>2, <2>2 DEF Open
      <3> QED BY <1>1, <3>1, ReplyGood, GotoGood DEF OnPath
    <2> QED BY <2>1, <2>2
  <1>3. CASE ReadFile
    <2>1. CASE Len(data[c.fd]) < End(c.len)
      BY <1>3, <2>1, ReplyGood DEF ReadFile
    <2>2. CASE ~(Len(data[c.fd]) < End(c.len))
      <3> DEFINE bytes == SubSeq(data[c.fd], Start(c.len) + 1, End(c.len))
      <3>1. c' = [c EXCEPT !.pc = "idle", !.st = "ok", !.snap = {}, !.fd = 0, !.bytes = bytes]
        BY <1>3, <2>2 DEF ReadFile
      <3>2. data[c.fd] \in Seq(Bytes) /\ Len(data[c.fd]) \in Nat
        BY <1>3 DEF ReadFile, GoodCall, GoodFiles, Contents
      <3>3. Start(c.len) \in Nat /\ End(c.len) \in Nat
        <4>1. c.len \in Nat /\ c.call.off \in Nat /\ c.call.n \in Nat /\ MaxView \in Nat
          BY <1>1, StateFields, CallFields, ConstantsAssumption
        <4> QED BY <4>1 DEF Start, End, MinOf
      <3>4. \A i \in (Start(c.len) + 1) .. End(c.len) : data[c.fd][i] \in Bytes
        BY <2>2, <3>2, <3>3, ElementOfSeq
      <3>5. bytes \in Contents
        BY <3>3, <3>4, SubSeqProperties DEF Contents
      <3> HIDE DEF bytes
      <3>6. c' \in CallStates
        BY <1>1, <3>1, <3>5 DEF CallStates, Stages
      <3>7. c'.pc = "idle" /\ c'.snap = {}
        BY <1>1, <3>1 DEF CallStates
      <3> QED BY <3>6, <3>7 DEF GoodCall, OnPath, Distinct
    <2> QED BY <2>1, <2>2
  <1>4. CASE WriteFile
    <2>1. Reply("failed", 0) \/ Goto("verify") \/ WalkAgain
      BY <1>4 DEF WriteFile
    <2> QED BY <1>1, <2>1, ReplyGood, WalkAgainGood, GotoGood DEF OnPath
  <1>5. CASE SyncFile
    BY <1>1, <1>5, GotoGood DEF SyncFile, OnPath
  <1>6. CASE SyncDirs
    BY <1>6, ReplyGood, WalkAgainGood DEF SyncDirs
  <1> QED BY <1>2, <1>3, <1>4, <1>5, <1>6

\* See ReplyGood: the stages that create, remove and rename, and the report.
LEMMA ChangeGood ==
  ASSUME GoodCall(c), Probe \/ Make \/ Remove \/ Move \/ Report
  PROVE  GoodCall(c')
  <1>1. c \in CallStates
    BY DEF GoodCall
  <1>2. CASE Probe
    <2>1. c.path \in Paths /\ Len(c.path) = 1
      BY <1>2 DEF Probe, GoodCall
    <2>2. Reply("invalid", 0) \/ Goto("make") \/ Reply("ok", WouldBeIndex(c.snap, c.path))
      BY <1>2 DEF Probe
    <2>3. CASE Goto("make")
      <3>1. c' = [c EXCEPT !.pc = "make"]
        BY <2>3 DEF Goto
      <3>2. c' \in CallStates
        BY <1>1, <3>1 DEF CallStates, Stages
      <3>3. c'.pc = "make" /\ c'.snap = c.snap /\ c'.path = c.path
        BY <1>1, <3>1 DEF CallStates
      <3> QED BY <2>1, <3>2, <3>3 DEF GoodCall, OnPath
    <2> QED BY <2>2, <2>3, ReplyGood, RankType
  <1>3. CASE Make
    <2>1. c.path \in Paths
      BY <1>3 DEF Make, GoodCall
    <2>2. Reply("invalid", 0) \/ Reply("failed", 0) \/ WalkAgain \/ Goto("open")
      BY <1>3 DEF Make
    <2> QED BY <2>1, <2>2, ReplyGood, WalkAgainGood, GotoGood DEF OnPath
  <1>4. CASE Remove
    BY <1>4, ReplyGood, WalkAgainGood DEF Remove
  <1>5. CASE Move
    <2>1. Reply("failed", 0) \/ WalkAgain
      BY <1>5 DEF Move
    <2> QED BY <2>1, ReplyGood, WalkAgainGood
  <1>6. CASE Report
    <2>1. \/ Reply("failed", 0)
          \/ Reply("ok", c.call.n)
          \/ \E p : Reply("ok", Rank(c.snap, p))
      BY <1>6 DEF Report
    <2> QED BY <1>1, <2>1, ReplyGood, RankType, StateFields, CallFields
  <1> QED BY <1>2, <1>3, <1>4, <1>5, <1>6

-----------------------------------------------------------------------------
(* Trees *)

\* A tree in which whatever lies above an entry is a directory.
Whole(t) == \A d, p \in Paths : Exists(t, p) /\ Below(d, p) => IsDir(t, d)

\* Above the place of an entry, and of one that is to be made, are directories only.
LEMMA AboveADirectory ==
  ASSUME NEW t, Whole(t), NEW p \in Seq(Nat), p # Root, IsDir(t, Parent(p)),
         NEW d \in Paths, Below(d, p)
  PROVE  IsDir(t, d)
  <1>1. d \in Seq(Nat)
    BY PathFacts
  <1>2. d = Parent(p) \/ Below(d, Parent(p))
    BY <1>1, BelowParent
  <1>3. Parent(p) # Root => Parent(p) \in Paths /\ Exists(t, Parent(p))
    BY DEF IsDir, Exists
  <1>4. ~Below(d, Root)
    <2>1. Len(d) \in Nat
      BY <1>1
    <2> QED BY <2>1 DEF Below, Root
  <1> QED BY <1>2, <1>3, <1>4 DEF Whole

\* See AboveADirectory.
LEMMA InADirectory ==
  ASSUME NEW t, Whole(t), NEW p \in Paths, Exists(t, p)
  PROVE  IsDir(t, Parent(p))
  BY PathFacts DEF Whole, IsDir

\* Below a path without entries there is nothing ...
LEMMA NothingBelow ==
  ASSUME NEW t, Whole(t), NEW p \in Paths, Children(t, p) = {}, NEW r \in Paths, Below(p, r)
  PROVE  ~Exists(t, r)
  <1> SUFFICES ASSUME Exists(t, r) PROVE FALSE
    OBVIOUS
  <1>1. PICK s \in Paths : Parent(s) = p /\ (s = r \/ Below(s, r))
    BY PathFacts, StepTowards
  <1>2. Exists(t, s)
    BY <1>1 DEF Whole, Exists, IsDir
  <1> QED BY <1>1, <1>2 DEF Children

\* ... and only directories have entries.
LEMMA OnlyDirectoriesHoldEntries ==
  ASSUME NEW t, Whole(t), NEW p \in Paths, t[p].kind # "dir"
  PROVE  Children(t, p) = {} /\ \A r \in Paths : Below(p, r) => ~Exists(t, r)
  <1>1. ASSUME NEW r \in Paths, Below(p, r) PROVE ~Exists(t, r)
    BY <1>1, PathFacts DEF Whole, IsDir
  <1>2. \A r \in Paths : Parent(r) = p => Below(p, r)
    BY PathFacts
  <1> QED BY <1>1, <1>2 DEF Children

\* A place that holds no entries may take any node, if it is in a directory.
LEMMA ReplaceLeaf ==
  ASSUME NEW t \in Trees, Whole(t), NEW p \in Paths, NEW n \in Nodes,
         Children(t, p) = {}, IsDir(t, Parent(p)) \/ n = Absent
  PROVE  [t EXCEPT ![p] = n] \in Trees /\ Whole([t EXCEPT ![p] = n])
  <1> DEFINE u == [t EXCEPT ![p] = n]
  <1>1. u \in Trees
    BY DEF Trees
  <1>2. \A r \in Paths : u[r] = IF r = p THEN n ELSE t[r]
    BY DEF Trees
  <1> HIDE DEF u
  <1>3. ASSUME NEW r \in Paths, Exists(u, r), NEW d \in Paths, Below(d, r)
        PROVE  IsDir(u, d)
    <2>1. r # Root /\ r \in Seq(Nat) /\ d \in Seq(Nat)
      BY PathFacts
    <2>2. CASE r = p
      <3>1. IsDir(t, Parent(p))
        BY <1>2, <1>3, <2>1, <2>2, NodeFields DEF Exists
      <3>2. IsDir(t, d) /\ d # p
        BY <1>3, <2>1, <2>2, <3>1, AboveADirectory, BelowIrreflexive
      <3> QED BY <1>2, <3>2 DEF IsDir
    <2>3. CASE r # p
      <3>1. Exists(t, r)
        BY <1>2, <1>3, <2>1, <2>3 DEF Exists
      <3>2. d # p
        BY <1>3, <3>1, NothingBelow
      <3>3. IsDir(t, d)
        BY <1>3, <3>1 DEF Whole
      <3> QED BY <1>2, <3>2, <3>3 DEF IsDir
    <2> QED BY <2>2, <2>3
  <1> QED BY <1>1, <1>3 DEF Whole, u

\* What the medium holds is cut down to a tree.
LEMMA RootedIsWhole ==
  ASSUME NEW t \in Trees
  PROVE  Rooted(t) \in Trees /\ Whole(Rooted(t))
  <1> DEFINE Led(r) == \A d \in Paths : Below(d, r) => IsDir(t, d)
  <1>1. Rooted(t) \in Trees
    BY DEF Rooted, Trees, Nodes
  <1>2. \A r \in Paths : Rooted(t)[r] = IF Led(r) THEN t[r] ELSE Absent
    BY DEF Rooted
  <1>3. ASSUME NEW r \in Paths, Exists(Rooted(t), r), NEW d \in Paths, Below(d, r)
        PROVE  IsDir(Rooted(t), d)
    <2>1. r # Root /\ r \in Seq(Nat) /\ d \in Seq(Nat) /\ d # Root
      BY PathFacts
    <2>2. Led(r)
      <3> HIDE DEF Led
      <3> QED BY <1>2, <1>3, <2>1 DEF Exists, Absent
    <2>3. Led(d)
      <3> SUFFICES ASSUME NEW x \in Paths, Below(x, d) PROVE IsDir(t, x)
        OBVIOUS
      <3>1. Below(x, r)
        BY <1>3, <2>1, PathFacts, BelowTransitive
      <3> QED BY <2>2, <3>1
    <2>4. IsDir(t, d)
      BY <1>3, <2>2
    <2> HIDE DEF Led
    <2>5. Rooted(t)[d] = t[d]
      BY <1>2, <2>3
    <2> QED BY <2>4, <2>5 DEF IsDir
  <1> QED BY <1>1, <1>3 DEF Whole

\* A sibling is in the same directory.
LEMMA SiblingFacts ==
  ASSUME NEW p \in Paths, NEW name \in Nat
  PROVE  /\ Sibling(p, name) \in Seq(Nat) /\ Sibling(p, name) # Root
         /\ Parent(Sibling(p, name)) = Parent(p) /\ Len(Sibling(p, name)) = Len(p)
  <1>1. Parent(p) \in Seq(Nat)
    BY PathFacts
  <1> DEFINE d == Parent(p)
             s == Append(d, name)
  <1> HIDE DEF d
  <1>2. d \in Seq(Nat) /\ Len(d) \in Nat
    BY <1>1 DEF d
  <1>3. /\ s \in Seq(Nat) /\ s # <<>> /\ Len(s) = Len(d) + 1
        /\ \A i \in 1 .. Len(d) : s[i] = d[i]
    BY <1>2, AppendProperties
  <1> HIDE DEF s
  <1>4. \A i \in 1 .. Len(d) : s[i] \in Nat
    BY <1>2, <1>3
  <1>5. Len(s) - 1 = Len(d)
    BY <1>2, <1>3
  <1>6. /\ SubSeq(s, 1, Len(d)) \in Seq(Nat)
        /\ Len(SubSeq(s, 1, Len(d))) = Len(d)
        /\ \A i \in 1 .. Len(d) : SubSeq(s, 1, Len(d))[i] = d[i]
    <2>1. /\ SubSeq(s, 1, Len(d)) \in Seq(Nat)
          /\ Len(SubSeq(s, 1, Len(d))) = IF 1 <= Len(d) THEN Len(d) - 1 + 1 ELSE 0
          /\ \A i \in 1 .. Len(d) - 1 + 1 : SubSeq(s, 1, Len(d))[i] = s[1 + i - 1]
      BY <1>2, <1>4, SubSeqProperties
    <2> QED BY <1>2, <1>3, <2>1
  <1>7. SubSeq(s, 1, Len(d)) = d
    BY <1>2, <1>6, SeqEqual
  <1>8. Parent(s) = d
    BY <1>5, <1>7 DEF Parent
  <1>9. Len(s) = Len(p)
    <2>1. p \in Seq(Nat) /\ p # Root
      BY PathFacts
    <2>2. Len(p) \in Nat /\ Len(d) = Len(p) - 1
      BY <2>1, ParentFacts DEF d
    <2> QED BY <1>3, <2>2
  <1> QED BY <1>3, <1>8, <1>9 DEF Sibling, Root, s, d

\* Where rename(2) of p to q found what it leaves at r.
From(p, q, r) == p \o SubSeq(r, Len(q) + 1, Len(r))

\* The path of it: q is replaced by p.
LEMMA FromMeans ==
  ASSUME NEW p \in Seq(Nat), NEW q \in Seq(Nat), NEW r \in Seq(Nat), Len(q) <= Len(r)
  PROVE  /\ From(p, q, r) \in Seq(Nat) /\ Len(From(p, q, r)) = Len(p) + Len(r) - Len(q)
         /\ \A i \in 1 .. Len(p) + Len(r) - Len(q) :
               From(p, q, r)[i] = IF i <= Len(p) THEN p[i] ELSE r[i - Len(p) + Len(q)]
  <1> DEFINE u == SubSeq(r, Len(q) + 1, Len(r))
             n == Len(r) - Len(q)
  <1>1. Len(p) \in Nat /\ Len(q) \in Nat /\ Len(r) \in Nat /\ n \in Nat
    OBVIOUS
  <1>2. u \in Seq(Nat) /\ Len(u) = n /\ \A i \in 1 .. n : u[i] = r[i + Len(q)]
    <2>1. \A i \in (Len(q) + 1) .. Len(r) : r[i] \in Nat
      <3> SUFFICES ASSUME NEW i \in (Len(q) + 1) .. Len(r) PROVE r[i] \in Nat
        OBVIOUS
      <3>1. i \in 1 .. Len(r)
        BY <1>1
      <3> QED BY <3>1, ElementOfSeq
    <2>2. /\ u \in Seq(Nat)
          /\ Len(u) = IF Len(q) + 1 <= Len(r) THEN Len(r) - (Len(q) + 1) + 1 ELSE 0
          /\ \A i \in 1 .. Len(r) - (Len(q) + 1) + 1 : u[i] = r[Len(q) + 1 + i - 1]
      BY <1>1, <2>1, SubSeqProperties
    <2> HIDE DEF u
    <2> QED BY <1>1, <2>2
  <1> HIDE DEF u, n
  <1>3. /\ p \o u \in Seq(Nat) /\ Len(p \o u) = Len(p) + n
        /\ \A i \in 1 .. Len(p) + n : (p \o u)[i] = IF i <= Len(p) THEN p[i] ELSE u[i - Len(p)]
    <2>1. /\ p \o u \in Seq(Nat) /\ Len(p \o u) = Len(p) + Len(u)
          /\ \A i \in 1 .. Len(p) + Len(u) :
                (p \o u)[i] = IF i <= Len(p) THEN p[i] ELSE u[i - Len(p)]
      BY <1>2, ConcatProperties
    <2> QED BY <1>2, <2>1
  <1>4. ASSUME NEW i \in 1 .. Len(p) + n, ~(i <= Len(p))
        PROVE  u[i - Len(p)] = r[i - Len(p) + Len(q)]
    <2>1. i - Len(p) \in 1 .. n
      BY <1>1, <1>4
    <2> QED BY <1>2, <2>1
  <1>5. From(p, q, r) = p \o u
    BY DEF From, u
  <1>6. \A i \in 1 .. Len(p) + n :
           From(p, q, r)[i] = IF i <= Len(p) THEN p[i] ELSE r[i - Len(p) + Len(q)]
    BY <1>3, <1>4, <1>5
  <1>7. Len(p) + Len(r) - Len(q) = Len(p) + n
    BY <1>1 DEF n
  <1> QED BY <1>3, <1>5, <1>6, <1>7

\* What stood one above the other still does.
LEMMA FromKeepsOrder ==
  ASSUME NEW p \in Seq(Nat), NEW q \in Seq(Nat), NEW r \in Seq(Nat), Below(q, r)
  PROVE  /\ Below(p, From(p, q, r)) /\ From(p, q, q) = p
         /\ \A d \in Seq(Nat) : Below(q, d) /\ Below(d, r) => Below(From(p, q, d), From(p, q, r))
  <1>1. /\ Len(p) \in Nat /\ Len(q) \in Nat /\ Len(r) \in Nat /\ Len(q) < Len(r)
    BY BelowMeans
  <1>2. /\ From(p, q, r) \in Seq(Nat) /\ Len(From(p, q, r)) = Len(p) + Len(r) - Len(q)
        /\ \A i \in 1 .. Len(p) + Len(r) - Len(q) :
              From(p, q, r)[i] = IF i <= Len(p) THEN p[i] ELSE r[i - Len(p) + Len(q)]
    <2>1. Len(q) <= Len(r)
      BY <1>1
    <2> QED BY <2>1, FromMeans
  <1>3. Below(p, From(p, q, r))
    <2>1. Len(p) < Len(From(p, q, r)) /\ \A i \in 1 .. Len(p) : From(p, q, r)[i] = p[i]
      <3>1. Len(p) < Len(p) + Len(r) - Len(q)
        BY <1>1
      <3>2. ASSUME NEW i \in 1 .. Len(p) PROVE From(p, q, r)[i] = p[i]
        <4>1. i \in 1 .. Len(p) + Len(r) - Len(q) /\ i <= Len(p)
          BY <1>1
        <4> QED BY <1>2, <4>1
      <3> QED BY <1>2, <3>1, <3>2
    <2> QED BY <1>2, <2>1, BelowMeans
  <1>4. From(p, q, q) = p
    <2>1. SubSeq(q, Len(q) + 1, Len(q)) = <<>>
      BY <1>1, SubSeqEmpty
    <2> QED BY <2>1, ConcatEmptySeq DEF From
  <1>5. ASSUME NEW d \in Seq(Nat), Below(q, d), Below(d, r)
        PROVE  Below(From(p, q, d), From(p, q, r))
    <2>1. /\ Len(d) \in Nat /\ Len(q) < Len(d) /\ Len(d) < Len(r)
          /\ \A j \in 1 .. Len(d) : r[j] = d[j]
      BY <1>5, BelowMeans
    <2>2. /\ From(p, q, d) \in Seq(Nat) /\ Len(From(p, q, d)) = Len(p) + Len(d) - Len(q)
          /\ \A i \in 1 .. Len(p) + Len(d) - Len(q) :
                From(p, q, d)[i] = IF i <= Len(p) THEN p[i] ELSE d[i - Len(p) + Len(q)]
      BY <1>1, <2>1, FromMeans
    <2>3. Len(From(p, q, d)) < Len(From(p, q, r))
      BY <1>1, <1>2, <2>1, <2>2
    <2>4. ASSUME NEW i \in 1 .. Len(From(p, q, d)) PROVE From(p, q, r)[i] = From(p, q, d)[i]
      <3>1. i \in 1 .. Len(p) + Len(d) - Len(q) /\ i \in 1 .. Len(p) + Len(r) - Len(q)
        BY <1>1, <2>1, <2>2
      <3>2. CASE i <= Len(p)
        BY <1>2, <2>2, <3>1, <3>2
      <3>3. CASE ~(i <= Len(p))
        <4>1. i - Len(p) + Len(q) \in 1 .. Len(d)
          BY <1>1, <2>1, <3>1, <3>3
        <4> QED BY <1>2, <2>1, <2>2, <3>1, <3>3, <4>1
      <3> QED BY <3>2, <3>3
    <2> QED BY <1>2, <2>2, <2>3, <2>4, BelowMeans
  <1> QED BY <1>3, <1>4, <1>5

\* A rename moves what stands at its place and below it.
LEMMA MovedMeans ==
  ASSUME NEW t \in Trees, NEW p \in Paths, NEW q \in Seq(Nat), NEW r \in Paths
  PROVE  /\ Moved(t, p, q)[r] \in Nodes
         /\ r = q => Moved(t, p, q)[r] = t[p]
         /\ Below(q, r) => \/ Moved(t, p, q)[r] = Absent
                           \/ From(p, q, r) \in Paths /\ Moved(t, p, q)[r] = t[From(p, q, r)]
         /\ From(p, q, r) \in Paths /\ Below(q, r) => Moved(t, p, q)[r] = t[From(p, q, r)]
         /\ r # q /\ ~Below(q, r) /\ (r = p \/ Below(p, r)) => Moved(t, p, q)[r] = Absent
         /\ r # q /\ ~Below(q, r) /\ r # p /\ ~Below(p, r) => Moved(t, p, q)[r] = t[r]
  <1>1. Moved(t, p, q)[r] =
          CASE r = q \/ Below(q, r) -> IF From(p, q, r) \in Paths THEN t[From(p, q, r)] ELSE Absent
            [] r # q /\ ~Below(q, r) /\ (r = p \/ Below(p, r)) -> Absent
            [] OTHER -> t[r]
    BY DEF Moved, From
  <1>2. r = q => From(p, q, r) = p
    <2>1. Len(q) \in Nat /\ p \in Seq(Nat)
      BY PathFacts
    <2>2. SubSeq(q, Len(q) + 1, Len(q)) = <<>>
      BY <2>1, SubSeqEmpty
    <2> QED BY <2>1, <2>2, ConcatEmptySeq DEF From
  <1>3. ~Below(q, q)
    BY BelowIrreflexive
  <1>4. Absent \in Nodes /\ \A s \in Paths : t[s] \in Nodes
    BY DEF Nodes, Trees
  <1> QED BY <1>1, <1>2, <1>3, <1>4

\* A rename gives every path a node.
LEMMA MovedIsATree ==
  ASSUME NEW t \in Trees, NEW p \in Paths, NEW q \in Seq(Nat)
  PROVE  Moved(t, p, q) \in Trees
  <1> DEFINE u == Moved(t, p, q)
  <1>1. \A r \in Paths : u[r] \in Nodes
    BY MovedMeans
  <1>2. u = [r \in Paths |-> u[r]]
    BY DEF Moved
  <1> HIDE DEF u
  <1>3. u \in Trees
    BY <1>1, <1>2 DEF Trees
  <1> QED BY <1>3 DEF u

\* A rename within the tree leaves a tree.
LEMMA MovedIsWhole ==
  ASSUME NEW t \in Trees, Whole(t), NEW p \in Paths, NEW q \in Seq(Nat), q # Root,
         IsDir(t, Parent(q)), ~Below(p, q)
  PROVE  Moved(t, p, q) \in Trees /\ Whole(Moved(t, p, q))
  <1> DEFINE u == Moved(t, p, q)
  <1>1. u \in Trees
    BY MovedIsATree
  <1>2. ASSUME NEW r \in Paths, Exists(u, r), NEW d \in Paths, Below(d, r)
        PROVE  IsDir(u, d)
    <2>1. /\ p \in Seq(Nat) /\ p # Root /\ r \in Seq(Nat) /\ r # Root /\ d \in Seq(Nat)
          /\ u[r].kind # "none" /\ Absent.kind = "none"
      BY <1>2, PathFacts DEF Exists, Absent
    <2>2. CASE r = q \/ Below(q, r)
      <3>1. CASE Below(d, q)
        <4>1. d # q /\ ~Below(q, d) /\ d # p /\ ~Below(p, d)
          BY <2>1, <3>1, BelowTransitive, BelowIrreflexive
        <4>2. u[d] = t[d]
          BY <4>1, MovedMeans
        <4>3. IsDir(t, d)
          BY <3>1, AboveADirectory
        <4> HIDE DEF u
        <4> QED BY <4>2, <4>3 DEF IsDir
      <3>2. CASE d = q /\ Below(q, r)
        <4>1. From(p, q, r) \in Paths /\ u[r] = t[From(p, q, r)]
          BY <2>1, <3>2, MovedMeans
        <4>2. Below(p, From(p, q, r))
          BY <2>1, <3>2, FromKeepsOrder
        <4>3. u[d] = t[p]
          BY <3>2, MovedMeans
        <4> HIDE DEF u
        <4>4. IsDir(t, p)
          BY <2>1, <4>1, <4>2 DEF Whole, Exists
        <4> QED BY <2>1, <4>3, <4>4 DEF IsDir
      <3>3. CASE Below(q, d) /\ Below(q, r)
        <4>1. From(p, q, r) \in Paths /\ u[r] = t[From(p, q, r)]
          BY <2>1, <3>3, MovedMeans
        <4>2. Below(From(p, q, d), From(p, q, r)) /\ Below(p, From(p, q, d))
          BY <1>2, <2>1, <3>3, FromKeepsOrder
        <4>3. From(p, q, d) \in Paths
          <5>1. From(p, q, d) \in Seq(Nat)
            BY <2>1, <3>3, BelowMeans, FromMeans
          <5>2. From(p, q, d) # Root
            <6>1. Len(p) \in Nat
              BY <2>1
            <6> QED BY <4>2, <6>1 DEF Below, Root
          <5> QED BY <4>1, <4>2, <5>1, <5>2, AboveIsAPath
        <4>4. u[d] = t[From(p, q, d)]
          BY <3>3, <4>3, MovedMeans
        <4> HIDE DEF u
        <4>5. IsDir(t, From(p, q, d))
          BY <2>1, <4>1, <4>2, <4>3 DEF Whole, Exists
        <4>6. From(p, q, d) # Root
          BY <4>3, PathFacts
        <4> QED BY <4>4, <4>5, <4>6 DEF IsDir
      <3> QED BY <1>2, <2>1, <2>2, <3>1, <3>2, <3>3, BelowInLine, BelowTransitive, BelowIrreflexive
    <2>3. CASE r # q /\ ~Below(q, r)
      <3>1. r # p /\ ~Below(p, r)
        BY <2>1, <2>3, MovedMeans
      <3>2. u[r] = t[r]
        BY <2>3, <3>1, MovedMeans
      <3> HIDE DEF u
      <3>3. IsDir(t, d)
        BY <1>2, <2>1, <3>2 DEF Whole, Exists
      <3>4. d # q /\ ~Below(q, d) /\ d # p /\ ~Below(p, d)
        BY <1>2, <2>1, <2>3, <3>1, BelowTransitive
      <3>5. u[d] = t[d]
        BY <3>4, MovedMeans DEF u
      <3> QED BY <3>3, <3>5 DEF IsDir
    <2> QED BY <2>2, <2>3
  <1> HIDE DEF u
  <1>3. u \in Trees /\ Whole(u)
    BY <1>1, <1>2 DEF Whole
  <1> QED BY <1>3 DEF u

-----------------------------------------------------------------------------
(* Files *)

\* Whatever is behind a barrier with the directories above it is on the medium, and
\* so are they.
OnMedium ==
    \A b \in barrier : b.firm =>
        /\ tree[b.path] = FileOf(b.ino) /\ dtree[b.path] = FileOf(b.ino)
        /\ data[b.ino] = b.bytes /\ ddata[b.ino] = b.bytes
        /\ \A d \in Paths : Below(d, b.path) => dtree[d] = Dir

Barriers == [path : Paths, ino : Inodes, bytes : Contents, firm : BOOLEAN]

FilesInv == GoodFiles /\ Whole(tree) /\ barrier \subseteq Barriers /\ OnMedium

\* What a step leaves behind that the program did not acknowledge.
LEMMA SameFilesStep ==
  ASSUME FilesInv, SameFiles
  PROVE  FilesInv'
  BY DEF FilesInv, GoodFiles, Whole, OnMedium, SameFiles, Exists, IsDir, Barriers

\* A barrier that nobody has broken still holds.
LEMMA AcknowledgedStep ==
  ASSUME FilesInv, barrier' \subseteq barrier,
         \A b \in barrier' : b.firm => tree'[b.path] = FileOf(b.ino) /\ data'[b.ino] = b.bytes,
         UNCHANGED <<dtree, ddata>>,
         tree' \in Trees, Whole(tree'), data' \in [Inodes -> Contents]
  PROVE  FilesInv'
  <1>1. OnMedium'
    BY DEF FilesInv, OnMedium
  <1>2. GoodFiles' /\ barrier' \subseteq Barriers
    BY DEF FilesInv, GoodFiles
  <1>3. Whole(tree)'
    BY DEF Whole, Exists, IsDir
  <1> QED BY <1>1, <1>2, <1>3 DEF FilesInv, Barriers

\* See AcknowledgedStep.
LEMMA BrokenStep ==
  ASSUME FilesInv, barrier' = Acknowledged, UNCHANGED <<dtree, ddata>>,
         tree' \in Trees, Whole(tree'), data' \in [Inodes -> Contents]
  PROVE  FilesInv'
  <1>1. \A b \in barrier' : b \in barrier /\ tree'[b.path] = FileOf(b.ino) /\ data'[b.ino] = b.bytes
    BY DEF Acknowledged
  <1> QED BY <1>1, AcknowledgedStep

\* A new name for a directory or for a file that nobody has opened breaks no barrier.
LEMMA MakeStep ==
  ASSUME FilesInv, NEW p \in Paths, ~Exists(tree, p), IsDir(tree, Parent(p)),
         \/ tree' = [tree EXCEPT ![p] = Dir] /\ data' = data
         \/ \E i \in FreeInodes, bytes \in Contents :
               tree' = [tree EXCEPT ![p] = FileOf(i)] /\ data' = [data EXCEPT ![i] = bytes],
         UNCHANGED <<dtree, ddata, barrier>>
  PROVE  FilesInv'
  <1>1. tree \in Trees /\ Whole(tree) /\ data \in [Inodes -> Contents]
    BY DEF FilesInv, GoodFiles
  <1>2. Children(tree, p) = {}
    <2>1. tree[p].kind # "dir"
      BY DEF Exists
    <2> QED BY <1>1, <2>1, OnlyDirectoriesHoldEntries
  <1>3. PICK n \in Nodes : tree' = [tree EXCEPT ![p] = n]
    BY DEF Nodes, FreeInodes
  <1>4. tree' \in Trees /\ Whole(tree')
    BY <1>1, <1>2, <1>3, ReplaceLeaf
  <1>5. data' \in [Inodes -> Contents]
    BY <1>1
  <1>6. ASSUME NEW b \in barrier', b.firm
        PROVE  tree'[b.path] = FileOf(b.ino) /\ data'[b.ino] = b.bytes
    <2>1. b.path \in Paths /\ b.ino \in Inodes /\ tree[b.path] = FileOf(b.ino) /\ data[b.ino] = b.bytes
      BY <1>6 DEF FilesInv, OnMedium, Barriers
    <2>2. tree[b.path].kind = "file" /\ tree[b.path].ino = b.ino
      BY <2>1 DEF FileOf
    <2>3. b.path # p
      BY <2>2, NodeFields DEF Exists
    <2>4. tree'[b.path] = tree[b.path]
      BY <1>1, <1>3, <2>1, <2>3 DEF Trees
    <2>5. CASE data' = data
      BY <2>1, <2>4, <2>5
    <2>6. CASE \E i \in FreeInodes, bytes \in Contents : data' = [data EXCEPT ![i] = bytes]
      <3>1. PICK i \in FreeInodes, bytes \in Contents : data' = [data EXCEPT ![i] = bytes]
        BY <2>6
      <3>2. i # b.ino
        BY <2>1, <2>2 DEF FreeInodes
      <3>3. data'[b.ino] = data[b.ino]
        BY <1>1, <2>1, <3>1, <3>2
      <3> QED BY <2>1, <2>4, <3>3
    <2> QED BY <2>5, <2>6
  <1> QED BY <1>4, <1>5, <1>6, AcknowledgedStep

\* The names and files that a call changes.
LEMMA CallFiles ==
  ASSUME FilesInv, GoodCall(c), Make \/ Remove \/ Move \/ WriteFile
  PROVE  FilesInv'
  <1>1. tree \in Trees /\ Whole(tree) /\ data \in [Inodes -> Contents] /\ c \in CallStates
    BY DEF FilesInv, GoodFiles, GoodCall
  <1>2. CASE Make
    <2>1. c.path \in Paths /\ Parent(c.path) = Root
      BY <1>2, PathFacts DEF Make, GoodCall
    <2>2. IsDir(tree, Parent(c.path))
      BY <2>1 DEF IsDir
    <2>3. CASE UNCHANGED <<tree, data>>
      BY <1>2, <2>3, SameFilesStep DEF Make, SameFiles
    <2>4. CASE ~Exists(tree, c.path) /\ tree' = [tree EXCEPT ![c.path] = Dir] /\ data' = data
      BY <1>2, <2>1, <2>2, <2>4, MakeStep DEF Make
    <2>5. CASE ~Exists(tree, c.path) /\ FreeInodes # {}
               /\ tree' = [tree EXCEPT ![c.path] = FileOf(CHOOSE i \in FreeInodes : TRUE)]
               /\ data' = [data EXCEPT ![CHOOSE i \in FreeInodes : TRUE] = <<>>]
      <3>1. (CHOOSE i \in FreeInodes : TRUE) \in FreeInodes /\ <<>> \in Contents
        BY <2>5, EmptySeq DEF Contents
      <3>2. \E i \in FreeInodes, bytes \in Contents :
               tree' = [tree EXCEPT ![c.path] = FileOf(i)] /\ data' = [data EXCEPT ![i] = bytes]
        BY <2>5, <3>1
      <3> QED BY <1>2, <2>1, <2>2, <2>5, <3>2, MakeStep DEF Make
    <2> QED BY <1>2, <2>3, <2>4, <2>5 DEF Make
  <1>3. CASE Remove
    <2>1. CASE ~Removable
      BY <1>3, <2>1, SameFilesStep DEF Remove, SameFiles
    <2>2. CASE Removable
      <3>1. c.path \in Paths
        BY <1>3 DEF Remove, GoodCall, OnPath
      <3>2. Children(tree, c.path) = {}
        <4>1. CASE c.was = "dir"
          BY <2>2, <4>1 DEF Removable
        <4>2. CASE c.was # "dir"
          <5>1. tree[c.path].kind # "dir"
            BY <2>2, <4>2 DEF Removable
          <5> QED BY <1>1, <3>1, <5>1, OnlyDirectoriesHoldEntries
        <4> QED BY <4>1, <4>2
      <3>3. tree' = [tree EXCEPT ![c.path] = Absent] /\ data' = data /\ barrier' = Acknowledged
        BY <1>3, <2>2 DEF Remove
      <3>4. Absent \in Nodes
        BY DEF Nodes
      <3>5. tree' \in Trees /\ Whole(tree')
        BY <1>1, <3>1, <3>2, <3>3, <3>4, ReplaceLeaf
      <3> QED BY <1>1, <1>3, <3>3, <3>5, BrokenStep DEF Remove
    <2> QED BY <2>1, <2>2
  <1>4. CASE Move
    <2>1. CASE UNCHANGED <<tree, barrier>>
      BY <1>4, <2>1, SameFilesStep DEF Move, SameFiles
    <2>2. CASE c.path # Dest /\ CanMove(tree, c.path, Dest) /\ barrier' = Acknowledged
               /\ tree' = Moved(tree, c.path, Dest)
      <3>1. c.path \in Paths /\ c.call.name \in Nat
        BY <1>1, <1>4, StateFields, CallFields DEF Move, GoodCall, OnPath
      <3>2. Dest \in Seq(Nat) /\ Dest # Root /\ Parent(Dest) = Parent(c.path) /\ Len(Dest) = Len(c.path)
        BY <3>1, SiblingFacts DEF Dest
      <3>3. Exists(tree, c.path) /\ IsDir(tree, Parent(Dest))
        BY <1>1, <2>2, <3>1, <3>2, InADirectory DEF CanMove
      <3>4. ~Below(c.path, Dest)
        <4>1. Len(c.path) \in Nat
          BY <3>1, PathFacts
        <4> QED BY <3>2, <4>1 DEF Below
      <3>5. tree' \in Trees /\ Whole(tree')
        BY <1>1, <2>2, <3>1, <3>2, <3>3, <3>4, MovedIsWhole
      <3> QED BY <1>1, <1>4, <2>2, <3>5, BrokenStep DEF Move
    <2> QED BY <1>4, <2>1, <2>2 DEF Move
  <1>5. CASE WriteFile
    <2>1. PICK off \in {Len(data[c.fd]), c.call.off, 0}, n \in 0 .. c.call.n :
                  data' = [data EXCEPT ![c.fd] = Written(@, off, n)]
      BY <1>5 DEF WriteFile
    <2>2. c.fd \in Inodes /\ data[c.fd] \in Seq(Bytes) /\ Len(data[c.fd]) \in Nat
      BY <1>1, <1>5, LenProperties DEF WriteFile, GoodCall, Contents
    <2>3. off \in Nat /\ n \in Nat
      <3>1. c.call.off \in Nat /\ c.call.n \in Nat
        BY <1>1, StateFields, CallFields
      <3> QED BY <2>2, <3>1
    <2>4. Written(data[c.fd], off, n) \in Contents
      <3> DEFINE old == data[c.fd]
                 m == IF Len(old) > off + n THEN Len(old) ELSE off + n
                 w == Written(old, off, n)
      <3>1. CASE n = 0
        BY <2>2, <3>1 DEF Written, Contents
      <3>2. CASE n # 0
        <4>1. m \in Nat
          BY <2>2, <2>3
        <4>2. \A k \in 1 .. m : w[k] \in Bytes
          <5> SUFFICES ASSUME NEW k \in 1 .. m PROVE w[k] \in Bytes
            OBVIOUS
          <5>1. w[k] = CASE k > off /\ k <= off + n -> "p"
                         [] k <= Len(old) /\ (k <= off \/ k > off + n) -> old[k]
                         [] OTHER -> "0"
            BY <3>2 DEF Written
          <5>2. k <= Len(old) => old[k] \in Bytes
            BY <2>2, <4>1, ElementOfSeq
          <5> QED BY <5>1, <5>2 DEF Bytes
        <4>3. w = [k \in 1 .. m |-> w[k]]
          BY <3>2 DEF Written
        <4> HIDE DEF w, m
        <4>4. w \in [1 .. m -> Bytes]
          BY <4>2, <4>3
        <4> QED BY <4>1, <4>4, SeqDef DEF Contents, w
      <3> QED BY <3>1, <3>2
    <2>5. data' \in [Inodes -> Contents]
      BY <1>1, <2>1, <2>2, <2>4
    <2>6. tree' = tree /\ barrier' = Acknowledged /\ UNCHANGED <<dtree, ddata>>
      BY <1>5 DEF WriteFile
    <2> QED BY <1>1, <2>5, <2>6, BrokenStep
  <1> QED BY <1>2, <1>3, <1>4, <1>5

\* fs_sync_at puts a file, its name, and the names that the root holds on the medium.
LEMMA SyncFiles ==
  ASSUME FilesInv, GoodCall(c), SyncFile \/ SyncDirs
  PROVE  FilesInv'
  <1>1. tree \in Trees /\ Whole(tree) /\ dtree \in Trees
    BY DEF FilesInv, GoodFiles
  <1>2. CASE SyncFile
    <2>1. c.fd \in Inodes /\ data \in [Inodes -> Contents] /\ ddata \in [Inodes -> Contents]
      BY <1>2 DEF SyncFile, GoodCall, FilesInv, GoodFiles
    <2>2. ddata' = [ddata EXCEPT ![c.fd] = data[c.fd]]
      BY <1>2 DEF SyncFile
    <2>3. \A b \in barrier : b.firm => ddata'[b.ino] = b.bytes
      BY <2>1, <2>2 DEF FilesInv, OnMedium, Barriers
    <2>4. OnMedium'
      BY <1>2, <2>3 DEF SyncFile, FilesInv, OnMedium
    <2>5. GoodFiles'
      BY <1>2, <2>1, <2>2 DEF SyncFile, FilesInv, GoodFiles
    <2>6. Whole(tree)'
      BY <1>2 DEF SyncFile, FilesInv, Whole, Exists, IsDir
    <2> QED BY <1>2, <2>4, <2>5, <2>6 DEF SyncFile, FilesInv, Barriers
  <1>3. CASE SyncDirs
    <2>1. CASE UNCHANGED <<dtree, barrier>>
      BY <1>3, <2>1, SameFilesStep DEF SyncDirs, SameFiles
    <2>2. CASE IsDir(tree, Parent(c.path))
      <3>1. c.path \in Paths
        BY <1>3 DEF SyncDirs, GoodCall, OnPath
      <3>2. dtree' = [p \in Paths |-> IF Parent(p) \in SyncedDirs THEN tree[p] ELSE dtree[p]]
        BY <1>3, <2>2 DEF SyncDirs
      <3>3. dtree' \in Trees
        BY <1>1, <3>2 DEF Trees
      <3>4. ASSUME NEW b \in barrier'
            PROVE  /\ b \in Barriers
                   /\ b.firm => /\ tree[b.path] = FileOf(b.ino) /\ dtree'[b.path] = FileOf(b.ino)
                                /\ data[b.ino] = b.bytes /\ ddata[b.ino] = b.bytes
                                /\ \A d \in Between(b.path) : dtree[d] = Dir
        <4>1. CASE b \in barrier
          BY <3>2, <4>1 DEF FilesInv, OnMedium, Barriers, Between
        <4>2. CASE b \notin barrier
          <5>1. /\ b = [path |-> c.path, ino |-> c.fd, bytes |-> data[c.fd],
                        firm |-> \A d \in Between(c.path) : dtree[d] = Dir]
                /\ c.fd # 0 /\ tree[c.path] = FileOf(c.fd) /\ ddata[c.fd] = data[c.fd]
            BY <1>3, <2>2, <4>2 DEF SyncDirs
          <5>2. c.fd \in Inodes
            BY <5>1, StateFields DEF GoodCall
          <5>3. data[c.fd] \in Contents
            BY <5>2 DEF FilesInv, GoodFiles
          <5>4. dtree'[c.path] = FileOf(c.fd)
            BY <3>1, <3>2, <5>1 DEF SyncedDirs
          <5>5. b \in Barriers
            BY <3>1, <5>1, <5>2, <5>3 DEF Barriers
          <5>6. /\ b.path = c.path /\ b.ino = c.fd /\ b.bytes = data[c.fd]
                /\ b.firm <=> \A d \in Between(c.path) : dtree[d] = Dir
            BY <5>1
          <5> QED BY <5>1, <5>4, <5>5, <5>6
        <4> QED BY <4>1, <4>2
      <3>5. ASSUME NEW b \in barrier', b.firm, NEW d \in Paths, Below(d, b.path)
            PROVE  dtree'[d] = Dir
        <4>1. b.path \in Paths /\ Exists(tree, b.path)
          <5>1. b \in Barriers /\ tree[b.path] = FileOf(b.ino)
            BY <3>4, <3>5
          <5> QED BY <5>1 DEF Barriers, Exists, FileOf
        <4>2. tree[d] = Dir
          <5>1. IsDir(tree, d) /\ tree[d] \in Nodes
            BY <1>1, <3>5, <4>1 DEF Whole, Trees
          <5>2. tree[d].kind = "dir"
            BY <5>1, PathFacts DEF IsDir
          <5> QED BY <5>1, <5>2 DEF Nodes, Absent, Link, FileOf
        <4>3. CASE Parent(d) = Root
          BY <3>2, <4>2, <4>3 DEF SyncedDirs
        <4>4. CASE Parent(d) # Root
          <5>1. d \in Between(b.path)
            BY <3>5, <4>4 DEF Between
          <5>2. dtree[d] = Dir
            BY <3>4, <3>5, <5>1
          <5> QED BY <3>2, <4>2, <5>2
        <4> QED BY <4>3, <4>4
      <3>6. UNCHANGED <<tree, data, ddata>>
        BY <1>3 DEF SyncDirs
      <3>7. OnMedium'
        BY <3>4, <3>5, <3>6 DEF OnMedium
      <3>8. GoodFiles' /\ barrier' \subseteq Barriers
        BY <3>3, <3>4, <3>6 DEF FilesInv, GoodFiles
      <3>9. Whole(tree)'
        BY <1>1, <3>6 DEF Whole, Exists, IsDir
      <3> QED BY <3>7, <3>8, <3>9 DEF FilesInv, Barriers
    <2> QED BY <1>3, <2>1, <2>2 DEF SyncDirs
  <1> QED BY <1>2, <1>3

\* The other process makes, removes, links, truncates and renames.
LEMMA OtherFiles ==
  ASSUME FilesInv, NEW p \in Paths,
         \/ OtherMakes(p) \/ OtherRemoves(p) \/ OtherTruncates(p) \/ OtherLinks(p)
         \/ \E q \in Paths : OtherMoves(p, q)
  PROVE  FilesInv'
  <1>1. tree \in Trees /\ Whole(tree) /\ data \in [Inodes -> Contents] /\ tree[p] \in Nodes
    BY DEF FilesInv, GoodFiles, Trees
  <1>2. <<"o">> \in Contents /\ <<>> \in Contents
    <2>1. "o" \in Bytes
      BY DEF Bytes
    <2> QED BY <2>1, EmptySeq DEF Contents
  <1>3. CASE OtherMakes(p)
    <2>1. ~Exists(tree, p) /\ IsDir(tree, Parent(p)) /\ UNCHANGED <<dtree, ddata, barrier>>
      BY <1>3 DEF OtherMakes, Other
    <2>2. \/ tree' = [tree EXCEPT ![p] = Dir] /\ data' = data
          \/ \E i \in FreeInodes, bytes \in Contents :
               tree' = [tree EXCEPT ![p] = FileOf(i)] /\ data' = [data EXCEPT ![i] = bytes]
      BY <1>2, <1>3 DEF OtherMakes
    <2> QED BY <2>1, <2>2, MakeStep
  <1>4. CASE OtherRemoves(p) \/ OtherLinks(p)
    <2>1. /\ \E n \in {Absent, Link} : tree' = [tree EXCEPT ![p] = n]
          /\ data' = data /\ barrier' = Acknowledged /\ UNCHANGED <<dtree, ddata>>
      BY <1>4 DEF OtherRemoves, OtherLinks, Other
    <2>2. Children(tree, p) = {} /\ IsDir(tree, Parent(p))
      <3>1. CASE OtherRemoves(p)
        BY <1>1, <3>1, InADirectory DEF OtherRemoves
      <3>2. CASE OtherLinks(p)
        <4>1. tree[p].kind = "file"
          BY <3>2 DEF OtherLinks
        <4> QED BY <1>1, <4>1, OnlyDirectoriesHoldEntries, InADirectory DEF Exists
      <3> QED BY <1>4, <3>1, <3>2
    <2>3. Absent \in Nodes /\ Link \in Nodes
      BY DEF Nodes
    <2>4. tree' \in Trees /\ Whole(tree')
      <3>1. PICK n \in Nodes : tree' = [tree EXCEPT ![p] = n]
        BY <2>1, <2>3
      <3> QED BY <1>1, <2>2, <3>1, ReplaceLeaf
    <2> QED BY <1>1, <2>1, <2>4, BrokenStep
  <1>5. CASE OtherTruncates(p)
    <2>1. tree[p].ino \in Inodes
      BY <1>1, <1>5, NodeFields DEF OtherTruncates
    <2>2. data' \in [Inodes -> Contents]
      BY <1>1, <1>2, <1>5, <2>1 DEF OtherTruncates
    <2> QED BY <1>1, <1>5, <2>2, BrokenStep DEF OtherTruncates, Other
  <1>6. CASE \E q \in Paths : OtherMoves(p, q)
    <2>1. PICK q \in Paths : OtherMoves(p, q)
      BY <1>6
    <2>2. p \in Seq(Nat) /\ q \in Seq(Nat) /\ p # Root /\ q # Root
      BY PathFacts
    <2>3. ~Below(p, q) /\ IsDir(tree, Parent(q))
      BY <2>1 DEF OtherMoves
    <2>4. tree' = Moved(tree, p, q) /\ data' = data /\ barrier' = Acknowledged
          /\ UNCHANGED <<dtree, ddata>>
      BY <2>1 DEF OtherMoves, Other
    <2>5. tree' \in Trees /\ Whole(tree')
      BY <1>1, <2>2, <2>3, <2>4, MovedIsWhole
    <2> QED BY <1>1, <2>4, <2>5, BrokenStep
  <1> QED BY <1>3, <1>4, <1>5, <1>6

\* A power loss keeps what is on the medium, and of the rest any part.
LEMMA PowerLossFiles ==
  ASSUME FilesInv, PowerLoss
  PROVE  FilesInv'
  <1>1. /\ tree \in Trees /\ Whole(tree) /\ dtree \in Trees
        /\ data \in [Inodes -> Contents] /\ ddata \in [Inodes -> Contents]
    BY DEF FilesInv, GoodFiles
  <1>2. PICK kept \in SUBSET {p \in Paths : tree[p] # dtree[p]},
             bytes \in SUBSET {i \in Inodes : data[i] # ddata[i]} :
          /\ tree' = Rooted([p \in Paths |-> IF p \in kept THEN tree[p] ELSE dtree[p]])
          /\ data' = [i \in Inodes |-> IF i \in bytes THEN data[i] ELSE ddata[i]]
    BY DEF PowerLoss
  <1> DEFINE t == [p \in Paths |-> IF p \in kept THEN tree[p] ELSE dtree[p]]
  <1>3. t \in Trees /\ \A p \in Paths : t[p] \in {tree[p], dtree[p]}
    BY <1>1 DEF Trees
  <1>4. tree' = Rooted(t) /\ dtree' = tree' /\ ddata' = data' /\ barrier' = barrier
    BY <1>2 DEF PowerLoss
  <1> HIDE DEF t
  <1>5. tree' \in Trees /\ Whole(tree')
    BY <1>3, <1>4, RootedIsWhole
  <1>6. data' \in [Inodes -> Contents]
    BY <1>1, <1>2
  <1>7. ASSUME NEW b \in barrier, b.firm
        PROVE  /\ tree'[b.path] = FileOf(b.ino) /\ data'[b.ino] = b.bytes
               /\ \A d \in Paths : Below(d, b.path) => tree'[d] = Dir
    <2>1. b.path \in Paths /\ b.ino \in Inodes
      BY DEF FilesInv, Barriers
    <2>2. /\ tree[b.path] = FileOf(b.ino) /\ dtree[b.path] = FileOf(b.ino)
          /\ data[b.ino] = b.bytes /\ ddata[b.ino] = b.bytes
          /\ \A d \in Paths : Below(d, b.path) => dtree[d] = Dir
      BY <1>7 DEF FilesInv, OnMedium
    <2>3. \A d \in Paths : Below(d, b.path) => t[d] = Dir
      <3> SUFFICES ASSUME NEW d \in Paths, Below(d, b.path) PROVE t[d] = Dir
        OBVIOUS
      <3>1. Exists(tree, b.path)
        BY <2>1, <2>2 DEF Exists, FileOf
      <3>2. IsDir(tree, d) /\ tree[d] \in Nodes
        BY <1>1, <2>1, <3>1 DEF Whole, Trees
      <3>3. tree[d].kind = "dir"
        BY <3>2, PathFacts DEF IsDir
      <3>4. tree[d] = Dir
        BY <3>2, <3>3 DEF Nodes, Absent, Link, FileOf
      <3> QED BY <1>3, <2>2, <3>4
    <2>4. t[b.path] = FileOf(b.ino)
      BY <1>3, <2>1, <2>2
    <2>5. \A r \in Paths : (\A d \in Paths : Below(d, r) => t[d] = Dir) => tree'[r] = t[r]
      BY <1>4 DEF Rooted, IsDir, Dir
    <2>6. \A d \in Paths : Below(d, b.path) =>
             \A x \in Paths : Below(x, d) => Below(x, b.path)
      BY <2>1, PathFacts, BelowTransitive
    <2>7. \A d \in Paths : Below(d, b.path) => tree'[d] = Dir
      BY <2>3, <2>5, <2>6
    <2>8. tree'[b.path] = FileOf(b.ino)
      BY <2>1, <2>3, <2>4, <2>5
    <2>9. data'[b.ino] = b.bytes
      BY <1>2, <2>1, <2>2
    <2> QED BY <2>7, <2>8, <2>9
  <1>8. OnMedium'
    BY <1>4, <1>7 DEF OnMedium
  <1>9. GoodFiles' /\ barrier' \subseteq Barriers
    BY <1>4, <1>5, <1>6 DEF FilesInv, GoodFiles
  <1>10. Whole(tree)'
    BY <1>5 DEF Whole, Exists, IsDir
  <1> QED BY <1>8, <1>9, <1>10 DEF FilesInv, Barriers

-----------------------------------------------------------------------------
(* The invariant *)

IndInv ==
    /\ FilesInv /\ GoodCall(c)
    /\ memo \in [i : Nat, path : Places]
    /\ left \in [calls : Nat, other : Nat, crashes : Nat]

\* It holds when the program has made no call.
LEMMA InitInv == Init => IndInv
  <1> SUFFICES ASSUME Init PROVE IndInv
    OBVIOUS
  <1>1. \A p \in Paths : FirstNode(p) \in Nodes /\ FirstNode(p).kind = FirstTree[p]
    <2> SUFFICES ASSUME NEW p \in Paths
                 PROVE  FirstNode(p) \in Nodes /\ FirstNode(p).kind = FirstTree[p]
      OBVIOUS
    <2>1. \E i \in Inodes : \A j \in Inodes : i <= j
      <3>1. Inodes \in SUBSET Nat /\ Inodes # {}
        BY ConstantsAssumption
      <3> QED BY <3>1, LeastNumber
    <2>2. (CHOOSE i \in Inodes : \A j \in Inodes : i <= j) \in Inodes
      BY <2>1
    <2>3. FirstTree[p] \in {"none", "file", "dir"}
      BY ConstantsAssumption
    <2> QED BY <2>2, <2>3 DEF FirstNode, Nodes, Absent, Dir, FileOf
  <1>2. tree \in Trees /\ dtree = tree
    BY <1>1 DEF Init, Trees
  <1>3. Whole(tree)
    <2> SUFFICES ASSUME NEW d \in Paths, NEW p \in Paths, Exists(tree, p), Below(d, p)
                 PROVE  IsDir(tree, d)
      BY DEF Whole
    <2>1. p # Root
      BY PathFacts
    <2>2. tree[p].kind = FirstTree[p] /\ tree[d].kind = FirstTree[d]
      BY <1>1 DEF Init
    <2>3. FirstTree[p] # "none"
      BY <2>1, <2>2 DEF Exists
    <2>4. FirstTree[d] = "dir"
      BY <2>3, ConstantsAssumption
    <2> QED BY <2>2, <2>4 DEF IsDir
  <1>4. data \in [Inodes -> Contents] /\ ddata = data
    <2>1. "o" \in Bytes
      BY DEF Bytes
    <2>2. <<"o">> \in Contents
      BY <2>1 DEF Contents
    <2> QED BY <2>2 DEF Init
  <1>5. FilesInv
    BY <1>2, <1>3, <1>4 DEF Init, FilesInv, GoodFiles, OnMedium
  <1>6. GoodCall(c)
    BY IdleGood DEF Init
  <1> QED BY <1>5, <1>6, ConstantsAssumption DEF Init, IndInv, Places

\* A step of a call, of the other process or of the power supply keeps it.
LEMMA NextInv == IndInv /\ [Next]_vars => IndInv'
  <1> SUFFICES ASSUME IndInv, [Next]_vars PROVE IndInv'
    OBVIOUS
  <1>0. FilesInv /\ GoodFiles /\ GoodCall(c) /\ c \in CallStates
    BY DEF IndInv, FilesInv, GoodCall
  <1> DEFINE Kept == UNCHANGED <<memo, left>>
  <1>1. CASE UNCHANGED vars
    BY <1>0, <1>1, SameFilesStep DEF vars, IndInv, SameFiles, GoodCall
  <1>2. ASSUME NEW call \in Calls, Begin(call) PROVE IndInv'
    <2>1. left' \in [calls : Nat, other : Nat, crashes : Nat]
      BY <1>2 DEF Begin, IndInv
    <2> QED BY <1>0, <1>2, <2>1, SameFilesStep, BeginGood DEF Begin, IndInv, GoodCall
  <1>3. ASSUME NEW d \in Places, WalkDir(d) PROVE IndInv'
    BY <1>0, <1>3, SameFilesStep, WalkGood DEF WalkDir, SameWorld, IndInv, GoodCall
  <1>4. CASE AnswerListing
    <2>1. memo' \in [i : Nat, path : Places]
      <3>1. CASE UNCHANGED memo
        BY <3>1 DEF IndInv
      <3>2. CASE ~Refused /\ memo' = [i |-> c.call.i, path |-> EntryAt(c.snap, c.call.i).path]
        BY <1>0, <3>2, SelectedEntry, StateFields, CallFields DEF Places
      <3> QED BY <1>4, <3>1, <3>2 DEF AnswerListing
    <2> QED BY <1>0, <1>4, <2>1, SameFilesStep, SelectGood DEF AnswerListing, IndInv, GoodCall
  <1>5. CASE SelectName \/ SelectEntry
    <2>1. SameFiles /\ Kept
      BY <1>5 DEF SelectName, SelectEntry, SameWorld
    <2> QED BY <1>0, <1>5, <2>1, SameFilesStep, SelectGood DEF IndInv, GoodCall
  <1>6. CASE Resolve \/ Measure \/ Verify \/ LooksEmpty \/ Destination
    <2>1. SameFiles /\ Kept
      BY <1>6 DEF Resolve, Measure, Verify, LooksEmpty, Destination, SameWorld
    <2> QED BY <1>0, <1>6, <2>1, SameFilesStep, CheckGood DEF IndInv, GoodCall
  <1>7. CASE Open \/ ReadFile
    <2>1. SameFiles /\ Kept
      BY <1>7 DEF Open, ReadFile, SameWorld
    <2> QED BY <1>0, <1>7, <2>1, SameFilesStep, FileGood DEF IndInv, GoodCall
  <1>8. CASE WriteFile
    <2>1. Kept
      BY <1>8 DEF WriteFile
    <2> QED BY <1>0, <1>8, <2>1, CallFiles, FileGood DEF IndInv, GoodCall
  <1>9. CASE SyncFile \/ SyncDirs
    <2>1. Kept
      BY <1>9 DEF SyncFile, SyncDirs
    <2> QED BY <1>0, <1>9, <2>1, SyncFiles, FileGood DEF IndInv, GoodCall
  <1>10. CASE Probe
    <2>1. SameFiles /\ Kept
      BY <1>10 DEF Probe
    <2> QED BY <1>0, <1>10, <2>1, SameFilesStep, ChangeGood DEF IndInv, GoodCall
  <1>11. CASE Make \/ Move
    <2>1. Kept
      BY <1>11 DEF Make, Move
    <2> QED BY <1>0, <1>11, <2>1, CallFiles, ChangeGood DEF IndInv, GoodCall
  <1>12. CASE Remove
    <2>1. UNCHANGED left /\ memo' \in [i : Nat, path : Places]
      BY <1>12 DEF Remove, IndInv, Places
    <2> QED BY <1>0, <1>12, <2>1, CallFiles, ChangeGood DEF IndInv, GoodCall
  <1>13. CASE Report
    <2> DEFINE target == IF c.call.op = "rename" THEN Dest ELSE c.path
    <2>1. UNCHANGED memo \/ (Lists(c.snap, target) /\ Remember(Rank(c.snap, target), target))
      BY <1>13 DEF Report
    <2>2. memo' \in [i : Nat, path : Places]
      <3>1. CASE UNCHANGED memo
        BY <3>1 DEF IndInv
      <3>2. CASE Lists(c.snap, target) /\ Remember(Rank(c.snap, target), target)
        <4> HIDE DEF target
        <4>1. target \in Paths
          BY <1>0, <3>2, StateFields DEF Lists, Listed
        <4> QED BY <1>0, <3>2, <4>1, RankType DEF Remember, Places
      <3> QED BY <2>1, <3>1, <3>2
    <2>3. SameFiles /\ UNCHANGED left
      BY <1>13 DEF Report
    <2> QED BY <1>0, <1>13, <2>2, <2>3, SameFilesStep, ChangeGood DEF IndInv, GoodCall
  <1>14. ASSUME NEW p \in Paths,
                \/ OtherMakes(p) \/ OtherRemoves(p) \/ OtherTruncates(p) \/ OtherLinks(p)
                \/ \E q \in Paths : OtherMoves(p, q)
         PROVE  IndInv'
    <2>1. Other
      BY <1>14 DEF OtherMakes, OtherRemoves, OtherTruncates, OtherLinks, OtherMoves
    <2>2. left' \in [calls : Nat, other : Nat, crashes : Nat]
      BY <2>1 DEF Other, IndInv
    <2>3. UNCHANGED <<c, memo>>
      BY <2>1 DEF Other
    <2> QED BY <1>0, <1>14, <2>2, <2>3, OtherFiles DEF IndInv, GoodCall
  <1>15. CASE PowerLoss
    <2>1. left' \in [calls : Nat, other : Nat, crashes : Nat]
      BY <1>15 DEF PowerLoss, IndInv
    <2>2. c' = Idle /\ memo' \in [i : Nat, path : Places]
      BY <1>15 DEF PowerLoss, Places
    <2> QED BY <1>0, <1>15, <2>1, <2>2, PowerLossFiles, IdleGood DEF IndInv, GoodCall
  <1> QED BY <1>1, <1>2, <1>3, <1>4, <1>5, <1>6, <1>7, <1>8, <1>9, <1>10, <1>11, <1>12, <1>13,
             <1>14, <1>15 DEF Next, Places

-----------------------------------------------------------------------------
(* Intent *)

\* What comes before y in the listing of u is what comes before it in the listing of t
\* without x, when u differs from t only in that x is gone and y may be there.
LEMMA SameRank ==
  ASSUME NEW t \in Trees, NEW u \in Trees, NEW x, NEW y \in Paths,
         \A r \in Paths \ {y} :
            IF r = x THEN ~Exists(u, r)
            ELSE (Exists(t, r) <=> Exists(u, r)) /\ (Exists(t, r) => t[r] = u[r])
  PROVE  Rank({e \in Snapshot(t) : e.path # x}, y) = Rank(Snapshot(u), y)
  <1> DEFINE S == {e \in Snapshot(t) : e.path # x}
             A == {e \in Listed(S) : Less(e.path, y)}
             B == {e \in Listed(Snapshot(u)) : Less(e.path, y)}
             E(w, r) == Entry(w, r)
  <1>1. ~Less(y, y)
    BY PathFacts, LessIrreflexive
  <1>2. ASSUME NEW e \in A PROVE e \in B
    <2>1. e \in Snapshot(t) /\ e.path # x /\ e.path \notin Long /\ Less(e.path, y)
      BY DEF Listed
    <2>2. PICK r \in Paths : Exists(t, r) /\ e = E(t, r)
      BY <2>1 DEF Snapshot
    <2>3. e.path = r
      BY <2>2 DEF Entry
    <2>4. Exists(u, r) /\ t[r] = u[r]
      BY <1>1, <2>1, <2>2, <2>3
    <2>5. e = E(u, r)
      BY <2>2, <2>4 DEF Entry
    <2>6. e \in Snapshot(u)
      BY <2>2, <2>4, <2>5 DEF Snapshot
    <2> QED BY <2>1, <2>6 DEF Listed
  <1>3. ASSUME NEW e \in B PROVE e \in A
    <2>1. e \in Snapshot(u) /\ e.path \notin Long /\ Less(e.path, y)
      BY DEF Listed
    <2>2. PICK r \in Paths : Exists(u, r) /\ e = E(u, r)
      BY <2>1 DEF Snapshot
    <2>3. e.path = r
      BY <2>2 DEF Entry
    <2>4. r # x /\ Exists(t, r) /\ t[r] = u[r]
      BY <1>1, <2>1, <2>2, <2>3
    <2>5. e = E(t, r)
      BY <2>2, <2>4 DEF Entry
    <2>6. e \in Snapshot(t)
      BY <2>2, <2>4, <2>5 DEF Snapshot
    <2> QED BY <2>1, <2>3, <2>4, <2>6 DEF Listed
  <1>4. A = B
    <2> HIDE DEF A, B
    <2> QED BY <1>2, <1>3
  <1> QED BY <1>4 DEF Rank

\* A tree whose entries are in directories gives the same index to an intent.
LEMMA WholeTreesIntend ==
  ASSUME tree \in Trees, Whole(tree)
  PROVE  IntentIsExact
  <1> DEFINE now == Snapshot(tree)
  <1> SUFFICES ASSUME NEW p \in Paths \ Long, IsDir(tree, Parent(p))
               PROVE  /\ ~Exists(tree, p) => LET t == [tree EXCEPT ![p] = Dir]
                                             IN WouldBeIndex(now, p) = Rank(Snapshot(t), p)
                      /\ \A q \in Paths \ Long :
                            /\ tree[q].kind = "file" /\ Parent(q) = Parent(p)
                            /\ ~IsDir(tree, p) /\ CanMove(tree, q, p)
                            => RenamedIndex(now, q, p) = Rank(Snapshot(Moved(tree, q, p)), p)
    BY DEF IntentIsExact
  <1>1. ASSUME ~Exists(tree, p)
        PROVE  WouldBeIndex(now, p) = Rank(Snapshot([tree EXCEPT ![p] = Dir]), p)
    <2> DEFINE u == [tree EXCEPT ![p] = Dir]
    <2>1. u \in Trees /\ \A r \in Paths \ {p} : u[r] = tree[r]
      BY DEF Trees, Nodes
    <2>2. \A r \in Paths \ {p} : Exists(tree, r) <=> Exists(u, r)
      BY <2>1 DEF Exists
    <2> HIDE DEF u
    <2>3. Rank({e \in now : e.path # p}, p) = Rank(Snapshot(u), p)
      BY <2>1, <2>2, SameRank
    <2>4. {e \in now : e.path # p} = now
      BY <1>1 DEF Snapshot, Entry
    <2> QED BY <2>3, <2>4 DEF WouldBeIndex, u
  <1>2. ASSUME NEW q \in Paths \ Long, tree[q].kind = "file", Parent(q) = Parent(p),
               ~IsDir(tree, p), CanMove(tree, q, p)
        PROVE  RenamedIndex(now, q, p) = Rank(Snapshot(Moved(tree, q, p)), p)
    <2> DEFINE u == Moved(tree, q, p)
    <2>1. p \in Seq(Nat) /\ q \in Seq(Nat) /\ ~Below(p, q) /\ ~Below(p, p)
      <3>1. p \in Seq(Nat) /\ q \in Seq(Nat) /\ p # Root /\ q # Root
        BY PathFacts
      <3>2. Len(p) \in Nat /\ Len(q) \in Nat /\ Len(q) = Len(p)
        <4>1. Len(Parent(p)) = Len(p) - 1 /\ Len(Parent(q)) = Len(q) - 1
          BY <3>1, ParentFacts
        <4> QED BY <1>2, <3>1, <4>1
      <3> QED BY <3>1, <3>2 DEF Below
    <2>2. u \in Trees
      BY <2>1, MovedIsATree
    <2>3. \A r \in Paths : Below(p, r) \/ Below(q, r) => tree[r].kind = "none"
      <3>1. tree[p].kind # "dir"
        BY <1>2 DEF IsDir
      <3> QED BY <1>2, <3>1, OnlyDirectoriesHoldEntries DEF Exists
    <2>4. ASSUME NEW r \in Paths \ {p}
          PROVE  IF r = q THEN ~Exists(u, r)
                 ELSE (Exists(tree, r) <=> Exists(u, r)) /\ (Exists(tree, r) => tree[r] = u[r])
      <3>0. r # Root /\ Absent.kind = "none"
        BY PathFacts DEF Absent
      <3>1. CASE r = q
        <4>1. u[r] = Absent
          BY <2>1, <3>1, MovedMeans
        <4> HIDE DEF u
        <4> QED BY <3>0, <3>1, <4>1 DEF Exists
      <3>2. CASE r # q /\ Below(p, r)
        <4>1. u[r] = Absent \/ (From(q, p, r) \in Paths /\ u[r] = tree[From(q, p, r)])
          BY <2>1, <3>2, MovedMeans
        <4>2. Below(q, From(q, p, r))
          BY <2>1, <3>2, PathFacts, FromKeepsOrder
        <4>3. u[r].kind = "none"
          BY <2>3, <3>0, <4>1, <4>2
        <4> HIDE DEF u
        <4> QED BY <2>3, <3>0, <3>2, <4>3 DEF Exists
      <3>3. CASE r # q /\ ~Below(p, r) /\ Below(q, r)
        <4>1. u[r] = Absent
          BY <2>1, <3>3, MovedMeans
        <4> HIDE DEF u
        <4> QED BY <2>3, <3>0, <3>3, <4>1 DEF Exists
      <3>4. CASE r # q /\ ~Below(p, r) /\ ~Below(q, r)
        <4>1. u[r] = tree[r]
          BY <2>1, <3>4, MovedMeans
        <4> HIDE DEF u
        <4> QED BY <3>4, <4>1 DEF Exists
      <3> QED BY <3>1, <3>2, <3>3, <3>4
    <2> HIDE DEF u
    <2>5. Rank({e \in now : e.path # q}, p) = Rank(Snapshot(u), p)
      BY <2>2, <2>4, SameRank
    <2> QED BY <2>5 DEF RenamedIndex, WouldBeIndex, u
  <1> QED BY <1>1, <1>2

-----------------------------------------------------------------------------
(* Theorems *)

\* The inductive invariant, of every reachable state.
THEOREM Invariant == Spec => []IndInv
  BY InitInv, NextInv, PTL DEF Spec

\* Whatever the calls, the other process and the loss of power do, in any order of
\* their steps, no entry is left without its directory.
THEOREM TreeStaysATree == Spec => []NoEntryIsOrphaned
  <1>1. IndInv => NoEntryIsOrphaned
    BY InADirectory DEF IndInv, FilesInv, NoEntryIsOrphaned
  <1> QED BY <1>1, Invariant, PTL

\* What fs_sync_at has acknowledged survives every loss of power until somebody
\* changes it: the file and its name always reach the medium, and the directories
\* above it too, if those between, whose names nobody syncs, were there already.
THEOREM BarriersAreDurable == Spec => []BarrierIsDurable
  <1>1. IndInv => BarrierIsDurable
    BY DEF IndInv, FilesInv, OnMedium, BarrierIsDurable
  <1> QED BY <1>1, Invariant, PTL

\* An intent is told the index that the same call would be given if it were carried
\* out on the same tree: the byte order is a strict total order of the listed paths,
\* and in a tree without orphans a rename moves one entry and nothing else.
THEOREM IntentsAreExact == Spec => []IntentIsExact
  <1>1. IndInv => IntentIsExact
    BY WholeTreesIntend DEF IndInv, FilesInv, GoodFiles
  <1> QED BY <1>1, Invariant, PTL

\* The index a program passes names an entry of the listing it was taken from, and
\* the path a call works on is one below the root, at every step of every call.
THEOREM CallsAreResolved == Spec => [](GoodCall(c) /\ (c.pc = "select" /\ ~Refused =>
                                          EntryAt(c.snap, c.call.i) \in c.snap))
  <1>1. IndInv => GoodCall(c) /\ (c.pc = "select" /\ ~Refused =>
                                          EntryAt(c.snap, c.call.i) \in c.snap)
    BY SelectedEntry DEF IndInv
  <1> QED BY <1>1, Invariant, PTL
=============================================================================

--------------------------- MODULE TaskScopeProofs ---------------------------
(***************************************************************************)
(* MergeIsByIndex and AtMostOneLateCall for every number of runs, items,   *)
(* workers and any requested capacity.                                     *)
(*                                                                         *)
(* Neither is inductive.  That the merged report is in index order rests on*)
(* the arithmetic of the chunks: consecutive pieces meet, the last one ends*)
(* at the last item and there are no more of them than workers (ChunkFacts,*)
(* PieceFacts).  Each worker emits a prefix of its own piece, in order, and*)
(* has called exactly the items its outputs say, and one more while a call *)
(* is under way (Piece); pieces are disjoint, so no other worker's call    *)
(* touches them.  The joined pieces are then a prefix of all items         *)
(* (Merged), and the sort of finish() finds nothing to move (SortedStays). *)
(*                                                                         *)
(* A worker's late call is the one it had decided on before the flags: once*)
(* counted, the flags are up for good, and the worker can not have passed  *)
(* the check again (LateOK).                                               *)
(*                                                                         *)
(* RunOK and the lemmas about one step speak of the values R, W and C of   *)
(* one run, its workers and its calls, so that they can be used for the    *)
(* state before and the state after a step alike.                          *)
(***************************************************************************)
EXTENDS TaskScope, TLAPS, FiniteSetTheorems, SequenceTheorems

-----------------------------------------------------------------------------
(* The invariant *)

Active == {"spawning", "joining", "inline"}
Ran(o) == IF o.status \in {"returned", "failed"} THEN 1 ELSE 0

\* The pieces of a run R, their first items and their lengths.
Pieces(R) == IF R.pc = "inline" THEN {1} ELSE 1 .. Chunks(R.n)
First(R, c) == IF R.pc = "inline" THEN 0 ELSE (c - 1) * ChunkLen(R.n)
Size(R, c) == IF R.pc = "inline" THEN R.n ELSE MinOf(ChunkLen(R.n), R.n - First(R, c))

\* Which workers exist, and which of them were joined.
Shape(R, W) ==
    /\ R.pc \in {"spawning", "joining"} =>
          /\ R.n >= 1
          /\ R.spawned <= Chunks(R.n)
          /\ R.joined <= R.spawned
          /\ \A c \in Workers : c <= R.spawned <=> W[c].pc # "none"
          /\ \A c \in Workers : c <= R.joined => W[c].pc = "done"
    /\ R.pc = "spawning" => R.joined = 0 /\ R.spawned < Chunks(R.n)
    /\ R.pc = "joining" => R.spawned = Chunks(R.n)
    /\ R.pc = "inline" =>
          /\ W[1].pc \in {"item", "checked", "call", "done"}
          /\ \A c \in Workers \ {1} : W[c].pc = "none"
    /\ R.pc = "done" => \A c \in Workers : W[c].pc \in {"none", "done"}

\* A run not yet started has called nothing.
Untouched(R, W, C) ==
    /\ R.n = 0 /\ R.spawned = 0 /\ R.joined = 0 /\ R.outputs = <<>>
    /\ \A c \in Workers : W[c] = NoWorker
    /\ \A k \in Indices : C[k] = 0

\* What a worker emitted is a prefix of its piece, in order, and each item of
\* the piece was called as often as its output says.
Piece(w, C, first, size) ==
    /\ Len(w.outs) <= size
    /\ w.pc \in {"none", "begin", "open"} => w.outs = <<>>
    /\ w.pc \in {"checked", "call"} => Len(w.outs) < size
    /\ w.pc = "done" => Len(w.outs) = size
    /\ \A i \in 1 .. Len(w.outs) : w.outs[i].index = first + i - 1
    /\ \A i \in 1 .. size :
          C[first + i - 1] = IF i <= Len(w.outs) THEN Ran(w.outs[i])
                             ELSE IF i = Len(w.outs) + 1 /\ w.pc = "call" THEN 1 ELSE 0

\* s reports the items 0 .. m-1 in order.
Merged(s, C, m) ==
    /\ Len(s) = m
    /\ \A i \in 1 .. m : s[i].index = i - 1 /\ C[i - 1] = Ran(s[i])

RunOK(R, W, C) ==
    /\ Shape(R, W)
    /\ R.pc \in {"idle", "refused"} => Untouched(R, W, C)
    /\ R.pc \in Active => \A c \in Pieces(R) : Piece(W[c], C, First(R, c), Size(R, c))
    /\ R.pc \in {"spawning", "joining"} =>
          Merged(R.outputs, C, MinOf(R.joined * ChunkLen(R.n), R.n))
    /\ R.pc = "done" => R.report \in Report /\ Merged(R.report.results, C, R.n)

LateOK(w) ==
    /\ w.late \in {0, 1}
    /\ w.late = 1 => Stopped /\ w.pc # "checked"

RunsOK == \A r \in Runs : RunOK(run[r], wk[r], calls[r])
LateOnce == \A r \in Runs, c \in Workers : LateOK(wk[r][c])

IInv == TypeOK /\ RunsOK /\ LateOnce

-----------------------------------------------------------------------------
(* Chunks *)

\* Multiplying by a number keeps the order.
LEMMA Scaled == ASSUME NEW x \in Int, NEW y \in Int, NEW k \in Nat, x <= y
                PROVE  x * k <= y * k
<1>1. (y - x) * k >= 0  BY SMT
<1> QED  BY <1>1, SMT

\* div_ceil(a, b): the least number of pieces of length b that hold a items.
LEMMA CeilFacts == ASSUME NEW a \in Nat, a >= 1, NEW b \in Nat, b >= 1
                   PROVE  /\ CeilDiv(a, b) \in Nat /\ CeilDiv(a, b) >= 1
                          /\ (CeilDiv(a, b) - 1) * b < a
                          /\ a <= CeilDiv(a, b) * b
<1> DEFINE q == CeilDiv(a, b)
           m == (a + b - 1) % b
<1>1. q \in Int /\ m \in 0 .. b - 1 /\ a + b - 1 = b * q + m  BY SMT DEF CeilDiv
<1> HIDE DEF q, m
<1>2. b * q = q * b  BY <1>1
<1>3. a + b - 1 = q * b + m  BY <1>1, <1>2
<1>4. a <= q * b  BY <1>1, <1>3
<1>5. (q - 1) * b = q * b - b  BY <1>1
<1>6. (q - 1) * b < a  BY <1>1, <1>3, <1>5
<1>7. q >= 1
  <2>1. CASE q <= 0
    <3>1. q * b <= 0 * b  BY <1>1, <2>1, Scaled
    <3> QED  BY <3>1, <1>4, <1>1
  <2> QED  BY <2>1, <1>1
<1> QED  BY <1>1, <1>4, <1>6, <1>7 DEF q

\* open() clamps the capacity to 1 ..= 64 (MaxWorkers here).
LEMMA CapacityFacts == Capacity \in 1 .. MaxWorkers
  BY ConstantsAssumption DEF Capacity, MinOf

\* run_concurrent cuts n items into at most as many chunks as there are workers,
\* none of them empty, and together they hold all items.
LEMMA ChunkFacts == ASSUME NEW n \in Nat, n >= 1
                    PROVE  /\ ChunkLen(n) \in Nat /\ ChunkLen(n) >= 1
                           /\ Chunks(n) \in 1 .. MaxWorkers
                           /\ (Chunks(n) - 1) * ChunkLen(n) < n
                           /\ n <= Chunks(n) * ChunkLen(n)
<1> DEFINE w == MinOf(Capacity, n)
           L == ChunkLen(n)
           C == Chunks(n)
<1>0. MaxWorkers \in Nat  BY ConstantsAssumption
<1>1. w \in 1 .. MaxWorkers  BY CapacityFacts, <1>0 DEF MinOf
<1>2. L \in Nat /\ L >= 1 /\ n <= L * w
  <2>1. L = CeilDiv(n, w)  BY DEF ChunkLen
  <2> HIDE DEF w, L
  <2>2. w \in Nat /\ w >= 1  BY <1>1, <1>0
  <2>3. n <= L * w  BY <2>1, <2>2, CeilFacts
  <2> QED  BY <2>1, <2>2, <2>3, CeilFacts
<1>3. C \in Nat /\ C >= 1 /\ (C - 1) * L < n /\ n <= C * L
  <2>1. C = CeilDiv(n, L)  BY DEF Chunks
  <2> HIDE DEF L, C
  <2> QED  BY <2>1, <1>2, CeilFacts
<1> HIDE DEF w, L, C
<1>4. C <= w
  <2>1. CASE w <= C - 1
    <3>1. w * L <= (C - 1) * L  BY <2>1, <1>0, <1>1, <1>2, <1>3, Scaled
    <3>2. w * L = L * w  BY <1>1, <1>2
    <3>3. (C - 1) * L \in Int /\ w * L \in Int  BY <1>0, <1>1, <1>2, <1>3
    <3> QED  BY <3>1, <3>2, <3>3, <1>2, <1>3
  <2> QED  BY <2>1, <1>0, <1>1, <1>3
<1>5. C \in 1 .. MaxWorkers  BY <1>0, <1>1, <1>3, <1>4
<1> QED  BY <1>2, <1>3, <1>5 DEF L, C

\* Consecutive pieces meet, the last one ends at the last item.
LEMMA PieceFacts ==
    ASSUME NEW R \in RunState, R.pc \in {"spawning", "joining"}, R.n >= 1,
           NEW c \in 1 .. Chunks(R.n)
    PROVE  /\ c \in Workers
           /\ First(R, c) \in Nat /\ Size(R, c) \in Nat /\ Size(R, c) >= 1
           /\ First(R, c) + Size(R, c) = MinOf(c * ChunkLen(R.n), R.n)
           /\ First(R, c) = MinOf((c - 1) * ChunkLen(R.n), R.n)
           /\ First(R, c) + Size(R, c) <= R.n
           /\ c = Chunks(R.n) => First(R, c) + Size(R, c) = R.n
<1> DEFINE n == R.n
           L == ChunkLen(n)
           C == Chunks(n)
           f == First(R, c)
           z == Size(R, c)
<1>0. n \in Nat /\ n >= 1 /\ MaxWorkers \in Nat  BY ConstantsAssumption DEF RunState
<1>1. f = (c - 1) * L /\ z = MinOf(L, n - f)  BY DEF First, Size
<1>2. /\ L \in Nat /\ L >= 1 /\ C \in 1 .. MaxWorkers
      /\ (C - 1) * L < n /\ n <= C * L
  BY <1>0, ChunkFacts
<1>3. c \in 1 .. C  OBVIOUS
<1> HIDE DEF n, L, C, f, z
<1>4. (c - 1) * L <= (C - 1) * L  BY <1>0, <1>2, <1>3, Scaled
<1>5. 0 * L <= (c - 1) * L  BY <1>0, <1>2, <1>3, Scaled
<1>6. f \in Nat /\ f < n  BY <1>0, <1>1, <1>2, <1>3, <1>4, <1>5
<1>7. z \in Nat /\ z >= 1 /\ f + z <= n  BY <1>0, <1>1, <1>2, <1>6 DEF MinOf
<1>8. c * L = f + L  BY <1>0, <1>1, <1>2, <1>3
<1>9. f + z = MinOf(c * L, n)  BY <1>0, <1>1, <1>2, <1>6, <1>8 DEF MinOf
<1>10. f = MinOf((c - 1) * L, n)  BY <1>0, <1>1, <1>6 DEF MinOf
<1>11. c = C => f + z = n
  <2> SUFFICES ASSUME c = C PROVE f + z = n  OBVIOUS
  <2>1. n <= c * L  BY <1>2
  <2> QED  BY <2>1, <1>0, <1>6, <1>7, <1>8, <1>9 DEF MinOf
<1>12. c \in Workers  BY <1>0, <1>2, <1>3 DEF Workers
<1> QED  BY <1>6, <1>7, <1>9, <1>10, <1>11, <1>12 DEF n, L, C, f, z

\* Different pieces have no item in common.
LEMMA PiecesApart ==
    ASSUME NEW R \in RunState, R.pc \in {"spawning", "joining"}, R.n >= 1,
           NEW c \in 1 .. Chunks(R.n), NEW d \in 1 .. Chunks(R.n), c < d
    PROVE  First(R, c) + Size(R, c) <= First(R, d)
<1> DEFINE n == R.n
           L == ChunkLen(n)
           C == Chunks(n)
           e == First(R, c) + Size(R, c)
           f == First(R, d)
<1>0. n \in Nat /\ n >= 1 /\ MaxWorkers \in Nat  BY ConstantsAssumption DEF RunState
<1>1. L \in Nat /\ C \in 1 .. MaxWorkers  BY <1>0, ChunkFacts
<1>2. e = MinOf(c * L, n) /\ e \in Nat  BY PieceFacts
<1>3. f = MinOf((d - 1) * L, n) /\ f \in Nat  BY PieceFacts
<1>4. c \in 1 .. C /\ d \in 1 .. C  OBVIOUS
<1> HIDE DEF n, L, C, e, f
<1>5. c * L <= (d - 1) * L  BY <1>0, <1>1, <1>4, Scaled
<1>6. c * L \in Int /\ (d - 1) * L \in Int  BY <1>0, <1>1, <1>4
<1>7. e <= f  BY <1>0, <1>2, <1>3, <1>5, <1>6 DEF MinOf
<1> QED  BY <1>7 DEF e, f

-----------------------------------------------------------------------------
(* The report *)

\* sort_by_key leaves outputs that are in order where they are.
LEMMA SortedStays ==
    ASSUME NEW s \in Seq(Output), \A i \in 1 .. Len(s) : s[i].index = i - 1
    PROVE  SortByIndex(s) = s
<1>1. Len(s) \in Nat /\ DOMAIN s = 1 .. Len(s)  OBVIOUS
<1>2. ASSUME NEW i \in DOMAIN s PROVE Rank(s, i) = i
  <2>1. {j \in DOMAIN s : \/ s[j].index < s[i].index
                          \/ s[j].index = s[i].index /\ j <= i} = 1 .. i
    <3>1. s[i].index = i - 1  BY <1>1, <1>2
    <3>2. ASSUME NEW j \in DOMAIN s
          PROVE (s[j].index < s[i].index \/ (s[j].index = s[i].index /\ j <= i)) <=> j \in 1 .. i
      <4>1. s[j].index = j - 1  BY <1>1, <3>2
      <4> QED  BY <1>1, <1>2, <3>1, <3>2, <4>1
    <3>3. 1 .. i \subseteq DOMAIN s  BY <1>1, <1>2
    <3> QED  BY <3>2, <3>3
  <2>2. i \in Nat  BY <1>1, <1>2
  <2>3. Cardinality(1 .. i) = i
    <3>1. 1 \in Int /\ i \in Int /\ i >= 1  BY <1>1, <2>2
    <3>2. Cardinality(1 .. i) = IF 1 > i THEN 0 ELSE i - 1 + 1  BY ONLY <3>1, FS_Interval
    <3> QED  BY <3>1, <3>2
  <2> QED  BY <2>1, <2>3 DEF Rank
<1>3. ASSUME NEW k \in DOMAIN s
      PROVE  s[CHOOSE i \in DOMAIN s : Rank(s, i) = k] = s[k]
  <2>1. (CHOOSE i \in DOMAIN s : Rank(s, i) = k) = k  BY <1>2, <1>3
  <2> QED  BY <2>1
<1>4. SortByIndex(s) = [k \in DOMAIN s |-> s[k]]
  BY <1>3, Zenon DEF SortByIndex
<1> QED  BY <1>4, SeqDef

\* The counters of a report are numbers.
LEMMA CountNat == ASSUME NEW s \in Seq(Output)
                  PROVE  /\ Count(s, IsExecuted) \in Nat
                         /\ Count(s, IsCancelled) \in Nat
<1>1. Len(s) \in Nat /\ DOMAIN s = 1 .. Len(s)  OBVIOUS
<1>2. IsFiniteSet(DOMAIN s)
  <2>1. IsFiniteSet(1 .. Len(s))  BY <1>1, FS_Interval
  <2> QED  BY <1>1, <2>1
<1>3. \A T \in SUBSET DOMAIN s : IsFiniteSet(T)  BY <1>2, FS_Subset
<1>4. Cardinality({i \in DOMAIN s : IsExecuted(s[i])}) \in Nat
  <2>1. {i \in DOMAIN s : IsExecuted(s[i])} \in SUBSET DOMAIN s  OBVIOUS
  <2> QED  BY <1>3, <2>1, FS_CardinalityType
<1>5. Cardinality({i \in DOMAIN s : IsCancelled(s[i])}) \in Nat
  <2>1. {i \in DOMAIN s : IsCancelled(s[i])} \in SUBSET DOMAIN s  OBVIOUS
  <2> QED  BY <1>3, <2>1, FS_CardinalityType
<1> QED  BY <1>4, <1>5 DEF Count

\* first_failure is an index or absent.
LEMMA FirstFailureType == ASSUME NEW s \in Seq(Output)
                          PROVE  FirstFailure(s) \in Nat \cup {-1}
<1> DEFINE F == {i \in DOMAIN s : IsFailure(s[i])}
           m == CHOOSE i \in F : \A j \in F : i <= j
<1>1. CASE F = {}  BY <1>1 DEF FirstFailure
<1>2. CASE F # {}
  <2>1. Len(s) \in Nat /\ DOMAIN s = 1 .. Len(s)  OBVIOUS
  <2>2. F \in SUBSET Nat  BY <2>1
  <2>3. \E i \in F : \A j \in F : i <= j
    <3> HIDE DEF F
    <3>1. PICK i \in F : \A j \in F : ~ (<<j, i>> \in OpToRel(<, Nat))
      BY <1>2, <2>2, NatLessThanWellFounded, WFMin
    <3>2. \A j \in F : ~ (j < i)  BY <3>1, <2>2 DEF OpToRel
    <3> QED  BY <3>2, <2>2
  <2>4. m \in F  BY <2>3
  <2>5. m \in 1 .. Len(s) /\ s[m] \in Output  BY <2>1, <2>4
  <2>6. s[m].index \in Nat  BY <2>5, ConstantsAssumption DEF Output, Indices
  <2> QED  BY <1>2, <2>6 DEF FirstFailure
<1> QED  BY <1>1, <1>2

\* finish() of outputs in order is a report of exactly these outputs.
LEMMA FinishFacts ==
    ASSUME NEW s \in Seq(Output), \A i \in 1 .. Len(s) : s[i].index = i - 1,
           cleanups \in Nat
    PROVE  Finish(s) \in Report /\ Finish(s).results = s
<1>1. SortByIndex(s) = s  BY SortedStays
<1>2. Finish(s) = [results |-> s, first_failure |-> FirstFailure(s),
                   executed |-> Count(s, IsExecuted),
                   cancelled_count |-> Count(s, IsCancelled), cleanups |-> cleanups]
  BY <1>1 DEF Finish
<1>3. Count(s, IsExecuted) \in Nat /\ Count(s, IsCancelled) \in Nat
  BY CountNat
<1>4. FirstFailure(s) \in Nat \cup {-1}  BY FirstFailureType
<1> QED  BY <1>2, <1>3, <1>4 DEF Report

-----------------------------------------------------------------------------
(* Workers and their pieces *)

\* A worker that exists and has not ended is at a piece of an active run.
LEMMA AtWork ==
    ASSUME NEW R \in RunState, NEW W \in [Workers -> WorkerState],
           NEW C \in [Indices -> Nat], RunOK(R, W, C),
           NEW c \in Workers, W[c].pc \notin {"none", "done"}
    PROVE  /\ R.pc \in Active /\ c \in Pieces(R)
           /\ R.pc \in {"spawning", "joining"} =>
                 R.n >= 1 /\ c \in 1 .. Chunks(R.n) /\ R.joined < c
           /\ R.pc = "inline" => c = 1
<1>0. MaxWorkers \in Nat /\ c \in Nat /\ c >= 1  BY ConstantsAssumption DEF Workers
<1>1. R.pc \notin {"idle", "refused"}
  <2> SUFFICES ASSUME R.pc \in {"idle", "refused"} PROVE FALSE  OBVIOUS
  <2>1. W[c] = NoWorker  BY DEF RunOK, Untouched
  <2> QED  BY <2>1 DEF NoWorker
<1>2. R.pc # "done"  BY DEF RunOK, Shape
<1>3. R.pc \in Active  BY <1>1, <1>2 DEF RunState, Active
<1>4. CASE R.pc \in {"spawning", "joining"}
  <2>1. R.n >= 1 /\ R.spawned <= Chunks(R.n) /\ R.joined <= R.spawned
        /\ c <= R.spawned /\ ~ (c <= R.joined)
    BY <1>4 DEF RunOK, Shape
  <2>2. R.n \in Nat /\ R.spawned \in Nat /\ R.joined \in Nat
    BY ConstantsAssumption DEF RunState
  <2>3. Chunks(R.n) \in 1 .. MaxWorkers  BY <2>1, <2>2, ChunkFacts
  <2> QED  BY <1>0, <1>3, <1>4, <2>1, <2>2, <2>3 DEF Pieces
<1>5. CASE R.pc = "inline"
  <2>1. c = 1  BY <1>5 DEF RunOK, Shape
  <2> QED  BY <1>3, <1>5, <2>1 DEF Pieces
<1> QED  BY <1>3, <1>4, <1>5 DEF Active

\* A piece lies within the items of its run.
LEMMA PieceWithin ==
    ASSUME NEW R \in RunState, R.pc \in Active,
           R.pc \in {"spawning", "joining"} => R.n >= 1,
           NEW c \in Pieces(R)
    PROVE  /\ c \in Workers
           /\ First(R, c) \in Nat /\ Size(R, c) \in Nat
           /\ First(R, c) + Size(R, c) <= R.n
           /\ \A i \in 1 .. Size(R, c) : First(R, c) + i - 1 \in Indices
<1>0. R.n \in 0 .. MaxItems /\ MaxItems \in Nat /\ MaxWorkers \in Nat /\ MaxWorkers >= 1
  BY ConstantsAssumption DEF RunState
<1>1. CASE R.pc = "inline"
  BY <1>0, <1>1 DEF Pieces, First, Size, Workers, Indices
<1>2. CASE R.pc \in {"spawning", "joining"}
  <2>1. c \in 1 .. Chunks(R.n)  BY <1>2 DEF Pieces
  <2>2. /\ c \in Workers
        /\ First(R, c) \in Nat /\ Size(R, c) \in Nat
        /\ First(R, c) + Size(R, c) <= R.n
    BY <1>2, <2>1, PieceFacts
  <2> QED  BY <1>0, <2>2 DEF Indices
<1> QED  BY <1>1, <1>2 DEF Active

\* No two pieces of a run have an item in common.
LEMMA PiecesDisjoint ==
    ASSUME NEW R \in RunState, R.pc \in Active,
           R.pc \in {"spawning", "joining"} => R.n >= 1,
           NEW c \in Pieces(R), NEW d \in Pieces(R), c # d
    PROVE  First(R, c) + Size(R, c) <= First(R, d) \/ First(R, d) + Size(R, d) <= First(R, c)
<1>1. R.pc # "inline"  BY DEF Pieces
<1>2. R.pc \in {"spawning", "joining"} /\ R.n >= 1  BY <1>1 DEF Active
<1>3. c \in 1 .. Chunks(R.n) /\ d \in 1 .. Chunks(R.n)  BY <1>1 DEF Pieces
<1>4. R.n \in Nat  BY ConstantsAssumption DEF RunState
<1>5. Chunks(R.n) \in Int  BY <1>2, <1>4, ChunkFacts, ConstantsAssumption
<1>6. c < d \/ d < c  BY <1>3, <1>5
<1> QED  BY <1>2, <1>3, <1>6, PiecesApart

\* A worker's step keeps its run in order when it keeps its own piece in order
\* and calls no item of another piece.
LEMMA WorkerKeepsRun ==
    ASSUME NEW R \in RunState, NEW W \in [Workers -> WorkerState],
           NEW C \in [Indices -> Nat], RunOK(R, W, C),
           NEW c \in Workers, W[c].pc \notin {"none", "done"},
           NEW w \in WorkerState, w.pc # "none",
           R.pc = "inline" => w.pc \in {"item", "checked", "call", "done"},
           NEW D \in [Indices -> Nat],
           \A k \in Indices : (k < First(R, c) \/ k >= First(R, c) + Size(R, c)) => D[k] = C[k],
           Piece(w, D, First(R, c), Size(R, c))
    PROVE  RunOK(R, [W EXCEPT ![c] = w], D)
<1> DEFINE V == [W EXCEPT ![c] = w]
<1>0. /\ R.n \in 0 .. MaxItems /\ MaxItems \in Nat
      /\ R.joined \in 0 .. MaxWorkers /\ MaxWorkers \in Nat
      /\ c \in Nat
  BY ConstantsAssumption DEF RunState, Workers
<1>1. /\ R.pc \in Active /\ c \in Pieces(R)
      /\ R.pc \in {"spawning", "joining"} =>
            R.n >= 1 /\ c \in 1 .. Chunks(R.n) /\ R.joined < c
      /\ R.pc = "inline" => c = 1
  BY AtWork
<1>2. /\ V[c] = w
      /\ \A d \in Workers : d # c => V[d] = W[d]
  OBVIOUS
<1> HIDE DEF V
<1>3. Shape(R, V)
  <2>1. CASE R.pc \in {"spawning", "joining"}
    <3>1. \A d \in Workers : d <= R.spawned <=> V[d].pc # "none"
      BY <1>2, <2>1 DEF RunOK, Shape
    <3>2. \A d \in Workers : d <= R.joined => V[d].pc = "done"
      <4>1. ~ (c <= R.joined)  BY <1>0, <1>1, <2>1
      <4>2. \A d \in Workers : d <= R.joined => W[d].pc = "done"
        BY <2>1 DEF RunOK, Shape
      <4> QED  BY <1>2, <4>1, <4>2
    <3> QED  BY <2>1, <3>1, <3>2 DEF RunOK, Shape
  <2>2. CASE R.pc = "inline"
    <3>1. c = 1 /\ w.pc \in {"item", "checked", "call", "done"}  BY <1>1, <2>2
    <3>2. \A d \in Workers \ {1} : V[d].pc = "none"
      BY <1>2, <2>2, <3>1 DEF RunOK, Shape
    <3> QED  BY <1>2, <2>2, <3>1, <3>2 DEF Shape
  <2> QED  BY <1>1, <2>1, <2>2 DEF Active
<1>4. ASSUME NEW d \in Pieces(R) PROVE Piece(V[d], D, First(R, d), Size(R, d))
  <2>1. CASE d = c  BY <1>2, <2>1
  <2>2. CASE d # c
    <3>1. Piece(W[d], C, First(R, d), Size(R, d))  BY <1>1 DEF RunOK
    <3>2. /\ d \in Workers
          /\ First(R, d) \in Nat /\ Size(R, d) \in Nat
          /\ \A i \in 1 .. Size(R, d) : First(R, d) + i - 1 \in Indices
      BY <1>1, PieceWithin
    <3>3. First(R, c) \in Nat /\ Size(R, c) \in Nat  BY <1>1, PieceWithin
    <3>4. First(R, c) + Size(R, c) <= First(R, d) \/ First(R, d) + Size(R, d) <= First(R, c)
      BY <1>1, <2>2, PiecesDisjoint
    <3>5. \A i \in 1 .. Size(R, d) : D[First(R, d) + i - 1] = C[First(R, d) + i - 1]
      BY <3>2, <3>3, <3>4
    <3>6. V[d] = W[d]  BY <1>2, <2>2, <3>2
    <3> QED  BY <3>1, <3>5, <3>6 DEF Piece
  <2> QED  BY <2>1, <2>2
<1>5. ASSUME R.pc \in {"spawning", "joining"}
      PROVE  Merged(R.outputs, D, MinOf(R.joined * ChunkLen(R.n), R.n))
  <2> DEFINE m == MinOf(R.joined * ChunkLen(R.n), R.n)
  <2>1. Merged(R.outputs, C, m)  BY <1>5 DEF RunOK
  <2>2. ChunkLen(R.n) \in Nat  BY <1>0, <1>1, <1>5, ChunkFacts
  <2>3. R.joined * ChunkLen(R.n) <= (c - 1) * ChunkLen(R.n)
    BY <1>0, <1>1, <1>5, <2>2, Scaled
  <2>4. /\ First(R, c) = MinOf((c - 1) * ChunkLen(R.n), R.n)
        /\ First(R, c) \in Nat
    BY <1>1, <1>5, PieceFacts
  <2>5. R.joined * ChunkLen(R.n) \in Int /\ (c - 1) * ChunkLen(R.n) \in Int
    BY <1>0, <2>2
  <2>6. m \in Int /\ m <= First(R, c) /\ m <= R.n
    BY <1>0, <2>3, <2>4, <2>5 DEF MinOf
  <2> HIDE DEF m
  <2>7. \A i \in 1 .. m : D[i - 1] = C[i - 1]
    <3> SUFFICES ASSUME NEW i \in 1 .. m PROVE D[i - 1] = C[i - 1]  OBVIOUS
    <3>1. i - 1 \in Indices /\ i - 1 < First(R, c)  BY <1>0, <2>4, <2>6 DEF Indices
    <3> QED  BY <3>1
  <2>8. Merged(R.outputs, D, m)  BY <2>1, <2>7 DEF Merged
  <2> QED  BY <2>8 DEF m
<1>6. RunOK(R, V, D)
  BY <1>1, <1>3, <1>4, <1>5 DEF RunOK, Active
<1> QED  BY <1>6 DEF V

-----------------------------------------------------------------------------
(* The steps of a worker *)

\* The model's bases and lengths are those of the run's own state.
LEMMA OnePiece ==
    ASSUME NEW r, NEW c
    PROVE  Base(r, c) = First(run[r], c) /\ PieceLen(r, c) = Size(run[r], c)
  BY DEF Base, PieceLen, First, Size, Inline

\* One output more, of the item the worker is at.
LEMMA EmitKeepsPiece ==
    ASSUME NEW w \in WorkerState, NEW C \in [Indices -> Nat],
           NEW first \in Nat, NEW size \in Nat, Piece(w, C, first, size),
           w.pc \in {"cancel", "item", "call"}, Len(w.outs) < size,
           NEW o \in Output, o.index = first + Len(w.outs),
           w.pc = "call" <=> o.status \in {"returned", "failed"},
           NEW pc \in {"cancel", "item"}
    PROVE  Piece([w EXCEPT !.outs = Append(w.outs, o), !.pc = pc], C, first, size)
<1> DEFINE v == [w EXCEPT !.outs = Append(w.outs, o), !.pc = pc]
           len == Len(w.outs)
<1>0. w.outs \in Seq(Output) /\ len \in Nat /\ len < size  BY DEF WorkerState
<1>1. v.pc = pc /\ v.outs = Append(w.outs, o)  BY DEF WorkerState
<1>2. /\ Len(v.outs) = len + 1
      /\ \A i \in 1 .. len : v.outs[i] = w.outs[i]
      /\ v.outs[len + 1] = o
  BY <1>0, <1>1, AppendProperties
<1> HIDE DEF v
<1>3. \A i \in 1 .. Len(v.outs) : v.outs[i].index = first + i - 1
  <2> SUFFICES ASSUME NEW i \in 1 .. len + 1 PROVE v.outs[i].index = first + i - 1
    BY <1>2
  <2>1. CASE i \in 1 .. len  BY <1>0, <1>2, <2>1 DEF Piece
  <2>2. CASE i = len + 1  BY <1>0, <1>2, <2>2
  <2>3. i \in 1 .. len \/ i = len + 1  BY <1>0
  <2> QED  BY <2>1, <2>2, <2>3
<1>4. ASSUME NEW i \in 1 .. size
      PROVE  C[first + i - 1] = IF i <= Len(v.outs) THEN Ran(v.outs[i])
                                ELSE IF i = Len(v.outs) + 1 /\ v.pc = "call" THEN 1 ELSE 0
  <2>1. C[first + i - 1] = IF i <= len THEN Ran(w.outs[i])
                           ELSE IF i = len + 1 /\ w.pc = "call" THEN 1 ELSE 0
    BY DEF Piece
  <2>2. CASE i <= len
    <3>1. i \in 1 .. len /\ i <= Len(v.outs)  BY <1>0, <1>2, <2>2
    <3> QED  BY <1>2, <2>1, <2>2, <3>1
  <2>3. CASE i = len + 1
    <3>1. C[first + i - 1] = Ran(o)  BY <1>0, <2>1, <2>3 DEF Ran
    <3> QED  BY <1>0, <1>2, <2>3, <3>1
  <2>4. CASE i > len + 1
    <3>1. C[first + i - 1] = 0  BY <1>0, <2>1, <2>4
    <3>2. ~ (i <= Len(v.outs)) /\ v.pc # "call"  BY <1>0, <1>1, <1>2, <2>4
    <3> QED  BY <3>1, <3>2
  <2>5. i <= len \/ i = len + 1 \/ i > len + 1  BY <1>0
  <2> QED  BY <2>2, <2>3, <2>4, <2>5
<1>5. Len(v.outs) <= size /\ v.pc \in {"cancel", "item"}  BY <1>0, <1>1, <1>2
<1>6. Piece(v, C, first, size)  BY <1>3, <1>4, <1>5 DEF Piece
<1> QED  BY <1>6 DEF v

\* What any step of worker c of run r preserves.
LEMMA WorkerKeeps ==
    ASSUME IInv, NEW r \in Runs, NEW c \in Workers, wk[r][c].pc \notin {"none", "done"},
           NEW w \in WorkerState, w.pc # "none", LateOK(w),
           wk[r][c].pc \in {"item", "checked", "call"} =>
              w.pc \in {"item", "checked", "call", "done"},
           NEW D \in [Indices -> Nat],
           \A k \in Indices : (k < Base(r, c) \/ k >= Base(r, c) + PieceLen(r, c))
                                => D[k] = calls[r][k],
           Piece(w, D, Base(r, c), PieceLen(r, c)),
           wk' = [wk EXCEPT ![r][c] = w], calls' = [calls EXCEPT ![r] = D],
           cleanups' \in Nat, UNCHANGED <<closed, cancelled, run>>
    PROVE  IInv'
<1>1. /\ run[r] \in RunState /\ wk[r] \in [Workers -> WorkerState]
      /\ calls[r] \in [Indices -> Nat]
      /\ RunOK(run[r], wk[r], calls[r])
  BY DEF IInv, TypeOK, RunsOK
<1>2. run[r].pc = "inline" => w.pc \in {"item", "checked", "call", "done"}
  <2> SUFFICES ASSUME run[r].pc = "inline"
               PROVE  wk[r][c].pc \in {"item", "checked", "call"}
    OBVIOUS
  <2>1. c = 1  BY <1>1, AtWork
  <2> QED  BY <1>1, <2>1 DEF RunOK, Shape
<1>3. RunOK(run[r], [wk[r] EXCEPT ![c] = w], D)
  <2> DEFINE R == run[r]  W == wk[r]  C == calls[r]
  <2>1. /\ R \in RunState /\ W \in [Workers -> WorkerState] /\ C \in [Indices -> Nat]
        /\ RunOK(R, W, C) /\ W[c].pc \notin {"none", "done"}
        /\ R.pc = "inline" => w.pc \in {"item", "checked", "call", "done"}
    BY <1>1, <1>2
  <2>2. /\ \A k \in Indices : (k < First(R, c) \/ k >= First(R, c) + Size(R, c))
                                => D[k] = C[k]
        /\ Piece(w, D, First(R, c), Size(R, c))
    BY OnePiece
  <2> HIDE DEF R, W, C
  <2>3. RunOK(R, [W EXCEPT ![c] = w], D)  BY <2>1, <2>2, WorkerKeepsRun
  <2> QED  BY <2>3 DEF R, W, C
<1>4. /\ wk'[r] = [wk[r] EXCEPT ![c] = w] /\ calls'[r] = D
      /\ \A q \in Runs : q # r => wk'[q] = wk[q] /\ calls'[q] = calls[q]
  BY DEF IInv, TypeOK
<1>5. TypeOK'
  <2>1. wk' \in [Runs -> [Workers -> WorkerState]]  BY <1>1 DEF IInv, TypeOK
  <2>2. calls' \in [Runs -> [Indices -> Nat]]  BY DEF IInv, TypeOK
  <2> QED  BY <2>1, <2>2 DEF IInv, TypeOK
<1>6. RunsOK'
  <2> SUFFICES ASSUME NEW q \in Runs PROVE RunOK(run[q], wk'[q], calls'[q])
    BY DEF RunsOK
  <2>1. CASE q = r  BY <1>3, <1>4, <2>1
  <2>2. CASE q # r  BY <1>4, <2>2 DEF IInv, RunsOK
  <2> QED  BY <2>1, <2>2
<1>7. LateOnce'
  <2> SUFFICES ASSUME NEW q \in Runs, NEW d \in Workers PROVE LateOK(wk[q][d])'
    BY DEF LateOnce
  <2>1. Stopped' = Stopped  BY DEF Stopped
  <2>2. wk[q][d]' = w \/ wk[q][d]' = wk[q][d]  BY <1>1, <1>4
  <2>3. LateOK(wk[q][d])  BY DEF IInv, LateOnce
  <2> QED  BY <2>1, <2>2, <2>3 DEF LateOK
<1> QED  BY <1>5, <1>6, <1>7 DEF IInv

\* What the invariant says of a worker at work.
LEMMA WorkerFacts ==
    ASSUME IInv, NEW r \in Runs, NEW c \in Workers, wk[r][c].pc \notin {"none", "done"}
    PROVE  /\ wk[r][c] \in WorkerState /\ LateOK(wk[r][c])
           /\ wk[r][c].outs \in Seq(Output) /\ Len(wk[r][c].outs) \in Nat
           /\ wk[r][c].late \in Nat
           /\ calls[r] \in [Indices -> Nat]
           /\ Base(r, c) \in Nat /\ PieceLen(r, c) \in Nat
           /\ \A i \in 1 .. PieceLen(r, c) : Base(r, c) + i - 1 \in Indices
           /\ Piece(wk[r][c], calls[r], Base(r, c), PieceLen(r, c))
           /\ Len(wk[r][c].outs) <= PieceLen(r, c)
<1> DEFINE R == run[r]  W == wk[r]  C == calls[r]
<1>1. /\ R \in RunState /\ W \in [Workers -> WorkerState] /\ C \in [Indices -> Nat]
      /\ RunOK(R, W, C) /\ W[c].pc \notin {"none", "done"}
  BY DEF IInv, TypeOK, RunsOK
<1>2. W[c] \in WorkerState /\ LateOK(W[c])  BY <1>1 DEF IInv, LateOnce
<1>3. Base(r, c) = First(R, c) /\ PieceLen(r, c) = Size(R, c)  BY OnePiece
<1> HIDE DEF R, W, C
<1>4. /\ R.pc \in Active /\ c \in Pieces(R)
      /\ R.pc \in {"spawning", "joining"} => R.n >= 1
  BY <1>1, AtWork
<1>5. /\ First(R, c) \in Nat /\ Size(R, c) \in Nat
      /\ \A i \in 1 .. Size(R, c) : First(R, c) + i - 1 \in Indices
  BY <1>1, <1>4, PieceWithin
<1>6. Piece(W[c], C, First(R, c), Size(R, c))  BY <1>1, <1>4 DEF RunOK
<1>7. W[c].outs \in Seq(Output) /\ W[c].late \in Nat  BY <1>2 DEF WorkerState
<1>8. Len(W[c].outs) <= Size(R, c)  BY <1>6 DEF Piece
<1> QED  BY <1>1, <1>2, <1>3, <1>5, <1>6, <1>7, <1>8 DEF W, C

\* Any step that emits an output and returns to the items or to cancelling.
LEMMA EmitKeeps ==
    ASSUME IInv, NEW r \in Runs, NEW c \in Workers,
           wk[r][c].pc \in {"cancel", "item", "call"}, ~Exhausted(r, c),
           NEW status \in Statuses, NEW pc \in {"cancel", "item"},
           wk[r][c].pc = "call" <=> status \in {"returned", "failed"},
           wk[r][c].pc = "cancel" <=> pc = "cancel",
           Emit(r, c, status, pc), cleanups' \in Nat,
           UNCHANGED <<closed, cancelled, run, calls>>
    PROVE  IInv'
<1> DEFINE u == wk[r][c]
           o == [index |-> At(r, c), status |-> status]
           w == [u EXCEPT !.outs = Append(u.outs, o), !.pc = pc]
<1>1. /\ u \in WorkerState /\ LateOK(u)
      /\ u.outs \in Seq(Output) /\ Len(u.outs) \in Nat
      /\ calls[r] \in [Indices -> Nat]
      /\ Base(r, c) \in Nat /\ PieceLen(r, c) \in Nat
      /\ \A i \in 1 .. PieceLen(r, c) : Base(r, c) + i - 1 \in Indices
      /\ Piece(u, calls[r], Base(r, c), PieceLen(r, c))
      /\ Len(u.outs) <= PieceLen(r, c)
  BY WorkerFacts
<1>2. Len(u.outs) < PieceLen(r, c)  BY <1>1 DEF Exhausted
<1>3. At(r, c) = Base(r, c) + Len(u.outs)  BY DEF At
<1>4. o \in Output /\ o.index = Base(r, c) + Len(u.outs) /\ o.status = status
  <2>0. Len(u.outs) + 1 \in 1 .. PieceLen(r, c)  BY <1>1, <1>2
  <2>1. Base(r, c) + (Len(u.outs) + 1) - 1 \in Indices  BY <1>1, <2>0
  <2>2. At(r, c) \in Indices  BY <1>1, <1>3, <2>1
  <2> QED  BY <1>3, <2>2 DEF Output
<1>5. wk' = [wk EXCEPT ![r][c] = w]  BY DEF Emit, IInv, TypeOK
<1>6. calls' = [calls EXCEPT ![r] = calls[r]]  BY DEF IInv, TypeOK
<1>7. u.pc \in {"cancel", "item", "call"} /\ (u.pc = "cancel" <=> pc = "cancel")
      /\ (u.pc = "call" <=> status \in {"returned", "failed"})
  OBVIOUS
<1> HIDE DEF u, o
<1>8. Piece(w, calls[r], Base(r, c), PieceLen(r, c))
  BY <1>1, <1>2, <1>4, <1>7, EmitKeepsPiece
<1>9. Append(u.outs, o) \in Seq(Output)  BY <1>1, <1>4, AppendProperties
<1>10. w \in WorkerState /\ w.pc = pc /\ w.late = u.late  BY <1>1, <1>9 DEF WorkerState
<1>11. LateOK(w)  BY <1>1, <1>10 DEF LateOK
<1> HIDE DEF w
<1>12. wk[r][c].pc \notin {"none", "done"}
       /\ (wk[r][c].pc \in {"item", "checked", "call"} => w.pc \in {"item", "checked", "call", "done"})
  BY <1>7, <1>10 DEF u
<1>13. w.pc # "none"  BY <1>10
<1> QED  BY <1>1, <1>5, <1>6, <1>8, <1>10, <1>11, <1>12, <1>13, WorkerKeeps

\* Any step that only moves a worker on.
LEMMA MoveKeeps ==
    ASSUME IInv, NEW r \in Runs, NEW c \in Workers,
           NEW pc \in {"cancel", "open", "item", "checked", "done"},
           wk' = [wk EXCEPT ![r][c].pc = pc], cleanups' \in Nat,
           \/ wk[r][c].pc = "begin" /\ pc \in {"cancel", "open"}
           \/ wk[r][c].pc = "open" /\ pc = "item"
           \/ wk[r][c].pc = "item" /\ pc = "checked" /\ ~Exhausted(r, c) /\ ~Stopped
           \/ wk[r][c].pc \in {"cancel", "item"} /\ pc = "done" /\ Exhausted(r, c),
           UNCHANGED <<closed, cancelled, run, calls>>
    PROVE  IInv'
<1> DEFINE u == wk[r][c]
           w == [u EXCEPT !.pc = pc]
<1>0. u.pc \notin {"none", "done"}  OBVIOUS
<1>1. /\ u \in WorkerState /\ LateOK(u)
      /\ u.outs \in Seq(Output) /\ Len(u.outs) \in Nat
      /\ calls[r] \in [Indices -> Nat]
      /\ Base(r, c) \in Nat /\ PieceLen(r, c) \in Nat
      /\ Piece(u, calls[r], Base(r, c), PieceLen(r, c))
      /\ Len(u.outs) <= PieceLen(r, c)
  BY <1>0, WorkerFacts
<1>2. wk' = [wk EXCEPT ![r][c] = w]  BY DEF IInv, TypeOK
<1>3. calls' = [calls EXCEPT ![r] = calls[r]]  BY DEF IInv, TypeOK
<1>4. \/ u.pc = "begin" /\ pc \in {"cancel", "open"}
      \/ u.pc = "open" /\ pc = "item"
      \/ u.pc = "item" /\ pc = "checked" /\ Len(u.outs) < PieceLen(r, c) /\ ~Stopped
      \/ u.pc \in {"cancel", "item"} /\ pc = "done" /\ Len(u.outs) = PieceLen(r, c)
  BY <1>1 DEF Exhausted
<1> HIDE DEF u
<1>5. w \in WorkerState /\ w.pc = pc /\ w.outs = u.outs /\ w.late = u.late
  BY <1>1 DEF WorkerState
<1> HIDE DEF w
<1>6. Piece(w, calls[r], Base(r, c), PieceLen(r, c))
  <2>1. u.pc # "call" /\ w.pc # "call"  BY <1>4, <1>5
  <2>2. /\ w.pc \in {"none", "begin", "open"} => w.outs = <<>>
        /\ w.pc \in {"checked", "call"} => Len(w.outs) < PieceLen(r, c)
        /\ w.pc = "done" => Len(w.outs) = PieceLen(r, c)
    BY <1>1, <1>4, <1>5 DEF Piece
  <2> QED  BY <1>1, <1>5, <2>1, <2>2 DEF Piece
<1>7. LateOK(w)  BY <1>1, <1>4, <1>5 DEF LateOK
<1>8. wk[r][c].pc \notin {"none", "done"}
       /\ (wk[r][c].pc \in {"item", "checked", "call"} => w.pc \in {"item", "checked", "call", "done"})
  BY <1>4, <1>5 DEF u
<1>9. w.pc # "none"  BY <1>5
<1> QED  BY <1>1, <1>2, <1>3, <1>5, <1>6, <1>7, <1>8, <1>9, WorkerKeeps

\* A worker opens its session, or reports its whole piece as unsupported.
LEMMA OpenSessionKeeps ==
    ASSUME IInv, NEW r \in Runs, NEW c \in Workers, OpenSession(r, c)
    PROVE  IInv'
<1>0. wk[r][c].pc = "open" /\ UNCHANGED <<closed, cancelled, cleanups, run, calls>>
  BY DEF OpenSession
<1>1. CASE wk' = [wk EXCEPT ![r][c].pc = "item"]
  <2>1. cleanups' \in Nat  BY <1>0 DEF IInv, TypeOK
  <2> QED  BY <1>0, <1>1, <2>1, MoveKeeps
<1>2. CASE wk' = [wk EXCEPT ![r][c].pc = "done", ![r][c].outs =
                    [i \in 1 .. PieceLen(r, c) |->
                        [index |-> Base(r, c) + i - 1, status |-> "unsupported"]]]
  <2> DEFINE u == wk[r][c]
             f == Base(r, c)
             z == PieceLen(r, c)
             s == [i \in 1 .. z |-> [index |-> f + i - 1, status |-> "unsupported"]]
             w == [u EXCEPT !.pc = "done", !.outs = s]
  <2>1. /\ u \in WorkerState /\ LateOK(u)
        /\ calls[r] \in [Indices -> Nat]
        /\ f \in Nat /\ z \in Nat
        /\ \A i \in 1 .. z : f + i - 1 \in Indices
        /\ Piece(u, calls[r], f, z)
    BY <1>0, WorkerFacts
  <2>2. wk' = [wk EXCEPT ![r][c] = w]  BY <1>2 DEF IInv, TypeOK
  <2>3. calls' = [calls EXCEPT ![r] = calls[r]]  BY <1>0 DEF IInv, TypeOK
  <2>4. u.pc = "open"  BY <1>0
  <2> HIDE DEF u, f, z
  <2>5. s \in Seq(Output) /\ Len(s) = z
    <3>1. \A i \in 1 .. z : [index |-> f + i - 1, status |-> "unsupported"] \in Output
      BY <2>1 DEF Output, Statuses
    <3> QED  BY <2>1, <3>1
  <2>6. \A i \in 1 .. z : s[i].index = f + i - 1 /\ Ran(s[i]) = 0  BY <2>1 DEF Ran
  <2> HIDE DEF s
  <2>7. w \in WorkerState /\ w.pc = "done" /\ w.outs = s /\ w.late = u.late
    BY <2>1, <2>5 DEF WorkerState
  <2> HIDE DEF w
  <2>8. \A i \in 1 .. z : calls[r][f + i - 1] = 0
    <3>1. Len(u.outs) = 0  BY <2>1, <2>4 DEF Piece
    <3> QED  BY <2>1, <2>4, <3>1 DEF Piece
  <2>9. Piece(w, calls[r], f, z)
    <3>1. Len(w.outs) = z /\ w.pc = "done"  BY <2>5, <2>7
    <3>2. \A i \in 1 .. z : w.outs[i].index = f + i - 1 /\ Ran(w.outs[i]) = 0
      BY <2>6, <2>7
    <3>3. \A i \in 1 .. z : i <= Len(w.outs)  BY <2>1, <3>1
    <3>4. \A i \in 1 .. Len(w.outs) : w.outs[i].index = f + i - 1  BY <3>1, <3>2
    <3>5. ASSUME NEW i \in 1 .. z
          PROVE  calls[r][f + i - 1] = IF i <= Len(w.outs) THEN Ran(w.outs[i])
                                       ELSE IF i = Len(w.outs) + 1 /\ w.pc = "call" THEN 1 ELSE 0
      BY <2>8, <3>2, <3>3
    <3>6. Len(w.outs) <= z  BY <2>1, <3>1
    <3> QED  BY <3>1, <3>4, <3>5, <3>6 DEF Piece
  <2>10. LateOK(w)  BY <2>1, <2>7 DEF LateOK
  <2>11. wk[r][c].pc \notin {"none", "done"} /\ wk[r][c].pc \notin {"item", "checked", "call"}
    BY <2>4 DEF u
  <2>12. w.pc # "none"  BY <2>7
  <2>13. cleanups' \in Nat  BY <1>0 DEF IInv, TypeOK
  <2> QED  BY <1>0, <2>1, <2>2, <2>3, <2>7, <2>9, <2>10, <2>11, <2>12, <2>13, WorkerKeeps
              DEF f, z
<1> QED  BY <1>1, <1>2 DEF OpenSession

\* A worker begins the call of the item it is at: the item's first call.
LEMMA CallStartKeeps ==
    ASSUME IInv, NEW r \in Runs, NEW c \in Workers, CallStart(r, c)
    PROVE  IInv'
<1> DEFINE u == wk[r][c]
           f == Base(r, c)
           z == PieceLen(r, c)
           k == At(r, c)
           w == [u EXCEPT !.pc = "call", !.late = u.late + IF Stopped THEN 1 ELSE 0]
           D == [calls[r] EXCEPT ![k] = calls[r][k] + 1]
<1>0. /\ u.pc = "checked" /\ UNCHANGED <<closed, cancelled, cleanups, run>>
      /\ wk' = [wk EXCEPT ![r][c].pc = "call",
                          ![r][c].late = u.late + IF Stopped THEN 1 ELSE 0]
      /\ calls' = [calls EXCEPT ![r][k] = calls[r][k] + 1]
  BY DEF CallStart
<1>1. /\ u \in WorkerState /\ LateOK(u)
      /\ u.outs \in Seq(Output) /\ Len(u.outs) \in Nat
      /\ calls[r] \in [Indices -> Nat]
      /\ f \in Nat /\ z \in Nat
      /\ \A i \in 1 .. z : f + i - 1 \in Indices
      /\ Piece(u, calls[r], f, z)
  BY <1>0, WorkerFacts
<1>2. wk' = [wk EXCEPT ![r][c] = w]  BY <1>0 DEF IInv, TypeOK
<1>3. calls' = [calls EXCEPT ![r] = D]  BY <1>0 DEF IInv, TypeOK
<1>4. k = f + Len(u.outs)  BY DEF At
<1>5. wk[r][c].pc \notin {"none", "done"}  BY <1>0
<1> HIDE DEF u, f, z, k
<1>6. Len(u.outs) < z /\ calls[r][k] = 0 /\ k \in Indices
  <2>1. Len(u.outs) < z  BY <1>0, <1>1 DEF Piece
  <2>2. Len(u.outs) + 1 \in 1 .. z  BY <1>1, <2>1
  <2>3. f + (Len(u.outs) + 1) - 1 = k  BY <1>1, <1>4
  <2>4. calls[r][f + (Len(u.outs) + 1) - 1] = 0
    <3>1. \A i \in 1 .. z : ~ (i <= Len(u.outs)) => calls[r][f + i - 1] = 0
      BY <1>0, <1>1 DEF Piece
    <3>2. ~ (Len(u.outs) + 1 <= Len(u.outs))  BY <1>1
    <3> QED  BY <2>2, <3>1, <3>2
  <2> QED  BY <1>1, <2>1, <2>2, <2>3, <2>4
<1>7. D \in [Indices -> Nat] /\ D[k] = 1 /\ \A j \in Indices : j # k => D[j] = calls[r][j]
  BY <1>1, <1>6
<1>8. /\ w \in WorkerState /\ w.pc = "call" /\ w.outs = u.outs
      /\ w.late = u.late + IF Stopped THEN 1 ELSE 0
  <2>1. u.late + (IF Stopped THEN 1 ELSE 0) \in Nat  BY <1>1 DEF WorkerState
  <2> QED  BY <1>1, <2>1 DEF WorkerState
<1> HIDE DEF w, D
<1>9. LateOK(w)
  <2>1. u.late = 0  BY <1>0, <1>1 DEF LateOK
  <2> QED  BY <1>8, <2>1 DEF LateOK
<1>10. \A j \in Indices : (j < f \/ j >= f + z) => D[j] = calls[r][j]
  <2> SUFFICES ASSUME NEW j \in Indices, j < f \/ j >= f + z PROVE D[j] = calls[r][j]
    OBVIOUS
  <2>1. j # k  BY <1>1, <1>4, <1>6
  <2> QED  BY <1>7, <2>1
<1>11. ASSUME NEW i \in 1 .. z
       PROVE  D[f + i - 1] = IF i <= Len(w.outs) THEN Ran(w.outs[i])
                             ELSE IF i = Len(w.outs) + 1 /\ w.pc = "call" THEN 1 ELSE 0
  <2>1. calls[r][f + i - 1] = IF i <= Len(u.outs) THEN Ran(u.outs[i]) ELSE 0
    BY <1>0, <1>1 DEF Piece
  <2>2. f + i - 1 \in Indices  BY <1>1
  <2>3. CASE i = Len(u.outs) + 1
    <3>1. f + i - 1 = k  BY <1>1, <1>4, <2>3
    <3>2. ~ (i <= Len(w.outs))  BY <1>1, <1>8, <2>3
    <3> QED  BY <1>7, <1>8, <2>3, <3>1, <3>2
  <2>4. CASE i # Len(u.outs) + 1
    <3>1. f + i - 1 # k  BY <1>1, <1>4, <2>4
    <3>2. D[f + i - 1] = calls[r][f + i - 1]  BY <1>7, <2>2, <3>1
    <3> QED  BY <1>8, <2>1, <2>4, <3>2
  <2> QED  BY <2>3, <2>4
<1>12. Piece(w, D, f, z)
  <2>1. \A i \in 1 .. Len(w.outs) : w.outs[i].index = f + i - 1  BY <1>1, <1>8 DEF Piece
  <2> QED  BY <1>1, <1>6, <1>8, <1>11, <2>1 DEF Piece
<1>13. cleanups' \in Nat  BY <1>0 DEF IInv, TypeOK
<1>14. /\ wk[r][c].pc \in {"item", "checked", "call"} => w.pc \in {"item", "checked", "call", "done"}
       /\ w.pc # "none"
  BY <1>8
<1>15. /\ \A j \in Indices : (j < Base(r, c) \/ j >= Base(r, c) + PieceLen(r, c))
                                => D[j] = calls[r][j]
       /\ Piece(w, D, Base(r, c), PieceLen(r, c))
  BY <1>10, <1>12 DEF f, z
<1>16. w \in WorkerState /\ D \in [Indices -> Nat]  BY <1>7, <1>8
<1>17. UNCHANGED <<closed, cancelled, run>>  BY <1>0
<1> QED  BY <1>2, <1>3, <1>5, <1>9, <1>13, <1>14, <1>15, <1>16, <1>17, WorkerKeeps

\* Every step of a worker preserves the invariant.
LEMMA WorkerStepKeeps ==
    ASSUME IInv, NEW r \in Runs, NEW c \in Workers, WorkerStep(r, c)
    PROVE  IInv'
<1>0. cleanups \in Nat /\ cleanups + 1 \in Nat  BY DEF IInv, TypeOK
<1>1. CASE Begin(r, c)  BY <1>0, <1>1, MoveKeeps DEF Begin
<1>2. CASE CancelPiece(r, c)
  <2>1. "cancelled" \in Statuses  BY DEF Statuses
  <2> QED  BY <1>0, <1>2, <2>1, EmitKeeps DEF CancelPiece
<1>3. CASE OpenSession(r, c)  BY <1>3, OpenSessionKeeps
<1>4. CASE CheckItem(r, c)
  <2>1. "cancelled" \in Statuses  BY DEF Statuses
  <2>2. CASE Stopped /\ cleanups' = cleanups + 1 /\ Emit(r, c, "cancelled", "item")
    BY <1>0, <1>4, <2>1, <2>2, EmitKeeps DEF CheckItem
  <2>3. CASE ~Stopped /\ wk' = [wk EXCEPT ![r][c].pc = "checked"] /\ UNCHANGED cleanups
    BY <1>0, <1>4, <2>3, MoveKeeps DEF CheckItem
  <2> QED  BY <1>4, <2>2, <2>3 DEF CheckItem
<1>5. CASE CallStart(r, c)  BY <1>5, CallStartKeeps
<1>6. CASE CallEnd(r, c)
  <2>1. PICK status \in {"returned", "failed"} : Emit(r, c, status, "item")
    BY <1>6 DEF CallEnd
  <2>2. wk[r][c].pc = "call" /\ UNCHANGED <<closed, cancelled, cleanups, run, calls>>
    BY <1>6 DEF CallEnd
  <2>3. ~Exhausted(r, c)
    <3>1. Piece(wk[r][c], calls[r], Base(r, c), PieceLen(r, c))
          /\ Len(wk[r][c].outs) \in Nat /\ PieceLen(r, c) \in Nat
      BY <2>2, WorkerFacts
    <3> QED  BY <2>2, <3>1 DEF Piece, Exhausted
  <2>4. status \in Statuses  BY <2>1 DEF Statuses
  <2> QED  BY <1>0, <2>1, <2>2, <2>3, <2>4, EmitKeeps
<1>7. CASE WorkerDone(r, c)  BY <1>0, <1>7, MoveKeeps DEF WorkerDone
<1> QED  BY <1>1, <1>2, <1>3, <1>4, <1>5, <1>6, <1>7 DEF WorkerStep

-----------------------------------------------------------------------------
(* The steps of the host and of a run *)

\* What any step that leaves the workers and the calls of all runs but r alone
\* preserves.
LEMMA RunKeeps ==
    ASSUME IInv, NEW r \in Runs, NEW R \in RunState, NEW W \in [Workers -> WorkerState],
           RunOK(R, W, calls[r]),
           \A c \in Workers : /\ W[c].late = wk[r][c].late
                              /\ W[c].pc = "checked" => wk[r][c].pc = "checked",
           run' = [run EXCEPT ![r] = R], wk' = [wk EXCEPT ![r] = W],
           UNCHANGED <<closed, cancelled, cleanups, calls>>
    PROVE  IInv'
<1>1. /\ run'[r] = R /\ wk'[r] = W
      /\ \A q \in Runs : q # r => run'[q] = run[q] /\ wk'[q] = wk[q]
  BY DEF IInv, TypeOK
<1>2. TypeOK'  BY DEF IInv, TypeOK
<1>3. RunsOK'
  <2> SUFFICES ASSUME NEW q \in Runs PROVE RunOK(run'[q], wk'[q], calls[q])
    BY DEF RunsOK
  <2>1. CASE q = r  BY <1>1, <2>1
  <2>2. CASE q # r  BY <1>1, <2>2 DEF IInv, RunsOK
  <2> QED  BY <2>1, <2>2
<1>4. LateOnce'
  <2> SUFFICES ASSUME NEW q \in Runs, NEW d \in Workers PROVE LateOK(wk[q][d])'
    BY DEF LateOnce
  <2>1. Stopped' = Stopped  BY DEF Stopped
  <2>2. LateOK(wk[q][d])  BY DEF IInv, LateOnce
  <2>3. CASE q = r
    <3>1. wk[q][d]' = W[d]  BY <1>1, <2>3
    <3>2. W[d].late = wk[r][d].late /\ (W[d].pc = "checked" => wk[r][d].pc = "checked")
      OBVIOUS
    <3> QED  BY <2>1, <2>2, <2>3, <3>1, <3>2 DEF LateOK
  <2>4. CASE q # r
    <3>1. wk[q][d]' = wk[q][d]  BY <1>1, <2>4
    <3> QED  BY <2>1, <2>2, <3>1 DEF LateOK
  <2> QED  BY <2>3, <2>4
<1> QED  BY <1>2, <1>3, <1>4 DEF IInv
\* The state S, V that spawning a worker leads to from the workers W.
Spawned(S, V, W, C) ==
    /\ S \in RunState /\ V \in [Workers -> WorkerState] /\ RunOK(S, V, C)
    /\ \A d \in Workers : /\ V[d].late = W[d].late
                          /\ V[d].pc = "checked" => W[d].pc = "checked"

\* Spawning the next worker: the thread of the next chunk.
LEMMA SpawnKeepsRun ==
    ASSUME NEW R \in RunState, NEW W \in [Workers -> WorkerState],
           NEW C \in [Indices -> Nat], RunOK(R, W, C), R.pc = "spawning",
           NEW c, c = R.spawned + 1,
           NEW pc, pc = IF c = Chunks(R.n) THEN "joining" ELSE "spawning",
           NEW S, S = [R EXCEPT !.spawned = c, !.pc = pc],
           NEW w, w = [W[c] EXCEPT !.pc = "begin"],
           NEW V, V = [W EXCEPT ![c] = w]
    PROVE  Spawned(S, V, W, C)
<1>0. /\ R.n \in 0 .. MaxItems /\ MaxItems \in Nat
      /\ R.spawned \in 0 .. MaxWorkers /\ MaxWorkers \in Nat /\ R.joined \in 0 .. MaxWorkers
  BY ConstantsAssumption DEF RunState
<1>1. /\ R.n >= 1 /\ R.joined = 0 /\ R.spawned < Chunks(R.n)
      /\ \A d \in Workers : d <= R.spawned <=> W[d].pc # "none"
  BY DEF RunOK, Shape
<1>2. Chunks(R.n) \in 1 .. MaxWorkers  BY <1>0, <1>1, ChunkFacts
<1>3. c \in Workers /\ c \in 1 .. Chunks(R.n) /\ W[c].pc = "none"
  <2>1. c \in Workers /\ c \in 1 .. Chunks(R.n) /\ ~ (c <= R.spawned)
    BY <1>0, <1>1, <1>2 DEF Workers
  <2> QED  BY <1>1, <2>1
<1>4. /\ S \in RunState /\ S.n = R.n /\ S.spawned = c /\ S.joined = R.joined
      /\ S.outputs = R.outputs
      /\ S.pc = IF c = Chunks(R.n) THEN "joining" ELSE "spawning"
  <2>1. c \in 0 .. MaxWorkers  BY <1>0, <1>2, <1>3 DEF Workers
  <2>2. pc \in {"spawning", "joining"}  OBVIOUS
  <2>4. S \in RunState  BY <2>1, <2>2 DEF RunState
  <2>5. /\ S.n = R.n /\ S.spawned = c /\ S.joined = R.joined /\ S.outputs = R.outputs
        /\ S.pc = pc
    BY DEF RunState
  <2> QED  BY <2>4, <2>5
<1>5. /\ V \in [Workers -> WorkerState]
      /\ V[c].pc = "begin" /\ V[c].outs = W[c].outs /\ V[c].late = W[c].late
      /\ \A d \in Workers : d # c => V[d] = W[d]
  BY <1>3 DEF WorkerState
<1>6. \A d \in 1 .. Chunks(R.n) : Piece(W[d], C, First(R, d), Size(R, d))
  BY DEF RunOK, Active, Pieces
<1>7. Shape(S, V)
  <2>1. \A d \in Workers : d <= c <=> V[d].pc # "none"
    <3> SUFFICES ASSUME NEW d \in Workers PROVE d <= c <=> V[d].pc # "none"  OBVIOUS
    <3>1. CASE d = c  BY <1>0, <1>3, <1>5, <3>1 DEF Workers
    <3>2. CASE d # c
      <4>1. V[d] = W[d] /\ (d <= c <=> d <= R.spawned)
        BY <1>0, <1>5, <3>2 DEF Workers
      <4> QED  BY <1>1, <4>1
    <3> QED  BY <3>1, <3>2
  <2>2. \A d \in Workers : ~ (d <= S.joined)  BY <1>1, <1>4 DEF Workers
  <2>3. /\ S.joined = 0 /\ c <= Chunks(R.n) /\ 0 <= c
        /\ S.pc = "spawning" => c < Chunks(R.n)
        /\ S.pc = "joining" => c = Chunks(R.n)
        /\ S.pc \in {"spawning", "joining"}
    BY <1>1, <1>2, <1>3, <1>4
  <2> QED  BY <1>1, <1>4, <2>1, <2>2, <2>3 DEF Shape
<1>8. ASSUME NEW d \in Pieces(S) PROVE Piece(V[d], C, First(S, d), Size(S, d))
  <2>1. d \in 1 .. Chunks(R.n) /\ First(S, d) = First(R, d) /\ Size(S, d) = Size(R, d)
    BY <1>4 DEF Pieces, First, Size
  <2>2. Piece(W[d], C, First(R, d), Size(R, d))  BY <1>6, <2>1
  <2>3. CASE d = c
    <3>1. W[d].outs = <<>> /\ V[d].outs = <<>>  BY <1>3, <1>5, <2>2, <2>3 DEF Piece
    <3> QED  BY <1>3, <1>5, <2>1, <2>2, <2>3, <3>1 DEF Piece
  <2>4. CASE d # c
    <3>1. d \in Workers  BY <1>0, <1>2, <2>1 DEF Workers
    <3> QED  BY <1>5, <2>1, <2>2, <2>4, <3>1
  <2> QED  BY <2>3, <2>4
<1>9. Merged(S.outputs, C, MinOf(S.joined * ChunkLen(S.n), S.n))  BY <1>4 DEF RunOK
<1>10. S.pc \in {"spawning", "joining"}  BY <1>4
<1>11. RunOK(S, V, C)  BY <1>7, <1>8, <1>9, <1>10 DEF RunOK
<1>12. ASSUME NEW d \in Workers
       PROVE  V[d].late = W[d].late /\ (V[d].pc = "checked" => W[d].pc = "checked")
  BY <1>5
<1> QED  BY <1>4, <1>5, <1>11, <1>12 DEF Spawned

\* Joining a worker that ended appends its piece to those merged so far.
LEMMA JoinKeepsRun ==
    ASSUME NEW R \in RunState, NEW W \in [Workers -> WorkerState],
           NEW C \in [Indices -> Nat], RunOK(R, W, C),
           R.pc = "joining", R.joined < R.spawned,
           NEW c, c = R.joined + 1, W[c].pc = "done",
           NEW S, S = [R EXCEPT !.joined = c, !.outputs = R.outputs \o W[c].outs]
    PROVE  S \in RunState /\ RunOK(S, W, C)
<1> DEFINE L == ChunkLen(R.n)
           s == R.outputs
           t == W[c].outs
<1>0. /\ R.n \in 0 .. MaxItems /\ MaxItems \in Nat
      /\ R.spawned \in 0 .. MaxWorkers /\ MaxWorkers \in Nat /\ R.joined \in 0 .. MaxWorkers
      /\ s \in Seq(Output) /\ Len(s) \in Nat
  BY ConstantsAssumption DEF RunState
<1>1. /\ R.n >= 1 /\ R.spawned = Chunks(R.n)
      /\ \A d \in Workers : d <= R.spawned <=> W[d].pc # "none"
      /\ \A d \in Workers : d <= R.joined => W[d].pc = "done"
  BY DEF RunOK, Shape
<1>2. c \in Workers /\ c \in 1 .. Chunks(R.n) /\ c <= R.spawned
  BY <1>0, <1>1 DEF Workers
<1>3. /\ First(R, c) \in Nat /\ Size(R, c) \in Nat
      /\ First(R, c) = MinOf((c - 1) * L, R.n)
      /\ First(R, c) + Size(R, c) = MinOf(c * L, R.n)
      /\ First(R, c) + Size(R, c) <= R.n
  BY <1>1, <1>2, PieceFacts
<1>4. Piece(W[c], C, First(R, c), Size(R, c))
  BY <1>2 DEF RunOK, Active, Pieces
<1>5. Merged(s, C, First(R, c))
  <2>1. c - 1 = R.joined  BY <1>0
  <2> QED  BY <1>3, <2>1 DEF RunOK
<1>6. t \in Seq(Output) /\ Len(t) = Size(R, c)
  BY <1>2, <1>4 DEF WorkerState, Piece
<1>7. /\ s \o t \in Seq(Output) /\ Len(s \o t) = Len(s) + Len(t)
      /\ \A i \in 1 .. Len(s) + Len(t) : (s \o t)[i] = IF i <= Len(s) THEN s[i] ELSE t[i - Len(s)]
  BY <1>0, <1>6, ConcatProperties
<1>8. /\ S \in RunState /\ S.n = R.n /\ S.spawned = R.spawned /\ S.joined = c
      /\ S.outputs = s \o t /\ S.pc = "joining"
  <2>1. c \in 0 .. MaxWorkers  BY <1>0, <1>2 DEF Workers
  <2> DEFINE u == s \o t
  <2>2. u \in Seq(Output) /\ S = [R EXCEPT !.joined = c, !.outputs = u]  BY <1>7
  <2> HIDE DEF u, s, t
  <2>3. S \in RunState  BY <2>1, <2>2 DEF RunState
  <2>4. /\ S.n = R.n /\ S.spawned = R.spawned /\ S.joined = c
        /\ S.outputs = u /\ S.pc = "joining"
    BY <2>2 DEF RunState
  <2> QED  BY <2>3, <2>4 DEF u
<1> HIDE DEF s, t, L
<1>9. Merged(s \o t, C, First(R, c) + Size(R, c))
  <2> DEFINE f == First(R, c)  z == Size(R, c)
  <2>1. f \in Nat /\ z \in Nat /\ Len(s) = f /\ Len(t) = z  BY <1>3, <1>5, <1>6 DEF Merged
  <2>2. \A i \in 1 .. f : s[i].index = i - 1 /\ C[i - 1] = Ran(s[i])  BY <1>5 DEF Merged
  <2>3. \A i \in 1 .. z : t[i].index = f + i - 1 /\ C[f + i - 1] = Ran(t[i])
    <3> SUFFICES ASSUME NEW i \in 1 .. z
                 PROVE  t[i].index = f + i - 1 /\ C[f + i - 1] = Ran(t[i])
      OBVIOUS
    <3>1. i \in 1 .. Len(t) /\ i <= Len(t)  BY <2>1
    <3>2. t[i].index = f + i - 1  BY <1>4, <3>1 DEF Piece, t
    <3>3. C[f + i - 1] = Ran(t[i])  BY <1>4, <3>1 DEF Piece, t
    <3> QED  BY <3>2, <3>3
  <2> HIDE DEF f, z
  <2>4. ASSUME NEW i \in 1 .. f + z
        PROVE  (s \o t)[i].index = i - 1 /\ C[i - 1] = Ran((s \o t)[i])
    <3>1. CASE i <= f
      <4>1. (s \o t)[i] = s[i] /\ i \in 1 .. f  BY <1>7, <2>1, <2>4, <3>1
      <4> QED  BY <2>2, <4>1
    <3>2. CASE i > f
      <4>1. (s \o t)[i] = t[i - f] /\ i - f \in 1 .. z /\ f + (i - f) - 1 = i - 1
        BY <1>7, <2>1, <2>4, <3>2
      <4>2. t[i - f].index = f + (i - f) - 1 /\ C[f + (i - f) - 1] = Ran(t[i - f])
        BY <2>3, <4>1
      <4> QED  BY <4>1, <4>2
    <3>3. i <= f \/ i > f  BY <2>1
    <3> QED  BY <3>1, <3>2, <3>3
  <2>5. Len(s \o t) = f + z  BY <1>7, <2>1
  <2> QED  BY <2>4, <2>5 DEF Merged, f, z
<1>10. Shape(S, W)
  <2>1. \A d \in Workers : d <= c => W[d].pc = "done"
    <3> SUFFICES ASSUME NEW d \in Workers, d <= c PROVE W[d].pc = "done"  OBVIOUS
    <3>1. d <= R.joined \/ d = c  BY <1>0 DEF Workers
    <3> QED  BY <1>1, <3>1
  <2>2. /\ S.n >= 1 /\ S.spawned <= Chunks(S.n) /\ S.joined <= S.spawned
        /\ S.spawned = Chunks(S.n)
    BY <1>0, <1>1, <1>2, <1>8
  <2> QED  BY <1>1, <1>8, <2>1, <2>2 DEF Shape
<1>11. \A d \in Pieces(S) : Piece(W[d], C, First(S, d), Size(S, d))
  <2> SUFFICES ASSUME NEW d \in Pieces(S) PROVE Piece(W[d], C, First(S, d), Size(S, d))
    OBVIOUS
  <2>1. d \in Pieces(R) /\ First(S, d) = First(R, d) /\ Size(S, d) = Size(R, d)
    BY <1>8 DEF Pieces, First, Size
  <2> QED  BY <2>1 DEF RunOK, Active
<1>12. Merged(S.outputs, C, MinOf(S.joined * ChunkLen(S.n), S.n))
  BY <1>3, <1>8, <1>9 DEF L
<1>13. RunOK(S, W, C)  BY <1>8, <1>10, <1>11, <1>12 DEF RunOK
<1> QED  BY <1>8, <1>13

\* Finishing sorts outputs that are already in order, and reports all of them.
LEMMA DoneKeepsRun ==
    ASSUME NEW R \in RunState, NEW W \in [Workers -> WorkerState],
           NEW C \in [Indices -> Nat], cleanups \in Nat,
           NEW s \in Seq(Output), Merged(s, C, R.n),
           \A d \in Workers : W[d].pc \in {"none", "done"},
           NEW S, S = [R EXCEPT !.pc = "done", !.report = Finish(s)]
    PROVE  S \in RunState /\ RunOK(S, W, C)
<1>1. \A i \in 1 .. Len(s) : s[i].index = i - 1  BY DEF Merged
<1>2. Finish(s) \in Report /\ Finish(s).results = s  BY <1>1, FinishFacts
<1> DEFINE f == Finish(s)
<1> HIDE DEF f
<1>3. S = [R EXCEPT !.pc = "done", !.report = f] /\ f \in Report /\ f.results = s
  BY <1>2 DEF f
<1>4. S \in RunState /\ S.pc = "done" /\ S.n = R.n /\ S.report = f
  BY <1>3 DEF RunState
<1>5. RunOK(S, W, C)  BY <1>3, <1>4 DEF RunOK, Shape, Active
<1> QED  BY <1>4, <1>5

\* run_concurrent returns: all pieces are merged.
LEMMA FinishKeepsRun ==
    ASSUME NEW R \in RunState, NEW W \in [Workers -> WorkerState],
           NEW C \in [Indices -> Nat], RunOK(R, W, C), cleanups \in Nat,
           R.pc = "joining", R.joined = R.spawned,
           NEW S, S = [R EXCEPT !.pc = "done", !.report = Finish(R.outputs)]
    PROVE  S \in RunState /\ RunOK(S, W, C)
<1>0. R.n \in Nat /\ R.n >= 1 /\ R.spawned = Chunks(R.n) /\ R.outputs \in Seq(Output)
  BY ConstantsAssumption DEF RunOK, Shape, RunState
<1>1. \A d \in Workers : W[d].pc \in {"none", "done"}
  BY DEF RunOK, Shape
<1>2. R.n <= Chunks(R.n) * ChunkLen(R.n) /\ Chunks(R.n) * ChunkLen(R.n) \in Int
  <2>1. /\ ChunkLen(R.n) \in Nat /\ Chunks(R.n) \in 1 .. MaxWorkers
        /\ R.n <= Chunks(R.n) * ChunkLen(R.n)
    BY <1>0, ChunkFacts
  <2>2. Chunks(R.n) \in Int  BY <2>1, ConstantsAssumption
  <2> QED  BY <2>1, <2>2
<1>3. MinOf(R.joined * ChunkLen(R.n), R.n) = R.n  BY <1>0, <1>2 DEF MinOf
<1>4. Merged(R.outputs, C, R.n)  BY <1>3 DEF RunOK
<1> QED  BY <1>0, <1>1, <1>4, DoneKeepsRun

\* run_batch returns: its one worker's piece is all items.
LEMMA FinishBatchKeepsRun ==
    ASSUME NEW R \in RunState, NEW W \in [Workers -> WorkerState],
           NEW C \in [Indices -> Nat], RunOK(R, W, C), cleanups \in Nat,
           R.pc = "inline", W[1].pc = "done",
           NEW S, S = [R EXCEPT !.pc = "done", !.report = Finish(W[1].outs)]
    PROVE  S \in RunState /\ RunOK(S, W, C)
<1>0. R.n \in Nat  BY ConstantsAssumption DEF RunState
<1>1. 1 \in Workers  BY ConstantsAssumption DEF Workers
<1>2. W[1].outs \in Seq(Output)  BY <1>1 DEF WorkerState
<1>3. \A d \in Workers : W[d].pc \in {"none", "done"}  BY DEF RunOK, Shape
<1>4. Piece(W[1], C, 0, R.n)
  <2>1. 1 \in Pieces(R) /\ First(R, 1) = 0 /\ Size(R, 1) = R.n  BY DEF Pieces, First, Size
  <2> QED  BY <2>1 DEF RunOK, Active
<1>5. Merged(W[1].outs, C, R.n)
  <2> DEFINE s == W[1].outs
  <2>1. Len(s) = R.n  BY <1>4 DEF Piece
  <2>2. ASSUME NEW i \in 1 .. R.n PROVE s[i].index = i - 1 /\ C[i - 1] = Ran(s[i])
    <3>1. i \in 1 .. Len(s) /\ i <= Len(s) /\ 0 + i - 1 = i - 1  BY <1>0, <2>1
    <3>2. s[i].index = 0 + i - 1  BY <1>4, <3>1 DEF Piece
    <3>3. C[0 + i - 1] = Ran(s[i])  BY <1>4, <3>1 DEF Piece
    <3> QED  BY <3>1, <3>2, <3>3
  <2> QED  BY <2>1, <2>2 DEF Merged
<1> QED  BY <1>2, <1>3, <1>5, DoneKeepsRun

\* Starting a run: nothing has been emitted or called.
LEMMA StartKeepsRun ==
    ASSUME NEW R \in RunState, NEW W \in [Workers -> WorkerState],
           NEW C \in [Indices -> Nat], RunOK(R, W, C), R.pc = "idle", cleanups \in Nat,
           NEW n \in 0 .. MaxItems
    PROVE  /\ [R EXCEPT !.pc = "refused"] \in RunState
           /\ RunOK([R EXCEPT !.pc = "refused"], W, C)
           /\ LET S == [NoRun EXCEPT !.pc = "inline", !.n = n]
                  V == [W EXCEPT ![1].pc = "item"]
              IN  S \in RunState /\ V \in [Workers -> WorkerState] /\ RunOK(S, V, C)
           /\ LET S == IF n = 0 THEN [NoRun EXCEPT !.pc = "done", !.report = Finish(<<>>)]
                       ELSE [NoRun EXCEPT !.pc = "spawning", !.n = n]
              IN  S \in RunState /\ RunOK(S, W, C)
<1>0. MaxItems \in Nat /\ MaxWorkers \in Nat /\ MaxWorkers >= 1 /\ 1 \in Workers
  BY ConstantsAssumption DEF Workers
<1>1. Untouched(R, W, C)  BY DEF RunOK
<1>2. /\ \A c \in Workers : W[c].pc = "none" /\ W[c].outs = <<>>
      /\ \A k \in Indices : C[k] = 0
  BY <1>1 DEF Untouched, NoWorker
<1>3. NoRun \in RunState
  <2>1. <<>> \in Seq(Output)  OBVIOUS
  <2> QED  BY <1>0, <2>1 DEF NoRun, RunState
<1>4. /\ [R EXCEPT !.pc = "refused"] \in RunState
      /\ RunOK([R EXCEPT !.pc = "refused"], W, C)
  <2> DEFINE S == [R EXCEPT !.pc = "refused"]
  <2>1. /\ S \in RunState /\ S.pc = "refused" /\ S.n = R.n /\ S.spawned = R.spawned
        /\ S.joined = R.joined /\ S.outputs = R.outputs
    BY DEF RunState
  <2> HIDE DEF S
  <2>2. Shape(S, W)  BY <2>1 DEF Shape
  <2>3. Untouched(S, W, C)  BY <1>1, <2>1 DEF Untouched
  <2>4. RunOK(S, W, C)  BY <2>1, <2>2, <2>3 DEF RunOK, Active
  <2> QED  BY <2>1, <2>4 DEF S
\* A piece of a run in which nothing happened yet.
<1>5. ASSUME NEW w, NEW first \in Nat, NEW size \in Nat,
             \A i \in 1 .. size : first + i - 1 \in Indices,
             w.outs = <<>>, w.pc \in {"none", "item"}
      PROVE  Piece(w, C, first, size)
  <2>1. Len(w.outs) = 0  BY <1>5
  <2>2. ASSUME NEW i \in 1 .. size
        PROVE  C[first + i - 1] = 0 /\ ~ (i <= Len(w.outs)) /\ w.pc # "call"
    <3>1. first + i - 1 \in Indices  BY <1>5
    <3>2. ~ (i <= Len(w.outs))  BY <2>1
    <3> QED  BY <1>2, <1>5, <3>1, <3>2
  <2>3. \A i \in 1 .. Len(w.outs) : FALSE  BY <2>1
  <2>4. Len(w.outs) <= size  BY <2>1
  <2> QED  BY <1>5, <2>2, <2>3, <2>4 DEF Piece
<1>6. LET S == [NoRun EXCEPT !.pc = "inline", !.n = n]
          V == [W EXCEPT ![1].pc = "item"]
      IN  S \in RunState /\ V \in [Workers -> WorkerState] /\ RunOK(S, V, C)
  <2> DEFINE S == [NoRun EXCEPT !.pc = "inline", !.n = n]
             V == [W EXCEPT ![1].pc = "item"]
  <2>1. S \in RunState /\ S.pc = "inline" /\ S.n = n
    BY <1>3 DEF RunState
  <2>2. /\ V \in [Workers -> WorkerState] /\ V[1].pc = "item" /\ V[1].outs = W[1].outs
        /\ \A d \in Workers \ {1} : V[d] = W[d]
    BY <1>0 DEF WorkerState
  <2> HIDE DEF S, V
  <2>3. Shape(S, V)  BY <1>2, <2>1, <2>2 DEF Shape
  <2>4. \A c \in Pieces(S) : Piece(V[c], C, First(S, c), Size(S, c))
    <3> SUFFICES ASSUME NEW c \in Pieces(S) PROVE Piece(V[c], C, First(S, c), Size(S, c))
      OBVIOUS
    <3>1. c = 1 /\ First(S, c) = 0 /\ Size(S, c) = n  BY <2>1 DEF Pieces, First, Size
    <3>2. \A i \in 1 .. n : 0 + i - 1 \in Indices  BY <1>0 DEF Indices
    <3>3. V[1].outs = <<>>  BY <1>0, <1>2, <2>2
    <3>4. Piece(V[1], C, 0, n)  BY <1>0, <1>5, <2>2, <3>2, <3>3
    <3> QED  BY <3>1, <3>4
  <2>5. RunOK(S, V, C)  BY <2>1, <2>3, <2>4 DEF RunOK, Active
  <2> QED  BY <2>1, <2>2, <2>5 DEF S, V
<1>7. CASE n = 0
  <2> DEFINE S == [NoRun EXCEPT !.pc = "done", !.report = Finish(<<>>)]
  <2>1. <<>> \in Seq(Output) /\ NoRun.n = 0  BY DEF NoRun
  <2>2. Merged(<<>>, C, NoRun.n)  BY <2>1 DEF Merged
  <2>3. \A d \in Workers : W[d].pc \in {"none", "done"}  BY <1>2
  <2>4. S \in RunState /\ RunOK(S, W, C)  BY <1>3, <2>1, <2>2, <2>3, DoneKeepsRun
  <2> QED  BY <1>4, <1>6, <1>7, <2>4
<1>8. CASE n # 0
  <2> DEFINE S == [NoRun EXCEPT !.pc = "spawning", !.n = n]
  <2>1. /\ S \in RunState /\ S.pc = "spawning" /\ S.n = n /\ S.spawned = 0
        /\ S.joined = 0 /\ S.outputs = <<>>
    BY <1>3 DEF RunState, NoRun
  <2> HIDE DEF S
  <2>2. n \in Nat /\ n >= 1  BY <1>0, <1>8
  <2>3. Chunks(n) \in 1 .. MaxWorkers /\ ChunkLen(n) \in Nat  BY <2>2, ChunkFacts
  <2>4. Shape(S, W)
    <3>1. \A c \in Workers : ~ (c <= 0)  BY DEF Workers
    <3>2. 0 < Chunks(n)  BY <1>0, <2>3
    <3>3. 0 <= Chunks(n)  BY <1>0, <2>3
    <3> QED  BY <1>2, <2>1, <2>2, <3>1, <3>2, <3>3 DEF Shape
  <2>5. \A c \in Pieces(S) : Piece(W[c], C, First(S, c), Size(S, c))
    <3> SUFFICES ASSUME NEW c \in Pieces(S) PROVE Piece(W[c], C, First(S, c), Size(S, c))
      OBVIOUS
    <3>1. /\ c \in Workers /\ First(S, c) \in Nat /\ Size(S, c) \in Nat
          /\ \A i \in 1 .. Size(S, c) : First(S, c) + i - 1 \in Indices
      BY <2>1, <2>2, PieceWithin DEF Active
    <3> QED  BY <1>2, <1>5, <3>1
  <2>6. Merged(S.outputs, C, MinOf(S.joined * ChunkLen(S.n), S.n))
    <3>1. MinOf(S.joined * ChunkLen(S.n), S.n) = 0  BY <2>1, <2>2, <2>3 DEF MinOf
    <3> QED  BY <2>1, <3>1 DEF Merged
  <2>7. RunOK(S, W, C)  BY <2>1, <2>4, <2>5, <2>6 DEF RunOK
  <2>8. S \in RunState /\ RunOK(S, W, C)  BY <2>1, <2>7
  <2> QED  BY <1>4, <1>6, <1>8, <2>8 DEF S
<1> QED  BY <1>7, <1>8

\* Every step of a run's calling thread preserves the invariant.
LEMMA RunStepKeeps ==
    ASSUME IInv, NEW r \in Runs, RunStep(r)
    PROVE  IInv'
<1> DEFINE R == run[r]  W == wk[r]  C == calls[r]
<1>1. /\ R \in RunState /\ W \in [Workers -> WorkerState] /\ C \in [Indices -> Nat]
      /\ RunOK(R, W, C) /\ cleanups \in Nat
  BY DEF IInv, TypeOK, RunsOK
<1>2. wk = [wk EXCEPT ![r] = W]  BY DEF IInv, TypeOK
<1>3. CASE Spawn(r)
  <2> DEFINE c == R.spawned + 1
             pc == IF c = Chunks(R.n) THEN "joining" ELSE "spawning"
             S == [R EXCEPT !.spawned = c, !.pc = pc]
             w == [W[c] EXCEPT !.pc = "begin"]
             V == [W EXCEPT ![c] = w]
  <2>1. R.pc = "spawning" /\ UNCHANGED <<closed, cancelled, cleanups, calls>>
    BY <1>3 DEF Spawn
  <2>2. run' = [run EXCEPT ![r] = S] /\ wk' = [wk EXCEPT ![r] = V]
    BY <1>3 DEF Spawn, IInv, TypeOK
  <2>3. /\ S \in RunState /\ V \in [Workers -> WorkerState] /\ RunOK(S, V, C)
        /\ \A d \in Workers : /\ V[d].late = W[d].late
                              /\ V[d].pc = "checked" => W[d].pc = "checked"
    <3>1. /\ c = R.spawned + 1 /\ w = [W[c] EXCEPT !.pc = "begin"] /\ V = [W EXCEPT ![c] = w]
          /\ S = [R EXCEPT !.spawned = c, !.pc = pc]
          /\ pc = IF c = Chunks(R.n) THEN "joining" ELSE "spawning"
      OBVIOUS
    <3> HIDE DEF R, W, C, c, pc, w, S, V
    <3>2. Spawned(S, V, W, C)  BY <1>1, <2>1, <3>1, SpawnKeepsRun
    <3> QED  BY <3>2 DEF Spawned
  <2> HIDE DEF S, V
  <2> QED  BY <2>1, <2>2, <2>3, RunKeeps
<1>4. CASE Join(r)
  <2> DEFINE c == R.joined + 1
             S == [R EXCEPT !.joined = c, !.outputs = R.outputs \o W[c].outs]
  <2>1. /\ R.pc = "joining" /\ R.joined < R.spawned /\ W[c].pc = "done"
        /\ UNCHANGED <<closed, cancelled, cleanups, wk, calls>>
    BY <1>4 DEF Join
  <2>2. run' = [run EXCEPT ![r] = S]  BY <1>4 DEF Join, IInv, TypeOK
  <2>3. S \in RunState /\ RunOK(S, W, C)
    <3> HIDE DEF R, W, C
    <3> QED  BY <1>1, <2>1, JoinKeepsRun
  <2> HIDE DEF S
  <2> QED  BY <1>1, <1>2, <2>1, <2>2, <2>3, RunKeeps
<1>5. CASE FinishConcurrent(r)
  <2> DEFINE S == [R EXCEPT !.pc = "done", !.report = Finish(R.outputs)]
  <2>1. /\ R.pc = "joining" /\ R.joined = R.spawned
        /\ UNCHANGED <<closed, cancelled, cleanups, wk, calls>>
    BY <1>5 DEF FinishConcurrent
  <2>2. run' = [run EXCEPT ![r] = S]  BY <1>5 DEF FinishConcurrent, IInv, TypeOK
  <2>3. S \in RunState /\ RunOK(S, W, C)
    <3> HIDE DEF R, W, C
    <3> QED  BY <1>1, <2>1, FinishKeepsRun
  <2> HIDE DEF S
  <2> QED  BY <1>1, <1>2, <2>1, <2>2, <2>3, RunKeeps
<1>6. CASE FinishBatch(r)
  <2> DEFINE S == [R EXCEPT !.pc = "done", !.report = Finish(W[1].outs)]
  <2>1. /\ R.pc = "inline" /\ W[1].pc = "done"
        /\ UNCHANGED <<closed, cancelled, cleanups, wk, calls>>
    BY <1>6 DEF FinishBatch
  <2>2. run' = [run EXCEPT ![r] = S]  BY <1>6 DEF FinishBatch, IInv, TypeOK
  <2>3. S \in RunState /\ RunOK(S, W, C)
    <3> HIDE DEF R, W, C
    <3> QED  BY <1>1, <2>1, FinishBatchKeepsRun
  <2> HIDE DEF S
  <2> QED  BY <1>1, <1>2, <2>1, <2>2, <2>3, RunKeeps
<1> QED  BY <1>3, <1>4, <1>5, <1>6 DEF RunStep

\* Every way in which a run starts or is refused preserves the invariant.
LEMMA StartKeeps ==
    ASSUME IInv, NEW r \in Runs,
           Refuse(r) \/ \E n \in Items[r] : RunConcurrent(r, n) \/ RunBatch(r, n)
    PROVE  IInv'
<1> DEFINE R == run[r]  W == wk[r]  C == calls[r]
           T == [R EXCEPT !.pc = "refused"]
<1>1. /\ R \in RunState /\ W \in [Workers -> WorkerState] /\ C \in [Indices -> Nat]
      /\ RunOK(R, W, C) /\ cleanups \in Nat
  BY DEF IInv, TypeOK, RunsOK
<1>2. wk = [wk EXCEPT ![r] = W]  BY DEF IInv, TypeOK
<1>3. R.pc = "idle" /\ UNCHANGED <<closed, cancelled, cleanups, calls>>
  BY DEF Refuse, RunConcurrent, RunBatch
<1>4. 0 \in 0 .. MaxItems /\ Items[r] \subseteq 0 .. MaxItems  BY ConstantsAssumption
<1>5. ASSUME run' = [run EXCEPT ![r].pc = "refused"], UNCHANGED wk
      PROVE  IInv'
  <2>1. run' = [run EXCEPT ![r] = T]  BY <1>5 DEF IInv, TypeOK
  <2>2. T \in RunState /\ RunOK(T, W, C)
    <3> HIDE DEF R, W, C
    <3> QED  BY <1>1, <1>3, <1>4, StartKeepsRun
  <2>3. wk' = [wk EXCEPT ![r] = W]  BY <1>2, <1>5
  <2>4. \A d \in Workers : /\ W[d].late = wk[r][d].late
                           /\ W[d].pc = "checked" => wk[r][d].pc = "checked"
    OBVIOUS
  <2> HIDE DEF T
  <2> QED  BY <1>1, <1>3, <2>1, <2>2, <2>3, <2>4, RunKeeps
<1>6. CASE Refuse(r)  BY <1>5, <1>6 DEF Refuse
<1>7. ASSUME NEW n \in Items[r], RunConcurrent(r, n) PROVE IInv'
  <2> DEFINE S == IF n = 0 THEN [NoRun EXCEPT !.pc = "done", !.report = Finish(<<>>)]
                  ELSE [NoRun EXCEPT !.pc = "spawning", !.n = n]
  <2>1. run' = [run EXCEPT ![r] = S] /\ UNCHANGED wk  BY <1>7 DEF RunConcurrent
  <2>2. S \in RunState /\ RunOK(S, W, C)
    <3>1. n \in 0 .. MaxItems  BY <1>4
    <3> HIDE DEF R, W, C
    <3> QED  BY <1>1, <1>3, <3>1, StartKeepsRun
  <2> HIDE DEF S
  <2> QED  BY <1>1, <1>2, <1>3, <2>1, <2>2, RunKeeps
<1>8. ASSUME NEW n \in Items[r], RunBatch(r, n) PROVE IInv'
  <2> DEFINE S == [NoRun EXCEPT !.pc = "inline", !.n = n]
             V == [W EXCEPT ![1].pc = "item"]
  <2>1. CASE run' = [run EXCEPT ![r] = S] /\ wk' = [wk EXCEPT ![r][1].pc = "item"]
    <3>1. wk' = [wk EXCEPT ![r] = V]  BY <2>1 DEF IInv, TypeOK
    <3>2. S \in RunState /\ V \in [Workers -> WorkerState] /\ RunOK(S, V, C)
      <4>1. n \in 0 .. MaxItems  BY <1>4
      <4> HIDE DEF R, W, C
      <4> QED  BY <1>1, <1>3, <4>1, StartKeepsRun
    <3>3. \A d \in Workers : /\ V[d].late = W[d].late
                             /\ V[d].pc = "checked" => W[d].pc = "checked"
      BY <1>1 DEF WorkerState
    <3>4. run' = [run EXCEPT ![r] = S]  BY <2>1
    <3> HIDE DEF S, V
    <3> QED  BY <1>3, <3>1, <3>2, <3>3, <3>4, RunKeeps
  <2>2. CASE run' = [run EXCEPT ![r].pc = "refused"] /\ UNCHANGED wk  BY <1>5, <2>2
  <2> QED  BY <1>8, <2>1, <2>2 DEF RunBatch
<1> QED  BY <1>6, <1>7, <1>8

-----------------------------------------------------------------------------
(* The theorems *)

\* A scope that was just opened satisfies the invariant.
LEMMA InitEstablishes == Init => IInv
<1> SUFFICES ASSUME Init PROVE IInv  OBVIOUS
<1>1. NoRun \in RunState
  <2>1. <<>> \in Seq(Output)  OBVIOUS
  <2>2. 0 \in 0 .. MaxItems /\ 0 \in 0 .. MaxWorkers  BY ConstantsAssumption
  <2> QED  BY <2>1, <2>2 DEF NoRun, RunState
<1>2. NoWorker \in WorkerState
  <2>1. <<>> \in Seq(Output)  OBVIOUS
  <2> QED  BY <2>1 DEF NoWorker, WorkerState
<1>3. TypeOK  BY <1>1, <1>2 DEF Init, TypeOK
<1>4. RunsOK
  <2> SUFFICES ASSUME NEW r \in Runs PROVE RunOK(run[r], wk[r], calls[r])
    BY DEF RunsOK
  <2>1. run[r] = NoRun /\ (\A c \in Workers : wk[r][c] = NoWorker)
        /\ (\A k \in Indices : calls[r][k] = 0)
    BY DEF Init
  <2> QED  BY <2>1 DEF RunOK, Shape, Untouched, NoRun, Active
<1>5. LateOnce  BY DEF Init, LateOnce, LateOK, NoWorker
<1> QED  BY <1>3, <1>4, <1>5 DEF IInv

\* Every step of the scope preserves the invariant.
LEMMA NextKeeps == IInv /\ [Next]_vars => IInv'
<1> SUFFICES ASSUME IInv, [Next]_vars PROVE IInv'  OBVIOUS
<1>1. ASSUME closed' \in BOOLEAN, cancelled' \in BOOLEAN, Stopped => Stopped',
             UNCHANGED <<cleanups, run, wk, calls>>
      PROVE  IInv'
  <2>1. TypeOK' /\ RunsOK'  BY <1>1 DEF IInv, TypeOK, RunsOK
  <2>2. LateOnce'  BY <1>1 DEF IInv, LateOnce, LateOK
  <2> QED  BY <2>1, <2>2 DEF IInv
<1>2. CASE Cancel  BY <1>1, <1>2 DEF Cancel, Stopped, IInv, TypeOK
<1>3. CASE Close  BY <1>1, <1>3 DEF Close, Stopped, IInv, TypeOK
<1>4. ASSUME NEW r \in Runs,
             \/ Refuse(r)
             \/ \E n \in Items[r] : RunConcurrent(r, n) \/ RunBatch(r, n)
      PROVE  IInv'
  BY <1>4, StartKeeps
<1>5. ASSUME NEW r \in Runs, RunStep(r) PROVE IInv'  BY <1>5, RunStepKeeps
<1>6. ASSUME NEW r \in Runs, NEW c \in Workers, WorkerStep(r, c) PROVE IInv'
  BY <1>6, WorkerStepKeeps
<1>7. CASE UNCHANGED vars  BY <1>1, <1>7 DEF vars, Stopped, IInv, TypeOK
<1> QED  BY <1>2, <1>3, <1>4, <1>5, <1>6, <1>7 DEF Next

\* The inductive invariant holds for every number of runs, items and workers.
THEOREM Invariant == Spec => []IInv
<1> QED  BY InitEstablishes, NextKeeps, PTL DEF Spec

\* Every variable of a scope has its type: in particular no chunk goes to a
\* worker beyond the capacity and no call is of an item that does not exist.
THEOREM TypeCorrect == Spec => []TypeOK
<1>1. IInv => TypeOK  BY DEF IInv
<1> QED  BY <1>1, Invariant, PTL

\* A finished run reports every item once, in index order, executed exactly when
\* the report says so, in whatever order its workers ran and the host cancelled
\* or closed the scope.
THEOREM MergesByIndex == Spec => []MergeIsByIndex
<1>1. IInv => MergeIsByIndex
  <2> SUFFICES ASSUME IInv, NEW r \in Runs, Finished(r)
               PROVE  LET s == run[r].report.results
                      IN  /\ Len(s) = run[r].n
                          /\ \A i \in DOMAIN s :
                                /\ s[i].index = i - 1
                                /\ calls[r][i - 1] =
                                     IF s[i].status \in {"returned", "failed"} THEN 1 ELSE 0
    BY DEF MergeIsByIndex
  <2> DEFINE s == run[r].report.results
  <2>1. s \in Seq(Output) /\ Merged(s, calls[r], run[r].n)
    BY DEF IInv, RunsOK, RunOK, Finished, Report
  <2> HIDE DEF s
  <2>2. Len(s) = run[r].n /\ DOMAIN s = 1 .. Len(s)  BY <2>1 DEF Merged
  <2>3. \A i \in DOMAIN s : s[i].index = i - 1 /\ calls[r][i - 1] = Ran(s[i])
    BY <2>1, <2>2 DEF Merged
  <2> QED  BY <2>2, <2>3 DEF Ran, s
<1> QED  BY <1>1, Invariant, PTL

\* After cancel or close a worker begins at most the call it had decided on.
THEOREM LateCallsBounded == Spec => []AtMostOneLateCall
<1>1. IInv => AtMostOneLateCall
  BY DEF IInv, LateOnce, LateOK, AtMostOneLateCall
<1> QED  BY <1>1, Invariant, PTL
=============================================================================

------------------------ MODULE ArtifactCacheProofs ------------------------
(***************************************************************************)
(* LoadReturnsWhatWasStored and WrecksComeFromEvictions for every          *)
(* number of processes, slots and artifacts, every limit, and every        *)
(* environment: also one in which processes with different lock domains    *)
(* work in the same directories, so that no lock protects a reader.        *)
(*                                                                         *)
(* Neither is inductive.  A lookup answers with the payload its slot holds *)
(* at that instant, so the tree must hold only what was offered (Contents),*)
(* which is a matter of what is renamed into it (Publications: a pending   *)
(* directory is filled with the artifact of its process, linked or fresh,  *)
(* or has been reaped) and of where a process works (Positions).  A        *)
(* directory that lacks a file has, or had, a remover, because the         *)
(* rename publishes both files at once and only a remover takes one away   *)
(* (ChangeStep lists every way in which a step changes the tree).  That a  *)
(* fresh inode always exists is a counting argument (FreshIdExists).       *)
(***************************************************************************)
EXTENDS ArtifactCache, FiniteSetTheorems, TLAPS

\* The stages in which a process holds an artifact, and a pending directory.
Working == {"store_lock"} \cup StoreLocked
Publishing == {"create", "payload", "record", "rename"}

\* Where a process is in the tree, and what it has been asked to publish.
Positions ==
    \A p \in Procs :
        /\ l[p].pc # "idle" => l[p].slot \in Slots /\ l[p].slot[1] = RootOf(p)
        /\ l[p].pc \in Working => l[p].art \in Artifacts /\ <<l[p].slot, l[p].art>> \in offered
        /\ \A e \in l[p].plan : e.slot \in ScopeSlots(p)
        /\ l[p].pc = "remove" => l[p].victim \in ScopeSlots(p)
        /\ l[p].pc \in LoadLocked \cup StoreLocked => RootOf(p) \in made

\* A directory holds what was offered for its slot, and its record says so.
Contents ==
    \A s \in Slots :
        /\ dirs[s].rec # NoValue \/ dirs[s].pay # NoValue => dirs[s].present
        /\ dirs[s].present => s[1] \in made
        /\ dirs[s].pay # NoValue => <<s, dirs[s].pay.art>> \in offered
        /\ Complete(dirs[s]) => dirs[s].rec.art = dirs[s].pay.art

\* What a pending directory has received at each step of its publication,
\* unless another process has reaped it.
Publications ==
    \A p \in Procs :
        /\ l[p].pc = "payload" => pend[p].rec = NoValue /\ pend[p].pay = NoValue
        /\ l[p].pc \in {"record", "rename"} =>
             /\ pend[p].pay # NoValue => pend[p].pay.art = l[p].art
             /\ pend[p].present => pend[p].pay # NoValue
        /\ l[p].pc = "rename" =>
             /\ pend[p].rec # NoValue => pend[p].rec.art = l[p].art
             /\ pend[p].present => pend[p].rec # NoValue

\* The lock file admits one writer, or readers.
Exclusion ==
    \A p, q \in Procs : p # q /\ Domain(p) = Domain(q) /\ HoldsExclusive(p) =>
        ~HoldsShared(q) /\ ~HoldsExclusive(q)

-----------------------------------------------------------------------------
(* Types *)

\* Absent directories and idle processes are well typed.
LEMMA AbsentType == Absent \in Directory /\ Idle \in Locals
  BY ConstantsAssumption DEF Absent, Directory, Idle, Locals, Stages, Results

\* Each way in which a step changes a directory keeps its type ...
LEMMA DirectoryUpdates ==
  ASSUME NEW d \in Directory
  PROVE  /\ \A t \in 0 .. MaxTime : [d EXCEPT !.used = t] \in Directory
         /\ [d EXCEPT !.rec = NoValue] \in Directory
         /\ [d EXCEPT !.pay = NoValue] \in Directory
         /\ [d EXCEPT !.present = TRUE] \in Directory
         /\ \A x \in Payload : [d EXCEPT !.pay = x] \in Directory
         /\ \A r \in CacheRecord, t \in 0 .. MaxTime :
              [d EXCEPT !.rec = r, !.used = t] \in Directory
  BY DEF Directory

\* ... and so does each way in which it changes the locals of its process.
LEMMA LocalsUpdates ==
  ASSUME NEW x \in Locals
  PROVE  /\ \A pc \in Stages :
              /\ [x EXCEPT !.pc = pc] \in Locals
              /\ \A r \in CacheRecord : [x EXCEPT !.pc = pc, !.rec = r] \in Locals
              /\ \A a \in Artifacts : [x EXCEPT !.pc = pc, !.art = a] \in Locals
              /\ \A n \in {"check", "done"} : [x EXCEPT !.pc = pc, !.next = n] \in Locals
              /\ \A es \in SUBSET ManagedEntry : [x EXCEPT !.pc = pc, !.plan = es] \in Locals
              /\ \A v \in Slots \cup {NoValue} : [x EXCEPT !.pc = pc, !.victim = v] \in Locals
              /\ \A v \in Slots, es \in SUBSET ManagedEntry :
                   [x EXCEPT !.pc = pc, !.victim = v, !.plan = es] \in Locals
         /\ \A r \in Results : [Idle EXCEPT !.res = r] \in Locals
         /\ \A op \in {"load", "store", "admit"}, s \in Slots, pc \in Stages :
              /\ [Idle EXCEPT !.pc = pc, !.op = op, !.slot = s] \in Locals
              /\ \A a \in Artifacts :
                   [Idle EXCEPT !.pc = pc, !.op = op, !.slot = s, !.art = a] \in Locals
  <1>1. /\ \A pc \in Stages :
              /\ [x EXCEPT !.pc = pc] \in Locals
              /\ \A r \in CacheRecord : [x EXCEPT !.pc = pc, !.rec = r] \in Locals
              /\ \A a \in Artifacts : [x EXCEPT !.pc = pc, !.art = a] \in Locals
              /\ \A n \in {"check", "done"} : [x EXCEPT !.pc = pc, !.next = n] \in Locals
    BY DEF Locals
  <1>2. /\ \A pc \in Stages :
              /\ \A es \in SUBSET ManagedEntry : [x EXCEPT !.pc = pc, !.plan = es] \in Locals
              /\ \A v \in Slots \cup {NoValue} : [x EXCEPT !.pc = pc, !.victim = v] \in Locals
              /\ \A v \in Slots, es \in SUBSET ManagedEntry :
                   [x EXCEPT !.pc = pc, !.victim = v, !.plan = es] \in Locals
    BY DEF Locals
  <1>3. \A r \in Results : [Idle EXCEPT !.res = r] \in Locals
    BY AbsentType DEF Locals
  <1>4. \A op \in {"load", "store", "admit"}, s \in Slots, pc \in Stages :
              /\ [Idle EXCEPT !.pc = pc, !.op = op, !.slot = s] \in Locals
              /\ \A a \in Artifacts :
                   [Idle EXCEPT !.pc = pc, !.op = op, !.slot = s, !.art = a] \in Locals
    BY AbsentType DEF Locals
  <1> QED BY <1>1, <1>2, <1>3, <1>4

\* entries() lists slots with their payloads.
LEMMA EntriesType ==
  ASSUME TypeOK, NEW p \in Procs
  PROVE  Entries(p) \in SUBSET ManagedEntry
  <1>1. \A s \in Slots : Complete(dirs[s]) => dirs[s].pay \in Payload /\ dirs[s].used \in 0 .. MaxTime
    BY DEF TypeOK, Directory, Complete
  <1> QED BY <1>1 DEF Entries, ManagedEntry, ScopeSlots

-----------------------------------------------------------------------------
(* A fresh inode exists *)

\* A nonempty set of numbers has a least element.
LEMMA LeastNumber ==
  ASSUME NEW T \in SUBSET Nat, T # {}
  PROVE  \E i \in T : \A j \in T : i <= j
  <1>1. PICK i \in T : \A j \in T : ~ (<<j, i>> \in OpToRel(<, Nat))
    BY NatLessThanWellFounded, WFMin
  <1>2. \A j \in T : ~ (j < i)
    BY <1>1 DEF OpToRel
  <1> QED BY <1>2

\* Fewer inodes are in use than there are, while one directory has no payload.
LEMMA FreshIdExists ==
  ASSUME TypeOK, NEW p \in Procs, pend[p].pay = NoValue
  PROVE  FreshId \in PayIds /\ ~Linked(FreshId)
  <1> DEFINE S1 == {s \in Slots : dirs[s].pay # NoValue}
             S2 == {q \in Procs : pend[q].pay # NoValue}
             f == [s \in S1 |-> dirs[s].pay.id]
             g == [q \in S2 |-> pend[q].pay.id]
             T1 == {i \in PayIds : \E s \in S1 : dirs[s].pay.id = i}
             T2 == {i \in PayIds : \E q \in S2 : pend[q].pay.id = i}
  <1>1. IsFiniteSet(Slots) /\ IsFiniteSet(Procs)
    BY ConstantsAssumption, FS_Product DEF Slots
  <1>2. /\ Cardinality(Slots) \in Nat /\ Cardinality(Procs) \in Nat
        /\ Cardinality(Procs \ {p}) = Cardinality(Procs) - 1
        /\ IsFiniteSet(Procs \ {p})
    BY <1>1, FS_CardinalityType, FS_RemoveElement
  <1>3. /\ IsFiniteSet(S1) /\ Cardinality(S1) <= Cardinality(Slots)
        /\ IsFiniteSet(S2) /\ Cardinality(S2) <= Cardinality(Procs) - 1
    <2>1. S1 \in SUBSET Slots /\ S2 \in SUBSET (Procs \ {p})
      OBVIOUS
    <2> QED BY <1>1, <1>2, <2>1, FS_Subset
  <1>4. IsFiniteSet(T1) /\ Cardinality(T1) <= Cardinality(S1)
    <2>1. \A s \in S1 : dirs[s].pay.id \in PayIds
      BY DEF TypeOK, Directory, Payload
    <2>2. f \in Surjection(S1, T1)
      BY <2>1 DEF Surjection
    <2> QED BY <1>3, <2>2, FS_Surjection
  <1>5. IsFiniteSet(T2) /\ Cardinality(T2) <= Cardinality(S2)
    <2>1. \A q \in S2 : pend[q].pay.id \in PayIds
      BY DEF TypeOK, Directory, Payload
    <2>2. g \in Surjection(S2, T2)
      BY <2>1 DEF Surjection
    <2> QED BY <1>3, <2>2, FS_Surjection
  <1>6. IsFiniteSet(T1 \cup T2) /\ Cardinality(T1 \cup T2) < Cardinality(Slots) + Cardinality(Procs)
    <2>1. /\ IsFiniteSet(T1 \cup T2) /\ IsFiniteSet(T1 \cap T2)
          /\ Cardinality(T1 \cup T2) = Cardinality(T1) + Cardinality(T2) - Cardinality(T1 \cap T2)
      BY <1>4, <1>5, FS_Union, FS_Intersection
    <2>2. /\ Cardinality(T1 \cap T2) \in Nat /\ Cardinality(T1) \in Nat /\ Cardinality(T2) \in Nat
          /\ Cardinality(T1 \cup T2) \in Nat /\ Cardinality(S1) \in Nat /\ Cardinality(S2) \in Nat
      BY <1>3, <1>4, <1>5, <2>1, FS_CardinalityType
    <2> HIDE DEF T1, T2, S1, S2
    <2> QED BY <1>2, <1>3, <1>4, <1>5, <2>1, <2>2
  <1>7. Cardinality(PayIds) = Cardinality(Slots) + Cardinality(Procs) /\ IsFiniteSet(PayIds)
    <2>1. Cardinality(Slots) + Cardinality(Procs) \in Nat
      BY <1>2
    <2> DEFINE n == Cardinality(Slots) + Cardinality(Procs)
    <2>2. IsFiniteSet(1 .. n) /\ Cardinality(1 .. n) = IF 1 > n THEN 0 ELSE n - 1 + 1
      <3> HIDE DEF n
      <3>1. n \in Nat => n \in Int /\ 1 \in Int
        OBVIOUS
      <3> QED BY <2>1, <3>1, FS_Interval DEF n
    <2>3. ASSUME n \in Nat PROVE (IF 1 > n THEN 0 ELSE n - 1 + 1) = n
      <3> HIDE DEF n
      <3> QED BY <2>3
    <2> QED BY <2>1, <2>2, <2>3 DEF PayIds
  <1>8. PayIds \ (T1 \cup T2) # {}
    <2>1. SUFFICES ASSUME PayIds \subseteq T1 \cup T2 PROVE FALSE
      BY Zenon
    <2>2. Cardinality(PayIds) <= Cardinality(T1 \cup T2)
      <3> HIDE DEF T1, T2
      <3> QED BY <1>6, <2>1, FS_Subset
    <2>3. Cardinality(T1 \cup T2) \in Nat
      BY <1>6, FS_CardinalityType
    <2> HIDE DEF T1, T2
    <2> QED BY <1>2, <1>6, <1>7, <2>2, <2>3
  <1>9. \A i \in PayIds : Linked(i) <=> i \in T1 \cup T2
    BY DEF Linked
  <1>10. PICK i \in PayIds \ (T1 \cup T2) : \A j \in PayIds \ (T1 \cup T2) : i <= j
    <2>1. PayIds \ (T1 \cup T2) \in SUBSET Nat
      BY <1>2 DEF PayIds
    <2> HIDE DEF T1, T2
    <2> QED BY <1>8, <2>1, LeastNumber
  <1>11. ~Linked(i) /\ \A j \in PayIds : j < i => Linked(j)
    <2>1. \A j \in PayIds : j < i => ~(i <= j)
      BY <1>2 DEF PayIds
    <2> HIDE DEF T1, T2
    <2> QED BY <1>9, <1>10, <2>1
  <1> QED BY <1>10, <1>11 DEF FreshId

-----------------------------------------------------------------------------
\* The root of a process is a namespace, in every environment.
LEMMA RootType ==
  ASSUME TypeOK, NEW p \in Procs
  PROVE  RootOf(p) \in Namespaces
  BY ConstantsAssumption DEF TypeOK, RootOf

\* Refreshing a record keeps the type of the tree.
LEMMA TouchType ==
  ASSUME TypeOK, NEW s \in Slots, Touch(s)
  PROVE  dirs' \in [Slots -> Directory]
  <1>1. CASE dirs[s].rec = NoValue
    BY <1>1 DEF Touch, TypeOK
  <1>2. CASE dirs[s].rec # NoValue
    <2>1. [dirs[s] EXCEPT !.used = now] \in Directory
      BY DirectoryUpdates DEF TypeOK
    <2> QED BY <1>2, <2>1 DEF Touch, TypeOK
  <1> QED BY <1>1, <1>2

\* The three ways of assigning l that most actions share keep its type.
LEMMA ReturnType ==
  ASSUME TypeOK, NEW p \in Procs, NEW r \in Results, Return(p, r)
  PROVE  l' \in [Procs -> Locals]
  BY LocalsUpdates, AbsentType DEF TypeOK, Return

\* See ReturnType.
LEMMA GotoType ==
  ASSUME TypeOK, NEW p \in Procs, NEW pc \in Stages, Goto(p, pc)
  PROVE  l' \in [Procs -> Locals]
  BY LocalsUpdates DEF TypeOK, Goto

\* See ReturnType; this is the way back to a scan.
LEMMA NextType ==
  ASSUME TypeOK, NEW p \in Procs, NEW n \in {"check", "done"},
         l' = [l EXCEPT ![p].pc = "scan", ![p].next = n]
  PROVE  l' \in [Procs -> Locals]
  <1>1. [l[p] EXCEPT !.pc = "scan", !.next = n] \in Locals
    BY LocalsUpdates DEF TypeOK, Stages, StoreLocked
  <1> QED BY <1>1 DEF TypeOK

\* The names of stages and of results.
LEMMA StageNames ==
  /\ {"idle", "load_lock", "store_lock", "load_record", "load_payload"} \subseteq Stages
  /\ {"reap", "scan", "prune", "remove", "check", "create", "payload", "record", "rename"}
       \subseteq Stages
  /\ {"hit", "miss", "stored", "uncached", "cut"} \subseteq Results
  /\ {"cache_corrupt", "cache_stale", "cache_conflict", "cache_unavailable"} \subseteq Results
  BY DEF Stages, LoadLocked, StoreLocked, Results, Failures

\* A miss answers the lookup and leaves the process idle or on its way to store().
LEMMA MissedType ==
  ASSUME TypeOK, Positions, NEW p \in Procs, l[p].pc # "idle", Missed(p)
  PROVE  /\ l' \in [Procs -> Locals]
         /\ got' \in [Procs -> Lookup \cup {NoValue}]
         /\ offered' \subseteq Slots \X Artifacts
  <1> USE DEF TypeOK
  <1>1. l[p].slot \in Slots /\ l[p].slot[2] \in Keys
    BY DEF Positions, Slots
  <1>2. got' \in [Procs -> Lookup \cup {NoValue}]
    BY <1>1 DEF Missed, Answer, Lookup
  <1>3. CASE l[p].op = "load"
    BY <1>2, <1>3, ReturnType, StageNames DEF Missed
  <1>4. CASE l[p].op # "load"
    <2>1. PICK a \in Builds[l[p].slot[2]] :
            /\ l' = [l EXCEPT ![p].pc = "store_lock", ![p].art = a]
            /\ offered' = offered \cup {<<l[p].slot, a>>}
      BY <1>4 DEF Missed
    <2>2. a \in Artifacts
      BY <1>1, ConstantsAssumption
    <2>3. l' \in [Procs -> Locals]
      BY <2>1, <2>2, LocalsUpdates DEF Stages
    <2> QED BY <1>1, <1>2, <2>1, <2>2, <2>3
  <1> QED BY <1>3, <1>4

\* The tree that earlier runs left is well typed.
LEMMA InitType == Init => TypeOK
  <1> SUFFICES ASSUME Init PROVE TypeOK
    OBVIOUS
  <1> USE ConstantsAssumption
  <1>1. \A s \in LegacySlots : FirstPayload(s) \in Payload /\ s \in Slots /\ Legacy[s] \in Artifacts
    <2> SUFFICES ASSUME NEW s \in LegacySlots
                 PROVE  FirstPayload(s) \in Payload /\ s \in Slots /\ Legacy[s] \in Artifacts
      OBVIOUS
    <2>1. s \in Slots /\ Legacy[s] \in Artifacts
      BY DEF LegacySlots
    <2>2. IsFiniteSet(Slots) /\ Cardinality(Slots) \in Nat /\ Cardinality(Procs) \in Nat
      BY FS_Product, FS_CardinalityType DEF Slots
    <2>3. Cardinality(Slots) # 0
      BY <2>1, <2>2, FS_EmptySet
    <2>4. 1 \in PayIds
      BY <2>2, <2>3 DEF PayIds
    <2> QED BY <2>1, <2>4 DEF FirstPayload, Payload
  <1>2. dirs \in [Slots -> Directory]
    <2> SUFFICES ASSUME NEW s \in Slots PROVE dirs[s] \in Directory
      BY DEF Init
    <2>1. CASE Legacy[s] = NoValue
      BY <2>1, AbsentType DEF Init
    <2>2. CASE Legacy[s] # NoValue
      <3>1. FirstPayload(s) \in Payload /\ [art |-> Legacy[s], full |-> FALSE] \in CacheRecord
        BY <2>2, <1>1 DEF LegacySlots, CacheRecord
      <3>2. dirs[s] = [present |-> TRUE, rec |-> [art |-> Legacy[s], full |-> FALSE],
                       pay |-> FirstPayload(s), used |-> 0]
        BY <2>2 DEF Init
      <3> QED BY <3>1, <3>2 DEF Directory
    <2> QED BY <2>1, <2>2
  <1>3. made \subseteq Namespaces /\ offered \subseteq Slots \X Artifacts
    BY <1>1 DEF Init, Slots
  <1> QED BY <1>2, <1>3, AbsentType DEF Init, TypeOK

\* Every step keeps the types.
LEMMA TypeStep ==
  ASSUME TypeOK, Positions, Publications, Next
  PROVE  TypeOK'
  <1> USE ConstantsAssumption DEF TypeOK, files, history
  <1>0. UNCHANGED env
    BY DEF Next
  <1>1. ASSUME NEW p \in Procs, NEW k \in Keys, NEW op \in {"load", "admit"}, BeginLoad(p, op, k)
        PROVE  TypeOK'
    <2>1. <<RootOf(p), k>> \in Slots
      BY RootType DEF Slots
    <2>2. l' \in [Procs -> Locals]
      BY <1>0, <1>1, <2>1, LocalsUpdates DEF BeginLoad, Stages
    <2> QED BY <1>0, <1>1, <2>2 DEF BeginLoad
  <1>2. ASSUME NEW p \in Procs, NEW k \in Keys, NEW a \in Builds[k], BeginStore(p, k, a)
        PROVE  TypeOK'
    <2>1. <<RootOf(p), k>> \in Slots /\ a \in Artifacts
      BY RootType DEF Slots
    <2>2. l' \in [Procs -> Locals]
      BY <1>0, <1>2, <2>1, LocalsUpdates DEF BeginStore, Stages
    <2>3. offered' = offered \cup {<<<<RootOf(p), k>>, a>>}
      BY <1>0, <1>2 DEF BeginStore
    <2>4. <<<<RootOf(p), k>>, a>> \in Slots \X Artifacts
      BY <2>1
    <2>5. offered' \subseteq Slots \X Artifacts
      BY <2>3, <2>4
    <2> QED BY <1>0, <1>2, <2>2, <2>5 DEF BeginStore
  <1>3. ASSUME NEW p \in Procs, LoadNoRoot(p)
        PROVE  TypeOK'
    BY <1>0, <1>3, MissedType DEF LoadNoRoot
  <1>4. ASSUME NEW p \in Procs, LoadLock(p)
        PROVE  TypeOK'
    BY <1>0, <1>4, LocalsUpdates DEF LoadLock, Goto, Stages, LoadLocked
  <1>5. ASSUME NEW p \in Procs, LoadRecord(p)
        PROVE  TypeOK'
    <2>1. CASE dirs[l[p].slot].rec = NoValue
      BY <1>0, <1>5, <2>1, MissedType DEF LoadRecord
    <2>2. CASE dirs[l[p].slot].rec # NoValue
      <3>1. l[p].slot \in Slots
        BY <1>0, <1>5 DEF Positions, LoadRecord
      <3>2. dirs[l[p].slot].rec \in CacheRecord
        BY <2>2, <3>1 DEF Directory
      <3>3. l' \in [Procs -> Locals]
        <4>1. [l[p] EXCEPT !.pc = "load_payload", !.rec = dirs[l[p].slot].rec] \in Locals
          BY <3>2, LocalsUpdates, StageNames
        <4> QED BY <1>0, <1>5, <2>2, <4>1 DEF LoadRecord
      <3> QED BY <1>0, <1>5, <2>2, <3>3 DEF LoadRecord
    <2> QED BY <2>1, <2>2
  <1>6. ASSUME NEW p \in Procs, LoadPayload(p)
        PROVE  TypeOK'
    <2> DEFINE s == l[p].slot
               verdict == Validate(l[p].rec, dirs[s].pay)
    <2>1. s \in Slots
      BY <1>0, <1>6 DEF Positions, LoadPayload
    <2>2. verdict \in Results
      BY DEF Validate, Results, Failures
    <2>3. l' \in [Procs -> Locals]
      BY <1>0, <1>6, <2>2, LocalsUpdates DEF LoadPayload, Return
    <2>4. CASE verdict = "hit"
      <3>1. dirs[s].pay \in Payload
        BY <2>1, <2>4 DEF Validate, Directory
      <3>2. got' \in [Procs -> Lookup \cup {NoValue}]
        BY <1>0, <1>6, <2>1, <2>4, <3>1 DEF LoadPayload, Answer, Lookup, Payload
      <3>3. dirs' \in [Slots -> Directory]
        BY <1>0, <1>6, <2>1, <2>4, TouchType DEF LoadPayload
      <3> QED BY <1>0, <1>6, <2>3, <3>2, <3>3 DEF LoadPayload
    <2>5. CASE verdict # "hit"
      BY <1>0, <1>6, <2>3, <2>5 DEF LoadPayload
    <2> QED BY <2>4, <2>5
  <1>7. ASSUME NEW p \in Procs, StoreLock(p)
        PROVE  TypeOK'
    <2>1. l' \in [Procs -> Locals]
      BY <1>0, <1>7, LocalsUpdates DEF StoreLock, Goto, Stages, StoreLocked
    <2> QED BY <1>0, <1>7, <2>1, RootType DEF StoreLock
  <1>8. ASSUME NEW p \in Procs, Reap(p)
        PROVE  TypeOK'
    <2>1. l' \in [Procs -> Locals]
      BY <1>0, <1>8, NextType DEF Reap
    <2>2. pend' \in [Procs -> Directory]
      BY <1>0, <1>8, AbsentType DEF Reap
    <2> QED BY <1>0, <1>8, <2>1, <2>2 DEF Reap
  <1>9. ASSUME NEW p \in Procs, Scan(p)
        PROVE  TypeOK'
    <2>1. l' \in [Procs -> Locals]
      BY <1>0, <1>9, EntriesType, LocalsUpdates DEF Scan, Stages, StoreLocked
    <2> QED BY <1>0, <1>9, <2>1 DEF Scan
  <1>10. ASSUME NEW p \in Procs, PruneDone(p)
        PROVE  TypeOK'
    <2>1. l' \in [Procs -> Locals]
      <3>1. CASE l[p].next = "check"
        <4>1. [l[p] EXCEPT !.pc = "check", !.plan = {}] \in Locals
          BY LocalsUpdates, StageNames
        <4> QED BY <1>0, <1>10, <3>1, <4>1 DEF PruneDone
      <3>2. CASE l[p].next # "check"
        BY <1>0, <1>10, <3>2, ReturnType, StageNames DEF PruneDone
      <3> QED BY <3>1, <3>2
    <2> QED BY <1>0, <1>10, <2>1 DEF PruneDone
  <1>11. ASSUME NEW p \in Procs, PruneEvict(p)
        PROVE  TypeOK'
    <2>1. PICK e \in l[p].plan :
            l' = [l EXCEPT ![p].pc = "remove", ![p].victim = e.slot, ![p].plan = l[p].plan \ {e}]
      BY <1>0, <1>11 DEF PruneEvict
    <2>2. l[p].plan \in SUBSET ManagedEntry
      BY DEF Locals
    <2>3. e.slot \in Slots /\ l[p].plan \ {e} \in SUBSET ManagedEntry
      BY <2>2 DEF ManagedEntry
    <2>4. l' \in [Procs -> Locals]
      BY <2>1, <2>3, LocalsUpdates DEF Stages, StoreLocked
    <2> QED BY <1>0, <1>11, <2>4 DEF PruneEvict
  <1>12. ASSUME NEW p \in Procs, RemoveFile(p)
        PROVE  TypeOK'
    <2>1. l[p].victim \in Slots
      BY <1>0, <1>12 DEF RemoveFile, Positions, ScopeSlots
    <2>2. dirs' \in [Slots -> Directory]
      <3>1. /\ [dirs[l[p].victim] EXCEPT !.rec = NoValue] \in Directory
            /\ [dirs[l[p].victim] EXCEPT !.pay = NoValue] \in Directory
        BY <2>1, DirectoryUpdates
      <3> QED BY <1>0, <1>12, <3>1 DEF RemoveFile
    <2> QED BY <1>0, <1>12, <2>2 DEF RemoveFile
  <1>13. ASSUME NEW p \in Procs, RemoveDirectory(p)
        PROVE  TypeOK'
    <2>1. l' \in [Procs -> Locals]
      <3>1. CASE dirs[l[p].victim].present
        <4>1. [l[p] EXCEPT !.pc = "prune", !.victim = NoValue] \in Locals
          BY LocalsUpdates, StageNames
        <4> QED BY <1>0, <1>13, <3>1, <4>1 DEF RemoveDirectory
      <3>2. CASE ~dirs[l[p].victim].present
        BY <1>0, <1>13, <3>2, ReturnType, StageNames DEF RemoveDirectory
      <3> QED BY <3>1, <3>2
    <2>2. dirs' \in [Slots -> Directory]
      BY <1>0, <1>13, AbsentType DEF RemoveDirectory
    <2> QED BY <1>0, <1>13, <2>1, <2>2 DEF RemoveDirectory
  <1>14. ASSUME NEW p \in Procs, Check(p)
        PROVE  TypeOK'
    <2> DEFINE s == l[p].slot
               verdict == Validate(dirs[s].rec, dirs[s].pay)
    <2>1. s \in Slots
      BY <1>0, <1>14 DEF Positions, Check
    <2>2. l' \in [Procs -> Locals]
      <3>1. verdict \in Results
        BY DEF Validate, Results, Failures
      <3>2. \/ \E r \in Results : Return(p, r)
            \/ Goto(p, "create")
            \/ l' = [l EXCEPT ![p].pc = "scan", ![p].next = "done"]
        BY <1>0, <1>14, <3>1, StageNames DEF Check
      <3> QED BY <3>2, ReturnType, GotoType, NextType, StageNames
    <2>3. dirs' \in [Slots -> Directory]
      BY <1>0, <1>14, <2>1, TouchType DEF Check
    <2> QED BY <1>0, <1>14, <2>2, <2>3 DEF Check
  <1>15. ASSUME NEW p \in Procs, CreatePending(p)
        PROVE  TypeOK'
    <2>1. l' \in [Procs -> Locals]
      BY <1>0, <1>15, LocalsUpdates DEF CreatePending, Goto, Stages, StoreLocked
    <2>2. pend' \in [Procs -> Directory]
      BY <1>0, <1>15, AbsentType, DirectoryUpdates DEF CreatePending
    <2> QED BY <1>0, <1>15, <2>1, <2>2 DEF CreatePending
  <1>16. ASSUME NEW p \in Procs, WritePayload(p)
        PROVE  TypeOK'
    <2>1. l' \in [Procs -> Locals]
      BY <1>0, <1>16, LocalsUpdates DEF WritePayload, Goto, Stages, StoreLocked
    <2>2. pend' \in [Procs -> Directory]
      <3>1. \A e \in Entries(p) : e.pay \in Payload
        BY EntriesType DEF ManagedEntry
      <3>2. pend[p].pay = NoValue /\ l[p].art \in Artifacts
        BY <1>0, <1>16 DEF WritePayload, Publications, Positions, Working, StoreLocked
      <3>3. [id |-> FreshId, art |-> l[p].art] \in Payload
        BY <3>2, FreshIdExists DEF Payload
      <3>4. PICK x \in Payload : pend' = [pend EXCEPT ![p].pay = x]
        BY <1>0, <1>16, <3>1, <3>3 DEF WritePayload
      <3> QED BY <3>4, DirectoryUpdates
    <2> QED BY <1>0, <1>16, <2>1, <2>2 DEF WritePayload
  <1>17. ASSUME NEW p \in Procs, WriteRecord(p)
        PROVE  TypeOK'
    <2>1. l' \in [Procs -> Locals]
      BY <1>0, <1>17, LocalsUpdates DEF WriteRecord, Goto, Stages, StoreLocked
    <2>2. pend' \in [Procs -> Directory]
      <3>1. l[p].art \in Artifacts
        BY <1>0, <1>17 DEF WriteRecord, Positions, Working, StoreLocked
      <3>2. [art |-> l[p].art, full |-> TRUE] \in CacheRecord
        BY <3>1 DEF CacheRecord
      <3> QED BY <1>0, <1>17, <3>2, DirectoryUpdates DEF WriteRecord
    <2> QED BY <1>0, <1>17, <2>1, <2>2 DEF WriteRecord
  <1>18. ASSUME NEW p \in Procs, Rename(p)
        PROVE  TypeOK'
    <2>1. l' \in [Procs -> Locals]
      <3>1. \/ Return(p, "cache_unavailable")
            \/ l' = [l EXCEPT ![p].pc = "scan", ![p].next = "done"]
        BY <1>0, <1>18 DEF Rename
      <3> QED BY <3>1, ReturnType, NextType, StageNames
    <2>2. dirs' \in [Slots -> Directory] /\ pend' \in [Procs -> Directory]
      BY <1>0, <1>18, AbsentType DEF Rename
    <2> QED BY <1>0, <1>18, <2>1, <2>2 DEF Rename
  <1>19. ASSUME NEW p \in Procs, Kill(p)
        PROVE  TypeOK'
    BY <1>0, <1>19, LocalsUpdates DEF Kill, Return, Results
  <1>20. ASSUME NEW p \in Procs, IoError(p)
        PROVE  TypeOK'
    <2>1. l' \in [Procs -> Locals]
      BY <1>0, <1>20, LocalsUpdates DEF IoError, Return, Results
    <2>2. pend' \in [Procs -> Directory]
      BY <1>0, <1>20, AbsentType DEF IoError
    <2> QED BY <1>0, <1>20, <2>1, <2>2 DEF IoError
  <1>21. ASSUME Tick
        PROVE  TypeOK'
    BY <1>0, <1>21 DEF Tick
  <1> QED
    BY <1>1, <1>2, <1>3, <1>4, <1>5, <1>6, <1>7, <1>8, <1>9, <1>10, <1>11, <1>12, <1>13, <1>14, <1>15, <1>16, <1>17, <1>18, <1>19, <1>20, <1>21 DEF Next, Step

-----------------------------------------------------------------------------
(* What holds in every environment *)

\* A step of process p, asked for by its caller or by the environment.
ProcessStep(p) ==
    \/ \E k \in Keys : \/ \E op \in {"load", "admit"} : BeginLoad(p, op, k)
                       \/ \E a \in Builds[k] : BeginStore(p, k, a)
    \/ Step(p) \/ Kill(p) \/ IoError(p)

\* A step is one of a process, or the clock ticks; the environment stays.
LEMMA NextSteps ==
  ASSUME Next
  PROVE  UNCHANGED env /\ ((\E p \in Procs : ProcessStep(p)) \/ Tick)
  BY DEF Next, ProcessStep

\* A step of p leaves the other processes where they are, and forgets nothing.
Frame(p) ==
    /\ \A q \in Procs \ {p} : l'[q] = l[q]
    /\ offered \subseteq offered' /\ made \subseteq made'

\* Every step of p is within the frame of p.
LEMMA FrameStep ==
  ASSUME TypeOK, NEW p \in Procs, ProcessStep(p)
  PROVE  Frame(p)
  <1> USE DEF TypeOK, Frame, files, history, Return, Goto
  <1>1. ASSUME NEW k \in Keys, NEW op \in {"load", "admit"}, BeginLoad(p, op, k)
        PROVE  Frame(p)
    BY <1>1 DEF BeginLoad
  <1>2. ASSUME NEW k \in Keys, NEW a \in Builds[k], BeginStore(p, k, a)
        PROVE  Frame(p)
    BY <1>2 DEF BeginStore
  <1>3. ASSUME LoadNoRoot(p)
        PROVE  Frame(p)
    BY <1>3 DEF LoadNoRoot, Missed
  <1>4. ASSUME LoadLock(p)
        PROVE  Frame(p)
    BY <1>4 DEF LoadLock
  <1>5. ASSUME LoadRecord(p)
        PROVE  Frame(p)
    BY <1>5 DEF LoadRecord, Missed
  <1>6. ASSUME LoadPayload(p)
        PROVE  Frame(p)
    BY <1>6 DEF LoadPayload
  <1>7. ASSUME StoreLock(p)
        PROVE  Frame(p)
    BY <1>7 DEF StoreLock
  <1>8. ASSUME Reap(p)
        PROVE  Frame(p)
    BY <1>8 DEF Reap
  <1>9. ASSUME Scan(p)
        PROVE  Frame(p)
    BY <1>9 DEF Scan
  <1>10. ASSUME PruneDone(p)
        PROVE  Frame(p)
    BY <1>10 DEF PruneDone
  <1>11. ASSUME PruneEvict(p)
        PROVE  Frame(p)
    BY <1>11 DEF PruneEvict
  <1>12. ASSUME RemoveFile(p)
        PROVE  Frame(p)
    BY <1>12 DEF RemoveFile
  <1>13. ASSUME RemoveDirectory(p)
        PROVE  Frame(p)
    BY <1>13 DEF RemoveDirectory
  <1>14. ASSUME Check(p)
        PROVE  Frame(p)
    BY <1>14 DEF Check
  <1>15. ASSUME CreatePending(p)
        PROVE  Frame(p)
    BY <1>15 DEF CreatePending
  <1>16. ASSUME WritePayload(p)
        PROVE  Frame(p)
    BY <1>16 DEF WritePayload
  <1>17. ASSUME WriteRecord(p)
        PROVE  Frame(p)
    BY <1>17 DEF WriteRecord
  <1>18. ASSUME Rename(p)
        PROVE  Frame(p)
    BY <1>18 DEF Rename
  <1>19. ASSUME Kill(p)
        PROVE  Frame(p)
    BY <1>19 DEF Kill
  <1>20. ASSUME IoError(p)
        PROVE  Frame(p)
    BY <1>20 DEF IoError
  <1> QED
    BY <1>1, <1>2, <1>3, <1>4, <1>5, <1>6, <1>7, <1>8, <1>9, <1>10, <1>11, <1>12, <1>13, <1>14, <1>15, <1>16, <1>17, <1>18, <1>19, <1>20 DEF ProcessStep, Step

\* Positions, of one process.
Placed(p) ==
    /\ l[p].pc # "idle" => l[p].slot \in Slots /\ l[p].slot[1] = RootOf(p)
    /\ l[p].pc \in Working => l[p].art \in Artifacts /\ <<l[p].slot, l[p].art>> \in offered
    /\ \A e \in l[p].plan : e.slot \in ScopeSlots(p)
    /\ l[p].pc = "remove" => l[p].victim \in ScopeSlots(p)
    /\ l[p].pc \in LoadLocked \cup StoreLocked => RootOf(p) \in made

\* Positions says of every process that it is Placed.
LEMMA PositionsArePlaces == Positions <=> \A p \in Procs : Placed(p)
  BY DEF Positions, Placed

\* A root that is made stays in scope.
LEMMA ScopeGrows ==
  ASSUME UNCHANGED env, made \subseteq made', NEW p \in Procs
  PROVE  ScopeSlots(p) \subseteq ScopeSlots(p)' /\ RootOf(p)' = RootOf(p) /\ Domain(p)' = Domain(p)
  BY DEF ScopeSlots, InScope, Scope, RootOf, Domain

\* What entries() lists lies in the scope of the lock.
LEMMA EntriesInScope ==
  ASSUME NEW p \in Procs, NEW e \in Entries(p)
  PROVE  e.slot \in ScopeSlots(p)
  BY DEF Entries

\* The fields of a process that has just returned.
LEMMA IdleFields ==
  ASSUME NEW r
  PROVE  /\ [Idle EXCEPT !.res = r].pc = "idle" /\ [Idle EXCEPT !.res = r].plan = {}
         /\ [Idle EXCEPT !.res = r].res = r
         /\ \A op, s, pc, a :
              /\ [Idle EXCEPT !.pc = pc, !.op = op, !.slot = s].pc = pc
              /\ [Idle EXCEPT !.pc = pc, !.op = op, !.slot = s].slot = s
              /\ [Idle EXCEPT !.pc = pc, !.op = op, !.slot = s].plan = {}
              /\ [Idle EXCEPT !.pc = pc, !.op = op, !.slot = s].res = "none"
              /\ [Idle EXCEPT !.pc = pc, !.op = op, !.slot = s, !.art = a].pc = pc
              /\ [Idle EXCEPT !.pc = pc, !.op = op, !.slot = s, !.art = a].slot = s
              /\ [Idle EXCEPT !.pc = pc, !.op = op, !.slot = s, !.art = a].art = a
              /\ [Idle EXCEPT !.pc = pc, !.op = op, !.slot = s, !.art = a].plan = {}
              /\ [Idle EXCEPT !.pc = pc, !.op = op, !.slot = s, !.art = a].res = "none"
  BY DEF Idle

\* A return leaves no place; another step keeps it.
LEMMA ReturnPlaced ==
  ASSUME TypeOK, NEW p \in Procs, NEW r, Return(p, r)
  PROVE  Placed(p)'
  <1>1. l'[p] = [Idle EXCEPT !.res = r]
    BY DEF Return, TypeOK
  <1>2. l'[p].pc = "idle" /\ l'[p].plan = {}
    BY <1>1, IdleFields
  <1> QED BY <1>2 DEF Placed, Working, LoadLocked, StoreLocked

\* A process that only moves to a later stage of its operation stays placed.
LEMMA StaysPlaced ==
  ASSUME UNCHANGED env, NEW p \in Procs, Placed(p), Frame(p),
         l[p].pc # "idle", l'[p].pc # "remove",
         l'[p].slot = l[p].slot, l'[p].art = l[p].art, l'[p].plan \subseteq l[p].plan,
         l'[p].pc \in Working => l[p].pc \in Working,
         l'[p].pc \in LoadLocked \cup StoreLocked =>
            RootOf(p) \in made' \/ l[p].pc \in LoadLocked \cup StoreLocked
  PROVE  Placed(p)'
  <1>1. /\ ScopeSlots(p) \subseteq ScopeSlots(p)' /\ RootOf(p)' = RootOf(p)
        /\ offered \subseteq offered' /\ made \subseteq made'
    BY ScopeGrows DEF Frame
  <1> QED BY <1>1 DEF Placed

\* A lookup that misses ends, or goes on to store with an artifact on offer.
LEMMA MissedPlace ==
  ASSUME TypeOK, UNCHANGED env, NEW p \in Procs, Placed(p), l[p].pc # "idle", Missed(p),
         Frame(p), UNCHANGED made
  PROVE  Placed(p)'
  <1> USE DEF TypeOK, Placed, LoadLocked, StoreLocked, Working
  <1>0. ScopeSlots(p)' = ScopeSlots(p) /\ RootOf(p)' = RootOf(p)
    BY DEF ScopeSlots, InScope, Scope, RootOf
  <1>1. CASE l[p].op = "load"
    BY <1>1, ReturnPlaced DEF Missed
  <1>2. CASE l[p].op # "load"
    <2>1. PICK a \in Builds[l[p].slot[2]] :
            /\ l' = [l EXCEPT ![p].pc = "store_lock", ![p].art = a]
            /\ offered' = offered \cup {<<l[p].slot, a>>}
      BY <1>2 DEF Missed
    <2>2. a \in Artifacts
      BY ConstantsAssumption DEF Slots
    <2>3. <<l[p].slot, a>> \in offered'
      BY <2>1
    <2> QED BY <1>0, <2>1, <2>2, <2>3
  <1> QED BY <1>1, <1>2

\* A step to another stage keeps the rest of the place.
LEMMA PlacedStep ==
  ASSUME TypeOK, UNCHANGED env, NEW p \in Procs, Placed(p), ProcessStep(p)
  PROVE  Placed(p)'
  <1> USE DEF TypeOK, Placed, LoadLocked, StoreLocked, Working, files, history
  <1>0. Frame(p) /\ ScopeSlots(p) \subseteq ScopeSlots(p)' /\ RootOf(p)' = RootOf(p)
    BY FrameStep, ScopeGrows DEF Frame
  <1>1. ASSUME NEW k \in Keys, NEW op \in {"load", "admit"}, BeginLoad(p, op, k)
        PROVE  Placed(p)'
    <2>1. <<RootOf(p), k>> \in Slots
      BY RootType DEF Slots
    <2> QED BY <1>0, <1>1, <2>1, IdleFields DEF BeginLoad
  <1>2. ASSUME NEW k \in Keys, NEW a \in Builds[k], BeginStore(p, k, a)
        PROVE  Placed(p)'
    <2>1. <<RootOf(p), k>> \in Slots /\ a \in Artifacts
      BY RootType, ConstantsAssumption DEF Slots
    <2>2. <<<<RootOf(p), k>>, a>> \in offered'
      BY <1>2 DEF BeginStore
    <2> QED BY <1>0, <1>2, <2>1, <2>2, IdleFields DEF BeginStore
  <1>3. ASSUME LoadNoRoot(p)
        PROVE  Placed(p)'
    BY <1>0, <1>3, MissedPlace DEF LoadNoRoot
  <1>4. ASSUME LoadLock(p)
        PROVE  Placed(p)'
    BY <1>0, <1>4, IdleFields DEF LoadLock, Return, Goto
  <1>5. ASSUME LoadRecord(p)
        PROVE  Placed(p)'
    <2>1. CASE dirs[l[p].slot].rec = NoValue
      BY <1>0, <1>5, <2>1, MissedPlace DEF LoadRecord
    <2>2. CASE dirs[l[p].slot].rec # NoValue
      <3>1. l[p].pc = "load_record" /\ l'[p] = [l[p] EXCEPT !.pc = "load_payload", !.rec = dirs[l[p].slot].rec]
        BY <1>5, <2>2 DEF LoadRecord
      <3>2. l[p] \in Locals
        OBVIOUS
      <3>3. /\ l'[p].pc = "load_payload" /\ l'[p].slot = l[p].slot /\ l'[p].art = l[p].art
            /\ l'[p].plan = l[p].plan
        BY <3>1, <3>2 DEF Locals
      <3> QED BY <1>0, <3>1, <3>3, StaysPlaced
    <2> QED BY <2>1, <2>2
  <1>6. ASSUME LoadPayload(p)
        PROVE  Placed(p)'
    BY <1>0, <1>6, IdleFields DEF LoadPayload, Return, Goto
  <1>7. ASSUME StoreLock(p)
        PROVE  Placed(p)'
    <2>1. l'[p].pc = "reap" /\ l'[p].slot = l[p].slot /\ l'[p].art = l[p].art /\ l'[p].plan = l[p].plan
      BY <1>7 DEF StoreLock, Goto
    <2>2. RootOf(p) \in made'
      BY <1>7 DEF StoreLock
    <2>3. l[p].pc = "store_lock"
      BY <1>7 DEF StoreLock
    <2> QED BY <1>0, <2>1, <2>2, <2>3, StaysPlaced
  <1>8. ASSUME Reap(p)
        PROVE  Placed(p)'
    <2>1. l[p].pc = "reap"
      BY <1>8 DEF Reap
    <2>2. l' = l \/ l' = [l EXCEPT ![p].pc = "scan", ![p].next = "check"]
      BY <1>8 DEF Reap
    <2>3. /\ l'[p].slot = l[p].slot /\ l'[p].art = l[p].art /\ l'[p].plan = l[p].plan
          /\ l'[p].pc \in {"reap", "scan"}
      BY <2>1, <2>2 DEF Locals
    <2> QED BY <1>0, <2>1, <2>3, StaysPlaced
  <1>9. ASSUME Scan(p)
        PROVE  Placed(p)'
    <2>1. l'[p].plan = Entries(p) /\ l'[p].pc = "prune" /\ l'[p].slot = l[p].slot /\ l'[p].art = l[p].art
      BY <1>9 DEF Scan
    <2> QED BY <1>0, <1>9, <2>1, EntriesInScope DEF Scan
  <1>10. ASSUME PruneDone(p)
        PROVE  Placed(p)'
    <2>1. l[p].pc = "prune"
      BY <1>10 DEF PruneDone
    <2>2. CASE l[p].next = "check"
      <3>1. l' = [l EXCEPT ![p].pc = "check", ![p].plan = {}]
        BY <1>10, <2>2 DEF PruneDone
      <3>2. /\ l'[p].slot = l[p].slot /\ l'[p].art = l[p].art /\ l'[p].plan = {}
            /\ l'[p].pc = "check"
        BY <3>1 DEF Locals
      <3> QED BY <1>0, <2>1, <3>2, StaysPlaced
    <2>3. CASE l[p].next # "check"
      BY <1>10, <2>3, ReturnPlaced DEF PruneDone
    <2> QED BY <2>2, <2>3
  <1>11. ASSUME PruneEvict(p)
        PROVE  Placed(p)'
    BY <1>0, <1>11, IdleFields DEF PruneEvict, Return, Goto
  <1>12. ASSUME RemoveFile(p)
        PROVE  Placed(p)'
    BY <1>0, <1>12, IdleFields DEF RemoveFile, Return, Goto
  <1>13. ASSUME RemoveDirectory(p)
        PROVE  Placed(p)'
    <2>1. l[p].pc = "remove"
      BY <1>13 DEF RemoveDirectory
    <2>2. CASE dirs[l[p].victim].present
      <3>1. l' = [l EXCEPT ![p].pc = "prune", ![p].victim = NoValue]
        BY <1>13, <2>2 DEF RemoveDirectory
      <3>2. /\ l'[p].slot = l[p].slot /\ l'[p].art = l[p].art /\ l'[p].plan = l[p].plan
            /\ l'[p].pc = "prune"
        BY <3>1 DEF Locals
      <3> QED BY <1>0, <2>1, <3>2, StaysPlaced
    <2>3. CASE ~dirs[l[p].victim].present
      BY <1>13, <2>3, ReturnPlaced DEF RemoveDirectory
    <2> QED BY <2>2, <2>3
  <1>14. ASSUME Check(p)
        PROVE  Placed(p)'
    <2>1. l[p].pc = "check"
      BY <1>14 DEF Check
    <2>2. \/ \E r : Return(p, r)
          \/ Goto(p, "create")
          \/ l' = [l EXCEPT ![p].pc = "scan", ![p].next = "done"]
      BY <1>14 DEF Check
    <2>3. CASE \/ Goto(p, "create")
               \/ l' = [l EXCEPT ![p].pc = "scan", ![p].next = "done"]
      <3>1. /\ l'[p].slot = l[p].slot /\ l'[p].art = l[p].art /\ l'[p].plan = l[p].plan
            /\ l'[p].pc \in {"create", "scan"}
        BY <2>3 DEF Locals, Goto
      <3> QED BY <1>0, <2>1, <3>1, StaysPlaced
    <2> QED BY <2>2, <2>3, ReturnPlaced
  <1>15. ASSUME CreatePending(p)
        PROVE  Placed(p)'
    BY <1>0, <1>15, IdleFields DEF CreatePending, Return, Goto
  <1>16. ASSUME WritePayload(p)
        PROVE  Placed(p)'
    <2>1. l[p].pc = "payload" /\ Goto(p, "record")
      BY <1>16 DEF WritePayload
    <2>2. /\ l'[p].slot = l[p].slot /\ l'[p].art = l[p].art /\ l'[p].plan = l[p].plan
          /\ l'[p].pc = "record"
      BY <2>1 DEF Locals, Goto
    <2> QED BY <1>0, <2>1, <2>2, StaysPlaced
  <1>17. ASSUME WriteRecord(p)
        PROVE  Placed(p)'
    BY <1>0, <1>17, IdleFields DEF WriteRecord, Return, Goto
  <1>18. ASSUME Rename(p)
        PROVE  Placed(p)'
    <2>1. l[p].pc = "rename"
      BY <1>18 DEF Rename
    <2>2. \/ Return(p, "cache_unavailable")
          \/ l' = [l EXCEPT ![p].pc = "scan", ![p].next = "done"]
      BY <1>18 DEF Rename
    <2>3. CASE l' = [l EXCEPT ![p].pc = "scan", ![p].next = "done"]
      <3>1. /\ l'[p].slot = l[p].slot /\ l'[p].art = l[p].art /\ l'[p].plan = l[p].plan
            /\ l'[p].pc = "scan"
        BY <2>3 DEF Locals
      <3> QED BY <1>0, <2>1, <3>1, StaysPlaced
    <2> QED BY <2>2, <2>3, ReturnPlaced
  <1>19. ASSUME Kill(p)
        PROVE  Placed(p)'
    BY <1>0, <1>19, IdleFields DEF Kill, Return, Goto
  <1>20. ASSUME IoError(p)
        PROVE  Placed(p)'
    BY <1>0, <1>20, IdleFields DEF IoError, Return, Goto
  <1> QED
    BY <1>1, <1>2, <1>3, <1>4, <1>5, <1>6, <1>7, <1>8, <1>9, <1>10, <1>11, <1>12, <1>13, <1>14, <1>15, <1>16, <1>17, <1>18, <1>19, <1>20 DEF ProcessStep, Step

\* Every step keeps all processes placed.
LEMMA PositionsStep ==
  ASSUME TypeOK, Positions, Next
  PROVE  Positions'
  <1>1. UNCHANGED env
    BY NextSteps
  <1>2. ASSUME NEW p \in Procs, ProcessStep(p)
        PROVE  Positions'
    <2>1. Frame(p) /\ Placed(p)'
      BY <1>1, <1>2, FrameStep, PlacedStep, PositionsArePlaces
    <2>2. ASSUME NEW q \in Procs \ {p} PROVE Placed(q)'
      <3>1. l'[q] = l[q] /\ offered \subseteq offered' /\ made \subseteq made'
        BY <2>1 DEF Frame
      <3>2. ScopeSlots(q) \subseteq ScopeSlots(q)' /\ RootOf(q)' = RootOf(q)
        BY <1>1, <3>1, ScopeGrows
      <3>3. Placed(q)
        BY PositionsArePlaces
      <3> QED BY <3>1, <3>2, <3>3 DEF Placed
    <2> QED BY <2>1, <2>2 DEF Positions, Placed
  <1>3. CASE Tick
    BY <1>1, <1>3 DEF Tick, files, history, Positions, ScopeSlots, InScope, Scope, RootOf
  <1> QED BY <1>2, <1>3, NextSteps

\* How a step of p changes the tree of slots.
Touches(p) ==
    /\ l[p].pc \in {"load_payload", "check"}
    /\ dirs[l[p].slot].rec # NoValue
    /\ dirs' = [dirs EXCEPT ![l[p].slot].used = now]
Removes(p) ==
    /\ l[p].pc = "remove" /\ l' = l /\ dirs[l[p].victim].present
    /\ \/ dirs' = [dirs EXCEPT ![l[p].victim].rec = NoValue]
       \/ dirs' = [dirs EXCEPT ![l[p].victim].pay = NoValue]
Clears(p) ==
    /\ l[p].pc = "remove"
    /\ dirs[l[p].victim].rec = NoValue /\ dirs[l[p].victim].pay = NoValue
    /\ dirs' = [dirs EXCEPT ![l[p].victim] = Absent]
Publishes(p) ==
    /\ l[p].pc = "rename" /\ pend[p].present /\ l'[p].pc = "scan"
    /\ dirs[l[p].slot].rec = NoValue /\ dirs[l[p].slot].pay = NoValue
    /\ dirs' = [dirs EXCEPT ![l[p].slot] = pend[p]]
Changes(p) == Touches(p) \/ Removes(p) \/ Clears(p) \/ Publishes(p)

\* These are all the ways: no other step writes to a slot.
LEMMA ChangeStep ==
  ASSUME TypeOK, NEW p \in Procs, ProcessStep(p)
  PROVE  UNCHANGED dirs \/ Changes(p)
  <1> USE DEF files, history
  <1>1. ASSUME NEW k \in Keys, NEW op \in {"load", "admit"}, BeginLoad(p, op, k)
        PROVE  UNCHANGED dirs \/ Changes(p)
    BY <1>1 DEF BeginLoad
  <1>2. ASSUME NEW k \in Keys, NEW a \in Builds[k], BeginStore(p, k, a)
        PROVE  UNCHANGED dirs \/ Changes(p)
    BY <1>2 DEF BeginStore
  <1>3. ASSUME LoadNoRoot(p)
        PROVE  UNCHANGED dirs \/ Changes(p)
    BY <1>3 DEF LoadNoRoot
  <1>4. ASSUME LoadLock(p)
        PROVE  UNCHANGED dirs \/ Changes(p)
    BY <1>4 DEF LoadLock
  <1>5. ASSUME LoadRecord(p)
        PROVE  UNCHANGED dirs \/ Changes(p)
    BY <1>5 DEF LoadRecord
  <1>6. ASSUME LoadPayload(p)
        PROVE  UNCHANGED dirs \/ Changes(p)
    <2>1. UNCHANGED dirs \/ Touch(l[p].slot)
      BY <1>6 DEF LoadPayload
    <2>2. l[p].pc = "load_payload"
      BY <1>6 DEF LoadPayload
    <2> QED BY <2>1, <2>2 DEF Changes, Touch, Touches
  <1>7. ASSUME StoreLock(p)
        PROVE  UNCHANGED dirs \/ Changes(p)
    BY <1>7 DEF StoreLock
  <1>8. ASSUME Reap(p)
        PROVE  UNCHANGED dirs \/ Changes(p)
    BY <1>8 DEF Reap
  <1>9. ASSUME Scan(p)
        PROVE  UNCHANGED dirs \/ Changes(p)
    BY <1>9 DEF Scan
  <1>10. ASSUME PruneDone(p)
        PROVE  UNCHANGED dirs \/ Changes(p)
    BY <1>10 DEF PruneDone
  <1>11. ASSUME PruneEvict(p)
        PROVE  UNCHANGED dirs \/ Changes(p)
    BY <1>11 DEF PruneEvict
  <1>12. ASSUME RemoveFile(p)
        PROVE  UNCHANGED dirs \/ Changes(p)
    BY <1>12 DEF RemoveFile, Changes, Removes
  <1>13. ASSUME RemoveDirectory(p)
        PROVE  UNCHANGED dirs \/ Changes(p)
    BY <1>13 DEF RemoveDirectory, Changes, Clears
  <1>14. ASSUME Check(p)
        PROVE  UNCHANGED dirs \/ Changes(p)
    <2>1. UNCHANGED dirs \/ Touch(l[p].slot)
      BY <1>14 DEF Check
    <2>2. l[p].pc = "check"
      BY <1>14 DEF Check
    <2> QED BY <2>1, <2>2 DEF Changes, Touch, Touches
  <1>15. ASSUME CreatePending(p)
        PROVE  UNCHANGED dirs \/ Changes(p)
    BY <1>15 DEF CreatePending
  <1>16. ASSUME WritePayload(p)
        PROVE  UNCHANGED dirs \/ Changes(p)
    BY <1>16 DEF WritePayload
  <1>17. ASSUME WriteRecord(p)
        PROVE  UNCHANGED dirs \/ Changes(p)
    BY <1>17 DEF WriteRecord
  <1>18. ASSUME Rename(p)
        PROVE  UNCHANGED dirs \/ Changes(p)
    <2>1. CASE UNCHANGED dirs
      BY <2>1
    <2>2. CASE ~UNCHANGED dirs
      <3>1. /\ pend[p].present /\ dirs[l[p].slot].rec = NoValue /\ dirs[l[p].slot].pay = NoValue
            /\ dirs' = [dirs EXCEPT ![l[p].slot] = pend[p]]
            /\ l' = [l EXCEPT ![p].pc = "scan", ![p].next = "done"] /\ l[p].pc = "rename"
        BY <1>18, <2>2 DEF Rename
      <3>2. l'[p].pc = "scan"
        BY <3>1 DEF TypeOK, Locals
      <3> QED BY <3>1, <3>2 DEF Changes, Publishes
    <2> QED BY <2>1, <2>2
  <1>19. ASSUME Kill(p)
        PROVE  UNCHANGED dirs \/ Changes(p)
    BY <1>19 DEF Kill
  <1>20. ASSUME IoError(p)
        PROVE  UNCHANGED dirs \/ Changes(p)
    BY <1>20 DEF IoError
  <1> QED
    BY <1>1, <1>2, <1>3, <1>4, <1>5, <1>6, <1>7, <1>8, <1>9, <1>10, <1>11, <1>12, <1>13, <1>14, <1>15, <1>16, <1>17, <1>18, <1>19, <1>20 DEF ProcessStep, Step

\* Absent directories, and the fields of records of the model, by name.
LEMMA DirectoryFields ==
  /\ Absent.present = FALSE /\ Absent.rec = NoValue /\ Absent.pay = NoValue
  /\ \A d \in Directory : \A x :
       /\ [d EXCEPT !.used = x].present = d.present
       /\ [d EXCEPT !.used = x].rec = d.rec /\ [d EXCEPT !.used = x].pay = d.pay
       /\ [d EXCEPT !.rec = x].rec = x /\ [d EXCEPT !.rec = x].pay = d.pay
       /\ [d EXCEPT !.rec = x].present = d.present
       /\ [d EXCEPT !.pay = x].pay = x /\ [d EXCEPT !.pay = x].rec = d.rec
       /\ [d EXCEPT !.pay = x].present = d.present
  BY DEF Absent, Directory

\* A slot receives only what was offered for it.
LEMMA ContentsStep ==
  ASSUME TypeOK, Positions, Contents, Publications, Next
  PROVE  Contents'
  <1> USE DEF TypeOK
  <1>1. ASSUME NEW p \in Procs, ProcessStep(p)
        PROVE  Contents'
    <2>1. Frame(p) /\ Placed(p)
      BY <1>1, FrameStep, PositionsArePlaces
    <2>2. offered \subseteq offered' /\ made \subseteq made'
      BY <2>1 DEF Frame
    <2>3. CASE UNCHANGED dirs
      BY <2>2, <2>3 DEF Contents, Complete
    <2>4. CASE Touches(p)
      <3>1. \A s \in Slots : /\ dirs'[s].rec = dirs[s].rec /\ dirs'[s].pay = dirs[s].pay
                              /\ dirs'[s].present = dirs[s].present
        BY <2>4, DirectoryFields DEF Touches
      <3> QED BY <2>2, <3>1 DEF Contents, Complete
    <2>5. CASE Removes(p)
      <3>1. \A s \in Slots : /\ dirs'[s].rec \in {dirs[s].rec, NoValue}
                              /\ dirs'[s].pay \in {dirs[s].pay, NoValue}
                              /\ dirs'[s].present = dirs[s].present
        <4>1. \/ \A s \in Slots : dirs'[s] = IF s = l[p].victim
                                          THEN [dirs[s] EXCEPT !.rec = NoValue] ELSE dirs[s]
              \/ \A s \in Slots : dirs'[s] = IF s = l[p].victim
                                          THEN [dirs[s] EXCEPT !.pay = NoValue] ELSE dirs[s]
          BY <2>5 DEF Removes
        <4>2. \A s \in Slots : dirs[s] \in Directory
          OBVIOUS
        <4>3. \A s \in Slots :
                /\ [dirs[s] EXCEPT !.rec = NoValue].rec = NoValue
                /\ [dirs[s] EXCEPT !.rec = NoValue].pay = dirs[s].pay
                /\ [dirs[s] EXCEPT !.rec = NoValue].present = dirs[s].present
                /\ [dirs[s] EXCEPT !.pay = NoValue].pay = NoValue
                /\ [dirs[s] EXCEPT !.pay = NoValue].rec = dirs[s].rec
                /\ [dirs[s] EXCEPT !.pay = NoValue].present = dirs[s].present
          BY <4>2, DirectoryFields
        <4> QED BY <4>1, <4>3
      <3> QED BY <2>2, <3>1 DEF Contents, Complete
    <2>6. CASE Clears(p)
      <3>1. \A s \in Slots : dirs'[s] = dirs[s] \/ dirs'[s] = Absent
        BY <2>6 DEF Clears
      <3>2. ASSUME NEW s \in Slots
            PROVE  /\ dirs'[s].rec # NoValue \/ dirs'[s].pay # NoValue => dirs'[s].present
                   /\ dirs'[s].present => s[1] \in made'
                   /\ dirs'[s].pay # NoValue => <<s, dirs'[s].pay.art>> \in offered'
                   /\ Complete(dirs'[s]) => dirs'[s].rec.art = dirs'[s].pay.art
        <4>1. CASE dirs'[s] = dirs[s]
          BY <2>2, <4>1 DEF Contents, Complete
        <4>2. CASE dirs'[s] = Absent
          BY <4>2, DirectoryFields DEF Complete
        <4> QED BY <3>1, <4>1, <4>2
      <3> QED BY <3>2 DEF Contents, Complete
    <2>7. CASE Publishes(p)
      <3>1. /\ l[p].pc = "rename" /\ pend[p].present /\ pend[p].pay # NoValue /\ pend[p].rec # NoValue
            /\ pend[p].pay.art = l[p].art /\ pend[p].rec.art = l[p].art
        BY <2>7 DEF Publishes, Publications
      <3>2. /\ l[p].slot[1] = RootOf(p) /\ RootOf(p) \in made
            /\ <<l[p].slot, l[p].art>> \in offered
        BY <2>1, <3>1 DEF Placed, Working, StoreLocked
      <3>3. \A s \in Slots : dirs'[s] = IF s = l[p].slot THEN pend[p] ELSE dirs[s]
        BY <2>7 DEF Publishes
      <3> QED BY <2>2, <3>1, <3>2, <3>3 DEF Contents, Complete
    <2> QED BY <1>1, <2>3, <2>4, <2>5, <2>6, <2>7, ChangeStep DEF Changes
  <1>2. CASE Tick
    BY <1>2 DEF Tick, files, history, Contents, Complete
  <1> QED BY <1>1, <1>2, NextSteps

\* How a step of p changes the pending directories.
LEMMA PendingStep ==
  ASSUME TypeOK, NEW p \in Procs, ProcessStep(p), NEW q \in Procs
  PROVE  \/ pend'[q] \in {pend[q], Absent}
         \/ q = p /\ l[p].pc \in {"create", "payload", "record"}
  <1> USE DEF TypeOK, files, history
  <1>1. ASSUME NEW k \in Keys, NEW op \in {"load", "admit"}, BeginLoad(p, op, k)
        PROVE  pend'[q] \in {pend[q], Absent} \/ (q = p /\ l[p].pc \in {"create", "payload", "record"})
    BY <1>1 DEF BeginLoad
  <1>2. ASSUME NEW k \in Keys, NEW a \in Builds[k], BeginStore(p, k, a)
        PROVE  pend'[q] \in {pend[q], Absent} \/ (q = p /\ l[p].pc \in {"create", "payload", "record"})
    BY <1>2 DEF BeginStore
  <1>3. ASSUME LoadNoRoot(p)
        PROVE  pend'[q] \in {pend[q], Absent} \/ (q = p /\ l[p].pc \in {"create", "payload", "record"})
    BY <1>3 DEF LoadNoRoot
  <1>4. ASSUME LoadLock(p)
        PROVE  pend'[q] \in {pend[q], Absent} \/ (q = p /\ l[p].pc \in {"create", "payload", "record"})
    BY <1>4 DEF LoadLock
  <1>5. ASSUME LoadRecord(p)
        PROVE  pend'[q] \in {pend[q], Absent} \/ (q = p /\ l[p].pc \in {"create", "payload", "record"})
    BY <1>5 DEF LoadRecord
  <1>6. ASSUME LoadPayload(p)
        PROVE  pend'[q] \in {pend[q], Absent} \/ (q = p /\ l[p].pc \in {"create", "payload", "record"})
    BY <1>6 DEF LoadPayload
  <1>7. ASSUME StoreLock(p)
        PROVE  pend'[q] \in {pend[q], Absent} \/ (q = p /\ l[p].pc \in {"create", "payload", "record"})
    BY <1>7 DEF StoreLock
  <1>8. ASSUME Reap(p)
        PROVE  pend'[q] \in {pend[q], Absent} \/ (q = p /\ l[p].pc \in {"create", "payload", "record"})
    BY <1>8 DEF Reap
  <1>9. ASSUME Scan(p)
        PROVE  pend'[q] \in {pend[q], Absent} \/ (q = p /\ l[p].pc \in {"create", "payload", "record"})
    BY <1>9 DEF Scan
  <1>10. ASSUME PruneDone(p)
        PROVE  pend'[q] \in {pend[q], Absent} \/ (q = p /\ l[p].pc \in {"create", "payload", "record"})
    BY <1>10 DEF PruneDone
  <1>11. ASSUME PruneEvict(p)
        PROVE  pend'[q] \in {pend[q], Absent} \/ (q = p /\ l[p].pc \in {"create", "payload", "record"})
    BY <1>11 DEF PruneEvict
  <1>12. ASSUME RemoveFile(p)
        PROVE  pend'[q] \in {pend[q], Absent} \/ (q = p /\ l[p].pc \in {"create", "payload", "record"})
    BY <1>12 DEF RemoveFile
  <1>13. ASSUME RemoveDirectory(p)
        PROVE  pend'[q] \in {pend[q], Absent} \/ (q = p /\ l[p].pc \in {"create", "payload", "record"})
    BY <1>13 DEF RemoveDirectory
  <1>14. ASSUME Check(p)
        PROVE  pend'[q] \in {pend[q], Absent} \/ (q = p /\ l[p].pc \in {"create", "payload", "record"})
    BY <1>14 DEF Check
  <1>15. ASSUME CreatePending(p)
        PROVE  pend'[q] \in {pend[q], Absent} \/ (q = p /\ l[p].pc \in {"create", "payload", "record"})
    BY <1>15 DEF CreatePending
  <1>16. ASSUME WritePayload(p)
        PROVE  pend'[q] \in {pend[q], Absent} \/ (q = p /\ l[p].pc \in {"create", "payload", "record"})
    BY <1>16 DEF WritePayload
  <1>17. ASSUME WriteRecord(p)
        PROVE  pend'[q] \in {pend[q], Absent} \/ (q = p /\ l[p].pc \in {"create", "payload", "record"})
    BY <1>17 DEF WriteRecord
  <1>18. ASSUME Rename(p)
        PROVE  pend'[q] \in {pend[q], Absent} \/ (q = p /\ l[p].pc \in {"create", "payload", "record"})
    BY <1>18 DEF Rename
  <1>19. ASSUME Kill(p)
        PROVE  pend'[q] \in {pend[q], Absent} \/ (q = p /\ l[p].pc \in {"create", "payload", "record"})
    BY <1>19 DEF Kill
  <1>20. ASSUME IoError(p)
        PROVE  pend'[q] \in {pend[q], Absent} \/ (q = p /\ l[p].pc \in {"create", "payload", "record"})
    BY <1>20 DEF IoError
  <1> QED
    BY <1>1, <1>2, <1>3, <1>4, <1>5, <1>6, <1>7, <1>8, <1>9, <1>10, <1>11, <1>12, <1>13, <1>14, <1>15, <1>16, <1>17, <1>18, <1>19, <1>20 DEF ProcessStep, Step

\* Publications, of one process.
Prepared(p) ==
    /\ l[p].pc = "payload" => pend[p].rec = NoValue /\ pend[p].pay = NoValue
    /\ l[p].pc \in {"record", "rename"} =>
         /\ pend[p].pay # NoValue => pend[p].pay.art = l[p].art
         /\ pend[p].present => pend[p].pay # NoValue
    /\ l[p].pc = "rename" =>
         /\ pend[p].rec # NoValue => pend[p].rec.art = l[p].art
         /\ pend[p].present => pend[p].rec # NoValue

\* A step of p prepares its pending directory in the order of store().
LEMMA PreparedStep ==
  ASSUME TypeOK, TypeOK', Positions, NEW p \in Procs, Prepared(p), ProcessStep(p)
  PROVE  Prepared(p)'
  <1> USE DEF TypeOK, files, history, Prepared
  <1>1. ASSUME NEW k \in Keys, NEW op \in {"load", "admit"}, BeginLoad(p, op, k)
        PROVE  Prepared(p)'
    <2>1. l'[p].pc \notin {"payload", "record", "rename"}
      BY <1>1, IdleFields DEF BeginLoad, Return, Goto, Locals
    <2> QED BY <2>1
  <1>2. ASSUME NEW k \in Keys, NEW a \in Builds[k], BeginStore(p, k, a)
        PROVE  Prepared(p)'
    <2>1. l'[p].pc \notin {"payload", "record", "rename"}
      BY <1>2, IdleFields DEF BeginStore, Return, Goto, Locals
    <2> QED BY <2>1
  <1>3. ASSUME LoadNoRoot(p)
        PROVE  Prepared(p)'
    <2>1. l'[p].pc \notin {"payload", "record", "rename"}
      BY <1>3, IdleFields DEF LoadNoRoot, Missed, Return, Goto, Locals
    <2> QED BY <2>1
  <1>4. ASSUME LoadLock(p)
        PROVE  Prepared(p)'
    <2>1. l'[p].pc \notin {"payload", "record", "rename"}
      BY <1>4, IdleFields DEF LoadLock, Return, Goto, Locals
    <2> QED BY <2>1
  <1>5. ASSUME LoadRecord(p)
        PROVE  Prepared(p)'
    <2>1. l'[p].pc \notin {"payload", "record", "rename"}
      BY <1>5, IdleFields DEF LoadRecord, Missed, Return, Goto, Locals
    <2> QED BY <2>1
  <1>6. ASSUME LoadPayload(p)
        PROVE  Prepared(p)'
    <2>1. l'[p].pc \notin {"payload", "record", "rename"}
      BY <1>6, IdleFields DEF LoadPayload, Return, Goto, Locals
    <2> QED BY <2>1
  <1>7. ASSUME StoreLock(p)
        PROVE  Prepared(p)'
    <2>1. l'[p].pc \notin {"payload", "record", "rename"}
      BY <1>7, IdleFields DEF StoreLock, Return, Goto, Locals
    <2> QED BY <2>1
  <1>8. ASSUME Reap(p)
        PROVE  Prepared(p)'
    <2>1. l[p].pc = "reap" /\ (l' = l \/ l' = [l EXCEPT ![p].pc = "scan", ![p].next = "check"])
      BY <1>8 DEF Reap
    <2>2. l'[p].pc \notin {"payload", "record", "rename"}
      BY <2>1 DEF Locals
    <2> QED BY <2>2
  <1>9. ASSUME Scan(p)
        PROVE  Prepared(p)'
    <2>1. l'[p].pc \notin {"payload", "record", "rename"}
      BY <1>9, IdleFields DEF Scan, Return, Goto, Locals
    <2> QED BY <2>1
  <1>10. ASSUME PruneDone(p)
        PROVE  Prepared(p)'
    <2>1. l'[p].pc \notin {"payload", "record", "rename"}
      BY <1>10, IdleFields DEF PruneDone, Return, Goto, Locals
    <2> QED BY <2>1
  <1>11. ASSUME PruneEvict(p)
        PROVE  Prepared(p)'
    <2>1. l'[p].pc \notin {"payload", "record", "rename"}
      BY <1>11, IdleFields DEF PruneEvict, Return, Goto, Locals
    <2> QED BY <2>1
  <1>12. ASSUME RemoveFile(p)
        PROVE  Prepared(p)'
    <2>1. l'[p].pc \notin {"payload", "record", "rename"}
      BY <1>12, IdleFields DEF RemoveFile, Return, Goto, Locals
    <2> QED BY <2>1
  <1>13. ASSUME RemoveDirectory(p)
        PROVE  Prepared(p)'
    <2>1. l'[p].pc \notin {"payload", "record", "rename"}
      BY <1>13, IdleFields DEF RemoveDirectory, Return, Goto, Locals
    <2> QED BY <2>1
  <1>14. ASSUME Check(p)
        PROVE  Prepared(p)'
    <2>1. \/ \E r : l' = [l EXCEPT ![p] = [Idle EXCEPT !.res = r]]
          \/ l' = [l EXCEPT ![p].pc = "create"]
          \/ l' = [l EXCEPT ![p].pc = "scan", ![p].next = "done"]
      BY <1>14 DEF Check, Return, Goto
    <2>2. l'[p].pc \notin {"payload", "record", "rename"}
      BY <2>1, IdleFields DEF Locals
    <2> QED BY <2>2
  <1>15. ASSUME CreatePending(p)
        PROVE  Prepared(p)'
    <2>1. l'[p].pc = "payload"
      BY <1>15 DEF CreatePending, Goto
    <2>2. pend'[p] = [Absent EXCEPT !.present = TRUE]
      BY <1>15 DEF CreatePending
    <2> QED BY <2>1, <2>2 DEF Absent
  <1>16. ASSUME WritePayload(p)
        PROVE  Prepared(p)'
    <2>1. l[p].pc = "payload" /\ l'[p].pc = "record" /\ l'[p].art = l[p].art
      BY <1>16 DEF WritePayload, Goto, Locals
    <2>2. PICK x : pend' = [pend EXCEPT ![p].pay = x] /\ x.art = l[p].art
      BY <1>16 DEF WritePayload, Twin
    <2>3. pend'[p].pay = x /\ x.art = l[p].art
      BY <2>2, DirectoryFields
    <2>4. x # NoValue
      <3>1. pend[p].pay = NoValue /\ l[p].art \in Artifacts
        BY <2>1 DEF Positions, Working, StoreLocked
      <3>2. [id |-> FreshId, art |-> l[p].art] \in Payload
        BY <3>1, FreshIdExists DEF Payload
      <3>3. \A e \in Entries(p) : e.pay \in Payload
        BY EntriesType DEF ManagedEntry
      <3>4. pend'[p].pay \in Payload
        <4>1. \/ \E e \in Entries(p) : pend' = [pend EXCEPT ![p].pay = e.pay]
              \/ pend' = [pend EXCEPT ![p].pay = [id |-> FreshId, art |-> l[p].art]]
          BY <1>16 DEF WritePayload
        <4>2. PICK y \in Payload : pend' = [pend EXCEPT ![p].pay = y]
          BY <3>2, <3>3, <4>1
        <4> QED BY <4>2, DirectoryFields
      <3> QED BY <2>3, <3>4, NoValueAssumption
    <2> QED BY <2>1, <2>3, <2>4
  <1>17. ASSUME WriteRecord(p)
        PROVE  Prepared(p)'
    <2>1. l[p].pc = "record" /\ l'[p].pc = "rename" /\ l'[p].art = l[p].art
      BY <1>17 DEF WriteRecord, Goto, Locals
    <2>2. pend' = [pend EXCEPT ![p].rec = [art |-> l[p].art, full |-> TRUE], ![p].used = now]
      BY <1>17 DEF WriteRecord
    <2>3. /\ pend'[p].rec = [art |-> l[p].art, full |-> TRUE] /\ pend'[p].pay = pend[p].pay
          /\ pend'[p].present = pend[p].present
      BY <2>2 DEF Directory
    <2>4. l[p].art \in Artifacts
      BY <2>1 DEF Positions, Working, StoreLocked
    <2>5. pend'[p].rec # NoValue
      <3>1. [art |-> l[p].art, full |-> TRUE] \in CacheRecord
        BY <2>4 DEF CacheRecord
      <3> QED BY <2>3, <3>1, NoValueAssumption
    <2> QED BY <2>1, <2>3, <2>5
  <1>18. ASSUME Rename(p)
        PROVE  Prepared(p)'
    <2>1. \/ l' = [l EXCEPT ![p] = [Idle EXCEPT !.res = "cache_unavailable"]]
          \/ l' = [l EXCEPT ![p].pc = "scan", ![p].next = "done"]
      BY <1>18 DEF Rename, Return
    <2>2. l'[p].pc \notin {"payload", "record", "rename"}
      BY <2>1, IdleFields DEF Locals
    <2> QED BY <2>2
  <1>19. ASSUME Kill(p)
        PROVE  Prepared(p)'
    <2>1. l'[p].pc \notin {"payload", "record", "rename"}
      BY <1>19, IdleFields DEF Kill, Return, Goto, Locals
    <2> QED BY <2>1
  <1>20. ASSUME IoError(p)
        PROVE  Prepared(p)'
    <2>1. l'[p].pc \notin {"payload", "record", "rename"}
      BY <1>20, IdleFields DEF IoError, Return, Goto, Locals
    <2> QED BY <2>1
  <1> QED
    BY <1>1, <1>2, <1>3, <1>4, <1>5, <1>6, <1>7, <1>8, <1>9, <1>10, <1>11, <1>12, <1>13, <1>14, <1>15, <1>16, <1>17, <1>18, <1>19, <1>20 DEF ProcessStep, Step

\* Pending directories stay prepared, or are reaped.
LEMMA PublicationsStep ==
  ASSUME TypeOK, TypeOK', Positions, Publications, Next
  PROVE  Publications'
  <1>1. ASSUME NEW p \in Procs, ProcessStep(p)
        PROVE  Publications'
    <2>1. \A q \in Procs : Prepared(q)
      BY DEF Publications, Prepared
    <2>2. Prepared(p)'
      BY <1>1, <2>1, PreparedStep
    <2>3. ASSUME NEW q \in Procs \ {p} PROVE Prepared(q)'
      <3>1. l'[q] = l[q] /\ pend'[q] \in {pend[q], Absent}
        BY <1>1, FrameStep, PendingStep DEF Frame
      <3> QED BY <2>1, <3>1, DirectoryFields DEF Prepared
    <2> QED BY <2>2, <2>3 DEF Publications, Prepared
  <1>2. CASE Tick
    BY <1>2 DEF Tick, files, history, Publications
  <1> QED BY <1>1, <1>2, NextSteps

\* A process takes the lock at two places, when it is free for it.
Moves(p) ==
    LET a == l[p].pc
        b == l'[p].pc
    IN  \/ b = "idle"
        \/ a = "idle" /\ b \in {"load_lock", "store_lock"}
        \/ a \in {"load_lock", "load_record"} /\ b = "store_lock"
        \/ a = "load_lock" /\ b = "load_record" /\ SharedFree(p)
        \/ a = "load_record" /\ b = "load_payload"
        \/ a = "store_lock" /\ b = "reap" /\ ExclusiveFree(p)
        \/ a \in StoreLocked /\ b \in StoreLocked

\* A process that returns is idle and has no plan.
LEMMA ReturnPc ==
  ASSUME TypeOK, NEW p \in Procs, NEW r, Return(p, r)
  PROVE  l'[p].pc = "idle" /\ l'[p].res = r /\ l'[p].plan = {}
  <1>1. l'[p] = [Idle EXCEPT !.res = r]
    BY DEF Return, TypeOK
  <1> QED BY <1>1, IdleFields

\* Every step of p is one of these moves.
LEMMA MoveStep ==
  ASSUME TypeOK, NEW p \in Procs, ProcessStep(p)
  PROVE  Moves(p)
  <1> USE DEF TypeOK, Moves, StoreLocked
  <1>1. ASSUME NEW k \in Keys, NEW op \in {"load", "admit"}, BeginLoad(p, op, k)
        PROVE  Moves(p)
    BY <1>1, IdleFields DEF BeginLoad, Return, Goto, Locals
  <1>2. ASSUME NEW k \in Keys, NEW a \in Builds[k], BeginStore(p, k, a)
        PROVE  Moves(p)
    BY <1>2, IdleFields DEF BeginStore, Return, Goto, Locals
  <1>3. ASSUME LoadNoRoot(p)
        PROVE  Moves(p)
    <2>1. l[p].pc \in {"load_lock"}
      BY <1>3 DEF LoadNoRoot
    <2>2. \/ \E r : Return(p, r)
          \/ \E a : l' = [l EXCEPT ![p].pc = "store_lock", ![p].art = a]
      BY <1>3 DEF LoadNoRoot, Missed
    <2>3. CASE \E r : Return(p, r)
      BY <2>3, ReturnPc
    <2>4. CASE \E a : l' = [l EXCEPT ![p].pc = "store_lock", ![p].art = a]
      <3>1. l'[p].pc = "store_lock"
        BY <2>1, <2>4 DEF Locals
      <3> QED BY <2>1, <3>1
    <2> QED BY <2>2, <2>3, <2>4
  <1>4. ASSUME LoadLock(p)
        PROVE  Moves(p)
    BY <1>4, IdleFields DEF LoadLock, Return, Goto, Locals
  <1>5. ASSUME LoadRecord(p)
        PROVE  Moves(p)
    <2>1. l[p].pc \in {"load_record"}
      BY <1>5 DEF LoadRecord
    <2>2. \/ \E r : Return(p, r)
          \/ \E a : l' = [l EXCEPT ![p].pc = "store_lock", ![p].art = a]
          \/ l' = [l EXCEPT ![p].pc = "load_payload", ![p].rec = dirs[l[p].slot].rec]
      BY <1>5 DEF LoadRecord, Missed
    <2>3. CASE \E r : Return(p, r)
      BY <2>3, ReturnPc
    <2>4. CASE \E a : l' = [l EXCEPT ![p].pc = "store_lock", ![p].art = a]
      <3>1. l'[p].pc = "store_lock"
        BY <2>1, <2>4 DEF Locals
      <3> QED BY <2>1, <3>1
    <2>5. CASE l' = [l EXCEPT ![p].pc = "load_payload", ![p].rec = dirs[l[p].slot].rec]
      <3>1. l'[p].pc = "load_payload"
        BY <2>1, <2>5 DEF Locals
      <3> QED BY <2>1, <3>1
    <2> QED BY <2>2, <2>3, <2>4, <2>5
  <1>6. ASSUME LoadPayload(p)
        PROVE  Moves(p)
    BY <1>6, IdleFields DEF LoadPayload, Return, Goto, Locals
  <1>7. ASSUME StoreLock(p)
        PROVE  Moves(p)
    BY <1>7, IdleFields DEF StoreLock, Return, Goto, Locals
  <1>8. ASSUME Reap(p)
        PROVE  Moves(p)
    <2>1. l[p].pc \in {"reap"}
      BY <1>8 DEF Reap
    <2>2. \/ l' = l
          \/ l' = [l EXCEPT ![p].pc = "scan", ![p].next = "check"]
      BY <1>8 DEF Reap
    <2>3. CASE l' = l
      <3>1. l'[p].pc = "reap"
        BY <2>1, <2>3 DEF Locals
      <3> QED BY <2>1, <3>1
    <2>4. CASE l' = [l EXCEPT ![p].pc = "scan", ![p].next = "check"]
      <3>1. l'[p].pc = "scan"
        BY <2>1, <2>4 DEF Locals
      <3> QED BY <2>1, <3>1
    <2> QED BY <2>2, <2>3, <2>4
  <1>9. ASSUME Scan(p)
        PROVE  Moves(p)
    BY <1>9, IdleFields DEF Scan, Return, Goto, Locals
  <1>10. ASSUME PruneDone(p)
        PROVE  Moves(p)
    <2>1. l[p].pc \in {"prune"}
      BY <1>10 DEF PruneDone
    <2>2. \/ l' = [l EXCEPT ![p].pc = "check", ![p].plan = {}]
          \/ \E r : Return(p, r)
      BY <1>10 DEF PruneDone
    <2>3. CASE l' = [l EXCEPT ![p].pc = "check", ![p].plan = {}]
      <3>1. l'[p].pc = "check"
        BY <2>1, <2>3 DEF Locals
      <3> QED BY <2>1, <3>1
    <2>4. CASE \E r : Return(p, r)
      BY <2>4, ReturnPc
    <2> QED BY <2>2, <2>3, <2>4
  <1>11. ASSUME PruneEvict(p)
        PROVE  Moves(p)
    <2>1. l[p].pc \in {"prune"}
      BY <1>11 DEF PruneEvict
    <2>2. \/ \E e : l' = [l EXCEPT ![p].pc = "remove", ![p].victim = e.slot, ![p].plan = l[p].plan \ {e}]
      BY <1>11 DEF PruneEvict
    <2>3. CASE \E e : l' = [l EXCEPT ![p].pc = "remove", ![p].victim = e.slot, ![p].plan = l[p].plan \ {e}]
      <3>1. l'[p].pc = "remove"
        BY <2>1, <2>3 DEF Locals
      <3> QED BY <2>1, <3>1
    <2> QED BY <2>2, <2>3
  <1>12. ASSUME RemoveFile(p)
        PROVE  Moves(p)
    BY <1>12, IdleFields DEF RemoveFile, Return, Goto, Locals
  <1>13. ASSUME RemoveDirectory(p)
        PROVE  Moves(p)
    <2>1. l[p].pc \in {"remove"}
      BY <1>13 DEF RemoveDirectory
    <2>2. \/ l' = [l EXCEPT ![p].pc = "prune", ![p].victim = NoValue]
          \/ \E r : Return(p, r)
      BY <1>13 DEF RemoveDirectory
    <2>3. CASE l' = [l EXCEPT ![p].pc = "prune", ![p].victim = NoValue]
      <3>1. l'[p].pc = "prune"
        BY <2>1, <2>3 DEF Locals
      <3> QED BY <2>1, <3>1
    <2>4. CASE \E r : Return(p, r)
      BY <2>4, ReturnPc
    <2> QED BY <2>2, <2>3, <2>4
  <1>14. ASSUME Check(p)
        PROVE  Moves(p)
    <2>1. l[p].pc \in {"check"}
      BY <1>14 DEF Check
    <2>2. \/ \E r : Return(p, r)
          \/ l' = [l EXCEPT ![p].pc = "create"]
          \/ l' = [l EXCEPT ![p].pc = "scan", ![p].next = "done"]
      BY <1>14 DEF Check, Goto
    <2>3. CASE \E r : Return(p, r)
      BY <2>3, ReturnPc
    <2>4. CASE l' = [l EXCEPT ![p].pc = "create"]
      <3>1. l'[p].pc = "create"
        BY <2>1, <2>4 DEF Locals
      <3> QED BY <2>1, <3>1
    <2>5. CASE l' = [l EXCEPT ![p].pc = "scan", ![p].next = "done"]
      <3>1. l'[p].pc = "scan"
        BY <2>1, <2>5 DEF Locals
      <3> QED BY <2>1, <3>1
    <2> QED BY <2>2, <2>3, <2>4, <2>5
  <1>15. ASSUME CreatePending(p)
        PROVE  Moves(p)
    BY <1>15, IdleFields DEF CreatePending, Return, Goto, Locals
  <1>16. ASSUME WritePayload(p)
        PROVE  Moves(p)
    BY <1>16, IdleFields DEF WritePayload, Return, Goto, Locals
  <1>17. ASSUME WriteRecord(p)
        PROVE  Moves(p)
    BY <1>17, IdleFields DEF WriteRecord, Return, Goto, Locals
  <1>18. ASSUME Rename(p)
        PROVE  Moves(p)
    <2>1. l[p].pc \in {"rename"}
      BY <1>18 DEF Rename
    <2>2. \/ \E r : Return(p, r)
          \/ l' = [l EXCEPT ![p].pc = "scan", ![p].next = "done"]
      BY <1>18 DEF Rename
    <2>3. CASE \E r : Return(p, r)
      BY <2>3, ReturnPc
    <2>4. CASE l' = [l EXCEPT ![p].pc = "scan", ![p].next = "done"]
      <3>1. l'[p].pc = "scan"
        BY <2>1, <2>4 DEF Locals
      <3> QED BY <2>1, <3>1
    <2> QED BY <2>2, <2>3, <2>4
  <1>19. ASSUME Kill(p)
        PROVE  Moves(p)
    BY <1>19, IdleFields DEF Kill, Return, Goto, Locals
  <1>20. ASSUME IoError(p)
        PROVE  Moves(p)
    BY <1>20, IdleFields DEF IoError, Return, Goto, Locals
  <1> QED
    BY <1>1, <1>2, <1>3, <1>4, <1>5, <1>6, <1>7, <1>8, <1>9, <1>10, <1>11, <1>12, <1>13, <1>14, <1>15, <1>16, <1>17, <1>18, <1>19, <1>20 DEF ProcessStep, Step

\* The lock stays exclusive.
LEMMA ExclusionStep ==
  ASSUME TypeOK, Exclusion, Next
  PROVE  Exclusion'
  <1> USE DEF TypeOK, LoadLocked, StoreLocked, HoldsShared, HoldsExclusive
  <1>0. \A q \in Procs : Domain(q)' = Domain(q)
    BY NextSteps DEF Domain, Scope, RootOf
  <1>1. ASSUME NEW p \in Procs, ProcessStep(p)
        PROVE  Exclusion'
    <2>1. \A q \in Procs \ {p} : l'[q] = l[q]
      BY <1>1, FrameStep DEF Frame
    <2>2. /\ HoldsShared(p)' => HoldsShared(p) \/ SharedFree(p)
          /\ HoldsExclusive(p)' => HoldsExclusive(p) \/ ExclusiveFree(p)
      BY <1>1, MoveStep DEF Moves
    <2>3. ASSUME NEW a \in Procs, NEW b \in Procs, a # b, Domain(a) = Domain(b), HoldsExclusive(a)'
          PROVE  ~HoldsShared(b)' /\ ~HoldsExclusive(b)'
      BY <2>1, <2>2, <2>3 DEF Exclusion, SharedFree, ExclusiveFree
    <2> QED BY <1>0, <2>3 DEF Exclusion
  <1>2. CASE Tick
    BY <1>0, <1>2 DEF Tick, files, history, Exclusion
  <1> QED BY <1>1, <1>2, NextSteps

\* An eviction ends in three ways.
LEMMA EvictionStep ==
  ASSUME TypeOK, NEW p \in Procs, ProcessStep(p), l[p].pc = "remove"
  PROVE  Removes(p) \/ Clears(p) \/ Return(p, "cut")
  <1> USE DEF files, history
  <1>1. \/ RemoveFile(p) \/ RemoveDirectory(p) \/ Kill(p) \/ IoError(p)
    BY DEF ProcessStep, Step, BeginLoad, BeginStore, LoadNoRoot, LoadLock, LoadRecord, LoadPayload,
           StoreLock, Reap, Scan, PruneDone, PruneEvict, Check, CreatePending, WritePayload,
           WriteRecord, Rename
  <1>2. CASE RemoveFile(p)
    BY <1>2 DEF RemoveFile, Removes
  <1>3. CASE RemoveDirectory(p)
    BY <1>3 DEF RemoveDirectory, Clears
  <1>4. CASE Kill(p) \/ IoError(p)
    BY <1>4 DEF Kill, IoError
  <1> QED BY <1>1, <1>2, <1>3, <1>4

\* A directory becomes a wreck by the death of the process that removes it.
LEMMA WreckStep ==
  ASSUME TypeOK, Publications, Next, NEW s \in Slots, Wreck(s)', ~Wreck(s)
  PROVE  \E p \in Procs : /\ l[p].pc = "remove" /\ l[p].victim = s
                          /\ l'[p].res = "cut"
  <1> USE DEF TypeOK
  <1>1. dirs'[s].present /\ ~Complete(dirs'[s])
    BY DEF Wreck, Complete
  <1>2. ~\E q \in Procs : l'[q].pc = "remove" /\ l'[q].victim = s
    BY DEF Wreck, Removing
  <1>3. ASSUME NEW p \in Procs, ProcessStep(p), dirs[s].present, ~Complete(dirs[s])
        PROVE  /\ l[p].pc = "remove" /\ l[p].victim = s
               /\ l'[p].res = "cut"
    <2>1. PICK q \in Procs : l[q].pc = "remove" /\ l[q].victim = s
      BY <1>3 DEF Wreck, Removing
    <2>2. q = p
      BY <1>2, <1>3, <2>1, FrameStep DEF Frame
    <2>3. ~Removes(p)
      BY <1>2, <2>1, <2>2 DEF Removes
    <2>4. ~Clears(p)
      BY <1>1, <2>1, <2>2, DirectoryFields DEF Clears
    <2>5. Return(p, "cut")
      BY <1>3, <2>1, <2>2, <2>3, <2>4, EvictionStep
    <2>6. l'[p].res = "cut"
      BY <2>5, ReturnPc
    <2> QED BY <2>1, <2>2, <2>6
  <1>4. ASSUME NEW p \in Procs, ProcessStep(p) PROVE dirs[s].present /\ ~Complete(dirs[s])
    <2>1. CASE Removes(p)
      <3>1. s # l[p].victim
        BY <1>2, <2>1 DEF Removes
      <3>2. dirs'[s] = dirs[s]
        BY <2>1, <3>1 DEF Removes
      <3> QED BY <1>1, <3>2
    <2>2. CASE Clears(p)
      <3>1. s # l[p].victim
        BY <1>1, <2>2, DirectoryFields DEF Clears
      <3>2. dirs'[s] = dirs[s]
        BY <2>2, <3>1 DEF Clears
      <3> QED BY <1>1, <3>2
    <2>3. CASE Publishes(p)
      <3>1. l[p].pc = "rename" /\ pend[p].present /\ pend[p].pay # NoValue /\ pend[p].rec # NoValue
        BY <2>3 DEF Publishes, Publications
      <3>2. dirs'[s] = IF s = l[p].slot THEN pend[p] ELSE dirs[s]
        BY <2>3 DEF Publishes
      <3> QED BY <1>1, <3>1, <3>2 DEF Complete
    <2>4. CASE UNCHANGED dirs
      BY <1>1, <2>4
    <2>5. CASE Touches(p)
      <3>1. /\ dirs'[s].rec = dirs[s].rec /\ dirs'[s].pay = dirs[s].pay
            /\ dirs'[s].present = dirs[s].present
        BY <2>5, DirectoryFields DEF Touches
      <3> QED BY <1>1, <3>1 DEF Complete
    <2> QED BY <1>4, <2>1, <2>2, <2>3, <2>4, <2>5, ChangeStep DEF Changes
  <1>5. ~Tick
    <2> SUFFICES ASSUME Tick PROVE FALSE
      OBVIOUS
    <2>1. dirs' = dirs /\ l' = l
      BY DEF Tick, files
    <2> QED BY <1>1, <1>2, <2>1 DEF Wreck, Removing
  <1> QED BY <1>3, <1>4, <1>5, NextSteps

\* What a lookup answers: nothing new, a miss, or the payload of its slot.
LEMMA AnswerStep ==
  ASSUME TypeOK, NEW p \in Procs, ProcessStep(p)
  PROVE  \/ UNCHANGED got
         \/ got' = [got EXCEPT ![p] = NoValue]
         \/ Answer(p, NoValue)
         \/ /\ l[p].pc = "load_payload" /\ dirs[l[p].slot].pay # NoValue
            /\ Answer(p, dirs[l[p].slot].pay.art)
  <1> DEFINE G == \/ UNCHANGED got
                  \/ got' = [got EXCEPT ![p] = NoValue]
                  \/ Answer(p, NoValue)
                  \/ /\ l[p].pc = "load_payload" /\ dirs[l[p].slot].pay # NoValue
                     /\ Answer(p, dirs[l[p].slot].pay.art)
  <1> USE DEF files, history
  <1>1. ASSUME NEW k \in Keys, NEW op \in {"load", "admit"}, BeginLoad(p, op, k)
        PROVE  G
    BY <1>1 DEF BeginLoad
  <1>2. ASSUME NEW k \in Keys, NEW a \in Builds[k], BeginStore(p, k, a)
        PROVE  G
    BY <1>2 DEF BeginStore
  <1>3. ASSUME LoadNoRoot(p)
        PROVE  G
    BY <1>3 DEF LoadNoRoot, Missed
  <1>4. ASSUME LoadLock(p)
        PROVE  G
    BY <1>4 DEF LoadLock
  <1>5. ASSUME LoadRecord(p)
        PROVE  G
    BY <1>5 DEF LoadRecord, Missed
  <1>6. ASSUME LoadPayload(p)
        PROVE  G
    BY <1>6 DEF LoadPayload, Validate
  <1>7. ASSUME StoreLock(p)
        PROVE  G
    BY <1>7 DEF StoreLock
  <1>8. ASSUME Reap(p)
        PROVE  G
    BY <1>8 DEF Reap
  <1>9. ASSUME Scan(p)
        PROVE  G
    BY <1>9 DEF Scan
  <1>10. ASSUME PruneDone(p)
        PROVE  G
    BY <1>10 DEF PruneDone
  <1>11. ASSUME PruneEvict(p)
        PROVE  G
    BY <1>11 DEF PruneEvict
  <1>12. ASSUME RemoveFile(p)
        PROVE  G
    BY <1>12 DEF RemoveFile
  <1>13. ASSUME RemoveDirectory(p)
        PROVE  G
    BY <1>13 DEF RemoveDirectory
  <1>14. ASSUME Check(p)
        PROVE  G
    BY <1>14 DEF Check
  <1>15. ASSUME CreatePending(p)
        PROVE  G
    BY <1>15 DEF CreatePending
  <1>16. ASSUME WritePayload(p)
        PROVE  G
    BY <1>16 DEF WritePayload
  <1>17. ASSUME WriteRecord(p)
        PROVE  G
    BY <1>17 DEF WriteRecord
  <1>18. ASSUME Rename(p)
        PROVE  G
    BY <1>18 DEF Rename
  <1>19. ASSUME Kill(p)
        PROVE  G
    BY <1>19 DEF Kill
  <1>20. ASSUME IoError(p)
        PROVE  G
    BY <1>20 DEF IoError
  <1> QED
    BY <1>1, <1>2, <1>3, <1>4, <1>5, <1>6, <1>7, <1>8, <1>9, <1>10, <1>11, <1>12, <1>13, <1>14, <1>15, <1>16, <1>17, <1>18, <1>19, <1>20 DEF ProcessStep, Step

\* A lookup answers with what was offered for its slot.
LEMMA LookupStep ==
  ASSUME TypeOK, Positions, Contents, LoadReturnsWhatWasStored, Next
  PROVE  LoadReturnsWhatWasStored'
  <1> USE DEF TypeOK, LoadReturnsWhatWasStored
  <1>1. ASSUME NEW p \in Procs, ProcessStep(p)
        PROVE  LoadReturnsWhatWasStored'
    <2>1. offered \subseteq offered' /\ Placed(p)
      BY <1>1, FrameStep, PositionsArePlaces DEF Frame
    <2>2. CASE UNCHANGED got
      BY <2>1, <2>2
    <2>3. CASE got' = [got EXCEPT ![p] = NoValue]
      BY <2>1, <2>3
    <2>4. CASE Answer(p, NoValue)
      <3>1. \A q \in Procs : got'[q] = IF q = p THEN [slot |-> l[p].slot, value |-> NoValue] ELSE got[q]
        BY <2>4 DEF Answer
      <3> QED BY <2>1, <3>1
    <2>5. CASE /\ l[p].pc = "load_payload" /\ dirs[l[p].slot].pay # NoValue
               /\ Answer(p, dirs[l[p].slot].pay.art)
      <3>1. \A q \in Procs : got'[q] = IF q = p THEN [slot |-> l[p].slot, value |-> dirs[l[p].slot].pay.art]
                                       ELSE got[q]
        BY <2>5 DEF Answer
      <3>2. <<l[p].slot, dirs[l[p].slot].pay.art>> \in offered
        BY <2>1, <2>5 DEF Contents, Placed
      <3> QED BY <2>1, <3>1, <3>2
    <2> QED BY <1>1, <2>2, <2>3, <2>4, <2>5, AnswerStep
  <1>2. CASE Tick
    BY <1>2 DEF Tick, files, history
  <1> QED BY <1>1, <1>2, NextSteps

-----------------------------------------------------------------------------
(* Theorems about every environment *)

SafeInv == TypeOK /\ Positions /\ Contents /\ Publications /\ Exclusion /\ LoadReturnsWhatWasStored

\* The invariant holds of the tree that earlier runs left.
LEMMA InitSafe == Init => SafeInv
  <1> SUFFICES ASSUME Init PROVE SafeInv
    OBVIOUS
  <1>1. TypeOK
    BY InitType
  <1>2. \A p \in Procs : l[p] = Idle /\ pend[p] = Absent /\ got[p] = NoValue
    BY DEF Init
  <1>3. Idle.pc = "idle" /\ Idle.plan = {}
    BY DEF Idle
  <1>4. Positions /\ Publications /\ Exclusion /\ LoadReturnsWhatWasStored
    BY <1>2, <1>3 DEF Positions, Publications, Exclusion, LoadReturnsWhatWasStored, Working,
                      LoadLocked, StoreLocked, HoldsShared, HoldsExclusive
  <1>5. Contents
    <2> SUFFICES ASSUME NEW s \in Slots
                 PROVE  /\ dirs[s].rec # NoValue \/ dirs[s].pay # NoValue => dirs[s].present
                        /\ dirs[s].present => s[1] \in made
                        /\ dirs[s].pay # NoValue => <<s, dirs[s].pay.art>> \in offered
                        /\ Complete(dirs[s]) => dirs[s].rec.art = dirs[s].pay.art
      BY DEF Contents
    <2>1. CASE Legacy[s] = NoValue
      BY <2>1, DirectoryFields DEF Init, Complete
    <2>2. CASE Legacy[s] # NoValue
      <3>1. s \in LegacySlots
        BY <2>2 DEF LegacySlots
      <3>2. dirs[s] = [present |-> TRUE, rec |-> [art |-> Legacy[s], full |-> FALSE],
                       pay |-> FirstPayload(s), used |-> 0]
        BY <2>2 DEF Init
      <3>3. dirs[s].pay.art = Legacy[s] /\ dirs[s].rec.art = Legacy[s] /\ dirs[s].present = TRUE
        BY <3>2 DEF FirstPayload
      <3> QED BY <3>1, <3>3 DEF Init
    <2> QED BY <2>1, <2>2
  <1> QED BY <1>1, <1>4, <1>5 DEF SafeInv

\* Every step keeps the invariant.
LEMMA NextSafe == SafeInv /\ [Next]_vars => SafeInv'
  <1> SUFFICES ASSUME SafeInv, [Next]_vars PROVE SafeInv'
    OBVIOUS
  <1>1. CASE Next
    <2>1. TypeOK'
      BY <1>1, TypeStep DEF SafeInv
    <2> QED BY <1>1, <2>1, PositionsStep, ContentsStep, PublicationsStep, ExclusionStep, LookupStep
            DEF SafeInv
  <1>2. CASE UNCHANGED vars
    BY <1>2 DEF vars, SafeInv, TypeOK, Positions, Contents, Publications, Exclusion,
                LoadReturnsWhatWasStored, RootOf, ScopeSlots, InScope, Scope, Domain,
                Complete, HoldsShared, HoldsExclusive
  <1> QED BY <1>1, <1>2

\* The inductive invariant: where processes stand, what directories hold, what is
\* being published, who holds the lock, and what lookups have answered.
THEOREM Invariant == Spec => []SafeInv
  BY InitSafe, NextSafe, PTL DEF Spec

\* Every reachable state of the tree and of the processes is well typed.
THEOREM TypeCorrect == Spec => []TypeOK
  <1>1. SafeInv => TypeOK
    BY DEF SafeInv
  <1> QED BY <1>1, Invariant, PTL

\* load() answers with an artifact that was handed to store() for that slot, for
\* any processes, roots, scopes of the lock and faults, evictions cut short included.
THEOREM LoadsWhatWasStored == Spec => []LoadReturnsWhatWasStored
  <1>1. SafeInv => LoadReturnsWhatWasStored
    BY DEF SafeInv
  <1> QED BY <1>1, Invariant, PTL

\* Wherever processes are killed, a publication leaves no directory that a
\* reader can reach and that lacks a file: such a directory is being removed,
\* or its remover died, or an unlink failed, in the middle of the eviction.
THEOREM OnlyEvictionsLeaveWrecks == Spec => WrecksComeFromEvictions
  <1>1. SafeInv /\ [Next]_vars =>
          [\A s \in Slots : Wreck(s)' /\ ~Wreck(s) =>
              \E p \in Procs : /\ l[p].pc = "remove" /\ l[p].victim = s
                               /\ l'[p].res = "cut"]_vars
    BY WreckStep DEF SafeInv
  <1> QED BY <1>1, Invariant, PTL DEF Spec, WrecksComeFromEvictions

-----------------------------------------------------------------------------
(***************************************************************************)
(* What the compiled-artifact cache promises where every process that      *)
(* works in a directory locks the same file for it (SharedScope): it       *)
(* implements LossyCache, concurrent admissions succeed, and a successful  *)
(* store leaves its scope within the limits, for every number of           *)
(* processes, roots, keys and artifacts and every limit.  SharedScope      *)
(* leaves out processes with and without a storage root in one tree: they  *)
(* lock different files, and neither promise is made to them.              *)
(*                                                                         *)
(* The inductive invariant says what a process may rely on between two     *)
(* steps under its lock: a reader's record is still there (Loading), a     *)
(* pruner's list is what entries() would still return (Planned), and a     *)
(* publisher's slot is free and its pending directory not reaped (Clear).  *)
(* All rest on the same fact (QuietSlots, QuietRecord, QuietScope): a step *)
(* writes only in the scope of the lock its process holds (WriteStep), so  *)
(* it cannot write where another process holds that lock.                  *)
(***************************************************************************)
\* Every process that works in a directory locks the same file for it.
SharedScope == \A e \in Environments : \A p, q \in Procs : e[p].scope = e[q].scope

\* A reader between its two reads: the record it read is still there.
Loading ==
    \A p \in Procs : l[p].pc = "load_payload" =>
        l[p].rec # NoValue /\ dirs[l[p].slot].rec = l[p].rec

\* A writer that prunes works on the entries that are there.
Planned ==
    \A p \in Procs :
        /\ l[p].pc = "prune" => l[p].plan = Entries(p)
        /\ l[p].pc = "remove" =>
             /\ l[p].plan = {e \in Entries(p) : e.slot # l[p].victim}
             /\ dirs[l[p].victim].present

\* A process at work has no result yet.
Fresh == \A p \in Procs : l[p].pc # "idle" => l[p].res = "none"

\* A writer that publishes has a pending directory, and its slot is free.
Clear ==
    \A p \in Procs :
        /\ l[p].pc \in Publishing => ~dirs[l[p].slot].present
        /\ l[p].pc \in Publishing \ {"create"} => pend[p].present

\* What was offered for a slot is a compilation of its key.
Offers == \A o \in offered : o[2] \in Builds[o[1][2]]

-----------------------------------------------------------------------------
(* One step, seen by the process that takes it *)

\* A step that only names the next stage keeps the other locals.
LEMMA GotoFields ==
  ASSUME TypeOK, NEW p \in Procs, NEW pc, Goto(p, pc)
  PROVE  /\ l'[p].pc = pc /\ l'[p].res = l[p].res /\ l'[p].slot = l[p].slot
         /\ l'[p].art = l[p].art /\ l'[p].plan = l[p].plan /\ l'[p].rec = l[p].rec
  <1>1. l'[p] = [l[p] EXCEPT !.pc = pc]
    BY DEF Goto, TypeOK
  <1>2. l[p] \in Locals
    BY DEF TypeOK
  <1> QED BY <1>1, <1>2 DEF Locals

\* The same of the way back to a scan.
LEMMA NextFields ==
  ASSUME TypeOK, NEW p \in Procs, NEW n, l' = [l EXCEPT ![p].pc = "scan", ![p].next = n]
  PROVE  l'[p].pc = "scan" /\ l'[p].res = l[p].res
  <1>1. l'[p] = [l[p] EXCEPT !.pc = "scan", !.next = n]
    BY DEF TypeOK
  <1>2. l[p] \in Locals
    BY DEF TypeOK
  <1> QED BY <1>1, <1>2 DEF Locals

\* A miss ends the lookup or turns it into a store.
LEMMA MissedFields ==
  ASSUME TypeOK, NEW p \in Procs, Missed(p)
  PROVE  \/ l'[p].pc = "idle" /\ l'[p].res = "miss"
         \/ l'[p].pc = "store_lock" /\ l'[p].res = l[p].res
  <1>1. CASE Return(p, "miss")
    BY <1>1, ReturnPc
  <1>2. CASE \E a \in Builds[l[p].slot[2]] : l' = [l EXCEPT ![p].pc = "store_lock", ![p].art = a]
    <2>1. PICK a : l' = [l EXCEPT ![p].pc = "store_lock", ![p].art = a]
      BY <1>2
    <2>2. l'[p] = [l[p] EXCEPT !.pc = "store_lock", !.art = a] /\ l[p] \in Locals
      BY <2>1 DEF TypeOK
    <2> QED BY <2>2 DEF Locals
  <1> QED BY <1>1, <1>2 DEF Missed

\* The verdict on an entry is one of four.
LEMMA Verdicts ==
  ASSUME NEW rec, NEW pay
  PROVE  Validate(rec, pay) \in {"miss", "cache_corrupt", "cache_stale", "hit"}
  <1>1. CASE rec = NoValue
    BY <1>1 DEF Validate
  <1>2. CASE rec # NoValue /\ pay = NoValue
    BY <1>2 DEF Validate
  <1>3. CASE rec # NoValue /\ pay # NoValue
    BY <1>3 DEF Validate
  <1> QED BY <1>1, <1>2, <1>3

\* Which actions lead to the stages and results that matter below.
Enters(p) ==
    LET b == l'[p]
    IN  /\ b.pc = "load_payload" => LoadRecord(p)
        /\ b.pc = "prune" => Scan(p) \/ RemoveDirectory(p)
        /\ b.pc = "remove" => PruneEvict(p) \/ RemoveFile(p)
        /\ b.pc = "create" => Check(p)
        /\ b.pc = "payload" => CreatePending(p)
        /\ b.pc = "record" => WritePayload(p)
        /\ b.pc = "rename" => WriteRecord(p)
        /\ b.pc # "idle" => b.res = "none" \/ (l[p].pc # "idle" /\ b.res = l[p].res)
        /\ b.res = "stored" => PruneDone(p) \/ l[p].res = "stored"
        /\ b.res \in Failures =>
             \/ LoadPayload(p) \/ RemoveDirectory(p) \/ Check(p) \/ Rename(p)
             \/ b.res = l[p].res

\* These are the only ways to get there.
LEMMA EntersStep ==
  ASSUME TypeOK, NEW p \in Procs, ProcessStep(p)
  PROVE  Enters(p)
  <1>1. ASSUME NEW k \in Keys, NEW op \in {"load", "admit"}, BeginLoad(p, op, k)
        PROVE  Enters(p)
    <2>1. l'[p].pc = "load_lock" /\ l'[p].res = "none"
      BY <1>1, IdleFields DEF BeginLoad, TypeOK
    <2> QED BY <2>1 DEF Enters, Failures
  <1>2. ASSUME NEW k \in Keys, NEW a \in Builds[k], BeginStore(p, k, a)
        PROVE  Enters(p)
    <2>1. l'[p].pc = "store_lock" /\ l'[p].res = "none"
      BY <1>2, IdleFields DEF BeginStore, TypeOK
    <2> QED BY <2>1 DEF Enters, Failures
  <1>3. ASSUME LoadNoRoot(p)
        PROVE  Enters(p)
    BY <1>3, MissedFields DEF LoadNoRoot, Enters, Failures
  <1>4. ASSUME LoadLock(p)
        PROVE  Enters(p)
    <2>1. l'[p].pc = "load_record" /\ l'[p].res = l[p].res /\ l[p].pc # "idle"
      BY <1>4, GotoFields DEF LoadLock
    <2> QED BY <1>4, <2>1 DEF Enters, Failures
  <1>5. ASSUME LoadRecord(p)
        PROVE  Enters(p)
    <2>1. CASE Missed(p)
      BY <1>5, <2>1, MissedFields DEF LoadRecord, Enters, Failures
    <2>2. CASE l' = [l EXCEPT ![p].pc = "load_payload", ![p].rec = dirs[l[p].slot].rec]
      <3>1. l'[p] = [l[p] EXCEPT !.pc = "load_payload", !.rec = dirs[l[p].slot].rec] /\ l[p] \in Locals
        BY <2>2 DEF TypeOK
      <3>2. l'[p].pc = "load_payload" /\ l'[p].res = l[p].res /\ l[p].pc # "idle"
        BY <1>5, <3>1 DEF LoadRecord, Locals
      <3> QED BY <1>5, <3>2 DEF Enters, Failures
    <2> QED BY <1>5, <2>1, <2>2 DEF LoadRecord
  <1>6. ASSUME LoadPayload(p)
        PROVE  Enters(p)
    <2>1. \E r \in {"miss", "cache_corrupt", "cache_stale", "hit"} : Return(p, r)
      BY <1>6, Verdicts DEF LoadPayload
    <2>2. l'[p].pc = "idle" /\ l'[p].res # "stored"
      BY <2>1, ReturnPc
    <2> QED BY <1>6, <2>2 DEF Enters, Failures
  <1>7. ASSUME StoreLock(p)
        PROVE  Enters(p)
    <2>1. l'[p].pc = "reap" /\ l'[p].res = l[p].res /\ l[p].pc # "idle"
      BY <1>7, GotoFields DEF StoreLock
    <2> QED BY <1>7, <2>1 DEF Enters, Failures
  <1>8. ASSUME Reap(p)
        PROVE  Enters(p)
    <2>1. l[p].pc = "reap" /\ l'[p].res = l[p].res /\ l'[p].pc \in {"reap", "scan"}
      BY <1>8, NextFields DEF Reap
    <2> QED BY <2>1 DEF Enters, Failures
  <1>9. ASSUME Scan(p)
        PROVE  Enters(p)
    <2>1. l[p].pc = "scan" /\ l' = [l EXCEPT ![p].pc = "prune", ![p].plan = Entries(p)]
      BY <1>9 DEF Scan
    <2>2. l'[p] = [l[p] EXCEPT !.pc = "prune", !.plan = Entries(p)] /\ l[p] \in Locals
      BY <2>1 DEF TypeOK
    <2>3. l'[p].res = l[p].res /\ l'[p].pc = "prune"
      BY <2>2 DEF Locals
    <2> QED BY <1>9, <2>1, <2>3 DEF Enters, Failures
  <1>10. ASSUME PruneDone(p)
        PROVE  Enters(p)
    <2>0. l[p].pc = "prune" /\ l[p] \in Locals
      BY <1>10 DEF PruneDone, TypeOK
    <2>1. CASE l' = [l EXCEPT ![p].pc = "check", ![p].plan = {}]
      <3>1. l'[p] = [l[p] EXCEPT !.pc = "check", !.plan = {}]
        BY <2>1 DEF TypeOK
      <3>2. l'[p].pc = "check" /\ l'[p].res = l[p].res
        BY <2>0, <3>1 DEF Locals
      <3> QED BY <2>0, <3>2 DEF Enters, Failures
    <2>2. CASE Return(p, "stored")
      BY <1>10, <2>2, ReturnPc DEF Enters, Failures
    <2> QED BY <1>10, <2>1, <2>2 DEF PruneDone
  <1>11. ASSUME PruneEvict(p)
        PROVE  Enters(p)
    <2>1. PICK e \in l[p].plan : l' = [l EXCEPT ![p].pc = "remove", ![p].victim = e.slot,
                                              ![p].plan = l[p].plan \ {e}]
      BY <1>11 DEF PruneEvict
    <2>2. /\ l'[p] = [l[p] EXCEPT !.pc = "remove", !.victim = e.slot, !.plan = l[p].plan \ {e}]
          /\ l[p] \in Locals /\ l[p].pc = "prune"
      BY <1>11, <2>1 DEF PruneEvict, TypeOK
    <2>3. l'[p].res = l[p].res /\ l'[p].pc = "remove"
      BY <2>2 DEF Locals
    <2> QED BY <1>11, <2>2, <2>3 DEF Enters, Failures
  <1>12. ASSUME RemoveFile(p)
        PROVE  Enters(p)
    <2>1. l' = l /\ l[p].pc = "remove"
      BY <1>12 DEF RemoveFile
    <2> QED BY <1>12, <2>1 DEF Enters, Failures
  <1>13. ASSUME RemoveDirectory(p)
        PROVE  Enters(p)
    <2>0. l[p].pc = "remove" /\ l[p] \in Locals
      BY <1>13 DEF RemoveDirectory, TypeOK
    <2>1. CASE l' = [l EXCEPT ![p].pc = "prune", ![p].victim = NoValue]
      <3>1. l'[p] = [l[p] EXCEPT !.pc = "prune", !.victim = NoValue]
        BY <2>1 DEF TypeOK
      <3>2. l'[p].pc = "prune" /\ l'[p].res = l[p].res
        BY <2>0, <3>1 DEF Locals
      <3> QED BY <1>13, <2>0, <3>2 DEF Enters, Failures
    <2>2. CASE Return(p, "cache_unavailable")
      BY <1>13, <2>2, ReturnPc DEF Enters, Failures
    <2> QED BY <1>13, <2>1, <2>2 DEF RemoveDirectory
  <1>14. ASSUME Check(p)
        PROVE  Enters(p)
    <2>0. l[p].pc = "check"
      BY <1>14 DEF Check
    <2>1. \/ \E r \in {"uncached", "miss", "cache_corrupt", "cache_stale", "hit", "cache_conflict"} : Return(p, r)
          \/ Goto(p, "create")
          \/ l' = [l EXCEPT ![p].pc = "scan", ![p].next = "done"]
      BY <1>14, Verdicts DEF Check
    <2>2. CASE \E r \in {"uncached", "miss", "cache_corrupt", "cache_stale", "hit", "cache_conflict"} : Return(p, r)
      <3>1. l'[p].pc = "idle" /\ l'[p].res # "stored"
        BY <2>2, ReturnPc
      <3> QED BY <1>14, <3>1 DEF Enters, Failures
    <2>3. CASE Goto(p, "create")
      BY <1>14, <2>0, <2>3, GotoFields DEF Enters, Failures
    <2>4. CASE l' = [l EXCEPT ![p].pc = "scan", ![p].next = "done"]
      BY <1>14, <2>0, <2>4, NextFields DEF Enters, Failures
    <2> QED BY <2>1, <2>2, <2>3, <2>4
  <1>15. ASSUME CreatePending(p)
        PROVE  Enters(p)
    <2>1. l'[p].pc = "payload" /\ l'[p].res = l[p].res /\ l[p].pc # "idle"
      BY <1>15, GotoFields DEF CreatePending
    <2> QED BY <1>15, <2>1 DEF Enters, Failures
  <1>16. ASSUME WritePayload(p)
        PROVE  Enters(p)
    <2>1. l'[p].pc = "record" /\ l'[p].res = l[p].res /\ l[p].pc # "idle"
      BY <1>16, GotoFields DEF WritePayload
    <2> QED BY <1>16, <2>1 DEF Enters, Failures
  <1>17. ASSUME WriteRecord(p)
        PROVE  Enters(p)
    <2>1. l'[p].pc = "rename" /\ l'[p].res = l[p].res /\ l[p].pc # "idle"
      BY <1>17, GotoFields DEF WriteRecord
    <2> QED BY <1>17, <2>1 DEF Enters, Failures
  <1>18. ASSUME Rename(p)
        PROVE  Enters(p)
    <2>0. l[p].pc = "rename"
      BY <1>18 DEF Rename
    <2>1. CASE Return(p, "cache_unavailable")
      BY <1>18, <2>1, ReturnPc DEF Enters, Failures
    <2>2. CASE l' = [l EXCEPT ![p].pc = "scan", ![p].next = "done"]
      BY <1>18, <2>0, <2>2, NextFields DEF Enters, Failures
    <2> QED BY <1>18, <2>1, <2>2 DEF Rename
  <1>19. ASSUME Kill(p)
        PROVE  Enters(p)
    <2>1. l'[p].pc = "idle" /\ l'[p].res = "cut"
      BY <1>19, ReturnPc DEF Kill
    <2> QED BY <2>1 DEF Enters, Failures
  <1>20. ASSUME IoError(p)
        PROVE  Enters(p)
    <2>1. l'[p].pc = "idle" /\ l'[p].res = "cut"
      BY <1>20, ReturnPc DEF IoError
    <2> QED BY <2>1 DEF Enters, Failures
  <1> QED
    BY <1>1, <1>2, <1>3, <1>4, <1>5, <1>6, <1>7, <1>8, <1>9, <1>10, <1>11, <1>12, <1>13, <1>14, <1>15, <1>16, <1>17, <1>18, <1>19, <1>20 DEF ProcessStep, Step

-----------------------------------------------------------------------------
(* What the lock protects *)

\* A directory in the scope of two processes is guarded by one lock file.
LEMMA SameDomain ==
  ASSUME SharedScope, TypeOK, NEW p \in Procs, NEW q \in Procs, NEW r,
         r \in InScope(p), r = RootOf(q) \/ r \in InScope(q)
  PROVE  Domain(p) = Domain(q)
  <1>1. Scope(p) = Scope(q)
    BY DEF SharedScope, TypeOK, Scope
  <1> QED BY <1>1 DEF Domain, InScope

\* A step writes at most one slot, in the scope of the lock its process holds,
\* and a reader only refreshes the time of use.
Writes(p) ==
    \E s \in ScopeSlots(p) :
        /\ \A t \in Slots \ {s} : dirs'[t] = dirs[t]
        /\ \/ HoldsExclusive(p)
           \/ HoldsShared(p) /\ dirs'[s].rec = dirs[s].rec

\* Every change of the tree is such a write.
LEMMA WriteStep ==
  ASSUME TypeOK, Positions, NEW p \in Procs, ProcessStep(p)
  PROVE  UNCHANGED dirs \/ Writes(p)
  <1> USE DEF TypeOK
  <1>1. Placed(p)
    BY PositionsArePlaces
  <1>2. ASSUME l[p].pc \in LoadLocked \cup StoreLocked PROVE l[p].slot \in ScopeSlots(p)
    <2>1. l[p].slot \in Slots /\ l[p].slot[1] = RootOf(p) /\ RootOf(p) \in made
      BY <1>1, <1>2 DEF Placed, LoadLocked, StoreLocked
    <2> QED BY <2>1 DEF ScopeSlots, InScope
  <1>3. CASE Touches(p)
    <2>1. l[p].pc \in LoadLocked \cup StoreLocked /\ dirs' = [dirs EXCEPT ![l[p].slot].used = now]
      BY <1>3 DEF Touches, LoadLocked, StoreLocked
    <2>2. l[p].slot \in ScopeSlots(p) /\ l[p].slot \in Slots
      BY <1>2, <2>1 DEF ScopeSlots
    <2>3. dirs'[l[p].slot].rec = dirs[l[p].slot].rec
      BY <2>1, <2>2, DirectoryFields
    <2>4. \A t \in Slots \ {l[p].slot} : dirs'[t] = dirs[t]
      BY <2>1
    <2>5. HoldsExclusive(p) \/ HoldsShared(p)
      BY <2>1 DEF HoldsExclusive, HoldsShared
    <2> QED BY <2>2, <2>3, <2>4, <2>5 DEF Writes
  <1>4. CASE Removes(p) \/ Clears(p)
    <2>1. l[p].pc = "remove" /\ l[p].victim \in ScopeSlots(p)
      BY <1>1, <1>4 DEF Removes, Clears, Placed
    <2>2. \A t \in Slots \ {l[p].victim} : dirs'[t] = dirs[t]
      BY <1>4 DEF Removes, Clears
    <2>3. HoldsExclusive(p)
      BY <2>1 DEF HoldsExclusive, StoreLocked
    <2> QED BY <2>1, <2>2, <2>3 DEF Writes
  <1>5. CASE Publishes(p)
    <2>1. l[p].pc = "rename"
      BY <1>5 DEF Publishes
    <2>2. l[p].slot \in ScopeSlots(p) /\ HoldsExclusive(p)
      BY <1>2, <2>1 DEF HoldsExclusive, StoreLocked
    <2>3. \A t \in Slots \ {l[p].slot} : dirs'[t] = dirs[t]
      BY <1>5 DEF Publishes
    <2> QED BY <2>2, <2>3 DEF Writes
  <1> QED BY <1>3, <1>4, <1>5, ChangeStep DEF Changes

\* While a process holds the lock, the others leave the slots in its scope alone.
LEMMA QuietSlots ==
  ASSUME SharedScope, TypeOK, Positions, Exclusion, NEW p \in Procs, ProcessStep(p),
         NEW q \in Procs \ {p}, HoldsExclusive(q), NEW s \in ScopeSlots(q)
  PROVE  dirs'[s] = dirs[s]
  <1>1. CASE Writes(p)
    <2>1. PICK t \in ScopeSlots(p) :
            /\ \A u \in Slots \ {t} : dirs'[u] = dirs[u]
            /\ HoldsExclusive(p) \/ HoldsShared(p)
      BY <1>1 DEF Writes
    <2>2. ASSUME t = s PROVE FALSE
      <3>1. s[1] \in InScope(p) /\ s[1] \in InScope(q)
        BY <2>2 DEF ScopeSlots
      <3>2. Domain(p) = Domain(q)
        BY <3>1, SameDomain
      <3> QED BY <2>1, <3>2 DEF Exclusion
    <2> QED BY <2>1, <2>2 DEF ScopeSlots
  <1> QED BY <1>1, WriteStep

\* While a process holds the lock shared, the records in its root stay.
LEMMA QuietRecord ==
  ASSUME SharedScope, TypeOK, Positions, Exclusion, NEW p \in Procs, ProcessStep(p),
         NEW q \in Procs \ {p}, HoldsShared(q), NEW s \in Slots, s[1] = RootOf(q)
  PROVE  dirs'[s].rec = dirs[s].rec
  <1>1. CASE Writes(p)
    <2>1. PICK t \in ScopeSlots(p) :
            /\ \A u \in Slots \ {t} : dirs'[u] = dirs[u]
            /\ HoldsExclusive(p) \/ (HoldsShared(p) /\ dirs'[t].rec = dirs[t].rec)
      BY <1>1 DEF Writes
    <2>2. CASE t = s
      <3>1. s[1] \in InScope(p)
        BY <2>2 DEF ScopeSlots
      <3>2. Domain(p) = Domain(q)
        BY <3>1, SameDomain
      <3> QED BY <2>1, <2>2, <3>2 DEF Exclusion
    <2> QED BY <2>1, <2>2
  <1> QED BY <1>1, WriteStep

\* A root is made under the exclusive lock.
LEMMA MadeStep ==
  ASSUME NEW p \in Procs, ProcessStep(p)
  PROVE  UNCHANGED made \/ StoreLock(p)
  <1> USE DEF files, history
  <1>1. ASSUME NEW k \in Keys, NEW op \in {"load", "admit"}, BeginLoad(p, op, k)
        PROVE  UNCHANGED made \/ StoreLock(p)
    BY <1>1 DEF BeginLoad
  <1>2. ASSUME NEW k \in Keys, NEW a \in Builds[k], BeginStore(p, k, a)
        PROVE  UNCHANGED made \/ StoreLock(p)
    BY <1>2 DEF BeginStore
  <1>3. ASSUME LoadNoRoot(p)
        PROVE  UNCHANGED made \/ StoreLock(p)
    BY <1>3 DEF LoadNoRoot
  <1>4. ASSUME LoadLock(p)
        PROVE  UNCHANGED made \/ StoreLock(p)
    BY <1>4 DEF LoadLock
  <1>5. ASSUME LoadRecord(p)
        PROVE  UNCHANGED made \/ StoreLock(p)
    BY <1>5 DEF LoadRecord
  <1>6. ASSUME LoadPayload(p)
        PROVE  UNCHANGED made \/ StoreLock(p)
    BY <1>6 DEF LoadPayload
  <1>7. ASSUME StoreLock(p)
        PROVE  UNCHANGED made \/ StoreLock(p)
    BY <1>7
  <1>8. ASSUME Reap(p)
        PROVE  UNCHANGED made \/ StoreLock(p)
    BY <1>8 DEF Reap
  <1>9. ASSUME Scan(p)
        PROVE  UNCHANGED made \/ StoreLock(p)
    BY <1>9 DEF Scan
  <1>10. ASSUME PruneDone(p)
        PROVE  UNCHANGED made \/ StoreLock(p)
    BY <1>10 DEF PruneDone
  <1>11. ASSUME PruneEvict(p)
        PROVE  UNCHANGED made \/ StoreLock(p)
    BY <1>11 DEF PruneEvict
  <1>12. ASSUME RemoveFile(p)
        PROVE  UNCHANGED made \/ StoreLock(p)
    BY <1>12 DEF RemoveFile
  <1>13. ASSUME RemoveDirectory(p)
        PROVE  UNCHANGED made \/ StoreLock(p)
    BY <1>13 DEF RemoveDirectory
  <1>14. ASSUME Check(p)
        PROVE  UNCHANGED made \/ StoreLock(p)
    BY <1>14 DEF Check
  <1>15. ASSUME CreatePending(p)
        PROVE  UNCHANGED made \/ StoreLock(p)
    BY <1>15 DEF CreatePending
  <1>16. ASSUME WritePayload(p)
        PROVE  UNCHANGED made \/ StoreLock(p)
    BY <1>16 DEF WritePayload
  <1>17. ASSUME WriteRecord(p)
        PROVE  UNCHANGED made \/ StoreLock(p)
    BY <1>17 DEF WriteRecord
  <1>18. ASSUME Rename(p)
        PROVE  UNCHANGED made \/ StoreLock(p)
    BY <1>18 DEF Rename
  <1>19. ASSUME Kill(p)
        PROVE  UNCHANGED made \/ StoreLock(p)
    BY <1>19 DEF Kill
  <1>20. ASSUME IoError(p)
        PROVE  UNCHANGED made \/ StoreLock(p)
    BY <1>20 DEF IoError
  <1> QED
    BY <1>1, <1>2, <1>3, <1>4, <1>5, <1>6, <1>7, <1>8, <1>9, <1>10, <1>11, <1>12, <1>13, <1>14, <1>15, <1>16, <1>17, <1>18, <1>19, <1>20 DEF ProcessStep, Step

\* Only a reaper removes the pending directory of another process.
LEMMA ReapStep ==
  ASSUME TypeOK, NEW p \in Procs, ProcessStep(p), NEW q \in Procs \ {p}
  PROVE  pend'[q] = pend[q] \/ (Reap(p) /\ RootOf(q) \in InScope(p))
  <1> DEFINE G == pend'[q] = pend[q] \/ (Reap(p) /\ RootOf(q) \in InScope(p))
  <1> USE DEF TypeOK, files, history
  <1>1. ASSUME NEW k \in Keys, NEW op \in {"load", "admit"}, BeginLoad(p, op, k)
        PROVE  G
    BY <1>1 DEF BeginLoad
  <1>2. ASSUME NEW k \in Keys, NEW a \in Builds[k], BeginStore(p, k, a)
        PROVE  G
    BY <1>2 DEF BeginStore
  <1>3. ASSUME LoadNoRoot(p)
        PROVE  G
    BY <1>3 DEF LoadNoRoot
  <1>4. ASSUME LoadLock(p)
        PROVE  G
    BY <1>4 DEF LoadLock
  <1>5. ASSUME LoadRecord(p)
        PROVE  G
    BY <1>5 DEF LoadRecord
  <1>6. ASSUME LoadPayload(p)
        PROVE  G
    BY <1>6 DEF LoadPayload
  <1>7. ASSUME StoreLock(p)
        PROVE  G
    BY <1>7 DEF StoreLock
  <1>8. ASSUME Reap(p)
        PROVE  G
    <2>1. CASE UNCHANGED pend
      BY <2>1
    <2>2. CASE \E r \in Abandoned(p) : pend' = [pend EXCEPT ![r] = Absent]
      <3>1. PICK r \in Abandoned(p) : pend' = [pend EXCEPT ![r] = Absent]
        BY <2>2
      <3>2. CASE r = q
        BY <1>8, <3>1, <3>2 DEF Abandoned
      <3>3. CASE r # q
        BY <3>1, <3>3
      <3> QED BY <3>2, <3>3
    <2> QED BY <1>8, <2>1, <2>2 DEF Reap
  <1>9. ASSUME Scan(p)
        PROVE  G
    BY <1>9 DEF Scan
  <1>10. ASSUME PruneDone(p)
        PROVE  G
    BY <1>10 DEF PruneDone
  <1>11. ASSUME PruneEvict(p)
        PROVE  G
    BY <1>11 DEF PruneEvict
  <1>12. ASSUME RemoveFile(p)
        PROVE  G
    BY <1>12 DEF RemoveFile
  <1>13. ASSUME RemoveDirectory(p)
        PROVE  G
    BY <1>13 DEF RemoveDirectory
  <1>14. ASSUME Check(p)
        PROVE  G
    BY <1>14 DEF Check
  <1>15. ASSUME CreatePending(p)
        PROVE  G
    BY <1>15 DEF CreatePending
  <1>16. ASSUME WritePayload(p)
        PROVE  G
    BY <1>16 DEF WritePayload
  <1>17. ASSUME WriteRecord(p)
        PROVE  G
    BY <1>17 DEF WriteRecord
  <1>18. ASSUME Rename(p)
        PROVE  G
    BY <1>18 DEF Rename
  <1>19. ASSUME Kill(p)
        PROVE  G
    BY <1>19 DEF Kill
  <1>20. ASSUME IoError(p)
        PROVE  G
    BY <1>20 DEF IoError
  <1> QED
    BY <1>1, <1>2, <1>3, <1>4, <1>5, <1>6, <1>7, <1>8, <1>9, <1>10, <1>11, <1>12, <1>13, <1>14, <1>15, <1>16, <1>17, <1>18, <1>19, <1>20 DEF ProcessStep, Step

\* While a process holds the lock its scope and its pending directory stay, too.
LEMMA QuietScope ==
  ASSUME SharedScope, TypeOK, Positions, Exclusion, UNCHANGED env,
         NEW p \in Procs, ProcessStep(p), NEW q \in Procs \ {p}, HoldsExclusive(q)
  PROVE  ScopeSlots(q)' = ScopeSlots(q) /\ pend'[q] = pend[q]
  <1>1. CASE StoreLock(p)
    <2>1. Domain(p) # Domain(q)
      BY <1>1 DEF StoreLock, ExclusiveFree
    <2>2. Scope(p) = Scope(q)
      BY DEF SharedScope, TypeOK, Scope
    <2>3. Scope(q) # "storage"
      BY <2>1, <2>2 DEF Domain
    <2> QED BY <1>1, <2>3 DEF StoreLock, ScopeSlots, InScope, Scope, RootOf
  <1>2. CASE UNCHANGED made
    <2>1. ScopeSlots(q)' = ScopeSlots(q)
      BY <1>2 DEF ScopeSlots, InScope, Scope, RootOf
    <2>2. ASSUME Reap(p), RootOf(q) \in InScope(p) PROVE FALSE
      <3>1. Domain(p) = Domain(q)
        BY <2>2, SameDomain
      <3>2. HoldsExclusive(p)
        BY <2>2 DEF Reap, HoldsExclusive, StoreLocked
      <3> QED BY <3>1, <3>2 DEF Exclusion
    <2> QED BY <2>1, <2>2, ReapStep
  <1> QED
    <2>1. StoreLock(p) => UNCHANGED pend
      BY DEF StoreLock
    <2> QED BY <1>1, <1>2, <2>1, MadeStep

\* entries() depends on the slots of the scope only; without one of them it
\* lists what it did before.
LEMMA EntriesSame ==
  ASSUME NEW p \in Procs, NEW v, ScopeSlots(p)' = ScopeSlots(p),
         \A s \in ScopeSlots(p) \ {v} : dirs'[s] = dirs[s]
  PROVE  {e \in Entries(p)' : e.slot # v} = {e \in Entries(p) : e.slot # v}
  BY DEF Entries

\* With the scope and its slots the list of entries stays.
LEMMA EntriesKept ==
  ASSUME NEW p \in Procs, ScopeSlots(p)' = ScopeSlots(p),
         \A s \in ScopeSlots(p) : dirs'[s] = dirs[s]
  PROVE  Entries(p)' = Entries(p)
  BY DEF Entries

\* An entry is determined by its slot.
LEMMA EntryOfSlot ==
  ASSUME NEW p \in Procs, NEW e \in Entries(p)
  PROVE  /\ Complete(dirs[e.slot])
         /\ \A f \in Entries(p) : f.slot = e.slot => f = e
  BY DEF Entries

-----------------------------------------------------------------------------
(* The invariant of processes that share the scope of their locks *)

\* A lookup keeps the record it has read until it has read the payload.
LEMMA LoadingStep ==
  ASSUME SharedScope, TypeOK, Positions, Exclusion, Loading, Next
  PROVE  Loading'
  <1> USE DEF TypeOK
  <1>1. ASSUME NEW p \in Procs, ProcessStep(p)
        PROVE  Loading'
    <2>1. ASSUME l'[p].pc = "load_payload"
          PROVE  l'[p].rec # NoValue /\ dirs'[l'[p].slot].rec = l'[p].rec
      <3>1. LoadRecord(p)
        BY <1>1, <2>1, EntersStep DEF Enters
      <3>2. ~Missed(p)
        BY <2>1, MissedFields
      <3>3. /\ dirs[l[p].slot].rec # NoValue /\ UNCHANGED dirs
            /\ l' = [l EXCEPT ![p].pc = "load_payload", ![p].rec = dirs[l[p].slot].rec]
        BY <3>1, <3>2 DEF LoadRecord, files
      <3>4. l'[p] = [l[p] EXCEPT !.pc = "load_payload", !.rec = dirs[l[p].slot].rec] /\ l[p] \in Locals
        BY <3>3
      <3>5. l'[p].rec = dirs[l[p].slot].rec /\ l'[p].slot = l[p].slot
        BY <3>4 DEF Locals
      <3> QED BY <3>3, <3>5
    <2>2. ASSUME NEW q \in Procs \ {p}, l'[q].pc = "load_payload"
          PROVE  l'[q].rec # NoValue /\ dirs'[l'[q].slot].rec = l'[q].rec
      <3>1. l'[q] = l[q]
        BY <1>1, FrameStep DEF Frame
      <3>2. l[q].slot \in Slots /\ l[q].slot[1] = RootOf(q) /\ HoldsShared(q)
        BY <2>2, <3>1 DEF Positions, HoldsShared, LoadLocked
      <3>3. dirs'[l[q].slot].rec = dirs[l[q].slot].rec
        BY <1>1, <3>2, QuietRecord
      <3> QED BY <2>2, <3>1, <3>3 DEF Loading
    <2> QED BY <2>1, <2>2 DEF Loading
  <1>2. CASE Tick
    BY <1>2 DEF Tick, files, Loading
  <1> QED BY <1>1, <1>2, NextSteps

\* An eviction works through the entries that are there.
LEMMA PlannedStep ==
  ASSUME SharedScope, TypeOK, Positions, Exclusion, Planned, Next
  PROVE  Planned'
  <1> USE DEF TypeOK
  <1>0. UNCHANGED env
    BY NextSteps
  <1>1. ASSUME NEW p \in Procs, ProcessStep(p)
        PROVE  Planned'
    <2> DEFINE Own == /\ l'[p].pc = "prune" => l'[p].plan = Entries(p)'
                      /\ l'[p].pc = "remove" =>
                           /\ l'[p].plan = {e \in Entries(p)' : e.slot # l'[p].victim}
                           /\ dirs'[l'[p].victim].present
    <2>1. ASSUME Scan(p) PROVE Own
      <3>1. /\ l' = [l EXCEPT ![p].pc = "prune", ![p].plan = Entries(p)]
            /\ UNCHANGED dirs /\ UNCHANGED made
        BY <2>1 DEF Scan, files
      <3>2. l'[p] = [l[p] EXCEPT !.pc = "prune", !.plan = Entries(p)] /\ l[p] \in Locals
        BY <3>1
      <3>3. l'[p].plan = Entries(p) /\ l'[p].pc = "prune"
        BY <3>2 DEF Locals
      <3>4. ScopeSlots(p)' = ScopeSlots(p)
        BY <1>0, <3>1 DEF ScopeSlots, InScope, Scope, RootOf
      <3>5. Entries(p)' = Entries(p)
        BY <3>1, <3>4, EntriesKept
      <3> QED BY <3>3, <3>5
    <2>2. ASSUME PruneEvict(p) PROVE Own
      <3>1. PICK e \in l[p].plan : l' = [l EXCEPT ![p].pc = "remove", ![p].victim = e.slot,
                                                ![p].plan = l[p].plan \ {e}]
        BY <2>2 DEF PruneEvict
      <3>2. l[p].plan = Entries(p) /\ UNCHANGED dirs /\ UNCHANGED made
        BY <2>2 DEF PruneEvict, Planned, files
      <3>3. /\ l'[p] = [l[p] EXCEPT !.pc = "remove", !.victim = e.slot, !.plan = l[p].plan \ {e}]
            /\ l[p] \in Locals
        BY <3>1
      <3>4. l'[p].pc = "remove" /\ l'[p].victim = e.slot /\ l'[p].plan = Entries(p) \ {e}
        BY <3>2, <3>3 DEF Locals
      <3>5. ScopeSlots(p)' = ScopeSlots(p)
        BY <1>0, <3>2 DEF ScopeSlots, InScope, Scope, RootOf
      <3>6. Entries(p)' = Entries(p)
        BY <3>2, <3>5, EntriesKept
      <3>7. Complete(dirs[e.slot]) /\ \A f \in Entries(p) : f.slot = e.slot => f = e
        BY <3>2, EntryOfSlot
      <3>8. dirs'[e.slot].present
        BY <3>2, <3>7 DEF Complete
      <3>9. Entries(p) \ {e} = {f \in Entries(p) : f.slot # e.slot}
        BY <3>7
      <3> QED BY <3>4, <3>6, <3>8, <3>9
    <2>3. ASSUME RemoveFile(p) PROVE Own
      <3> DEFINE v == l[p].victim
      <3>1. /\ l' = l /\ l[p].pc = "remove" /\ dirs[v].present /\ UNCHANGED made
            /\ \/ dirs[v].rec # NoValue /\ dirs' = [dirs EXCEPT ![v].rec = NoValue]
               \/ dirs[v].pay # NoValue /\ dirs' = [dirs EXCEPT ![v].pay = NoValue]
        BY <2>3 DEF RemoveFile
      <3>2. v \in ScopeSlots(p) /\ v \in Slots
        BY <3>1 DEF Positions, ScopeSlots
      <3>3. ScopeSlots(p)' = ScopeSlots(p)
        BY <1>0, <3>1 DEF ScopeSlots, InScope, Scope, RootOf
      <3>4. \A s \in ScopeSlots(p) \ {v} : dirs'[s] = dirs[s]
        BY <3>1 DEF ScopeSlots
      <3>5. dirs[v] \in Directory
        BY <3>2
      <3>6. \/ dirs'[v] = [dirs[v] EXCEPT !.rec = NoValue]
            \/ dirs'[v] = [dirs[v] EXCEPT !.pay = NoValue]
        BY <3>1, <3>2
      <3>7. dirs'[v].present
        <4>1. /\ [dirs[v] EXCEPT !.rec = NoValue].present = dirs[v].present
              /\ [dirs[v] EXCEPT !.pay = NoValue].present = dirs[v].present
          BY <3>5, DirectoryFields
        <4> QED BY <3>1, <3>6, <4>1
      <3>8. l[p].plan = {e \in Entries(p) : e.slot # v}
        BY <3>1 DEF Planned
      <3>9. {e \in Entries(p)' : e.slot # v} = {e \in Entries(p) : e.slot # v}
        BY <3>3, <3>4, EntriesSame
      <3> QED BY <3>1, <3>7, <3>8, <3>9
    <2>4. ASSUME RemoveDirectory(p) PROVE Own
      <3> DEFINE v == l[p].victim
      <3>1. l[p].pc = "remove" /\ dirs' = [dirs EXCEPT ![v] = Absent] /\ UNCHANGED made
        BY <2>4 DEF RemoveDirectory
      <3>2. dirs[v].present
        BY <3>1 DEF Planned
      <3>3. l' = [l EXCEPT ![p].pc = "prune", ![p].victim = NoValue]
        BY <2>4, <3>2 DEF RemoveDirectory
      <3>4. l'[p] = [l[p] EXCEPT !.pc = "prune", !.victim = NoValue] /\ l[p] \in Locals
        BY <3>3
      <3>5. l'[p].pc = "prune" /\ l'[p].plan = l[p].plan
        BY <3>4 DEF Locals
      <3>6. v \in ScopeSlots(p) /\ v \in Slots
        BY <3>1 DEF Positions, ScopeSlots
      <3>7. ScopeSlots(p)' = ScopeSlots(p)
        BY <1>0, <3>1 DEF ScopeSlots, InScope, Scope, RootOf
      <3>8. \A s \in ScopeSlots(p) \ {v} : dirs'[s] = dirs[s]
        BY <3>1 DEF ScopeSlots
      <3>9. ~Complete(dirs'[v])
        BY <3>1, <3>6, DirectoryFields DEF Complete
      <3>10. l[p].plan = {e \in Entries(p) : e.slot # v}
        BY <3>1 DEF Planned
      <3>11. {e \in Entries(p)' : e.slot # v} = {e \in Entries(p) : e.slot # v}
        BY <3>7, <3>8, EntriesSame
      <3>12. {e \in Entries(p)' : e.slot # v} = Entries(p)'
        BY <3>9 DEF Entries, Complete
      <3> QED BY <3>5, <3>10, <3>11, <3>12
    <2>5. Own
      <3>1. CASE l'[p].pc = "prune"
        BY <1>1, <2>1, <2>4, <3>1, EntersStep DEF Enters
      <3>2. CASE l'[p].pc = "remove"
        BY <1>1, <2>2, <2>3, <3>2, EntersStep DEF Enters
      <3> QED BY <3>1, <3>2
    <2>6. ASSUME NEW q \in Procs \ {p}
          PROVE  /\ l'[q].pc = "prune" => l'[q].plan = Entries(q)'
                 /\ l'[q].pc = "remove" =>
                      /\ l'[q].plan = {e \in Entries(q)' : e.slot # l'[q].victim}
                      /\ dirs'[l'[q].victim].present
      <3>1. l'[q] = l[q]
        BY <1>1, FrameStep DEF Frame
      <3>2. CASE l[q].pc \in {"prune", "remove"}
        <4>1. HoldsExclusive(q)
          BY <3>2 DEF HoldsExclusive, StoreLocked
        <4>2. ScopeSlots(q)' = ScopeSlots(q)
          BY <1>0, <1>1, <4>1, QuietScope
        <4>3. \A s \in ScopeSlots(q) : dirs'[s] = dirs[s]
          BY <1>1, <4>1, QuietSlots
        <4>4. Entries(q)' = Entries(q)
          BY <4>2, <4>3, EntriesKept
        <4>5. l[q].pc = "remove" => l[q].victim \in ScopeSlots(q)
          BY DEF Positions
        <4> QED BY <3>1, <4>3, <4>4, <4>5 DEF Planned
      <3> QED BY <3>1, <3>2
    <2> QED BY <2>5, <2>6 DEF Planned
  <1>2. CASE Tick
    BY <1>0, <1>2 DEF Tick, files, Planned, Entries, ScopeSlots, InScope, Scope, RootOf
  <1> QED BY <1>1, <1>2, NextSteps

\* No process carries the result of an earlier call into its work.
LEMMA FreshStep ==
  ASSUME TypeOK, Fresh, Next
  PROVE  Fresh'
  <1>1. ASSUME NEW p \in Procs, ProcessStep(p)
        PROVE  Fresh'
    <2>1. l'[p].pc # "idle" => l'[p].res = "none"
      BY <1>1, EntersStep DEF Enters, Fresh
    <2>2. \A q \in Procs \ {p} : l'[q] = l[q]
      BY <1>1, FrameStep DEF Frame
    <2> QED BY <2>1, <2>2 DEF Fresh
  <1>2. CASE Tick
    BY <1>2 DEF Tick, Fresh
  <1> QED BY <1>1, <1>2, NextSteps

\* A writer that has found its slot free keeps it free, and its pending
\* directory is not reaped, until it publishes.
LEMMA ClearStep ==
  ASSUME SharedScope, TypeOK, Positions, Exclusion, Clear, Next
  PROVE  Clear'
  <1> USE DEF TypeOK, Publishing
  <1>0. UNCHANGED env
    BY NextSteps
  <1>1. ASSUME NEW p \in Procs, ProcessStep(p)
        PROVE  Clear'
    <2>1. ASSUME l'[p].pc = "create" PROVE ~dirs'[l'[p].slot].present
      <3>1. Check(p)
        BY <1>1, <2>1, EntersStep DEF Enters
      <3>2. ~(\E r : Return(p, r)) /\ l' # [l EXCEPT ![p].pc = "scan", ![p].next = "done"]
        BY <2>1, ReturnPc, NextFields
      <3>3. ~dirs[l[p].slot].present /\ Goto(p, "create") /\ UNCHANGED dirs
        BY <3>1, <3>2 DEF Check
      <3>4. l'[p].slot = l[p].slot
        BY <3>3, GotoFields
      <3> QED BY <2>1, <3>3, <3>4
    <2>2. ASSUME l'[p].pc = "payload" PROVE ~dirs'[l'[p].slot].present /\ pend'[p].present
      <3>1. CreatePending(p)
        BY <1>1, <2>2, EntersStep DEF Enters
      <3>2. /\ l[p].pc = "create" /\ UNCHANGED dirs /\ Goto(p, "payload")
            /\ pend' = [pend EXCEPT ![p] = [Absent EXCEPT !.present = TRUE]]
        BY <3>1 DEF CreatePending
      <3>3. l'[p].slot = l[p].slot /\ pend'[p].present
        BY <3>2, GotoFields DEF Absent
      <3> QED BY <2>2, <3>2, <3>3 DEF Clear
    <2>3. ASSUME l'[p].pc = "record" PROVE ~dirs'[l'[p].slot].present /\ pend'[p].present
      <3>1. WritePayload(p)
        BY <1>1, <2>3, EntersStep DEF Enters
      <3>2. /\ l[p].pc = "payload" /\ UNCHANGED dirs /\ Goto(p, "record")
            /\ \E x : pend' = [pend EXCEPT ![p].pay = x]
        BY <3>1 DEF WritePayload
      <3>3. l'[p].slot = l[p].slot /\ pend'[p].present = pend[p].present
        BY <3>2, GotoFields, DirectoryFields
      <3> QED BY <2>3, <3>2, <3>3 DEF Clear
    <2>4. ASSUME l'[p].pc = "rename" PROVE ~dirs'[l'[p].slot].present /\ pend'[p].present
      <3>1. WriteRecord(p)
        BY <1>1, <2>4, EntersStep DEF Enters
      <3>2. /\ l[p].pc = "record" /\ UNCHANGED dirs /\ Goto(p, "rename")
            /\ pend' = [pend EXCEPT ![p].rec = [art |-> l[p].art, full |-> TRUE], ![p].used = now]
        BY <3>1 DEF WriteRecord
      <3>3. /\ pend'[p] = [pend[p] EXCEPT !.rec = [art |-> l[p].art, full |-> TRUE], !.used = now]
            /\ pend[p] \in Directory
        BY <3>2
      <3>4. l'[p].slot = l[p].slot /\ pend'[p].present = pend[p].present
        BY <3>2, <3>3, GotoFields DEF Directory
      <3> QED BY <2>4, <3>2, <3>4 DEF Clear
    <2>5. ASSUME NEW q \in Procs \ {p}, l'[q].pc \in Publishing
          PROVE  /\ ~dirs'[l'[q].slot].present
                 /\ l'[q].pc # "create" => pend'[q].present
      <3>1. l'[q] = l[q]
        BY <1>1, FrameStep DEF Frame
      <3>2. HoldsExclusive(q)
        BY <2>5, <3>1 DEF HoldsExclusive, StoreLocked
      <3>3. l[q].slot \in ScopeSlots(q)
        <4>1. l[q].slot \in Slots /\ l[q].slot[1] = RootOf(q) /\ RootOf(q) \in made
          BY <2>5, <3>1 DEF Positions, StoreLocked
        <4> QED BY <4>1 DEF ScopeSlots, InScope
      <3>4. dirs'[l[q].slot] = dirs[l[q].slot]
        BY <1>1, <3>2, <3>3, QuietSlots
      <3>5. pend'[q] = pend[q]
        BY <1>0, <1>1, <3>2, QuietScope
      <3> QED BY <2>5, <3>1, <3>4, <3>5 DEF Clear
    <2> QED BY <2>1, <2>2, <2>3, <2>4, <2>5 DEF Clear
  <1>2. CASE Tick
    BY <1>2 DEF Tick, files, Clear
  <1> QED BY <1>1, <1>2, NextSteps

\* What a step offers is a compilation of the key.
LEMMA OffersStep ==
  ASSUME TypeOK, Positions, Offers, Next
  PROVE  Offers'
  <1> USE DEF files, history
  <1>1. ASSUME NEW p \in Procs, ProcessStep(p)
        PROVE  Offers'
    <2>1. \/ UNCHANGED offered
          \/ \E k \in Keys : \E a \in Builds[k] : offered' = offered \cup {<<<<RootOf(p), k>>, a>>}
          \/ \E a \in Builds[l[p].slot[2]] : offered' = offered \cup {<<l[p].slot, a>>}
      <3> DEFINE G == \/ UNCHANGED offered
                      \/ \E k \in Keys : \E a \in Builds[k] :
                            offered' = offered \cup {<<<<RootOf(p), k>>, a>>}
                      \/ \E a \in Builds[l[p].slot[2]] : offered' = offered \cup {<<l[p].slot, a>>}
      <3>1. ASSUME NEW k \in Keys, NEW op \in {"load", "admit"}, BeginLoad(p, op, k) PROVE G
        BY <3>1 DEF BeginLoad
      <3>2. ASSUME NEW k \in Keys, NEW a \in Builds[k], BeginStore(p, k, a) PROVE G
        BY <3>2 DEF BeginStore
      <3>3. CASE LoadNoRoot(p)
        BY <3>3 DEF LoadNoRoot, Missed
      <3>4. CASE LoadRecord(p)
        BY <3>4 DEF LoadRecord, Missed
      <3>5. CASE Step(p) /\ ~LoadNoRoot(p) /\ ~LoadRecord(p)
        BY <3>5 DEF Step, LoadLock, LoadPayload, StoreLock, Reap, Scan, PruneDone, PruneEvict,
           RemoveFile, RemoveDirectory, Check, CreatePending, WritePayload, WriteRecord, Rename
      <3>6. CASE Kill(p) \/ IoError(p)
        BY <3>6 DEF Kill, IoError
      <3> QED BY <1>1, <3>1, <3>2, <3>3, <3>4, <3>5, <3>6 DEF ProcessStep
    <2> QED BY <2>1 DEF Offers
  <1>2. CASE Tick
    BY <1>2 DEF Tick, Offers
  <1> QED BY <1>1, <1>2, NextSteps

\* The invariant of processes in one scope.
SharedInv == SafeInv /\ Fresh /\ Loading /\ Planned /\ Clear

\* It holds at the start.
LEMMA InitShared == Init => SharedInv
  <1> SUFFICES ASSUME Init PROVE SharedInv
    OBVIOUS
  <1>1. \A p \in Procs : l[p].pc = "idle"
    BY DEF Init, Idle
  <1> QED BY <1>1, InitSafe DEF SharedInv, Fresh, Loading, Planned, Clear, Publishing

\* Every step of processes in one scope keeps it.
LEMMA NextShared == SharedScope /\ SharedInv /\ [Next]_vars => SharedInv'
  <1> SUFFICES ASSUME SharedScope, SharedInv, [Next]_vars PROVE SharedInv'
    OBVIOUS
  <1>1. SafeInv'
    BY NextSafe DEF SharedInv
  <1>2. CASE Next
    BY <1>1, <1>2, LoadingStep, PlannedStep, FreshStep, ClearStep DEF SharedInv, SafeInv
  <1>3. CASE UNCHANGED vars
    <2>1. /\ UNCHANGED <<env, dirs, pend, made, l>>
          /\ Fresh /\ Loading /\ Planned /\ Clear
      BY <1>3 DEF vars, SharedInv
    <2>2. Fresh' /\ Loading' /\ Clear'
      BY <2>1 DEF Fresh, Loading, Clear
    <2>3. \A p \in Procs : Entries(p)' = Entries(p)
      BY <2>1 DEF Entries, ScopeSlots, InScope, Scope, RootOf
    <2>4. Planned'
      BY <2>1, <2>3 DEF Planned
    <2> QED BY <1>1, <2>2, <2>4 DEF SharedInv
  <1> QED BY <1>2, <1>3

-----------------------------------------------------------------------------
(* The bound that a store leaves behind *)

\* An empty cache takes no bytes.
LEMMA NoBytes == CacheBytes({}) = 0
  <1> DEFINE pays == {e.pay : e \in {}}
             body(g, S) == IF S = {} THEN 0
                           ELSE LET f == CHOOSE h \in S : TRUE IN PayloadBytes[f.art] + g[S \ {f}]
             sum == CHOOSE g : g = [S \in SUBSET pays |-> body(g, S)]
             zero == [S \in SUBSET pays |-> 0]
  <1>1. pays = {}
    OBVIOUS
  <1>2. \A S \in SUBSET pays : S = {}
    BY <1>1
  <1>3. zero = [S \in SUBSET pays |-> body(zero, S)]
    BY <1>2
  <1>4. sum = [S \in SUBSET pays |-> body(sum, S)]
    BY <1>3
  <1>5. sum[pays] = 0
    BY <1>1, <1>4
  <1>6. Cardinality({}) = 0
    BY FS_EmptySet
  <1>7. CacheBytes({}) = RecordBytes * Cardinality({}) + sum[pays]
    BY DEF CacheBytes
  <1> QED BY <1>5, <1>6, <1>7, ConstantsAssumption

\* When an eviction is done the entries it has worked through are within limits.
LEMMA PlanBounded ==
  ASSUME TypeOK, NEW p \in Procs, PruneDone(p)
  PROVE  WithinLimits(l[p].plan) /\ \A e \in l[p].plan : ~Expired(e)
  <1>1. CASE l[p].plan = {}
    <2>1. WithinLimits({})
      BY NoBytes, FS_EmptySet, ConstantsAssumption DEF WithinLimits
    <2> QED BY <1>1, <2>1
  <1>2. CASE WithinLimits(l[p].plan) /\ \E e \in l[p].plan : Oldest(e, l[p].plan) /\ ~Expired(e)
    <2>1. PICK e \in l[p].plan : Oldest(e, l[p].plan) /\ ~Expired(e)
      BY <1>2
    <2>2. \A f \in l[p].plan : f.used \in Nat
      BY DEF TypeOK, Locals, ManagedEntry
    <2>3. now \in Nat /\ e.used \in Nat /\ \A f \in l[p].plan : e.used <= f.used
      BY <2>1, <2>2 DEF TypeOK, Oldest
    <2>4. ASSUME NEW f \in l[p].plan PROVE ~Expired(f)
      <3>1. f.used \in Nat /\ e.used <= f.used /\ ~(now - e.used > MaxAge)
        BY <2>1, <2>2, <2>3 DEF Expired
      <3>2. ~(now - f.used > MaxAge)
        BY <2>3, <3>1, ConstantsAssumption
      <3> QED BY <3>2 DEF Expired
    <2> QED BY <1>2, <2>4
  <1> QED BY <1>1, <1>2 DEF PruneDone

\* A store that succeeds leaves the recognized entries of its scope within the
\* limits: the entries it evicted by are the entries there are.
LEMMA BoundedStep ==
  ASSUME SharedInv, Next, NEW p \in Procs, l'[p].res = "stored", l[p].res # "stored"
  PROVE  WithinLimits(Entries(p)') /\ \A e \in Entries(p)' : ~Expired(e)'
  <1>1. PICK q \in Procs : ProcessStep(q)
    BY NextSteps DEF Tick
  <1>2. q = p
    BY <1>1, FrameStep DEF Frame, SharedInv, SafeInv
  <1>3. PruneDone(p)
    BY <1>1, <1>2, EntersStep DEF Enters, SharedInv, SafeInv
  <1>4. l[p].plan = Entries(p)
    BY <1>3 DEF PruneDone, SharedInv, Planned
  <1>5. UNCHANGED <<env, dirs, made, now>>
    BY <1>3, NextSteps DEF PruneDone, files
  <1>6. Entries(p)' = Entries(p)
    BY <1>5 DEF Entries, ScopeSlots, InScope, Scope, RootOf
  <1>7. WithinLimits(Entries(p)) /\ \A e \in Entries(p) : ~Expired(e)
    BY <1>3, <1>4, PlanBounded DEF SharedInv, SafeInv
  <1>8. \A e : Expired(e)' <=> Expired(e)
    BY <1>5 DEF Expired
  <1> QED BY <1>6, <1>7, <1>8

\* Among processes that share the scope of their locks, store() returns success
\* only with the entries of the scope within the entry, byte and age limits.
THEOREM StoresLeaveCacheBounded ==
  ASSUME SharedScope
  PROVE  Spec => StoreLeavesCacheBounded
  <1>1. SharedInv /\ [Next]_vars =>
          [\A p \in Procs : l'[p].res = "stored" /\ l[p].res # "stored" =>
              WithinLimits(Entries(p)') /\ \A e \in Entries(p)' : ~Expired(e)']_vars
    BY BoundedStep
  <1> QED BY <1>1, InitShared, NextShared, PTL DEF Spec, StoreLeavesCacheBounded

-----------------------------------------------------------------------------
(* Requests that meet each other *)

\* An entry an older version has left was compiled from its key.
LegacyIsCompiled == \A s \in Slots : Legacy[s] # NoValue => Legacy[s] \in Builds[s[2]]

\* Two members make a set of at least two.
LEMMA TwoMembers ==
  ASSUME NEW S, IsFiniteSet(S), NEW a \in S, NEW b \in S, a # b
  PROVE  Cardinality(S) > 1
  <1>1. IsFiniteSet({a}) /\ Cardinality({a}) = 1
    BY FS_Singleton
  <1>2. IsFiniteSet({a} \cup {b}) /\ Cardinality({a} \cup {b}) = Cardinality({a}) + 1
    BY <1>1, FS_AddElement
  <1>3. {a} \cup {b} \subseteq S
    OBVIOUS
  <1>4. Cardinality({a} \cup {b}) <= Cardinality(S) /\ Cardinality(S) \in Nat
    BY <1>3, FS_Subset, FS_CardinalityType
  <1> QED BY <1>1, <1>2, <1>4

\* A process that holds the lock finds whole entries in its root, and wrecks.
LEMMA EntriesAreWhole ==
  ASSUME SharedScope, SafeInv, NEW p \in Procs, ~Wreck(l[p].slot),
         l[p].pc \in LoadLocked \cup (StoreLocked \ {"remove"}), dirs[l[p].slot].present
  PROVE  Complete(dirs[l[p].slot]) /\ Validate(dirs[l[p].slot].rec, dirs[l[p].slot].pay) = "hit"
  <1> DEFINE s == l[p].slot
  <1>1. s \in Slots /\ s[1] = RootOf(p)
    BY DEF SafeInv, Positions, LoadLocked, StoreLocked
  <1>2. ASSUME ~Complete(dirs[s]) PROVE FALSE
    <2>1. PICK r \in Procs : l[r].pc = "remove" /\ l[r].victim = s
      BY <1>1, <1>2 DEF Wreck, Removing
    <2>2. s[1] \in InScope(r)
      BY <2>1 DEF SafeInv, Positions, ScopeSlots
    <2>3. Domain(r) = Domain(p)
      BY <1>1, <2>2, SameDomain DEF SafeInv
    <2>4. HoldsExclusive(r) /\ r # p
      BY <2>1 DEF HoldsExclusive, StoreLocked, LoadLocked
    <2>5. HoldsShared(p) \/ HoldsExclusive(p)
      BY DEF HoldsShared, HoldsExclusive
    <2> QED BY <2>3, <2>4, <2>5 DEF SafeInv, Exclusion
  <1>3. Complete(dirs[s]) /\ dirs[s].rec.art = dirs[s].pay.art
    BY <1>1, <1>2 DEF SafeInv, Contents
  <1> QED BY <1>3 DEF Complete, Validate

\* A lookup that has found a record finds the payload it names.
LEMMA LoadSucceeds ==
  ASSUME SharedScope, SharedInv, NEW p \in Procs, LoadPayload(p), ~Wreck(l[p].slot)
  PROVE  l'[p].res = "hit"
  <1> DEFINE s == l[p].slot
  <1>1. l[p].pc = "load_payload" /\ l[p].rec # NoValue /\ dirs[s].rec = l[p].rec
    BY DEF LoadPayload, SharedInv, Loading
  <1>2. s \in Slots
    BY <1>1 DEF SharedInv, SafeInv, Positions
  <1>3. dirs[s].present
    BY <1>1, <1>2 DEF SharedInv, SafeInv, Contents
  <1>4. Validate(l[p].rec, dirs[s].pay) = "hit"
    BY <1>1, <1>3, EntriesAreWhole DEF SharedInv, LoadLocked
  <1>5. Return(p, "hit")
    BY <1>4 DEF LoadPayload
  <1> QED BY <1>5, ReturnPc DEF SharedInv, SafeInv

\* A writer finds its slot free, or the entry it would have written.
LEMMA CheckSucceeds ==
  ASSUME SharedScope, SharedInv, Offers, NEW p \in Procs, Check(p),
         ~Wreck(l[p].slot), l'[p].res \in Failures
  PROVE  Cardinality(Builds[l[p].slot[2]]) > 1
  <1> DEFINE s == l[p].slot
  <1>1. l[p].pc = "check"
    BY DEF Check
  <1>2. /\ s \in Slots /\ l[p].art \in Artifacts /\ <<s, l[p].art>> \in offered /\ l[p].res = "none"
    BY <1>1 DEF SharedInv, SafeInv, Positions, Working, StoreLocked, Fresh
  <1>3. ~Return(p, "uncached")
    BY ReturnPc DEF SharedInv, SafeInv, Failures
  <1>4. ~Goto(p, "create")
    BY <1>2, GotoFields DEF SharedInv, SafeInv, Failures
  <1>5. l' # [l EXCEPT ![p].pc = "scan", ![p].next = "done"]
    BY <1>2, NextFields DEF SharedInv, SafeInv, Failures
  <1>6. dirs[s].present
    BY <1>3, <1>4 DEF Check
  <1>7. Complete(dirs[s]) /\ Validate(dirs[s].rec, dirs[s].pay) = "hit"
    BY <1>1, <1>6, EntriesAreWhole DEF SharedInv, StoreLocked
  <1>8. dirs[s].pay.art # l[p].art
    BY <1>3, <1>4, <1>5, <1>7 DEF Check
  <1>9. <<s, dirs[s].pay.art>> \in offered
    BY <1>2, <1>7 DEF SharedInv, SafeInv, Contents, Complete
  <1>10. l[p].art \in Builds[s[2]] /\ dirs[s].pay.art \in Builds[s[2]]
    BY <1>2, <1>9 DEF Offers
  <1>11. IsFiniteSet(Builds[s[2]])
    <2>1. Builds[s[2]] \subseteq Artifacts
      BY <1>2, ConstantsAssumption DEF Slots
    <2> QED BY <2>1, FS_Subset, ConstantsAssumption
  <1> QED BY <1>8, <1>10, <1>11, TwoMembers

\* A writer publishes into a free slot the directory it has filled.
LEMMA RenameSucceeds ==
  ASSUME SharedInv, NEW p \in Procs, Rename(p)
  PROVE  l'[p].res = "none"
  <1> DEFINE s == l[p].slot
  <1>1. l[p].pc = "rename" /\ l[p].res = "none" /\ s \in Slots
    BY DEF Rename, SharedInv, Fresh, SafeInv, Positions
  <1>2. pend[p].present /\ ~dirs[s].present
    BY <1>1 DEF SharedInv, Clear, Publishing
  <1>3. dirs[s].rec = NoValue /\ dirs[s].pay = NoValue
    BY <1>1, <1>2 DEF SharedInv, SafeInv, Contents
  <1>4. l' = [l EXCEPT ![p].pc = "scan", ![p].next = "done"]
    BY <1>2, <1>3 DEF Rename
  <1> QED BY <1>1, <1>4, NextFields DEF SharedInv, SafeInv

\* An eviction finds the directory it removes.
LEMMA RemovalSucceeds ==
  ASSUME SharedInv, NEW p \in Procs, RemoveDirectory(p)
  PROVE  l'[p].res = "none"
  <1>1. l[p].pc = "remove" /\ l[p].res = "none" /\ dirs[l[p].victim].present
    BY DEF RemoveDirectory, SharedInv, Fresh, Planned
  <1>2. l' = [l EXCEPT ![p].pc = "prune", ![p].victim = NoValue]
    BY <1>1 DEF RemoveDirectory
  <1>3. l'[p] = [l[p] EXCEPT !.pc = "prune", !.victim = NoValue] /\ l[p] \in Locals
    BY <1>2 DEF SharedInv, SafeInv, TypeOK
  <1> QED BY <1>1, <1>3 DEF Locals

\* A request that fails has met a wreck, or the other compilation of its key.
LEMMA AdmissionStep ==
  ASSUME SharedScope, SharedInv, Offers, Next,
         NEW p \in Procs, l[p].pc # "idle", l'[p].res \in Failures, ~Wreck(l[p].slot)
  PROVE  Cardinality(Builds[l[p].slot[2]]) > 1
  <1>0. l[p].res = "none" /\ "none" \notin Failures /\ "hit" \notin Failures
    BY DEF SharedInv, Fresh, Failures
  <1>1. PICK q \in Procs : ProcessStep(q)
    BY <1>0, NextSteps DEF Tick
  <1>2. q = p
    BY <1>0, <1>1, FrameStep DEF Frame, SharedInv, SafeInv
  <1>3. LoadPayload(p) \/ RemoveDirectory(p) \/ Check(p) \/ Rename(p)
    BY <1>0, <1>1, <1>2, EntersStep DEF Enters, SharedInv, SafeInv
  <1>4. Check(p)
    BY <1>0, <1>3, LoadSucceeds, RemovalSucceeds, RenameSucceeds
  <1> QED BY <1>4, CheckSucceeds

\* Requests that miss together, publish together and evict each other's entries
\* end in a failure only where compilation is not a function of the key or an
\* eviction left a wreck: among processes that share the scope of their locks.
THEOREM AdmissionsSucceed ==
  ASSUME SharedScope, LegacyIsCompiled
  PROVE  Spec => ConcurrentAdmissionsSucceed
  <1>1. SharedInv /\ Offers /\ [Next]_vars =>
          [\A p \in Procs : l[p].pc # "idle" /\ l'[p].res \in Failures =>
              Cardinality(Builds[l[p].slot[2]]) > 1 \/ Wreck(l[p].slot)]_vars
    BY AdmissionStep
  <1>2. Init => Offers
    <2> SUFFICES ASSUME Init, NEW o \in offered PROVE o[2] \in Builds[o[1][2]]
      BY DEF Offers
    <2>1. PICK s \in LegacySlots : o = <<s, Legacy[s]>>
      BY DEF Init
    <2> QED BY <2>1 DEF LegacySlots, LegacyIsCompiled
  <1>3. SharedInv /\ Offers /\ [Next]_vars => Offers'
    <2>1. CASE UNCHANGED vars
      BY <2>1 DEF vars, Offers
    <2> QED BY <2>1, OffersStep DEF SharedInv, SafeInv
  <1> QED BY <1>1, <1>2, <1>3, InitShared, NextShared, PTL
          DEF Spec, ConcurrentAdmissionsSucceed

-----------------------------------------------------------------------------
(* The map that loses its bindings *)

\* The slot a process is looking up, if any.
Seeking == {"load_lock"} \cup LoadLocked
Seeks(p) == IF l[p].pc \in Seeking THEN l[p].slot ELSE NoValue

\* A step does nothing for the callers of the map, or asks, or answers with a
\* miss or with the payload of the slot, or gives up.
Serves(p) ==
    \/ UNCHANGED got /\ Seeks(p)' = Seeks(p)
    \/ /\ l[p].pc = "idle" /\ UNCHANGED dirs
       /\ \E k \in Keys : Seeks(p)' = <<RootOf(p), k>>
       /\ got' = [got EXCEPT ![p] = NoValue]
    \/ /\ l[p].pc \in Seeking /\ UNCHANGED dirs /\ Seeks(p)' = NoValue
       /\ RootOf(p) \notin made \/ dirs[l[p].slot].rec = NoValue
       /\ Answer(p, NoValue)
    \/ /\ l[p].pc = "load_payload" /\ Seeks(p)' = NoValue
       /\ dirs[l[p].slot].pay # NoValue
       /\ Answer(p, dirs[l[p].slot].pay.art)
    \/ /\ l[p].pc \in Seeking /\ UNCHANGED <<dirs, got>> /\ Seeks(p)' = NoValue

\* Every step is one of these.
LEMMA ServesStep ==
  ASSUME TypeOK, NEW p \in Procs, ProcessStep(p)
  PROVE  Serves(p)
  <1> USE DEF TypeOK, files, history, Serves, Seeking, LoadLocked
  <1>0. Moves(p)
    BY MoveStep
  <1>1. ASSUME NEW k \in Keys, NEW op \in {"load", "admit"}, BeginLoad(p, op, k)
        PROVE  Serves(p)
    <2>1. l'[p].pc = "load_lock" /\ l'[p].slot = <<RootOf(p), k>> /\ l[p].pc = "idle"
      BY <1>1, IdleFields DEF BeginLoad
    <2> QED BY <1>1, <2>1 DEF BeginLoad, Seeks
  <1>2. ASSUME NEW k \in Keys, NEW a \in Builds[k], BeginStore(p, k, a)
        PROVE  Serves(p)
    <2>1. l'[p].pc = "store_lock" /\ l[p].pc = "idle"
      BY <1>2, IdleFields DEF BeginStore
    <2> QED BY <1>2, <2>1 DEF BeginStore, Seeks
  <1>3. ASSUME LoadNoRoot(p)
        PROVE  Serves(p)
    <2>1. Missed(p) /\ UNCHANGED dirs /\ l[p].pc = "load_lock" /\ RootOf(p) \notin made
      BY <1>3 DEF LoadNoRoot
    <2>2. Seeks(p)' = NoValue
      BY <2>1, MissedFields DEF Seeks
    <2> QED BY <2>1, <2>2 DEF Missed, Seeks
  <1>4. ASSUME LoadLock(p)
        PROVE  Serves(p)
    <2>1. l'[p].pc = "load_record" /\ l'[p].slot = l[p].slot /\ l[p].pc = "load_lock"
      BY <1>4, GotoFields DEF LoadLock
    <2> QED BY <1>4, <2>1 DEF LoadLock, Seeks
  <1>5. ASSUME LoadRecord(p)
        PROVE  Serves(p)
    <2>0. l[p].pc = "load_record" /\ UNCHANGED dirs
      BY <1>5 DEF LoadRecord
    <2>1. CASE dirs[l[p].slot].rec = NoValue
      <3>1. Missed(p) /\ UNCHANGED dirs /\ dirs[l[p].slot].rec = NoValue
        BY <1>5, <2>1 DEF LoadRecord
      <3>2. Seeks(p)' = NoValue
        BY <3>1, MissedFields DEF Seeks
      <3> QED BY <3>1, <3>2, <2>0 DEF Missed, Seeks
    <2>2. CASE dirs[l[p].slot].rec # NoValue
      <3>1. l' = [l EXCEPT ![p].pc = "load_payload", ![p].rec = dirs[l[p].slot].rec] /\ UNCHANGED got
        BY <1>5, <2>2 DEF LoadRecord
      <3>2. l'[p] = [l[p] EXCEPT !.pc = "load_payload", !.rec = dirs[l[p].slot].rec] /\ l[p] \in Locals
        BY <3>1
      <3>3. l'[p].pc = "load_payload" /\ l'[p].slot = l[p].slot
        BY <3>2 DEF Locals
      <3> QED BY <2>0, <3>1, <3>3 DEF Seeks
    <2> QED BY <2>1, <2>2
  <1>6. ASSUME LoadPayload(p)
        PROVE  Serves(p)
    <2>1. l[p].pc = "load_payload" /\ l'[p].pc = "idle"
      BY <1>6, ReturnPc DEF LoadPayload
    <2>2. Seeks(p)' = NoValue
      BY <2>1 DEF Seeks
    <2>3. CASE Validate(l[p].rec, dirs[l[p].slot].pay) = "hit"
      <3>1. Answer(p, dirs[l[p].slot].pay.art) /\ dirs[l[p].slot].pay # NoValue
        BY <1>6, <2>3 DEF LoadPayload, Validate
      <3> QED BY <2>1, <2>2, <3>1
    <2>4. CASE Validate(l[p].rec, dirs[l[p].slot].pay) # "hit"
      BY <1>6, <2>1, <2>2, <2>4 DEF LoadPayload
    <2> QED BY <2>3, <2>4
  <1>7. ASSUME StoreLock(p)
        PROVE  Serves(p)
    <2>1. UNCHANGED got /\ l[p].pc \in Working
      BY <1>7 DEF StoreLock, Working, StoreLocked
    <2>2. l'[p].pc \notin Seeking
      BY <1>0, <2>1 DEF Moves, Working, StoreLocked
    <2> QED BY <2>1, <2>2 DEF Seeks, Working, StoreLocked
  <1>8. ASSUME Reap(p)
        PROVE  Serves(p)
    <2>1. UNCHANGED got /\ l[p].pc \in Working
      BY <1>8 DEF Reap, Working, StoreLocked
    <2>2. l'[p].pc \notin Seeking
      BY <1>0, <2>1 DEF Moves, Working, StoreLocked
    <2> QED BY <2>1, <2>2 DEF Seeks, Working, StoreLocked
  <1>9. ASSUME Scan(p)
        PROVE  Serves(p)
    <2>1. UNCHANGED got /\ l[p].pc \in Working
      BY <1>9 DEF Scan, Working, StoreLocked
    <2>2. l'[p].pc \notin Seeking
      BY <1>0, <2>1 DEF Moves, Working, StoreLocked
    <2> QED BY <2>1, <2>2 DEF Seeks, Working, StoreLocked
  <1>10. ASSUME PruneDone(p)
        PROVE  Serves(p)
    <2>1. UNCHANGED got /\ l[p].pc \in Working
      BY <1>10 DEF PruneDone, Working, StoreLocked
    <2>2. l'[p].pc \notin Seeking
      BY <1>0, <2>1 DEF Moves, Working, StoreLocked
    <2> QED BY <2>1, <2>2 DEF Seeks, Working, StoreLocked
  <1>11. ASSUME PruneEvict(p)
        PROVE  Serves(p)
    <2>1. UNCHANGED got /\ l[p].pc \in Working
      BY <1>11 DEF PruneEvict, Working, StoreLocked
    <2>2. l'[p].pc \notin Seeking
      BY <1>0, <2>1 DEF Moves, Working, StoreLocked
    <2> QED BY <2>1, <2>2 DEF Seeks, Working, StoreLocked
  <1>12. ASSUME RemoveFile(p)
        PROVE  Serves(p)
    <2>1. UNCHANGED got /\ l[p].pc \in Working
      BY <1>12 DEF RemoveFile, Working, StoreLocked
    <2>2. l'[p].pc \notin Seeking
      BY <1>0, <2>1 DEF Moves, Working, StoreLocked
    <2> QED BY <2>1, <2>2 DEF Seeks, Working, StoreLocked
  <1>13. ASSUME RemoveDirectory(p)
        PROVE  Serves(p)
    <2>1. UNCHANGED got /\ l[p].pc \in Working
      BY <1>13 DEF RemoveDirectory, Working, StoreLocked
    <2>2. l'[p].pc \notin Seeking
      BY <1>0, <2>1 DEF Moves, Working, StoreLocked
    <2> QED BY <2>1, <2>2 DEF Seeks, Working, StoreLocked
  <1>14. ASSUME Check(p)
        PROVE  Serves(p)
    <2>1. UNCHANGED got /\ l[p].pc \in Working
      BY <1>14 DEF Check, Working, StoreLocked
    <2>2. l'[p].pc \notin Seeking
      BY <1>0, <2>1 DEF Moves, Working, StoreLocked
    <2> QED BY <2>1, <2>2 DEF Seeks, Working, StoreLocked
  <1>15. ASSUME CreatePending(p)
        PROVE  Serves(p)
    <2>1. UNCHANGED got /\ l[p].pc \in Working
      BY <1>15 DEF CreatePending, Working, StoreLocked
    <2>2. l'[p].pc \notin Seeking
      BY <1>0, <2>1 DEF Moves, Working, StoreLocked
    <2> QED BY <2>1, <2>2 DEF Seeks, Working, StoreLocked
  <1>16. ASSUME WritePayload(p)
        PROVE  Serves(p)
    <2>1. UNCHANGED got /\ l[p].pc \in Working
      BY <1>16 DEF WritePayload, Working, StoreLocked
    <2>2. l'[p].pc \notin Seeking
      BY <1>0, <2>1 DEF Moves, Working, StoreLocked
    <2> QED BY <2>1, <2>2 DEF Seeks, Working, StoreLocked
  <1>17. ASSUME WriteRecord(p)
        PROVE  Serves(p)
    <2>1. UNCHANGED got /\ l[p].pc \in Working
      BY <1>17 DEF WriteRecord, Working, StoreLocked
    <2>2. l'[p].pc \notin Seeking
      BY <1>0, <2>1 DEF Moves, Working, StoreLocked
    <2> QED BY <2>1, <2>2 DEF Seeks, Working, StoreLocked
  <1>18. ASSUME Rename(p)
        PROVE  Serves(p)
    <2>1. UNCHANGED got /\ l[p].pc \in Working
      BY <1>18 DEF Rename, Working, StoreLocked
    <2>2. l'[p].pc \notin Seeking
      BY <1>0, <2>1 DEF Moves, Working, StoreLocked
    <2> QED BY <2>1, <2>2 DEF Seeks, Working, StoreLocked
  <1>19. ASSUME Kill(p)
        PROVE  Serves(p)
    <2>1. UNCHANGED <<got, dirs>> /\ l'[p].pc = "idle"
      BY <1>19, ReturnPc DEF Kill
    <2>2. Seeks(p)' = NoValue
      BY <2>1 DEF Seeks
    <2> QED BY <2>1, <2>2 DEF Seeks
  <1>20. ASSUME IoError(p)
        PROVE  Serves(p)
    <2>1. UNCHANGED <<got, dirs>> /\ l'[p].pc = "idle"
      BY <1>20, ReturnPc DEF IoError
    <2>2. Seeks(p)' = NoValue
      BY <2>1 DEF Seeks
    <2> QED BY <2>1, <2>2 DEF Seeks
  <1> QED
    BY <1>1, <1>2, <1>3, <1>4, <1>5, <1>6, <1>7, <1>8, <1>9, <1>10, <1>11, <1>12, <1>13, <1>14, <1>15, <1>16, <1>17, <1>18, <1>19, <1>20 DEF ProcessStep, Step

\* What a lookup would find in each slot, and the slots being looked up.
Binding(d) == IF Complete(d) THEN d.pay.art ELSE NoValue
Bindings == [s \in Slots |-> Binding(dirs[s])]
Asking == [p \in Procs |-> Seeks(p)]

\* Bindings are artifacts.
LEMMA BindingType ==
  ASSUME TypeOK, NEW s \in Slots
  PROVE  Binding(dirs[s]) \in Artifacts \cup {NoValue}
  <1>1. dirs[s] \in Directory
    BY DEF TypeOK
  <1> QED BY <1>1 DEF Directory, Payload, Binding, Complete

\* A step that writes one slot changes one binding.
LEMMA OneBinding ==
  ASSUME TypeOK, NEW s \in Slots, \A t \in Slots \ {s} : dirs'[t] = dirs[t]
  PROVE  Bindings' = [Bindings EXCEPT ![s] = Binding(dirs'[s])]
  <1>1. \A t \in Slots : Binding(dirs[t])' = IF t = s THEN Binding(dirs'[s]) ELSE Binding(dirs[t])
    BY DEF Binding, Complete
  <1> QED BY <1>1 DEF Bindings

\* A binding appears whole where there was none, is forgotten, or stays.
Rebinds ==
    \E s \in Slots :
        \/ Bindings[s] # NoValue /\ Bindings' = [Bindings EXCEPT ![s] = NoValue]
        \/ \E v \in Artifacts : Bindings[s] = NoValue /\ Bindings' = [Bindings EXCEPT ![s] = v]

\* Only an eviction and a publication change the bindings.
LEMMA BindingsStep ==
  ASSUME SafeInv, NEW p \in Procs, ProcessStep(p)
  PROVE  \/ UNCHANGED Bindings
         \/ l[p].pc \in {"remove", "rename"} /\ Rebinds
  <1> USE DEF SafeInv
  <1>1. CASE UNCHANGED dirs
    BY <1>1 DEF Bindings
  <1>2. CASE Touches(p)
    <2>1. \A s \in Slots : /\ dirs'[s].rec = dirs[s].rec /\ dirs'[s].pay = dirs[s].pay
                            /\ dirs'[s].present = dirs[s].present
      BY <1>2, DirectoryFields DEF Touches, TypeOK
    <2>2. \A s \in Slots : Binding(dirs[s])' = Binding(dirs[s])
      BY <2>1 DEF Binding, Complete
    <2> QED BY <2>2 DEF Bindings
  <1>3. CASE Removes(p) \/ Clears(p)
    <2> DEFINE v == l[p].victim
    <2>1. l[p].pc = "remove" /\ v \in Slots
      BY <1>3 DEF Removes, Clears, Positions, ScopeSlots
    <2>2. \A t \in Slots \ {v} : dirs'[t] = dirs[t]
      BY <1>3 DEF Removes, Clears, TypeOK
    <2>3. ~Complete(dirs'[v])
      <3>1. CASE Removes(p)
        <4>1. dirs[v] \in Directory
          BY <2>1 DEF TypeOK
        <4>2. \/ dirs'[v] = [dirs[v] EXCEPT !.rec = NoValue]
              \/ dirs'[v] = [dirs[v] EXCEPT !.pay = NoValue]
          BY <2>1, <3>1 DEF Removes, TypeOK
        <4>3. [dirs[v] EXCEPT !.rec = NoValue].rec = NoValue /\ [dirs[v] EXCEPT !.pay = NoValue].pay = NoValue
          BY <4>1, DirectoryFields
        <4> QED BY <4>2, <4>3 DEF Complete
      <3>2. CASE Clears(p)
        BY <2>1, <3>2, DirectoryFields DEF Clears, Complete, TypeOK
      <3> QED BY <1>3, <3>1, <3>2
    <2>4. Bindings' = [Bindings EXCEPT ![v] = NoValue]
      BY <2>1, <2>2, <2>3, OneBinding DEF Binding
    <2>5. Bindings[v] = NoValue => UNCHANGED Bindings
      BY <2>1, <2>4 DEF Bindings
    <2> QED BY <2>1, <2>4, <2>5 DEF Rebinds
  <1>4. CASE Publishes(p)
    <2> DEFINE s == l[p].slot
    <2>1. /\ l[p].pc = "rename" /\ pend[p].present /\ dirs[s].rec = NoValue
          /\ dirs' = [dirs EXCEPT ![s] = pend[p]]
      BY <1>4 DEF Publishes
    <2>2. s \in Slots /\ pend[p].rec # NoValue /\ pend[p].pay # NoValue
      BY <2>1 DEF Positions, Publications
    <2>3. dirs'[s] = pend[p] /\ \A t \in Slots \ {s} : dirs'[t] = dirs[t]
      BY <2>1, <2>2 DEF TypeOK
    <2>4. Binding(dirs'[s]) = pend[p].pay.art
      BY <2>1, <2>2, <2>3 DEF Binding, Complete
    <2>5. pend[p].pay.art \in Artifacts
      BY <2>2 DEF TypeOK, Directory, Payload
    <2>6. Bindings[s] = NoValue
      BY <2>1, <2>2 DEF Bindings, Binding, Complete
    <2>7. Bindings' = [Bindings EXCEPT ![s] = pend[p].pay.art]
      BY <2>2, <2>3, <2>4, OneBinding
    <2> QED BY <2>1, <2>2, <2>5, <2>6, <2>7 DEF Rebinds
  <1> QED BY <1>1, <1>2, <1>3, <1>4, ChangeStep DEF Changes

\* The empty requests and what the tree holds are an initial state of the map.
LEMMA InitImplements == Init => Abstract!Init
  <1> SUFFICES ASSUME Init PROVE Abstract!Init
    OBVIOUS
  <1>1. TypeOK /\ \A p \in Procs : l[p] = Idle
    BY InitType DEF Init
  <1>2. Bindings \in [Slots -> Artifacts \cup {NoValue}]
    BY <1>1, BindingType DEF Bindings
  <1>3. Asking = [p \in Procs |-> NoValue]
    BY <1>1 DEF Asking, Seeks, Seeking, LoadLocked, Idle
  <1> QED BY <1>2, <1>3 DEF Abstract!Init, Bindings, Binding, Asking, Seeks, Seeking, Init

\* Every step is a step of the map or of one of its callers, or none.
LEMMA StepImplements ==
  ASSUME SharedInv, Next
  PROVE  [Abstract!Next]_(Abstract!vars)
  <1> DEFINE MapStep == /\ Bindings' # Bindings /\ UNCHANGED <<Asking, got>> /\ Rebinds
             CallerStep ==
               /\ Asking' # Asking /\ UNCHANGED Bindings
               /\ \E c \in Procs :
                    \/ /\ Asking[c] # NoValue
                       /\ got' = [got EXCEPT ![c] = [slot |-> Asking[c], value |-> Bindings[Asking[c]]]]
                       /\ Asking' = [Asking EXCEPT ![c] = NoValue]
                    \/ /\ Asking[c] # NoValue /\ UNCHANGED got
                       /\ Asking' = [Asking EXCEPT ![c] = NoValue]
                    \/ \E s \in Slots : /\ Asking[c] = NoValue
                                        /\ Asking' = [Asking EXCEPT ![c] = s]
                                        /\ got' = [got EXCEPT ![c] = NoValue]
  <1> USE DEF SharedInv, SafeInv
  <1>1. ASSUME NEW p \in Procs, ProcessStep(p)
        PROVE  MapStep \/ CallerStep \/ UNCHANGED <<Bindings, Asking, got>>
    <2> DEFINE s == l[p].slot
    <2>1. \A q \in Procs \ {p} : l'[q] = l[q]
      BY <1>1, FrameStep DEF Frame
    <2>2. \A q \in Procs : Asking[q] = Seeks(q) /\ Asking'[q] = Seeks(q)'
      BY DEF Asking
    <2>3. Asking' = [Asking EXCEPT ![p] = Seeks(p)']
      <3>1. \A q \in Procs \ {p} : Seeks(q)' = Seeks(q)
        BY <2>1 DEF Seeks
      <3> QED BY <3>1 DEF Asking
    <2>4. l[p].pc \in Seeking => Asking[p] = s /\ s \in Slots /\ s[1] = RootOf(p)
      BY <2>2 DEF Seeks, Seeking, LoadLocked, Positions
    <2>5. l[p].pc \notin Seeking => Asking[p] = NoValue
      BY <2>2 DEF Seeks
    <2>6. NoValue \notin Slots
      BY ConstantsAssumption
    <2>7. UNCHANGED dirs => UNCHANGED Bindings
      BY DEF Bindings
    <2>8. CASE UNCHANGED got /\ Seeks(p)' = Seeks(p)
      <3>1. UNCHANGED Asking
        BY <2>3, <2>8 DEF Asking
      <3> QED BY <1>1, <2>8, <3>1, BindingsStep
    <2>9. CASE /\ l[p].pc = "idle" /\ UNCHANGED dirs
               /\ \E k \in Keys : Seeks(p)' = <<RootOf(p), k>>
               /\ got' = [got EXCEPT ![p] = NoValue]
      <3>1. PICK k \in Keys : Seeks(p)' = <<RootOf(p), k>>
        BY <2>9
      <3>2. <<RootOf(p), k>> \in Slots
        BY RootType DEF Slots
      <3>3. Asking[p] = NoValue
        BY <2>5, <2>9 DEF Seeking, LoadLocked
      <3>4. Asking' # Asking
        BY <2>2, <2>6, <3>1, <3>2, <3>3
      <3> QED BY <2>3, <2>7, <2>9, <3>1, <3>2, <3>3, <3>4
    <2>10. CASE /\ l[p].pc \in Seeking /\ UNCHANGED dirs /\ Seeks(p)' = NoValue
                /\ RootOf(p) \notin made \/ dirs[s].rec = NoValue
                /\ Answer(p, NoValue)
      <3>1. Asking[p] = s /\ s \in Slots /\ s[1] = RootOf(p) /\ Asking[p] # NoValue
        BY <2>4, <2>6, <2>10
      <3>2. ~Complete(dirs[s])
        BY <2>10, <3>1 DEF Contents, Complete
      <3>3. Bindings[Asking[p]] = NoValue
        BY <3>1, <3>2 DEF Bindings, Binding
      <3>4. Asking' # Asking
        BY <2>2, <2>10, <3>1
      <3>5. got' = [got EXCEPT ![p] = [slot |-> Asking[p], value |-> Bindings[Asking[p]]]]
        BY <2>10, <3>1, <3>3 DEF Answer
      <3> QED BY <2>3, <2>7, <2>10, <3>1, <3>4, <3>5
    <2>11. CASE /\ l[p].pc = "load_payload" /\ Seeks(p)' = NoValue
                /\ dirs[s].pay # NoValue
                /\ Answer(p, dirs[s].pay.art)
      <3>1. Asking[p] = s /\ s \in Slots /\ Asking[p] # NoValue
        BY <2>4, <2>6, <2>11 DEF Seeking, LoadLocked
      <3>2. dirs[s].rec # NoValue
        BY <2>11 DEF Loading
      <3>3. Complete(dirs[s])
        BY <2>11, <3>1, <3>2 DEF Contents, Complete
      <3>4. Bindings[Asking[p]] = dirs[s].pay.art
        BY <3>1, <3>3 DEF Bindings, Binding
      <3>5. Asking' # Asking
        BY <2>2, <2>11, <3>1
      <3>6. got' = [got EXCEPT ![p] = [slot |-> Asking[p], value |-> Bindings[Asking[p]]]]
        BY <2>11, <3>1, <3>4 DEF Answer
      <3>7. UNCHANGED Bindings
        BY <1>1, <2>11, BindingsStep
      <3> QED BY <2>3, <2>11, <3>1, <3>5, <3>6, <3>7
    <2>12. CASE l[p].pc \in Seeking /\ UNCHANGED <<dirs, got>> /\ Seeks(p)' = NoValue
      <3>1. Asking[p] # NoValue
        BY <2>4, <2>6, <2>12
      <3>2. Asking' # Asking
        BY <2>2, <2>12, <3>1
      <3> QED BY <2>3, <2>7, <2>12, <3>1, <3>2
    <2> QED BY <1>1, <2>8, <2>9, <2>10, <2>11, <2>12, ServesStep DEF Serves
  <1>2. Tick => UNCHANGED <<Bindings, Asking, got>>
    BY DEF Tick, files, history, Bindings, Asking, Seeks
  <1>3. MapStep \/ CallerStep \/ UNCHANGED <<Bindings, Asking, got>>
    BY <1>1, <1>2, NextSteps
  <1>4. MapStep => Abstract!MapStep
    BY DEF Abstract!MapStep, Abstract!Forget, Abstract!Publish, Rebinds, Bindings, Binding, Asking, Seeks, Seeking
  <1>5. CallerStep => Abstract!CallerStep
    BY DEF Abstract!CallerStep, Abstract!Reply, Abstract!Abandon, Abstract!Ask, Bindings, Binding, Asking, Seeks, Seeking
  <1>6. UNCHANGED <<Bindings, Asking, got>> => UNCHANGED Abstract!vars
    BY DEF Abstract!vars, Bindings, Binding, Asking, Seeks, Seeking
  <1> QED BY <1>3, <1>4, <1>5, <1>6 DEF Abstract!Next

\* Among processes that share the scope of their locks the cache is a map whose
\* bindings appear whole and vanish at once, and a lookup answers with what the
\* map held at one instant: a reader's two reads, and a writer's several files,
\* are one step each.
THEOREM ImplementsMap ==
  ASSUME SharedScope
  PROVE  Spec => ImplementsLossyCache
  <1>1. SharedInv /\ [Next]_vars => [Abstract!Next]_(Abstract!vars)
    <2>1. CASE UNCHANGED vars
      BY <2>1 DEF vars, Abstract!vars, Complete
    <2> QED BY <2>1, StepImplements
  <1> QED BY <1>1, InitImplements, InitShared, NextShared, PTL
          DEF Spec, ImplementsLossyCache, Abstract!Spec
=============================================================================

---------------------------- MODULE ArtifactCache ----------------------------
(***************************************************************************)
(* The on-disk cache of compiled native applications                       *)
(* (crates/mncs-embed/src/cache.rs) and its client, the admission of a     *)
(* native application (crates/mncs-cli/src/main.rs).                       *)
(*                                                                         *)
(* Processes share a directory tree.  A slot <<namespace, key>> is the     *)
(* directory <root>/<key identity>; it holds record.json and artifact.json.*)
(* load() reads it under a shared lock on .cache.lock, store() publishes   *)
(* under an exclusive one.  Each file-system call that changes the tree is *)
(* a step of its own, so that a process can be killed, or a call can fail, *)
(* between any two.  The lock is released when its holder returns or dies; *)
(* it is derived from the holders' positions.                              *)
(*                                                                         *)
(* Abstracted: identities and digests (an artifact stands for its complete *)
(* envelope, Code gives its embedded bytecode), the order of directory     *)
(* names that breaks ties of used_at (any oldest entry may be the victim), *)
(* and torn files in a pending directory, which nobody reads.              *)
(***************************************************************************)
EXTENDS Integers, FiniteSets

CONSTANTS
    Procs, Namespaces, Keys, Artifacts,
    Environments,   \* process -> [root, scope]: its cache root, and "storage"
                    \* when the storage root is set, else "root"
    Builds,         \* key -> the artifacts compilation may give for it
    Code,           \* artifact -> identity of the embedded bytecode
    PayloadBytes,   \* artifact -> size of artifact.json
    RecordBytes, MaxBytes, MaxEntries, MaxAge,
    HardLinks,      \* the file system supports hard links
    Legacy,         \* slot -> entry of an older version (no payload digest), or NoValue
    Faults,         \* subset of {"kill", "io"}
    MaxTime, MaxRequests,   \* bounds of the model: clock, number of requests
    NoValue

Slots == Namespaces \X Keys
PayIds == 1 .. (Cardinality(Slots) + Cardinality(Procs))

ASSUME ConstantsAssumption ==
    /\ IsFiniteSet(Procs) /\ IsFiniteSet(Namespaces)
    /\ IsFiniteSet(Keys) /\ IsFiniteSet(Artifacts)
    /\ Environments \subseteq [Procs -> [root : Namespaces, scope : {"root", "storage"}]]
    /\ Builds \in [Keys -> SUBSET Artifacts]
    /\ PayloadBytes \in [Artifacts -> Nat]
    /\ RecordBytes \in Nat /\ MaxBytes \in Nat /\ MaxEntries \in Nat /\ MaxAge \in Nat
    /\ MaxTime \in Nat /\ MaxRequests \in Nat
    /\ HardLinks \in BOOLEAN
    /\ Legacy \in [Slots -> Artifacts \cup {NoValue}]
    /\ Faults \subseteq {"kill", "io"}
    /\ NoValue \notin Artifacts /\ NoValue \notin Slots

\* A payload is its inode (id) and its immutable content; hard links share it.
Payload == [id : PayIds, art : Artifacts]
\* A record names the artifact; full is FALSE when it has no payload digest.
CacheRecord == [art : Artifacts, full : BOOLEAN]
\* What a lookup was asked and what it found.
Lookup == [slot : Slots, value : Artifacts \cup {NoValue}]

ASSUME NoValueAssumption == NoValue \notin Payload \cup CacheRecord \cup Lookup

VARIABLES
    env,      \* the environment the processes run in, one of Environments
    dirs,     \* slot -> what its directory holds
    pend,     \* process -> its .pending-* directory
    made,     \* the cache roots that exist
    now,      \* the clock
    l,        \* process -> position and local variables
    left,     \* requests still to come
    offered,  \* history: <<slot, artifact>> handed to store(), or found at the start
    got       \* process -> what its last load() returned, [slot, value], or NoValue

vars == <<env, dirs, pend, made, now, l, left, offered, got>>

Directory == [present : BOOLEAN, rec : CacheRecord \cup {NoValue},
              pay : Payload \cup {NoValue}, used : 0 .. MaxTime]
Absent == [present |-> FALSE, rec |-> NoValue, pay |-> NoValue, used |-> 0]
ManagedEntry == [slot : Slots, used : 0 .. MaxTime, pay : Payload]

LoadLocked == {"load_record", "load_payload"}
StoreLocked == {"reap", "scan", "prune", "remove", "check", "create",
                "payload", "record", "rename"}
Stages == {"idle", "load_lock", "store_lock"} \cup LoadLocked \cup StoreLocked
Failures == {"cache_corrupt", "cache_stale", "cache_conflict", "cache_unavailable"}
Results == {"none", "hit", "miss", "stored", "uncached", "cut"} \cup Failures

Locals == [pc : Stages, op : {"load", "store", "admit"}, slot : Slots \cup {NoValue},
           art : Artifacts \cup {NoValue}, rec : CacheRecord \cup {NoValue},
           plan : SUBSET ManagedEntry, victim : Slots \cup {NoValue},
           next : {"check", "done"}, res : Results]
Idle == [pc |-> "idle", op |-> "load", slot |-> NoValue, art |-> NoValue,
         rec |-> NoValue, plan |-> {}, victim |-> NoValue, next |-> "check",
         res |-> "none"]

TypeOK ==
    /\ env \in Environments
    /\ dirs \in [Slots -> Directory]
    /\ pend \in [Procs -> Directory]
    /\ made \subseteq Namespaces
    /\ now \in 0 .. MaxTime
    /\ l \in [Procs -> Locals]
    /\ left \in 0 .. MaxRequests
    /\ offered \subseteq (Slots \X Artifacts)
    /\ got \in [Procs -> Lookup \cup {NoValue}]

LegacySlots == {s \in Slots : Legacy[s] # NoValue}
FirstPayload(s) == [id |-> CHOOSE i \in PayIds : TRUE, art |-> Legacy[s]]

\* A tree left by earlier runs of an older version: at most one entry here.
Init ==
    /\ env \in Environments
    /\ dirs = [s \in Slots |->
                 IF Legacy[s] = NoValue THEN Absent
                 ELSE [present |-> TRUE, rec |-> [art |-> Legacy[s], full |-> FALSE],
                       pay |-> FirstPayload(s), used |-> 0]]
    /\ pend = [p \in Procs |-> Absent]
    /\ made = {s[1] : s \in LegacySlots}
    /\ now = 0
    /\ l = [p \in Procs |-> Idle]
    /\ left = MaxRequests
    /\ offered = {<<s, Legacy[s]>> : s \in LegacySlots}
    /\ got = [p \in Procs |-> NoValue]

-----------------------------------------------------------------------------
\* Locks.  The lock file lives in the storage root, which is the cache root
\* itself unless MNCS_NATIVE_APPLICATION_CACHE_STORAGE_ROOT widens the scope.

RootOf(p) == env[p].root
Scope(p) == env[p].scope
Domain(p) == IF Scope(p) = "storage" THEN "storage" ELSE RootOf(p)
InScope(p) == IF Scope(p) = "storage" THEN made ELSE {RootOf(p)}
ScopeSlots(p) == {s \in Slots : s[1] \in InScope(p)}

HoldsShared(q) == l[q].pc \in LoadLocked
HoldsExclusive(q) == l[q].pc \in StoreLocked
SharedFree(p) == \A q \in Procs \ {p} : Domain(q) = Domain(p) => ~HoldsExclusive(q)
ExclusiveFree(p) ==
    \A q \in Procs \ {p} : Domain(q) = Domain(p) => ~(HoldsShared(q) \/ HoldsExclusive(q))

-----------------------------------------------------------------------------
\* Reading entries

Complete(d) == d.present /\ d.rec # NoValue /\ d.pay # NoValue

\* load_unlocked's verdict on a record and a payload read from one directory.
Validate(rec, pay) ==
    CASE rec = NoValue -> "miss"
      [] rec # NoValue /\ pay = NoValue -> "cache_corrupt"
      [] OTHER -> IF Code[pay.art] # Code[rec.art] \/ (rec.full /\ pay.art # rec.art)
                  THEN "cache_stale" ELSE "hit"

\* entries(): the recognized directories of the scope.
Entries(p) ==
    {[slot |-> s, used |-> dirs[s].used, pay |-> dirs[s].pay] :
        s \in {t \in ScopeSlots(p) : Complete(dirs[t])}}

\* cache_bytes(): records, and each distinct payload file once.
CacheBytes(es) ==
    LET payloads == {e.pay : e \in es}
        sum[S \in SUBSET payloads] ==
            IF S = {} THEN 0
            ELSE LET f == CHOOSE g \in S : TRUE IN PayloadBytes[f.art] + sum[S \ {f}]
    IN  RecordBytes * Cardinality(es) + sum[payloads]

Expired(e) == now - e.used > MaxAge
WithinLimits(es) == Cardinality(es) <= MaxEntries /\ CacheBytes(es) <= MaxBytes

-----------------------------------------------------------------------------
\* Requests and returns

files == <<dirs, pend, made>>
history == <<offered, got>>

\* Process p leaves its operation with result r; the lock file is closed.
Return(p, r) == l' = [l EXCEPT ![p] = [Idle EXCEPT !.res = r]]
Goto(p, pc) == l' = [l EXCEPT ![p].pc = pc]
Answer(p, v) == got' = [got EXCEPT ![p] = [slot |-> l[p].slot, value |-> v]]

BeginLoad(p, op, k) ==
    /\ left > 0 /\ l[p].pc = "idle"
    /\ left' = left - 1
    /\ l' = [l EXCEPT ![p] = [Idle EXCEPT !.pc = "load_lock", !.op = op,
                                          !.slot = <<RootOf(p), k>>]]
    /\ got' = [got EXCEPT ![p] = NoValue]
    /\ UNCHANGED <<files, now, offered>>

BeginStore(p, k, a) ==
    /\ left > 0 /\ l[p].pc = "idle"
    /\ left' = left - 1
    /\ l' = [l EXCEPT ![p] = [Idle EXCEPT !.pc = "store_lock", !.op = "store",
                                          !.slot = <<RootOf(p), k>>, !.art = a]]
    /\ offered' = offered \cup {<<<<RootOf(p), k>>, a>>}
    /\ UNCHANGED <<files, now, got>>

\* A miss ends load(); an admission goes on to compile and publish.
Missed(p) ==
    /\ Answer(p, NoValue)
    /\ \/ /\ l[p].op = "load"
          /\ Return(p, "miss")
          /\ UNCHANGED offered
       \/ /\ l[p].op = "admit"
          /\ \E a \in Builds[l[p].slot[2]] :
                /\ l' = [l EXCEPT ![p].pc = "store_lock", ![p].art = a]
                /\ offered' = offered \cup {<<l[p].slot, a>>}

-----------------------------------------------------------------------------
\* load()

LoadNoRoot(p) ==
    /\ l[p].pc = "load_lock" /\ RootOf(p) \notin made
    /\ Missed(p)
    /\ UNCHANGED <<files, now, left>>

LoadLock(p) ==
    /\ l[p].pc = "load_lock" /\ RootOf(p) \in made
    /\ SharedFree(p)
    /\ Goto(p, "load_record")
    /\ UNCHANGED <<files, now, left, history>>

LoadRecord(p) ==
    /\ l[p].pc = "load_record"
    /\ \/ /\ dirs[l[p].slot].rec = NoValue
          /\ Missed(p)
       \/ /\ dirs[l[p].slot].rec # NoValue
          /\ l' = [l EXCEPT ![p].pc = "load_payload", ![p].rec = dirs[l[p].slot].rec]
          /\ UNCHANGED <<offered, got>>
    /\ UNCHANGED <<files, now, left>>


\* A hit refreshes the record's modification time, if the record is there.
Touch(s) ==
    IF dirs[s].rec = NoValue THEN UNCHANGED dirs
    ELSE dirs' = [dirs EXCEPT ![s].used = now]

LoadPayload(p) ==
    LET s == l[p].slot
        verdict == Validate(l[p].rec, dirs[s].pay)
    IN  /\ l[p].pc = "load_payload"
        /\ Return(p, verdict)
        /\ \/ /\ verdict = "hit"
              /\ Touch(s)
              /\ Answer(p, dirs[s].pay.art)
           \/ /\ verdict # "hit"
              /\ UNCHANGED <<dirs, got>>
        /\ UNCHANGED <<pend, made, now, left, offered>>

-----------------------------------------------------------------------------
\* store()

StoreLock(p) ==
    /\ l[p].pc = "store_lock"
    /\ ExclusiveFree(p)
    /\ made' = made \cup {RootOf(p)}
    /\ Goto(p, "reap")
    /\ UNCHANGED <<dirs, pend, now, left, history>>

Abandoned(p) == {q \in Procs : RootOf(q) \in InScope(p) /\ pend[q].present}


\* remove_abandoned_publications(): one directory at a time.
Reap(p) ==
    /\ l[p].pc = "reap"
    /\ \/ /\ \E q \in Abandoned(p) : pend' = [pend EXCEPT ![q] = Absent]
          /\ UNCHANGED l
       \/ /\ Abandoned(p) = {}
          /\ l' = [l EXCEPT ![p].pc = "scan", ![p].next = "check"]
          /\ UNCHANGED pend
    /\ UNCHANGED <<dirs, made, now, left, history>>

\* prune(): take the list of entries once, then drop the oldest while it has
\* expired or the rest exceeds a limit.
Scan(p) ==
    /\ l[p].pc = "scan"
    /\ l' = [l EXCEPT ![p].pc = "prune", ![p].plan = Entries(p)]
    /\ UNCHANGED <<files, now, left, history>>

Oldest(e, es) == e \in es /\ \A f \in es : e.used <= f.used

PruneDone(p) ==
    /\ l[p].pc = "prune"
    /\ \/ l[p].plan = {}
       \/ WithinLimits(l[p].plan) /\ \E e \in l[p].plan : Oldest(e, l[p].plan) /\ ~Expired(e)
    /\ IF l[p].next = "check" THEN l' = [l EXCEPT ![p].pc = "check", ![p].plan = {}]
                              ELSE Return(p, "stored")
    /\ UNCHANGED <<files, now, left, history>>

PruneEvict(p) ==
    /\ l[p].pc = "prune"
    /\ \E e \in l[p].plan :
          /\ Oldest(e, l[p].plan)
          /\ Expired(e) \/ ~WithinLimits(l[p].plan)
          /\ l' = [l EXCEPT ![p].pc = "remove", ![p].victim = e.slot,
                            ![p].plan = l[p].plan \ {e}]
    /\ UNCHANGED <<files, now, left, history>>

\* remove_dir_all(): the files in either order, then the directory.
RemoveFile(p) ==
    LET v == l[p].victim
    IN  /\ l[p].pc = "remove" /\ dirs[v].present
        /\ \/ /\ dirs[v].rec # NoValue
              /\ dirs' = [dirs EXCEPT ![v].rec = NoValue]
           \/ /\ dirs[v].pay # NoValue
              /\ dirs' = [dirs EXCEPT ![v].pay = NoValue]
        /\ UNCHANGED <<pend, made, now, left, l, history>>

RemoveDirectory(p) ==
    LET v == l[p].victim
    IN  /\ l[p].pc = "remove"
        /\ dirs[v].rec = NoValue /\ dirs[v].pay = NoValue
        /\ IF dirs[v].present
           THEN l' = [l EXCEPT ![p].pc = "prune", ![p].victim = NoValue]
           ELSE Return(p, "cache_unavailable")
        /\ dirs' = [dirs EXCEPT ![v] = Absent]
        /\ UNCHANGED <<pend, made, now, left, history>>

Oversized(a) == MaxEntries = 0 \/ PayloadBytes[a] + RecordBytes > MaxBytes

\* Variant: any existing directory is a conflict.
Check_AnyExistingConflicts(p) ==
    /\ l[p].pc = "check"
    /\ IF Oversized(l[p].art) THEN Return(p, "uncached")
       ELSE IF dirs[l[p].slot].present THEN Return(p, "cache_conflict")
       ELSE Goto(p, "create")
    /\ UNCHANGED <<files, now, left, history>>

\* Variant: a different existing payload is replaced in place.
Check_LastWriterWins(p) ==
    LET s == l[p].slot
    IN  /\ l[p].pc = "check"
        /\ \/ /\ ~dirs[s].present
              /\ Goto(p, "create")
              /\ UNCHANGED dirs
           \/ /\ Complete(dirs[s])
              /\ dirs' = [dirs EXCEPT ![s].pay.art = l[p].art, ![s].rec.art = l[p].art]
              /\ l' = [l EXCEPT ![p].pc = "scan", ![p].next = "done"]
        /\ UNCHANGED <<pend, made, now, left, history>>

\* The oversize test and the test for an existing entry.
Check(p) ==
    LET s == l[p].slot
        verdict == Validate(dirs[s].rec, dirs[s].pay)
    IN  /\ l[p].pc = "check"
        /\ \/ /\ Oversized(l[p].art)
              /\ Return(p, "uncached")
              /\ UNCHANGED dirs
           \/ /\ ~Oversized(l[p].art) /\ ~dirs[s].present
              /\ Goto(p, "create")
              /\ UNCHANGED dirs
           \/ /\ ~Oversized(l[p].art) /\ dirs[s].present /\ verdict = "hit"
              /\ Touch(s)
              /\ IF dirs[s].pay.art = l[p].art
                 THEN l' = [l EXCEPT ![p].pc = "scan", ![p].next = "done"]
                 ELSE Return(p, "cache_conflict")
           \/ /\ ~Oversized(l[p].art) /\ dirs[s].present /\ verdict # "hit"
              /\ Return(p, IF verdict = "miss" THEN "cache_conflict" ELSE verdict)
              /\ UNCHANGED dirs
        /\ UNCHANGED <<pend, made, now, left, offered, got>>

\* Variant: the entry directory itself is created and filled.
CreatePending_InPlace(p) ==
    /\ l[p].pc = "create"
    /\ dirs' = [dirs EXCEPT ![l[p].slot].present = TRUE]
    /\ pend' = [pend EXCEPT ![p] = [Absent EXCEPT !.present = TRUE]]
    /\ Goto(p, "payload")
    /\ UNCHANGED <<made, now, left, history>>

CreatePending(p) ==
    /\ l[p].pc = "create"
    /\ pend' = [pend EXCEPT ![p] = [Absent EXCEPT !.present = TRUE]]
    /\ Goto(p, "payload")
    /\ UNCHANGED <<dirs, made, now, left, history>>

\* An entry whose record promises, and whose file has, the same envelope.
Twin(p, e) ==
    LET rec == dirs[e.slot].rec
        a == l[p].art
    IN  /\ (IF rec.full THEN rec.art = a ELSE Code[rec.art] = Code[a])
        /\ e.pay.art = a

Linked(i) == \/ \E s \in Slots : dirs[s].pay # NoValue /\ dirs[s].pay.id = i
             \/ \E q \in Procs : pend[q].pay # NoValue /\ pend[q].pay.id = i
FreshId == CHOOSE i \in PayIds : ~Linked(i) /\ \A j \in PayIds : j < i => Linked(j)

\* Variant: matching bytecode is enough to link, and the record describes the file.
WritePayload_ByBytecode(p) ==
    LET twins == {e \in Entries(p) : Code[e.pay.art] = Code[l[p].art]}
    IN  /\ l[p].pc = "payload"
        /\ \/ \E e \in twins :
                 /\ pend' = [pend EXCEPT ![p].pay = e.pay]
                 /\ l' = [l EXCEPT ![p].pc = "record", ![p].art = e.pay.art]
           \/ /\ twins = {}
              /\ pend' = [pend EXCEPT ![p].pay = [id |-> FreshId, art |-> l[p].art]]
              /\ Goto(p, "record")
        /\ UNCHANGED <<dirs, made, now, left, history>>

WritePayload(p) ==
    LET twins == {e \in Entries(p) : Twin(p, e)}
    IN  /\ l[p].pc = "payload"
        /\ \/ /\ HardLinks
              /\ \E e \in twins : pend' = [pend EXCEPT ![p].pay = e.pay]
           \/ /\ ~HardLinks \/ twins = {}
              /\ pend' = [pend EXCEPT ![p].pay = [id |-> FreshId, art |-> l[p].art]]
        /\ Goto(p, "record")
        /\ UNCHANGED <<dirs, made, now, left, history>>


WriteRecord(p) ==
    /\ l[p].pc = "record"
    /\ pend' = [pend EXCEPT ![p].rec = [art |-> l[p].art, full |-> TRUE], ![p].used = now]
    /\ Goto(p, "rename")
    /\ UNCHANGED <<dirs, made, now, left, history>>

\* Variant: the entry just published is not counted against the limits.
Rename_NoFinalPrune(p) ==
    LET s == l[p].slot
    IN  /\ l[p].pc = "rename" /\ pend[p].present
        /\ dirs' = [dirs EXCEPT ![s] = pend[p]]
        /\ Return(p, "stored")
        /\ pend' = [pend EXCEPT ![p] = Absent]
        /\ UNCHANGED <<made, now, left, offered, got>>

\* The publication.  Renaming fails over a directory that has files, and when
\* the pending directory is gone.
Rename(p) ==
    LET s == l[p].slot
        target == dirs[s]
        fits == pend[p].present /\ target.rec = NoValue /\ target.pay = NoValue
    IN  /\ l[p].pc = "rename"
        /\ \/ /\ fits
              /\ dirs' = [dirs EXCEPT ![s] = pend[p]]
              /\ l' = [l EXCEPT ![p].pc = "scan", ![p].next = "done"]
           \/ /\ ~fits
              /\ Return(p, "cache_unavailable")
              /\ UNCHANGED dirs
        /\ pend' = [pend EXCEPT ![p] = Absent]
        /\ UNCHANGED <<made, now, left, offered, got>>

-----------------------------------------------------------------------------
\* The environment

\* The process dies: the operating system drops its locks, its files stay.
Kill(p) ==
    /\ "kill" \in Faults /\ l[p].pc # "idle"
    /\ Return(p, "cut")
    /\ UNCHANGED <<files, now, left, history>>

\* A file-system call fails: the operation returns and drops its pending
\* directory.  The error kind is cache_unavailable, or cache_corrupt where a
\* payload is read; "cut" keeps it apart from the failures nothing caused.
IoError(p) ==
    /\ "io" \in Faults /\ l[p].pc \notin {"idle", "prune"}
    /\ Return(p, "cut")
    /\ pend' = IF l[p].pc \in {"payload", "record", "rename"}
               THEN [pend EXCEPT ![p] = Absent] ELSE pend
    /\ UNCHANGED <<dirs, made, now, left, history>>

Tick ==
    /\ now < MaxTime
    /\ now' = now + 1
    /\ UNCHANGED <<files, l, left, history>>

Step(p) ==
    \/ LoadNoRoot(p) \/ LoadLock(p) \/ LoadRecord(p) \/ LoadPayload(p)
    \/ StoreLock(p) \/ Reap(p) \/ Scan(p) \/ PruneDone(p) \/ PruneEvict(p)
    \/ RemoveFile(p) \/ RemoveDirectory(p) \/ Check(p) \/ CreatePending(p)
    \/ WritePayload(p) \/ WriteRecord(p) \/ Rename(p)

Next ==
    /\ UNCHANGED env
    /\ \/ \E p \in Procs, k \in Keys :
             \/ \E op \in {"load", "admit"} : BeginLoad(p, op, k)
             \/ \E a \in Builds[k] : BeginStore(p, k, a)
       \/ \E p \in Procs : Step(p) \/ Kill(p) \/ IoError(p)
       \/ Tick

Spec == Init /\ [][Next]_vars

-----------------------------------------------------------------------------
\* Properties


\* An addressable directory that lacks one of its files, and nobody is
\* removing: every load of its key fails, and no prune recognizes it.
Removing(s) == \E p \in Procs : l[p].pc = "remove" /\ l[p].victim = s
Wreck(s) == dirs[s].present /\ ~Complete(dirs[s]) /\ ~Removing(s)

\* Wherever publications, links and evictions meet and are killed, one thing
\* alone leaves a wreck: a process that dies, or whose unlink fails, inside
\* its own eviction of that directory.  A killed publication leaves none.
WrecksComeFromEvictions ==
    [][\A s \in Slots : Wreck(s)' /\ ~Wreck(s) =>
          \E p \in Procs : /\ l[p].pc = "remove" /\ l[p].victim = s
                           /\ l'[p].res = "cut"]_vars

\* load() never returns an artifact that was not handed to store() for this
\* very slot, although payload files are shared between slots by hard links
\* and older records vouch only for the embedded bytecode.
LoadReturnsWhatWasStored ==
    \A p \in Procs : got[p] # NoValue /\ got[p].value # NoValue =>
        <<got[p].slot, got[p].value>> \in offered

\* When compilation is a function of the key, processes that miss together,
\* publish together and evict each other's entries all succeed: no request
\* ends in a conflict, a corrupt or stale entry, or an operation that failed
\* although the file system did not, except on the wreck of an eviction.
ConcurrentAdmissionsSucceed ==
    [][\A p \in Procs : l[p].pc # "idle" /\ l'[p].res \in Failures =>
          Cardinality(Builds[l[p].slot[2]]) > 1 \/ Wreck(l[p].slot)]_vars

\* store() returns success only when the recognized entries of its scope are
\* within the entry, byte and age limits, counting the one it published.
StoreLeavesCacheBounded ==
    [][\A p \in Procs : l'[p].res = "stored" /\ l[p].res # "stored" =>
          WithinLimits(Entries(p)') /\ \A e \in Entries(p)' : ~Expired(e)']_vars



\* The cache implements a map whose bindings appear and vanish atomically,
\* with lookups that take effect at one instant.
Abstract == INSTANCE LossyCache WITH
    Values <- Artifacts,
    Callers <- Procs,
    cached <- [s \in Slots |-> IF Complete(dirs[s]) THEN dirs[s].pay.art ELSE NoValue],
    asked <- [p \in Procs |-> IF l[p].pc \in {"load_lock"} \cup LoadLocked
                              THEN l[p].slot ELSE NoValue],
    answer <- got

ImplementsLossyCache == Abstract!Spec
=============================================================================

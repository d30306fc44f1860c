----------------------------- MODULE FsResource -----------------------------
(***************************************************************************)
(* Filesystem effects under a granted root                                 *)
(* (crates/mncs-model/src/fs_resource.rs: fs_snapshot, fs_realize and      *)
(* fs_mutate).                                                             *)
(*                                                                         *)
(* A program names no paths.  Every call walks the root again, sorts the   *)
(* entries, and addresses one of them by its index in that listing; the    *)
(* call then works on the path with several system calls, while another    *)
(* process changes the same tree between any two of them and the machine   *)
(* may lose power.                                                         *)
(*                                                                         *)
(* Paths are sequences of names, ordered as their bytes are; a file is an  *)
(* inode with a sequence of bytes, each tagged with who wrote it ("p" the  *)
(* program, "o" the other process, "0" a gap).  Of an entry the listing    *)
(* holds path and kind, which readdir gives; the sizes and times that a    *)
(* later stat adds, and the generation digested from them, are left out.   *)
(* The other process puts a link only in the place of a file.              *)
(***************************************************************************)
EXTENDS Integers, Sequences, FiniteSets

CONSTANTS
    Paths,        \* the paths of the model
    Long,         \* those longer than 64 bytes
    FirstTree,    \* path -> kind, as the program finds it
    Calls,        \* the calls the program may make
    MaxEntries,   \* FS_LIST_MAX_ENTRIES
    MaxView,      \* FS_READ_MAX_BYTES
    MaxLen,       \* bound of the model: bytes of a file, and the size of the medium
    Inodes,       \* bound of the model: files ever created
    MaxCalls, MaxOther, MaxCrashes   \* bounds of the model: steps of each kind

Root == <<>>
Parent(p) == SubSeq(p, 1, Len(p) - 1)
\* p lies in the directory d, or in one below it.
Below(d, p) == Len(p) > Len(d) /\ SubSeq(p, 1, Len(d)) = d

ASSUME ConstantsAssumption ==
    /\ Paths \subseteq Seq(Nat) \ {Root} /\ IsFiniteSet(Paths) /\ Long \subseteq Paths
    /\ \A p \in Paths : \A k \in 1 .. Len(p) : SubSeq(p, 1, k) \in Paths
    /\ FirstTree \in [Paths -> {"none", "file", "dir"}]
    /\ \A d, p \in Paths : Below(d, p) /\ FirstTree[p] # "none" => FirstTree[d] = "dir"
    /\ \A d, p \in Paths : Below(d, p) /\ d \in Long => p \in Long
    /\ Calls \subseteq [op : {"count", "entry", "read", "write", "append", "delete", "rename",
                              "sync", "create", "mkdir"},
                        i : Nat, name : Nat, off : Nat, n : Nat, realize : BOOLEAN]
    /\ \A call \in Calls : call.op \in {"create", "mkdir"} /\ call.name # 0 => <<call.name>> \in Paths
    /\ MaxEntries \in Nat /\ MaxView \in Nat /\ MaxLen \in Nat
    /\ Inodes \subseteq Nat \ {0} /\ Inodes # {}
    /\ MaxCalls \in Nat /\ MaxOther \in Nat /\ MaxCrashes \in Nat

VARIABLES
    tree, data,       \* path -> node, inode -> bytes: what every process sees
    dtree, ddata,     \* the same on the medium
    c,                \* the call under way, or the last one and its reply
    memo,             \* the program's memory of a listing: index -> path
    barrier,          \* history: what fs_sync_at has acknowledged and nobody changed since
    left              \* steps left to the program, the other process, the power supply

vars == <<tree, data, dtree, ddata, c, memo, barrier, left>>

Kinds == {"none", "file", "dir", "link"}
Absent == [kind |-> "none", ino |-> 0]
Dir == [kind |-> "dir", ino |-> 0]
Link == [kind |-> "link", ino |-> 0]
FileOf(i) == [kind |-> "file", ino |-> i]
Sibling(p, name) == Append(Parent(p), name)
MinOf(a, b) == IF a <= b THEN a ELSE b

\* Byte order of relative paths.
Less(p, q) ==
    \E k \in 1 .. Len(q) :
        /\ SubSeq(p, 1, MinOf(k - 1, Len(p))) = SubSeq(q, 1, k - 1)
        /\ Len(p) = k - 1 \/ (Len(p) >= k /\ p[k] < q[k])

Exists(t, p) == p = Root \/ (p \in Paths /\ t[p].kind # "none")
IsDir(t, p) == p = Root \/ (p \in Paths /\ t[p].kind = "dir")
Children(t, d) == {p \in Paths : Exists(t, p) /\ Parent(p) = d}
FreeInodes == {i \in Inodes : \A p \in Paths : tree[p].ino # i /\ dtree[p].ino # i} \ {c.fd}
-----------------------------------------------------------------------------
(* The listing. *)
Entry(t, p) == [path |-> p, kind |-> t[p].kind]
Listed(snap) == {e \in snap : e.path \notin Long}
Rank(snap, p) == Cardinality({e \in Listed(snap) : Less(e.path, p)})
HasIndex(snap, i) == i < Cardinality(Listed(snap))
EntryAt(snap, i) == CHOOSE e \in Listed(snap) : Rank(snap, e.path) = i
Lists(snap, p) == \E e \in Listed(snap) : e.path = p

\* would_be_index: the rank a path would take.
WouldBeIndex(snap, p) == Rank(snap, p)
\* Variant: the old place still counts.
RenamedIndex_OldPlaceCounts(snap, p, q) == WouldBeIndex(snap, q)

\* The rank a renamed entry would take: its old place is dropped first.
RenamedIndex(snap, p, q) == WouldBeIndex({e \in snap : e.path # p}, q)

NoCall == [op |-> "none", i |-> 0, name |-> 0, off |-> 0, n |-> 0, realize |-> FALSE]
Idle == [pc |-> "idle", call |-> NoCall, snap |-> {}, todo |-> {}, post |-> FALSE, path |-> Root,
         was |-> "none", len |-> 0, fd |-> 0, st |-> "none", val |-> 0, bytes |-> <<>>]

ByName == {"create", "mkdir"}
ByIndex == {"entry", "read", "write", "append", "delete", "rename", "sync"}

Reply(st, val) == c' = [c EXCEPT !.pc = "idle", !.st = st, !.val = val, !.snap = {}, !.fd = 0]
Goto(pc) == c' = [c EXCEPT !.pc = pc]
SameFiles == UNCHANGED <<tree, data, dtree, ddata, barrier>>
SameWorld == SameFiles /\ UNCHANGED <<memo, left>>

\* Names are policed, never normalised: 0 stands for every refused one.
BadName == 0
Realize == c.call.realize
WalkAgain == c' = [c EXCEPT !.pc = "walk", !.post = TRUE, !.todo = {Root}, !.snap = {}]
Acknowledged == {b \in barrier : tree'[b.path] = FileOf(b.ino) /\ data'[b.ino] = b.bytes}

Begin(call) ==
    /\ c.pc = "idle" /\ left.calls > 0
    /\ c' = [Idle EXCEPT !.pc = "walk", !.call = call, !.todo = {Root}]
    /\ left' = [left EXCEPT !.calls = @ - 1]
    /\ SameFiles /\ UNCHANGED <<memo>>

\* fs_snapshot reads one directory after the other, from a stack whose top is the
\* last in byte order, and holds none of them.
WalkFails == Reply(IF c.post THEN "failed" ELSE "invalid", 0)
WalkDir(d) ==
    /\ c.pc = "walk" /\ d \in c.todo /\ \A e \in c.todo : e = d \/ Less(e, d)
    /\ LET snap == c.snap \cup {Entry(tree, p) : p \in Children(tree, d)}
           todo == (c.todo \ {d}) \cup {p \in Children(tree, d) \ Long : IsDir(tree, p)}
       IN IF ~IsDir(tree, d) \/ Cardinality(Listed(snap)) > MaxEntries
          THEN WalkFails
          ELSE c' = [c EXCEPT !.snap = snap, !.todo = todo,
                              !.pc = CASE todo # {} -> "walk" [] c.post -> "report"
                                       [] OTHER -> "select"]
    /\ SameWorld

\* The observations: the number of entries, or one entry of the listing.
Admitted == CASE c.call.op \in {"delete", "rename"} -> {"file", "dir"}
              [] c.call.op \in {"read", "write", "append", "sync"} -> {"file"}
              [] OTHER -> Kinds
Refused == IF HasIndex(c.snap, c.call.i)
           THEN \/ EntryAt(c.snap, c.call.i).kind \notin Admitted
                \/ c.call.op = "rename" /\ c.call.name = BadName
           ELSE TRUE
AnswerListing ==
    /\ c.pc = "select"
    /\ \/ /\ c.call.op = "count" \/ (c.call.op = "entry" /\ Refused)
          /\ IF c.call.op = "count" THEN Reply("ok", Cardinality(Listed(c.snap)))
             ELSE Reply("invalid", 0)
          /\ UNCHANGED memo
       \/ /\ c.call.op = "entry" /\ ~Refused
          /\ LET e == EntryAt(c.snap, c.call.i)
             IN /\ c' = [c EXCEPT !.pc = "idle", !.st = "ok", !.snap = {}, !.path = e.path]
                /\ memo' = [i |-> c.call.i, path |-> e.path]
    /\ SameFiles /\ UNCHANGED left

\* Creation names its entry in the root, whatever the listing holds.
SelectName ==
    /\ c.pc = "select" /\ c.call.op \in ByName
    /\ IF c.call.name = BadName THEN Reply("invalid", 0)
       ELSE c' = [c EXCEPT !.pc = "probe", !.path = <<c.call.name>>]
    /\ SameWorld

\* The checks against the listing, which is this call's own.
SelectEntry ==
    /\ c.pc = "select" /\ c.call.op \in ByIndex \ {"entry"}
    /\ IF Refused THEN Reply("invalid", 0)
       ELSE LET e == EntryAt(c.snap, c.call.i)
            IN c' = [c EXCEPT !.pc = "resolve", !.path = e.path, !.was = e.kind]
    /\ SameWorld

\* resolve_existing: canonicalize and compare the prefix; a link leads outside.
Resolve ==
    /\ c.pc = "resolve"
    /\ CASE tree[c.path].kind = "none" -> Reply("failed", 0)
         [] tree[c.path].kind = "link" -> Reply("invalid", 0)
         [] OTHER ->
              CASE c.call.op \in {"read", "write"} -> Goto("measure")
                [] c.call.op \in {"append", "sync"} -> IF Realize THEN Goto("open") ELSE WalkAgain
                [] c.call.op = "rename" -> Goto("destination")
                [] c.call.op = "delete" /\ c.was = "dir" -> Goto("empty")
                [] OTHER -> IF Realize THEN Goto("remove") ELSE WalkAgain
    /\ SameWorld

\* The length of the resolved path, or 0 when there is none to be had; a link
\* put there meanwhile is followed by this probe.
Length == CASE tree[c.path].kind = "file" -> Len(data[tree[c.path].ino])
            [] tree[c.path].kind = "none" -> 0
            [] OTHER -> MaxLen
Start(len) == MinOf(c.call.off, len)
End(len) == MinOf(Start(len) + MinOf(c.call.n, MaxView), len)
Measure ==
    /\ c.pc = "measure"
    /\ \E len \in {Length} :
          CASE c.call.op = "write" /\ c.call.off > len -> Reply("invalid", 0)
            [] c.call.op = "write" /\ c.call.off <= len /\ ~Realize -> WalkAgain
            [] c.call.op = "read" /\ Start(len) = End(len) ->
                 c' = [c EXCEPT !.pc = "idle", !.st = "ok", !.snap = {}, !.len = len]
            [] OTHER -> c' = [c EXCEPT !.pc = "open", !.len = len]
    /\ SameWorld

\* open_nofollow: a link is refused; from here on the descriptor names the file.
Open ==
    /\ c.pc = "open"
    /\ LET kind == tree[c.path].kind IN
       \/ kind = "file" /\ c' = [c EXCEPT !.pc = "io", !.fd = tree[c.path].ino]
       \/ kind = "link" /\ Reply("invalid", 0)
       \/ /\ kind \in {"dir", "none"}
          /\ IF kind = "dir" /\ c.call.op = "sync" THEN Goto("dirsync") ELSE Reply("failed", 0)
    /\ SameWorld

\* n bytes written at off, after a gap where the file ends before.
Written(old, off, n) ==
    IF n = 0 THEN old
    ELSE [k \in 1 .. IF Len(old) > off + n THEN Len(old) ELSE off + n |->
            CASE k > off /\ k <= off + n -> "p"
              [] k <= Len(old) /\ (k <= off \/ k > off + n) -> old[k]
              [] OTHER -> "0"]

\* Seek and read_exact of the window that was measured.
ReadFile ==
    /\ c.pc = "io" /\ c.call.op = "read"
    /\ IF Len(data[c.fd]) < End(c.len) THEN Reply("failed", 0)
       ELSE c' = [c EXCEPT !.pc = "idle", !.st = "ok", !.snap = {}, !.fd = 0,
                           !.bytes = SubSeq(data[c.fd], Start(c.len) + 1, End(c.len))]
    /\ SameWorld

\* write_all, which may fail after it has written some of the bytes, and does
\* when the medium is full; what was written stays.
WriteFile ==
    /\ c.pc = "io" /\ c.call.op \in {"create", "write", "append"}
    /\ LET off == CASE c.call.op = "append" -> Len(data[c.fd]) [] c.call.op = "write" -> c.call.off
                    [] OTHER -> 0
       IN \E k \in 0 .. c.call.n :
             /\ k = 0 \/ off + k <= MaxLen
             /\ data' = [data EXCEPT ![c.fd] = Written(@, off, k)]
             /\ UNCHANGED tree /\ barrier' = Acknowledged
             /\ CASE k < c.call.n -> Reply("failed", 0)
                  [] k = c.call.n /\ c.call.op = "create" -> Goto("verify")
                  [] OTHER -> WalkAgain
    /\ UNCHANGED <<tree, dtree, ddata, memo, left>>

\* sync_all of the file, then of its directory and of the root.
SyncFile ==
    /\ c.pc = "io" /\ c.call.op = "sync"
    /\ ddata' = [ddata EXCEPT ![c.fd] = data[c.fd]]
    /\ Goto("dirsync")
    /\ UNCHANGED <<tree, data, dtree, barrier, memo, left>>

\* Variant: only the root is synced.
SyncedDirs_RootOnly == {Root}

SyncedDirs == {Parent(c.path), Root}

\* The directories on the way to p whose own names neither of these two holds.
Between(p) == {d \in Paths : Below(d, p) /\ Parent(d) # Root}

SyncDirs ==
    /\ c.pc = "dirsync"
    /\ IF ~IsDir(tree, Parent(c.path)) THEN Reply("failed", 0) /\ UNCHANGED <<dtree, barrier>>
       ELSE /\ dtree' = [p \in Paths |-> IF Parent(p) \in SyncedDirs THEN tree[p] ELSE dtree[p]]
            /\ barrier' = barrier \cup
                 {b \in {[path |-> c.path, ino |-> c.fd, bytes |-> data[c.fd],
                          firm |-> \A d \in Between(c.path) : dtree[d] = Dir] : k \in {c.fd} \ {0}} :
                     tree[c.path] = FileOf(c.fd) /\ ddata[c.fd] = data[c.fd]}
            /\ WalkAgain
    /\ UNCHANGED <<tree, data, ddata, memo, left>>

\* Exclusive creation: first a look, then the system call, which refuses links too.
Remember(i, p) == memo' = [i |-> i, path |-> p]
Probe ==
    /\ c.pc = "probe"
    /\ CASE Exists(tree, c.path) -> Reply("invalid", 0) /\ UNCHANGED memo
         [] ~Exists(tree, c.path) /\ Realize -> Goto("make") /\ UNCHANGED memo
         [] OTHER -> Reply("ok", WouldBeIndex(c.snap, c.path)) /\ UNCHANGED memo
    /\ SameFiles /\ UNCHANGED left

Make ==
    /\ c.pc = "make"
    /\ CASE Exists(tree, c.path) -> Reply("invalid", 0) /\ UNCHANGED <<tree, data>>
         [] ~Exists(tree, c.path) /\ c.call.op = "mkdir" ->
              tree' = [tree EXCEPT ![c.path] = Dir] /\ WalkAgain /\ UNCHANGED data
         [] OTHER ->
              IF FreeInodes = {} THEN Reply("failed", 0) /\ UNCHANGED <<tree, data>>
              ELSE LET i == CHOOSE i \in FreeInodes : TRUE
                   IN /\ tree' = [tree EXCEPT ![c.path] = FileOf(i)]
                      /\ data' = [data EXCEPT ![i] = <<>>]
                      /\ Goto("open")
    /\ UNCHANGED <<dtree, ddata, memo, barrier, left>>

\* verify_inside_root: what the name leads to after the write.
Verify ==
    /\ c.pc = "verify"
    /\ IF tree[c.path].kind \in {"none", "link"} THEN Reply("failed", 0) ELSE WalkAgain
    /\ SameWorld

\* fs_delete_at: files, links in their place, and empty directories.
LooksEmpty ==
    /\ c.pc = "empty"
    /\ CASE ~IsDir(tree, c.path) -> Reply("failed", 0)
         [] IsDir(tree, c.path) /\ Children(tree, c.path) # {} -> Reply("invalid", 0)
         [] OTHER -> IF Realize THEN Goto("remove") ELSE WalkAgain
    /\ SameWorld

\* Variant: a directory is removed with what it holds.
Removable_Always == IF c.was = "dir" THEN IsDir(tree, c.path) ELSE tree[c.path].kind \in {"file", "link"}

Removable == IF c.was = "dir" THEN IsDir(tree, c.path) /\ Children(tree, c.path) = {}
             ELSE tree[c.path].kind \in {"file", "link"}

Remove ==
    /\ c.pc = "remove"
    /\ IF ~Removable THEN Reply("failed", 0) /\ UNCHANGED <<tree, barrier, memo>>
       ELSE /\ tree' = [tree EXCEPT ![c.path] = Absent] /\ UNCHANGED data
            /\ WalkAgain
            /\ barrier' = Acknowledged
            /\ memo' = [i |-> 0, path |-> Root]
    /\ UNCHANGED <<data, dtree, ddata, left>>

\* fs_rename_at: a new name in the same directory, never over a directory.
Dest == Sibling(c.path, c.call.name)
Destination ==
    /\ c.pc = "destination" /\ Dest \in Paths   \* a bound of the model
    /\ CASE IsDir(tree, Dest) -> Reply("invalid", 0)
         [] ~IsDir(tree, Dest) /\ Realize -> Goto("move")
         [] OTHER -> Reply("ok", RenamedIndex(c.snap, c.path, Dest))
    /\ SameWorld

\* rename(2): p and what is below it takes the place of q.
Moved(t, p, q) ==
    LET From(r) == p \o SubSeq(r, Len(q) + 1, Len(r))
    IN [r \in Paths |->
          CASE r = q \/ Below(q, r) -> IF From(r) \in Paths THEN t[From(r)] ELSE Absent
            [] r # q /\ ~Below(q, r) /\ (r = p \/ Below(p, r)) -> Absent
            [] OTHER -> t[r]]
CanMove(t, p, q) ==
    /\ Exists(t, p)
    /\ \/ ~Exists(t, q)
       \/ ~IsDir(t, p) /\ ~IsDir(t, q)
       \/ IsDir(t, p) /\ IsDir(t, q) /\ Children(t, q) = {}
\* A bound of the model: what moves with p has a path in its new place.
Fits(t, p, q) ==
    \A r \in Paths : Below(p, r) /\ Exists(t, r) => q \o SubSeq(r, Len(p) + 1, Len(r)) \in Paths

Move ==
    /\ c.pc = "move" /\ Fits(tree, c.path, Dest)
    /\ CASE c.path = Dest /\ Exists(tree, c.path) -> WalkAgain /\ UNCHANGED <<tree, barrier>>
         [] c.path # Dest /\ CanMove(tree, c.path, Dest) ->
              /\ tree' = Moved(tree, c.path, Dest) /\ UNCHANGED data
              /\ WalkAgain
              /\ barrier' = Acknowledged
         [] OTHER -> Reply("failed", 0) /\ UNCHANGED <<tree, barrier>>
    /\ UNCHANGED <<data, dtree, ddata, memo, left>>

\* After the mutation the listing is taken again and the reply read off it.
Report ==
    /\ c.pc = "report"
    /\ LET target == IF c.call.op = "rename" THEN Dest ELSE c.path
       IN CASE c.call.op \in ByName \cup {"rename"} ->
                 IF Lists(c.snap, target)
                 THEN Reply("ok", Rank(c.snap, target)) /\ Remember(Rank(c.snap, target), target)
                 ELSE Reply("failed", 0) /\ UNCHANGED memo
            [] OTHER -> Reply("ok", c.call.n) /\ UNCHANGED memo
    /\ SameFiles /\ UNCHANGED left
-----------------------------------------------------------------------------
(* The other process under the same root, and the loss of power. *)
Other ==
    /\ left.other > 0
    /\ left' = [left EXCEPT !.other = @ - 1]
    /\ UNCHANGED <<dtree, ddata, c, memo>>

OtherMakes(p) ==
    /\ Other /\ ~Exists(tree, p) /\ IsDir(tree, Parent(p))
    /\ \/ tree' = [tree EXCEPT ![p] = Dir] /\ UNCHANGED data
       \/ \E i \in {j \in FreeInodes : \A k \in FreeInodes : j <= k} :
             tree' = [tree EXCEPT ![p] = FileOf(i)] /\ data' = [data EXCEPT ![i] = <<"o">>]
    /\ UNCHANGED barrier

OtherRemoves(p) ==
    /\ Other /\ Exists(tree, p) /\ Children(tree, p) = {}
    /\ tree' = [tree EXCEPT ![p] = Absent] /\ UNCHANGED data
    /\ barrier' = Acknowledged

OtherMoves(p, q) ==
    /\ Other /\ p # q /\ IsDir(tree, Parent(q)) /\ ~Below(p, q) /\ ~Below(q, p)
    /\ CanMove(tree, p, q) /\ Fits(tree, p, q)
    /\ tree' = Moved(tree, p, q) /\ UNCHANGED data
    /\ barrier' = Acknowledged

OtherTruncates(p) ==
    /\ Other /\ tree[p].kind = "file" /\ data[tree[p].ino] # <<>>
    /\ data' = [data EXCEPT ![tree[p].ino] = <<>>] /\ UNCHANGED tree
    /\ barrier' = Acknowledged

OtherLinks(p) ==
    /\ Other /\ tree[p].kind = "file"
    /\ tree' = [tree EXCEPT ![p] = Link] /\ UNCHANGED data
    /\ barrier' = Acknowledged

\* Without a barrier each name and each file is as it was or as it is.
Rooted(t) == [p \in Paths |-> IF \A d \in Paths : Below(d, p) => IsDir(t, d) THEN t[p] ELSE Absent]
PowerLoss ==
    /\ left.crashes > 0
    /\ \E kept \in SUBSET {p \in Paths : tree[p] # dtree[p]},
          bytes \in SUBSET {i \in Inodes : data[i] # ddata[i]} :
          /\ tree' = Rooted([p \in Paths |-> IF p \in kept THEN tree[p] ELSE dtree[p]])
          /\ data' = [i \in Inodes |-> IF i \in bytes THEN data[i] ELSE ddata[i]]
    /\ dtree' = tree' /\ ddata' = data'
    /\ c' = Idle /\ memo' = [i |-> 0, path |-> Root]
    /\ left' = [left EXCEPT !.crashes = @ - 1]
    /\ UNCHANGED barrier

FirstNode(p) == CASE FirstTree[p] = "file" -> FileOf(CHOOSE i \in Inodes : \A j \in Inodes : i <= j)
                  [] FirstTree[p] = "dir" -> Dir
                  [] OTHER -> Absent

Init ==
    /\ tree = [p \in Paths |-> FirstNode(p)]
    /\ data = [i \in Inodes |-> <<"o">>]
    /\ dtree = tree /\ ddata = data
    /\ c = Idle /\ memo = [i |-> 0, path |-> Root]
    /\ barrier = {}
    /\ left = [calls |-> MaxCalls, other |-> MaxOther, crashes |-> MaxCrashes]

Next ==
    \/ \E call \in Calls : Begin(call)
    \/ \E d \in Paths \cup {Root} : WalkDir(d)
    \/ AnswerListing \/ SelectName \/ SelectEntry \/ Resolve \/ Measure \/ Open \/ ReadFile \/ WriteFile \/ SyncFile \/ SyncDirs
    \/ Probe \/ Make \/ Verify \/ LooksEmpty \/ Remove \/ Destination \/ Move \/ Report
    \/ \E p \in Paths : OtherMakes(p) \/ OtherRemoves(p) \/ OtherTruncates(p) \/ OtherLinks(p)
    \/ \E p, q \in Paths : OtherMoves(p, q)
    \/ PowerLoss

Spec == Init /\ [][Next]_vars
-----------------------------------------------------------------------------
(* Properties. *)
Snapshot(t) == {Entry(t, p) : p \in {q \in Paths : Exists(t, q)}}

\* The tree stays a tree: whatever fs_delete_at and fs_rename_at do while another
\* process works in the same directories, no entry is left without its directory.
NoEntryIsOrphaned == \A p \in Paths : Exists(tree, p) => IsDir(tree, Parent(p))

\* What fs_sync_at has acknowledged survives the loss of power, the bytes and the
\* name, until somebody changes one of them: of a file in the root or in one of its
\* directories always, of a deeper one where the directories between, which the
\* barrier does not sync, were on the medium when it was acknowledged.
BarrierIsDurable ==
    \A b \in barrier : b.firm => tree[b.path] = FileOf(b.ino) /\ data[b.ino] = b.bytes

\* A call that only records intent (realize = false) answers with the index that the
\* same call would be given if it were carried out on the same tree; here for
\* creation and for the renaming of files.
IntentIsExact ==
    LET now == Snapshot(tree) IN
    \A p \in Paths \ Long : IsDir(tree, Parent(p)) =>
        /\ ~Exists(tree, p) => LET t == [tree EXCEPT ![p] = Dir]
                               IN WouldBeIndex(now, p) = Rank(Snapshot(t), p)
        /\ \A q \in Paths \ Long :
              /\ tree[q].kind = "file" /\ Parent(q) = Parent(p)
              /\ ~IsDir(tree, p) /\ CanMove(tree, q, p)
              => RenamedIndex(now, q, p) = Rank(Snapshot(Moved(tree, q, p)), p)
=============================================================================

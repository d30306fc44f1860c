------------------------------ MODULE TaskScope ------------------------------
(***************************************************************************)
(* Structured task scopes over one verified artifact                       *)
(* (crates/mncs-embed/src/scope.rs).                                       *)
(*                                                                         *)
(* Host threads call run_batch and run_concurrent on a shared scope while  *)
(* others call cancel and close.  run_concurrent cuts the items into chunks*)
(* of equal length, spawns one worker thread per chunk, joins the workers  *)
(* in order and merges their outputs by index; run_batch is one worker on  *)
(* the calling thread.  The two flags are monotone, so reading them one    *)
(* after the other, as the code does, gives a value they jointly had at    *)
(* some instant between: one step.                                         *)
(*                                                                         *)
(* Abstracted: arguments and returned values; a call's status is "returned"*)
(* or "failed" for any other status of an executed call.                   *)
(***************************************************************************)
EXTENDS Integers, Sequences, FiniteSets

CONSTANTS
    Runs,            \* the host calls of run_batch and run_concurrent
    Items,           \* run -> the numbers of items it may be given
    MaxItems,        \* bound of the model: items of one run
    Requested,       \* the capacity handed to open
    MaxWorkers,      \* the upper end of the clamp (64 in the code)
    SessionsFail,    \* reopening a session may be refused
    NoReport

ASSUME ConstantsAssumption ==
    /\ IsFiniteSet(Runs)
    /\ MaxItems \in Nat /\ Requested \in Nat
    /\ Items \in [Runs -> SUBSET (0 .. MaxItems)]
    /\ MaxWorkers \in Nat /\ MaxWorkers >= 1
    /\ SessionsFail \in BOOLEAN

VARIABLES
    closed, cancelled,   \* the scope's flags
    cleanups,            \* the scope's counter of cancelled outputs
    run,                 \* host call -> its state
    wk,                  \* host call -> worker -> its state
    calls                \* history: host call -> item -> times executed

vars == <<closed, cancelled, cleanups, run, wk, calls>>

MinOf(a, b) == IF a <= b THEN a ELSE b

\* open() clamps the capacity to 1..=64.
Capacity == IF Requested < 1 THEN 1 ELSE MinOf(Requested, MaxWorkers)

Indices == 0 .. MaxItems - 1
Workers == 1 .. MaxWorkers
Statuses == {"returned", "failed", "unsupported", "cancelled"}
Output == [index : Indices, status : Statuses]
Report == [results : Seq(Output), first_failure : Nat \cup {-1}, executed : Nat,
           cancelled_count : Nat, cleanups : Nat]
RunState == [pc : {"idle", "spawning", "joining", "inline", "done", "refused"},
             n : 0 .. MaxItems, spawned : 0 .. MaxWorkers, joined : 0 .. MaxWorkers,
             outputs : Seq(Output), report : Report \cup {NoReport}]
WorkerState == [pc : {"none", "begin", "cancel", "open", "item", "checked", "call", "done"},
                outs : Seq(Output), late : Nat]

NoWorker == [pc |-> "none", outs |-> <<>>, late |-> 0]
NoRun == [pc |-> "idle", n |-> 0, spawned |-> 0, joined |-> 0, outputs |-> <<>>,
          report |-> NoReport]

TypeOK ==
    /\ closed \in BOOLEAN /\ cancelled \in BOOLEAN /\ cleanups \in Nat
    /\ run \in [Runs -> RunState]
    /\ wk \in [Runs -> [Workers -> WorkerState]]
    /\ calls \in [Runs -> [Indices -> Nat]]

Init ==
    /\ closed = FALSE /\ cancelled = FALSE /\ cleanups = 0
    /\ run = [r \in Runs |-> NoRun]
    /\ wk = [r \in Runs |-> [c \in Workers |-> NoWorker]]
    /\ calls = [r \in Runs |-> [i \in Indices |-> 0]]

-----------------------------------------------------------------------------
\* How the items of a run are cut into chunks

CeilDiv(a, b) == (a + b - 1) \div b

ChunkLen(n) == CeilDiv(n, MinOf(Capacity, n))
Chunks(n) == CeilDiv(n, ChunkLen(n))

Inline(r) == run[r].pc = "inline"

\* Variant: the base of a short last piece is computed from its own length.
Base_OwnLength(r, c) ==
    LET full == ChunkLen(run[r].n)
    IN  IF Inline(r) THEN 0 ELSE (c - 1) * MinOf(full, run[r].n - (c - 1) * full)

\* First index and length of worker c's piece; run_batch has one piece.
Base(r, c) == IF Inline(r) THEN 0 ELSE (c - 1) * ChunkLen(run[r].n)
PieceLen(r, c) ==
    IF Inline(r) THEN run[r].n
    ELSE MinOf(ChunkLen(run[r].n), run[r].n - Base(r, c))

\* Index of the item the worker is at.
At(r, c) == Base(r, c) + Len(wk[r][c].outs)
Exhausted(r, c) == Len(wk[r][c].outs) = PieceLen(r, c)

Stopped == closed \/ cancelled

-----------------------------------------------------------------------------
\* finish()

\* sort_by_key is stable: outputs of one index would keep their order.
Rank(s, i) ==
    Cardinality({j \in DOMAIN s : \/ s[j].index < s[i].index
                                  \/ s[j].index = s[i].index /\ j <= i})
SortByIndex(s) == [k \in DOMAIN s |-> s[CHOOSE i \in DOMAIN s : Rank(s, i) = k]]

Count(s, T(_)) == Cardinality({i \in DOMAIN s : T(s[i])})
IsCancelled(o) == o.status = "cancelled"
IsExecuted(o) == ~IsCancelled(o)
IsFailure(o) == o.status \in {"failed", "unsupported"}

FirstFailure(s) ==
    LET failures == {i \in DOMAIN s : IsFailure(s[i])}
    IN  IF failures = {} THEN -1
        ELSE s[CHOOSE i \in failures : \A j \in failures : i <= j].index

Finish(outputs) ==
    LET s == SortByIndex(outputs)
    IN  [results |-> s, first_failure |-> FirstFailure(s),
         executed |-> Count(s, IsExecuted),
         cancelled_count |-> Count(s, IsCancelled), cleanups |-> cleanups]

-----------------------------------------------------------------------------
\* The host: cancel, close, and starting a run

Cancel ==
    /\ ~cancelled
    /\ cancelled' = TRUE
    /\ UNCHANGED <<closed, cleanups, run, wk, calls>>

Close ==
    /\ ~closed
    /\ closed' = TRUE
    /\ UNCHANGED <<cancelled, cleanups, run, wk, calls>>

Refuse(r) ==
    /\ run[r].pc = "idle" /\ closed
    /\ run' = [run EXCEPT ![r].pc = "refused"]
    /\ UNCHANGED <<closed, cancelled, cleanups, wk, calls>>

RunConcurrent(r, n) ==
    /\ run[r].pc = "idle" /\ ~closed
    /\ run' = [run EXCEPT ![r] =
                 IF n = 0 THEN [NoRun EXCEPT !.pc = "done", !.report = Finish(<<>>)]
                 ELSE [NoRun EXCEPT !.pc = "spawning", !.n = n]]
    /\ UNCHANGED <<closed, cancelled, cleanups, wk, calls>>

\* run_batch: the session is opened first; a refusal ends the run.
RunBatch(r, n) ==
    /\ run[r].pc = "idle" /\ ~closed
    /\ \/ /\ run' = [run EXCEPT ![r] = [NoRun EXCEPT !.pc = "inline", !.n = n]]
          /\ wk' = [wk EXCEPT ![r][1].pc = "item"]
       \/ /\ SessionsFail
          /\ run' = [run EXCEPT ![r].pc = "refused"]
          /\ UNCHANGED wk
    /\ UNCHANGED <<closed, cancelled, cleanups, calls>>

Spawn(r) ==
    /\ run[r].pc = "spawning"
    /\ LET c == run[r].spawned + 1
       IN  /\ wk' = [wk EXCEPT ![r][c].pc = "begin"]
           /\ run' = [run EXCEPT ![r].spawned = c,
                        ![r].pc = IF c = Chunks(run[r].n) THEN "joining" ELSE "spawning"]
    /\ UNCHANGED <<closed, cancelled, cleanups, calls>>

-----------------------------------------------------------------------------
\* A worker

Emit(r, c, status, pc) ==
    wk' = [wk EXCEPT ![r][c].outs = Append(wk[r][c].outs, [index |-> At(r, c), status |-> status]),
                     ![r][c].pc = pc]

\* Flags are looked at once before the session is opened.
Begin(r, c) ==
    /\ wk[r][c].pc = "begin"
    /\ wk' = [wk EXCEPT ![r][c].pc = IF Stopped THEN "cancel" ELSE "open"]
    /\ UNCHANGED <<closed, cancelled, cleanups, run, calls>>

\* The whole piece is cancelled, an output at a time.
CancelPiece(r, c) ==
    /\ wk[r][c].pc = "cancel" /\ ~Exhausted(r, c)
    /\ cleanups' = cleanups + 1
    /\ Emit(r, c, "cancelled", "cancel")
    /\ UNCHANGED <<closed, cancelled, run, calls>>

\* Session::open for this worker; a refusal marks every item of the piece.
OpenSession(r, c) ==
    /\ wk[r][c].pc = "open"
    /\ \/ wk' = [wk EXCEPT ![r][c].pc = "item"]
       \/ /\ SessionsFail
          /\ wk' = [wk EXCEPT ![r][c].pc = "done", ![r][c].outs =
                [i \in 1 .. PieceLen(r, c) |->
                    [index |-> Base(r, c) + i - 1, status |-> "unsupported"]]]
    /\ UNCHANGED <<closed, cancelled, cleanups, run, calls>>

\* Variant: items after the first are not checked against the flags.
CheckItem_OncePerPiece(r, c) ==
    /\ wk[r][c].pc = "item" /\ ~Exhausted(r, c)
    /\ IF Stopped /\ wk[r][c].outs = <<>>
       THEN cleanups' = cleanups + 1 /\ Emit(r, c, "cancelled", "item")
       ELSE wk' = [wk EXCEPT ![r][c].pc = "checked"] /\ UNCHANGED cleanups
    /\ UNCHANGED <<closed, cancelled, run, calls>>


CheckItem(r, c) ==
    /\ wk[r][c].pc = "item" /\ ~Exhausted(r, c)
    /\ \/ /\ Stopped
          /\ cleanups' = cleanups + 1
          /\ Emit(r, c, "cancelled", "item")
       \/ /\ ~Stopped
          /\ wk' = [wk EXCEPT ![r][c].pc = "checked"]
          /\ UNCHANGED cleanups
    /\ UNCHANGED <<closed, cancelled, run, calls>>

\* session.call begins; late counts the calls begun after cancel or close.
CallStart(r, c) ==
    /\ wk[r][c].pc = "checked"
    /\ calls' = [calls EXCEPT ![r][At(r, c)] = calls[r][At(r, c)] + 1]
    /\ wk' = [wk EXCEPT ![r][c].pc = "call",
                        ![r][c].late = wk[r][c].late + IF Stopped THEN 1 ELSE 0]
    /\ UNCHANGED <<closed, cancelled, cleanups, run>>

CallEnd(r, c) ==
    /\ wk[r][c].pc = "call"
    /\ \E status \in {"returned", "failed"} : Emit(r, c, status, "item")
    /\ UNCHANGED <<closed, cancelled, cleanups, run, calls>>

\* Variant: a worker that cancelled its piece does not end.
WorkerDone_ItemsOnly(r, c) ==
    /\ wk[r][c].pc = "item" /\ Exhausted(r, c)
    /\ wk' = [wk EXCEPT ![r][c].pc = "done"]
    /\ UNCHANGED <<closed, cancelled, cleanups, run, calls>>

WorkerDone(r, c) ==
    /\ wk[r][c].pc \in {"cancel", "item"} /\ Exhausted(r, c)
    /\ wk' = [wk EXCEPT ![r][c].pc = "done"]
    /\ UNCHANGED <<closed, cancelled, cleanups, run, calls>>

-----------------------------------------------------------------------------
\* Joining and finishing

\* Workers are joined in the order they were spawned, whichever ends first.
Join(r) ==
    /\ run[r].pc = "joining" /\ run[r].joined < run[r].spawned
    /\ LET c == run[r].joined + 1
       IN  /\ wk[r][c].pc = "done"
           /\ run' = [run EXCEPT ![r].joined = c,
                                 ![r].outputs = run[r].outputs \o wk[r][c].outs]
    /\ UNCHANGED <<closed, cancelled, cleanups, wk, calls>>

FinishConcurrent(r) ==
    /\ run[r].pc = "joining" /\ run[r].joined = run[r].spawned
    /\ run' = [run EXCEPT ![r].pc = "done", ![r].report = Finish(run[r].outputs)]
    /\ UNCHANGED <<closed, cancelled, cleanups, wk, calls>>

FinishBatch(r) ==
    /\ run[r].pc = "inline" /\ wk[r][1].pc = "done"
    /\ run' = [run EXCEPT ![r].pc = "done", ![r].report = Finish(wk[r][1].outs)]
    /\ UNCHANGED <<closed, cancelled, cleanups, wk, calls>>

WorkerStep(r, c) ==
    \/ Begin(r, c) \/ CancelPiece(r, c) \/ OpenSession(r, c) \/ CheckItem(r, c)
    \/ CallStart(r, c) \/ CallEnd(r, c) \/ WorkerDone(r, c)
RunStep(r) == Spawn(r) \/ Join(r) \/ FinishConcurrent(r) \/ FinishBatch(r)

Next ==
    \/ Cancel \/ Close
    \/ \E r \in Runs :
          \/ Refuse(r)
          \/ \E n \in Items[r] : RunConcurrent(r, n) \/ RunBatch(r, n)
          \/ RunStep(r)
          \/ \E c \in Workers : WorkerStep(r, c)

Spec == Init /\ [][Next]_vars

\* Host threads are scheduled, and a call ends: its step budget bounds it.
FairSpec ==
    /\ Spec
    /\ \A r \in Runs : WF_vars(RunStep(r)) /\ \A c \in Workers : WF_vars(WorkerStep(r, c))

-----------------------------------------------------------------------------
\* Properties

Finished(r) == run[r].pc = "done"

\* A finished run reports every item exactly once, in index order, whatever
\* the order in which workers ran, failed or saw the cancellation; and it
\* reports an execution exactly for the items that were executed.
MergeIsByIndex ==
    \A r \in Runs : Finished(r) =>
        LET s == run[r].report.results
        IN  /\ Len(s) = run[r].n
            /\ \A i \in DOMAIN s :
                  /\ s[i].index = i - 1
                  /\ calls[r][i - 1] = IF s[i].status \in {"returned", "failed"} THEN 1 ELSE 0


\* Cancellation and close are seen between items: after either, a worker
\* begins at most the one call it had already decided on.
AtMostOneLateCall == \A r \in Runs, c \in Workers : wk[r][c].late <= 1

\* Every run returns: workers end, and the caller joins all of them.
RunsReturn == \A r \in Runs : run[r].pc \notin {"idle"} ~> run[r].pc \in {"done", "refused"}

=============================================================================

--------------------------- MODULE BoundedProcess ---------------------------
(***************************************************************************)
(* run_bounded (crates/mncs-model/src/process.rs), the one-shot process    *)
(* capability behind `mncs process`: the calling thread polls the child    *)
(* until it exits or the deadline passes, one reader thread per output     *)
(* stream drains the pipe into a bounded capture, a detached thread feeds  *)
(* stdin.                                                                  *)
(*                                                                         *)
(* Abstracted: bytes are counted in chunks; the request has been validated *)
(* (a refused request changes nothing); environment, directory and exit    *)
(* codes (a child succeeds exactly when it exits by itself); failing       *)
(* system calls of the poll loop.                                          *)
(***************************************************************************)
EXTENDS Integers, FiniteSets

CONSTANTS
    Streams,      \* stdout and stderr
    Limit,        \* capture limit of a stream, in chunks
    PipeCap,      \* chunks the operating system buffers in a pipe
    MaxOutput,    \* bound of the model: chunks written to a stream
    StdinChunks,  \* chunks of input
    Deadline, MaxTime,
    Descendants   \* the child may leave a process behind that inherits its pipes

ASSUME ConstantsAssumption ==
    /\ IsFiniteSet(Streams)
    /\ Limit \in Nat /\ PipeCap \in Nat \ {0} /\ MaxOutput \in Nat /\ StdinChunks \in Nat
    /\ Deadline \in Nat \ {0} /\ MaxTime \in Nat /\ MaxTime >= Deadline
    /\ Descendants \in BOOLEAN

VARIABLES
    now,
    child,      \* "running", "exited" (by itself, not yet reaped), "killed" (by a
                \* signal, not yet reaped), "reaped"
    heir,       \* "none", or a descendant "running" with the pipes, or "gone"
    out,        \* stream -> chunks written so far
    pipe,       \* stream -> chunks in the pipe
    input,      \* chunks the stdin thread still has, and chunks in that pipe
    reader,     \* stream -> [got, truncated, done, failed]
    caller      \* [pc, timed_out, success, joined]

vars == <<now, child, heir, out, pipe, input, reader, caller>>

TypeOK ==
    /\ now \in 0 .. MaxTime
    /\ child \in {"running", "exited", "killed", "reaped"}
    /\ heir \in {"none", "running", "gone"}
    /\ out \in [Streams -> 0 .. MaxOutput]
    /\ pipe \in [Streams -> 0 .. PipeCap]
    /\ input \in [left : 0 .. StdinChunks, pipe : 0 .. PipeCap]
    /\ reader \in [Streams -> [got : 0 .. Limit, truncated : BOOLEAN, done : BOOLEAN, failed : BOOLEAN]]
    /\ caller \in [pc : {"poll", "wait", "join", "returned"}, timed_out : BOOLEAN,
                   success : BOOLEAN, joined : SUBSET Streams]

Init ==
    /\ now = 0 /\ child = "running" /\ heir = "none"
    /\ out = [s \in Streams |-> 0] /\ pipe = [s \in Streams |-> 0]
    /\ input = [left |-> StdinChunks, pipe |-> 0]
    /\ reader = [s \in Streams |-> [got |-> 0, truncated |-> FALSE, done |-> FALSE, failed |-> FALSE]]
    /\ caller = [pc |-> "poll", timed_out |-> FALSE, success |-> FALSE, joined |-> {}]

-----------------------------------------------------------------------------
\* The program that is run, and its descendant

PipeHeld == child = "running" \/ heir = "running"

\* Some process of the tree writes; it blocks while the pipe is full.  A reader
\* that failed has closed its end: nothing can be written any more.
Write(s) ==
    /\ PipeHeld /\ ~reader[s].failed
    /\ out[s] < MaxOutput /\ pipe[s] < PipeCap
    /\ out' = [out EXCEPT ![s] = out[s] + 1]
    /\ pipe' = [pipe EXCEPT ![s] = pipe[s] + 1]
    /\ UNCHANGED <<now, child, heir, input, reader, caller>>

\* Writing to a closed pipe ends the child by SIGPIPE; one that ignores the
\* signal goes on without that output.
BrokenPipe(s) ==
    /\ child = "running" /\ reader[s].failed /\ out[s] < MaxOutput
    /\ child' = "killed"
    /\ UNCHANGED <<now, heir, out, pipe, input, reader, caller>>

ReadInput ==
    /\ child = "running" /\ input.pipe > 0
    /\ input' = [input EXCEPT !.pipe = input.pipe - 1]
    /\ UNCHANGED <<now, child, heir, out, pipe, reader, caller>>

Fork ==
    /\ Descendants /\ child = "running" /\ heir = "none"
    /\ heir' = "running"
    /\ UNCHANGED <<now, child, out, pipe, input, reader, caller>>

HeirExit ==
    /\ heir = "running"
    /\ heir' = "gone"
    /\ UNCHANGED <<now, child, out, pipe, input, reader, caller>>

ChildExit ==
    /\ child = "running"
    /\ child' = "exited"
    /\ UNCHANGED <<now, heir, out, pipe, input, reader, caller>>

Tick ==
    /\ now < MaxTime
    /\ now' = now + 1
    /\ UNCHANGED <<child, heir, out, pipe, input, reader, caller>>

-----------------------------------------------------------------------------
\* The helper threads

\* The detached stdin thread: write_all, errors ignored.
FeedInput ==
    /\ input.left > 0
    /\ \/ /\ child = "running" /\ input.pipe < PipeCap
          /\ input' = [input EXCEPT !.left = input.left - 1, !.pipe = input.pipe + 1]
       \/ /\ ~PipeHeld
          /\ input' = [input EXCEPT !.left = 0]
    /\ UNCHANGED <<now, child, heir, out, pipe, reader, caller>>


\* read_bounded: keep draining beyond the limit, and say so.
ReadChunk(s) ==
    /\ ~reader[s].done /\ pipe[s] > 0
    /\ pipe' = [pipe EXCEPT ![s] = pipe[s] - 1]
    /\ reader' = [reader EXCEPT ![s] =
                    IF reader[s].got < Limit
                    THEN [reader[s] EXCEPT !.got = reader[s].got + 1]
                    ELSE [reader[s] EXCEPT !.truncated = TRUE]]
    /\ UNCHANGED <<now, child, heir, out, input, caller>>

\* Variant: an empty pipe with no writer is not taken for the end of a full capture.
ReadEnd_FullOnly(s) ==
    /\ ~reader[s].done /\ pipe[s] = 0 /\ ~PipeHeld /\ reader[s].got < Limit
    /\ reader' = [reader EXCEPT ![s].done = TRUE]
    /\ UNCHANGED <<now, child, heir, out, pipe, input, caller>>

\* End of file: nobody holds the write end any more.
ReadEnd(s) ==
    /\ ~reader[s].done /\ pipe[s] = 0 /\ ~PipeHeld
    /\ reader' = [reader EXCEPT ![s].done = TRUE]
    /\ UNCHANGED <<now, child, heir, out, pipe, input, caller>>

\* A read fails, an interrupted one included: the capture ends as at the end of
\* file, and what is still in the pipe is lost with it.
ReadFails(s) ==
    /\ ~reader[s].done
    /\ reader' = [reader EXCEPT ![s] = [reader[s] EXCEPT !.done = TRUE, !.failed = TRUE]]
    /\ UNCHANGED <<now, child, heir, out, pipe, input, caller>>

-----------------------------------------------------------------------------
\* The calling thread

\* try_wait finds the child gone, or the deadline has passed and it is killed.
PollExited ==
    /\ caller.pc = "poll" /\ child \in {"exited", "killed"}
    /\ child' = "reaped"
    /\ caller' = [caller EXCEPT !.pc = "join", !.success = (child = "exited")]
    /\ UNCHANGED <<now, heir, out, pipe, input, reader>>

\* try_wait says the child runs; it may exit before kill() reaches it, which
\* then has no effect.
PollExpired ==
    /\ caller.pc = "poll" /\ child = "running" /\ now >= Deadline
    /\ child' \in {"killed", "exited"}
    /\ caller' = [caller EXCEPT !.pc = "wait", !.timed_out = TRUE]
    /\ UNCHANGED <<now, heir, out, pipe, input, reader>>

\* Variant: the killed child is not waited for.
Wait_Skipped ==
    /\ caller.pc = "wait"
    /\ caller' = [caller EXCEPT !.pc = "join", !.success = (child = "exited")]
    /\ UNCHANGED <<now, child, heir, out, pipe, input, reader>>

Wait ==
    /\ caller.pc = "wait" /\ child \in {"killed", "exited"}
    /\ child' = "reaped"
    /\ caller' = [caller EXCEPT !.pc = "join", !.success = (child = "exited")]
    /\ UNCHANGED <<now, heir, out, pipe, input, reader>>

\* Variant: the result is built without joining the readers.
Join_Skipped(s) ==
    /\ caller.pc = "join" /\ s \notin caller.joined
    /\ caller' = [caller EXCEPT !.joined = caller.joined \cup {s},
                    !.pc = IF caller.joined \cup {s} = Streams THEN "returned" ELSE "join"]
    /\ UNCHANGED <<now, child, heir, out, pipe, input, reader>>

Join(s) ==
    /\ caller.pc = "join" /\ s \notin caller.joined /\ reader[s].done
    /\ caller' = [caller EXCEPT !.joined = caller.joined \cup {s},
                    !.pc = IF caller.joined \cup {s} = Streams THEN "returned" ELSE "join"]
    /\ UNCHANGED <<now, child, heir, out, pipe, input, reader>>

Readers == \E s \in Streams : ReadChunk(s) \/ ReadEnd(s)
Caller == PollExited \/ PollExpired \/ Wait \/ \E s \in Streams : Join(s)
Program == ReadInput \/ Fork \/ HeirExit \/ ChildExit
           \/ \E s \in Streams : Write(s) \/ BrokenPipe(s)

Next == Program \/ FeedInput \/ Readers \/ (\E s \in Streams : ReadFails(s)) \/ Caller \/ Tick

Spec == Init /\ [][Next]_vars

\* Threads are scheduled and time passes; the program owes nothing.
FairSpec == Spec /\ WF_vars(Tick) /\ WF_vars(Readers) /\ WF_vars(Caller)

-----------------------------------------------------------------------------
\* Properties

Returned == caller.pc = "returned"

\* The result holds all the output of the tree, up to the limit, and the
\* truncation mark is set exactly when there was more: joining the readers
\* waits for what is still in the pipes when the child ends.  A reader whose
\* read failed keeps what it had; nothing is invented, and only then is output
\* missing without a mark.
CaptureIsExact ==
    Returned => \A s \in Streams :
        LET whole == IF out[s] <= Limit THEN out[s] ELSE Limit IN
        /\ reader[s].got <= whole
        /\ reader[s].truncated => out[s] > Limit
        /\ reader[s].got < whole \/ reader[s].truncated # (out[s] > Limit) => reader[s].failed

\* A returned result means the child has been reaped: no zombie, no child
\* that outlives its deadline.
ChildIsReaped == Returned => child = "reaped"

\* A bounded process: whatever the child does, the call returns.  Only a
\* descendant that holds the pipes for ever can keep it: the deadline kills
\* the child and the readers are joined all the same.
CallReturns == <>Returned \/ <>[](heir = "running")

=============================================================================

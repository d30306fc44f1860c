------------------------ MODULE BoundedProcessProofs ------------------------
(***************************************************************************)
(* CaptureIsExact and ChildIsReaped for every number of streams, capture   *)
(* limit, pipe capacity, deadline and amount of output.                    *)
(*                                                                         *)
(* Neither is inductive.  The capture is exact because of a conservation   *)
(* law that holds at every instant (Conserved: what has left the pipe is   *)
(* in the capture or is marked as truncated), because a reader that ended  *)
(* without a failure saw an empty pipe that nobody can write to again      *)
(* (EndIsFinal), and because the caller returns only after every reader    *)
(* ended (JoinsReaders).                                                   *)
(***************************************************************************)
EXTENDS BoundedProcess, TLAPS

\* What has left the pipe of s was captured up to the limit, and truncation
\* is marked exactly when more than the limit has left it.
Conserved ==
    \A s \in Streams :
        /\ pipe[s] <= out[s]
        /\ reader[s].got = IF out[s] - pipe[s] <= Limit THEN out[s] - pipe[s] ELSE Limit
        /\ reader[s].truncated <=> (out[s] - pipe[s] > Limit)

\* A reader ends on an empty pipe without writers, and that is for good, or its
\* read failed.
EndIsFinal ==
    \A s \in Streams : reader[s].done => reader[s].failed \/ (pipe[s] = 0 /\ ~PipeHeld)

\* The caller counts only ended readers, and returns when it has them all.
JoinsReaders ==
    /\ \A s \in caller.joined : reader[s].done
    /\ caller.pc = "returned" => caller.joined = Streams

\* Once the caller joins readers the child has been waited for.
Reaps == /\ caller.pc = "wait" => child \in {"killed", "exited"}
         /\ caller.pc \in {"join", "returned"} => child = "reaped"

IndInv == TypeOK /\ Conserved /\ EndIsFinal /\ JoinsReaders /\ Reaps

\* The invariant holds when the child has just been spawned.
LEMMA InitInv == Init => IndInv
<1> SUFFICES ASSUME Init PROVE IndInv
    OBVIOUS
<1> USE ConstantsAssumption
<1>1. TypeOK
    <2>1. 0 \in 0 .. MaxTime /\ 0 \in 0 .. MaxOutput /\ 0 \in 0 .. PipeCap /\ 0 \in 0 .. Limit
        OBVIOUS
    <2>2. StdinChunks \in 0 .. StdinChunks
        OBVIOUS
    <2>3. reader \in [Streams -> [got : 0 .. Limit, truncated : BOOLEAN, done : BOOLEAN, failed : BOOLEAN]]
        BY <2>1 DEF Init
    <2>4. out \in [Streams -> 0 .. MaxOutput] /\ pipe \in [Streams -> 0 .. PipeCap]
        BY <2>1 DEF Init
    <2>5. caller \in [pc : {"poll", "wait", "join", "returned"}, timed_out : BOOLEAN,
                      success : BOOLEAN, joined : SUBSET Streams]
        BY DEF Init
    <2>6. input \in [left : 0 .. StdinChunks, pipe : 0 .. PipeCap]
        BY <2>1, <2>2 DEF Init
    <2> QED
        BY <2>1, <2>3, <2>4, <2>5, <2>6 DEF Init, TypeOK
<1>2. Conserved
    <2> SUFFICES ASSUME NEW s \in Streams
                 PROVE /\ pipe[s] <= out[s]
                       /\ reader[s].got = IF out[s] - pipe[s] <= Limit
                                          THEN out[s] - pipe[s] ELSE Limit
                       /\ reader[s].truncated <=> (out[s] - pipe[s] > Limit)
        BY DEF Conserved
    <2>1. out[s] = 0 /\ pipe[s] = 0 /\ reader[s].got = 0 /\ reader[s].truncated = FALSE
        BY DEF Init
    <2>2. ~ (0 - 0 > Limit)
        OBVIOUS
    <2> QED
        BY <2>1, <2>2
<1>3. EndIsFinal /\ JoinsReaders /\ Reaps
    BY DEF Init, EndIsFinal, JoinsReaders, Reaps
<1> QED
    BY <1>1, <1>2, <1>3 DEF IndInv

\* Each step of the program, the helper threads and the caller preserves it.
LEMMA NextInv == IndInv /\ [Next]_vars => IndInv'
<1> SUFFICES ASSUME IndInv, [Next]_vars PROVE IndInv'
    OBVIOUS
<1> USE ConstantsAssumption
        DEF IndInv, TypeOK, Conserved, EndIsFinal, JoinsReaders, Reaps, PipeHeld
<1>1. ASSUME NEW s \in Streams, Write(s) PROVE IndInv'
    BY <1>1 DEF Write
<1>2. CASE ReadInput
    BY <1>2 DEF ReadInput
<1>3. CASE Fork
    BY <1>3 DEF Fork
<1>4. CASE HeirExit
    BY <1>4 DEF HeirExit
<1>5. CASE ChildExit
    BY <1>5 DEF ChildExit
<1>6. CASE FeedInput
    <2>1. /\ input' \in [left : 0 .. StdinChunks, pipe : 0 .. PipeCap]
          /\ UNCHANGED <<now, child, heir, out, pipe, reader, caller>>
        <3>1. CASE /\ input.left > 0 /\ input.pipe < PipeCap
                   /\ input' = [input EXCEPT !.left = input.left - 1, !.pipe = input.pipe + 1]
            <4>1. input.left - 1 \in 0 .. StdinChunks /\ input.pipe + 1 \in 0 .. PipeCap
                BY <3>1
            <4> QED BY <1>6, <3>1, <4>1 DEF FeedInput
        <3>2. CASE input' = [input EXCEPT !.left = 0]
            BY <1>6, <3>2 DEF FeedInput
        <3> QED BY <1>6, <3>1, <3>2 DEF FeedInput
    <2> QED BY <2>1
<1>7. ASSUME NEW s \in Streams, ReadChunk(s) PROVE IndInv'
    <2>1. /\ pipe[s] \in 1 .. PipeCap
          /\ pipe' = [pipe EXCEPT ![s] = pipe[s] - 1]
          /\ UNCHANGED <<now, child, heir, out, input, caller>>
          /\ ~ reader[s].done
        BY <1>7 DEF ReadChunk
    <2>2. /\ reader' = [reader EXCEPT ![s] = reader'[s]]
          /\ reader'[s] \in [got : 0 .. Limit, truncated : BOOLEAN, done : BOOLEAN, failed : BOOLEAN]
          /\ reader'[s].done = reader[s].done /\ reader'[s].failed = reader[s].failed
          /\ IF reader[s].got < Limit
             THEN reader'[s].got = reader[s].got + 1 /\ reader'[s].truncated = reader[s].truncated
             ELSE reader'[s].got = reader[s].got /\ reader'[s].truncated = TRUE
        <3>1. CASE reader[s].got < Limit
            <4>1. reader' = [reader EXCEPT ![s] = [reader[s] EXCEPT !.got = reader[s].got + 1]]
                BY <3>1, <1>7 DEF ReadChunk
            <4> QED BY <3>1, <4>1
        <3>2. CASE ~ (reader[s].got < Limit)
            <4>1. reader' = [reader EXCEPT ![s] = [reader[s] EXCEPT !.truncated = TRUE]]
                BY <3>2, <1>7 DEF ReadChunk
            <4> QED BY <3>2, <4>1
        <3> QED BY <3>1, <3>2
    <2>3. TypeOK'
        BY <2>1, <2>2
    <2>4. Conserved'
        <3> SUFFICES ASSUME NEW t \in Streams
                     PROVE /\ pipe'[t] <= out'[t]
                           /\ reader'[t].got = IF out'[t] - pipe'[t] <= Limit
                                               THEN out'[t] - pipe'[t] ELSE Limit
                           /\ reader'[t].truncated <=> (out'[t] - pipe'[t] > Limit)
            OBVIOUS
        <3>1. CASE t # s
            BY <3>1, <2>1, <2>2
        <3>2. CASE t = s
            <4>1. /\ pipe'[s] = pipe[s] - 1 /\ out'[s] = out[s]
                  /\ out[s] \in Nat /\ pipe[s] \in Nat /\ pipe[s] > 0 /\ pipe[s] <= out[s]
                BY <2>1
            <4>2. CASE reader[s].got < Limit
                <5>1. /\ out[s] - pipe[s] < Limit /\ reader[s].got = out[s] - pipe[s]
                      /\ ~ (out[s] - pipe[s] > Limit)
                    BY <4>1, <4>2
                <5>2. ~ (out'[s] - pipe'[s] > Limit) /\ out'[s] - pipe'[s] = out[s] - pipe[s] + 1
                    BY <4>1, <5>1
                <5>3. reader'[s].truncated = FALSE
                    BY <5>1, <2>2, <4>2
                <5>4. reader'[s].got = out'[s] - pipe'[s] /\ out'[s] - pipe'[s] <= Limit
                    BY <5>1, <5>2, <2>2, <4>1, <4>2
                <5> QED BY <3>2, <5>2, <5>3, <5>4, <4>1
            <4>3. CASE ~ (reader[s].got < Limit)
                <5>1. out[s] - pipe[s] >= Limit /\ reader[s].got = Limit
                    BY <4>1, <4>3
                <5>2. out'[s] - pipe'[s] > Limit
                    BY <4>1, <5>1
                <5> QED BY <3>2, <5>1, <5>2, <2>2, <4>1, <4>3
            <4> QED BY <4>2, <4>3
        <3> QED BY <3>1, <3>2
    <2>5. EndIsFinal'
        BY <2>1, <2>2
    <2>6. JoinsReaders' /\ Reaps'
        BY <2>1, <2>2
    <2> QED BY <2>3, <2>4, <2>5, <2>6
<1>8. ASSUME NEW s \in Streams, ReadEnd(s) PROVE IndInv'
    <2>1. /\ pipe[s] = 0 /\ ~ PipeHeld
          /\ UNCHANGED <<now, child, heir, out, pipe, input, caller>>
        BY <1>8 DEF ReadEnd
    <2>2. /\ reader' = [reader EXCEPT ![s] = reader'[s]]
          /\ reader'[s] = [reader[s] EXCEPT !.done = TRUE]
        BY <1>8 DEF ReadEnd
    <2>3. /\ reader'[s] \in [got : 0 .. Limit, truncated : BOOLEAN, done : BOOLEAN, failed : BOOLEAN]
          /\ reader'[s].got = reader[s].got /\ reader'[s].truncated = reader[s].truncated
          /\ reader'[s].done
        BY <2>2
    <2>4. TypeOK'
        BY <2>1, <2>2, <2>3
    <2>5. \A t \in Streams : reader'[t].got = reader[t].got
                              /\ reader'[t].truncated = reader[t].truncated
                              /\ (reader[t].done => reader'[t].done)
                              /\ (t # s => reader'[t] = reader[t])
        BY <2>2, <2>3
    <2>6. Conserved'
        BY <2>1, <2>5
    <2>7. EndIsFinal'
        BY <2>1, <2>5
    <2>8. JoinsReaders' /\ Reaps'
        BY <2>1, <2>5
    <2> QED BY <2>4, <2>6, <2>7, <2>8
<1>9. CASE PollExited
    <2>1. /\ child \in {"exited", "killed"} /\ child' = "reaped" /\ caller.pc = "poll"
          /\ caller' = [caller EXCEPT !.pc = "join", !.success = (child = "exited")]
          /\ UNCHANGED <<now, heir, out, pipe, input, reader>>
        BY <1>9 DEF PollExited
    <2>2. /\ caller' \in [pc : {"poll", "wait", "join", "returned"}, timed_out : BOOLEAN,
                          success : BOOLEAN, joined : SUBSET Streams]
          /\ caller'.pc = "join" /\ caller'.joined = caller.joined
        BY <2>1
    <2>3. TypeOK'
        BY <2>1, <2>2
    <2>4. Conserved'
        BY <2>1
    <2>5. EndIsFinal' /\ JoinsReaders' /\ Reaps'
        BY <2>1, <2>2
    <2> QED BY <2>3, <2>4, <2>5
<1>10. CASE PollExpired
    BY <1>10 DEF PollExpired
<1>11. CASE Wait
    BY <1>11 DEF Wait
<1>12. ASSUME NEW s \in Streams, Join(s) PROVE IndInv'
    BY <1>12 DEF Join
<1>13. CASE Tick
    BY <1>13 DEF Tick
<1>14. CASE UNCHANGED vars
    BY <1>14 DEF vars
<1>15. ASSUME NEW s \in Streams, BrokenPipe(s) PROVE IndInv'
    BY <1>15 DEF BrokenPipe
<1>16. ASSUME NEW s \in Streams, ReadFails(s) PROVE IndInv'
    <2>0. reader'[s] = [reader[s] EXCEPT !.done = TRUE, !.failed = TRUE]
        BY <1>16 DEF ReadFails
    <2>1. /\ reader' = [reader EXCEPT ![s] = reader'[s]]
          /\ UNCHANGED <<now, child, heir, out, pipe, input, caller>>
        BY <1>16 DEF ReadFails
    <2>2. /\ reader'[s] \in [got : 0 .. Limit, truncated : BOOLEAN, done : BOOLEAN, failed : BOOLEAN]
          /\ reader'[s].got = reader[s].got /\ reader'[s].truncated = reader[s].truncated
          /\ reader'[s].done /\ reader'[s].failed
        BY <2>0
    <2>3. TypeOK'
        BY <2>1, <2>2
    <2>4. \A t \in Streams : reader'[t].got = reader[t].got
                              /\ reader'[t].truncated = reader[t].truncated
                              /\ (reader[t].done => reader'[t].done)
                              /\ (t # s => reader'[t] = reader[t])
        BY <2>1, <2>2
    <2>5. Conserved'
        BY <2>1, <2>4
    <2>6. EndIsFinal'
        BY <2>1, <2>2, <2>4
    <2>7. JoinsReaders' /\ Reaps'
        BY <2>1, <2>4
    <2> QED BY <2>3, <2>5, <2>6, <2>7
<1> QED
    BY <1>1, <1>2, <1>3, <1>4, <1>5, <1>6, <1>7, <1>8, <1>9, <1>10, <1>11, <1>12,
       <1>13, <1>14, <1>15, <1>16 DEF Next, Program, Readers, Caller

\* The inductive invariant holds in every reachable state.
THEOREM Invariant == Spec => []IndInv
  BY InitInv, NextInv, PTL DEF Spec

\* run_bounded returns all the output up to the limit and marks truncation
\* exactly, whatever the limit, the pipes and the interleaving; where a read of
\* read_bounded failed it returns no more than there was and marks nothing falsely.
THEOREM ExactCapture == Spec => []CaptureIsExact
<1>1. IndInv => CaptureIsExact
    <2> SUFFICES ASSUME IndInv, Returned, NEW s \in Streams
                 PROVE  LET whole == IF out[s] <= Limit THEN out[s] ELSE Limit IN
                        /\ reader[s].got <= whole
                        /\ reader[s].truncated => out[s] > Limit
                        /\ reader[s].got < whole \/ reader[s].truncated # (out[s] > Limit) => reader[s].failed
        BY DEF CaptureIsExact
    <2>1. /\ out[s] \in Nat /\ pipe[s] \in Nat /\ Limit \in Nat /\ pipe[s] <= out[s]
          /\ reader[s].got = IF out[s] - pipe[s] <= Limit THEN out[s] - pipe[s] ELSE Limit
          /\ reader[s].truncated <=> (out[s] - pipe[s] > Limit)
          /\ reader[s].truncated \in BOOLEAN
        BY ConstantsAssumption DEF IndInv, TypeOK, Conserved
    <2>2. reader[s].failed \/ pipe[s] = 0
        BY DEF IndInv, JoinsReaders, EndIsFinal, Returned
    <2>3. pipe[s] = 0 => reader[s].truncated = (out[s] > Limit)
        BY <2>1
    <2> QED BY <2>1, <2>2, <2>3
<1> QED
    BY <1>1, Invariant, PTL

\* run_bounded returns only after it has reaped its child.
THEOREM ReapedChild == Spec => []ChildIsReaped
<1>1. IndInv => ChildIsReaped
    BY DEF IndInv, Reaps, ChildIsReaped, Returned
<1> QED
    BY <1>1, Invariant, PTL
=============================================================================

----------------------------- MODULE StdChannel -----------------------------
(***************************************************************************)
(* mncs.std.channel.v1 (library/std/channel.mncs): a bounded channel as    *)
(* total functions over a value, and the loops a host realization runs     *)
(* over them: producers that retry a blocked send, an owner that closes,   *)
(* a consumer that receives until it sees the close.                       *)
(*                                                                         *)
(* The functions are translated one to one; Send, Recv, ProducerDone and   *)
(* Close return the records of the source.  The host is external: it holds *)
(* one channel value and applies one function at a time; each producer     *)
(* looks at its cancel flag between retries.  A u64 payload is an item of  *)
(* one producer.                                                           *)
(***************************************************************************)
EXTENDS Integers, Sequences, FiniteSets

CONSTANTS
    Slots,          \* length of buf, and upper end of both clamps (8 in the source)
    Producers,      \* the producers that really exist
    Items,          \* bound of the model: items a producer wants to send
    CapacityArg, ProducersArg,   \* arguments of new()
    Repeats,        \* producers that may deliver their report twice
    NoItem          \* the zero payload of an empty slot

ASSUME ConstantsAssumption ==
    /\ Slots \in Nat /\ Slots >= 1
    /\ IsFiniteSet(Producers)
    /\ Items \in Nat
    /\ CapacityArg \in Nat /\ ProducersArg \in Nat
    /\ Repeats \subseteq Producers

VARIABLES
    ch,         \* the Channel value
    prod,       \* producer -> [sent, pc]
    received,   \* what the consumer has received
    observed,   \* the consumer has seen the close
    accepted    \* history: payloads of accepted sends, in order

vars == <<ch, prod, received, observed, accepted>>

Item == [from : Producers, n : 1 .. Items]
Cells == 0 .. Slots - 1

-----------------------------------------------------------------------------
\* The module's functions

MinOf(a, b) == IF a <= b THEN a ELSE b

\* new(): capacity clamped to 1..=8, producers to 0..=8.
New(capacity, producers) ==
    [buf |-> [i \in Cells |-> NoItem], count |-> 0,
     capacity |-> IF capacity < 1 THEN 1 ELSE MinOf(capacity, Slots),
     producers |-> MinOf(producers, Slots), done |-> 0, closed |-> FALSE]


Send(c, value) ==
    IF ~c.closed /\ c.count < c.capacity
    THEN [channel |-> [c EXCEPT !.buf = [c.buf EXCEPT ![c.count] = value], !.count = c.count + 1],
          accepted |-> TRUE, blocked |-> FALSE]
    ELSE [channel |-> c, accepted |-> FALSE, blocked |-> ~c.closed]

\* Variant: the shift starts one cell too late.
Shifted_KeepsHead(buf, count) ==
    [i \in Cells |-> IF i + 1 < count /\ i > 0 THEN buf[i + 1] ELSE buf[i]]

\* recv()'s fold moves cell i + 1 to cell i for i = 0, 1, ...; it reads a cell
\* before it writes it, so it shifts the old buffer.
Shifted(buf, count) ==
    [i \in Cells |-> IF i + 1 < count THEN buf[i + 1] ELSE buf[i]]

\* Variant: a closed channel reads as closed although items are left.
Recv_ClosedFirst(c) ==
    IF c.count > 0 /\ ~c.closed
    THEN [channel |-> [c EXCEPT !.buf = Shifted(c.buf, c.count), !.count = c.count - 1],
          kind |-> "data", value |-> c.buf[0]]
    ELSE [channel |-> c, kind |-> IF c.closed THEN "closed" ELSE "empty", value |-> NoItem]

\* kind is 0 (data), 1 (empty) or 2 (closed) in the source.
Recv(c) ==
    IF c.count > 0
    THEN [channel |-> [c EXCEPT !.buf = Shifted(c.buf, c.count), !.count = c.count - 1],
          kind |-> "data", value |-> c.buf[0]]
    ELSE [channel |-> c, kind |-> IF c.closed THEN "closed" ELSE "empty", value |-> NoItem]


ProducerDone(c) ==
    LET ok == ~c.closed /\ c.done < c.producers
    IN  [channel |-> IF ok THEN [c EXCEPT !.done = c.done + 1] ELSE c, accepted |-> ok]

\* Variant: closing does not wait for the last producer.
CloseChannel_Early(c) ==
    LET ok == ~c.closed /\ c.done + 1 >= c.producers
    IN  [channel |-> IF ok THEN [c EXCEPT !.closed = TRUE] ELSE c, accepted |-> ok]

CloseChannel(c) ==
    LET ok == ~c.closed /\ c.done = c.producers
    IN  [channel |-> IF ok THEN [c EXCEPT !.closed = TRUE] ELSE c, accepted |-> ok]

-----------------------------------------------------------------------------
\* The host realization

Init ==
    /\ ch = New(CapacityArg, ProducersArg)
    /\ prod = [p \in Producers |-> [sent |-> 0, pc |-> "sending"]]
    /\ received = <<>> /\ observed = FALSE /\ accepted = <<>>

NextItem(p) == [from |-> p, n |-> prod[p].sent + 1]

\* One attempt: accepted, blocked (retried later) or rejected (the producer stops).
TrySend(p) ==
    /\ prod[p].pc = "sending" /\ prod[p].sent < Items
    /\ LET out == Send(ch, NextItem(p))
       IN  /\ ch' = out.channel
           /\ \/ /\ out.accepted
                 /\ accepted' = Append(accepted, NextItem(p))
                 /\ prod' = [prod EXCEPT ![p] = [sent |-> prod[p].sent + 1, pc |-> "sending"]]
              \/ /\ ~out.accepted /\ out.blocked
                 /\ UNCHANGED <<accepted, prod>>
              \/ /\ ~out.accepted /\ ~out.blocked
                 /\ prod' = [prod EXCEPT ![p] = [sent |-> prod[p].sent, pc |-> "rejected"]]
                 /\ UNCHANGED accepted
    /\ UNCHANGED <<received, observed>>

\* A producer finishes, because it has no more items or sees its cancel flag.
Report(p) ==
    /\ prod[p].pc = "sending"
    /\ ch' = ProducerDone(ch).channel
    /\ prod' = [prod EXCEPT ![p] = [sent |-> prod[p].sent, pc |-> "done"]]
    /\ UNCHANGED <<received, observed, accepted>>

\* The report is delivered again.
Repeat(p) ==
    /\ p \in Repeats /\ prod[p].pc = "done"
    /\ ch' = ProducerDone(ch).channel
    /\ prod' = [prod EXCEPT ![p] = [sent |-> prod[p].sent, pc |-> "repeated"]]
    /\ UNCHANGED <<received, observed, accepted>>

TryClose ==
    /\ ch' = CloseChannel(ch).channel
    /\ UNCHANGED <<prod, received, observed, accepted>>

Receive ==
    /\ ~observed
    /\ LET out == Recv(ch)
       IN  /\ ch' = out.channel
           /\ \/ /\ out.kind = "data"
                 /\ received' = Append(received, out.value)
                 /\ UNCHANGED observed
              \/ /\ out.kind = "closed"
                 /\ observed' = TRUE
                 /\ UNCHANGED received
              \/ /\ out.kind = "empty"
                 /\ UNCHANGED <<received, observed>>
    /\ UNCHANGED <<prod, accepted>>

Next ==
    \/ TryClose \/ Receive
    \/ \E p \in Producers : TrySend(p) \/ Report(p) \/ Repeat(p)

Spec == Init /\ [][Next]_vars

\* The host loops: every party keeps retrying, a producer in the end reports.
FairSpec ==
    /\ Spec
    /\ WF_vars(TryClose) /\ WF_vars(Receive)
    /\ \A p \in Producers : WF_vars(Report(p))

-----------------------------------------------------------------------------
\* Properties

TypeOK ==
    /\ ch \in [buf : [Cells -> Item \cup {NoItem}], count : 0 .. Slots, capacity : 1 .. Slots,
               producers : 0 .. Slots, done : 0 .. Slots, closed : BOOLEAN]
    /\ ch.count <= ch.capacity /\ ch.done <= ch.producers
    /\ prod \in [Producers -> [sent : 0 .. Items,
                               pc : {"sending", "rejected", "done", "repeated"}]]
    /\ received \in Seq(Item \cup {NoItem}) /\ accepted \in Seq(Item)
    /\ observed \in BOOLEAN

\* Nothing is lost, duplicated or reordered by shifting and by backpressure:
\* the accepted items are the received ones followed by the buffered ones.
FifoWindow ==
    /\ Len(accepted) = Len(received) + ch.count
    /\ \A i \in 1 .. Len(received) : received[i] = accepted[i]
    /\ \A i \in 0 .. ch.count - 1 : ch.buf[i] = accepted[Len(received) + i + 1]

\* The consumer takes the close for the end of the stream, and it is: by then
\* it has every item any producer ever got accepted.
CloseMeansDrained == observed => received = accepted

Reported == {p \in Producers : prod[p].pc \in {"done", "repeated"}}
Repeated == {p \in Producers : prod[p].pc = "repeated"}

\* "[close is accepted] only when every registered producer is done": a closed
\* channel shuts out at most one producer for each that was not registered
\* and for each report that came twice.
CloseWaitsForProducers ==
    ch.closed => Cardinality(Producers) - Cardinality(Reported)
                    <= Cardinality(Producers) - ch.producers + Cardinality(Repeated)

\* Once closed, the channel takes nothing more and never opens again.
ClosedIsFinal == [][ch.closed => ch'.closed /\ accepted' = accepted /\ ch'.done = ch.done]_vars

=============================================================================

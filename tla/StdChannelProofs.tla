-------------------------- MODULE StdChannelProofs --------------------------
(***************************************************************************)
(* The channel contract for every buffer length, capacity, number of       *)
(* producers and items.                                                    *)
(*                                                                         *)
(* FifoWindow is inductive together with the types, which hold the two     *)
(* bounds count <= capacity <= Slots that keep the shifted cells inside    *)
(* the buffer.  CloseMeansDrained needs that an observed close is a closed,*)
(* empty channel (Observed).  CloseWaitsForProducers needs the count of    *)
(* reports bounded by the producers that made them, once or twice, and     *)
(* that a channel is closed with a full count (Reports).                   *)
(***************************************************************************)
EXTENDS StdChannel, FiniteSetTheorems, TLAPS

\* The consumer has seen the close only of a closed and empty channel.
Observed == observed => ch.closed /\ ch.count = 0

IndInv == TypeOK /\ FifoWindow /\ Observed

-----------------------------------------------------------------------------
\* The effect of the functions on a well-typed channel

ChannelType == [buf : [Cells -> Item \cup {NoItem}], count : 0 .. Slots, capacity : 1 .. Slots,
                producers : 0 .. Slots, done : 0 .. Slots, closed : BOOLEAN]

\* An accepted send appends behind the last item; otherwise nothing changes.
LEMMA SendEffect ==
    ASSUME NEW c \in ChannelType, NEW v \in Item, c.count <= c.capacity
    PROVE  LET d == Send(c, v).channel IN
           /\ d \in ChannelType
           /\ d.capacity = c.capacity /\ d.producers = c.producers
           /\ d.done = c.done /\ d.closed = c.closed
           /\ Send(c, v).accepted => /\ ~c.closed /\ c.count < c.capacity
                                     /\ d.count = c.count + 1 /\ d.buf[c.count] = v
                                     /\ \A i \in Cells : i # c.count => d.buf[i] = c.buf[i]
           /\ ~Send(c, v).accepted => d = c /\ (Send(c, v).blocked <=> ~c.closed)
<1>1. CASE ~c.closed /\ c.count < c.capacity
    <2> DEFINE b == [c.buf EXCEPT ![c.count] = v]
               n == c.count + 1
    <2>1. c.count \in Cells /\ n \in 0 .. Slots
        BY <1>1, ConstantsAssumption DEF ChannelType, Cells
    <2>2. /\ b \in [Cells -> Item \cup {NoItem}] /\ b[c.count] = v
          /\ \A i \in Cells : i # c.count => b[i] = c.buf[i]
        BY <2>1 DEF ChannelType
    <2>3. Send(c, v) = [channel |-> [c EXCEPT !.buf = b, !.count = n],
                        accepted |-> TRUE, blocked |-> FALSE]
        BY <1>1 DEF Send
    <2>4. n = c.count + 1
        OBVIOUS
    <2> HIDE DEF b, n
    <2> DEFINE d == [c EXCEPT !.buf = b, !.count = n]
    <2>6. /\ d \in ChannelType
          /\ d.buf = b /\ d.count = n /\ d.capacity = c.capacity /\ d.producers = c.producers
          /\ d.done = c.done /\ d.closed = c.closed
        BY <2>1, <2>2 DEF ChannelType
    <2> HIDE DEF d
    <2>7. Send(c, v).channel = d /\ Send(c, v).accepted = TRUE
        BY <2>3 DEF d
    <2> QED
        BY <1>1, <2>2, <2>4, <2>6, <2>7
<1>2. CASE ~ (~c.closed /\ c.count < c.capacity)
    BY <1>2 DEF Send
<1> QED
    BY <1>1, <1>2

\* Receiving data drops the first item and moves the others up by one cell.
LEMMA RecvEffect ==
    ASSUME NEW c \in ChannelType
    PROVE  LET d == Recv(c).channel IN
           /\ d \in ChannelType
           /\ d.capacity = c.capacity /\ d.producers = c.producers
           /\ d.done = c.done /\ d.closed = c.closed
           /\ Recv(c).kind = "data" => /\ c.count > 0 /\ d.count = c.count - 1
                                       /\ Recv(c).value = c.buf[0]
                                       /\ \A i \in 0 .. c.count - 2 : d.buf[i] = c.buf[i + 1]
           /\ Recv(c).kind # "data" => d = c /\ c.count = 0
           /\ Recv(c).kind = "closed" => c.closed
<1>1. CASE c.count > 0
    <2> DEFINE b == Shifted(c.buf, c.count)
               n == c.count - 1
    <2>1. c.buf \in [Cells -> Item \cup {NoItem}] /\ c.count \in 0 .. Slots
        BY DEF ChannelType
    <2>2. /\ b \in [Cells -> Item \cup {NoItem}]
          /\ \A i \in 0 .. c.count - 2 : b[i] = c.buf[i + 1]
        <3>1. ASSUME NEW i \in Cells
              PROVE  (IF i + 1 < c.count THEN c.buf[i + 1] ELSE c.buf[i]) \in Item \cup {NoItem}
            BY <2>1, ConstantsAssumption DEF Cells
        <3>2. \A i \in 0 .. c.count - 2 : i \in Cells /\ i + 1 < c.count
            BY <2>1, ConstantsAssumption DEF Cells
        <3> QED
            BY <3>1, <3>2 DEF Shifted
    <2>3. n \in 0 .. Slots /\ n = c.count - 1
        BY <1>1, <2>1, ConstantsAssumption
    <2>4. Recv(c) = [channel |-> [c EXCEPT !.buf = b, !.count = n],
                     kind |-> "data", value |-> c.buf[0]]
        BY <1>1 DEF Recv
    <2> HIDE DEF b, n
    <2> DEFINE d == [c EXCEPT !.buf = b, !.count = n]
    <2>6. /\ d \in ChannelType
          /\ d.buf = b /\ d.count = n /\ d.capacity = c.capacity /\ d.producers = c.producers
          /\ d.done = c.done /\ d.closed = c.closed
        BY <2>2, <2>3 DEF ChannelType
    <2> HIDE DEF d
    <2>7. Recv(c).channel = d /\ Recv(c).kind = "data" /\ Recv(c).value = c.buf[0]
        BY <2>4 DEF d
    <2> QED
        BY <1>1, <2>2, <2>3, <2>6, <2>7
<1>2. CASE c.count = 0
    BY <1>2 DEF Recv
<1> QED
    BY <1>1, <1>2 DEF ChannelType

\* producer_done and close touch only done and closed.
LEMMA DoneEffect ==
    ASSUME NEW c \in ChannelType, c.done <= c.producers
    PROVE  LET d == ProducerDone(c).channel IN
           /\ d \in ChannelType /\ d.done <= d.producers
           /\ d.buf = c.buf /\ d.count = c.count /\ d.capacity = c.capacity
           /\ d.producers = c.producers /\ d.closed = c.closed
           /\ d.done = IF ~c.closed /\ c.done < c.producers THEN c.done + 1 ELSE c.done
    BY ConstantsAssumption DEF ProducerDone, ChannelType

\* close sets the closed flag once every producer has reported, and nothing else.
LEMMA CloseEffect ==
    ASSUME NEW c \in ChannelType
    PROVE  LET d == CloseChannel(c).channel IN
           /\ d \in ChannelType
           /\ d.buf = c.buf /\ d.count = c.count /\ d.capacity = c.capacity
           /\ d.producers = c.producers /\ d.done = c.done
           /\ d.closed <=> c.closed \/ c.done = c.producers
    BY DEF CloseChannel, ChannelType

-----------------------------------------------------------------------------
\* A channel just made by new() is empty and open.
LEMMA NewType == New(CapacityArg, ProducersArg) \in ChannelType
<1> DEFINE b == [i \in Cells |-> NoItem]
           cap == IF CapacityArg < 1 THEN 1 ELSE MinOf(CapacityArg, Slots)
           who == MinOf(ProducersArg, Slots)
<1>1. cap \in 1 .. Slots /\ who \in 0 .. Slots /\ 0 \in 0 .. Slots
    BY ConstantsAssumption DEF MinOf
<1>2. b \in [Cells -> Item \cup {NoItem}]
    OBVIOUS
<1>3. New(CapacityArg, ProducersArg) = [buf |-> b, count |-> 0, capacity |-> cap,
                                        producers |-> who, done |-> 0, closed |-> FALSE]
    BY DEF New
<1> HIDE DEF b, cap, who
<1> QED
    BY <1>1, <1>2, <1>3 DEF ChannelType

\* The invariant holds when new() has returned.
LEMMA InitInv == Init => IndInv
<1> SUFFICES ASSUME Init PROVE IndInv
    OBVIOUS
<1>1. ch \in ChannelType
    BY NewType DEF Init
<1>2. ch.count = 0 /\ ch.done = 0
    BY DEF Init, New
<1>3. ch.count <= ch.capacity /\ ch.done <= ch.producers
    BY <1>1, <1>2, ConstantsAssumption DEF ChannelType
<1>4. prod \in [Producers -> [sent : 0 .. Items, pc : {"sending", "rejected", "done", "repeated"}]]
    BY ConstantsAssumption DEF Init
<1>5. received = <<>> /\ accepted = <<>> /\ observed = FALSE
    BY DEF Init
<1>6. TypeOK
    <2>1. received \in Seq(Item \cup {NoItem}) /\ accepted \in Seq(Item)
        BY <1>5
    <2>2. observed \in BOOLEAN
        BY <1>5
    <2> QED BY <1>1, <1>3, <1>4, <2>1, <2>2 DEF TypeOK, ChannelType
<1>7. FifoWindow
    <2>1. Len(received) = 0 /\ Len(accepted) = 0
        BY <1>5
    <2> QED BY <1>2, <2>1 DEF FifoWindow
<1>8. Observed
    BY <1>5 DEF Observed
<1> QED
    BY <1>6, <1>7, <1>8 DEF IndInv

\* An attempt to send, whether accepted, blocked or rejected.
LEMMA TrySendInv == ASSUME IndInv, NEW p \in Producers, TrySend(p) PROVE IndInv'
<1> DEFINE v == NextItem(p)
           out == Send(ch, v)
<1>1. ch \in ChannelType /\ ch.count <= ch.capacity /\ ch.done <= ch.producers
    BY DEF IndInv, TypeOK, ChannelType
<1>2. prod[p].sent \in 0 .. Items /\ prod[p].sent < Items
    BY DEF IndInv, TypeOK, TrySend
<1>3. v \in Item
    BY <1>2, ConstantsAssumption DEF NextItem, Item
<1>4. /\ ch' = out.channel
      /\ UNCHANGED <<received, observed>>
      /\ \/ /\ out.accepted
            /\ accepted' = Append(accepted, v)
            /\ prod' = [prod EXCEPT ![p] = [sent |-> prod[p].sent + 1, pc |-> "sending"]]
         \/ /\ ~out.accepted /\ UNCHANGED <<accepted, prod>>
         \/ /\ ~out.accepted /\ UNCHANGED accepted
            /\ prod' = [prod EXCEPT ![p] = [sent |-> prod[p].sent, pc |-> "rejected"]]
    BY DEF TrySend
<1> HIDE DEF v
<1>5. /\ ch' \in ChannelType
      /\ ch'.capacity = ch.capacity /\ ch'.producers = ch.producers
      /\ ch'.done = ch.done /\ ch'.closed = ch.closed
      /\ out.accepted => /\ ~ch.closed /\ ch.count < ch.capacity
                         /\ ch'.count = ch.count + 1 /\ ch'.buf[ch.count] = v
                         /\ \A i \in Cells : i # ch.count => ch'.buf[i] = ch.buf[i]
      /\ ~out.accepted => ch' = ch
    BY <1>1, <1>3, <1>4, SendEffect
<1> HIDE DEF out
<1>6. prod' \in [Producers -> [sent : 0 .. Items, pc : {"sending", "rejected", "done", "repeated"}]]
    <2> DEFINE State == [sent : 0 .. Items, pc : {"sending", "rejected", "done", "repeated"}]
    <2>1. prod \in [Producers -> State]
        BY DEF IndInv, TypeOK
    <2>2. prod[p].sent + 1 \in 0 .. Items /\ prod[p].sent \in 0 .. Items
        BY <1>2, ConstantsAssumption
    <2>3. /\ [sent |-> prod[p].sent + 1, pc |-> "sending"] \in State
          /\ [sent |-> prod[p].sent, pc |-> "rejected"] \in State
        BY <2>2
    <2> HIDE DEF State
    <2>4. prod' \in [Producers -> State]
        BY <1>4, <2>1, <2>3
    <2> QED BY <2>4 DEF State
<1>7. CASE out.accepted
    <2>1. /\ accepted' = Append(accepted, v) /\ received' = received
          /\ accepted \in Seq(Item) /\ Len(received) \in Nat /\ ch.count \in 0 .. Slots
          /\ ch.capacity \in 1 .. Slots
        BY <1>4, <1>7 DEF IndInv, TypeOK
    <2>2. accepted' \in Seq(Item) /\ Len(accepted') = Len(accepted) + 1
          /\ accepted'[Len(accepted) + 1] = v
          /\ \A i \in 1 .. Len(accepted) : accepted'[i] = accepted[i]
        BY <2>1, <1>3
    <2>3. TypeOK'
        BY <1>1, <1>4, <1>5, <1>6, <1>7, <2>1, <2>2, ConstantsAssumption
           DEF IndInv, TypeOK, ChannelType
    <2>4. FifoWindow'
        <3>1. Len(accepted) = Len(received) + ch.count
            BY DEF IndInv, FifoWindow
        <3>2. \A i \in 1 .. Len(received') : received'[i] = accepted'[i]
            BY <2>1, <2>2, <3>1 DEF IndInv, FifoWindow
        <3>3. ASSUME NEW i \in 0 .. ch'.count - 1
              PROVE  ch'.buf[i] = accepted'[Len(received') + i + 1]
            <4>1. CASE i = ch.count
                BY <4>1, <1>5, <1>7, <2>1, <2>2, <3>1
            <4>2. CASE i # ch.count
                <5>1. i \in 0 .. ch.count - 1 /\ i \in Cells
                    BY <4>2, <1>5, <1>7, <2>1, ConstantsAssumption DEF Cells
                <5>2. ch'.buf[i] = accepted[Len(received) + i + 1]
                    BY <4>2, <5>1, <1>5, <1>7 DEF IndInv, FifoWindow
                <5> QED BY <5>1, <5>2, <2>1, <2>2, <3>1
            <4> QED BY <4>1, <4>2
        <3> QED BY <1>5, <1>7, <2>1, <2>2, <3>1, <3>2, <3>3 DEF FifoWindow
    <2>5. Observed'
        BY <1>4, <1>5, <1>7 DEF IndInv, Observed
    <2> QED BY <2>3, <2>4, <2>5 DEF IndInv
<1>8. CASE ~out.accepted
    <2>1. UNCHANGED <<ch, received, observed, accepted>>
        BY <1>4, <1>5, <1>8
    <2> QED BY <1>6, <2>1 DEF IndInv, TypeOK, FifoWindow, Observed
<1> QED BY <1>7, <1>8

\* A step that changes at most done, closed and one producer's state.
LEMMA AccountingInv ==
    ASSUME IndInv,
           ch' \in ChannelType, ch'.done <= ch'.producers,
           ch'.buf = ch.buf, ch'.count = ch.count, ch'.capacity = ch.capacity,
           ch.closed => ch'.closed,
           prod' \in [Producers -> [sent : 0 .. Items,
                                    pc : {"sending", "rejected", "done", "repeated"}]],
           UNCHANGED <<received, observed, accepted>>
    PROVE  IndInv'
    BY DEF IndInv, TypeOK, ChannelType, FifoWindow, Observed

\* One receive.
LEMMA ReceiveInv == ASSUME IndInv, Receive PROVE IndInv'
<1> DEFINE out == Recv(ch)
<1>1. ch \in ChannelType /\ ch.count <= ch.capacity /\ ch.done <= ch.producers
    BY DEF IndInv, TypeOK, ChannelType
<1>2. /\ ch' = out.channel /\ UNCHANGED <<prod, accepted>>
      /\ \/ /\ out.kind = "data" /\ received' = Append(received, out.value)
            /\ UNCHANGED observed
         \/ out.kind = "closed" /\ observed' = TRUE /\ UNCHANGED received
         \/ out.kind = "empty" /\ UNCHANGED <<received, observed>>
      /\ ~observed
    BY DEF Receive
<1>3. /\ ch' \in ChannelType
      /\ ch'.capacity = ch.capacity /\ ch'.producers = ch.producers
      /\ ch'.done = ch.done /\ ch'.closed = ch.closed
      /\ out.kind = "data" => /\ ch.count > 0 /\ ch'.count = ch.count - 1
                              /\ out.value = ch.buf[0]
                              /\ \A i \in 0 .. ch.count - 2 : ch'.buf[i] = ch.buf[i + 1]
      /\ out.kind # "data" => ch' = ch /\ ch.count = 0
      /\ out.kind = "closed" => ch.closed
    BY <1>1, <1>2, RecvEffect
<1> HIDE DEF out
<1>4. CASE out.kind = "data"
    <2>1. /\ received' = Append(received, out.value) /\ observed' = observed
          /\ accepted' = accepted /\ prod' = prod
        BY <1>2, <1>4
    <2>2. /\ ch.count \in 0 .. Slots /\ 0 \in Cells /\ out.value = ch.buf[0]
          /\ ch.buf \in [Cells -> Item \cup {NoItem}]
          /\ received \in Seq(Item \cup {NoItem}) /\ accepted \in Seq(Item)
        BY <1>3, <1>4, ConstantsAssumption DEF IndInv, TypeOK, Cells
    <2>3. /\ received' \in Seq(Item \cup {NoItem}) /\ Len(received') = Len(received) + 1
          /\ received'[Len(received) + 1] = ch.buf[0]
          /\ \A i \in 1 .. Len(received) : received'[i] = received[i]
        BY <2>1, <2>2
    <2>4. TypeOK'
        BY <1>1, <1>3, <1>4, <2>1, <2>2, <2>3, ConstantsAssumption DEF IndInv, TypeOK, ChannelType
    <2>5. FifoWindow'
        <3>1. Len(accepted) = Len(received) + ch.count /\ ch.count > 0
            BY <1>3, <1>4 DEF IndInv, FifoWindow
        <3>2. ch.buf[0] = accepted[Len(received) + 1]
            BY <2>2, <3>1 DEF IndInv, FifoWindow
        <3>3. \A i \in 1 .. Len(received') : received'[i] = accepted[i]
            <4>1. /\ Len(received) \in Nat
                  /\ \A i \in 1 .. Len(received) : received[i] = accepted[i]
                BY <2>2 DEF IndInv, FifoWindow
            <4>2. received'[Len(received) + 1] = accepted[Len(received) + 1]
                BY <2>3, <3>2
            <4>3. ASSUME NEW i \in 1 .. Len(received') PROVE received'[i] = accepted[i]
                <5>1. i \in 1 .. Len(received) \/ i = Len(received) + 1
                    BY <4>1, <2>3
                <5>2. CASE i \in 1 .. Len(received)
                    BY <5>2, <4>1, <2>3
                <5> QED BY <5>1, <5>2, <4>2
            <4> QED BY <4>3
        <3>4. ASSUME NEW i \in 0 .. ch'.count - 1
              PROVE  ch'.buf[i] = accepted[Len(received') + i + 1]
            <4>1. i \in 0 .. ch.count - 2 /\ i + 1 \in 0 .. ch.count - 1
                BY <1>3, <1>4, <2>2
            <4>2. ch'.buf[i] = accepted[Len(received) + (i + 1) + 1]
                BY <4>1, <1>3, <1>4 DEF IndInv, FifoWindow
            <4> QED BY <4>1, <4>2, <2>2, <2>3
        <3>5. Len(accepted) = Len(received') + ch'.count
            <4>1. Len(received) \in Nat /\ Len(accepted) \in Nat /\ ch.count \in Nat
                BY <2>2
            <4>2. ch'.count = ch.count - 1
                BY <1>3, <1>4
            <4>3. Len(received') = Len(received) + 1
                BY <2>3
            <4> QED BY <4>1, <4>2, <4>3, <3>1
        <3> QED BY <2>1, <3>3, <3>4, <3>5 DEF FifoWindow
    <2>6. Observed'
        BY <1>2, <2>1 DEF Observed
    <2> QED BY <2>4, <2>5, <2>6 DEF IndInv
<1>5. CASE out.kind # "data"
    <2>1. /\ UNCHANGED <<ch, received, prod, accepted>>
          /\ observed' \in BOOLEAN
          /\ observed' => ch'.closed /\ ch'.count = 0
        <3>1. ch' = ch /\ ch.count = 0 /\ observed \in BOOLEAN
            BY <1>3, <1>5 DEF IndInv, TypeOK
        <3>2. CASE out.kind = "closed"
            BY <1>2, <1>3, <3>1, <3>2
        <3>3. CASE out.kind = "empty"
            BY <1>2, <3>1, <3>3
        <3> QED BY <1>2, <1>5, <3>2, <3>3
    <2> QED BY <2>1 DEF IndInv, TypeOK, FifoWindow, Observed
<1> QED BY <1>4, <1>5

\* Every step of the host keeps the invariant.
LEMMA NextInv == IndInv /\ [Next]_vars => IndInv'
<1> SUFFICES ASSUME IndInv, [Next]_vars PROVE IndInv'
    OBVIOUS
<1>1. ch \in ChannelType /\ ch.done <= ch.producers
    BY DEF IndInv, TypeOK, ChannelType
<1>2. CASE TryClose
    BY <1>1, <1>2, CloseEffect, AccountingInv DEF TryClose, IndInv, TypeOK
<1>3. ASSUME NEW p \in Producers, Report(p) \/ Repeat(p) PROVE IndInv'
    <2>1. ch' = ProducerDone(ch).channel /\ UNCHANGED <<received, observed, accepted>>
        BY <1>3 DEF Report, Repeat
    <2>2. prod' \in [Producers -> [sent : 0 .. Items,
                                   pc : {"sending", "rejected", "done", "repeated"}]]
        <3> DEFINE State == [sent : 0 .. Items, pc : {"sending", "rejected", "done", "repeated"}]
        <3>1. prod \in [Producers -> State] /\ prod[p].sent \in 0 .. Items
            BY DEF IndInv, TypeOK
        <3>2. /\ [sent |-> prod[p].sent, pc |-> "done"] \in State
              /\ [sent |-> prod[p].sent, pc |-> "repeated"] \in State
            BY <3>1
        <3> HIDE DEF State
        <3>3. prod' \in [Producers -> State]
            BY <1>3, <3>1, <3>2 DEF Report, Repeat
        <3> QED BY <3>3 DEF State
    <2> QED BY <1>1, <2>1, <2>2, DoneEffect, AccountingInv
<1>4. CASE UNCHANGED vars
    BY <1>4 DEF vars, IndInv, TypeOK, FifoWindow, Observed
<1> QED
    BY <1>2, <1>3, <1>4, TrySendInv, ReceiveInv DEF Next

\* The inductive invariant holds in every reachable state.
THEOREM Invariant == Spec => []IndInv
  BY InitInv, NextInv, PTL DEF Spec

\* FIFO: what was accepted is what was received followed by what is buffered,
\* for every capacity and buffer length.
THEOREM Fifo == Spec => []FifoWindow
<1>1. IndInv => FifoWindow
    BY DEF IndInv
<1> QED BY <1>1, Invariant, PTL

\* A consumer that stops at the close has every accepted item.
THEOREM Drained == Spec => []CloseMeansDrained
<1>1. IndInv => CloseMeansDrained
    <2> SUFFICES ASSUME IndInv, observed PROVE received = accepted
        BY DEF CloseMeansDrained
    <2>1. /\ Len(accepted) = Len(received)
          /\ \A i \in 1 .. Len(received) : received[i] = accepted[i]
        BY DEF IndInv, TypeOK, FifoWindow, Observed
    <2>2. received \in Seq(Item \cup {NoItem}) /\ accepted \in Seq(Item \cup {NoItem})
        BY DEF IndInv, TypeOK
    <2> QED BY <2>1, <2>2
<1> QED BY <1>1, Invariant, PTL

-----------------------------------------------------------------------------
\* Closing waits for the producers

\* The count of reports is covered by the producers that reported and those
\* that reported again, and it is full from the close on.
Reports ==
    /\ ch.done <= Cardinality(Reported) + Cardinality(Repeated)
    /\ ch.closed => ch.done = ch.producers

\* The producers that have reported can be counted.
LEMMA ReportersFinite ==
    /\ IsFiniteSet(Reported) /\ Cardinality(Reported) \in Nat
    /\ IsFiniteSet(Repeated) /\ Cardinality(Repeated) \in Nat
<1>1. Reported \subseteq Producers /\ Repeated \subseteq Producers
    BY DEF Reported, Repeated
<1> QED
    BY <1>1, ConstantsAssumption, FS_Subset, FS_CardinalityType

\* A new channel has no report and is open.
LEMMA ReportsInit == Init => Reports
<1> SUFFICES ASSUME Init PROVE Reports
    OBVIOUS
<1>1. ch.done = 0 /\ ch.closed = FALSE
    BY DEF Init, New
<1> QED
    BY <1>1, ReportersFinite DEF Reports

\* Every step keeps the count of reports covered: only producer_done counts, and
\* each producer reports once unless it reports again.
LEMMA ReportsNext == IndInv /\ Reports /\ [Next]_vars => Reports'
<1> SUFFICES ASSUME IndInv, Reports, [Next]_vars PROVE Reports'
    OBVIOUS
<1>1. /\ ch \in ChannelType /\ ch.count <= ch.capacity /\ ch.done <= ch.producers
      /\ prod \in [Producers -> [sent : 0 .. Items, pc : {"sending", "rejected", "done", "repeated"}]]
      /\ ch.done \in Nat /\ ch.producers \in Nat
    BY ConstantsAssumption DEF IndInv, TypeOK, ChannelType
<1>2. ASSUME NEW p \in Producers, TrySend(p) PROVE Reports'
    <2>1. NextItem(p) \in Item
        BY <1>1, <1>2, ConstantsAssumption DEF TrySend, NextItem, Item
    <2>2. ch'.producers = ch.producers /\ ch'.done = ch.done /\ ch'.closed = ch.closed
        BY <1>1, <1>2, <2>1, SendEffect DEF TrySend
    <2>3. \A q \in Producers : \/ prod'[q].pc = prod[q].pc
                               \/ prod[q].pc = "sending" /\ prod'[q].pc = "rejected"
        BY <1>1, <1>2 DEF TrySend
    <2>4. Reported' = Reported /\ Repeated' = Repeated
        BY <2>3 DEF Reported, Repeated
    <2> QED BY <2>2, <2>4 DEF Reports
<1>3. ASSUME NEW p \in Producers, Report(p) PROVE Reports'
    <2>1. p \notin Reported
        BY <1>3 DEF Report, Reported
    <2>2. \A q \in Producers : prod'[q].pc = IF q = p THEN "done" ELSE prod[q].pc
        BY <1>1, <1>3 DEF Report
    <2>3. Reported' = Reported \cup {p} /\ Repeated' = Repeated
        BY <1>3, <2>2 DEF Report, Reported, Repeated
    <2>4. Cardinality(Reported') = Cardinality(Reported) + 1
        BY <2>1, <2>3, ReportersFinite, FS_AddElement
    <2> QED BY <1>1, <1>3, <2>3, <2>4, ReportersFinite, DoneEffect DEF Report, Reports
<1>4. ASSUME NEW p \in Producers, Repeat(p) PROVE Reports'
    <2>1. p \notin Repeated
        BY <1>4 DEF Repeat, Repeated
    <2>2. \A q \in Producers : prod'[q].pc = IF q = p THEN "repeated" ELSE prod[q].pc
        BY <1>1, <1>4 DEF Repeat
    <2>3. Reported' = Reported /\ Repeated' = Repeated \cup {p}
        BY <1>4, <2>2 DEF Repeat, Reported, Repeated
    <2>4. Cardinality(Repeated') = Cardinality(Repeated) + 1
        BY <2>1, <2>3, ReportersFinite, FS_AddElement
    <2> QED BY <1>1, <1>4, <2>3, <2>4, ReportersFinite, DoneEffect DEF Repeat, Reports
<1>5. CASE TryClose
    <2>1. /\ ch'.done = ch.done /\ ch'.producers = ch.producers
          /\ ch'.closed <=> ch.closed \/ ch.done = ch.producers
          /\ prod' = prod
        BY <1>1, <1>5, CloseEffect DEF TryClose
    <2> QED BY <2>1 DEF Reports, Reported, Repeated
<1>6. CASE Receive
    <2>1. /\ ch'.done = ch.done /\ ch'.producers = ch.producers /\ ch'.closed = ch.closed
          /\ prod' = prod
        BY <1>1, <1>6, RecvEffect DEF Receive
    <2> QED BY <2>1 DEF Reports, Reported, Repeated
<1>7. CASE UNCHANGED vars
    BY <1>7 DEF vars, Reports, Reported, Repeated
<1> QED
    BY <1>2, <1>3, <1>4, <1>5, <1>6, <1>7 DEF Next

\* The bookkeeping of reports holds in every reachable state.
THEOREM ReportsCounted == Spec => []Reports
BY ReportsInit, ReportsNext, Invariant, PTL DEF Spec

\* close() shuts a producer out only for a producer that was not registered or
\* for a report delivered twice.
THEOREM CloseWaits == Spec => []CloseWaitsForProducers
<1>1. IndInv /\ Reports => CloseWaitsForProducers
    <2> SUFFICES ASSUME IndInv, Reports, ch.closed
                 PROVE  Cardinality(Producers) - Cardinality(Reported)
                          <= Cardinality(Producers) - ch.producers + Cardinality(Repeated)
        BY DEF CloseWaitsForProducers
    <2>1. Cardinality(Producers) \in Nat /\ ch.producers \in Nat
        BY ConstantsAssumption, FS_CardinalityType DEF IndInv, TypeOK
    <2> QED BY <2>1, ReportersFinite DEF Reports
<1> QED
    BY <1>1, Invariant, ReportsCounted, PTL

\* With every producer registered and no report repeated, close() shuts nobody
\* out: each producer has reported before.
THEOREM NobodyShutOut ==
    Spec => [](ch.closed /\ ch.producers = Cardinality(Producers) /\ Repeated = {}
                 => Reported = Producers)
<1>1. IndInv /\ Reports /\ CloseWaitsForProducers =>
        (ch.closed /\ ch.producers = Cardinality(Producers) /\ Repeated = {}
           => Reported = Producers)
    <2> SUFFICES ASSUME CloseWaitsForProducers, ch.closed,
                        ch.producers = Cardinality(Producers), Repeated = {}
                 PROVE  Reported = Producers
        OBVIOUS
    <2>1. Reported \subseteq Producers
        BY DEF Reported
    <2>2. Cardinality(Producers) \in Nat /\ Cardinality(Reported) \in Nat
          /\ Cardinality(Repeated) = 0
        BY ConstantsAssumption, FS_CardinalityType, FS_EmptySet, ReportersFinite
    <2>3. Cardinality(Reported) >= Cardinality(Producers)
        BY <2>2 DEF CloseWaitsForProducers
    <2> QED BY <2>1, <2>2, <2>3, ConstantsAssumption, FS_Subset
<1> QED
    BY <1>1, Invariant, ReportsCounted, CloseWaits, PTL

\* A closed channel stays closed and takes neither items nor reports.
THEOREM Final == Spec => ClosedIsFinal
<1>1. IndInv /\ [Next]_vars =>
        [ch.closed => ch'.closed /\ accepted' = accepted /\ ch'.done = ch.done]_vars
    <2> SUFFICES ASSUME IndInv, [Next]_vars, ch.closed
                 PROVE  ch'.closed /\ accepted' = accepted /\ ch'.done = ch.done
        OBVIOUS
    <2>1. /\ ch \in ChannelType /\ ch.count <= ch.capacity /\ ch.done <= ch.producers
          /\ prod \in [Producers -> [sent : 0 .. Items, pc : {"sending", "rejected", "done", "repeated"}]]
        BY DEF IndInv, TypeOK, ChannelType
    <2>2. ASSUME NEW p \in Producers, TrySend(p)
          PROVE  ch'.closed /\ accepted' = accepted /\ ch'.done = ch.done
        <3>1. NextItem(p) \in Item
            BY <2>1, <2>2, ConstantsAssumption DEF TrySend, NextItem, Item
        <3> QED BY <2>1, <2>2, <3>1, SendEffect DEF TrySend
    <2>3. ASSUME NEW p \in Producers, Report(p) \/ Repeat(p)
          PROVE  ch'.closed /\ accepted' = accepted /\ ch'.done = ch.done
        BY <2>1, <2>3, DoneEffect DEF Report, Repeat
    <2>4. CASE TryClose
        BY <2>1, <2>4, CloseEffect DEF TryClose
    <2>5. CASE Receive
        BY <2>1, <2>5, RecvEffect DEF Receive
    <2>6. CASE UNCHANGED vars
        BY <2>6 DEF vars
    <2> QED BY <2>2, <2>3, <2>4, <2>5, <2>6 DEF Next
<1> QED
    BY <1>1, Invariant, PTL DEF Spec, ClosedIsFinal
=============================================================================

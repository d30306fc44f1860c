----------------------------- MODULE LossyCache -----------------------------
(***************************************************************************)
(* What the compiled-artifact cache promises its callers, with no files,   *)
(* locks or crashes: a map from slots to artifacts in which a binding      *)
(* appears all at once and only where there was none, may disappear at any *)
(* time, and never changes in place; and a lookup whose answer is what the *)
(* map held at one instant between the request and the reply.              *)
(***************************************************************************)
CONSTANTS Slots, Values, Callers, NoValue

VARIABLES cached,   \* slot -> the artifact a lookup would return, or NoValue
          asked,    \* caller -> the slot it is looking up, or NoValue
          answer    \* caller -> [slot, value] of its last lookup, or NoValue

vars == <<cached, asked, answer>>

Init ==
    /\ cached \in [Slots -> Values \cup {NoValue}]
    /\ asked = [c \in Callers |-> NoValue]
    /\ answer = [c \in Callers |-> NoValue]

\* A binding appears in an empty slot.
Publish(s, v) ==
    /\ cached[s] = NoValue
    /\ cached' = [cached EXCEPT ![s] = v]

\* A binding is forgotten: expiry, eviction.
Forget(s) ==
    /\ cached[s] # NoValue
    /\ cached' = [cached EXCEPT ![s] = NoValue]

Ask(c, s) ==
    /\ asked[c] = NoValue
    /\ asked' = [asked EXCEPT ![c] = s]
    /\ answer' = [answer EXCEPT ![c] = NoValue]

\* The reply is the slot's content at this very instant (NoValue is a miss).
Reply(c) ==
    /\ asked[c] # NoValue
    /\ answer' = [answer EXCEPT ![c] = [slot |-> asked[c], value |-> cached[asked[c]]]]
    /\ asked' = [asked EXCEPT ![c] = NoValue]

\* The caller dies or its lookup fails before there is an answer.
Abandon(c) ==
    /\ asked[c] # NoValue
    /\ asked' = [asked EXCEPT ![c] = NoValue]
    /\ UNCHANGED answer

\* The map and the callers never change in one step.
MapStep ==
    /\ cached' # cached /\ UNCHANGED <<asked, answer>>
    /\ \E s \in Slots : Forget(s) \/ \E v \in Values : Publish(s, v)

CallerStep ==
    /\ asked' # asked /\ UNCHANGED cached
    /\ \E c \in Callers : Reply(c) \/ Abandon(c) \/ \E s \in Slots : Ask(c, s)

Next == MapStep \/ CallerStep

Spec == Init /\ [][Next]_vars
=============================================================================

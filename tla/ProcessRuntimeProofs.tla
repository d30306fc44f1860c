------------------------ MODULE ProcessRuntimeProofs ------------------------
(***************************************************************************)
(* Safety proofs for ProcessRuntime: type correctness, the two slot        *)
(* accountings and, in the second half, the terminal observations, for any *)
(* number of threads and tokens and any limits.                            *)
(*                                                                         *)
(* Neither accounting is inductive on its own.  That a thread gives back   *)
(* a slot it really holds rests on the stage its token is in at each step  *)
(* (StartStages), on tokens under construction having one owner            *)
(* (NewOwners), on observed tokens being managed (CurManaged, Managed) and *)
(* on where the two subroutines may return to (Continuations).             *)
(***************************************************************************)
EXTENDS ProcessRuntime, FiniteSetTheorems, TLAPS

Busy == ObserveSteps \cup CancelSteps

\* Tokens under construction have one owner and are not free.
NewOwners ==
    /\ \A a, b \in Threads : new[a] \in Tokens /\ new[a] = new[b] => a = b
    /\ \A a \in Threads : new[a] \in Tokens => stage[new[a]] # "fresh"

\* The stage that the token of a start has reached at each of its steps.
StartStages ==
    \A th \in Threads :
        /\ \/ pc[th] \in {"snapshot", "sweep", "register", "unreserve"}
           \/ pc[th] \in Busy /\ loc[th].after_observe = "sweep"
           => new[th] \in Tokens /\ stage[new[th]] = "reserved"
        /\ pc[th] = "spawn" => new[th] \in Tokens /\ stage[new[th]] = "registered"
        /\ pc[th] = "unregister" => new[th] \in Tokens /\ stage[new[th]] = "unslotted"
        /\ pc[th] \in {"ready", "insert"} =>
             new[th] \in Tokens /\ stage[new[th]] = "starting"

\* Steps that work on cur have a managed token there.
CurManaged ==
    \A th \in Threads :
        pc[th] \in Busy \cup ClientSteps \cup {"drop_loop", "drop_check", "drop_join"}
        => cur[th] \in Tokens /\ stage[cur[th]] = "managed"

\* Where observe_managed and request_managed_cancel return to.
Continuations ==
    \A th \in Threads :
        /\ pc[th] \in Busy => loc[th].after_observe \in {"idle", "sweep", "again", "drop_check"}
        /\ pc[th] \in CancelSteps =>
             loc[th].after_cancel \in {"entry", "escalate", "classify", "drop_loop"}
        /\ pc[th] = "cancel" \/ pc[th] = "mark" =>
             (loc[th].after_cancel = "escalate" => loc[th].after_observe \in {"idle", "again"})
             /\ (loc[th].after_cancel = "drop_loop" => loc[th].after_observe = "drop_check")
        /\ pc[th] \in {"deadline", "escalate"} => loc[th].after_observe \in {"idle", "again"}
        /\ pc[th] = "again" => loc[th].after_observe = "again"
        /\ pc[th] \in {"drop_loop", "drop_check"} => loc[th].after_observe = "drop_check"

\* Registered, copied and released tokens are managed.
Managed ==
    /\ \A t \in executions : stage[t] = "managed"
    /\ \A th \in Threads : \A t \in snap[th] : stage[t] = "managed"
    /\ \A t \in Tokens : slot_released[t] => stage[t] = "managed"

Structure == NewOwners /\ StartStages /\ CurManaged /\ Continuations /\ Managed

-----------------------------------------------------------------------------
(* Types *)

\* The locals, view and observation that a call begins with have their types.
LEMMA NoLocalsType == NoLocals \in Locals /\ NoView \in Views /\ NoObservation \in Observations
  BY DEF NoLocals, Locals, NoView, Views, NoObservation, Observations, Statuses,
         AllOperations, Steps, Units, Results

\* Each way in which an action updates the locals of a call keeps their type.
LEMMA LocalsUpdates ==
  ASSUME NEW l \in Locals
  PROVE  /\ \A v \in Views : [l EXCEPT !.view = v] \in Locals
         /\ \A s \in Steps : [l EXCEPT !.after_observe = s] \in Locals
         /\ \A s \in Steps : [l EXCEPT !.after_cancel = s] \in Locals
         /\ \A v \in Views, s \in Steps :
              [l EXCEPT !.view = v, !.after_cancel = s] \in Locals
         /\ \A o \in Observations : [l EXCEPT !.obs = o] \in Locals
         /\ [l EXCEPT !.bound = TRUE] \in Locals
         /\ \A v \in Views, o \in Observations, c \in BOOLEAN :
              [l EXCEPT !.view = v, !.obs = o, !.cleanup = c] \in Locals
         /\ \A op \in AllOperations : [l EXCEPT !.op = op] \in Locals
         /\ \A op \in AllOperations, s \in Steps :
              /\ [l EXCEPT !.op = op, !.after_observe = s] \in Locals
              /\ [l EXCEPT !.op = op, !.after_cancel = s] \in Locals
         /\ \A op \in AllOperations, s, r \in Steps :
              [l EXCEPT !.op = op, !.after_cancel = s, !.after_observe = r] \in Locals
  BY DEF Locals

\* The locals of a call hold a view, an observation and two return points.
LEMMA LocalsFields ==
  ASSUME NEW l \in Locals
  PROVE  /\ l.view \in Views /\ l.obs \in Observations
         /\ l.after_observe \in Steps /\ l.after_cancel \in Steps
  BY DEF Locals

\* ... and so for what an observation has gathered, and for its result ...
LEMMA ViewUpdates ==
  ASSUME NEW v \in Views
  PROVE  /\ \A u \in Units, r \in Results : [v EXCEPT !.unit = u, !.result = r] \in Views
         /\ \A s \in {"empty", "populated", "unread"}, b \in BOOLEAN :
              [v EXCEPT !.tree = s, !.limited = b] \in Views
         /\ \A b \in BOOLEAN : [v EXCEPT !.reaped = b] \in Views
         /\ \A b \in BOOLEAN : [v EXCEPT !.exceeded = b] \in Views
         /\ \A a, b \in BOOLEAN : [v EXCEPT !.timed_out = a, !.ready = b] \in Views
  BY DEF Views

\* make_observation and the choice of the status keep the type of the result.
LEMMA ObservationUpdates ==
  ASSUME NEW o \in Observations
  PROVE  /\ \A s \in Statuses : [o EXCEPT !.status = s] \in Observations
         /\ \A a, b, c \in BOOLEAN :
              [o EXCEPT !.deadline_exceeded = a, !.cancellation_requested = b,
                        !.output_exhausted = c] \in Observations
  BY DEF Observations

\* ... and for the fields of a managed process and of its unit.
LEMMA ProcessUpdates ==
  ASSUME NEW p \in Processes
  PROVE  /\ \A a, b \in BOOLEAN : [p EXCEPT !.cgroup = a, !.provider_ready = b] \in Processes
         /\ [p EXCEPT !.cancellation_requested = TRUE, !.grace = "running"] \in Processes
         /\ [p EXCEPT !.asked = TRUE] \in Processes
         /\ [p EXCEPT !.timed_out = TRUE] \in Processes
         /\ [p EXCEPT !.output_exhausted = TRUE] \in Processes
         /\ [p EXCEPT !.exceeded = TRUE] \in Processes
         /\ [p EXCEPT !.grace = "elapsed"] \in Processes
         /\ \A n \in 0..2 : [p EXCEPT !.clock = n] \in Processes
  BY DEF Processes

\* The flags and the clock of a managed process have their types.
LEMMA ProcessFields ==
  ASSUME NEW p \in Processes
  PROVE  /\ p.cgroup \in BOOLEAN /\ p.provider_ready \in BOOLEAN
         /\ p.cancellation_requested \in BOOLEAN /\ p.timed_out \in BOOLEAN
         /\ p.output_exhausted \in BOOLEAN /\ p.exceeded \in BOOLEAN
         /\ p.clock \in 0..2
  BY DEF Processes

\* What threads and the system do to a unit and its launcher keeps their types.
LEMMA SystemUpdates ==
  ASSUME NEW s \in Systems
  PROVE  /\ \A b \in BOOLEAN : [s EXCEPT !.launcher = "live", !.stuck = b] \in Systems
         /\ [s EXCEPT !.launcher = "exited"] \in Systems
         /\ [s EXCEPT !.killed = TRUE] \in Systems
         /\ [s EXCEPT !.limited = TRUE] \in Systems
         /\ \A u \in Units : [s EXCEPT !.unit = u] \in Systems
         /\ \A r \in Results : [s EXCEPT !.unit = "dead", !.result = r] \in Systems
         /\ s.unit \in Units /\ s.result \in Results
  BY DEF Systems, Units

\* terminal_status always answers with one of the statuses.
LEMMA StatusType ==
  ASSUME NEW v, NEW c
  PROVE  TerminalStatus(v, c) \in Statuses
  BY DEF TerminalStatus, Statuses

\* Return keeps the types of the thread variables.
LEMMA ReturnType ==
  ASSUME TypeOK, NEW th \in Threads, NEW c \in BOOLEAN, Return(th, c)
  PROVE  /\ pc' \in [Threads -> Steps]
         /\ new' \in [Threads -> Tokens \cup {NoToken}]
         /\ cur' \in [Threads -> Tokens \cup {NoToken}]
         /\ loc' \in [Threads -> Locals]
  <1>1. loc' \in [Threads -> Locals]
    <2>1. [loc[th] EXCEPT !.view = NoView, !.obs = NoObservation, !.cleanup = c] \in Locals
      BY NoLocalsType, LocalsUpdates DEF TypeOK
    <2>2. CASE loc[th].after_observe = "idle"
      BY <2>2, NoLocalsType DEF Return, TypeOK
    <2>3. CASE loc[th].after_observe # "idle"
      BY <2>1, <2>3 DEF Return, TypeOK
    <2> QED BY <2>2, <2>3
  <1>2. pc' \in [Threads -> Steps]
    BY LocalsFields DEF Return, TypeOK, Goto
  <1> QED BY <1>1, <1>2 DEF Return, TypeOK

\* So does the end of a call.
LEMMA EndCallType ==
  ASSUME TypeOK, NEW th \in Threads, EndCall(th)
  PROVE  /\ pc' \in [Threads -> Steps]
         /\ new' \in [Threads -> Tokens \cup {NoToken}]
         /\ cur' \in [Threads -> Tokens \cup {NoToken}]
         /\ loc' \in [Threads -> Locals]
  BY NoLocalsType DEF EndCall, TypeOK, Goto, Steps

\* The types hold in a new runtime.
LEMMA InitType == Init => TypeOK
  BY ConstantsAssumption, NoLocalsType
  DEF Init, TypeOK, NewProcess, Processes, NoSystem, Systems, Units, Results,
      NoObservation, Observations, Statuses, Steps


\* Every step keeps the types; the structure of the calls tells which tokens
\* a step works on.
LEMMA TypeStep ==
  ASSUME TypeOK, Structure, Next
  PROVE  TypeOK'
  <1> USE ConstantsAssumption DEF Structure, TypeOK, Goto, Steps, StartSteps,
          ObserveSteps, CancelSteps, ClientSteps, DropSteps, registryVars,
          tokenVars, threadVars, Environment
  <1>1. ASSUME NEW th \in Threads, NEW t \in Tokens, ReserveSlot(th, t)
        PROVE  TypeOK'
    <2>1. loc' \in [Threads -> Locals]
      BY <1>1, NoLocalsType, LocalsUpdates DEF ReserveSlot, AllOperations
    <2> QED BY <1>1, <2>1 DEF ReserveSlot
  <1>2. ASSUME NEW th \in Threads, GiveUpSlot(th)
        PROVE  TypeOK'
    <2>1. new[th] \in Tokens
      BY <1>2 DEF GiveUpSlot, StartStages
    <2>2. loc' \in [Threads -> Locals]
      BY <1>2, <2>1, NoLocalsType, LocalsUpdates DEF GiveUpSlot, AllOperations
    <2> QED BY <1>2, <2>1, <2>2 DEF GiveUpSlot
  <1>3. ASSUME NEW th \in Threads, SnapshotExecutions(th)
        PROVE  TypeOK'
    <2> QED BY <1>3 DEF SnapshotExecutions
  <1>4. ASSUME NEW th \in Threads, NEW t \in Tokens, SweepNext(th, t)
        PROVE  TypeOK'
    <2>1. loc' \in [Threads -> Locals]
      BY <1>4, NoLocalsType, LocalsUpdates DEF SweepNext
    <2> QED BY <1>4, <2>1 DEF SweepNext
  <1>5. ASSUME NEW th \in Threads, LockRegistry(th)
        PROVE  TypeOK'
    <2>1. loc' \in [Threads -> Locals]
      BY <1>5, NoLocalsType, LocalsUpdates DEF LockRegistry, AllOperations
    <2> QED BY <1>5, <2>1 DEF LockRegistry
  <1>6. ASSUME NEW th \in Threads, NEW t \in Tokens, EvictCompleted(th, t)
        PROVE  TypeOK'
    <2> QED BY <1>6 DEF EvictCompleted
  <1>7. ASSUME NEW th \in Threads, RegistryFull(th)
        PROVE  TypeOK'
    <2> QED BY <1>7 DEF RegistryFull
  <1>8. ASSUME NEW th \in Threads, ReserveRegistrySlot(th)
        PROVE  TypeOK'
    <2>1. new[th] \in Tokens
      BY <1>8 DEF ReserveRegistrySlot, StartStages
    <2> QED BY <1>8, <2>1 DEF ReserveRegistrySlot
  <1>9. ASSUME NEW th \in Threads, Spawn(th)
        PROVE  TypeOK'
    <2>1. new[th] \in Tokens
      BY <1>9 DEF Spawn, StartStages
    <2>2. sys' \in [Tokens -> Systems]
      <3>1. PICK stuck \in BOOLEAN :
              sys' = [sys EXCEPT ![new[th]] =
                        [sys[new[th]] EXCEPT !.launcher = "live", !.stuck = stuck]]
        BY <1>9 DEF Spawn
      <3> QED BY <2>1, <3>1, SystemUpdates
    <2> QED BY <1>9, <2>1, <2>2 DEF Spawn
  <1>10. ASSUME NEW th \in Threads, SpawnFails(th)
        PROVE  TypeOK'
    <2>1. new[th] \in Tokens
      BY <1>10 DEF SpawnFails, StartStages
    <2> QED BY <1>10, <2>1 DEF SpawnFails
  <1>11. ASSUME NEW th \in Threads, GiveUpRegistrySlot(th)
        PROVE  TypeOK'
    <2>1. new[th] \in Tokens
      BY <1>11 DEF GiveUpRegistrySlot, StartStages
    <2>2. loc' \in [Threads -> Locals]
      BY <1>11, <2>1, NoLocalsType, LocalsUpdates
      DEF GiveUpRegistrySlot, AllOperations
    <2> QED BY <1>11, <2>1, <2>2 DEF GiveUpRegistrySlot
  <1>12. ASSUME NEW th \in Threads, ProviderReady(th)
        PROVE  TypeOK'
    <2>1. new[th] \in Tokens
      BY <1>12 DEF ProviderReady, StartStages
    <2>2. proc' \in [Tokens -> Processes]
      BY <1>12, <2>1, ProcessUpdates DEF ProviderReady
    <2> QED BY <1>12, <2>1, <2>2 DEF ProviderReady
  <1>13. ASSUME NEW th \in Threads, ProviderNotReady(th)
        PROVE  TypeOK'
    <2> QED BY <1>13 DEF ProviderNotReady
  <1>14. ASSUME NEW th \in Threads, InsertExecution(th)
        PROVE  TypeOK'
    <2>1. new[th] \in Tokens
      BY <1>14 DEF InsertExecution, StartStages
    <2>2. loc' \in [Threads -> Locals]
      BY <1>14, <2>1, NoLocalsType, LocalsUpdates DEF InsertExecution
    <2> QED BY <1>14, <2>1, <2>2 DEF InsertExecution
  <1>15. ASSUME NEW th \in Threads, NEW t \in Tokens, NEW op \in AllOperations,
              CallObserve(th, t, op)
        PROVE  TypeOK'
    <2>1. loc' \in [Threads -> Locals]
      BY <1>15, NoLocalsType, LocalsUpdates DEF CallObserve, AllOperations
    <2> QED BY <1>15, <2>1 DEF CallObserve
  <1>16. ASSUME NEW th \in Threads, NEW t \in Tokens, RequestCancel(th, t)
        PROVE  TypeOK'
    <2>1. loc' \in [Threads -> Locals]
      BY <1>16, NoLocalsType, LocalsUpdates DEF RequestCancel, AllOperations
    <2>2. proc' \in [Tokens -> Processes]
      BY <1>16, ProcessUpdates DEF RequestCancel
    <2> QED BY <1>16, <2>1, <2>2 DEF RequestCancel
  <1>17. ASSUME NEW th \in Threads, CancelCheck(th)
        PROVE  TypeOK'
    <2>1. pc' \in [Threads -> Steps]
      BY <1>17, LocalsFields DEF CancelCheck
    <2> QED BY <1>17, <2>1 DEF CancelCheck
  <1>18. ASSUME NEW th \in Threads, CancelMark(th)
        PROVE  TypeOK'
    <2>1. cur[th] \in Tokens
      BY <1>18 DEF CancelMark, CurManaged, Busy
    <2>2. pc' \in [Threads -> Steps]
      BY <1>18, <2>1, LocalsFields DEF CancelMark
    <2>3. proc' \in [Tokens -> Processes]
      BY <1>18, <2>1, ProcessUpdates DEF CancelMark
    <2> QED BY <1>18, <2>1, <2>2, <2>3 DEF CancelMark
  <1>19. ASSUME NEW th \in Threads, CheckDeadline(th)
        PROVE  TypeOK'
    <2>1. cur[th] \in Tokens
      BY <1>19 DEF CheckDeadline, CurManaged, Busy
    <2>2. loc' \in [Threads -> Locals]
      <3>1. loc' = [loc EXCEPT ![th].after_cancel = "escalate"] \/ loc' = loc
        BY <1>19 DEF CheckDeadline
      <3>2. [loc[th] EXCEPT !.after_cancel = "escalate"] \in Locals
        BY LocalsUpdates
      <3> QED BY <3>1, <3>2
    <2>3. proc' \in [Tokens -> Processes]
      <3>1. proc' = [proc EXCEPT ![cur[th]].timed_out = TRUE] \/ proc' = proc
        BY <1>19 DEF CheckDeadline
      <3>2. [proc[cur[th]] EXCEPT !.timed_out = TRUE] \in Processes
        BY <2>1, ProcessUpdates
      <3> QED BY <2>1, <3>1, <3>2
    <2> QED BY <1>19, <2>1, <2>2, <2>3 DEF CheckDeadline
  <1>20. ASSUME NEW th \in Threads, Escalate(th)
        PROVE  TypeOK'
    <2>1. cur[th] \in Tokens
      BY <1>20 DEF Escalate, CurManaged, Busy
    <2>2. sys' \in [Tokens -> Systems]
      BY <1>20, <2>1, SystemUpdates DEF Escalate
    <2> QED BY <1>20, <2>1, <2>2 DEF Escalate
  <1>21. ASSUME NEW th \in Threads, EscalateLost(th)
        PROVE  TypeOK'
    <2> QED BY <1>21 DEF EscalateLost
  <1>22. ASSUME NEW th \in Threads, StopWaiting(th)
        PROVE  TypeOK'
    <2>1. loc' \in [Threads -> Locals]
      BY <1>22, NoLocalsType, LocalsUpdates DEF StopWaiting, AllOperations
    <2> QED BY <1>22, <2>1 DEF StopWaiting
  <1>23. ASSUME NEW th \in Threads, ObserveAgain(th)
        PROVE  TypeOK'
    <2> QED BY <1>23 DEF ObserveAgain
  <1>24. ASSUME NEW th \in Threads, ObserveEntry(th)
        PROVE  TypeOK'
    <2>1. pc' \in [Threads -> Steps] /\ new' \in [Threads -> Tokens \cup {NoToken}]
           /\ cur' \in [Threads -> Tokens \cup {NoToken}] /\ loc' \in [Threads -> Locals]
      BY <1>24, ReturnType DEF ObserveEntry
    <2> QED BY <1>24, <2>1 DEF ObserveEntry
  <1>25. ASSUME NEW th \in Threads, ReadProperties(th)
        PROVE  TypeOK'
    <2>1. cur[th] \in Tokens
      BY <1>25 DEF ReadProperties, CurManaged, Busy
    <2>2. proc' \in [Tokens -> Processes]
      BY <1>25, <2>1, ProcessUpdates, ProcessFields DEF ReadProperties
    <2>3. loc' \in [Threads -> Locals]
      BY <1>25, <2>1, LocalsUpdates, LocalsFields, ViewUpdates, SystemUpdates
      DEF ReadProperties, Results
    <2> QED BY <1>25, <2>1, <2>2, <2>3 DEF ReadProperties
  <1>26. ASSUME NEW th \in Threads, ReadPropertiesFails(th)
        PROVE  TypeOK'
    <2> QED BY <1>26 DEF ReadPropertiesFails
  <1>27. ASSUME NEW th \in Threads, ReadCgroup(th)
        PROVE  TypeOK'
    <2>1. cur[th] \in Tokens
      BY <1>27 DEF ReadCgroup, CurManaged, Busy
    <2>2. loc' \in [Threads -> Locals]
      <3>1. PICK tree \in {"empty", "populated", "unread"} :
              loc' = [loc EXCEPT ![th].view = [loc[th].view EXCEPT !.tree = tree,
                        !.limited = (tree # "unread" /\ sys[cur[th]].limited)]]
        BY <1>27 DEF ReadCgroup
      <3>2. (tree # "unread" /\ sys[cur[th]].limited) \in BOOLEAN
        OBVIOUS
      <3>3. [loc[th].view EXCEPT !.tree = tree,
               !.limited = (tree # "unread" /\ sys[cur[th]].limited)] \in Views
        BY <3>2, LocalsFields, ViewUpdates
      <3> QED BY <3>1, <3>3, LocalsUpdates
    <2> QED BY <1>27, <2>1, <2>2 DEF ReadCgroup
  <1>28. ASSUME NEW th \in Threads, TryWait(th)
        PROVE  TypeOK'
    <2>1. loc' \in [Threads -> Locals]
      BY <1>28, LocalsUpdates, LocalsFields, ViewUpdates DEF TryWait
    <2> QED BY <1>28, <2>1 DEF TryWait
  <1>29. ASSUME NEW th \in Threads, TryWaitFails(th)
        PROVE  TypeOK'
    <2>1. pc' \in [Threads -> Steps] /\ new' \in [Threads -> Tokens \cup {NoToken}]
           /\ cur' \in [Threads -> Tokens \cup {NoToken}] /\ loc' \in [Threads -> Locals]
      BY <1>29, ReturnType, EndCallType DEF TryWaitFails
    <2> QED BY <1>29, <2>1 DEF TryWaitFails
  <1>30. ASSUME NEW th \in Threads, CheckOutput(th)
        PROVE  TypeOK'
    <2>1. cur[th] \in Tokens
      BY <1>30 DEF CheckOutput, CurManaged, Busy
    <2>2. loc' \in [Threads -> Locals]
      BY <1>30, <2>1, LocalsUpdates, LocalsFields, ViewUpdates, ProcessFields
      DEF CheckOutput
    <2>3. proc' \in [Tokens -> Processes]
      <3>1. proc' = [proc EXCEPT ![cur[th]].output_exhausted = TRUE] \/ proc' = proc
        BY <1>30 DEF CheckOutput
      <3>2. [proc[cur[th]] EXCEPT !.output_exhausted = TRUE] \in Processes
        BY <2>1, ProcessUpdates
      <3> QED BY <2>1, <3>1, <3>2
    <2> QED BY <1>30, <2>1, <2>2, <2>3 DEF CheckOutput
  <1>31. ASSUME NEW th \in Threads, Classify(th)
        PROVE  TypeOK'
    <2>1. cur[th] \in Tokens
      BY <1>31 DEF Classify, CurManaged, Busy
    <2>2. pc' \in [Threads -> Steps] /\ new' \in [Threads -> Tokens \cup {NoToken}]
           /\ cur' \in [Threads -> Tokens \cup {NoToken}] /\ loc' \in [Threads -> Locals]
      <3>1. CASE CleanupComplete(loc[th].view)
        <4> DEFINE timed == proc[cur[th]].timed_out \/ loc[th].view.result = "timeout"
                   seen == [loc[th].view EXCEPT !.timed_out = timed,
                              !.ready = proc[cur[th]].provider_ready]
        <4>1. timed \in BOOLEAN
          OBVIOUS
        <4>2. seen \in Views
          BY <2>1, <4>1, LocalsFields, ViewUpdates, ProcessFields
        <4>3. /\ loc' = [loc EXCEPT ![th].view = seen]
              /\ Goto(th, "status") /\ UNCHANGED <<new, cur>>
          BY <1>31, <3>1 DEF Classify
        <4> HIDE DEF seen
        <4>4. [loc[th] EXCEPT !.view = seen] \in Locals
          BY <4>2, LocalsUpdates
        <4> QED BY <4>3, <4>4
      <3>2. CASE ~CleanupComplete(loc[th].view)
        BY <1>31, <3>2, ReturnType DEF Classify
      <3> QED BY <3>1, <3>2
    <2> QED BY <1>31, <2>1, <2>2 DEF Classify
  <1>32. ASSUME NEW th \in Threads, DecideStatus(th)
        PROVE  TypeOK'
    <2>1. cur[th] \in Tokens
      BY <1>32 DEF DecideStatus, CurManaged, Busy
    <2>2. loc' \in [Threads -> Locals]
      BY <1>32, <2>1, LocalsUpdates, LocalsFields, ObservationUpdates,
         StatusType
      DEF DecideStatus
    <2> QED BY <1>32, <2>1, <2>2 DEF DecideStatus
  <1>33. ASSUME NEW th \in Threads, Seal(th)
        PROVE  TypeOK'
    <2>1. cur[th] \in Tokens
      BY <1>33 DEF Seal, CurManaged, Busy
    <2>2. loc' \in [Threads -> Locals]
      BY <1>33, <2>1, LocalsUpdates, LocalsFields, ObservationUpdates,
         ProcessFields
      DEF Seal
    <2>3. sys' \in [Tokens -> Systems]
      BY <1>33, <2>1, SystemUpdates DEF Seal, Units
    <2> QED BY <1>33, <2>1, <2>2, <2>3 DEF Seal
  <1>34. ASSUME NEW th \in Threads, PublishFinal(th)
        PROVE  TypeOK'
    <2>1. cur[th] \in Tokens
      BY <1>34 DEF PublishFinal, CurManaged, Busy
    <2>2. finalized' \in [Tokens -> Observations]
      BY <1>34, <2>1, LocalsFields DEF PublishFinal
    <2> QED BY <1>34, <2>1, <2>2 DEF PublishFinal
  <1>35. ASSUME NEW th \in Threads, ReleaseSlot(th)
        PROVE  TypeOK'
    <2>1. cur[th] \in Tokens
      BY <1>35 DEF ReleaseSlot, CurManaged, Busy
    <2>2. pc' \in [Threads -> Steps] /\ new' \in [Threads -> Tokens \cup {NoToken}]
           /\ cur' \in [Threads -> Tokens \cup {NoToken}] /\ loc' \in [Threads -> Locals]
      BY <1>35, <2>1, ReturnType DEF ReleaseSlot
    <2> QED BY <1>35, <2>1, <2>2 DEF ReleaseSlot, SlotsAfterRelease
  <1>36. ASSUME NEW th \in Threads, DropBegin(th)
        PROVE  TypeOK'
    <2>1. loc' \in [Threads -> Locals]
      BY <1>36, NoLocalsType, LocalsUpdates DEF DropBegin, AllOperations
    <2> QED BY <1>36, <2>1 DEF DropBegin
  <1>37. ASSUME NEW th \in Threads, NEW t \in Tokens, DropNext(th, t)
        PROVE  TypeOK'
    <2>1. loc' \in [Threads -> Locals]
      BY <1>37, NoLocalsType, LocalsUpdates DEF DropNext, AllOperations
    <2>2. proc' \in [Tokens -> Processes]
      BY <1>37, ProcessUpdates DEF DropNext
    <2> QED BY <1>37, <2>1, <2>2 DEF DropNext
  <1>38. ASSUME NEW th \in Threads, DropTurn(th)
        PROVE  TypeOK'
    <2>1. cur[th] \in Tokens
      BY <1>38 DEF DropTurn, CurManaged, Busy
    <2>2. sys' \in [Tokens -> Systems]
      <3>1. sys' = [sys EXCEPT ![cur[th]].killed = TRUE] \/ sys' = sys
        BY <1>38 DEF DropTurn
      <3>2. [sys[cur[th]] EXCEPT !.killed = TRUE] \in Systems
        BY <2>1, SystemUpdates
      <3> QED BY <2>1, <3>1, <3>2
    <2> QED BY <1>38, <2>1, <2>2 DEF DropTurn
  <1>39. ASSUME NEW th \in Threads, DropCheck(th)
        PROVE  TypeOK'
    <2> QED BY <1>39 DEF DropCheck
  <1>40. ASSUME NEW th \in Threads, DropJoin(th)
        PROVE  TypeOK'
    <2>1. loc' \in [Threads -> Locals]
      BY <1>40, NoLocalsType, LocalsUpdates DEF DropJoin, AllOperations
    <2> QED BY <1>40, <2>1 DEF DropJoin
  <1>41. ASSUME NEW th \in Threads, DropEnd(th)
        PROVE  TypeOK'
    <2>1. loc' \in [Threads -> Locals]
      BY <1>41, NoLocalsType, LocalsUpdates DEF DropEnd, AllOperations
    <2> QED BY <1>41, <2>1 DEF DropEnd
  <1>42. ASSUME NEW th \in Threads, BoundPasses(th)
        PROVE  TypeOK'
    <2>1. loc' \in [Threads -> Locals]
      BY <1>42, LocalsUpdates DEF BoundPasses
    <2> QED BY <1>42, <2>1 DEF BoundPasses
  <1>43. ASSUME NEW t \in Tokens, UnitStarts(t)
        PROVE  TypeOK'
    <2>1. sys' \in [Tokens -> Systems]
      BY <1>43, SystemUpdates DEF UnitStarts, Units
    <2> QED BY <1>43, <2>1 DEF UnitStarts
  <1>44. ASSUME NEW t \in Tokens, UnitRefused(t)
        PROVE  TypeOK'
    <2>1. sys' \in [Tokens -> Systems]
      BY <1>44, SystemUpdates DEF UnitRefused, Units
    <2> QED BY <1>44, <2>1 DEF UnitRefused
  <1>45. ASSUME NEW t \in Tokens, UnitDies(t)
        PROVE  TypeOK'
    <2>1. sys' \in [Tokens -> Systems]
      <3>1. PICK result \in Results :
              sys' = [sys EXCEPT ![t] = [sys[t] EXCEPT !.unit = "dead", !.result = result]]
        BY <1>45 DEF UnitDies
      <3> QED BY <3>1, SystemUpdates
    <2> QED BY <1>45, <2>1 DEF UnitDies
  <1>46. ASSUME NEW t \in Tokens, LauncherExits(t)
        PROVE  TypeOK'
    <2>1. sys' \in [Tokens -> Systems]
      BY <1>46, SystemUpdates DEF LauncherExits, Units
    <2> QED BY <1>46, <2>1 DEF LauncherExits
  <1>47. ASSUME NEW t \in Tokens, LauncherLost(t)
        PROVE  TypeOK'
    <2>1. sys' \in [Tokens -> Systems]
      BY <1>47, SystemUpdates DEF LauncherLost, Units
    <2> QED BY <1>47, <2>1 DEF LauncherLost
  <1>48. ASSUME NEW t \in Tokens, UnitCollected(t)
        PROVE  TypeOK'
    <2>1. sys' \in [Tokens -> Systems]
      BY <1>48, SystemUpdates DEF UnitCollected, Units
    <2> QED BY <1>48, <2>1 DEF UnitCollected
  <1>49. ASSUME NEW t \in Tokens, LimitHit(t)
        PROVE  TypeOK'
    <2>1. sys' \in [Tokens -> Systems]
      BY <1>49, SystemUpdates DEF LimitHit, Units
    <2> QED BY <1>49, <2>1 DEF LimitHit
  <1>50. ASSUME NEW t \in Tokens, OutputOverflows(t)
        PROVE  TypeOK'
    <2>1. proc' \in [Tokens -> Processes]
      BY <1>50, ProcessUpdates DEF OutputOverflows
    <2> QED BY <1>50, <2>1 DEF OutputOverflows
  <1>51. ASSUME NEW t \in Tokens, DeadlinePasses(t)
        PROVE  TypeOK'
    <2>1. proc' \in [Tokens -> Processes]
      <3>1. proc[t].clock + 1 \in 0..2
        BY <1>51, ProcessFields DEF DeadlinePasses
      <3> QED BY <1>51, <3>1, ProcessUpdates DEF DeadlinePasses
    <2> QED BY <1>51, <2>1 DEF DeadlinePasses
  <1>52. ASSUME NEW t \in Tokens, GraceElapses(t)
        PROVE  TypeOK'
    <2>1. proc' \in [Tokens -> Processes]
      BY <1>52, ProcessUpdates DEF GraceElapses
    <2> QED BY <1>52, <2>1 DEF GraceElapses
  <1> QED
    BY <1>1, <1>2, <1>3, <1>4, <1>5, <1>6, <1>7, <1>8, <1>9, <1>10, <1>11,
       <1>12, <1>13, <1>14, <1>15, <1>16, <1>17, <1>18, <1>19, <1>20, <1>21,
       <1>22, <1>23, <1>24, <1>25, <1>26, <1>27, <1>28, <1>29, <1>30, <1>31,
       <1>32, <1>33, <1>34, <1>35, <1>36, <1>37, <1>38, <1>39, <1>40, <1>41,
       <1>42, <1>43, <1>44, <1>45, <1>46, <1>47, <1>48, <1>49, <1>50, <1>51,
       <1>52
    DEF Next, Call, StartStep, ObserveStep, DropStep, ThreadStep,
        EnvironmentStep

-----------------------------------------------------------------------------
(* Structure of the calls *)

\* Updates of the other locals keep the return points of the subroutines.
LEMMA ReturnPoints ==
  ASSUME NEW l \in Locals, NEW x, NEW y, NEW z
  PROVE  /\ [l EXCEPT !.after_cancel = x].after_observe = l.after_observe
         /\ [l EXCEPT !.after_cancel = x].after_cancel = x
         /\ [l EXCEPT !.view = x].after_observe = l.after_observe
         /\ [l EXCEPT !.view = x].after_cancel = l.after_cancel
         /\ [l EXCEPT !.view = x, !.obs = y, !.cleanup = z].after_observe = l.after_observe
         /\ [l EXCEPT !.view = x, !.obs = y, !.cleanup = z].after_cancel = l.after_cancel
  BY DEF Locals

\* A return moves the thread to its return point and, unless the call is over,
\* keeps that point.
Returns(th) ==
    /\ pc' = [pc EXCEPT ![th] = loc[th].after_observe]
    /\ \A u \in Threads \ {th} : loc'[u] = loc[u] /\ new'[u] = new[u] /\ cur'[u] = cur[u]
    /\ loc[th].after_observe # "idle" =>
         /\ loc'[th].after_observe = loc[th].after_observe
         /\ new' = new /\ cur' = cur

\* Every return of observe_managed has that shape.
LEMMA ReturnShape ==
  ASSUME TypeOK, NEW th \in Threads, NEW c \in BOOLEAN, Return(th, c)
  PROVE  Returns(th)
  <1>1. CASE loc[th].after_observe = "idle"
    BY <1>1 DEF Return, Returns, Goto, TypeOK
  <1>2. CASE loc[th].after_observe # "idle"
    <2>1. loc' = [loc EXCEPT ![th] = [loc[th] EXCEPT !.view = NoView,
                    !.obs = NoObservation, !.cleanup = c]]
      BY <1>2 DEF Return
    <2>2. [loc[th] EXCEPT !.view = NoView, !.obs = NoObservation,
             !.cleanup = c].after_observe = loc[th].after_observe
      BY ReturnPoints DEF TypeOK
    <2> QED BY <1>2, <2>1, <2>2 DEF Return, Returns, Goto, TypeOK
  <1> QED BY <1>1, <1>2

\* Every step keeps the structure, one conjunct at a time.
LEMMA StructureStep ==
  ASSUME TypeOK, TypeOK', Structure, Next
  PROVE  Structure'
  <1> USE ConstantsAssumption DEF Structure, TypeOK, Goto, registryVars,
          tokenVars, threadVars, Busy, ObserveSteps, CancelSteps, ClientSteps
  <1>1. ASSUME NEW th \in Threads, NEW t \in Tokens, ReserveSlot(th, t)
        PROVE  Structure'
    BY <1>1 DEF ReserveSlot, NewOwners, StartStages, CurManaged,
           Continuations, Managed
  <1>2. ASSUME NEW th \in Threads, GiveUpSlot(th)
        PROVE  Structure'
    BY <1>2 DEF GiveUpSlot, NewOwners, StartStages, CurManaged,
           Continuations, Managed
  <1>3. ASSUME NEW th \in Threads, SnapshotExecutions(th)
        PROVE  Structure'
    BY <1>3 DEF SnapshotExecutions, NewOwners, StartStages, CurManaged,
           Continuations, Managed
  <1>4. ASSUME NEW th \in Threads, NEW t \in Tokens, SweepNext(th, t)
        PROVE  Structure'
    BY <1>4 DEF SweepNext, NewOwners, StartStages, CurManaged,
           Continuations, Managed
  <1>5. ASSUME NEW th \in Threads, LockRegistry(th)
        PROVE  Structure'
    BY <1>5 DEF LockRegistry, NoLocals, NewOwners, StartStages, CurManaged,
           Continuations, Managed
  <1>6. ASSUME NEW th \in Threads, NEW t \in Tokens, EvictCompleted(th, t)
        PROVE  Structure'
    BY <1>6 DEF EvictCompleted, Evictable, NewOwners, StartStages, CurManaged,
           Continuations, Managed
  <1>7. ASSUME NEW th \in Threads, RegistryFull(th)
        PROVE  Structure'
    BY <1>7 DEF RegistryFull, NewOwners, StartStages, CurManaged,
           Continuations, Managed
  <1>8. ASSUME NEW th \in Threads, ReserveRegistrySlot(th)
        PROVE  Structure'
    BY <1>8 DEF ReserveRegistrySlot, NewOwners, StartStages, CurManaged,
           Continuations, Managed
  <1>9. ASSUME NEW th \in Threads, Spawn(th)
        PROVE  Structure'
    BY <1>9 DEF Spawn, NewOwners, StartStages, CurManaged,
           Continuations, Managed
  <1>10. ASSUME NEW th \in Threads, SpawnFails(th)
        PROVE  Structure'
    BY <1>10 DEF SpawnFails, NewOwners, StartStages, CurManaged,
           Continuations, Managed
  <1>11. ASSUME NEW th \in Threads, GiveUpRegistrySlot(th)
        PROVE  Structure'
    BY <1>11 DEF GiveUpRegistrySlot, NewOwners, StartStages, CurManaged,
           Continuations, Managed
  <1>12. ASSUME NEW th \in Threads, ProviderReady(th)
        PROVE  Structure'
    BY <1>12 DEF ProviderReady, NewOwners, StartStages, CurManaged,
           Continuations, Managed
  <1>13. ASSUME NEW th \in Threads, ProviderNotReady(th)
        PROVE  Structure'
    BY <1>13 DEF ProviderNotReady, NewOwners, StartStages, CurManaged,
           Continuations, Managed
  <1>14. ASSUME NEW th \in Threads, InsertExecution(th)
        PROVE  Structure'
    BY <1>14 DEF InsertExecution, NewOwners, StartStages, CurManaged,
           Continuations, Managed
  <1>15. ASSUME NEW th \in Threads, NEW t \in Tokens, NEW op \in AllOperations,
              CallObserve(th, t, op)
        PROVE  Structure'
    <2>1. NewOwners'
      BY <1>15 DEF CallObserve, Handles, NoLocals, NewOwners, StartStages
    <2>2. StartStages'
      BY <1>15
      DEF CallObserve, Handles, NoLocals, StartStages, NewOwners,
          Continuations
    <2>3. CurManaged'
      BY <1>15
      DEF CallObserve, Handles, NoLocals, CurManaged, Managed, StartStages
    <2>4. Continuations'
      BY <1>15 DEF CallObserve, Handles, NoLocals, Continuations
    <2>5. Managed'
      BY <1>15 DEF CallObserve, Handles, NoLocals, Managed, CurManaged
    <2> QED BY <2>1, <2>2, <2>3, <2>4, <2>5
  <1>16. ASSUME NEW th \in Threads, NEW t \in Tokens, RequestCancel(th, t)
        PROVE  Structure'
    <2>1. NewOwners'
      BY <1>16 DEF RequestCancel, Handles, NoLocals, NewOwners, StartStages
    <2>2. StartStages'
      BY <1>16
      DEF RequestCancel, Handles, NoLocals, StartStages, NewOwners,
          Continuations
    <2>3. CurManaged'
      BY <1>16
      DEF RequestCancel, Handles, NoLocals, CurManaged, Managed, StartStages
    <2>4. Continuations'
      BY <1>16 DEF RequestCancel, Handles, NoLocals, Continuations
    <2>5. Managed'
      BY <1>16 DEF RequestCancel, Handles, NoLocals, Managed, CurManaged
    <2> QED BY <2>1, <2>2, <2>3, <2>4, <2>5
  <1>17. ASSUME NEW th \in Threads, CancelCheck(th)
        PROVE  Structure'
    BY <1>17 DEF CancelCheck, NewOwners, StartStages, CurManaged,
           Continuations, Managed
  <1>18. ASSUME NEW th \in Threads, CancelMark(th)
        PROVE  Structure'
    BY <1>18 DEF CancelMark, NewOwners, StartStages, CurManaged,
           Continuations, Managed
  <1>19. ASSUME NEW th \in Threads, CheckDeadline(th)
        PROVE  Structure'
    <2>1. /\ loc'[th].after_observe = loc[th].after_observe
          /\ \A u \in Threads \ {th} : loc'[u] = loc[u]
          /\ \/ pc' = [pc EXCEPT ![th] = "cancel"] /\ loc'[th].after_cancel = "escalate"
             \/ pc' = [pc EXCEPT ![th] = "escalate"]
      <3>1. \/ /\ loc' = [loc EXCEPT ![th].after_cancel = "escalate"]
               /\ pc' = [pc EXCEPT ![th] = "cancel"]
            \/ loc' = loc /\ pc' = [pc EXCEPT ![th] = "escalate"]
        BY <1>19 DEF CheckDeadline
      <3>2. /\ [loc[th] EXCEPT !.after_cancel = "escalate"].after_observe = loc[th].after_observe
            /\ [loc[th] EXCEPT !.after_cancel = "escalate"].after_cancel = "escalate"
        BY ReturnPoints
      <3> QED BY <3>1, <3>2
    <2>2. NewOwners'
      BY <1>19 DEF CheckDeadline, NewOwners, StartStages
    <2>3. StartStages'
      BY <1>19, <2>1 DEF CheckDeadline, StartStages, NewOwners, Continuations
    <2>4. CurManaged'
      BY <1>19 DEF CheckDeadline, CurManaged, Managed, StartStages
    <2>5. Continuations'
      BY <1>19, <2>1 DEF CheckDeadline, Continuations
    <2>6. Managed'
      BY <1>19 DEF CheckDeadline, Managed, CurManaged
    <2> QED BY <2>2, <2>3, <2>4, <2>5, <2>6
  <1>20. ASSUME NEW th \in Threads, Escalate(th)
        PROVE  Structure'
    BY <1>20 DEF Escalate, NewOwners, StartStages, CurManaged,
           Continuations, Managed
  <1>21. ASSUME NEW th \in Threads, EscalateLost(th)
        PROVE  Structure'
    BY <1>21 DEF EscalateLost, NewOwners, StartStages, CurManaged,
           Continuations, Managed
  <1>22. ASSUME NEW th \in Threads, StopWaiting(th)
        PROVE  Structure'
    BY <1>22 DEF StopWaiting, NewOwners, StartStages, CurManaged,
           Continuations, Managed
  <1>23. ASSUME NEW th \in Threads, ObserveAgain(th)
        PROVE  Structure'
    BY <1>23 DEF ObserveAgain, NewOwners, StartStages, CurManaged,
           Continuations, Managed
  <1>24. ASSUME NEW th \in Threads, ObserveEntry(th)
        PROVE  Structure'
    <2>1. \/ Returns(th)
          \/ loc' = loc /\ new' = new /\ cur' = cur /\ Goto(th, "show")
      BY <1>24, ReturnShape DEF ObserveEntry
    <2>2. NewOwners'
      BY <1>24 DEF ObserveEntry, Return, NewOwners, StartStages
    <2>3. StartStages'
      BY <1>24, <2>1
      DEF ObserveEntry, Returns, StartStages, NewOwners, Continuations
    <2>4. CurManaged'
      BY <1>24 DEF ObserveEntry, Return, CurManaged, Managed, StartStages
    <2>5. Continuations'
      BY <1>24, <2>1 DEF ObserveEntry, Returns, Continuations
    <2>6. Managed'
      BY <1>24 DEF ObserveEntry, Return, Managed, CurManaged
    <2> QED BY <2>2, <2>3, <2>4, <2>5, <2>6
  <1>25. ASSUME NEW th \in Threads, ReadProperties(th)
        PROVE  Structure'
    BY <1>25 DEF ReadProperties, NewOwners, StartStages, CurManaged,
           Continuations, Managed
  <1>26. ASSUME NEW th \in Threads, ReadPropertiesFails(th)
        PROVE  Structure'
    BY <1>26 DEF ReadPropertiesFails, NewOwners, StartStages, CurManaged,
           Continuations, Managed
  <1>27. ASSUME NEW th \in Threads, ReadCgroup(th)
        PROVE  Structure'
    BY <1>27 DEF ReadCgroup, NewOwners, StartStages, CurManaged,
           Continuations, Managed
  <1>28. ASSUME NEW th \in Threads, TryWait(th)
        PROVE  Structure'
    BY <1>28 DEF TryWait, NewOwners, StartStages, CurManaged,
           Continuations, Managed
  <1>29. ASSUME NEW th \in Threads, TryWaitFails(th)
        PROVE  Structure'
    <2>1. CASE loc[th].after_observe = "again"
      <3>1. EndCall(th) /\ UNCHANGED <<registryVars, tokenVars, sys, snap>>
        BY <1>29, <2>1 DEF TryWaitFails
      <3>2. NewOwners'
        BY <3>1 DEF EndCall, NewOwners, tokenVars
      <3>3. StartStages'
        BY <3>1 DEF EndCall, StartStages, NewOwners, tokenVars
      <3>4. CurManaged'
        BY <3>1 DEF EndCall, CurManaged, tokenVars
      <3>5. Continuations'
        BY <3>1 DEF EndCall, Continuations
      <3>6. Managed'
        BY <3>1 DEF EndCall, Managed, registryVars, tokenVars
      <3> QED BY <3>2, <3>3, <3>4, <3>5, <3>6
    <2>2. CASE loc[th].after_observe # "again"
      <3>1. Return(th, FALSE) /\ UNCHANGED <<registryVars, tokenVars, sys, snap>>
        BY <1>29, <2>2 DEF TryWaitFails
      <3>2. Returns(th) /\ pc[th] = "try_wait"
        BY <1>29, <3>1, ReturnShape DEF TryWaitFails
      <3>3. NewOwners'
        BY <3>1 DEF Return, NewOwners, StartStages, tokenVars
      <3>4. StartStages'
        BY <3>1, <3>2
        DEF Returns, StartStages, NewOwners, Continuations, tokenVars
      <3>5. CurManaged'
        BY <3>1, <3>2 DEF Return, CurManaged, Managed, StartStages, tokenVars
      <3>6. Continuations'
        BY <3>1, <3>2 DEF Returns, Continuations
      <3>7. Managed'
        BY <3>1, <3>2 DEF Return, Managed, CurManaged, registryVars, tokenVars
      <3> QED BY <3>3, <3>4, <3>5, <3>6, <3>7
    <2> QED BY <2>1, <2>2
  <1>30. ASSUME NEW th \in Threads, CheckOutput(th)
        PROVE  Structure'
    BY <1>30 DEF CheckOutput, NewOwners, StartStages, CurManaged,
           Continuations, Managed
  <1>31. ASSUME NEW th \in Threads, Classify(th)
        PROVE  Structure'
    <2>1. \/ Returns(th)
          \/ /\ loc'[th].after_observe = loc[th].after_observe
             /\ \A u \in Threads \ {th} : loc'[u] = loc[u]
             /\ new' = new /\ cur' = cur /\ Goto(th, "status")
      <3>1. CASE CleanupComplete(loc[th].view)
        <4>1. PICK v : loc' = [loc EXCEPT ![th].view = v]
          BY <1>31, <3>1 DEF Classify
        <4>2. [loc[th] EXCEPT !.view = v].after_observe = loc[th].after_observe
          BY ReturnPoints
        <4> QED BY <1>31, <3>1, <4>1, <4>2 DEF Classify
      <3>2. CASE ~CleanupComplete(loc[th].view)
        BY <1>31, <3>2, ReturnShape DEF Classify
      <3> QED BY <3>1, <3>2
    <2>2. NewOwners'
      BY <1>31 DEF Classify, Return, NewOwners, StartStages
    <2>3. StartStages'
      BY <1>31, <2>1
      DEF Classify, Returns, StartStages, NewOwners, Continuations
    <2>4. CurManaged'
      BY <1>31 DEF Classify, Return, CurManaged, Managed, StartStages
    <2>5. Continuations'
      BY <1>31, <2>1 DEF Classify, Returns, Continuations
    <2>6. Managed'
      BY <1>31 DEF Classify, Return, Managed, CurManaged
    <2> QED BY <2>2, <2>3, <2>4, <2>5, <2>6
  <1>32. ASSUME NEW th \in Threads, DecideStatus(th)
        PROVE  Structure'
    BY <1>32 DEF DecideStatus, NewOwners, StartStages, CurManaged,
           Continuations, Managed
  <1>33. ASSUME NEW th \in Threads, Seal(th)
        PROVE  Structure'
    BY <1>33 DEF Seal, NewOwners, StartStages, CurManaged,
           Continuations, Managed
  <1>34. ASSUME NEW th \in Threads, PublishFinal(th)
        PROVE  Structure'
    BY <1>34 DEF PublishFinal, NewOwners, StartStages, CurManaged,
           Continuations, Managed
  <1>35. ASSUME NEW th \in Threads, ReleaseSlot(th)
        PROVE  Structure'
    <2>1. Returns(th)
      BY <1>35, ReturnShape DEF ReleaseSlot
    <2>2. NewOwners'
      BY <1>35 DEF ReleaseSlot, Return, NewOwners, StartStages
    <2>3. StartStages'
      BY <1>35, <2>1
      DEF ReleaseSlot, Returns, StartStages, NewOwners, Continuations
    <2>4. CurManaged'
      BY <1>35 DEF ReleaseSlot, Return, CurManaged, Managed, StartStages
    <2>5. Continuations'
      BY <1>35, <2>1 DEF ReleaseSlot, Returns, Continuations
    <2>6. Managed'
      BY <1>35 DEF ReleaseSlot, Return, Managed, CurManaged
    <2> QED BY <2>2, <2>3, <2>4, <2>5, <2>6
  <1>36. ASSUME NEW th \in Threads, DropBegin(th)
        PROVE  Structure'
    BY <1>36 DEF DropBegin, NewOwners, StartStages, CurManaged,
           Continuations, Managed
  <1>37. ASSUME NEW th \in Threads, NEW t \in Tokens, DropNext(th, t)
        PROVE  Structure'
    BY <1>37 DEF DropNext, NoLocals, NewOwners, StartStages, CurManaged,
           Continuations, Managed
  <1>38. ASSUME NEW th \in Threads, DropTurn(th)
        PROVE  Structure'
    BY <1>38 DEF DropTurn, NewOwners, StartStages, CurManaged,
           Continuations, Managed
  <1>39. ASSUME NEW th \in Threads, DropCheck(th)
        PROVE  Structure'
    BY <1>39 DEF DropCheck, NewOwners, StartStages, CurManaged,
           Continuations, Managed
  <1>40. ASSUME NEW th \in Threads, DropJoin(th)
        PROVE  Structure'
    BY <1>40 DEF DropJoin, NewOwners, StartStages, CurManaged,
           Continuations, Managed
  <1>41. ASSUME NEW th \in Threads, DropEnd(th)
        PROVE  Structure'
    BY <1>41 DEF DropEnd, NewOwners, StartStages, CurManaged,
           Continuations, Managed
  <1>42. ASSUME NEW th \in Threads, BoundPasses(th)
        PROVE  Structure'
    BY <1>42 DEF BoundPasses, NewOwners, StartStages, CurManaged,
           Continuations, Managed
  <1>43. ASSUME NEW t \in Tokens, EnvironmentStep(t)
        PROVE  Structure'
    <2>1. UNCHANGED Environment
      BY <1>43
      DEF EnvironmentStep, UnitStarts, UnitRefused, UnitDies, LauncherExits,
          LauncherLost, UnitCollected, LimitHit, OutputOverflows,
          DeadlinePasses, GraceElapses
    <2> QED BY <2>1
      DEF Environment, NewOwners, StartStages, CurManaged, Continuations,
          Managed
  <1> QED
    BY <1>1, <1>2, <1>3, <1>4, <1>5, <1>6, <1>7, <1>8, <1>9, <1>10, <1>11,
       <1>12, <1>13, <1>14, <1>15, <1>16, <1>17, <1>18, <1>19, <1>20, <1>21,
       <1>22, <1>23, <1>24, <1>25, <1>26, <1>27, <1>28, <1>29, <1>30, <1>31,
       <1>32, <1>33, <1>34, <1>35, <1>36, <1>37, <1>38, <1>39, <1>40, <1>41,
       <1>42, <1>43
    DEF Next, Call, StartStep, ObserveStep, DropStep, ThreadStep

-----------------------------------------------------------------------------
(* Slot accounting *)

Accounting == SlotAccounting /\ RegistryAccounting

\* The holders of either counter are finite, so they can be counted.
LEMMA HoldersFinite ==
  ASSUME TypeOK
  PROVE  IsFiniteSet(SlotHolders) /\ IsFiniteSet(RegistryHolders)
  <1>1. SlotHolders \subseteq Tokens /\ RegistryHolders \subseteq Tokens
    BY DEF SlotHolders, RegistryHolders, TypeOK
  <1> QED BY <1>1, FS_Subset, ConstantsAssumption

\* Admitting one more holder, losing one, or none.
LEMMA CountAdd ==
  ASSUME NEW S, NEW x, IsFiniteSet(S), x \notin S
  PROVE  Cardinality(S \cup {x}) = Cardinality(S) + 1
  BY FS_AddElement

\* Taking one member away lowers the count by one.
LEMMA CountRemove ==
  ASSUME NEW S, NEW x, IsFiniteSet(S), x \in S
  PROVE  Cardinality(S \ {x}) = Cardinality(S) - 1
  BY FS_RemoveElement

\* Steps that leave the counters and the holders alone.
LEMMA AccountingKept ==
  ASSUME Accounting, UNCHANGED <<active_slots, registry_slots, executions, stage, slot_released>>
  PROVE  Accounting'
  <1>1. SlotHolders' = SlotHolders /\ RegistryHolders' = RegistryHolders
    BY DEF SlotHolders, RegistryHolders
  <1> QED BY <1>1 DEF Accounting, SlotAccounting, RegistryAccounting

\* A step that touches the counters gives or takes the slot of one token that
\* the structure shows to be outside or among the holders.
LEMMA AccountingStep ==
  ASSUME TypeOK, Structure, Accounting, Next
  PROVE  Accounting'
  <1> USE HoldersFinite, ConstantsAssumption DEF Accounting, SlotAccounting, RegistryAccounting, Structure
  <1>1. ASSUME NEW th \in Threads, NEW t \in Tokens, ReserveSlot(th, t)
        PROVE  Accounting'
    <2>1. SlotHolders' = SlotHolders \cup {t} /\ t \notin SlotHolders
      BY <1>1 DEF ReserveSlot, SlotHolders, TypeOK, Managed
    <2>2. RegistryHolders' = RegistryHolders
      BY <1>1 DEF ReserveSlot, RegistryHolders, TypeOK
    <2> QED BY <1>1, <2>1, <2>2, CountAdd DEF ReserveSlot, TypeOK
  <1>2. ASSUME NEW th \in Threads, GiveUpSlot(th)
        PROVE  Accounting'
    <2>1. new[th] \in Tokens /\ stage[new[th]] = "reserved"
      BY <1>2 DEF GiveUpSlot, StartStages
    <2>2. SlotHolders' = SlotHolders \ {new[th]} /\ new[th] \in SlotHolders
      BY <1>2, <2>1 DEF GiveUpSlot, SlotHolders, TypeOK, Managed
    <2>3. RegistryHolders' = RegistryHolders
      BY <1>2, <2>1 DEF GiveUpSlot, RegistryHolders, TypeOK
    <2> QED BY <1>2, <2>2, <2>3, CountRemove DEF GiveUpSlot, TypeOK
  <1>3. ASSUME NEW th \in Threads, NEW t \in Tokens, EvictCompleted(th, t)
        PROVE  Accounting'
    <2>1. stage[t] = "managed"
      BY <1>3 DEF EvictCompleted, Evictable, Managed
    <2>2. RegistryHolders' = RegistryHolders \ {t} /\ t \in RegistryHolders
      BY <1>3, <2>1 DEF EvictCompleted, Evictable, RegistryHolders, tokenVars
    <2>3. SlotHolders' = SlotHolders
      BY <1>3 DEF EvictCompleted, SlotHolders, tokenVars
    <2> QED BY <1>3, <2>2, <2>3, CountRemove DEF EvictCompleted, TypeOK
  <1>4. ASSUME NEW th \in Threads, ReserveRegistrySlot(th)
        PROVE  Accounting'
    <2>1. new[th] \in Tokens /\ stage[new[th]] = "reserved"
      BY <1>4 DEF ReserveRegistrySlot, StartStages
    <2>2. RegistryHolders' = RegistryHolders \cup {new[th]} /\ new[th] \notin RegistryHolders
      BY <1>4, <2>1 DEF ReserveRegistrySlot, RegistryHolders, TypeOK, Managed
    <2>3. SlotHolders' = SlotHolders
      BY <1>4, <2>1 DEF ReserveRegistrySlot, SlotHolders, TypeOK
    <2> QED
      BY <1>4, <2>2, <2>3, CountAdd, ConstantsAssumption
      DEF ReserveRegistrySlot, RegistryAtLimit, TypeOK
  <1>5. ASSUME NEW th \in Threads, Spawn(th)
        PROVE  Accounting'
    <2>1. new[th] \in Tokens /\ stage[new[th]] = "registered"
      BY <1>5 DEF Spawn, StartStages
    <2>2. SlotHolders' = SlotHolders /\ RegistryHolders' = RegistryHolders
      BY <1>5, <2>1 DEF Spawn, SlotHolders, RegistryHolders, TypeOK, registryVars
    <2> QED BY <1>5, <2>2 DEF Spawn, registryVars
  <1>6. ASSUME NEW th \in Threads, SpawnFails(th)
        PROVE  Accounting'
    <2>1. new[th] \in Tokens /\ stage[new[th]] = "registered"
      BY <1>6 DEF SpawnFails, StartStages
    <2>2. SlotHolders' = SlotHolders \ {new[th]} /\ new[th] \in SlotHolders
      BY <1>6, <2>1 DEF SpawnFails, SlotHolders, TypeOK, Managed
    <2>3. RegistryHolders' = RegistryHolders
      BY <1>6, <2>1 DEF SpawnFails, RegistryHolders, TypeOK
    <2> QED BY <1>6, <2>2, <2>3, CountRemove DEF SpawnFails, TypeOK
  <1>7. ASSUME NEW th \in Threads, GiveUpRegistrySlot(th)
        PROVE  Accounting'
    <2>1. new[th] \in Tokens /\ stage[new[th]] = "unslotted"
      BY <1>7 DEF GiveUpRegistrySlot, StartStages
    <2>2. RegistryHolders' = RegistryHolders \ {new[th]} /\ new[th] \in RegistryHolders
      BY <1>7, <2>1 DEF GiveUpRegistrySlot, RegistryHolders, TypeOK, Managed
    <2>3. SlotHolders' = SlotHolders
      BY <1>7, <2>1 DEF GiveUpRegistrySlot, SlotHolders, TypeOK
    <2> QED BY <1>7, <2>2, <2>3, CountRemove DEF GiveUpRegistrySlot, TypeOK
  <1>8. ASSUME NEW th \in Threads, InsertExecution(th)
        PROVE  Accounting'
    <2>1. new[th] \in Tokens /\ stage[new[th]] = "starting"
      BY <1>8 DEF InsertExecution, StartStages
    <2>2. SlotHolders' = SlotHolders /\ RegistryHolders' = RegistryHolders
      BY <1>8, <2>1 DEF InsertExecution, SlotHolders, RegistryHolders, TypeOK
    <2> QED BY <1>8, <2>2 DEF InsertExecution
  <1>9. ASSUME NEW th \in Threads, ReleaseSlot(th)
        PROVE  Accounting'
    <2>1. cur[th] \in Tokens /\ stage[cur[th]] = "managed"
      BY <1>9 DEF ReleaseSlot, CurManaged, Busy, ObserveSteps
    <2>2. RegistryHolders' = RegistryHolders
      BY <1>9 DEF ReleaseSlot, RegistryHolders
    <2>3. CASE slot_released[cur[th]]
      <3>1. SlotHolders' = SlotHolders
        BY <1>9, <2>3 DEF ReleaseSlot, SlotHolders, TypeOK
      <3> QED BY <1>9, <2>2, <2>3, <3>1 DEF ReleaseSlot, SlotsAfterRelease
    <2>4. CASE ~slot_released[cur[th]]
      <3>1. SlotHolders' = SlotHolders \ {cur[th]} /\ cur[th] \in SlotHolders
        BY <1>9, <2>1, <2>4 DEF ReleaseSlot, SlotHolders, TypeOK
      <3> QED
        BY <1>9, <2>2, <2>4, <3>1, CountRemove DEF ReleaseSlot, SlotsAfterRelease, TypeOK
    <2> QED BY <2>3, <2>4
  <1>10. ASSUME NEW th \in Threads,
                \/ SnapshotExecutions(th) \/ LockRegistry(th)
                \/ RegistryFull(th) \/ ProviderReady(th)
                \/ ProviderNotReady(th) \/ CancelCheck(th) \/ CancelMark(th)
                \/ CheckDeadline(th) \/ Escalate(th) \/ EscalateLost(th)
                \/ StopWaiting(th) \/ ObserveAgain(th) \/ ObserveEntry(th)
                \/ ReadProperties(th) \/ ReadPropertiesFails(th)
                \/ ReadCgroup(th) \/ TryWait(th) \/ TryWaitFails(th)
                \/ CheckOutput(th) \/ Classify(th) \/ DecideStatus(th)
                \/ Seal(th) \/ PublishFinal(th) \/ DropBegin(th)
                \/ DropTurn(th) \/ DropCheck(th) \/ DropJoin(th)
                \/ DropEnd(th) \/ BoundPasses(th)
         PROVE  Accounting'
    <2>1. UNCHANGED <<active_slots, registry_slots, executions, stage, slot_released>>
      BY <1>10 DEF SnapshotExecutions, LockRegistry, RegistryFull,
          ProviderReady, ProviderNotReady, CancelCheck, CancelMark,
          CheckDeadline, Escalate, EscalateLost, StopWaiting, ObserveAgain,
          ObserveEntry, ReadProperties, ReadPropertiesFails, ReadCgroup,
          TryWait, TryWaitFails, CheckOutput, Classify, DecideStatus, Seal,
          PublishFinal, DropBegin, DropTurn, DropCheck, DropJoin, DropEnd,
          BoundPasses, registryVars, tokenVars, threadVars
    <2> QED BY <2>1, AccountingKept
  <1>11. ASSUME NEW th \in Threads, NEW t \in Tokens, NEW op \in AllOperations,
                \/ SweepNext(th, t) \/ RequestCancel(th, t) \/ DropNext(th, t)
                \/ CallObserve(th, t, op)
         PROVE  Accounting'
    <2>1. UNCHANGED <<active_slots, registry_slots, executions, stage, slot_released>>
      BY <1>11 DEF SweepNext, RequestCancel, DropNext, CallObserve,
          registryVars, tokenVars, threadVars
    <2> QED BY <2>1, AccountingKept
  <1>12. ASSUME NEW t \in Tokens, EnvironmentStep(t)
         PROVE  Accounting'
    <2>1. UNCHANGED Environment
      BY <1>12 DEF EnvironmentStep, UnitStarts, UnitRefused, UnitDies,
          LauncherExits, LauncherLost, UnitCollected, LimitHit,
          OutputOverflows, DeadlinePasses, GraceElapses
    <2> QED BY <2>1, AccountingKept DEF Environment, registryVars
  <1>13. "start" \in AllOperations
    BY DEF AllOperations
  <1> QED
    BY <1>1, <1>2, <1>3, <1>4, <1>5, <1>6, <1>7, <1>8, <1>9, <1>10, <1>11,
       <1>12, <1>13
    DEF Next, Call, StartStep, ObserveStep, DropStep, ThreadStep

-----------------------------------------------------------------------------
(* Theorems *)

IndInv == TypeOK /\ Structure /\ Accounting

\* A new runtime has no holders and no running calls.
LEMMA InitInv == Init => IndInv
  <1> SUFFICES ASSUME Init PROVE IndInv
    OBVIOUS
  <1>1. Structure
    BY ConstantsAssumption
    DEF Init, Structure, NewOwners, StartStages, CurManaged, Continuations, Managed,
        Busy, ObserveSteps, CancelSteps, ClientSteps
  <1>2. SlotHolders = {} /\ RegistryHolders = {}
    BY DEF Init, SlotHolders, RegistryHolders
  <1>3. Accounting
    BY <1>2, FS_EmptySet, ConstantsAssumption
    DEF Init, Accounting, SlotAccounting, RegistryAccounting
  <1> QED BY <1>1, <1>3, InitType DEF IndInv

\* Types, structure of the calls and accountings are inductive together.
LEMMA NextInv == IndInv /\ [Next]_vars => IndInv'
  <1> SUFFICES ASSUME IndInv, [Next]_vars PROVE IndInv'
    OBVIOUS
  <1>1. CASE Next
    BY <1>1, TypeStep, StructureStep, AccountingStep DEF IndInv
  <1>2. CASE UNCHANGED vars
    <2>1. TypeOK'
      BY <1>2 DEF IndInv, TypeOK, vars, registryVars, tokenVars, threadVars
    <2>2. Structure'
      BY <1>2 DEF IndInv, Structure, NewOwners, StartStages, CurManaged, Continuations,
                  Managed, Busy, vars, registryVars, tokenVars, threadVars
    <2>3. Accounting'
      BY <1>2, AccountingKept DEF IndInv, vars, registryVars, tokenVars
    <2> QED BY <2>1, <2>2, <2>3 DEF IndInv
  <1> QED BY <1>1, <1>2

\* In every reachable state of the runtime the calls have their structure and
\* both counters their holders: the invariant the theorems below follow from.
THEOREM Invariant == Spec => []IndInv
  BY InitInv, NextInv, PTL DEF Spec

\* Every reachable state of the runtime is well typed.
THEOREM TypeCorrect == Spec => []TypeOK
  <1>1. IndInv => TypeOK
    BY DEF IndInv
  <1> QED BY <1>1, Invariant, PTL

\* The active counter of the runtime equals the number of executions that hold
\* a slot and respects its limit, on every error path and for any number of
\* threads that finalize a process together.
THEOREM SlotsAccounted == Spec => []SlotAccounting
  <1>1. IndInv => SlotAccounting
    BY DEF IndInv, Accounting
  <1> QED BY <1>1, Invariant, PTL

\* The registry counter equals the retained entries plus the starts in flight
\* and respects the retention limit.
THEOREM RegistryAccounted == Spec => []RegistryAccounting
  <1>1. IndInv => RegistryAccounting
    BY DEF IndInv, Accounting
  <1> QED BY <1>1, Invariant, PTL

-----------------------------------------------------------------------------
(***************************************************************************)
(* The terminal observations: they are published only for trees that have  *)
(* ended (CleanupIsReal), and they are final once the observers that       *)
(* overlapped their publication have left (TerminalSettles).               *)
(*                                                                         *)
(* CleanupIsReal is not inductive: the unit state and the launcher are     *)
(* read at two different steps and acted on at a third, while systemd      *)
(* and other threads go on.  What was read stays true because launcher     *)
(* and unit of a started token only move one way (Advances): an exited     *)
(* launcher stays exited, and a unit that is not active can only become    *)
(* so from "absent" under a live launcher.  The invariant CleanupInv says  *)
(* what each thread has seen and that it is still so (Evidence), that an   *)
(* execution is published only after its unit was accepted or never will   *)
(* be (StartsBegun), and that a launcher nobody else kills ends after its  *)
(* unit (LauncherLast).                                                    *)
(*                                                                         *)
(* Either of the last two is enough.  StartsBegun fails when START_GRACE   *)
(* may pass before the unit starts, LauncherLast when the launcher may die *)
(* early; where both happen a finalized execution can still see its unit   *)
(* start, so CleanupsAreReal excludes that pair of events.                 *)
(***************************************************************************)
(* What an observation has seen *)

\* The steps at which a thread has read the unit, and also the launcher, and
\* at which it has found the cleanup complete.
Sealing == {"status", "seal", "publish"}
Examining == {"output", "classify", "release"} \cup CancelSteps \cup Sealing
Looking == {"cgroup", "try_wait"} \cup Examining

\* A launcher that nobody else kills ends after its unit.
LauncherLast ==
    "lost" \notin Events =>
        \A t \in Tokens : sys[t].launcher = "exited" => sys[t].unit # "active"

\* Where start waits for its provider, an execution that is published has begun:
\* its unit was accepted, or never will be.
Begun(t) == sys[t].unit # "absent" \/ sys[t].launcher = "exited"
StartsBegun ==
    "grace" \notin Events =>
        /\ \A t \in Tokens : stage[t] = "managed" => Begun(t)
        /\ \A th \in Threads : pc[th] = "insert" => Begun(new[th])

\* What a thread has read of its token is still so when it acts on it, and it
\* acts only on a complete cleanup.
Seen(v, s) ==
    /\ v.reaped => s.launcher = "exited"
    /\ Inactive(v.unit) /\ "grace" \notin Events => s.unit # "active"
Shown(th) ==
    /\ loc[th].view.reaped => pc[th] \in Examining
    /\ Inactive(loc[th].view.unit) => pc[th] \in Looking
    /\ loc[th].view.reaped \/ Inactive(loc[th].view.unit) =>
         /\ pc[th] \in CancelSteps => loc[th].after_cancel = "classify"
         /\ Seen(loc[th].view, sys[cur[th]])
    /\ pc[th] \in Sealing => loc[th].view.reaped /\ Inactive(loc[th].view.unit)
Evidence == \A th \in Threads : Shown(th)

\* A terminal observation belongs to a managed execution whose launcher has
\* been reaped.
LaunchersReaped ==
    \A t \in Tokens : Finalized(t) => stage[t] = "managed" /\ sys[t].launcher = "exited"

CleanupInv == LauncherLast /\ StartsBegun /\ Evidence /\ LaunchersReaped

\* A step of a thread, and the four ways to look at it that follow.
ThreadMoves(th) ==
    Call(th) \/ ThreadStep(th) \/ BoundPasses(th)

\* A view in which nothing has been found yet.
Bare(v) == ~v.reaped /\ ~Inactive(v.unit)

\* A thread has no findings, or findings that the system bears out.
LooksOn(th) ==
    \/ Bare(loc'[th].view) /\ pc'[th] \notin Sealing
    \/ /\ cur'[th] = cur[th] /\ pc[th] \in Looking \cup {"show"} /\ pc'[th] \in Looking
       /\ pc'[th] \in CancelSteps => loc'[th].after_cancel = "classify"
       /\ loc'[th].view.reaped => pc'[th] \in Examining
       /\ pc'[th] \in Sealing => loc'[th].view.reaped /\ Inactive(loc'[th].view.unit)
       /\ Seen(loc'[th].view, sys[cur[th]])

\* The fields that updates of locals and of views keep.
LEMMA ViewKept ==
  ASSUME NEW l \in Locals, NEW x, NEW y
  PROVE  /\ [l EXCEPT !.after_observe = x].view = l.view
         /\ [l EXCEPT !.after_cancel = x].view = l.view
         /\ [l EXCEPT !.bound = x].view = l.view
         /\ [l EXCEPT !.obs = x].view = l.view
         /\ [l EXCEPT !.obs = x].after_cancel = l.after_cancel
         /\ [l EXCEPT !.view = x].view = x
         /\ [l EXCEPT !.view = x].after_cancel = l.after_cancel
         /\ [l EXCEPT !.view = x, !.after_cancel = y].view = x
         /\ [l EXCEPT !.view = x, !.after_cancel = y].after_cancel = y
  BY DEF Locals

\* The fields of a view that its updates by observe_managed keep.
LEMMA ViewFields ==
  ASSUME NEW v \in Views, NEW x, NEW y
  PROVE  /\ [v EXCEPT !.unit = x, !.result = y].unit = x
         /\ [v EXCEPT !.unit = x, !.result = y].reaped = v.reaped
         /\ [v EXCEPT !.tree = x, !.limited = y].unit = v.unit
         /\ [v EXCEPT !.tree = x, !.limited = y].reaped = v.reaped
         /\ [v EXCEPT !.reaped = x].unit = v.unit
         /\ [v EXCEPT !.reaped = x].reaped = x
         /\ [v EXCEPT !.exceeded = x].unit = v.unit
         /\ [v EXCEPT !.exceeded = x].reaped = v.reaped
         /\ [v EXCEPT !.timed_out = x, !.ready = y].unit = v.unit
         /\ [v EXCEPT !.timed_out = x, !.ready = y].reaped = v.reaped
  BY DEF Views

\* The locals and the view of a thread have their types.
LEMMA ViewType ==
  ASSUME TypeOK, NEW th \in Threads
  PROVE  loc[th] \in Locals /\ loc[th].view \in Views
  BY LocalsFields DEF TypeOK

\* New calls have no findings, nor has a thread that is not looking.
LEMMA NoViewBare == Bare(NoView)
  BY DEF NoView, Bare, Inactive

\* A call begins and ends with an empty view.
LEMMA NoLocalsView ==
  /\ NoLocals.view = NoView
  /\ \A x, y, z : /\ [NoLocals EXCEPT !.op = x].view = NoView
                  /\ [NoLocals EXCEPT !.op = x, !.after_observe = y].view = NoView
                  /\ [NoLocals EXCEPT !.op = x, !.after_cancel = y].view = NoView
                  /\ [NoLocals EXCEPT !.op = x, !.after_cancel = y, !.after_observe = z].view = NoView
  BY DEF NoLocals

\* A thread outside the steps of observe_managed has no findings.
LEMMA NotLooking ==
  ASSUME Evidence, NEW th \in Threads, pc[th] \notin Looking
  PROVE  Bare(loc[th].view)
  BY DEF Evidence, Shown, Bare, Looking, Examining

\* A return forgets the findings.
LEMMA ReturnBare ==
  ASSUME TypeOK, Continuations, NEW th \in Threads, pc[th] \in Busy,
         NEW c \in BOOLEAN, Return(th, c)
  PROVE  Bare(loc'[th].view) /\ pc'[th] \notin Sealing
  <1>1. pc'[th] \in {"idle", "sweep", "again", "drop_check"}
    BY DEF Continuations, Return, Goto, TypeOK
  <1>2. loc'[th].view = NoView
    <2>1. CASE loc[th].after_observe = "idle"
      BY <2>1, NoLocalsView DEF Return, TypeOK
    <2>2. CASE loc[th].after_observe # "idle"
      <3>1. loc'[th] = [loc[th] EXCEPT !.view = NoView, !.obs = NoObservation, !.cleanup = c]
        BY <2>2 DEF Return, TypeOK
      <3>2. loc[th] \in Locals
        BY DEF TypeOK
      <3> QED BY <3>1, <3>2 DEF Locals
    <2> QED BY <2>1, <2>2
  <1> QED BY <1>1, <1>2, NoViewBare DEF Sealing

\* Every step of a thread finds what is there when it looks.
LEMMA LookStep ==
  ASSUME TypeOK, Structure, Evidence, NEW th \in Threads, ThreadMoves(th)
  PROVE  LooksOn(th)
  <1> USE DEF TypeOK, Structure, Goto, Looking, Examining, Sealing, CancelSteps
  <1>1. ASSUME NEW t \in Tokens, ReserveSlot(th, t)
        PROVE  LooksOn(th)
    <2>1. loc'[th].view = NoView /\ pc'[th] \notin Sealing
      BY <1>1, NoLocalsView DEF ReserveSlot
    <2> QED BY <2>1, NoViewBare DEF LooksOn
  <1>2. ASSUME GiveUpSlot(th)
        PROVE  LooksOn(th)
    <2>1. loc'[th].view = NoView /\ pc'[th] \notin Sealing
      BY <1>2, NoLocalsView DEF GiveUpSlot
    <2> QED BY <2>1, NoViewBare DEF LooksOn
  <1>3. ASSUME SnapshotExecutions(th)
        PROVE  LooksOn(th)
    <2>1. loc'[th] = loc[th] /\ pc[th] \notin Looking /\ pc'[th] \notin Sealing
      BY <1>3 DEF SnapshotExecutions
    <2> QED BY <2>1, NotLooking DEF LooksOn
  <1>4. ASSUME NEW t \in Tokens, SweepNext(th, t)
        PROVE  LooksOn(th)
    <2>2. loc'[th].view = loc[th].view
      BY <1>4 DEF SweepNext, Locals
    <2>3. pc[th] \notin Looking /\ pc'[th] \notin Sealing
      BY <1>4 DEF SweepNext
    <2> QED BY <2>2, <2>3, NotLooking DEF LooksOn
  <1>5. ASSUME LockRegistry(th)
        PROVE  LooksOn(th)
    <2>1. loc'[th].view = NoView /\ pc'[th] \notin Sealing
      BY <1>5, NoLocalsView DEF LockRegistry
    <2> QED BY <2>1, NoViewBare DEF LooksOn
  <1>6. ASSUME NEW t \in Tokens, EvictCompleted(th, t)
        PROVE  LooksOn(th)
    <2>1. loc'[th] = loc[th] /\ pc'[th] = "register" /\ pc[th] = "register"
      BY <1>6 DEF EvictCompleted, threadVars
    <2> QED BY <2>1, NotLooking DEF LooksOn
  <1>7. ASSUME RegistryFull(th)
        PROVE  LooksOn(th)
    <2>1. loc'[th] = loc[th] /\ pc[th] \notin Looking /\ pc'[th] \notin Sealing
      BY <1>7 DEF RegistryFull
    <2> QED BY <2>1, NotLooking DEF LooksOn
  <1>8. ASSUME ReserveRegistrySlot(th)
        PROVE  LooksOn(th)
    <2>1. loc'[th] = loc[th] /\ pc[th] \notin Looking /\ pc'[th] \notin Sealing
      BY <1>8 DEF ReserveRegistrySlot
    <2> QED BY <2>1, NotLooking DEF LooksOn
  <1>9. ASSUME Spawn(th)
        PROVE  LooksOn(th)
    <2>1. loc'[th] = loc[th] /\ pc[th] \notin Looking /\ pc'[th] \notin Sealing
      BY <1>9 DEF Spawn
    <2> QED BY <2>1, NotLooking DEF LooksOn
  <1>10. ASSUME SpawnFails(th)
        PROVE  LooksOn(th)
    <2>1. loc'[th] = loc[th] /\ pc[th] \notin Looking /\ pc'[th] \notin Sealing
      BY <1>10 DEF SpawnFails
    <2> QED BY <2>1, NotLooking DEF LooksOn
  <1>11. ASSUME GiveUpRegistrySlot(th)
        PROVE  LooksOn(th)
    <2>1. loc'[th].view = NoView /\ pc'[th] \notin Sealing
      BY <1>11, NoLocalsView DEF GiveUpRegistrySlot
    <2> QED BY <2>1, NoViewBare DEF LooksOn
  <1>12. ASSUME ProviderReady(th)
        PROVE  LooksOn(th)
    <2>1. loc'[th] = loc[th] /\ pc[th] \notin Looking /\ pc'[th] \notin Sealing
      BY <1>12 DEF ProviderReady
    <2> QED BY <2>1, NotLooking DEF LooksOn
  <1>13. ASSUME ProviderNotReady(th)
        PROVE  LooksOn(th)
    <2>1. loc'[th] = loc[th] /\ pc[th] \notin Looking /\ pc'[th] \notin Sealing
      BY <1>13 DEF ProviderNotReady
    <2> QED BY <2>1, NotLooking DEF LooksOn
  <1>14. ASSUME InsertExecution(th)
        PROVE  LooksOn(th)
    <2>2. loc'[th].view = loc[th].view
      BY <1>14 DEF InsertExecution, Locals
    <2>3. pc[th] \notin Looking /\ pc'[th] \notin Sealing
      BY <1>14 DEF InsertExecution
    <2> QED BY <2>2, <2>3, NotLooking DEF LooksOn
  <1>15. ASSUME NEW t \in Tokens, NEW op \in AllOperations, CallObserve(th, t, op)
        PROVE  LooksOn(th)
    <2>1. loc'[th].view = NoView /\ pc'[th] \notin Sealing
      BY <1>15, NoLocalsView DEF CallObserve
    <2> QED BY <2>1, NoViewBare DEF LooksOn
  <1>16. ASSUME NEW t \in Tokens, RequestCancel(th, t)
        PROVE  LooksOn(th)
    <2>1. loc'[th].view = NoView /\ pc'[th] \notin Sealing
      BY <1>16, NoLocalsView DEF RequestCancel
    <2> QED BY <2>1, NoViewBare DEF LooksOn
  <1>17. ASSUME CancelCheck(th)
        PROVE  LooksOn(th)
    <2>1. /\ loc'[th] = loc[th] /\ cur'[th] = cur[th] /\ pc[th] \in CancelSteps
          /\ pc'[th] \in {"mark", loc[th].after_cancel}
      BY <1>17 DEF CancelCheck
    <2>2. loc[th].after_cancel \in {"entry", "escalate", "classify", "drop_loop"}
      BY <2>1 DEF Continuations
    <2>3. CASE Bare(loc[th].view)
      BY <2>1, <2>2, <2>3 DEF LooksOn
    <2>4. CASE ~Bare(loc[th].view)
      <3>1. loc[th].after_cancel = "classify" /\ Seen(loc[th].view, sys[cur[th]])
        BY <2>1, <2>4 DEF Evidence, Shown, Bare
      <3> QED BY <2>1, <3>1 DEF LooksOn
    <2> QED BY <2>3, <2>4
  <1>18. ASSUME CancelMark(th)
        PROVE  LooksOn(th)
    <2>1. /\ loc'[th] = loc[th] /\ cur'[th] = cur[th] /\ pc[th] \in CancelSteps
          /\ pc'[th] \in {"mark", loc[th].after_cancel}
      BY <1>18 DEF CancelMark
    <2>2. loc[th].after_cancel \in {"entry", "escalate", "classify", "drop_loop"}
      BY <2>1 DEF Continuations
    <2>3. CASE Bare(loc[th].view)
      BY <2>1, <2>2, <2>3 DEF LooksOn
    <2>4. CASE ~Bare(loc[th].view)
      <3>1. loc[th].after_cancel = "classify" /\ Seen(loc[th].view, sys[cur[th]])
        BY <2>1, <2>4 DEF Evidence, Shown, Bare
      <3> QED BY <2>1, <3>1 DEF LooksOn
    <2> QED BY <2>3, <2>4
  <1>19. ASSUME CheckDeadline(th)
        PROVE  LooksOn(th)
    <2>1. loc'[th] = loc[th] \/ loc'[th] = [loc[th] EXCEPT !.after_cancel = "escalate"]
      BY <1>19 DEF CheckDeadline
    <2>2. loc'[th].view = loc[th].view
      BY <1>19 DEF CheckDeadline, Locals
    <2>3. pc[th] \notin Looking /\ pc'[th] \notin Sealing
      BY <1>19 DEF CheckDeadline
    <2> QED BY <2>2, <2>3, NotLooking DEF LooksOn
  <1>20. ASSUME Escalate(th)
        PROVE  LooksOn(th)
    <2>1. loc'[th] = loc[th] /\ pc[th] \notin Looking /\ pc'[th] \notin Sealing
      BY <1>20 DEF Escalate
    <2> QED BY <2>1, NotLooking DEF LooksOn
  <1>21. ASSUME EscalateLost(th)
        PROVE  LooksOn(th)
    <2>1. loc'[th] = loc[th] /\ pc[th] \notin Looking /\ pc'[th] \notin Sealing
      BY <1>21 DEF EscalateLost
    <2> QED BY <2>1, NotLooking DEF LooksOn
  <1>22. ASSUME StopWaiting(th)
        PROVE  LooksOn(th)
    <2>1. loc'[th].view = NoView /\ pc'[th] \notin Sealing
      BY <1>22, NoLocalsView DEF StopWaiting
    <2> QED BY <2>1, NoViewBare DEF LooksOn
  <1>23. ASSUME ObserveAgain(th)
        PROVE  LooksOn(th)
    <2>1. loc'[th] = loc[th] /\ pc[th] \notin Looking /\ pc'[th] \notin Sealing
      BY <1>23 DEF ObserveAgain
    <2> QED BY <2>1, NotLooking DEF LooksOn
  <1>24. ASSUME ObserveEntry(th)
        PROVE  LooksOn(th)
    <2>1. CASE Return(th, TRUE)
      <3>1. pc[th] \in Busy
        BY <1>24 DEF ObserveEntry, Busy, ObserveSteps
      <3> QED BY <2>1, <3>1, ReturnBare DEF LooksOn
    <2>2. CASE ~Return(th, TRUE)
      <3>1. loc'[th] = loc[th] /\ pc[th] = "entry" /\ pc'[th] = "show"
        BY <1>24, <2>2 DEF ObserveEntry
      <3> QED BY <3>1, NotLooking DEF LooksOn
    <2> QED BY <2>1, <2>2
  <1>25. ASSUME ReadProperties(th)
        PROVE  LooksOn(th)
    <2> DEFINE u == sys[cur[th]].unit
               r == IF u = "dead" THEN sys[cur[th]].result ELSE "success"
               v == [loc[th].view EXCEPT !.unit = u, !.result = r]
    <2>1. /\ pc[th] = "show" /\ pc'[th] = "cgroup" /\ cur'[th] = cur[th]
          /\ loc'[th] = [loc[th] EXCEPT !.view = v]
      BY <1>25 DEF ReadProperties
    <2>2. v.unit = u /\ v.reaped = loc[th].view.reaped
      BY ViewType, ViewFields
    <2>3. loc'[th].view = v
      BY <1>25 DEF ReadProperties, Locals
    <2>4. ~v.reaped
      BY <2>1, <2>2, NotLooking DEF Bare
    <2>5. Seen(v, sys[cur[th]])
      BY <2>2, <2>4 DEF Seen, Inactive
    <2> QED BY <2>1, <2>3, <2>4, <2>5 DEF LooksOn
  <1>26. ASSUME ReadPropertiesFails(th)
        PROVE  LooksOn(th)
    <2>1. loc'[th] = loc[th] /\ pc[th] \notin Looking /\ pc'[th] \notin Sealing
      BY <1>26 DEF ReadPropertiesFails
    <2> QED BY <2>1, NotLooking DEF LooksOn
  <1>27. ASSUME ReadCgroup(th)
        PROVE  LooksOn(th)
    <2>1. PICK tree : loc'[th] = [loc[th] EXCEPT !.view = [loc[th].view EXCEPT !.tree = tree,
                                    !.limited = (tree # "unread" /\ sys[cur[th]].limited)]]
      BY <1>27 DEF ReadCgroup
    <2> DEFINE b == tree # "unread" /\ sys[cur[th]].limited
               v == [loc[th].view EXCEPT !.tree = tree, !.limited = b]
    <2>2. loc'[th].view = v /\ v.unit = loc[th].view.unit /\ v.reaped = loc[th].view.reaped
      BY <2>1, ViewType, ViewFields, ViewKept
    <2>3. pc[th] = "cgroup" /\ pc'[th] = "try_wait" /\ cur'[th] = cur[th]
      BY <1>27 DEF ReadCgroup
    <2>4. ~v.reaped
      BY <2>2, <2>3 DEF Evidence, Shown
    <2>5. Seen(v, sys[cur[th]])
      BY <2>2, <2>4 DEF Evidence, Shown, Seen
    <2> QED BY <2>2, <2>3, <2>4, <2>5 DEF LooksOn
  <1>28. ASSUME TryWait(th)
        PROVE  LooksOn(th)
    <2> DEFINE b == sys[cur[th]].launcher = "exited"
               v == [loc[th].view EXCEPT !.reaped = b]
    <2>1. loc'[th] = [loc[th] EXCEPT !.view = v]
      BY <1>28 DEF TryWait
    <2>2. loc'[th].view = v /\ v.unit = loc[th].view.unit /\ v.reaped = b
      BY <2>1, ViewType, ViewFields, ViewKept
    <2>3. pc[th] = "try_wait" /\ pc'[th] = "output" /\ cur'[th] = cur[th]
      BY <1>28 DEF TryWait
    <2>4. Seen(v, sys[cur[th]])
      BY <2>2 DEF Evidence, Shown, Seen
    <2> QED BY <2>2, <2>3, <2>4 DEF LooksOn
  <1>29. ASSUME TryWaitFails(th)
        PROVE  LooksOn(th)
    <2>1. CASE EndCall(th)
      <3>1. loc'[th].view = NoView /\ pc'[th] \notin Sealing
        BY <2>1, NoLocalsView DEF EndCall
      <3> QED BY <3>1, NoViewBare DEF LooksOn
    <2>2. CASE \E c \in BOOLEAN : Return(th, c)
      <3>1. pc[th] \in Busy
        BY <1>29 DEF TryWaitFails, Busy, ObserveSteps
      <3> QED BY <2>2, <3>1, ReturnBare DEF LooksOn
    <2> QED BY <1>29, <2>1, <2>2 DEF TryWaitFails
  <1>30. ASSUME CheckOutput(th)
        PROVE  LooksOn(th)
    <2> DEFINE v == [loc[th].view EXCEPT !.exceeded = proc[cur[th]].exceeded]
    <2>1. loc'[th] = [loc[th] EXCEPT !.view = v, !.after_cancel = "classify"]
      BY <1>30 DEF CheckOutput
    <2>2. /\ loc'[th].view = v /\ loc'[th].after_cancel = "classify"
          /\ v.unit = loc[th].view.unit /\ v.reaped = loc[th].view.reaped
      BY <2>1, ViewType, ViewFields, ViewKept
    <2>3. pc[th] = "output" /\ pc'[th] \in {"cancel", "classify"} /\ cur'[th] = cur[th]
      BY <1>30 DEF CheckOutput
    <2>4. Seen(v, sys[cur[th]])
      BY <2>2 DEF Evidence, Shown, Seen
    <2> QED BY <2>2, <2>3, <2>4 DEF LooksOn
  <1>31. ASSUME Classify(th)
        PROVE  LooksOn(th)
    <2>1. CASE CleanupComplete(loc[th].view)
      <3> DEFINE x == proc[cur[th]].timed_out \/ loc[th].view.result = "timeout"
                 y == proc[cur[th]].provider_ready
                 v == [loc[th].view EXCEPT !.timed_out = x, !.ready = y]
      <3>1. /\ loc'[th] = [loc[th] EXCEPT !.view = v] /\ cur'[th] = cur[th]
            /\ pc[th] = "classify" /\ pc'[th] = "status"
        BY <1>31, <2>1 DEF Classify
      <3>2. loc'[th].view = v /\ v.unit = loc[th].view.unit /\ v.reaped = loc[th].view.reaped
        BY <3>1, ViewType, ViewFields, ViewKept
      <3>3. v.reaped /\ Inactive(v.unit) /\ Seen(v, sys[cur[th]])
        BY <2>1, <3>2 DEF CleanupComplete, Evidence, Shown, Seen
      <3> QED BY <3>1, <3>2, <3>3 DEF LooksOn
    <2>2. CASE ~CleanupComplete(loc[th].view)
      BY <1>31, <2>2, ReturnBare DEF Classify, LooksOn, Busy, ObserveSteps
    <2> QED BY <2>1, <2>2
  <1>32. ASSUME DecideStatus(th)
        PROVE  LooksOn(th)
    <2>2. loc'[th].view = loc[th].view
      BY <1>32 DEF DecideStatus, Locals
    <2>3. pc[th] \in Sealing /\ pc'[th] \in {"seal", "publish", "release"} /\ cur'[th] = cur[th]
      BY <1>32 DEF DecideStatus
    <2> QED BY <2>2, <2>3 DEF LooksOn, Evidence, Shown
  <1>33. ASSUME Seal(th)
        PROVE  LooksOn(th)
    <2>2. loc'[th].view = loc[th].view
      BY <1>33 DEF Seal, Locals
    <2>3. pc[th] \in Sealing /\ pc'[th] \in {"seal", "publish", "release"} /\ cur'[th] = cur[th]
      BY <1>33 DEF Seal
    <2> QED BY <2>2, <2>3 DEF LooksOn, Evidence, Shown
  <1>34. ASSUME PublishFinal(th)
        PROVE  LooksOn(th)
    <2>2. loc'[th].view = loc[th].view
      BY <1>34 DEF PublishFinal, Locals
    <2>3. pc[th] \in Sealing /\ pc'[th] \in {"seal", "publish", "release"} /\ cur'[th] = cur[th]
      BY <1>34 DEF PublishFinal
    <2> QED BY <2>2, <2>3 DEF LooksOn, Evidence, Shown
  <1>35. ASSUME ReleaseSlot(th)
        PROVE  LooksOn(th)
    <2>1. \E c \in BOOLEAN : Return(th, c)
      BY <1>35 DEF ReleaseSlot
    <2>2. pc[th] \in Busy
      BY <1>35 DEF ReleaseSlot, Busy, ObserveSteps
    <2> QED BY <2>1, <2>2, ReturnBare DEF LooksOn
  <1>36. ASSUME DropBegin(th)
        PROVE  LooksOn(th)
    <2>1. loc'[th].view = NoView /\ pc'[th] \notin Sealing
      BY <1>36, NoLocalsView DEF DropBegin
    <2> QED BY <2>1, NoViewBare DEF LooksOn
  <1>37. ASSUME NEW t \in Tokens, DropNext(th, t)
        PROVE  LooksOn(th)
    <2>1. loc'[th].view = NoView /\ pc'[th] \notin Sealing
      BY <1>37, NoLocalsView DEF DropNext
    <2> QED BY <2>1, NoViewBare DEF LooksOn
  <1>38. ASSUME DropTurn(th)
        PROVE  LooksOn(th)
    <2>1. loc'[th] = loc[th] /\ pc[th] \notin Looking /\ pc'[th] \notin Sealing
      BY <1>38 DEF DropTurn
    <2> QED BY <2>1, NotLooking DEF LooksOn
  <1>39. ASSUME DropCheck(th)
        PROVE  LooksOn(th)
    <2>1. loc'[th] = loc[th] /\ pc[th] \notin Looking /\ pc'[th] \notin Sealing
      BY <1>39 DEF DropCheck
    <2> QED BY <2>1, NotLooking DEF LooksOn
  <1>40. ASSUME DropJoin(th)
        PROVE  LooksOn(th)
    <2>1. loc'[th].view = NoView /\ pc'[th] \notin Sealing
      BY <1>40, NoLocalsView DEF DropJoin
    <2> QED BY <2>1, NoViewBare DEF LooksOn
  <1>41. ASSUME DropEnd(th)
        PROVE  LooksOn(th)
    <2>1. loc'[th].view = NoView /\ pc'[th] \notin Sealing
      BY <1>41, NoLocalsView DEF DropEnd
    <2> QED BY <2>1, NoViewBare DEF LooksOn
  <1>42. ASSUME BoundPasses(th)
        PROVE  LooksOn(th)
    <2>2. loc'[th].view = loc[th].view
      BY <1>42 DEF BoundPasses, Locals
    <2>3. pc[th] \notin Looking /\ pc'[th] \notin Sealing
      BY <1>42 DEF BoundPasses
    <2> QED BY <2>2, <2>3, NotLooking DEF LooksOn
  <1> QED
    BY <1>1, <1>2, <1>3, <1>4, <1>5, <1>6, <1>7, <1>8, <1>9, <1>10, <1>11,
       <1>12, <1>13, <1>14, <1>15, <1>16, <1>17, <1>18, <1>19, <1>20, <1>21,
       <1>22, <1>23, <1>24, <1>25, <1>26, <1>27, <1>28, <1>29, <1>30, <1>31,
       <1>32, <1>33, <1>34, <1>35, <1>36, <1>37, <1>38, <1>39, <1>40, <1>41,
       <1>42
    DEF ThreadMoves, Call, StartStep, ObserveStep, DropStep, ThreadStep

\* The launcher and the unit of a token only move on, once it is started.
LEMMA SystemFields ==
  ASSUME NEW s \in Systems
  PROVE  /\ [s EXCEPT !.killed = TRUE].launcher = s.launcher
         /\ [s EXCEPT !.killed = TRUE].unit = s.unit
         /\ [s EXCEPT !.limited = TRUE].launcher = s.launcher
         /\ [s EXCEPT !.limited = TRUE].unit = s.unit
         /\ [s EXCEPT !.launcher = "exited"].launcher = "exited"
         /\ [s EXCEPT !.launcher = "exited"].unit = s.unit
         /\ \A u : [s EXCEPT !.unit = u].unit = u /\ [s EXCEPT !.unit = u].launcher = s.launcher
         /\ \A u, r : /\ [s EXCEPT !.unit = u, !.result = r].unit = u
                      /\ [s EXCEPT !.unit = u, !.result = r].launcher = s.launcher
  BY DEF Systems

Advances(t) ==
    LET a == sys[t]
        b == sys'[t]
    IN  /\ stage[t] # "registered" =>
             /\ a.launcher = "exited" => b.launcher = "exited"
             /\ a.unit # "absent" => b.unit # "absent"
             /\ b.unit = "active" => a.unit = "active" \/ (a.unit = "absent" /\ a.launcher = "live")
        /\ "lost" \notin Events /\ b.launcher = "exited" /\ b.unit = "active" =>
             a.launcher = "exited" /\ a.unit = "active"

\* No step of a thread moves a launcher or a unit back: start spawns only
\* launchers of registered tokens, kills do not change the unit, and
\* reset-failed only collects a dead one.
LEMMA ThreadAdvances ==
  ASSUME TypeOK, Structure, NEW th \in Threads, ThreadMoves(th), NEW x \in Tokens
  PROVE  Advances(x)
  <1> USE DEF TypeOK, Structure, Advances, registryVars, tokenVars, threadVars
  <1>1. ASSUME NEW t \in Tokens, ReserveSlot(th, t)
        PROVE  Advances(x)
    BY <1>1 DEF ReserveSlot
  <1>2. ASSUME GiveUpSlot(th)
        PROVE  Advances(x)
    BY <1>2 DEF GiveUpSlot
  <1>3. ASSUME SnapshotExecutions(th)
        PROVE  Advances(x)
    BY <1>3 DEF SnapshotExecutions
  <1>4. ASSUME NEW t \in Tokens, SweepNext(th, t)
        PROVE  Advances(x)
    BY <1>4 DEF SweepNext
  <1>5. ASSUME LockRegistry(th)
        PROVE  Advances(x)
    BY <1>5 DEF LockRegistry
  <1>6. ASSUME NEW t \in Tokens, EvictCompleted(th, t)
        PROVE  Advances(x)
    BY <1>6 DEF EvictCompleted, registryVars, tokenVars, threadVars
  <1>7. ASSUME RegistryFull(th)
        PROVE  Advances(x)
    BY <1>7 DEF RegistryFull
  <1>8. ASSUME ReserveRegistrySlot(th)
        PROVE  Advances(x)
    BY <1>8 DEF ReserveRegistrySlot
  <1>9. ASSUME Spawn(th)
        PROVE  Advances(x)
    <2>1. PICK stuck \in BOOLEAN :
            sys' = [sys EXCEPT ![new[th]] = [sys[new[th]] EXCEPT !.launcher = "live", !.stuck = stuck]]
      BY <1>9 DEF Spawn
    <2>2. new[th] \in Tokens /\ stage[new[th]] = "registered"
      BY <1>9 DEF Spawn, StartStages
    <2>3. CASE x = new[th]
      <3>1. sys'[x] = [sys[x] EXCEPT !.launcher = "live", !.stuck = stuck] /\ sys[x] \in Systems
        BY <2>1, <2>2, <2>3
      <3>2. sys'[x].launcher = "live"
        BY <3>1 DEF Systems
      <3> QED BY <2>2, <2>3, <3>2
    <2>4. CASE x # new[th]
      BY <2>1, <2>2, <2>4
    <2> QED BY <2>3, <2>4
  <1>10. ASSUME SpawnFails(th)
        PROVE  Advances(x)
    BY <1>10 DEF SpawnFails
  <1>11. ASSUME GiveUpRegistrySlot(th)
        PROVE  Advances(x)
    BY <1>11 DEF GiveUpRegistrySlot
  <1>12. ASSUME ProviderReady(th)
        PROVE  Advances(x)
    BY <1>12 DEF ProviderReady
  <1>13. ASSUME ProviderNotReady(th)
        PROVE  Advances(x)
    BY <1>13 DEF ProviderNotReady
  <1>14. ASSUME InsertExecution(th)
        PROVE  Advances(x)
    BY <1>14 DEF InsertExecution
  <1>15. ASSUME NEW t \in Tokens, NEW op \in AllOperations, CallObserve(th, t, op)
        PROVE  Advances(x)
    BY <1>15 DEF CallObserve
  <1>16. ASSUME NEW t \in Tokens, RequestCancel(th, t)
        PROVE  Advances(x)
    BY <1>16 DEF RequestCancel
  <1>17. ASSUME CancelCheck(th)
        PROVE  Advances(x)
    BY <1>17 DEF CancelCheck
  <1>18. ASSUME CancelMark(th)
        PROVE  Advances(x)
    BY <1>18 DEF CancelMark
  <1>19. ASSUME CheckDeadline(th)
        PROVE  Advances(x)
    BY <1>19 DEF CheckDeadline
  <1>20. ASSUME Escalate(th)
        PROVE  Advances(x)
    <2>1. sys' = sys \/ sys' = [sys EXCEPT ![cur[th]].killed = TRUE]
      BY <1>20 DEF Escalate
    <2>2. sys[x] \in Systems /\ (sys'[x] = sys[x] \/ sys'[x] = [sys[x] EXCEPT !.killed = TRUE])
      BY <2>1
    <2>3. sys'[x].launcher = sys[x].launcher /\ sys'[x].unit = sys[x].unit
      BY <2>2, SystemFields
    <2> QED BY <2>3
  <1>21. ASSUME EscalateLost(th)
        PROVE  Advances(x)
    BY <1>21 DEF EscalateLost
  <1>22. ASSUME StopWaiting(th)
        PROVE  Advances(x)
    BY <1>22 DEF StopWaiting
  <1>23. ASSUME ObserveAgain(th)
        PROVE  Advances(x)
    BY <1>23 DEF ObserveAgain
  <1>24. ASSUME ObserveEntry(th)
        PROVE  Advances(x)
    BY <1>24 DEF ObserveEntry
  <1>25. ASSUME ReadProperties(th)
        PROVE  Advances(x)
    BY <1>25 DEF ReadProperties
  <1>26. ASSUME ReadPropertiesFails(th)
        PROVE  Advances(x)
    BY <1>26 DEF ReadPropertiesFails
  <1>27. ASSUME ReadCgroup(th)
        PROVE  Advances(x)
    BY <1>27 DEF ReadCgroup
  <1>28. ASSUME TryWait(th)
        PROVE  Advances(x)
    BY <1>28 DEF TryWait
  <1>29. ASSUME TryWaitFails(th)
        PROVE  Advances(x)
    BY <1>29 DEF TryWaitFails
  <1>30. ASSUME CheckOutput(th)
        PROVE  Advances(x)
    BY <1>30 DEF CheckOutput
  <1>31. ASSUME Classify(th)
        PROVE  Advances(x)
    BY <1>31 DEF Classify
  <1>32. ASSUME DecideStatus(th)
        PROVE  Advances(x)
    BY <1>32 DEF DecideStatus
  <1>33. ASSUME Seal(th)
        PROVE  Advances(x)
    <2>1. sys' = sys \/ (sys[cur[th]].unit = "dead" /\ sys' = [sys EXCEPT ![cur[th]].unit = "gone"])
      BY <1>33 DEF Seal
    <2>2. /\ sys[x] \in Systems
          /\ sys'[x] = sys[x] \/ (sys[x].unit = "dead" /\ sys'[x] = [sys[x] EXCEPT !.unit = "gone"])
      BY <2>1
    <2>3. /\ sys'[x].launcher = sys[x].launcher
          /\ sys'[x].unit = sys[x].unit \/ (sys[x].unit = "dead" /\ sys'[x].unit = "gone")
      <3>1. CASE sys'[x] = sys[x]
        BY <3>1
      <3>2. CASE sys'[x] = [sys[x] EXCEPT !.unit = "gone"] /\ sys[x].unit = "dead"
        BY <2>2, <3>2 DEF Systems
      <3> QED BY <2>2, <3>1, <3>2
    <2> QED BY <2>3
  <1>34. ASSUME PublishFinal(th)
        PROVE  Advances(x)
    BY <1>34 DEF PublishFinal
  <1>35. ASSUME ReleaseSlot(th)
        PROVE  Advances(x)
    BY <1>35 DEF ReleaseSlot
  <1>36. ASSUME DropBegin(th)
        PROVE  Advances(x)
    BY <1>36 DEF DropBegin
  <1>37. ASSUME NEW t \in Tokens, DropNext(th, t)
        PROVE  Advances(x)
    BY <1>37 DEF DropNext
  <1>38. ASSUME DropTurn(th)
        PROVE  Advances(x)
    <2>1. sys' = sys \/ sys' = [sys EXCEPT ![cur[th]].killed = TRUE]
      BY <1>38 DEF DropTurn
    <2>2. sys[x] \in Systems /\ (sys'[x] = sys[x] \/ sys'[x] = [sys[x] EXCEPT !.killed = TRUE])
      BY <2>1
    <2>3. sys'[x].launcher = sys[x].launcher /\ sys'[x].unit = sys[x].unit
      BY <2>2, SystemFields
    <2> QED BY <2>3
  <1>39. ASSUME DropCheck(th)
        PROVE  Advances(x)
    BY <1>39 DEF DropCheck
  <1>40. ASSUME DropJoin(th)
        PROVE  Advances(x)
    BY <1>40 DEF DropJoin
  <1>41. ASSUME DropEnd(th)
        PROVE  Advances(x)
    BY <1>41 DEF DropEnd
  <1>42. ASSUME BoundPasses(th)
        PROVE  Advances(x)
    BY <1>42 DEF BoundPasses
  <1> QED
    BY <1>1, <1>2, <1>3, <1>4, <1>5, <1>6, <1>7, <1>8, <1>9, <1>10, <1>11,
       <1>12, <1>13, <1>14, <1>15, <1>16, <1>17, <1>18, <1>19, <1>20, <1>21,
       <1>22, <1>23, <1>24, <1>25, <1>26, <1>27, <1>28, <1>29, <1>30, <1>31,
       <1>32, <1>33, <1>34, <1>35, <1>36, <1>37, <1>38, <1>39, <1>40, <1>41,
       <1>42
    DEF ThreadMoves, Call, StartStep, ObserveStep, DropStep, ThreadStep

\* Nor does a step of systemd, of the launcher or of the clock.
LEMMA SystemAdvances ==
  ASSUME TypeOK, NEW t \in Tokens, EnvironmentStep(t), NEW x \in Tokens
  PROVE  Advances(x)
  <1> USE DEF TypeOK
  <1>1. CASE x # t
    <2>1. sys'[x] = sys[x]
      BY <1>1 DEF EnvironmentStep, UnitStarts, UnitRefused, UnitDies, LauncherExits,
                  LauncherLost, UnitCollected, LimitHit, OutputOverflows, DeadlinePasses, GraceElapses
    <2> QED BY <2>1 DEF Advances
  <1>2. CASE x = t
    <2>1. CASE UnitStarts(t)
      BY <1>2, <2>1, SystemFields DEF UnitStarts, Advances
    <2>2. CASE UnitRefused(t)
      BY <1>2, <2>2, SystemFields DEF UnitRefused, Advances
    <2>3. CASE UnitDies(t)
      <3>1. PICK r \in Results : sys' = [sys EXCEPT ![t] = [sys[t] EXCEPT !.unit = "dead", !.result = r]]
        BY <2>3 DEF UnitDies
      <3>2. sys'[t] = [sys[t] EXCEPT !.unit = "dead", !.result = r] /\ sys[t].unit = "active"
        BY <2>3, <3>1 DEF UnitDies
      <3> QED BY <1>2, <3>2, SystemFields DEF Advances
    <2>4. CASE LauncherExits(t)
      BY <1>2, <2>4, SystemFields DEF LauncherExits, Advances
    <2>5. CASE LauncherLost(t)
      BY <1>2, <2>5, SystemFields DEF LauncherLost, Advances
    <2>6. CASE UnitCollected(t)
      BY <1>2, <2>6, SystemFields DEF UnitCollected, Advances
    <2>7. CASE LimitHit(t)
      BY <1>2, <2>7, SystemFields DEF LimitHit, Advances
    <2>8. CASE OutputOverflows(t) \/ DeadlinePasses(t) \/ GraceElapses(t)
      BY <2>8 DEF OutputOverflows, DeadlinePasses, GraceElapses, Advances
    <2> QED BY <2>1, <2>2, <2>3, <2>4, <2>5, <2>6, <2>7, <2>8 DEF EnvironmentStep
  <1> QED BY <1>1, <1>2

\* The other effects of a step of a thread: what it leaves to the others, and
\* the steps that publish an execution or an observation.
Effects(th) ==
    /\ \A u \in Threads \ {th} : pc'[u] = pc[u] /\ loc'[u] = loc[u] /\ cur'[u] = cur[u] /\ new'[u] = new[u]
    /\ pc'[th] = "insert" => ProviderReady(th) \/ ProviderNotReady(th)
    /\ \A t \in Tokens : stage'[t] = "managed" /\ stage[t] # "managed" => InsertExecution(th) /\ t = new[th]
    /\ \A t \in Tokens : stage[t] = "managed" => stage'[t] = "managed"
    /\ UNCHANGED finalized \/ PublishFinal(th)

\* Every step of a thread has these effects only.
LEMMA EffectsStep ==
  ASSUME TypeOK, Structure, NEW th \in Threads, ThreadMoves(th)
  PROVE  Effects(th)
  <1> USE DEF TypeOK, Structure, Goto, Effects, StartStages, Continuations, Busy, ObserveSteps, CancelSteps
  <1>1. ASSUME NEW t \in Tokens, ReserveSlot(th, t)
        PROVE  Effects(th)
    BY <1>1 DEF ReserveSlot, registryVars, tokenVars, threadVars, Return
  <1>2. ASSUME GiveUpSlot(th)
        PROVE  Effects(th)
    BY <1>2 DEF GiveUpSlot, registryVars, tokenVars, threadVars, Return
  <1>3. ASSUME SnapshotExecutions(th)
        PROVE  Effects(th)
    BY <1>3 DEF SnapshotExecutions, registryVars, tokenVars, threadVars, Return
  <1>4. ASSUME NEW t \in Tokens, SweepNext(th, t)
        PROVE  Effects(th)
    BY <1>4 DEF SweepNext, registryVars, tokenVars, threadVars, Return
  <1>5. ASSUME LockRegistry(th)
        PROVE  Effects(th)
    BY <1>5 DEF LockRegistry, registryVars, tokenVars, threadVars, Return
  <1>6. ASSUME NEW t \in Tokens, EvictCompleted(th, t)
        PROVE  Effects(th)
    BY <1>6 DEF EvictCompleted, registryVars, tokenVars, threadVars, Return
  <1>7. ASSUME RegistryFull(th)
        PROVE  Effects(th)
    BY <1>7 DEF RegistryFull, registryVars, tokenVars, threadVars, Return
  <1>8. ASSUME ReserveRegistrySlot(th)
        PROVE  Effects(th)
    BY <1>8 DEF ReserveRegistrySlot, registryVars, tokenVars, threadVars, Return
  <1>9. ASSUME Spawn(th)
        PROVE  Effects(th)
    BY <1>9 DEF Spawn, registryVars, tokenVars, threadVars, Return
  <1>10. ASSUME SpawnFails(th)
        PROVE  Effects(th)
    BY <1>10 DEF SpawnFails, registryVars, tokenVars, threadVars, Return
  <1>11. ASSUME GiveUpRegistrySlot(th)
        PROVE  Effects(th)
    BY <1>11 DEF GiveUpRegistrySlot, registryVars, tokenVars, threadVars, Return
  <1>12. ASSUME ProviderReady(th)
        PROVE  Effects(th)
    BY <1>12 DEF ProviderReady, registryVars, tokenVars, threadVars, Return
  <1>13. ASSUME ProviderNotReady(th)
        PROVE  Effects(th)
    BY <1>13 DEF ProviderNotReady, registryVars, tokenVars, threadVars, Return
  <1>14. ASSUME InsertExecution(th)
        PROVE  Effects(th)
    BY <1>14 DEF InsertExecution, registryVars, tokenVars, threadVars, Return
  <1>15. ASSUME NEW t \in Tokens, NEW op \in AllOperations, CallObserve(th, t, op)
        PROVE  Effects(th)
    BY <1>15 DEF CallObserve, registryVars, tokenVars, threadVars, Return
  <1>16. ASSUME NEW t \in Tokens, RequestCancel(th, t)
        PROVE  Effects(th)
    BY <1>16 DEF RequestCancel, registryVars, tokenVars, threadVars, Return
  <1>17. ASSUME CancelCheck(th)
        PROVE  Effects(th)
    BY <1>17 DEF CancelCheck, registryVars, tokenVars, threadVars, Return
  <1>18. ASSUME CancelMark(th)
        PROVE  Effects(th)
    BY <1>18 DEF CancelMark, registryVars, tokenVars, threadVars, Return
  <1>19. ASSUME CheckDeadline(th)
        PROVE  Effects(th)
    BY <1>19 DEF CheckDeadline, registryVars, tokenVars, threadVars, Return
  <1>20. ASSUME Escalate(th)
        PROVE  Effects(th)
    BY <1>20 DEF Escalate, registryVars, tokenVars, threadVars, Return
  <1>21. ASSUME EscalateLost(th)
        PROVE  Effects(th)
    BY <1>21 DEF EscalateLost, registryVars, tokenVars, threadVars, Return
  <1>22. ASSUME StopWaiting(th)
        PROVE  Effects(th)
    BY <1>22 DEF StopWaiting, registryVars, tokenVars, threadVars, Return
  <1>23. ASSUME ObserveAgain(th)
        PROVE  Effects(th)
    BY <1>23 DEF ObserveAgain, registryVars, tokenVars, threadVars, Return
  <1>24. ASSUME ObserveEntry(th)
        PROVE  Effects(th)
    BY <1>24 DEF ObserveEntry, registryVars, tokenVars, threadVars, Return
  <1>25. ASSUME ReadProperties(th)
        PROVE  Effects(th)
    BY <1>25 DEF ReadProperties, registryVars, tokenVars, threadVars, Return
  <1>26. ASSUME ReadPropertiesFails(th)
        PROVE  Effects(th)
    BY <1>26 DEF ReadPropertiesFails, registryVars, tokenVars, threadVars, Return
  <1>27. ASSUME ReadCgroup(th)
        PROVE  Effects(th)
    BY <1>27 DEF ReadCgroup, registryVars, tokenVars, threadVars, Return
  <1>28. ASSUME TryWait(th)
        PROVE  Effects(th)
    BY <1>28 DEF TryWait, registryVars, tokenVars, threadVars, Return
  <1>29. ASSUME TryWaitFails(th)
        PROVE  Effects(th)
    BY <1>29 DEF TryWaitFails, registryVars, tokenVars, threadVars, Return, EndCall
  <1>30. ASSUME CheckOutput(th)
        PROVE  Effects(th)
    BY <1>30 DEF CheckOutput, registryVars, tokenVars, threadVars, Return
  <1>31. ASSUME Classify(th)
        PROVE  Effects(th)
    BY <1>31 DEF Classify, registryVars, tokenVars, threadVars, Return
  <1>32. ASSUME DecideStatus(th)
        PROVE  Effects(th)
    BY <1>32 DEF DecideStatus, registryVars, tokenVars, threadVars, Return
  <1>33. ASSUME Seal(th)
        PROVE  Effects(th)
    BY <1>33 DEF Seal, registryVars, tokenVars, threadVars, Return
  <1>34. ASSUME PublishFinal(th)
        PROVE  Effects(th)
    BY <1>34 DEF PublishFinal, registryVars, tokenVars, threadVars, Return
  <1>35. ASSUME ReleaseSlot(th)
        PROVE  Effects(th)
    BY <1>35 DEF ReleaseSlot, registryVars, tokenVars, threadVars, Return
  <1>36. ASSUME DropBegin(th)
        PROVE  Effects(th)
    BY <1>36 DEF DropBegin, registryVars, tokenVars, threadVars, Return
  <1>37. ASSUME NEW t \in Tokens, DropNext(th, t)
        PROVE  Effects(th)
    BY <1>37 DEF DropNext, registryVars, tokenVars, threadVars, Return
  <1>38. ASSUME DropTurn(th)
        PROVE  Effects(th)
    BY <1>38 DEF DropTurn, registryVars, tokenVars, threadVars, Return
  <1>39. ASSUME DropCheck(th)
        PROVE  Effects(th)
    BY <1>39 DEF DropCheck, registryVars, tokenVars, threadVars, Return
  <1>40. ASSUME DropJoin(th)
        PROVE  Effects(th)
    BY <1>40 DEF DropJoin, registryVars, tokenVars, threadVars, Return
  <1>41. ASSUME DropEnd(th)
        PROVE  Effects(th)
    BY <1>41 DEF DropEnd, registryVars, tokenVars, threadVars, Return
  <1>42. ASSUME BoundPasses(th)
        PROVE  Effects(th)
    BY <1>42 DEF BoundPasses, registryVars, tokenVars, threadVars, Return
  <1> QED
    BY <1>1, <1>2, <1>3, <1>4, <1>5, <1>6, <1>7, <1>8, <1>9, <1>10, <1>11,
       <1>12, <1>13, <1>14, <1>15, <1>16, <1>17, <1>18, <1>19, <1>20, <1>21,
       <1>22, <1>23, <1>24, <1>25, <1>26, <1>27, <1>28, <1>29, <1>30, <1>31,
       <1>32, <1>33, <1>34, <1>35, <1>36, <1>37, <1>38, <1>39, <1>40, <1>41,
       <1>42
    DEF ThreadMoves, Call, StartStep, ObserveStep, DropStep, ThreadStep

\* The system steps leave the threads, the stages and the observations alone.
LEMMA SystemQuiet ==
  ASSUME NEW t \in Tokens, EnvironmentStep(t)
  PROVE  UNCHANGED <<pc, loc, cur, new, stage, finalized>>
  BY DEF EnvironmentStep, UnitStarts, UnitRefused, UnitDies, LauncherExits,
         LauncherLost, UnitCollected, LimitHit, OutputOverflows, DeadlinePasses,
         GraceElapses, Environment, threadVars

-----------------------------------------------------------------------------
(* The invariant of the cleanup *)

AllAdvance == \A x \in Tokens : Advances(x)

\* A launcher that nobody else kills still ends after its unit.
LEMMA LastStep ==
  ASSUME LauncherLast, AllAdvance
  PROVE  LauncherLast'
  BY DEF LauncherLast, AllAdvance, Advances

\* An execution that has begun stays so ...
LEMMA BegunKept ==
  ASSUME NEW t \in Tokens, stage[t] # "registered", Advances(t), Begun(t)
  PROVE  Begun(t)'
  BY DEF Begun, Advances

\* ... and what was seen of a managed one stays true.
LEMMA SeenKept ==
  ASSUME StartsBegun, NEW t \in Tokens, stage[t] = "managed", Advances(t),
         NEW v, Seen(v, sys[t])
  PROVE  Seen(v, sys'[t])
  BY DEF StartsBegun, Begun, Seen, Advances

\* A start publishes its execution only once it has begun.
LEMMA BegunStep ==
  ASSUME TypeOK, Structure, StartsBegun, AllAdvance,
         NEW th \in Threads, ThreadMoves(th), Effects(th)
  PROVE  StartsBegun'
  <1> SUFFICES ASSUME "grace" \notin Events
               PROVE  /\ \A t \in Tokens : stage'[t] = "managed" => Begun(t)'
                      /\ \A u \in Threads : pc'[u] = "insert" => Begun(new[u])'
    BY DEF StartsBegun
  <1>1. ASSUME NEW t \in Tokens, stage'[t] = "managed"
        PROVE  Begun(t)'
    <2>1. CASE stage[t] = "managed"
      BY <2>1, BegunKept DEF StartsBegun, AllAdvance
    <2>2. CASE stage[t] # "managed"
      <3>1. InsertExecution(th) /\ t = new[th]
        BY <1>1, <2>2 DEF Effects
      <3>2. Begun(t) /\ stage[t] = "starting"
        BY <3>1 DEF InsertExecution, StartsBegun, Structure, StartStages
      <3> QED BY <3>2, BegunKept DEF AllAdvance
    <2> QED BY <2>1, <2>2
  <1>2. ASSUME NEW u \in Threads, pc'[u] = "insert"
        PROVE  Begun(new[u])'
    <2>1. CASE u # th
      <3>1. pc[u] = "insert" /\ new'[u] = new[u]
        BY <1>2, <2>1 DEF Effects
      <3>2. new[u] \in Tokens /\ stage[new[u]] = "starting" /\ Begun(new[u])
        BY <3>1 DEF StartsBegun, Structure, StartStages
      <3>3. Begun(new[u])' \/ new'[u] # new[u]
        BY <3>2, BegunKept DEF AllAdvance, Begun
      <3> QED BY <3>1, <3>3
    <2>2. CASE u = th
      <3>1. ProviderReady(th) \/ ProviderNotReady(th)
        BY <1>2, <2>2 DEF Effects
      <3>2. Begun(new[th]) /\ new' = new /\ sys' = sys
        BY <3>1 DEF ProviderReady, ProviderNotReady, Begun, tokenVars
      <3> QED BY <2>2, <3>2 DEF Begun
    <2> QED BY <2>1, <2>2
  <1> QED BY <1>1, <1>2

\* A thread that does not move keeps what it has seen ...
LEMMA ShownKept ==
  ASSUME Structure, StartsBegun, AllAdvance, NEW u \in Threads, Shown(u),
         pc'[u] = pc[u], loc'[u] = loc[u], cur'[u] = cur[u]
  PROVE  Shown(u)'
  <1>1. ASSUME loc[u].view.reaped \/ Inactive(loc[u].view.unit)
        PROVE  Seen(loc[u].view, sys'[cur[u]])
    <2>1. pc[u] \in Looking /\ Seen(loc[u].view, sys[cur[u]])
      BY <1>1 DEF Shown, Looking
    <2>2. cur[u] \in Tokens /\ stage[cur[u]] = "managed"
      BY <2>1 DEF Structure, CurManaged, Looking, Examining, Sealing, Busy, ObserveSteps, CancelSteps
    <2> QED BY <2>1, <2>2, SeenKept DEF AllAdvance
  <1> QED BY <1>1 DEF Shown

\* ... and the one that moves has seen what is there.
LEMMA ShownStep ==
  ASSUME TypeOK, Structure, StartsBegun, AllAdvance, NEW th \in Threads, LooksOn(th)
  PROVE  Shown(th)'
  <1>1. CASE Bare(loc'[th].view) /\ pc'[th] \notin Sealing
    BY <1>1 DEF Bare, Shown
  <1>2. CASE ~(Bare(loc'[th].view) /\ pc'[th] \notin Sealing)
    <2>1. /\ cur'[th] = cur[th] /\ pc[th] \in Looking \cup {"show"} /\ pc'[th] \in Looking
          /\ pc'[th] \in CancelSteps => loc'[th].after_cancel = "classify"
          /\ loc'[th].view.reaped => pc'[th] \in Examining
          /\ pc'[th] \in Sealing => loc'[th].view.reaped /\ Inactive(loc'[th].view.unit)
          /\ Seen(loc'[th].view, sys[cur[th]])
      BY <1>2 DEF LooksOn
    <2>2. cur[th] \in Tokens /\ stage[cur[th]] = "managed"
      BY <2>1 DEF Structure, CurManaged, Looking, Examining, Sealing, Busy, ObserveSteps, CancelSteps
    <2>3. Seen(loc'[th].view, sys'[cur[th]])
      BY <2>1, <2>2, SeenKept DEF AllAdvance
    <2> QED BY <2>1, <2>3 DEF Shown
  <1> QED BY <1>1, <1>2

\* Publishing a terminal observation: its launcher was reaped, and its unit
\* has ended unless the launcher was lost while the unit was still to start.
LEMMA PublishStep ==
  ASSUME Structure, LauncherLast, Evidence, NEW th \in Threads, PublishFinal(th)
  PROVE  /\ stage[cur[th]] = "managed" /\ sys[cur[th]].launcher = "exited" /\ sys' = sys
         /\ \A t \in Tokens \ {cur[th]} : finalized'[t] = finalized[t]
         /\ ~({"lost", "grace"} \subseteq Events) => sys[cur[th]].unit # "active"
  <1>1. pc[th] = "publish" /\ sys' = sys
    BY DEF PublishFinal
  <1>2. /\ loc[th].view.reaped /\ Inactive(loc[th].view.unit)
        /\ Seen(loc[th].view, sys[cur[th]])
    BY <1>1 DEF Evidence, Shown, Sealing
  <1>3. cur[th] \in Tokens /\ stage[cur[th]] = "managed"
    BY <1>1 DEF Structure, CurManaged, Busy, ObserveSteps
  <1>4. \A t \in Tokens \ {cur[th]} : finalized'[t] = finalized[t]
    BY DEF PublishFinal
  <1>5. sys[cur[th]].launcher = "exited"
    BY <1>2 DEF Seen
  <1>6. "grace" \notin Events => sys[cur[th]].unit # "active"
    BY <1>2 DEF Seen
  <1>7. "lost" \notin Events => sys[cur[th]].unit # "active"
    BY <1>3, <1>5 DEF LauncherLast
  <1> QED BY <1>1, <1>3, <1>4, <1>5, <1>6, <1>7

CleanupIsSure == ~({"lost", "grace"} \subseteq Events) => CleanupIsReal

\* Once published, a terminal observation stays true of the system.
LEMMA FinalKept ==
  ASSUME LaunchersReaped, CleanupIsSure, AllAdvance, NEW t \in Tokens, Finalized(t),
         stage[t] = "managed" => stage'[t] = "managed"
  PROVE  /\ stage'[t] = "managed" /\ sys'[t].launcher = "exited"
         /\ ~({"lost", "grace"} \subseteq Events) => sys'[t].unit # "active"
  BY DEF LaunchersReaped, CleanupIsSure, CleanupIsReal, AllAdvance, Advances

CleanupInd == CleanupInv /\ CleanupIsSure

\* Every step, of a thread or of the system, keeps the invariant of the cleanup.
LEMMA CleanupStep ==
  ASSUME IndInv, CleanupInd, Next
  PROVE  CleanupInd'
  <1> USE DEF IndInv
  <1>1. ASSUME NEW th \in Threads, ThreadMoves(th)
        PROVE  CleanupInd'
    <2>1. AllAdvance /\ Effects(th) /\ LooksOn(th)
      BY <1>1, ThreadAdvances, EffectsStep, LookStep DEF AllAdvance, CleanupInd, CleanupInv
    <2>2. LauncherLast'
      BY <2>1, LastStep DEF CleanupInd, CleanupInv
    <2>3. StartsBegun'
      BY <1>1, <2>1, BegunStep DEF CleanupInd, CleanupInv
    <2>4. Evidence'
      <3>1. ASSUME NEW u \in Threads
            PROVE  Shown(u)'
        <4>1. CASE u = th
          BY <2>1, <4>1, ShownStep DEF CleanupInd, CleanupInv
        <4>2. CASE u # th
          <5>1. pc'[u] = pc[u] /\ loc'[u] = loc[u] /\ cur'[u] = cur[u]
            BY <2>1, <4>2 DEF Effects
          <5>2. Shown(u)
            BY DEF CleanupInd, CleanupInv, Evidence
          <5> QED BY <2>1, <5>1, <5>2, ShownKept DEF CleanupInd, CleanupInv
        <4> QED BY <4>1, <4>2
      <3> QED BY <3>1 DEF Evidence
    <2>5. ASSUME NEW t \in Tokens, Finalized(t)'
          PROVE  /\ stage'[t] = "managed" /\ sys'[t].launcher = "exited"
                 /\ ~({"lost", "grace"} \subseteq Events) => sys'[t].unit # "active"
      <3>1. stage[t] = "managed" => stage'[t] = "managed"
        BY <2>1 DEF Effects
      <3>2. CASE Finalized(t)
        BY <2>1, <3>1, <3>2, FinalKept DEF CleanupInd, CleanupInv
      <3>3. CASE ~Finalized(t)
        <4>1. PublishFinal(th)
          BY <2>1, <2>5, <3>3 DEF Effects, Finalized
        <4>2. t = cur[th]
          BY <2>5, <3>3, <4>1, PublishStep DEF CleanupInd, CleanupInv, Finalized
        <4> QED BY <3>1, <4>1, <4>2, PublishStep DEF CleanupInd, CleanupInv
      <3> QED BY <3>2, <3>3
    <2>6. LaunchersReaped' /\ CleanupIsSure'
      BY <2>5 DEF LaunchersReaped, CleanupIsSure, CleanupIsReal
    <2> QED BY <2>2, <2>3, <2>4, <2>6 DEF CleanupInd, CleanupInv
  <1>2. ASSUME NEW t \in Tokens, EnvironmentStep(t)
        PROVE  CleanupInd'
    <2>1. AllAdvance
      BY <1>2, SystemAdvances DEF AllAdvance
    <2>2. UNCHANGED <<pc, loc, cur, new, stage, finalized>>
      BY <1>2, SystemQuiet
    <2>3. LauncherLast'
      BY <2>1, LastStep DEF CleanupInd, CleanupInv
    <2>4. StartsBegun'
      <3>1. ASSUME NEW x \in Tokens, stage[x] # "registered", Begun(x)
            PROVE  Begun(x)'
        BY <2>1, <3>1, BegunKept DEF AllAdvance
      <3>2. \A u \in Threads : pc[u] = "insert" => new[u] \in Tokens /\ stage[new[u]] = "starting"
        BY DEF Structure, StartStages
      <3>3. ASSUME "grace" \notin Events, NEW u \in Threads, pc[u] = "insert"
            PROVE  Begun(new[u])'
        <4>1. Begun(new[u]) /\ new[u] \in Tokens /\ stage[new[u]] = "starting"
          BY <3>2, <3>3 DEF CleanupInd, CleanupInv, StartsBegun
        <4> QED BY <2>2, <3>1, <4>1 DEF Begun
      <3> QED BY <2>2, <3>1, <3>3 DEF CleanupInd, CleanupInv, StartsBegun
    <2>5. Evidence'
      BY <2>1, <2>2, ShownKept DEF CleanupInd, CleanupInv, Evidence
    <2>6. ASSUME NEW x \in Tokens, Finalized(x)'
          PROVE  /\ stage'[x] = "managed" /\ sys'[x].launcher = "exited"
                 /\ ~({"lost", "grace"} \subseteq Events) => sys'[x].unit # "active"
      <3>1. Finalized(x) /\ stage' = stage
        BY <2>2, <2>6 DEF Finalized
      <3> QED BY <2>1, <3>1, FinalKept DEF CleanupInd, CleanupInv
    <2>7. LaunchersReaped' /\ CleanupIsSure'
      BY <2>6 DEF LaunchersReaped, CleanupIsSure, CleanupIsReal
    <2> QED BY <2>3, <2>4, <2>5, <2>7 DEF CleanupInd, CleanupInv
  <1> QED BY <1>1, <1>2 DEF Next, ThreadMoves

-----------------------------------------------------------------------------
(* No thread starts on a terminal observation of an execution that has one *)

KeepsOut(th, x) == ~Overlaps(th, x)'

\* The retained observation that observe_managed finds at its entry keeps the
\* thread that moves from publishing another.
LEMMA KeepsOutStep ==
  ASSUME TypeOK, Structure, NEW th \in Threads, ThreadMoves(th),
         NEW x \in Tokens, Finalized(x), ~Overlaps(th, x)
  PROVE  KeepsOut(th, x)
  <1> USE DEF TypeOK, Structure, Goto, Overlaps, KeepsOut, PastEntry, Continuations, Busy, ObserveSteps, CancelSteps
  <1>1. ASSUME NEW t \in Tokens, ReserveSlot(th, t)
        PROVE  KeepsOut(th, x)
    BY <1>1 DEF ReserveSlot, registryVars, tokenVars, threadVars, Return
  <1>2. ASSUME GiveUpSlot(th)
        PROVE  KeepsOut(th, x)
    BY <1>2 DEF GiveUpSlot, registryVars, tokenVars, threadVars, Return
  <1>3. ASSUME SnapshotExecutions(th)
        PROVE  KeepsOut(th, x)
    BY <1>3 DEF SnapshotExecutions, registryVars, tokenVars, threadVars, Return
  <1>4. ASSUME NEW t \in Tokens, SweepNext(th, t)
        PROVE  KeepsOut(th, x)
    BY <1>4 DEF SweepNext, registryVars, tokenVars, threadVars, Return
  <1>5. ASSUME LockRegistry(th)
        PROVE  KeepsOut(th, x)
    BY <1>5 DEF LockRegistry, registryVars, tokenVars, threadVars, Return
  <1>6. ASSUME NEW t \in Tokens, EvictCompleted(th, t)
        PROVE  KeepsOut(th, x)
    BY <1>6 DEF EvictCompleted, registryVars, tokenVars, threadVars, Return
  <1>7. ASSUME RegistryFull(th)
        PROVE  KeepsOut(th, x)
    BY <1>7 DEF RegistryFull, registryVars, tokenVars, threadVars, Return
  <1>8. ASSUME ReserveRegistrySlot(th)
        PROVE  KeepsOut(th, x)
    BY <1>8 DEF ReserveRegistrySlot, registryVars, tokenVars, threadVars, Return
  <1>9. ASSUME Spawn(th)
        PROVE  KeepsOut(th, x)
    BY <1>9 DEF Spawn, registryVars, tokenVars, threadVars, Return
  <1>10. ASSUME SpawnFails(th)
        PROVE  KeepsOut(th, x)
    BY <1>10 DEF SpawnFails, registryVars, tokenVars, threadVars, Return
  <1>11. ASSUME GiveUpRegistrySlot(th)
        PROVE  KeepsOut(th, x)
    BY <1>11 DEF GiveUpRegistrySlot, registryVars, tokenVars, threadVars, Return
  <1>12. ASSUME ProviderReady(th)
        PROVE  KeepsOut(th, x)
    BY <1>12 DEF ProviderReady, registryVars, tokenVars, threadVars, Return
  <1>13. ASSUME ProviderNotReady(th)
        PROVE  KeepsOut(th, x)
    BY <1>13 DEF ProviderNotReady, registryVars, tokenVars, threadVars, Return
  <1>14. ASSUME InsertExecution(th)
        PROVE  KeepsOut(th, x)
    BY <1>14 DEF InsertExecution, registryVars, tokenVars, threadVars, Return
  <1>15. ASSUME NEW t \in Tokens, NEW op \in AllOperations, CallObserve(th, t, op)
        PROVE  KeepsOut(th, x)
    BY <1>15 DEF CallObserve, registryVars, tokenVars, threadVars, Return
  <1>16. ASSUME NEW t \in Tokens, RequestCancel(th, t)
        PROVE  KeepsOut(th, x)
    BY <1>16 DEF RequestCancel, registryVars, tokenVars, threadVars, Return
  <1>17. ASSUME CancelCheck(th)
        PROVE  KeepsOut(th, x)
    BY <1>17 DEF CancelCheck, registryVars, tokenVars, threadVars, Return
  <1>18. ASSUME CancelMark(th)
        PROVE  KeepsOut(th, x)
    BY <1>18 DEF CancelMark, registryVars, tokenVars, threadVars, Return
  <1>19. ASSUME CheckDeadline(th)
        PROVE  KeepsOut(th, x)
    BY <1>19 DEF CheckDeadline, registryVars, tokenVars, threadVars, Return
  <1>20. ASSUME Escalate(th)
        PROVE  KeepsOut(th, x)
    BY <1>20 DEF Escalate, registryVars, tokenVars, threadVars, Return
  <1>21. ASSUME EscalateLost(th)
        PROVE  KeepsOut(th, x)
    BY <1>21 DEF EscalateLost, registryVars, tokenVars, threadVars, Return
  <1>22. ASSUME StopWaiting(th)
        PROVE  KeepsOut(th, x)
    BY <1>22 DEF StopWaiting, registryVars, tokenVars, threadVars, Return
  <1>23. ASSUME ObserveAgain(th)
        PROVE  KeepsOut(th, x)
    BY <1>23 DEF ObserveAgain, registryVars, tokenVars, threadVars, Return
  <1>24. ASSUME ObserveEntry(th)
        PROVE  KeepsOut(th, x)
    BY <1>24 DEF ObserveEntry, registryVars, tokenVars, threadVars, Return
  <1>25. ASSUME ReadProperties(th)
        PROVE  KeepsOut(th, x)
    BY <1>25 DEF ReadProperties, registryVars, tokenVars, threadVars, Return
  <1>26. ASSUME ReadPropertiesFails(th)
        PROVE  KeepsOut(th, x)
    BY <1>26 DEF ReadPropertiesFails, registryVars, tokenVars, threadVars, Return
  <1>27. ASSUME ReadCgroup(th)
        PROVE  KeepsOut(th, x)
    BY <1>27 DEF ReadCgroup, registryVars, tokenVars, threadVars, Return
  <1>28. ASSUME TryWait(th)
        PROVE  KeepsOut(th, x)
    BY <1>28 DEF TryWait, registryVars, tokenVars, threadVars, Return
  <1>29. ASSUME TryWaitFails(th)
        PROVE  KeepsOut(th, x)
    BY <1>29 DEF TryWaitFails, registryVars, tokenVars, threadVars, Return, EndCall
  <1>30. ASSUME CheckOutput(th)
        PROVE  KeepsOut(th, x)
    BY <1>30 DEF CheckOutput, registryVars, tokenVars, threadVars, Return
  <1>31. ASSUME Classify(th)
        PROVE  KeepsOut(th, x)
    BY <1>31 DEF Classify, registryVars, tokenVars, threadVars, Return
  <1>32. ASSUME DecideStatus(th)
        PROVE  KeepsOut(th, x)
    BY <1>32 DEF DecideStatus, registryVars, tokenVars, threadVars, Return
  <1>33. ASSUME Seal(th)
        PROVE  KeepsOut(th, x)
    BY <1>33 DEF Seal, registryVars, tokenVars, threadVars, Return
  <1>34. ASSUME PublishFinal(th)
        PROVE  KeepsOut(th, x)
    BY <1>34 DEF PublishFinal, registryVars, tokenVars, threadVars, Return
  <1>35. ASSUME ReleaseSlot(th)
        PROVE  KeepsOut(th, x)
    BY <1>35 DEF ReleaseSlot, registryVars, tokenVars, threadVars, Return
  <1>36. ASSUME DropBegin(th)
        PROVE  KeepsOut(th, x)
    BY <1>36 DEF DropBegin, registryVars, tokenVars, threadVars, Return
  <1>37. ASSUME NEW t \in Tokens, DropNext(th, t)
        PROVE  KeepsOut(th, x)
    BY <1>37 DEF DropNext, registryVars, tokenVars, threadVars, Return
  <1>38. ASSUME DropTurn(th)
        PROVE  KeepsOut(th, x)
    BY <1>38 DEF DropTurn, registryVars, tokenVars, threadVars, Return
  <1>39. ASSUME DropCheck(th)
        PROVE  KeepsOut(th, x)
    BY <1>39 DEF DropCheck, registryVars, tokenVars, threadVars, Return
  <1>40. ASSUME DropJoin(th)
        PROVE  KeepsOut(th, x)
    BY <1>40 DEF DropJoin, registryVars, tokenVars, threadVars, Return
  <1>41. ASSUME DropEnd(th)
        PROVE  KeepsOut(th, x)
    BY <1>41 DEF DropEnd, registryVars, tokenVars, threadVars, Return
  <1>42. ASSUME BoundPasses(th)
        PROVE  KeepsOut(th, x)
    BY <1>42 DEF BoundPasses, registryVars, tokenVars, threadVars, Return
  <1> QED
    BY <1>1, <1>2, <1>3, <1>4, <1>5, <1>6, <1>7, <1>8, <1>9, <1>10, <1>11,
       <1>12, <1>13, <1>14, <1>15, <1>16, <1>17, <1>18, <1>19, <1>20, <1>21,
       <1>22, <1>23, <1>24, <1>25, <1>26, <1>27, <1>28, <1>29, <1>30, <1>31,
       <1>32, <1>33, <1>34, <1>35, <1>36, <1>37, <1>38, <1>39, <1>40, <1>41,
       <1>42
    DEF ThreadMoves, Call, StartStep, ObserveStep, DropStep, ThreadStep

\* What is settled stays so: a step publishes only for a token it overlaps.
LEMMA SettledNext ==
  ASSUME IndInv, [Next]_vars, NEW x \in Tokens, Settled(x)
  PROVE  Settled(x)' /\ finalized'[x] = finalized[x]
  <1>1. ASSUME NEW th \in Threads, ThreadMoves(th)
        PROVE  Settled(x)' /\ finalized'[x] = finalized[x]
    <2>1. Effects(th)
      BY <1>1, EffectsStep DEF IndInv
    <2>2. finalized'[x] = finalized[x]
      <3>1. CASE PublishFinal(th)
        <4>1. cur[th] # x
          BY <3>1 DEF PublishFinal, Settled, Overlaps, PastEntry
        <4> QED BY <3>1, <4>1 DEF PublishFinal, IndInv, TypeOK
      <3>2. CASE UNCHANGED finalized
        BY <3>2
      <3> QED BY <2>1, <3>1, <3>2 DEF Effects
    <2>3. ASSUME NEW u \in Threads
          PROVE  ~Overlaps(u, x)'
      <3>1. CASE u = th
        <4>1. KeepsOut(th, x)
          BY <1>1, KeepsOutStep DEF IndInv, Settled
        <4> QED BY <3>1, <4>1 DEF KeepsOut
      <3>2. CASE u # th
        <4>1. pc'[u] = pc[u] /\ loc'[u] = loc[u] /\ cur'[u] = cur[u]
          BY <2>1, <3>2 DEF Effects
        <4> QED BY <4>1 DEF Settled, Overlaps
      <3> QED BY <3>1, <3>2
    <2> QED BY <2>2, <2>3 DEF Settled, Finalized
  <1>2. ASSUME NEW t \in Tokens, EnvironmentStep(t)
        PROVE  Settled(x)' /\ finalized'[x] = finalized[x]
    BY <1>2, SystemQuiet DEF Settled, Overlaps, Finalized
  <1>3. CASE UNCHANGED vars
    BY <1>3 DEF Settled, Overlaps, Finalized, vars, tokenVars, threadVars
  <1> QED BY <1>1, <1>2, <1>3 DEF Next, ThreadMoves

-----------------------------------------------------------------------------
(* Theorems *)

\* At the start nothing is published and nobody looks.
LEMMA CleanupInit == Init => CleanupInd
  <1> SUFFICES ASSUME Init PROVE CleanupInd
    OBVIOUS
  <1>1. \A t \in Tokens : ~Finalized(t)
    BY DEF Init, Finalized, NoObservation
  <1>2. \A th \in Threads : Shown(th)
    BY DEF Init, Shown, NoLocals, NoView, Inactive, Sealing
  <1>3. LauncherLast /\ StartsBegun
    BY DEF Init, LauncherLast, StartsBegun, NoSystem
  <1> QED
    BY <1>1, <1>2, <1>3
    DEF CleanupInd, CleanupInv, Evidence, LaunchersReaped, CleanupIsSure, CleanupIsReal

\* The invariant of the cleanup is inductive relative to that of the calls.
LEMMA CleanupNext == IndInv /\ CleanupInd /\ [Next]_vars => CleanupInd'
  <1> SUFFICES ASSUME IndInv, CleanupInd, UNCHANGED vars PROVE CleanupInd'
    BY CleanupStep
  <1> QED
    BY DEF vars, registryVars, tokenVars, threadVars, CleanupInd, CleanupInv, LauncherLast,
           StartsBegun, Begun, Evidence, Shown, LaunchersReaped, CleanupIsSure, CleanupIsReal,
           Finalized

\* The invariant of the cleanup holds in every reachable state of the runtime,
\* whatever fails: it is what observe_managed may rely on between its reads.
THEOREM CleanupInvariant == Spec => []CleanupInd
  BY CleanupInit, CleanupNext, Invariant, PTL DEF Spec

\* Whatever the provider reports and however reads of unit, control group and
\* launcher interleave, a terminal observation is published only for a tree
\* that has ended and a launcher that was reaped (observe_managed), as long as
\* slow starts and launchers that die early do not come together.
THEOREM CleanupsAreReal ==
  ASSUME ~({"lost", "grace"} \subseteq Events)
  PROVE  Spec => []CleanupIsReal
  <1>1. CleanupInd => CleanupIsReal
    BY DEF CleanupInd, CleanupIsSure
  <1> QED BY <1>1, CleanupInvariant, PTL

\* In every run, slow starts and lost launchers included, a finalized execution
\* is a published one whose launcher was reaped.
THEOREM FinalizedAreReaped == Spec => []LaunchersReaped
  <1>1. CleanupInd => LaunchersReaped
    BY DEF CleanupInd, CleanupInv
  <1> QED BY <1>1, CleanupInvariant, PTL

\* However many threads observe an execution (observe_managed, the comment
\* before reset-failed), its terminal observation is final from the moment the
\* observers that overlapped its publication have left.
THEOREM TerminalsSettle == Spec => TerminalSettles
  <1>1. IndInv /\ [Next]_vars =>
          [\A t \in Tokens : Settled(t) => Settled(t)' /\ finalized'[t] = finalized[t]]_vars
    BY SettledNext
  <1> QED BY <1>1, Invariant, PTL DEF Spec, TerminalSettles
=============================================================================

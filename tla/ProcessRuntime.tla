--------------------------- MODULE ProcessRuntime ---------------------------
(***************************************************************************)
(* The owned-process runtime of mncs-model (process_runtime.rs).           *)
(*                                                                         *)
(* Client threads share one ProcessRuntime.  Each execution is a token;    *)
(* its tree runs in a transient systemd unit, watched by a launcher child  *)
(* (systemd-run --wait).  The state of a token is split into the part the  *)
(* Rust code keeps (stage, proc, finalized, slot_released) and the part    *)
(* the operating system keeps (sys, an external model).  Every shared read *)
(* or write that another thread can come between is a step of its own;     *)
(* the program counter pc names the step a thread takes next.              *)
(*                                                                         *)
(* Calls that change nothing (an unknown handle, the active limit) are     *)
(* stuttering steps and have no action.                                    *)
(***************************************************************************)
EXTENDS Integers, FiniteSets

CONSTANTS Threads,                    \* client threads of the runtime
          Tokens,                     \* 256-bit handle tokens
          MAX_ACTIVE_EXECUTIONS,
          MAX_RETAINED_EXECUTIONS,
          Operations,                 \* client calls exercised by a run
          Events,                     \* environment events a run allows
          NoToken, NoThread

AllOperations == {"start", "observe", "cancel", "reap", "wait", "drop"}

\* "getrandom", "spawn", "show", "kill", "try_wait": that call fails.
\* "grace": START_GRACE passes unready; "lost": the launcher dies early;
\* "no_unit": systemd refuses the unit; "deadline": the deadline passes;
\* "overflow": a captured stream exceeds its limit; "oom": a resource limit
\* is hit; "stuck_io": the child never drains stdin or never stops writing;
\* "exit": the child may end without having been killed.
AllEvents == {"getrandom", "spawn", "show", "kill", "try_wait", "grace", "lost",
              "no_unit", "deadline", "overflow", "oom", "stuck_io", "exit"}

ASSUME ConstantsAssumption ==
    /\ MAX_ACTIVE_EXECUTIONS \in Nat \ {0}
    /\ MAX_RETAINED_EXECUTIONS \in Nat \ {0}
    /\ IsFiniteSet(Tokens)
    /\ NoToken \notin Tokens
    /\ NoThread \notin Threads
    /\ Operations \subseteq AllOperations
    /\ Events \subseteq AllEvents

VARIABLES
    active_slots,   \* AtomicUsize: executions admitted and not yet released
    registry_slots, \* AtomicUsize: registry entries plus starts in flight
    registry_lock,  \* holder of the executions mutex across steps
    executions,     \* keys of the registry
    stage,          \* how far the start of a token has come
    slot_released,  \* ManagedProcess.slot_released
    finalized,      \* ManagedProcess.finalized
    proc,           \* the other fields of ManagedProcess
    sys,            \* external: unit, launcher and streams of the token
    pc,             \* next step of each thread
    new,            \* token a thread is starting
    cur,            \* token a thread is operating on
    snap,           \* tokens left to visit (registry sweep, Drop)
    loc             \* other locals of the running call

registryVars == <<active_slots, registry_slots, registry_lock, executions>>
tokenVars    == <<stage, slot_released, finalized, proc>>
threadVars   == <<pc, new, cur, snap, loc>>
vars == <<registryVars, tokenVars, sys, threadVars>>

-----------------------------------------------------------------------------
(* Data *)

Statuses == {"None", "Exited", "Cancelled", "TimedOut", "ResourceExhausted",
             "OutputExhausted", "Unknown"}

\* The part of a ProcessObservation that terminal consumers tell apart.
Observations == [status : Statuses, deadline_exceeded : BOOLEAN,
                 cancellation_requested : BOOLEAN, output_exhausted : BOOLEAN]

NoObservation == [status |-> "None", deadline_exceeded |-> FALSE,
                  cancellation_requested |-> FALSE, output_exhausted |-> FALSE]

\* clock: 0 before the deadline, 1 past it, 2 past deadline plus two seconds.
\* grace: cancellation_started is unset, set, or older than TERMINATE_GRACE.
\* exceeded: CapturedStream.exceeded of either stream.
\* asked: history, a client asked for cancellation (no field of the code).
Processes == [cgroup : BOOLEAN, provider_ready : BOOLEAN,
              cancellation_requested : BOOLEAN,
              grace : {"unset", "running", "elapsed"}, clock : 0..2,
              timed_out : BOOLEAN, output_exhausted : BOOLEAN,
              exceeded : BOOLEAN, asked : BOOLEAN]

NewProcess == [cgroup |-> FALSE, provider_ready |-> FALSE,
               cancellation_requested |-> FALSE, grace |-> "unset", clock |-> 0,
               timed_out |-> FALSE, output_exhausted |-> FALSE,
               exceeded |-> FALSE, asked |-> FALSE]

\* unit: "dead" is a loaded but stopped unit, "gone" one systemd collected.
Units   == {"absent", "active", "dead", "gone"}
Results == {"success", "timeout", "oom"}
Systems == [unit : Units, result : Results, limited : BOOLEAN,
            killed : BOOLEAN, stuck : BOOLEAN,
            launcher : {"none", "live", "exited"}]

NoSystem == [unit |-> "absent", result |-> "success", limited |-> FALSE,
             killed |-> FALSE, stuck |-> FALSE, launcher |-> "none"]

\* What one observe_managed call has gathered so far: the unit state that
\* systemctl show reported, cgroup.events and the limit counters, try_wait,
\* the overflow flag and the classification read from the process.
Views == [unit : Units \cup {"unavailable"}, result : Results,
          tree : {"empty", "populated", "unread"}, limited : BOOLEAN,
          reaped : BOOLEAN, exceeded : BOOLEAN, timed_out : BOOLEAN,
          ready : BOOLEAN]

NoView == [unit |-> "unavailable", result |-> "success", tree |-> "unread",
           limited |-> FALSE, reaped |-> FALSE, exceeded |-> FALSE,
           timed_out |-> FALSE, ready |-> FALSE]

StartSteps  == {"snapshot", "sweep", "register", "unreserve", "spawn",
                "unregister", "ready", "insert"}
ObserveSteps == {"entry", "show", "cgroup", "try_wait", "output", "classify",
                 "status", "seal", "publish", "release"}
CancelSteps == {"cancel", "mark"}
ClientSteps == {"deadline", "escalate", "again"}
DropSteps   == {"drop_next", "drop_loop", "drop_check", "drop_join", "dropped"}
Steps == {"idle"} \cup StartSteps \cup ObserveSteps \cup CancelSteps
            \cup ClientSteps \cup DropSteps

\* op: the call; after_cancel, after_observe: where the two subroutines
\* return to; cleanup: cleanup_complete = Some(true) in the last observation;
\* bound: the wait bound of reap, or the two seconds of Drop, have passed.
Locals == [op : AllOperations \cup {"none"},
           after_cancel : Steps, after_observe : Steps,
           cleanup : BOOLEAN, bound : BOOLEAN, view : Views, obs : Observations]

NoLocals == [op |-> "none", after_cancel |-> "idle", after_observe |-> "idle",
             cleanup |-> FALSE, bound |-> FALSE,
             view |-> NoView, obs |-> NoObservation]

Init ==
    /\ active_slots = 0
    /\ registry_slots = 0
    /\ registry_lock = NoThread
    /\ executions = {}
    /\ stage = [t \in Tokens |-> "fresh"]
    /\ slot_released = [t \in Tokens |-> FALSE]
    /\ finalized = [t \in Tokens |-> NoObservation]
    /\ proc = [t \in Tokens |-> NewProcess]
    /\ sys = [t \in Tokens |-> NoSystem]
    /\ pc = [th \in Threads |-> "idle"]
    /\ new = [th \in Threads |-> NoToken]
    /\ cur = [th \in Threads |-> NoToken]
    /\ snap = [th \in Threads |-> {}]
    /\ loc = [th \in Threads |-> NoLocals]

-----------------------------------------------------------------------------
(* Helpers *)

Goto(th, step) == pc' = [pc EXCEPT ![th] = step]

Finalized(t) == finalized[t].status # "None"

\* Drop takes the runtime by value: nothing else runs from then on.
Dropping == \E u \in Threads : pc[u] \in DropSteps

\* A client holds the handle of a token once start has returned it.
Handles == {t \in Tokens : stage[t] = "managed" /\ \A u \in Threads : new[u] # t}

Loaded(unit)   == unit \in {"active", "dead"}
Inactive(unit) == unit \in {"absent", "dead", "gone"}

\* The call is over, whatever step it had reached.
EndCall(th) ==
    /\ Goto(th, "idle")
    /\ new' = [new EXCEPT ![th] = NoToken]
    /\ cur' = [cur EXCEPT ![th] = NoToken]
    /\ loc' = [loc EXCEPT ![th] = NoLocals]

\* End of observe_managed: back to the caller with its observation.
Return(th, cleanup) ==
    /\ Goto(th, loc[th].after_observe)
    /\ IF loc[th].after_observe = "idle"
         THEN /\ new' = [new EXCEPT ![th] = NoToken]
              /\ cur' = [cur EXCEPT ![th] = NoToken]
              /\ loc' = [loc EXCEPT ![th] = NoLocals]
         ELSE /\ loc' = [loc EXCEPT ![th] = [loc[th] EXCEPT !.view = NoView,
                            !.obs = NoObservation, !.cleanup = cleanup]]
              /\ UNCHANGED <<new, cur>>

-----------------------------------------------------------------------------
(* ProcessRuntime::start *)

\* reserve_slot, and the fresh token that getrandom then draws.
ReserveSlot(th, t) ==
    /\ "start" \in Operations
    /\ pc[th] = "idle" /\ ~Dropping
    /\ stage[t] = "fresh"
    /\ active_slots < MAX_ACTIVE_EXECUTIONS
    /\ active_slots' = active_slots + 1
    /\ stage' = [stage EXCEPT ![t] = "reserved"]
    /\ new' = [new EXCEPT ![th] = t]
    /\ loc' = [loc EXCEPT ![th] = [NoLocals EXCEPT !.op = "start"]]
    /\ Goto(th, "snapshot")
    /\ UNCHANGED <<registry_slots, registry_lock, executions, slot_released,
                   finalized, proc, sys, cur, snap>>

\* getrandom failed, or the registry was full: give the slot back.
GiveUpSlot(th) ==
    /\ \/ pc[th] = "unreserve"
       \/ pc[th] = "snapshot" /\ "getrandom" \in Events
    /\ active_slots' = active_slots - 1
    /\ stage' = [stage EXCEPT ![new[th]] = "fresh"]
    /\ new' = [new EXCEPT ![th] = NoToken]
    /\ loc' = [loc EXCEPT ![th] = NoLocals]
    /\ Goto(th, "idle")
    /\ UNCHANGED <<registry_slots, registry_lock, executions, slot_released,
                   finalized, proc, sys, cur, snap>>

\* reserve_registry_slot: copy the registry under its lock ...
SnapshotExecutions(th) ==
    /\ pc[th] = "snapshot"
    /\ registry_lock = NoThread
    /\ snap' = [snap EXCEPT ![th] = executions]
    /\ Goto(th, "sweep")
    /\ UNCHANGED <<registryVars, tokenVars, sys, new, cur, loc>>

\* ... observe every copied entry without the lock ...
SweepNext(th, t) ==
    /\ pc[th] = "sweep"
    /\ t \in snap[th]
    /\ snap' = [snap EXCEPT ![th] = @ \ {t}]
    /\ cur' = [cur EXCEPT ![th] = t]
    /\ loc' = [loc EXCEPT ![th].after_observe = "sweep"]
    /\ Goto(th, "entry")
    /\ UNCHANGED <<registryVars, tokenVars, sys, new>>

\* ... and take the lock for the eviction loop.
LockRegistry(th) ==
    /\ pc[th] = "sweep"
    /\ snap[th] = {}
    /\ registry_lock = NoThread
    /\ registry_lock' = th
    /\ cur' = [cur EXCEPT ![th] = NoToken]
    /\ loc' = [loc EXCEPT ![th] = [NoLocals EXCEPT !.op = "start"]]
    /\ Goto(th, "register")
    /\ UNCHANGED <<active_slots, registry_slots, executions, tokenVars, sys,
                   new, snap>>

RegistryAtLimit_OffByOne == registry_slots > MAX_RETAINED_EXECUTIONS

RegistryAtLimit == registry_slots >= MAX_RETAINED_EXECUTIONS


\* An entry whose terminal cleanup was established.
Evictable(t) == t \in executions /\ Finalized(t)

EvictCompleted(th, t) ==
    /\ pc[th] = "register"
    /\ RegistryAtLimit
    /\ Evictable(t)
    /\ executions' = executions \ {t}
    /\ registry_slots' = registry_slots - 1
    /\ UNCHANGED <<active_slots, registry_lock, tokenVars, sys, threadVars>>

RegistryFull(th) ==
    /\ pc[th] = "register"
    /\ RegistryAtLimit
    /\ \A t \in executions : ~Evictable(t)
    /\ registry_lock' = NoThread
    /\ Goto(th, "unreserve")
    /\ UNCHANGED <<active_slots, registry_slots, executions, tokenVars, sys,
                   new, cur, snap, loc>>

ReserveRegistrySlot(th) ==
    /\ pc[th] = "register"
    /\ ~RegistryAtLimit
    /\ registry_slots' = registry_slots + 1
    /\ registry_lock' = NoThread
    /\ stage' = [stage EXCEPT ![new[th]] = "registered"]
    /\ Goto(th, "spawn")
    /\ UNCHANGED <<active_slots, executions, slot_released, finalized, proc, sys,
                   new, cur, snap, loc>>

\* start_systemd_process up to the readiness loop.
Spawn(th) ==
    LET t == new[th] IN
    /\ pc[th] = "spawn"
    /\ stage' = [stage EXCEPT ![t] = "starting"]
    /\ \E stuck \in IF "stuck_io" \in Events THEN BOOLEAN ELSE {FALSE} :
         sys' = [sys EXCEPT ![t] = [sys[t] EXCEPT !.launcher = "live", !.stuck = stuck]]
    /\ Goto(th, "ready")
    /\ UNCHANGED <<registryVars, slot_released, finalized, proc, new, cur, snap, loc>>

\* The launcher could not be spawned: start undoes both reservations.
SpawnFails(th) ==
    /\ "spawn" \in Events
    /\ pc[th] = "spawn"
    /\ active_slots' = active_slots - 1
    /\ stage' = [stage EXCEPT ![new[th]] = "unslotted"]
    /\ Goto(th, "unregister")
    /\ UNCHANGED <<registry_slots, registry_lock, executions, slot_released,
                   finalized, proc, sys, new, cur, snap, loc>>

GiveUpRegistrySlot(th) ==
    /\ pc[th] = "unregister"
    /\ registry_slots' = registry_slots - 1
    /\ stage' = [stage EXCEPT ![new[th]] = "fresh"]
    /\ new' = [new EXCEPT ![th] = NoToken]
    /\ loc' = [loc EXCEPT ![th] = NoLocals]
    /\ Goto(th, "idle")
    /\ UNCHANGED <<active_slots, registry_lock, executions, slot_released,
                   finalized, proc, sys, cur, snap>>

\* Readiness loop: the unit's own control group was seen ...
ProviderReady(th) ==
    LET t == new[th] IN
    /\ pc[th] = "ready"
    /\ sys[t].unit = "active"
    /\ proc' = [proc EXCEPT ![t] = [proc[t] EXCEPT !.cgroup = TRUE,
                                                !.provider_ready = TRUE]]
    /\ Goto(th, "insert")
    /\ UNCHANGED <<registryVars, stage, slot_released, finalized, sys,
                   new, cur, snap, loc>>

\* ... or the launcher ended first, or START_GRACE passed.
ProviderNotReady(th) ==
    /\ pc[th] = "ready"
    /\ sys[new[th]].launcher = "exited" \/ "grace" \in Events
    /\ Goto(th, "insert")
    /\ UNCHANGED <<registryVars, tokenVars, sys, new, cur, snap, loc>>

\* Publish the handle, then the observation that start returns with it.
InsertExecution(th) ==
    LET t == new[th] IN
    /\ pc[th] = "insert"
    /\ registry_lock = NoThread
    /\ executions' = executions \cup {t}
    /\ stage' = [stage EXCEPT ![t] = "managed"]
    /\ cur' = [cur EXCEPT ![th] = t]
    /\ loc' = [loc EXCEPT ![th].after_observe = "idle"]
    /\ Goto(th, "entry")
    /\ UNCHANGED <<active_slots, registry_slots, registry_lock, slot_released,
                   finalized, proc, sys, new, snap>>

-----------------------------------------------------------------------------
(* request_managed_cancel *)

\* The early return.  Both fields are tested before either is set, so two
\* threads may pass this test together.
CancelCheck(th) ==
    LET t == cur[th] IN
    /\ pc[th] = "cancel"
    /\ Goto(th, IF Finalized(t) \/ proc[t].cancellation_requested
                  THEN loc[th].after_cancel ELSE "mark")
    /\ UNCHANGED <<registryVars, tokenVars, sys, new, cur, snap, loc>>

\* Variant: the time of the request is not recorded.
CancelMark_NotStarted(th) ==
    /\ pc[th] = "mark"
    /\ proc' = [proc EXCEPT ![cur[th]].cancellation_requested = TRUE]
    /\ Goto(th, loc[th].after_cancel)
    /\ UNCHANGED <<registryVars, stage, slot_released, finalized, sys,
                   new, cur, snap, loc>>

\* Record the request and its start, then send SIGTERM.  The signal is sent
\* once, its loss is ignored by every caller, and the tree may ignore it: it
\* allows an end that the environment may bring about anyway.
CancelMark(th) ==
    LET t == cur[th] IN
    /\ pc[th] = "mark"
    /\ proc' = [proc EXCEPT ![t] =
                  [proc[t] EXCEPT !.cancellation_requested = TRUE, !.grace = "running"]]
    /\ Goto(th, loc[th].after_cancel)
    /\ UNCHANGED <<registryVars, stage, slot_released, finalized, sys,
                   new, cur, snap, loc>>

-----------------------------------------------------------------------------
(* observe, request_cancel, reap and wait *)

\* observe, reap and wait look the handle up; reap and wait do so again on
\* every turn of their loop.
CallObserve(th, t, op) ==
    /\ op \in Operations \cap {"observe", "reap", "wait"}
    /\ pc[th] = "idle" /\ ~Dropping
    /\ t \in Handles \cap executions
    /\ registry_lock = NoThread
    /\ cur' = [cur EXCEPT ![th] = t]
    /\ loc' = [loc EXCEPT ![th] = [NoLocals EXCEPT !.op = op,
                 !.after_observe = IF op = "observe" THEN "idle" ELSE "again"]]
    /\ Goto(th, "deadline")
    /\ UNCHANGED <<registryVars, tokenVars, sys, new, snap>>

RequestCancel(th, t) ==
    /\ "cancel" \in Operations
    /\ pc[th] = "idle" /\ ~Dropping
    /\ t \in Handles \cap executions
    /\ registry_lock = NoThread
    /\ cur' = [cur EXCEPT ![th] = t]
    /\ proc' = [proc EXCEPT ![t].asked = TRUE]
    /\ loc' = [loc EXCEPT ![th] = [NoLocals EXCEPT !.op = "cancel",
                                                   !.after_cancel = "entry"]]
    /\ Goto(th, "cancel")
    /\ UNCHANGED <<registryVars, stage, slot_released, finalized, sys, new, snap>>

CheckDeadline(th) ==
    LET t == cur[th] IN
    /\ pc[th] = "deadline"
    /\ IF proc[t].clock > 0 /\ ~Finalized(t)
         THEN /\ proc' = [proc EXCEPT ![t].timed_out = TRUE]
              /\ loc' = [loc EXCEPT ![th].after_cancel = "escalate"]
              /\ Goto(th, "cancel")
         ELSE /\ Goto(th, "escalate")
              /\ UNCHANGED <<proc, loc>>
    /\ UNCHANGED <<registryVars, stage, slot_released, finalized, sys, new, cur, snap>>

\* The grace period of a request that is not yet final is over.
MustKill(t) ==
    proc[t].cancellation_requested /\ proc[t].grace = "elapsed" /\ ~Finalized(t)

\* systemctl kill --kill-whom=all --signal=SIGKILL, where it is due ...
Escalate(th) ==
    LET t == cur[th] IN
    /\ pc[th] = "escalate"
    /\ sys' = IF MustKill(t) /\ sys[t].unit = "active"
                THEN [sys EXCEPT ![t].killed = TRUE] ELSE sys
    /\ Goto(th, "entry")
    /\ UNCHANGED <<registryVars, tokenVars, new, cur, snap, loc>>

\* ... and the case where the signal is lost: the call's result is ignored.
EscalateLost(th) ==
    /\ "kill" \in Events
    /\ pc[th] = "escalate" /\ MustKill(cur[th])
    /\ Goto(th, "entry")
    /\ UNCHANGED <<registryVars, tokenVars, sys, new, cur, snap, loc>>

BoundReached_ReapOnly(th) == loc[th].op = "reap" /\ loc[th].bound

\* The bound of reap is the caller's; that of wait is two seconds past the
\* deadline of the process.
BoundReached(th) ==
    IF loc[th].op = "wait" THEN proc[cur[th]].clock = 2 ELSE loc[th].bound

\* reap and wait: stop on cleanup or at the bound, else observe again.
StopWaiting(th) ==
    /\ pc[th] = "again"
    /\ \/ loc[th].cleanup
       \/ BoundReached(th)
       \/ registry_lock = NoThread /\ cur[th] \notin executions   \* UnknownHandle
    /\ cur' = [cur EXCEPT ![th] = NoToken]
    /\ loc' = [loc EXCEPT ![th] = NoLocals]
    /\ Goto(th, "idle")
    /\ UNCHANGED <<registryVars, tokenVars, sys, new, snap>>

ObserveAgain(th) ==
    /\ pc[th] = "again"
    /\ ~loc[th].cleanup /\ ~BoundReached(th)
    /\ registry_lock = NoThread /\ cur[th] \in executions
    /\ Goto(th, "deadline")
    /\ UNCHANGED <<registryVars, tokenVars, sys, new, cur, snap, loc>>

-----------------------------------------------------------------------------
(* observe_managed *)

ObserveEntry_Always(th) ==
    /\ pc[th] = "entry"
    /\ Goto(th, "show")
    /\ UNCHANGED <<registryVars, tokenVars, sys, new, cur, snap, loc>>

\* A finalized process answers with its retained observation.
ObserveEntry(th) ==
    /\ pc[th] = "entry"
    /\ IF Finalized(cur[th])
         THEN Return(th, TRUE)
         ELSE Goto(th, "show") /\ UNCHANGED <<new, cur, loc>>
    /\ UNCHANGED <<registryVars, tokenVars, sys, snap>>

\* systemctl show, and the fields it refreshes.
ReadProperties(th) ==
    LET t == cur[th]
        p == proc[t]
        u == sys[t].unit IN
    /\ pc[th] = "show"
    /\ loc' = [loc EXCEPT ![th].view =
                 [loc[th].view EXCEPT !.unit = u,
                    !.result = IF u = "dead" THEN sys[t].result ELSE "success"]]
    /\ proc' = [proc EXCEPT ![t] =
                 [p EXCEPT !.cgroup = (p.cgroup \/ u = "active"),
                           !.provider_ready = (p.provider_ready \/ Loaded(u))]]
    /\ Goto(th, "cgroup")
    /\ UNCHANGED <<registryVars, stage, slot_released, finalized, sys, new, cur, snap>>

\* systemctl failed or ran into CONTROL_COMMAND_TIMEOUT.
ReadPropertiesFails(th) ==
    /\ "show" \in Events
    /\ pc[th] = "show"
    /\ Goto(th, "cgroup")
    /\ UNCHANGED <<registryVars, tokenVars, sys, new, cur, snap, loc>>

\* read_cgroup_observations: systemd removes the directory of a stopped unit
\* at some point after it is empty.
ReadCgroup(th) ==
    LET t == cur[th] IN
    /\ pc[th] = "cgroup"
    /\ \E tree \in IF ~proc[t].cgroup THEN {"unread"}
                   ELSE CASE sys[t].unit = "active" -> {"populated"}
                          [] sys[t].unit = "dead"   -> {"empty", "unread"}
                          [] OTHER                  -> {"unread"} :
         loc' = [loc EXCEPT ![th].view =
                  [loc[th].view EXCEPT !.tree = tree,
                            !.limited = (tree # "unread" /\ sys[t].limited)]]
    /\ Goto(th, "try_wait")
    /\ UNCHANGED <<registryVars, tokenVars, sys, new, cur, snap>>

TryWait(th) ==
    /\ pc[th] = "try_wait"
    /\ loc' = [loc EXCEPT ![th].view =
                 [loc[th].view EXCEPT !.reaped = (sys[cur[th]].launcher = "exited")]]
    /\ Goto(th, "output")
    /\ UNCHANGED <<registryVars, tokenVars, sys, new, cur, snap>>

\* The error of try_wait ends reap and wait at once; the registry sweep, start
\* and Drop go on as after an incomplete cleanup.
TryWaitFails(th) ==
    /\ "try_wait" \in Events
    /\ pc[th] = "try_wait"
    /\ IF loc[th].after_observe = "again" THEN EndCall(th) ELSE Return(th, FALSE)
    /\ UNCHANGED <<registryVars, tokenVars, sys, snap>>

CheckOutput(th) ==
    LET t == cur[th] IN
    /\ pc[th] = "output"
    /\ loc' = [loc EXCEPT ![th] =
                 [loc[th] EXCEPT !.view = [loc[th].view EXCEPT !.exceeded = proc[t].exceeded],
                                 !.after_cancel = "classify"]]
    /\ IF proc[t].exceeded /\ ~proc[t].output_exhausted
         THEN /\ proc' = [proc EXCEPT ![t].output_exhausted = TRUE]
              /\ Goto(th, "cancel")
         ELSE /\ Goto(th, "classify")
              /\ UNCHANGED proc
    /\ UNCHANGED <<registryVars, stage, slot_released, finalized, sys, new, cur, snap>>

TreeEmpty(v) ==
    IF v.tree = "unread" THEN Inactive(v.unit) ELSE v.tree = "empty"

CleanupComplete_Unreaped(v) == Inactive(v.unit) /\ TreeEmpty(v)

\* cleanup_complete = Some(true); terminal is the same condition.
CleanupComplete(v) == v.reaped /\ Inactive(v.unit) /\ TreeEmpty(v)

\* Without a complete cleanup the live observation is returned; otherwise the
\* timeout flag and readiness are read for the terminal one.
Classify(th) ==
    LET t == cur[th]
        v == loc[th].view IN
    /\ pc[th] = "classify"
    /\ IF CleanupComplete(v)
         THEN /\ loc' = [loc EXCEPT ![th].view =
                           [v EXCEPT !.timed_out = (proc[t].timed_out \/ v.result = "timeout"),
                                     !.ready = proc[t].provider_ready]]
              /\ Goto(th, "status")
              /\ UNCHANGED <<new, cur>>
         ELSE Return(th, FALSE)
    /\ UNCHANGED <<registryVars, tokenVars, sys, snap>>


\* terminal_status, in its order of precedence.
TerminalStatus(v, cancelled) ==
    IF ~v.ready THEN "Unknown"
    ELSE IF v.exceeded THEN "OutputExhausted"
    ELSE IF v.timed_out THEN "TimedOut"
    ELSE IF v.limited \/ v.result = "oom" THEN "ResourceExhausted"
    ELSE IF cancelled THEN "Cancelled"
    ELSE "Exited"

DecideStatus(th) ==
    /\ pc[th] = "status"
    /\ loc' = [loc EXCEPT ![th].obs = [loc[th].obs EXCEPT !.status =
                 TerminalStatus(loc[th].view, proc[cur[th]].cancellation_requested)]]
    /\ Goto(th, "seal")
    /\ UNCHANGED <<registryVars, tokenVars, sys, new, cur, snap>>

\* The reader and writer threads end once the tree no longer holds its pipes;
\* a tree that is stuck on its streams keeps them open while it lives.
Joinable(t) == sys[t].unit = "active" => ~sys[t].stuck

\* Join the stream threads, make_observation, then systemctl reset-failed.
Seal(th) ==
    LET t == cur[th] IN
    /\ pc[th] = "seal"
    /\ Joinable(t)
    /\ loc' = [loc EXCEPT ![th].obs =
                 [loc[th].obs EXCEPT !.deadline_exceeded = proc[t].timed_out,
                           !.cancellation_requested = proc[t].cancellation_requested,
                           !.output_exhausted = proc[t].output_exhausted]]
    /\ sys' = IF sys[t].unit = "dead" THEN [sys EXCEPT ![t].unit = "gone"] ELSE sys
    /\ Goto(th, "publish")
    /\ UNCHANGED <<registryVars, tokenVars, new, cur, snap>>

PublishFinal(th) ==
    /\ pc[th] = "publish"
    /\ finalized' = [finalized EXCEPT ![cur[th]] = loc[th].obs]
    /\ Goto(th, "release")
    /\ UNCHANGED <<registryVars, stage, slot_released, proc, sys, new, cur, snap, loc>>

SlotsAfterRelease_Unguarded(t) == active_slots - 1

SlotsAfterRelease(t) == IF slot_released[t] THEN active_slots ELSE active_slots - 1

\* slot_released.swap, and the decrement that only its first caller makes.
ReleaseSlot(th) ==
    LET t == cur[th] IN
    /\ pc[th] = "release"
    /\ slot_released' = [slot_released EXCEPT ![t] = TRUE]
    /\ active_slots' = SlotsAfterRelease(t)
    /\ Return(th, TRUE)
    /\ UNCHANGED <<registry_slots, registry_lock, executions, stage, finalized,
                   proc, sys, snap>>

-----------------------------------------------------------------------------
(* Drop for ProcessRuntime *)

DropBegin(th) ==
    /\ "drop" \in Operations
    /\ \A u \in Threads : pc[u] = "idle"
    /\ snap' = [snap EXCEPT ![th] = executions]
    /\ loc' = [loc EXCEPT ![th] = [NoLocals EXCEPT !.op = "drop"]]
    /\ Goto(th, "drop_next")
    /\ UNCHANGED <<registryVars, tokenVars, sys, new, cur>>

DropNext(th, t) ==
    /\ pc[th] = "drop_next"
    /\ t \in snap[th]
    /\ snap' = [snap EXCEPT ![th] = @ \ {t}]
    /\ cur' = [cur EXCEPT ![th] = t]
    /\ proc' = [proc EXCEPT ![t].asked = TRUE]
    /\ loc' = [loc EXCEPT ![th] =
                 [NoLocals EXCEPT !.op = "drop", !.after_cancel = "drop_loop",
                                  !.after_observe = "drop_check"]]
    /\ Goto(th, "cancel")
    /\ UNCHANGED <<registryVars, stage, slot_released, finalized, sys, new>>

\* One turn of the two-second loop: SIGKILL once the grace is over, observe.
DropTurn(th) ==
    LET t == cur[th] IN
    /\ pc[th] = "drop_loop" /\ ~loc[th].bound
    /\ \/ sys' = IF proc[t].grace = "elapsed" /\ sys[t].unit = "active"
                   THEN [sys EXCEPT ![t].killed = TRUE] ELSE sys
       \/ "kill" \in Events /\ UNCHANGED sys
    /\ Goto(th, "entry")
    /\ UNCHANGED <<registryVars, tokenVars, new, cur, snap, loc>>

DropOver(th) == loc[th].cleanup \/ loc[th].bound

DropCheck(th) ==
    /\ pc[th] \in {"drop_check", "drop_loop"}
    /\ pc[th] = "drop_loop" => loc[th].bound
    /\ Goto(th, IF DropOver(th) THEN "drop_join" ELSE "drop_loop")
    /\ UNCHANGED <<registryVars, tokenVars, sys, new, cur, snap, loc>>

DropJoin(th) ==
    /\ pc[th] = "drop_join"
    /\ Joinable(cur[th])
    /\ cur' = [cur EXCEPT ![th] = NoToken]
    /\ loc' = [loc EXCEPT ![th] = NoLocals]
    /\ Goto(th, "drop_next")
    /\ UNCHANGED <<registryVars, tokenVars, sys, new, snap>>

DropEnd(th) ==
    /\ pc[th] = "drop_next" /\ snap[th] = {}
    /\ loc' = [loc EXCEPT ![th] = NoLocals]
    /\ Goto(th, "dropped")
    /\ UNCHANGED <<registryVars, tokenVars, sys, new, cur, snap>>

-----------------------------------------------------------------------------
(* External: systemd, the launcher, the process tree and the clock *)

Environment == <<registryVars, stage, slot_released, finalized, threadVars>>

UnitStarts(t) ==
    /\ sys[t].launcher = "live" /\ sys[t].unit = "absent"
    /\ sys' = [sys EXCEPT ![t].unit = "active"]
    /\ UNCHANGED <<Environment, proc>>

UnitRefused(t) ==
    /\ "no_unit" \in Events
    /\ sys[t].launcher = "live" /\ sys[t].unit = "absent"
    /\ sys' = [sys EXCEPT ![t].launcher = "exited"]
    /\ UNCHANGED <<Environment, proc>>

\* The tree ends: killed, on its own, on SIGTERM, at RuntimeMaxSec, or by OOM.
UnitDies(t) ==
    /\ sys[t].unit = "active"
    /\ \E result \in Results :
         /\ CASE result = "success" -> \/ sys[t].killed
                                       \/ "exit" \in Events
                                       \/ proc[t].cancellation_requested
              [] result = "timeout" -> proc[t].clock > 0
              [] result = "oom"     -> sys[t].limited
         /\ sys' = [sys EXCEPT ![t] = [sys[t] EXCEPT !.unit = "dead", !.result = result]]
    /\ UNCHANGED <<Environment, proc>>

\* systemd-run --wait ends once its unit has stopped ...
LauncherExits(t) ==
    /\ sys[t].launcher = "live" /\ sys[t].unit = "dead"
    /\ sys' = [sys EXCEPT ![t].launcher = "exited"]
    /\ UNCHANGED <<Environment, proc>>

\* ... unless it dies itself.
LauncherLost(t) ==
    /\ "lost" \in Events
    /\ sys[t].launcher = "live" /\ sys[t].unit = "active"
    /\ sys' = [sys EXCEPT ![t].launcher = "exited"]
    /\ UNCHANGED <<Environment, proc>>

\* systemd drops a unit that did not fail once nobody waits for it.
UnitCollected(t) ==
    /\ sys[t].launcher = "exited" /\ sys[t].unit = "dead"
    /\ sys[t].result = "success"
    /\ sys' = [sys EXCEPT ![t].unit = "gone"]
    /\ UNCHANGED <<Environment, proc>>

LimitHit(t) ==
    /\ "oom" \in Events
    /\ sys[t].unit = "active" /\ ~sys[t].limited
    /\ sys' = [sys EXCEPT ![t].limited = TRUE]
    /\ UNCHANGED <<Environment, proc>>

\* A reader thread appends more than the stream's limit.
OutputOverflows(t) ==
    /\ "overflow" \in Events
    /\ sys[t].launcher # "none" /\ ~Finalized(t) /\ ~proc[t].exceeded
    /\ proc' = [proc EXCEPT ![t].exceeded = TRUE]
    /\ UNCHANGED <<Environment, sys>>

DeadlinePasses(t) ==
    /\ "deadline" \in Events
    /\ sys[t].launcher # "none" /\ ~Finalized(t) /\ proc[t].clock < 2
    /\ proc' = [proc EXCEPT ![t].clock = proc[t].clock + 1]
    /\ UNCHANGED <<Environment, sys>>

GraceElapses(t) ==
    /\ proc[t].grace = "running"
    /\ proc' = [proc EXCEPT ![t].grace = "elapsed"]
    /\ UNCHANGED <<Environment, sys>>

\* The bound of reap or of Drop's loop passes; it is read only here.
BoundPasses(th) ==
    /\ loc[th].op \in {"reap", "drop"} /\ cur[th] # NoToken /\ ~loc[th].bound
    /\ pc[th] \in {"again", "drop_loop"}
    /\ loc' = [loc EXCEPT ![th].bound = TRUE]
    /\ UNCHANGED <<registryVars, tokenVars, sys, pc, new, cur, snap>>

-----------------------------------------------------------------------------
(* Specification *)

Call(th) ==
    \/ \E t \in Tokens : ReserveSlot(th, t) \/ RequestCancel(th, t)
    \/ \E t \in Tokens, op \in AllOperations : CallObserve(th, t, op)
    \/ DropBegin(th)

StartStep(th) ==
    \/ GiveUpSlot(th) \/ SnapshotExecutions(th) \/ LockRegistry(th)
    \/ \E t \in Tokens : SweepNext(th, t) \/ EvictCompleted(th, t)
    \/ RegistryFull(th) \/ ReserveRegistrySlot(th)
    \/ Spawn(th) \/ SpawnFails(th) \/ GiveUpRegistrySlot(th)
    \/ ProviderReady(th) \/ ProviderNotReady(th) \/ InsertExecution(th)

ObserveStep(th) ==
    \/ CancelCheck(th) \/ CancelMark(th)
    \/ CheckDeadline(th) \/ Escalate(th) \/ EscalateLost(th)
    \/ StopWaiting(th) \/ ObserveAgain(th)
    \/ ObserveEntry(th) \/ ReadProperties(th) \/ ReadPropertiesFails(th)
    \/ ReadCgroup(th) \/ TryWait(th) \/ TryWaitFails(th) \/ CheckOutput(th)
    \/ Classify(th) \/ DecideStatus(th) \/ Seal(th) \/ PublishFinal(th)
    \/ ReleaseSlot(th)

DropStep(th) ==
    \/ \E t \in Tokens : DropNext(th, t)
    \/ DropTurn(th) \/ DropCheck(th) \/ DropJoin(th) \/ DropEnd(th)

ThreadStep(th) == StartStep(th) \/ ObserveStep(th) \/ DropStep(th)

EnvironmentStep(t) ==
    \/ UnitStarts(t) \/ UnitRefused(t) \/ UnitDies(t) \/ LauncherExits(t)
    \/ LauncherLost(t) \/ UnitCollected(t) \/ LimitHit(t)
    \/ OutputOverflows(t) \/ DeadlinePasses(t) \/ GraceElapses(t)

Next ==
    \/ \E th \in Threads : Call(th) \/ ThreadStep(th) \/ BoundPasses(th)
    \/ \E t \in Tokens : EnvironmentStep(t)

Spec == Init /\ [][Next]_vars

\* Fairness: a thread that runs is scheduled, time passes, an accepted unit
\* starts, a killed tree ends and its launcher with it.  Nothing is assumed of
\* provider calls: each of them may fail for ever.
Fairness ==
    /\ \A th \in Threads : WF_vars(ThreadStep(th)) /\ SF_vars(BoundPasses(th))
    /\ \A t \in Tokens :
         /\ WF_vars(UnitStarts(t)) /\ WF_vars(LauncherExits(t))
         /\ WF_vars(sys[t].killed /\ UnitDies(t))
         /\ WF_vars(GraceElapses(t)) /\ WF_vars(DeadlinePasses(t))

FairSpec == Spec /\ Fairness

\* Hypotheses of CancelCompletes: of provider calls that are repeated not all
\* fail, and the client keeps observing the handles it holds.
ProviderAnswers ==
    \A th \in Threads : SF_vars(ReadProperties(th)) /\ SF_vars(Escalate(th))

PollingClient ==
    \A t \in Tokens : \E th \in Threads : SF_vars(CallObserve(th, t, "observe"))

-----------------------------------------------------------------------------
(* Properties *)

\* Every variable keeps its type.
TypeOK ==
    /\ active_slots \in Int
    /\ registry_slots \in Int
    /\ registry_lock \in Threads \cup {NoThread}
    /\ executions \subseteq Tokens
    /\ stage \in [Tokens -> {"fresh", "reserved", "registered", "unslotted",
                             "starting", "managed"}]
    /\ slot_released \in [Tokens -> BOOLEAN]
    /\ finalized \in [Tokens -> Observations]
    /\ proc \in [Tokens -> Processes]
    /\ sys \in [Tokens -> Systems]
    /\ pc \in [Threads -> Steps]
    /\ new \in [Threads -> Tokens \cup {NoToken}]
    /\ cur \in [Threads -> Tokens \cup {NoToken}]
    /\ snap \in [Threads -> SUBSET Tokens]
    /\ loc \in [Threads -> Locals]

\* Tokens whose admission has not been given back.
SlotHolders ==
    {t \in Tokens : /\ stage[t] \in {"reserved", "registered", "starting", "managed"}
                    /\ ~slot_released[t]}

\* Registry entries and the starts that have reserved one.
RegistryHolders ==
    executions \cup {t \in Tokens : stage[t] \in {"registered", "starting", "unslotted"}}

\* active_slots counts exactly the executions that still hold a slot, so it
\* never underflows or leaks on any error path, whichever threads finalize a
\* process together, and it stays within MAX_ACTIVE_EXECUTIONS.
SlotAccounting ==
    /\ active_slots = Cardinality(SlotHolders)
    /\ active_slots <= MAX_ACTIVE_EXECUTIONS

\* registry_slots counts the retained entries and the starts in flight, and
\* stays within MAX_RETAINED_EXECUTIONS.
RegistryAccounting ==
    /\ registry_slots = Cardinality(RegistryHolders)
    /\ registry_slots <= MAX_RETAINED_EXECUTIONS

\* A terminal observation is published only when the tree has ended and its
\* launcher was reaped, although unit state, cgroup and launcher are read at
\* different times by different threads.
CleanupIsReal ==
    \A t \in Tokens : Finalized(t) => /\ sys[t].unit # "active"
                                      /\ sys[t].launcher = "exited"


\* The steps of observe_managed behind its look at the retained observation.
PastEntry == {"show", "cgroup", "try_wait", "output", "classify", "status",
              "seal", "publish"}

\* A thread on its way to a terminal observation of a token, the cancellation
\* that an exceeded stream asks for included.
Overlaps(th, t) ==
    /\ cur[th] = t
    /\ \/ pc[th] \in PastEntry
       \/ pc[th] \in CancelSteps /\ loc[th].after_cancel = "classify"

Settled(t) == Finalized(t) /\ \A th \in Threads : ~Overlaps(th, t)

\* "The provider runtime retains the typed terminal observation" (the comment
\* before reset-failed), whatever number of threads observe: observers that
\* overlap its publication may each publish their own, and once the last of
\* them is gone no later call of any thread changes what was retained.
TerminalSettles ==
    [][\A t \in Tokens :
         Settled(t) => Settled(t)' /\ finalized'[t] = finalized[t]]_vars


\* While its owner keeps observing, a cancelled execution is finalized and
\* gives its slot back, even when single signals and provider queries are
\* lost, unless the owner drops the runtime.
CancelCompletes ==
    ProviderAnswers /\ PollingClient =>
        \A t \in Tokens :
            proc[t].cancellation_requested ~> \/ Finalized(t) /\ slot_released[t]
                                              \/ Dropping

\* Every call returns, whatever the tree and the provider do: the deadline ends
\* wait, its bound ends reap, and Drop is a "bounded best-effort reap for every
\* still-live execution" when the stream threads can be joined.
CallsReturn ==
    \A th \in Threads : pc[th] # "idle" ~> pc[th] \in {"idle", "dropped"}
=============================================================================

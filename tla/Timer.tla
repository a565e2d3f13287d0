--------------------------------- MODULE Timer ---------------------------------
(***************************************************************************)
(* util::Timer: start_once, start_interval, stop and the destructor,       *)
(* against the worker thread and its callback, which may itself call       *)
(* stop().  Owner is the thread that owns the timer, Others may call       *)
(* stop() on it too.                                                       *)
(*                                                                         *)
(* stop() of the worker's own callback finds worker_ joinable, and join()  *)
(* throws; or, if the thread outran the assignment of worker_, finds it    *)
(* not joinable and clears running_.  That history is early; overlap is    *)
(* the one of two threads inside start or stop at the same time.           *)
(* terminated: a joinable std::thread was overwritten or destroyed.        *)
(***************************************************************************)
EXTENDS Naturals

CONSTANTS Owner, Others, Callbacks, NoCallback, MaxFired

ASSUME TimerAssumption == MaxFired \in Nat

Callers == Others \cup {Owner}
Schedules == {"once", "interval", "immediate"}

VARIABLES
  running, stopFlag, cb, schedule,   \* running_, stop_flag_, cb_ and its schedule
  joinable,    \* worker_ is joinable
  wpc,         \* where the thread is
  wcb,         \* the callback it copied, or NoCallback
  pc,          \* where the call of a caller is
  wants,       \* what the owner's call does after its stop()
  fired,       \* how often the present schedule fired, up to MaxFired
  terminated, early, overlap

vars == <<running, stopFlag, cb, schedule, joinable, wpc, wcb, pc, wants, fired, terminated, early, overlap>>

(* Every variable keeps its type.                                          *)
TypeOK ==
  /\ running \in BOOLEAN /\ stopFlag \in BOOLEAN /\ joinable \in BOOLEAN
  /\ terminated \in BOOLEAN /\ early \in BOOLEAN /\ overlap \in BOOLEAN
  /\ cb \in Callbacks \cup {NoCallback}
  /\ schedule \in Schedules
  /\ wpc \in {"none", "start", "wait", "call", "stopping", "ended"}
  /\ wcb \in Callbacks \cup {NoCallback}
  /\ pc \in [Callers -> {"idle", "joining", "clearing", "stopped", "fields", "spawned", "gone"}]
  /\ wants \in {"stop", "start", "destroy"}
  /\ fired \in 0..MaxFired

Init ==
  /\ running = FALSE /\ stopFlag = FALSE
  /\ cb = NoCallback /\ schedule = "once"
  /\ joinable = FALSE /\ wpc = "none" /\ wcb = NoCallback
  /\ pc = [t \in Callers |-> "idle"] /\ wants = "stop"
  /\ fired = 0
  /\ terminated = FALSE /\ early = FALSE /\ overlap = FALSE

Goto(t, l) == pc' = [pc EXCEPT ![t] = l]
flags == <<running, stopFlag>>
fields == <<cb, schedule>>
thread == <<wpc, wcb, fired>>
history == <<terminated, early, overlap>>

-----------------------------------------------------------------------------
(* stop(), alone or as the beginning of another call.                      *)

StopChecks(t) ==
  /\ pc[t] = "idle" /\ ~terminated
  /\ IF running
     THEN stopFlag' = TRUE /\ Goto(t, "joining")
     ELSE UNCHANGED stopFlag /\ Goto(t, "stopped")
  /\ overlap' = (overlap \/ \E u \in Callers \ {t} : pc[u] # "idle")
  /\ UNCHANGED <<running, fields, joinable, thread, terminated, early>>

OwnerCalls == wants' \in {"stop", "start", "destroy"} /\ StopChecks(Owner)
OtherStops(t) == t # Owner /\ StopChecks(t) /\ UNCHANGED wants

\* Mutation: stop() does not wait for the worker.
JoinsNot(t) ==
  /\ pc[t] = "joining"
  /\ joinable' = FALSE
  /\ Goto(t, "clearing")
  /\ UNCHANGED <<flags, fields, thread, wants, history>>

Joins(t) ==
  /\ pc[t] = "joining"
  /\ ~joinable \/ wpc = "ended"
  /\ joinable' = FALSE
  /\ Goto(t, "clearing")
  /\ UNCHANGED <<flags, fields, thread, wants, history>>

Clears(t) ==
  /\ pc[t] = "clearing"
  /\ running' = FALSE
  /\ Goto(t, "stopped")
  /\ UNCHANGED <<stopFlag, fields, joinable, thread, wants, history>>

StopReturns(t) ==
  /\ pc[t] = "stopped"
  /\ t = Owner => wants = "stop"
  /\ Goto(t, "idle")
  /\ UNCHANGED <<flags, fields, joinable, thread, wants, history>>

-----------------------------------------------------------------------------
(* The rest of start_once and start_interval, and of the destructor.       *)

\* Mutation: a restart forgets the stop request of the last schedule.
SetFieldsOnly(f, s) ==
  /\ pc[Owner] = "stopped" /\ wants = "start"
  /\ cb' = f /\ schedule' = s
  /\ running' = TRUE
  /\ fired' = 0
  /\ Goto(Owner, "fields")
  /\ UNCHANGED <<stopFlag, joinable, wpc, wcb, wants, history>>

SetFields(f, s) ==
  /\ pc[Owner] = "stopped" /\ wants = "start"
  /\ cb' = f /\ schedule' = s
  /\ stopFlag' = FALSE /\ running' = TRUE
  /\ fired' = 0
  /\ Goto(Owner, "fields")
  /\ UNCHANGED <<joinable, wpc, wcb, wants, history>>

(* std::thread's constructor, then the move into worker_.                  *)
Spawns ==
  /\ pc[Owner] = "fields" /\ ~terminated
  /\ IF wpc \notin {"none", "ended"}
     THEN terminated' = TRUE /\ UNCHANGED <<wpc, wcb, pc>>
     ELSE /\ wpc' = "start" /\ wcb' = NoCallback
          /\ Goto(Owner, "spawned") /\ UNCHANGED terminated
  /\ UNCHANGED <<flags, fields, joinable, wants, fired, early, overlap>>

Assigns ==
  /\ pc[Owner] = "spawned"
  /\ terminated' = joinable
  /\ joinable' = TRUE
  /\ Goto(Owner, "idle")
  /\ UNCHANGED <<flags, fields, thread, wants, early, overlap>>

(* ~Timer, after its stop(): the members are destroyed.                    *)
Destroyed ==
  /\ pc[Owner] = "stopped" /\ wants = "destroy"
  /\ \A t \in Others : pc[t] = "idle"
  /\ terminated' = joinable
  /\ Goto(Owner, "gone")
  /\ UNCHANGED <<flags, fields, joinable, thread, wants, early, overlap>>

-----------------------------------------------------------------------------
(* run(), on the worker.                                                   *)

Copies ==
  /\ wpc = "start"
  /\ wcb' = cb
  /\ wpc' = IF schedule = "immediate" /\ ~stopFlag THEN "call" ELSE "wait"
  /\ UNCHANGED <<flags, fields, joinable, pc, wants, fired, history>>

WaitIsStopped ==
  /\ wpc = "wait" /\ stopFlag
  /\ wpc' = "ended"
  /\ UNCHANGED <<flags, fields, joinable, wcb, pc, wants, fired, history>>

WaitElapses ==
  /\ wpc = "wait" /\ ~stopFlag
  /\ wpc' = "call"
  /\ UNCHANGED <<flags, fields, joinable, wcb, pc, wants, fired, history>>

\* Mutation: a one-shot timer goes round once more.
CallReturnsToWait ==
  /\ wpc = "call"
  /\ fired' = IF fired < MaxFired THEN fired + 1 ELSE fired
  /\ wpc' = "wait"
  /\ UNCHANGED <<flags, fields, joinable, wcb, pc, wants, history>>

AfterCall == IF schedule = "once" THEN "ended" ELSE "wait"

(* The callback returns or throws.                                         *)
CallReturns ==
  /\ wpc = "call"
  /\ fired' = IF fired < MaxFired THEN fired + 1 ELSE fired
  /\ wpc' = AfterCall
  /\ UNCHANGED <<flags, fields, joinable, wcb, pc, wants, history>>

CallbackStops ==
  /\ wpc = "call" /\ running
  /\ stopFlag' = TRUE
  /\ wpc' = "stopping"
  /\ UNCHANGED <<running, fields, joinable, wcb, pc, wants, fired, history>>

\* Mutation: the callback waits for its own thread.
CallbackStopJoins ==
  /\ wpc = "stopping"
  /\ ~joinable
  /\ running' = FALSE /\ early' = TRUE
  /\ fired' = IF fired < MaxFired THEN fired + 1 ELSE fired
  /\ wpc' = AfterCall
  /\ UNCHANGED <<stopFlag, fields, joinable, wcb, pc, wants, terminated, overlap>>

CallbackStopEnds ==
  /\ wpc = "stopping"
  /\ IF joinable THEN UNCHANGED <<running, early>> ELSE running' = FALSE /\ early' = TRUE
  /\ fired' = IF fired < MaxFired THEN fired + 1 ELSE fired
  /\ wpc' = AfterCall
  /\ UNCHANGED <<stopFlag, fields, joinable, wcb, pc, wants, terminated, overlap>>

WorkerStep ==
  \/ Copies \/ WaitIsStopped \/ WaitElapses \/ CallReturns \/ CallbackStops \/ CallbackStopEnds
CallStep(t) == Joins(t) \/ Clears(t) \/ StopReturns(t)
OwnerStep ==
  \/ \E f \in Callbacks, s \in Schedules : SetFields(f, s)
  \/ Spawns \/ Assigns \/ Destroyed

Next ==
  /\ ~terminated
  /\ \/ WorkerStep
     \/ OwnerStep
     \/ OwnerCalls
     \/ \E t \in Callers : CallStep(t) \/ OtherStops(t)

(* Threads inside the timer's code keep running.                           *)
Fairness ==
  /\ WF_vars(Next /\ WorkerStep)
  /\ \A t \in Callers : WF_vars(Next /\ CallStep(t))

Spec == Init /\ [][Next]_vars
FairSpec == Spec /\ Fairness

-----------------------------------------------------------------------------
Quiet == ~early /\ ~overlap

(* stop() "blocks until the worker is joined": when the owner is outside   *)
(* its calls, a timer that does not say it runs has no thread and fires    *)
(* nothing, and no std::thread is ever overwritten or destroyed while it   *)
(* is joinable -- unless the callback stopped it before worker_ was        *)
(* assigned, or two threads called at once.                                *)
StoppedIsJoined ==
  Quiet =>
    /\ ~terminated
    /\ pc[Owner] \in {"idle", "stopped", "gone"} /\ ~running => ~joinable /\ wpc \in {"none", "ended"}

(* A start replaces the schedule before it: what is called is what was     *)
(* started last, a one-shot timer once only.                               *)
FiresTheLatest ==
  Quiet => /\ wpc \in {"call", "stopping"} => wcb = cb
           /\ schedule = "once" => fired + (IF wpc \in {"call", "stopping"} THEN 1 ELSE 0) <= 1

(* A one-shot timer fires, unless it is stopped first; and stop() returns, *)
(* also while the callback calls stop() itself.  Two threads that call at  *)
(* once excuse both.                                                       *)
TimerEnds ==
  /\ (wpc = "start" /\ schedule = "once" /\ Quiet) ~>
       (fired = 1 \/ ~Quiet \/ \E t \in Callers : pc[t] = "joining")
  /\ \A t \in Callers : (pc[t] = "joining") ~> (pc[t] # "joining" \/ overlap)
=============================================================================

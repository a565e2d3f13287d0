--------------------------- MODULE ApiServerLifecycle ---------------------------
(***************************************************************************)
(* start(), stop() and the destructor of api::ApiServer, against the       *)
(* worker thread that start() spawns and that executes run().  Owner is    *)
(* the thread that owns the object; Stoppers are other threads that call   *)
(* stop(), which the header offers to "another thread".  SlowStart says    *)
(* whether the 5 s that start() waits may pass before run() has bound.     *)
(*                                                                         *)
(* early and overlap are histories of the two ways a stop() can miss:      *)
(* early, it ran between the spawn and httplib's is_running_; overlap, it  *)
(* ran at the same time as another stop() or a start().                    *)
(***************************************************************************)
EXTENDS HttplibServer

CONSTANTS Owner, Stoppers, SlowStart

Callers == Stoppers \cup {Owner}

VARIABLES
  running,   \* Impl::running
  worker,    \* where the thread worker_ is; "none" while it is not joinable
  pc,        \* where the call of a caller is
  dying,     \* the owner's call is the destructor
  portFree,  \* whether a bind succeeds
  early, overlap

vars == <<httplib, running, worker, pc, dying, portFree, early, overlap>>

WorkerStates == {"none", "run", "bound", "announced", "listening", "returned", "ended"}
CallStates == {"idle", "joining", "waiting", "stopping", "finishing", "last", "gone"}

(* Every variable keeps its type.                                          *)
TypeOK ==
  /\ HttplibTypeOK
  /\ running \in BOOLEAN
  /\ worker \in WorkerStates
  /\ pc \in [Callers -> CallStates]
  /\ {dying, portFree, early, overlap} \subseteq BOOLEAN

Init ==
  /\ HttplibInit
  /\ running = FALSE
  /\ worker = "none"
  /\ pc = [t \in Callers |-> "idle"]
  /\ dying = FALSE
  /\ portFree \in BOOLEAN
  /\ early = FALSE /\ overlap = FALSE

Goto(t, l) == pc' = [pc EXCEPT ![t] = l]

(* Some other caller is inside start() or stop().                          *)
OthersBusy(t) == \E u \in Callers \ {t} : pc[u] # "idle"

-----------------------------------------------------------------------------
(* start().  The call that finds the server running throws and changes     *)
(* nothing.                                                                *)

Start ==
  /\ pc[Owner] = "idle" /\ ~dying
  /\ overlap' = (overlap \/ OthersBusy(Owner))
  /\ IF worker = "none"
     THEN worker' = "run" /\ Goto(Owner, "waiting")
     ELSE ~running /\ worker' = worker /\ Goto(Owner, "joining")
  /\ UNCHANGED <<httplib, running, dying, portFree, early>>

StartJoins ==
  /\ pc[Owner] = "joining" /\ worker = "ended"
  /\ worker' = "run"
  /\ Goto(Owner, "waiting")
  /\ UNCHANGED <<httplib, running, dying, portFree, early, overlap>>

StartReturns ==
  /\ pc[Owner] = "waiting"
  /\ running \/ worker = "ended" \/ SlowStart
  /\ Goto(Owner, "idle")
  /\ UNCHANGED <<httplib, running, worker, dying, portFree, early, overlap>>

-----------------------------------------------------------------------------
(* stop(), also as the first step of the destructor.                       *)

StopOver(t) == Goto(t, IF t = Owner /\ dying' THEN "last" ELSE "idle")

(* The worker will serve, and has not reached is_running_ = true.          *)
NotYetListening == worker \in {"run", "bound", "announced"}

StopChecks(t) ==
  /\ overlap' = (overlap \/ OthersBusy(t))
  /\ IF running
     THEN Goto(t, "stopping") /\ UNCHANGED early
     ELSE StopOver(t) /\ early' = (early \/ NotYetListening)
  /\ UNCHANGED <<httplib, running, worker, portFree>>

Stop(t) ==
  /\ pc[t] = "idle" /\ ~dying
  /\ UNCHANGED dying
  /\ StopChecks(t)

(* The destructor: no other thread uses the object any more.               *)
Destroy ==
  /\ pc[Owner] = "idle" /\ ~dying /\ ~OthersBusy(Owner)
  /\ dying' = TRUE
  /\ StopChecks(Owner)

\* Mutation: only the flag is reset.
StopHttplibNot(t) ==
  /\ pc[t] = "stopping"
  /\ early' = (early \/ NotYetListening)
  /\ Goto(t, "finishing")
  /\ UNCHANGED <<httplib, running, worker, dying, portFree, overlap>>

StopHttplib(t) ==
  /\ pc[t] = "stopping"
  /\ SvrStop
  /\ early' = (early \/ NotYetListening)
  /\ Goto(t, "finishing")
  /\ UNCHANGED <<running, worker, dying, portFree, overlap>>

\* Mutation: stop() leaves the flag to the worker.
StopFinishesLate(t) ==
  /\ pc[t] = "finishing"
  /\ UNCHANGED dying
  /\ StopOver(t)
  /\ UNCHANGED <<httplib, running, worker, portFree, early, overlap>>

StopFinishes(t) ==
  /\ pc[t] = "finishing"
  /\ running' = FALSE
  /\ UNCHANGED dying
  /\ StopOver(t)
  /\ UNCHANGED <<httplib, worker, portFree, early, overlap>>

JoinLast ==
  /\ pc[Owner] = "last"
  /\ worker \in {"none", "ended"}
  /\ Goto(Owner, "gone")
  /\ UNCHANGED <<httplib, running, worker, dying, portFree, early, overlap>>

-----------------------------------------------------------------------------
(* run(), on the worker.                                                   *)

RunBinds ==
  /\ worker = "run"
  /\ Binds(portFree)
  /\ worker' = "bound"
  /\ UNCHANGED <<running, pc, dying, portFree, early, overlap>>

RunBindFails ==
  /\ worker = "run"
  /\ BindFails(portFree)
  /\ running' = FALSE
  /\ worker' = "ended"
  /\ UNCHANGED <<pc, dying, portFree, early, overlap>>

\* Mutation: the start is announced by the notification alone.
RunAnnouncesOnly ==
  /\ worker = "bound"
  /\ worker' = "announced"
  /\ UNCHANGED <<httplib, running, pc, dying, portFree, early, overlap>>

RunAnnounces ==
  /\ worker = "bound"
  /\ running' = TRUE
  /\ worker' = "announced"
  /\ UNCHANGED <<httplib, pc, dying, portFree, early, overlap>>

RunListens ==
  /\ worker = "announced"
  /\ ListenEnters
  /\ worker' = "listening"
  /\ UNCHANGED <<running, pc, dying, portFree, early, overlap>>

RunReturns ==
  /\ worker = "listening"
  /\ ListenReturns
  /\ worker' = "returned"
  /\ UNCHANGED <<running, pc, dying, portFree, early, overlap>>

RunEnds ==
  /\ worker = "returned"
  /\ running' = FALSE
  /\ worker' = "ended"
  /\ UNCHANGED <<httplib, pc, dying, portFree, early, overlap>>

PortChanges ==
  /\ sock = "closed"
  /\ portFree' = ~portFree
  /\ UNCHANGED <<httplib, running, worker, pc, dying, early, overlap>>

WorkerStep ==
  \/ RunBinds \/ RunBindFails \/ RunAnnounces \/ RunListens \/ RunReturns \/ RunEnds
CallStep(t) == StopHttplib(t) \/ StopFinishes(t)
OwnerStep == StartJoins \/ StartReturns \/ JoinLast

Next ==
  \/ WorkerStep
  \/ OwnerStep
  \/ Start
  \/ Destroy
  \/ \E t \in Callers : Stop(t) \/ CallStep(t)
  \/ PortChanges

(* The worker thread and a thread inside a call keep running.              *)
Fairness ==
  /\ WF_vars(WorkerStep)
  /\ WF_vars(OwnerStep)
  /\ \A t \in Callers : WF_vars(CallStep(t))

Spec == Init /\ [][Next]_vars
FairSpec == Spec /\ Fairness

-----------------------------------------------------------------------------
(* running tells the truth: with no call under way, it is set exactly      *)
(* while the worker has announced an open socket -- unless stop() came too *)
(* early or overlapped another call; and its check keeps httplib's         *)
(* assertion: stop() reaches it only with a socket to close, unless two    *)
(* stop() calls overlap.                                                   *)
RunningIsServing ==
  /\ ~early /\ ~overlap /\ (\A t \in Callers : pc[t] \in {"idle", "waiting", "last"}) =>
       (running <=> worker \in {"announced", "listening"} /\ sock = "open")
  /\ \A t \in Callers : pc[t] = "stopping" /\ ~overlap => StopAsserts

(* The destructor returns: stop() reaches the accept loop and the join     *)
(* ends -- unless a stop() came too early or overlapped another call.      *)
DestructorEnds == dying ~> (pc[Owner] = "gone" \/ early \/ overlap)

(* run() serves "until stop() is called from another thread": the          *)
(* destructor, which calls it, always returns.                             *)
StopEndsRun == dying ~> pc[Owner] = "gone"
=============================================================================

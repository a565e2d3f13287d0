--------------------------- MODULE McpServerLifecycle ---------------------------
(***************************************************************************)
(* start(), stop() and the destructor (which is stop()) of mcp::McpServer. *)
(* Unlike ApiServer, start() waits for httplib itself, without a time-out, *)
(* and stop() joins the worker.                                            *)
(*                                                                         *)
(* overlap is the history of a stop() that ran while another call did;     *)
(* retried of a start() after a bind that failed, with no stop() between   *)
(* them: is_decommissioned is then still set, and wait_until_ready does    *)
(* not wait.                                                               *)
(***************************************************************************)
EXTENDS HttplibServer

CONSTANTS Owner, Stoppers

Callers == Stoppers \cup {Owner}

VARIABLES running, worker, pc, dying, portFree, overlap, retried

vars == <<httplib, running, worker, pc, dying, portFree, overlap, retried>>

WorkerStates == {"none", "run", "bound", "listening", "returned", "ended"}
CallStates == {"idle", "joining", "waiting", "last", "gone"}

(* Every variable keeps its type.                                          *)
TypeOK ==
  /\ HttplibTypeOK
  /\ running \in BOOLEAN
  /\ worker \in WorkerStates
  /\ pc \in [Callers -> CallStates]
  /\ {dying, portFree, overlap, retried} \subseteq BOOLEAN

Init ==
  /\ HttplibInit
  /\ running = FALSE
  /\ worker = "none"
  /\ pc = [t \in Callers |-> "idle"]
  /\ dying = FALSE
  /\ portFree \in BOOLEAN
  /\ overlap = FALSE /\ retried = FALSE

Goto(t, l) == pc' = [pc EXCEPT ![t] = l]
OthersBusy(t) == \E u \in Callers \ {t} : pc[u] # "idle"

-----------------------------------------------------------------------------
(* start().  The call that finds the server running throws and changes     *)
(* nothing.                                                                *)

Start ==
  /\ pc[Owner] = "idle" /\ ~dying
  /\ overlap' = (overlap \/ OthersBusy(Owner))
  /\ retried' = (retried \/ decommissioned)
  /\ IF worker = "none"
     THEN worker' = "run" /\ Goto(Owner, "waiting")
     ELSE ~running /\ worker' = worker /\ Goto(Owner, "joining")
  /\ UNCHANGED <<httplib, running, dying, portFree>>

StartJoins ==
  /\ pc[Owner] = "joining" /\ worker = "ended"
  /\ worker' = "run"
  /\ Goto(Owner, "waiting")
  /\ UNCHANGED <<httplib, running, dying, portFree, overlap, retried>>

\* Mutation: wait for a server that accepts, as a bind that fails never does.
StartReturnsReady ==
  /\ pc[Owner] = "waiting"
  /\ listening
  /\ running' = TRUE
  /\ Goto(Owner, "idle")
  /\ UNCHANGED <<httplib, worker, dying, portFree, overlap, retried>>

\* Mutation: start() does not wait.
StartReturnsAtOnce ==
  /\ pc[Owner] = "waiting"
  /\ running' = TRUE
  /\ Goto(Owner, "idle")
  /\ UNCHANGED <<httplib, worker, dying, portFree, overlap, retried>>

(* wait_until_ready, then the flag.                                        *)
StartReturns ==
  /\ pc[Owner] = "waiting"
  /\ listening \/ decommissioned
  /\ running' = TRUE
  /\ Goto(Owner, "idle")
  /\ UNCHANGED <<httplib, worker, dying, portFree, overlap, retried>>

-----------------------------------------------------------------------------
(* stop(): httplib, the join, the flag.                                    *)

StopBegins(t) ==
  /\ pc[t] = "idle" /\ ~dying
  /\ SvrStop
  /\ overlap' = (overlap \/ OthersBusy(t))
  /\ Goto(t, "last")
  /\ UNCHANGED <<running, worker, portFree, retried>>

Stop(t) == StopBegins(t) /\ UNCHANGED dying

Destroy == ~OthersBusy(Owner) /\ StopBegins(Owner) /\ dying' = TRUE

\* Mutation: stop() leaves the join to the destructor.
StopJoinsNot(t) ==
  /\ pc[t] = "last"
  /\ worker' = worker
  /\ running' = FALSE
  /\ Goto(t, IF dying THEN "gone" ELSE "idle")
  /\ UNCHANGED <<httplib, dying, portFree, overlap, retried>>

\* Mutation: the flag is forgotten.
StopJoinsOnly(t) ==
  /\ pc[t] = "last"
  /\ worker \in {"none", "ended"}
  /\ worker' = "none"
  /\ Goto(t, IF dying THEN "gone" ELSE "idle")
  /\ UNCHANGED <<httplib, running, dying, portFree, overlap, retried>>

StopJoins(t) ==
  /\ pc[t] = "last"
  /\ worker \in {"none", "ended"}
  /\ worker' = "none"
  /\ running' = FALSE
  /\ Goto(t, IF dying THEN "gone" ELSE "idle")
  /\ UNCHANGED <<httplib, dying, portFree, overlap, retried>>

-----------------------------------------------------------------------------
(* run(), on the worker: httplib's listen() binds and accepts.             *)

ListenBinds ==
  /\ worker = "run"
  /\ Binds(portFree)
  /\ worker' = "bound"
  /\ UNCHANGED <<running, pc, dying, portFree, overlap, retried>>

ListenFails ==
  /\ worker = "run"
  /\ BindFails(portFree)
  /\ worker' = "returned"
  /\ UNCHANGED <<running, pc, dying, portFree, overlap, retried>>

Accepts ==
  /\ worker = "bound"
  /\ ListenEnters
  /\ worker' = "listening"
  /\ UNCHANGED <<running, pc, dying, portFree, overlap, retried>>

RunReturns ==
  /\ worker = "listening"
  /\ ListenReturns
  /\ worker' = "returned"
  /\ UNCHANGED <<running, pc, dying, portFree, overlap, retried>>

RunEnds ==
  /\ worker = "returned"
  /\ running' = FALSE
  /\ worker' = "ended"
  /\ UNCHANGED <<httplib, pc, dying, portFree, overlap, retried>>

PortChanges ==
  /\ sock = "closed"
  /\ portFree' = ~portFree
  /\ UNCHANGED <<httplib, running, worker, pc, dying, overlap, retried>>

WorkerStep == ListenBinds \/ ListenFails \/ Accepts \/ RunReturns \/ RunEnds
OwnerStep == StartJoins \/ StartReturns

Next ==
  \/ WorkerStep
  \/ OwnerStep
  \/ Start
  \/ Destroy
  \/ \E t \in Callers : Stop(t) \/ StopJoins(t)
  \/ PortChanges

(* The worker thread and a thread inside a call keep running.              *)
Fairness ==
  /\ WF_vars(WorkerStep)
  /\ WF_vars(OwnerStep)
  /\ \A t \in Callers : WF_vars(StopJoins(t))

Spec == Init /\ [][Next]_vars
FairSpec == Spec /\ Fairness

-----------------------------------------------------------------------------
(* With no call under way, a server that says it runs does accept, or its  *)
(* bind failed: start() sets the flag either way.  After a retry it may    *)
(* not even have bound.  Joining before stop() returns keeps httplib's     *)
(* assertion: the next stop() finds a socket or no listener.  Neither      *)
(* holds when two calls overlap.                                           *)
RunningIsServing ==
  ~overlap /\ (\A t \in Callers : pc[t] = "idle") =>
    /\ running /\ ~retried => (worker = "listening" /\ sock = "open") \/ decommissioned
    /\ StopAsserts

(* start() returns, whether the bind succeeds or not, unless another       *)
(* thread's stop() ends the server before start() has looked.  The         *)
(* destructor returns, unless a start() that did not wait let stop() come  *)
(* before the listener.                                                    *)
CallsEnd ==
  /\ (pc[Owner] = "waiting") ~> (pc[Owner] # "waiting" \/ overlap)
  /\ dying ~> (pc[Owner] = "gone" \/ overlap \/ retried)
=============================================================================

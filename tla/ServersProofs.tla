---------------------------- MODULE ServersProofs ----------------------------
(***************************************************************************)
(* Safety of the server side, for every number of clients, requests and    *)
(* callers: each component's inductive invariant, carried by the steps of  *)
(* MCSpec.                                                                 *)
(***************************************************************************)
EXTENDS MCServers, SequenceFacts

-----------------------------------------------------------------------------
(* A2ATasks.                                                               *)

(* The task the handler of c returned is in the map.                       *)
Stored(c) == result[c] \in A2A!Tasks /\ result[c].id \in Ids /\ tasks[result[c].id] # None

Subscribed(c) == frame[c] = A2A!ErrorTask \/ Stored(c)

(* What the map holds of a call at every place of it.                      *)
TaskHeld(c) ==
  /\ tpc[c] = "storing" => result[c] \in [id : Ids, state : A2A!Results]
  /\ tpc[c] = "replying" => Stored(c)
  /\ tpc[c] = "streamed" /\ outcome[c] # "aborted" => Subscribed(c)
  /\ outcome[c] = "ok" => tpc[c] \in {"idle", "returned"} /\ Subscribed(c)

(* A cancel counts as settled only while no handler runs.                  *)
Settled ==
  /\ settled # {} => ~A2A!Handling
  /\ \A id \in settled : tasks[id] = "canceled"

TaskInv == A2A!TypeOK /\ (\A c \in Clients : TaskHeld(c)) /\ Settled

LEMMA TaskInit == A2A!Init => TaskInv
BY ServersAssumption DEF A2A!Init, TaskInv, A2A!TypeOK, TaskHeld, Settled

\* The map never loses a task.
LEMMA TaskStep == TaskInv /\ A2A!Next => TaskInv'
<1> SUFFICES ASSUME TaskInv, NEW c \in Clients,
                    \/ \E stream \in BOOLEAN : A2A!Send(c, stream)
                    \/ A2A!Update(c)
                    \/ \E id \in Ids, s \in A2A!Results : A2A!HandlerReturns(c, id, s)
                    \/ A2A!HandlerThrows(c) \/ A2A!StreamDropped(c)
                    \/ A2A!Store(c) \/ A2A!Reply(c) \/ A2A!Abort(c) \/ A2A!StreamEnds(c) \/ A2A!Again(c)
                    \/ \E id \in Ids : A2A!Cancel(c, id)
             PROVE  TaskInv'
  BY DEF A2A!Next
<1> USE ServersAssumption DEF TaskInv, A2A!Goto, A2A!Outcome
<1>1. CASE \E stream \in BOOLEAN : A2A!Send(c, stream)
  BY <1>1 DEF A2A!Send, A2A!TypeOK, TaskHeld, Stored, Subscribed, Settled
<1>2. CASE A2A!Update(c)
  BY <1>2 DEF A2A!Update, A2A!Frame, A2A!TypeOK, TaskHeld, Stored, Subscribed, Settled, A2A!Handling, A2A!Tasks, A2A!States
<1>3. CASE \E id \in Ids, s \in A2A!Results : A2A!HandlerReturns(c, id, s)
  BY <1>3 DEF A2A!HandlerReturns, A2A!Frame, A2A!TypeOK, TaskHeld, Stored, Subscribed, Settled, A2A!Handling, A2A!Tasks, A2A!States, A2A!Results
<1>4. CASE A2A!HandlerThrows(c)
  BY <1>4 DEF A2A!HandlerThrows, A2A!Frame, A2A!TypeOK, TaskHeld, Stored, Subscribed, Settled, A2A!Handling, A2A!Tasks, A2A!States, A2A!ErrorTask
<1>5. CASE A2A!StreamDropped(c)
  BY <1>5 DEF A2A!StreamDropped, A2A!TypeOK, TaskHeld, Stored, Subscribed, Settled, A2A!Handling
<1>6. CASE A2A!Store(c)
  BY <1>6 DEF A2A!Store, A2A!TypeOK, TaskHeld, Stored, Subscribed, Settled, A2A!Handling, A2A!Tasks, A2A!States, A2A!Results
<1>7. CASE A2A!Reply(c)
  BY <1>7 DEF A2A!Reply, A2A!TypeOK, TaskHeld, Stored, Subscribed, Settled, A2A!Handling
<1>8. CASE A2A!Abort(c)
  BY <1>8 DEF A2A!Abort, A2A!TypeOK, TaskHeld, Stored, Subscribed, Settled, A2A!Handling
<1>9. CASE A2A!StreamEnds(c)
  BY <1>9 DEF A2A!StreamEnds, A2A!TypeOK, TaskHeld, Stored, Subscribed, Settled, A2A!Handling
<1>10. CASE A2A!Again(c)
  BY <1>10 DEF A2A!Again, A2A!TypeOK, TaskHeld, Stored, Subscribed, Settled, A2A!Handling
<1>11. CASE \E id \in Ids : A2A!Cancel(c, id)
  BY <1>11 DEF A2A!Cancel, A2A!TypeOK, TaskHeld, Stored, Subscribed, Settled, A2A!Handling, A2A!States
<1> QED BY <1>1, <1>2, <1>3, <1>4, <1>5, <1>6, <1>7, <1>8, <1>9, <1>10, <1>11

LEMMA TasksCarry == TaskInv /\ [MCNext]_all => TaskInv'
<1> SUFFICES ASSUME TaskInv, [MCNext]_all PROVE TaskInv'
  OBVIOUS
<1>1. CASE TaskNext
  BY <1>1, TaskStep DEF TaskNext
<1>2. CASE UNCHANGED taskVars
  BY <1>2 DEF taskVars, TaskInv, A2A!TypeOK, TaskHeld, Stored, Subscribed, Settled, A2A!Handling
<1> QED BY <1>1, <1>2 DEF MCNext, ApiNext, McpNext, RequestNext, RouteNext, SessionNext, ChatNext, all

\* What clients were told of their tasks stays true.
THEOREM TasksAreKept == MCSpec => []TasksHold
<1>1. MCInit => TaskInv
  BY TaskInit DEF MCInit
<1>2. TaskInv => TasksHold
  BY ServersAssumption DEF TaskInv, TaskHeld, Subscribed, Stored, Settled, TasksHold, A2A!ReturnedMeansKnown, A2A!CancelHolds
<1> QED BY <1>1, <1>2, TasksCarry, PTL DEF MCSpec

-----------------------------------------------------------------------------
(* ApiServerLifecycle.                                                     *)

OneCall ==
  ~overlap => \A t, u \in Api!Callers : pc[t] # "idle" /\ pc[u] # "idle" => t = u

(* The socket and the flag of httplib follow the worker.                   *)
ApiSocket ==
  /\ listening <=> worker = "listening"
  /\ worker \in {"none", "run", "returned", "ended"} => sock = "closed"
  /\ worker \in {"bound", "announced"} => sock = "open"

Serving == worker \in {"announced", "listening"} /\ sock = "open"

(* running is set while the worker serves, and only stop() ends that.      *)
ApiRunning ==
  /\ running => worker \in {"announced", "listening", "returned"}
  /\ ~overlap /\ running /\ (\A t \in Api!Callers : pc[t] # "finishing") => Serving
  /\ ~overlap => \A t \in Api!Callers : pc[t] = "stopping" => running
  /\ ~early /\ ~overlap => \A t \in Api!Callers :
       pc[t] = "finishing" => worker \in {"listening", "returned", "ended"} /\ sock = "closed"
  /\ ~early /\ ~overlap /\ worker \in {"announced", "listening"} /\ ~running => sock = "closed"

ApiInv == Api!TypeOK /\ OneCall /\ ApiSocket /\ ApiRunning

LEMMA ApiInit == Api!Init => ApiInv
BY DEF Api!Init, Api!HttplibInit, ApiInv, Api!TypeOK, Api!HttplibTypeOK, Api!WorkerStates, Api!CallStates,
       OneCall, ApiSocket, ApiRunning

\* start(), and the owner inside it.
LEMMA ApiOwnerStep == ApiInv /\ (Api!Start \/ Api!OwnerStep) => ApiInv'
<1> SUFFICES ASSUME ApiInv, Api!Start \/ Api!OwnerStep PROVE ApiInv'
  OBVIOUS
<1> USE DEF ApiInv, Api!Goto, Api!httplib, Api!TypeOK, Api!HttplibTypeOK, Api!WorkerStates, Api!CallStates, Api!Callers
<1>1. CASE Api!Start
  <2>1. Api!TypeOK' /\ ApiSocket'
    BY <1>1 DEF Api!Start, ApiSocket
  <2>2. ~overlap' => \A t \in Api!Callers : (t = Owner \/ pc[t] = "idle") /\ (pc'[t] # "idle" => t = Owner)
    BY <1>1 DEF Api!Start, Api!OthersBusy
  <2>3. OneCall'
    BY <2>2 DEF OneCall
  <2>4. ApiRunning'
    BY <1>1, <2>2 DEF Api!Start, ApiRunning, Serving
  <2> QED BY <2>1, <2>3, <2>4
<1>2. CASE Api!StartJoins
  BY <1>2 DEF Api!StartJoins, OneCall, ApiSocket, ApiRunning, Serving
<1>3. CASE Api!StartReturns
  BY <1>3 DEF Api!StartReturns, OneCall, ApiSocket, ApiRunning, Serving
<1>4. CASE Api!JoinLast
  BY <1>4 DEF Api!JoinLast, OneCall, ApiSocket, ApiRunning, Serving
<1> QED BY <1>1, <1>2, <1>3, <1>4 DEF Api!OwnerStep

\* stop() looks at running: a second caller makes it an overlap.
LEMMA ApiStopStep ==
  ASSUME ApiInv, NEW t \in Api!Callers, Api!Stop(t) \/ (t = Owner /\ Api!Destroy) \/ Api!CallStep(t)
  PROVE  ApiInv'
<1> USE DEF ApiInv, Api!Goto, Api!httplib, Api!TypeOK, Api!HttplibTypeOK, Api!WorkerStates, Api!CallStates
<1>1. CASE Api!Stop(t) \/ (t = Owner /\ Api!Destroy)
  <2>1. /\ Api!StopChecks(t) /\ dying' \in BOOLEAN /\ pc[t] = "idle"
        /\ UNCHANGED <<sock, listening, decommissioned, running, worker, portFree>>
    BY <1>1 DEF Api!Stop, Api!Destroy, Api!StopChecks
  <2>2. /\ pc' \in [Api!Callers -> Api!CallStates] /\ \A u \in Api!Callers : u # t => pc'[u] = pc[u]
        /\ IF running THEN pc'[t] = "stopping" /\ early' = early
                      ELSE pc'[t] \in {"idle", "last"} /\ early' = (early \/ Api!NotYetListening)
    BY <2>1 DEF Api!StopChecks, Api!StopOver
  <2>3. Api!TypeOK'
    BY <2>1, <2>2 DEF Api!StopChecks
  <2>4. ~overlap' => ~overlap /\ \A u \in Api!Callers : pc[u] = "idle" /\ (pc'[u] # "idle" => u = t)
    BY <2>1, <2>2 DEF Api!StopChecks, Api!OthersBusy
  <2>5. OneCall' /\ ApiSocket'
    BY <2>1, <2>4 DEF OneCall, ApiSocket
  <2>6. ApiRunning'
    BY <2>1, <2>2, <2>4 DEF ApiRunning, Serving, Api!NotYetListening
  <2> QED BY <2>3, <2>5, <2>6
<1>2. CASE Api!StopHttplib(t)
  BY <1>2 DEF Api!StopHttplib, Api!SvrStop, Api!NotYetListening, OneCall, ApiSocket, ApiRunning, Serving
<1>3. CASE Api!StopFinishes(t)
  BY <1>3 DEF Api!StopFinishes, Api!StopOver, OneCall, ApiSocket, ApiRunning, Serving
<1> QED BY <1>1, <1>2, <1>3 DEF Api!CallStep

\* run(), which leaves its accept loop only when stop() closed the socket.
LEMMA ApiWorkerStep == ApiInv /\ (Api!WorkerStep \/ Api!PortChanges) => ApiInv'
<1> SUFFICES ASSUME ApiInv, Api!WorkerStep \/ Api!PortChanges PROVE ApiInv'
  OBVIOUS
<1> USE DEF ApiInv, Api!httplib, Api!TypeOK, Api!HttplibTypeOK, Api!WorkerStates, Api!CallStates
<1>1. CASE Api!RunBinds
  BY <1>1 DEF Api!RunBinds, Api!Binds, OneCall, ApiSocket, ApiRunning, Serving
<1>2. CASE Api!RunBindFails
  BY <1>2 DEF Api!RunBindFails, Api!BindFails, OneCall, ApiSocket, ApiRunning, Serving
<1>3. CASE Api!RunAnnounces
  BY <1>3 DEF Api!RunAnnounces, OneCall, ApiSocket, ApiRunning, Serving
<1>4. CASE Api!RunListens
  BY <1>4 DEF Api!RunListens, Api!ListenEnters, OneCall, ApiSocket, ApiRunning, Serving
<1>5. CASE Api!RunReturns
  BY <1>5 DEF Api!RunReturns, Api!ListenReturns, OneCall, ApiSocket, ApiRunning, Serving
<1>6. CASE Api!RunEnds
  BY <1>6 DEF Api!RunEnds, OneCall, ApiSocket, ApiRunning, Serving
<1>7. CASE Api!PortChanges
  BY <1>7 DEF Api!PortChanges, OneCall, ApiSocket, ApiRunning, Serving
<1> QED BY <1>1, <1>2, <1>3, <1>4, <1>5, <1>6, <1>7 DEF Api!WorkerStep

LEMMA ApiStep == ApiInv /\ Api!Next => ApiInv'
BY ApiOwnerStep, ApiStopStep, ApiWorkerStep DEF Api!Next, Api!Callers

LEMMA ApiTells == ApiInv => Api!RunningIsServing
<1> SUFFICES ASSUME ApiInv PROVE Api!RunningIsServing
  OBVIOUS
<1> USE DEF ApiInv, Api!TypeOK, Api!HttplibTypeOK, OneCall, ApiSocket, ApiRunning, Serving
<1>1. ~early /\ ~overlap /\ (\A t \in Api!Callers : pc[t] \in {"idle", "waiting", "last"}) =>
        (running <=> worker \in {"announced", "listening"} /\ sock = "open")
  OBVIOUS
<1>2. ASSUME NEW t \in Api!Callers, pc[t] = "stopping", ~overlap PROVE Api!StopAsserts
  <2>1. \A u \in Api!Callers : pc[u] # "finishing"
    BY <1>2
  <2> QED BY <1>2, <2>1 DEF Api!StopAsserts
<1> QED BY <1>1, <1>2 DEF Api!RunningIsServing

-----------------------------------------------------------------------------
(* McpServerLifecycle.                                                     *)

McpSocket ==
  /\ listening <=> worker = "listening"
  /\ worker \in {"none", "run", "returned", "ended"} => sock = "closed"
  /\ worker = "bound" => sock = "open"

NoneStops == \A t \in Mcp!Callers : pc[t] # "last"

McpRunning ==
  ~overlap /\ NoneStops =>
    /\ listening => sock = "open"
    /\ running /\ ~retried => decommissioned \/ (worker = "listening" /\ sock = "open")

McpInv == Mcp!TypeOK /\ OneCall /\ McpSocket /\ McpRunning

LEMMA McpInit == Mcp!Init => McpInv
BY DEF Mcp!Init, Mcp!HttplibInit, McpInv, Mcp!TypeOK, Mcp!HttplibTypeOK, Mcp!WorkerStates, Mcp!CallStates,
       Mcp!Callers, Api!Callers, OneCall, McpSocket, McpRunning

\* start(), which waits until httplib is ready, and the flag is_decommissioned
\* of a bind that failed.
LEMMA McpOwnerStep == McpInv /\ (Mcp!Start \/ Mcp!OwnerStep) => McpInv'
<1> SUFFICES ASSUME McpInv, Mcp!Start \/ Mcp!OwnerStep PROVE McpInv'
  OBVIOUS
<1> USE DEF McpInv, Mcp!Goto, Mcp!httplib, Mcp!TypeOK, Mcp!HttplibTypeOK, Mcp!WorkerStates, Mcp!CallStates,
            Mcp!Callers, Api!Callers
<1>1. CASE Mcp!Start
  <2>1. Mcp!TypeOK' /\ McpSocket'
    BY <1>1 DEF Mcp!Start, McpSocket
  <2>2. ~overlap' => \A t \in Mcp!Callers : (t = Owner \/ pc[t] = "idle") /\ (pc'[t] # "idle" => t = Owner)
    BY <1>1 DEF Mcp!Start, Mcp!OthersBusy
  <2>3. OneCall'
    BY <2>2 DEF OneCall
  <2>4. McpRunning'
    BY <1>1, <2>2 DEF Mcp!Start, McpRunning, McpSocket, NoneStops
  <2> QED BY <2>1, <2>3, <2>4
<1>2. CASE Mcp!StartJoins
  BY <1>2 DEF Mcp!StartJoins, OneCall, McpSocket, McpRunning, NoneStops
<1>3. CASE Mcp!StartReturns
  BY <1>3 DEF Mcp!StartReturns, OneCall, McpSocket, McpRunning, NoneStops
<1> QED BY <1>1, <1>2, <1>3 DEF Mcp!OwnerStep

\* stop() closes the socket first and joins the worker before it returns.
LEMMA McpStopStep ==
  ASSUME McpInv, NEW t \in Mcp!Callers, Mcp!Stop(t) \/ (t = Owner /\ Mcp!Destroy) \/ Mcp!StopJoins(t)
  PROVE  McpInv'
<1> USE DEF McpInv, Mcp!Goto, Mcp!httplib, Mcp!TypeOK, Mcp!HttplibTypeOK, Mcp!WorkerStates, Mcp!CallStates,
            Mcp!Callers, Api!Callers
<1>1. CASE Mcp!Stop(t) \/ (t = Owner /\ Mcp!Destroy)
  <2>1. Mcp!StopBegins(t) /\ dying' \in BOOLEAN
    BY <1>1 DEF Mcp!Stop, Mcp!Destroy
  <2>2. Mcp!TypeOK'
    BY <2>1 DEF Mcp!StopBegins, Mcp!SvrStop
  <2>3. ~overlap' => \A u \in Mcp!Callers : pc'[u] # "idle" => u = t
    BY <2>1 DEF Mcp!StopBegins, Mcp!OthersBusy
  <2>4. OneCall' /\ McpSocket'
    BY <2>1, <2>3 DEF OneCall, McpSocket, Mcp!StopBegins, Mcp!SvrStop
  <2>5. ~NoneStops'
    BY <2>1 DEF NoneStops, Mcp!StopBegins
  <2> QED BY <2>2, <2>4, <2>5 DEF McpRunning
<1>2. CASE Mcp!StopJoins(t)
  BY <1>2 DEF Mcp!StopJoins, OneCall, McpSocket, McpRunning, NoneStops
<1> QED BY <1>1, <1>2

LEMMA McpWorkerStep == McpInv /\ (Mcp!WorkerStep \/ Mcp!PortChanges) => McpInv'
<1> SUFFICES ASSUME McpInv, Mcp!WorkerStep \/ Mcp!PortChanges PROVE McpInv'
  OBVIOUS
<1> USE DEF McpInv, Mcp!httplib, Mcp!TypeOK, Mcp!HttplibTypeOK, Mcp!WorkerStates, Mcp!CallStates,
            Mcp!Callers, Api!Callers
<1>1. CASE Mcp!ListenBinds
  BY <1>1 DEF Mcp!ListenBinds, Mcp!Binds, OneCall, McpSocket, McpRunning, NoneStops
<1>2. CASE Mcp!ListenFails
  BY <1>2 DEF Mcp!ListenFails, Mcp!BindFails, OneCall, McpSocket, McpRunning, NoneStops
<1>3. CASE Mcp!Accepts
  BY <1>3 DEF Mcp!Accepts, Mcp!ListenEnters, OneCall, McpSocket, McpRunning, NoneStops
<1>4. CASE Mcp!RunReturns
  BY <1>4 DEF Mcp!RunReturns, Mcp!ListenReturns, OneCall, McpSocket, McpRunning, NoneStops
<1>5. CASE Mcp!RunEnds
  BY <1>5 DEF Mcp!RunEnds, OneCall, McpSocket, McpRunning, NoneStops
<1>6. CASE Mcp!PortChanges
  BY <1>6 DEF Mcp!PortChanges, OneCall, McpSocket, McpRunning, NoneStops
<1> QED BY <1>1, <1>2, <1>3, <1>4, <1>5, <1>6 DEF Mcp!WorkerStep

LEMMA McpStep == McpInv /\ Mcp!Next => McpInv'
BY McpOwnerStep, McpStopStep, McpWorkerStep DEF Mcp!Next, Mcp!Callers

LEMMA McpTells == McpInv => Mcp!RunningIsServing
BY DEF McpInv, Mcp!TypeOK, Mcp!HttplibTypeOK, McpSocket, McpRunning, NoneStops, Mcp!RunningIsServing, Mcp!StopAsserts

Lifecycles == (choice = "api" => ApiInv) /\ (choice = "mcp" => McpInv)

LEMMA LifecyclesCarry == Lifecycles /\ [MCNext]_all => Lifecycles'
<1> SUFFICES ASSUME Lifecycles, [MCNext]_all PROVE Lifecycles'
  OBVIOUS
<1>1. CASE ApiNext
  BY <1>1, ApiStep DEF ApiNext, Lifecycles
<1>2. CASE McpNext
  BY <1>2, McpStep DEF McpNext, Lifecycles
<1>3. CASE UNCHANGED <<choice, lifecycle>>
  <2>1. ApiInv => ApiInv'
    BY <1>3 DEF lifecycle, ApiInv, Api!TypeOK, Api!HttplibTypeOK, OneCall, ApiSocket, ApiRunning, Serving
  <2>2. McpInv => McpInv'
    BY <1>3 DEF lifecycle, McpInv, Mcp!TypeOK, Mcp!HttplibTypeOK, OneCall, McpSocket, McpRunning, NoneStops
  <2> QED BY <1>3, <2>1, <2>2 DEF Lifecycles
<1> QED BY <1>1, <1>2, <1>3 DEF MCNext, RequestNext, RouteNext, SessionNext, ChatNext, TaskNext, all

LEMMA LifecyclesBegin == MCInit => Lifecycles
BY ApiInit, McpInit DEF MCInit, Lifecycles

\* Both servers: running tells whether the server serves.
THEOREM ServersTellTheTruth == MCSpec => []RunningIsServing
<1>1. Lifecycles => RunningIsServing
  BY ApiTells, McpTells DEF RunningIsServing, Lifecycles
<1> QED BY <1>1, LifecyclesBegin, LifecyclesCarry, PTL DEF MCSpec

-----------------------------------------------------------------------------
(* ApiRequests.                                                            *)

RequestTypes ==
  /\ hooks \in Managers \cup {NoHooks}
  /\ rpc \in [Requests -> {"idle", "arrived", "before", "handling", "closing",
                           "provider", "streaming", "doneCalled", "streamed", "ended", "terminated"}]
  /\ callId \in [Requests -> Managers \cup {NoHooks}]
  /\ before \in [Requests -> Managers \cup {NoHooks}]
  /\ after \in [Requests -> [Managers -> Nat]]
  /\ runs \in [Requests -> Nat]
  /\ open \in [Requests -> BOOLEAN]
  /\ late \in [Requests -> BOOLEAN]
  /\ excuse \in [Requests -> SUBSET Req!Excuses]

Without(r, why) == excuse[r] \cap why = {}
NotFired(r) == \A m \in Managers : after[r][m] = 0
FiredOnce(r) == \A m \in Managers : after[r][m] = (IF m = before[r] THEN 1 ELSE 0)
OneFired(r) == \A m, n \in Managers : after[r][m] > 0 /\ after[r][n] > 0 => m = n

(* Before the handler, and while it or its stream is at work.              *)
Waits(r) == rpc[r] \in {"idle", "arrived"}
Works(r) == rpc[r] \in {"handling", "closing", "provider", "streaming", "doneCalled", "streamed"}
InStream(r) == rpc[r] \in {"streaming", "doneCalled", "streamed"}

(* The call id and Before went to the manager that is installed now, and   *)
(* After is still to come.                                                 *)
EventsHeld(r) ==
  /\ Waits(r) => before[r] = NoHooks /\ callId[r] = NoHooks /\ excuse[r] = {}
  /\ rpc[r] = "before" /\ Without(r, {"rehooked"}) => callId[r] = hooks
  /\ Works(r) /\ Without(r, {"rehooked"}) => before[r] = callId[r] /\ callId[r] = hooks
  /\ rpc[r] # "ended" /\ Without(r, {"undone"}) => NotFired(r)
  /\ rpc[r] = "ended" /\ Without(r, {"rehooked", "dropped", "escaped", "undone"}) =>
       before[r] = callId[r] /\ FiredOnce(r)
  /\ Without(r, {"undone"}) => OneFired(r)

(* Only a handler that returned without done() is called again.            *)
StreamHeld(r) ==
  /\ Without(r, {"undone"}) => runs[r] = (IF InStream(r) THEN 1 ELSE 0) \/ (rpc[r] \in {"ended", "terminated"} /\ runs[r] <= 1)
  /\ rpc[r] = "doneCalled" \/ (rpc[r] = "streamed" /\ Without(r, {"undone"})) => ~open[r]
  /\ rpc[r] \notin {"doneCalled", "streamed", "ended", "terminated"} => open[r]
  /\ Without(r, {"misused"}) => ~late[r]

RequestInv == RequestTypes /\ \A r \in Requests : EventsHeld(r) /\ StreamHeld(r)

LEMMA RequestInit == Req!Init => RequestInv
<1> SUFFICES ASSUME Req!Init PROVE RequestInv
  OBVIOUS
<1>1. RequestTypes
  BY DEF Req!Init, RequestTypes
<1>2. ASSUME NEW r \in Requests PROVE EventsHeld(r) /\ StreamHeld(r)
  BY DEF Req!Init, EventsHeld, StreamHeld, Waits, Works, InStream, Without, NotFired, FiredOnce, OneFired
<1> QED BY <1>1, <1>2 DEF RequestInv

\* A step of one request leaves what the others hold.
LEMMA OthersHold ==
  ASSUME RequestInv, NEW r \in Requests, hooks' = hooks,
         \A q \in Requests \ {r} : /\ rpc'[q] = rpc[q] /\ callId'[q] = callId[q] /\ before'[q] = before[q]
                                   /\ after'[q] = after[q] /\ runs'[q] = runs[q] /\ open'[q] = open[q]
                                   /\ late'[q] = late[q] /\ excuse'[q] = excuse[q]
  PROVE  \A q \in Requests \ {r} : EventsHeld(q)' /\ StreamHeld(q)'
BY DEF RequestInv, EventsHeld, StreamHeld, Waits, Works, InStream, Without, NotFired, FiredOnce, OneFired

\* set_hooks excuses every request that is under way.
LEMMA HooksStep == ASSUME RequestInv, NEW m \in Managers \cup {NoHooks}, Req!SetHooks(m) PROVE RequestInv'
<1> USE DEF RequestInv
<1>1. /\ hooks' \in Managers \cup {NoHooks}
      /\ UNCHANGED <<rpc, callId, before, after, runs, open, late>>
      /\ excuse' \in [Requests -> SUBSET Req!Excuses]
      /\ \A r \in Requests :
           excuse'[r] = IF rpc[r] \in {"idle", "arrived", "ended"} THEN excuse[r] ELSE excuse[r] \cup {"rehooked"}
  BY DEF Req!SetHooks, Req!events, Req!stream, RequestTypes, Req!Excuses
<1>2. RequestTypes'
  BY <1>1 DEF RequestTypes
<1>3. ASSUME NEW r \in Requests PROVE EventsHeld(r)' /\ StreamHeld(r)'
  <2>1. CASE rpc[r] \in {"idle", "arrived", "ended"}
    BY <2>1, <1>1 DEF EventsHeld, StreamHeld, Waits, Works, InStream, Without, NotFired, FiredOnce, OneFired
  <2>2. CASE rpc[r] \notin {"idle", "arrived", "ended"}
    <3>1. excuse'[r] = excuse[r] \cup {"rehooked"}
      BY <1>1, <2>2
    <3>2. ~Without(r, {"rehooked"})' /\ ~Waits(r)'
      BY <1>1, <2>2, <3>1 DEF Without, Waits
    <3>3. /\ Without(r, {"undone"})' <=> Without(r, {"undone"})
          /\ Without(r, {"misused"})' <=> Without(r, {"misused"})
      BY <3>1 DEF Without
    <3> QED BY <1>1, <2>2, <3>2, <3>3 DEF EventsHeld, StreamHeld, InStream, NotFired, OneFired
  <2> QED BY <2>1, <2>2
<1> QED BY <1>2, <1>3

\* The route handler, up to the answer or the stream.
LEMMA HandlerSteps ==
  ASSUME RequestInv, NEW r \in Requests,
         \/ Req!Arrive(r) \/ Req!Rejected(r) \/ Req!TakeCallId(r) \/ Req!FireBefore(r)
         \/ Req!Answered(r) \/ Req!Escapes(r) \/ Req!BecomesStream(r)
  PROVE  RequestInv'
<1> USE DEF RequestInv
<1>1. /\ hooks' = hooks /\ UNCHANGED <<after, runs, open, late>> /\ RequestTypes'
      /\ \A q \in Requests \ {r} : /\ rpc'[q] = rpc[q] /\ callId'[q] = callId[q] /\ before'[q] = before[q]
                                   /\ excuse'[q] = excuse[q]
  <2> USE DEF Req!Goto, Req!world, Req!events, Req!stream, RequestTypes
  <2>1. CASE Req!Arrive(r) \/ Req!Rejected(r) \/ Req!Answered(r) \/ Req!BecomesStream(r)
    BY <2>1 DEF Req!Arrive, Req!Rejected, Req!Answered, Req!BecomesStream
  <2>2. CASE Req!TakeCallId(r)
    BY <2>2 DEF Req!TakeCallId
  <2>3. CASE Req!FireBefore(r)
    BY <2>3 DEF Req!FireBefore
  <2>4. CASE Req!Escapes(r)
    BY <2>4 DEF Req!Escapes, Req!Excused, Req!Excuses
  <2> QED BY <2>1, <2>2, <2>3, <2>4
<1>2. EventsHeld(r)' /\ StreamHeld(r)'
  <2>1. CASE Req!Arrive(r)
    BY <2>1 DEF Req!Arrive, Req!Goto, Req!world, Req!events, Req!stream, RequestTypes,
                EventsHeld, StreamHeld, Waits, Works, InStream, Without, NotFired, OneFired
  <2>2. CASE Req!Rejected(r)
    BY <2>2, ServersAssumption DEF Req!Rejected, Req!Goto, Req!world, Req!events, Req!stream, RequestTypes,
                EventsHeld, StreamHeld, Waits, Works, InStream, Without, NotFired, FiredOnce, OneFired
  <2>3. CASE Req!TakeCallId(r)
    BY <2>3 DEF Req!TakeCallId, Req!Goto, Req!world, Req!stream, RequestTypes,
                EventsHeld, StreamHeld, Waits, Works, InStream, Without, NotFired, OneFired
  <2>4. CASE Req!FireBefore(r)
    BY <2>4 DEF Req!FireBefore, Req!Goto, Req!world, Req!stream, RequestTypes,
                EventsHeld, StreamHeld, Waits, Works, InStream, Without, NotFired, OneFired
  <2>5. CASE Req!Answered(r) \/ Req!BecomesStream(r)
    BY <2>5 DEF Req!Answered, Req!BecomesStream, Req!Goto, Req!world, Req!events, Req!stream, RequestTypes,
                EventsHeld, StreamHeld, Waits, Works, InStream, Without, NotFired, OneFired
  <2>6. CASE Req!Escapes(r)
    BY <2>6 DEF Req!Escapes, Req!Goto, Req!Excused, Req!world, Req!events, Req!stream, RequestTypes,
                EventsHeld, StreamHeld, Waits, Works, InStream, Without, NotFired, OneFired
  <2> QED BY <2>1, <2>2, <2>3, <2>4, <2>5, <2>6
<1> QED BY <1>1, <1>2, OthersHold

\* The loop around the content provider, and the stream handlers.
LEMMA StreamSteps ==
  ASSUME RequestInv, NEW r \in Requests, Req!Dropped(r) \/ Req!ProviderCalled(r) \/ Req!HandlerStep(r)
  PROVE  RequestInv'
<1> USE DEF RequestInv
<1>1. /\ hooks' = hooks /\ UNCHANGED <<after, callId, before>> /\ RequestTypes'
      /\ \A q \in Requests \ {r} : /\ rpc'[q] = rpc[q] /\ runs'[q] = runs[q] /\ open'[q] = open[q]
                                   /\ late'[q] = late[q] /\ excuse'[q] = excuse[q]
  <2> USE DEF Req!Goto, Req!Excused, Req!Excuses, Req!Terminate, Req!world, Req!events, Req!stream, RequestTypes
  <2>1. CASE Req!Dropped(r)
    BY <2>1 DEF Req!Dropped
  <2>2. CASE Req!ProviderCalled(r)
    BY <2>2 DEF Req!ProviderCalled
  <2>3. CASE Req!HandlerDone(r)
    BY <2>3 DEF Req!HandlerDone
  <2>4. CASE Req!HandlerReturns(r)
    <3>1. /\ rpc' = [rpc EXCEPT ![r] = "streamed"] /\ UNCHANGED <<hooks, callId, before, after, runs, open, late>>
          /\ excuse' = excuse \/ excuse' = [excuse EXCEPT ![r] = @ \cup {"undone"}]
      BY <2>4 DEF Req!HandlerReturns
    <3> QED BY <3>1
  <2>5. CASE Req!HandlerThrows(r)
    <3>1. /\ rpc' = [rpc EXCEPT ![r] = "streamed"] /\ UNCHANGED <<hooks, callId, before, after, runs>>
          /\ excuse' = excuse \/ excuse' = [excuse EXCEPT ![r] = @ \cup {"misused"}]
          /\ open' = [open EXCEPT ![r] = FALSE] /\ late' = [late EXCEPT ![r] = @ \/ ~open[r]]
      BY <2>5 DEF Req!HandlerThrows
    <3>2. late' \in [Requests -> BOOLEAN]
      BY <3>1
    <3>3. excuse' \in [Requests -> SUBSET Req!Excuses] /\ \A q \in Requests \ {r} : excuse'[q] = excuse[q]
      BY <3>1
    <3> QED BY <3>1, <3>2, <3>3
  <2>6. CASE Req!ChatStreams(r)
    BY <2>6 DEF Req!ChatStreams
  <2>7. CASE Req!ChatStreamEscapes(r)
    BY <2>7 DEF Req!ChatStreamEscapes
  <2>8. CASE Req!HandlerTerminates(r)
    BY <2>8 DEF Req!HandlerTerminates
  <2> QED BY <2>1, <2>2, <2>3, <2>4, <2>5, <2>6, <2>7, <2>8 DEF Req!HandlerStep
<1> USE DEF Req!Goto, Req!Excused, Req!Terminate, Req!world, Req!events, Req!stream, RequestTypes
<1>2. EventsHeld(r)' /\ StreamHeld(r)'
  <2>1. CASE Req!Dropped(r)
    <3>1. /\ rpc[r] = "provider" /\ rpc'[r] = "ended"
          /\ excuse'[r] = IF runs[r] = 0 THEN excuse[r] \cup {"dropped"} ELSE excuse[r]
          /\ UNCHANGED <<hooks, callId, before, after, runs, open, late>>
      BY <2>1 DEF Req!Dropped
    <3>2. runs[r] = 0 \/ "undone" \in excuse[r]
      BY <3>1 DEF StreamHeld, Without, InStream
    <3>3. /\ Without(r, {"undone"})' <=> Without(r, {"undone"})
          /\ Without(r, {"misused"})' <=> Without(r, {"misused"})
          /\ ~Without(r, {"rehooked", "dropped", "escaped", "undone"})'
      BY <3>1, <3>2 DEF Without
    <3> QED BY <3>1, <3>3 DEF EventsHeld, StreamHeld, Waits, Works, InStream, NotFired, OneFired
  <2>2. CASE Req!ProviderCalled(r)
    <3>1. /\ rpc[r] = "provider" /\ rpc'[r] = "streaming" /\ runs'[r] = runs[r] + 1
          /\ UNCHANGED <<hooks, callId, before, after, open, late, excuse>>
      BY <2>2 DEF Req!ProviderCalled
    <3>2. EventsHeld(r)'
      BY <3>1 DEF EventsHeld, Waits, Works, Without, NotFired, OneFired
    <3>3. Without(r, {"undone"}) => runs[r] = 0
      BY <3>1 DEF StreamHeld, InStream
    <3>4. StreamHeld(r)'
      BY <3>1, <3>3 DEF StreamHeld, InStream, Without
    <3> QED BY <3>2, <3>4
  <2>3. CASE Req!HandlerDone(r)
    BY <2>3 DEF Req!HandlerDone, EventsHeld, StreamHeld, Waits, Works, InStream, Without, NotFired, OneFired
  <2>4. CASE Req!HandlerReturns(r)
    <3>1. CASE rpc[r] = "doneCalled"
      <4>1. /\ rpc'[r] = "streamed" /\ Works(r) /\ Works(r)' /\ ~Waits(r)' /\ InStream(r) /\ InStream(r)'
            /\ UNCHANGED <<hooks, callId, before, after, runs, open, late, excuse>>
        BY <2>4, <3>1 DEF Req!HandlerReturns, Works, Waits, InStream
      <4>2. ~open[r]
        BY <3>1 DEF StreamHeld
      <4> QED BY <3>1, <4>1, <4>2 DEF EventsHeld, StreamHeld, Without, NotFired, OneFired
    <3>2. CASE rpc[r] = "streaming"
      <4>1. /\ rpc'[r] = "streamed" /\ excuse'[r] = excuse[r] \cup {"undone"} /\ Works(r) /\ ~Waits(r)
            /\ UNCHANGED <<hooks, callId, before, after, runs, open, late>>
        BY <2>4, <3>2 DEF Req!HandlerReturns, Works, Waits
      <4>2. ~Without(r, {"undone"})' /\ (Without(r, {"rehooked"})' <=> Without(r, {"rehooked"}))
            /\ (Without(r, {"misused"})' <=> Without(r, {"misused"})) /\ ~Waits(r)'
        BY <4>1 DEF Without, Waits
      <4> QED BY <4>1, <4>2 DEF EventsHeld, StreamHeld
    <3> QED BY <2>4, <3>1, <3>2 DEF Req!HandlerReturns
  <2>5. CASE Req!HandlerThrows(r)
    BY <2>5 DEF Req!HandlerThrows, EventsHeld, StreamHeld, Waits, Works, InStream, Without, NotFired, OneFired
  <2>6. CASE Req!ChatStreams(r)
    BY <2>6 DEF Req!ChatStreams, EventsHeld, StreamHeld, Waits, Works, InStream, Without, NotFired, OneFired
  <2>7. CASE Req!ChatStreamEscapes(r)
    <3>1. /\ rpc[r] = "streaming" /\ rpc'[r] = "ended" /\ excuse'[r] = excuse[r] \cup {"escaped"}
          /\ UNCHANGED <<hooks, callId, before, after, runs>> /\ late'[r] = (late[r] \/ ~open[r])
      BY <2>7 DEF Req!ChatStreamEscapes
    <3>2. /\ Without(r, {"undone"})' <=> Without(r, {"undone"})
          /\ Without(r, {"misused"})' <=> Without(r, {"misused"})
          /\ ~Without(r, {"rehooked", "dropped", "escaped", "undone"})'
      BY <3>1 DEF Without
    <3> QED BY <3>1, <3>2 DEF EventsHeld, StreamHeld, Waits, Works, InStream, OneFired
  <2>8. CASE Req!HandlerTerminates(r)
    <3>1. /\ rpc[r] \in {"streaming", "doneCalled"} /\ rpc'[r] = "terminated"
          /\ UNCHANGED <<hooks, callId, before, after, runs, open, late, excuse>>
      BY <2>8 DEF Req!HandlerTerminates
    <3> QED BY <3>1 DEF EventsHeld, StreamHeld, Waits, Works, InStream, Without, NotFired, OneFired
  <2> QED BY <2>1, <2>2, <2>3, <2>4, <2>5, <2>6, <2>7, <2>8 DEF Req!HandlerStep
<1> QED BY <1>1, <1>2, OthersHold

\* After goes to the manager installed now: unexcused, the one that got Before.
LEMMA AfterSteps ==
  ASSUME RequestInv, NEW r \in Requests, Req!AfterAnswer(r) \/ Req!AfterStream(r)
  PROVE  RequestInv'
<1> USE DEF RequestInv
<1>1. /\ hooks' = hooks /\ UNCHANGED <<callId, before, runs, open, late, excuse>>
      /\ rpc[r] \in {"closing", "streamed"}
      /\ rpc' = [rpc EXCEPT ![r] = IF rpc[r] = "closing" \/ ~open[r] THEN "ended" ELSE "provider"]
      /\ after' = IF hooks = NoHooks THEN after ELSE [after EXCEPT ![r][hooks] = @ + 1]
  BY DEF Req!AfterAnswer, Req!AfterStream, Req!Goto, Req!FireAfter, Req!world, Req!stream
<1>2. /\ \A q \in Requests \ {r} : rpc'[q] = rpc[q] /\ after'[q] = after[q]
      /\ \A m \in Managers : after'[r][m] = IF m = hooks THEN after[r][m] + 1 ELSE after[r][m]
      /\ after' \in [Requests -> [Managers -> Nat]]
  BY <1>1, ServersAssumption DEF RequestTypes
<1>3. RequestTypes'
  BY <1>1, <1>2 DEF RequestTypes
<1>4. /\ Works(r) /\ ~Waits(r) /\ rpc[r] # "ended"
      /\ rpc'[r] \in {"ended", "provider"} /\ (Without(r, {"undone"}) => rpc'[r] = "ended")
      /\ rpc'[r] = "provider" => open[r]
  BY <1>1 DEF RequestTypes, Works, Waits, StreamHeld
<1>5. Without(r, {"undone"}) => NotFired(r)
  BY <1>4 DEF EventsHeld
<1>6. Without(r, {"rehooked", "undone"}) => before[r] = callId[r] /\ FiredOnce(r)'
  <2> SUFFICES ASSUME Without(r, {"rehooked", "undone"}) PROVE before[r] = callId[r] /\ FiredOnce(r)'
    OBVIOUS
  <2>1. Without(r, {"rehooked"}) /\ Without(r, {"undone"})
    BY DEF Without
  <2>2. before[r] = callId[r] /\ before[r] = hooks /\ NotFired(r)
    BY <1>4, <1>5, <2>1 DEF EventsHeld
  <2> QED BY <1>1, <1>2, <2>2 DEF NotFired, FiredOnce
<1>7. Without(r, {"undone"}) => OneFired(r)'
  BY <1>2, <1>5 DEF NotFired, OneFired
<1>8. EventsHeld(r)'
  <2>1. Without(r, {"rehooked", "dropped", "escaped", "undone"}) => Without(r, {"rehooked", "undone"})
    BY DEF Without
  <2>2. Without(r, {"rehooked"}) => before[r] = callId[r] /\ callId[r] = hooks
    BY <1>4 DEF EventsHeld
  <2>3. ~Waits(r)' /\ rpc'[r] # "before"
    BY <1>4 DEF Waits
  <2>4. /\ Without(r, {"rehooked"})' = Without(r, {"rehooked"}) /\ Without(r, {"undone"})' = Without(r, {"undone"})
        /\ Without(r, {"rehooked", "dropped", "escaped", "undone"})' = Without(r, {"rehooked", "dropped", "escaped", "undone"})
    BY <1>1 DEF Without
  <2> QED BY <1>1, <1>4, <1>6, <1>7, <2>1, <2>2, <2>3, <2>4 DEF EventsHeld
<1>9. StreamHeld(r)'
  BY <1>1, <1>4 DEF StreamHeld, InStream, Without, RequestTypes
<1> QED BY <1>1, <1>2, <1>3, <1>8, <1>9, OthersHold

LEMMA RequestStep == RequestInv /\ Req!Next => RequestInv'
<1> SUFFICES ASSUME RequestInv, Req!Next PROVE RequestInv'
  OBVIOUS
<1>1. CASE Req!StopServer \/ \E r \in Requests : Req!PeerLeaves(r)
  <2>1. UNCHANGED <<hooks, rpc, callId, before, after, runs, open, late, excuse>>
    BY <1>1 DEF Req!StopServer, Req!PeerLeaves, Req!events, Req!stream
  <2> QED BY <2>1 DEF RequestInv, RequestTypes, EventsHeld, StreamHeld, Waits, Works, InStream, Without,
                      NotFired, FiredOnce, OneFired
<1> QED BY <1>1, HooksStep, HandlerSteps, StreamSteps, AfterSteps DEF Req!Next, Req!RequestStep

LEMMA RequestsCarry == RequestInv /\ [MCNext]_all => RequestInv'
<1> SUFFICES ASSUME RequestInv, [MCNext]_all PROVE RequestInv'
  OBVIOUS
<1>1. CASE RequestNext
  BY <1>1, RequestStep DEF RequestNext
<1>2. CASE UNCHANGED requestVars
  BY <1>2 DEF requestVars, RequestInv, RequestTypes, EventsHeld, StreamHeld, Waits, Works, InStream, Without,
              NotFired, FiredOnce, OneFired
<1> QED BY <1>1, <1>2 DEF MCNext, ApiNext, McpNext, RouteNext, SessionNext, ChatNext, TaskNext, all

LEMMA HooksAndStreams == RequestInv => Req!EventsPaired /\ Req!StreamEndsOnce
<1> SUFFICES ASSUME RequestInv, NEW r \in Requests
             PROVE  /\ rpc[r] = "ended" /\ excuse[r] \cap {"rehooked", "dropped", "escaped", "undone"} = {} =>
                         before[r] = callId[r] /\ FiredOnce(r)
                    /\ "undone" \notin excuse[r] => OneFired(r)
                    /\ "undone" \notin excuse[r] => runs[r] <= 1
                    /\ "misused" \notin excuse[r] => ~late[r]
  BY DEF Req!EventsPaired, Req!StreamEndsOnce, FiredOnce, OneFired
<1>1. EventsHeld(r) /\ StreamHeld(r) /\ runs[r] \in Nat
  BY DEF RequestInv, RequestTypes
<1> QED BY <1>1 DEF EventsHeld, StreamHeld, Without

-----------------------------------------------------------------------------
(* ChatSessions, which MCServers extends.  One agent serves the sessions   *)
(* of an ApiServer.  SessionsApart speaks of what is in the memories; that *)
(* the next entry belongs there follows from what a request holds while it *)
(* runs (HoldsItsOwn), and that it is the next of its turn from where the  *)
(* requests are that have entries already (TurnsSoFar).                    *)

Stores == Sessions \cup {Own}

\* The memory of a request is its session's, or none was given; before it is
\* resolved there is none.
HoldsItsOwn ==
  \A c \in Chats :
    /\ at[c] \in {"idle", "served"} => memory[c] = None /\ ~ungiven[c]
    /\ at[c] \in {"idle", "served", "remembering"} => history[c] = <<>>
    /\ at[c] \in {"served", "remembering", "running", "asked"} => asks[c] \in Sessions
    /\ at[c] \in {"remembering", "running", "asked"} =>
         memory[c] = asks[c] \/ (memory[c] = None /\ ungiven[c])

\* An entry is of a request that has come so far.
TurnsSoFar ==
  \A m \in Stores : \A i \in DOMAIN log[m] :
    /\ at[log[m][i].from] \in {"asked", "ended"}
    /\ log[m][i].kind = "answer" => at[log[m][i].from] = "ended"

SessionInv == TypeOK /\ HoldsItsOwn /\ TurnsSoFar /\ SessionsApart

Rest(c) ==
  \/ \E id \in Models \cup {Unnamed} : NoModel(c, id) \/ \E s \in Sessions : ResolveBackend(c, id, s)
  \/ BadRequest(c) \/ ModelAnswers(c) \/ AgentGivesUp(c)

-----------------------------------------------------------------------------
LEMMA Appended ==
  ASSUME NEW S, NEW s \in Seq(S), NEW e \in S
  PROVE  /\ Append(s, e) \in Seq(S)
         /\ DOMAIN Append(s, e) = DOMAIN s \cup {Len(s) + 1}
         /\ \A i \in DOMAIN s : Append(s, e)[i] = s[i] /\ i < Len(s) + 1
         /\ Append(s, e)[Len(s) + 1] = e
OBVIOUS

LEMMA EntryOfARequest ==
  ASSUME TypeOK, NEW m \in Stores, NEW i \in DOMAIN log[m]
  PROVE  log[m][i] \in Entries /\ log[m][i].from \in Chats
<1>1. log[m] \in Seq(Entries)
  BY DEF TypeOK, Stores
<1>2. log[m][i] \in Entries
  BY <1>1
<1> QED BY <1>2 DEF Entries

\* The memory an agent uses is its session's, or its own when none was given.
LEMMA MemoryUsed ==
  ASSUME SessionInv, NEW c \in Chats, at[c] \in {"remembering", "running", "asked"}
  PROVE  /\ Memory(c) \in Stores /\ asks[c] \in Sessions
         /\ Memory(c) = asks[c] \/ (Memory(c) = Own /\ ungiven[c])
BY SessionAssumption DEF SessionInv, HoldsItsOwn, Memory, Stores

-----------------------------------------------------------------------------
\* The application, and the steps that add nothing and read nothing.
LEMMA RegistryKeeps ==
  ASSUME SessionInv, NEW id \in Models, NEW how \in {"sessions", "nullptr"},
         RegisterModel(id) \/ RegisterAgent(id) \/ SetMemoryResolver(how)
  PROVE  SessionInv'
<1>1. UNCHANGED <<log, at, asks, server, memory, history, ungiven>>
  BY DEF RegisterModel, RegisterAgent, SetMemoryResolver
<1>2. TypeOK'
  BY DEF SessionInv, TypeOK, RegisterModel, RegisterAgent, SetMemoryResolver
<1> QED BY <1>1, <1>2 DEF SessionInv, HoldsItsOwn, TurnsSoFar, SessionsApart

LEMMA RestKeeps ==
  ASSUME SessionInv, NEW c \in Chats, Rest(c)
  PROVE  SessionInv'
<1> USE DEF SessionInv
<1> DEFINE Step == /\ UNCHANGED <<llms, agents, resolver, log, memory, history, ungiven>>
                   /\ \E to \in {"served", "ended"} : at' = [at EXCEPT ![c] = to]
                   /\ \/ at[c] = "idle" /\ at'[c] = "served" /\ \E s \in Sessions : asks' = [asks EXCEPT ![c] = s]
                      \/ at'[c] = "ended" /\ asks' = asks
<1>1. Step
  <2>1. ASSUME NEW id \in Models \cup {Unnamed}, NEW s \in Sessions, ResolveBackend(c, id, s) PROVE Step
    BY <2>1 DEF ResolveBackend, Go, registry, TypeOK
  <2>2. ASSUME NEW id \in Models \cup {Unnamed}, NoModel(c, id) PROVE Step
    BY <2>2 DEF NoModel, Go, registry, TypeOK
  <2>3. CASE BadRequest(c) \/ ModelAnswers(c) \/ AgentGivesUp(c)
    BY <2>3 DEF BadRequest, ModelAnswers, AgentGivesUp, Go, registry, TypeOK
  <2> QED BY <2>1, <2>2, <2>3 DEF Rest
<1>2. server' \in [Chats -> {None} \cup [kind : {"agent", "llm"}, id : Models]]
  <2>1. CASE UNCHANGED server
    BY <2>1 DEF TypeOK
  <2>2. ASSUME NEW id \in Models \cup {Unnamed}, NEW s \in Sessions, ResolveBackend(c, id, s)
        PROVE  server' \in [Chats -> {None} \cup [kind : {"agent", "llm"}, id : Models]]
    <3>1. PICK b \in Backends(id) : server' = [server EXCEPT ![c] = b]
      BY <2>2 DEF ResolveBackend
    <3>2. b \in [kind : {"agent", "llm"}, id : Models]
      BY <3>1 DEF Backends, By, TypeOK
    <3> QED BY <3>1, <3>2 DEF TypeOK
  <2> QED BY <2>1, <2>2 DEF Rest, NoModel, BadRequest, ModelAnswers, AgentGivesUp
<1>3. TypeOK'
  <2>1. at' \in [Chats -> {"idle", "served", "remembering", "running", "asked", "ended"}]
    BY <1>1 DEF TypeOK
  <2>2. asks' \in [Chats -> Sessions \cup {None}]
    BY <1>1 DEF TypeOK
  <2> QED BY <1>1, <1>2, <2>1, <2>2 DEF TypeOK
<1>4. HoldsItsOwn'
  BY <1>1 DEF HoldsItsOwn, TypeOK
<1>5. TurnsSoFar'
  <2> SUFFICES ASSUME NEW m \in Stores, NEW i \in DOMAIN log[m]
               PROVE  /\ at'[log[m][i].from] \in {"asked", "ended"}
                      /\ log[m][i].kind = "answer" => at'[log[m][i].from] = "ended"
    BY <1>1 DEF TurnsSoFar
  <2>1. at[log[m][i].from] \in {"asked", "ended"} /\ (log[m][i].kind = "answer" => at[log[m][i].from] = "ended")
    BY DEF TurnsSoFar
  <2>2. log[m][i].from \in Chats
    BY EntryOfARequest
  <2> QED BY <1>1, <2>1, <2>2 DEF TypeOK
<1>6. SessionsApart'
  <2>1. \A d \in Chats : ~ungiven[d] => \A i \in DOMAIN history[d] : history[d][i].session = asks'[d]
    <3> SUFFICES ASSUME NEW d \in Chats, ~ungiven[d], NEW i \in DOMAIN history[d]
                 PROVE  history[d][i].session = asks'[d]
      OBVIOUS
    <3>1. CASE d = c /\ at[c] = "idle"
      BY <3>1 DEF HoldsItsOwn
    <3>2. CASE d # c \/ asks' = asks
      BY <3>2, <1>1 DEF SessionsApart, TypeOK
    <3> QED BY <3>1, <3>2, <1>1
  <2> QED BY <1>1, <2>1 DEF SessionsApart
<1> QED BY <1>3, <1>4, <1>5, <1>6

\* The memory is resolved, and read.
LEMMA ResolveKeeps ==
  ASSUME SessionInv, NEW c \in Chats, ResolveMemory(c)
  PROVE  SessionInv'
<1> USE DEF SessionInv
<1>1. /\ UNCHANGED <<llms, agents, resolver, log, asks, server, history>>
      /\ at[c] = "served" /\ at' = [at EXCEPT ![c] = "remembering"]
      /\ \/ memory' = [memory EXCEPT ![c] = asks[c]] /\ ungiven' = ungiven
         \/ memory' = memory /\ ungiven' = [ungiven EXCEPT ![c] = TRUE]
  BY DEF ResolveMemory, Go, registry
<1>2. TypeOK'
  BY <1>1 DEF TypeOK
<1>3. HoldsItsOwn'
  <2>1. CASE memory' = [memory EXCEPT ![c] = asks[c]] /\ ungiven' = ungiven
    <3>1. \A d \in Chats : d # c => memory'[d] = memory[d] /\ at'[d] = at[d]
      BY <2>1, <1>1 DEF TypeOK
    <3>2. memory'[c] = asks[c] /\ at'[c] = "remembering"
      BY <2>1, <1>1 DEF TypeOK
    <3>3. at[c] = "served" /\ asks' = asks /\ history' = history /\ ungiven' = ungiven
      BY <2>1, <1>1
    <3>4. history[c] = <<>> /\ asks[c] \in Sessions
      BY <3>3 DEF HoldsItsOwn
    <3> HIDE <2>1
    <3> QED BY <3>1, <3>2, <3>3, <3>4 DEF HoldsItsOwn
  <2>2. CASE memory' = memory /\ ungiven' = [ungiven EXCEPT ![c] = TRUE]
    BY <2>2, <1>1 DEF HoldsItsOwn, TypeOK
  <2> QED BY <1>1, <2>1, <2>2
<1>4. \A m \in Stores : \A i \in DOMAIN log[m] : log[m][i].from \in Chats \ {c}
  BY <1>1, EntryOfARequest DEF TurnsSoFar
<1>5. TurnsSoFar'
  BY <1>1, <1>4 DEF TurnsSoFar, TypeOK
<1>6. SessionsApart'
  <2>1. \A i \in DOMAIN log[Own] : ungiven'[log[Own][i].from]
    BY <1>1, <1>4 DEF SessionsApart, TypeOK, Stores
  <2>2. \A d \in Chats : ~ungiven'[d] => ~ungiven[d]
    BY <1>1 DEF TypeOK
  <2> QED BY <1>1, <2>1, <2>2 DEF SessionsApart
<1> QED BY <1>2, <1>3, <1>5, <1>6

LEMMA ReadKeeps ==
  ASSUME SessionInv, NEW c \in Chats, AgentReads(c)
  PROVE  SessionInv'
<1> USE DEF SessionInv
<1>1. /\ UNCHANGED <<llms, agents, resolver, log, asks, server, memory, ungiven>>
      /\ at[c] = "remembering" /\ at' = [at EXCEPT ![c] = "running"]
      /\ history' = [history EXCEPT ![c] = log[Memory(c)]]
  BY DEF AgentReads, Go, registry
<1>2. /\ Memory(c) \in Stores /\ asks[c] \in Sessions
      /\ Memory(c) = asks[c] \/ (Memory(c) = Own /\ ungiven[c])
  BY <1>1, MemoryUsed
<1>3. TypeOK'
  BY <1>1, <1>2 DEF TypeOK, Stores
<1>4. HoldsItsOwn'
  BY <1>1 DEF HoldsItsOwn, TypeOK
<1>5. \A m \in Stores : \A i \in DOMAIN log[m] : log[m][i].from \in Chats \ {c}
  BY <1>1, EntryOfARequest DEF TurnsSoFar
<1>6. TurnsSoFar'
  BY <1>1, <1>5 DEF TurnsSoFar, TypeOK
<1>7. SessionsApart'
  <2> SUFFICES ASSUME NEW d \in Chats, ~ungiven[d], NEW i \in DOMAIN history'[d]
               PROVE  history'[d][i].session = asks[d]
    BY <1>1 DEF SessionsApart
  <2>1. CASE d = c
    BY <2>1, <1>1, <1>2 DEF SessionsApart, TypeOK
  <2>2. CASE d # c
    BY <2>2, <1>1 DEF SessionsApart, TypeOK
  <2> QED BY <2>1, <2>2
<1> QED BY <1>3, <1>4, <1>6, <1>7

-----------------------------------------------------------------------------
\* What is added is the next entry of its turn, to the memory of its session.
LEMMA AddKeeps ==
  ASSUME SessionInv, NEW c \in Chats, AddQuestion(c) \/ AddAnswer(c)
  PROVE  SessionInv'
<1> USE DEF SessionInv
<1> DEFINE to == IF at[c] = "running" THEN "asked" ELSE "ended"
           what == IF at[c] = "running" THEN "question" ELSE "answer"
           new == [from |-> c, session |-> asks[c], kind |-> what]
           M == Memory(c)
<1>1. /\ UNCHANGED <<llms, agents, resolver, asks, server, memory, history, ungiven>>
      /\ at[c] \in {"running", "asked"} /\ at' = [at EXCEPT ![c] = to]
      /\ log' = [log EXCEPT ![M] = Append(log[M], new)]
  BY DEF AddQuestion, AddAnswer, Add, Go, registry
<1>2. /\ M \in Stores /\ asks[c] \in Sessions
      /\ M = asks[c] \/ (M = Own /\ ungiven[c])
  BY <1>1, MemoryUsed
<1>3. new \in Entries /\ log[M] \in Seq(Entries) /\ Len(log[M]) \in Nat
  <2>1. new \in Entries
    BY <1>2 DEF Entries
  <2>2. log[M] \in Seq(Entries)
    <3> HIDE DEF M
    <3> QED BY <1>2 DEF TypeOK, Stores
  <2> QED BY <2>1, <2>2
<1>4. /\ DOMAIN log' = Stores
      /\ \A m \in Stores \ {M} : log'[m] = log[m]
      /\ log'[M] \in Seq(Entries)
      /\ DOMAIN log'[M] = DOMAIN log[M] \cup {Len(log[M]) + 1}
      /\ \A i \in DOMAIN log[M] : log'[M][i] = log[M][i] /\ i < Len(log[M]) + 1
      /\ log'[M][Len(log[M]) + 1] = new
  <2>1. log'[M] = Append(log[M], new) /\ DOMAIN log' = Stores /\ \A m \in Stores \ {M} : log'[m] = log[m]
    BY <1>1, <1>2 DEF TypeOK, Stores
  <2> HIDE DEF new, M
  <2> QED BY <2>1, <1>3, Appended
<1>5. TypeOK'
  <2>1. log' \in [Stores -> Seq(Entries)]
    BY <1>1, <1>3, <1>4, <1>2 DEF TypeOK, Stores
  <2> QED BY <1>1, <2>1 DEF TypeOK, Stores
<1>6. HoldsItsOwn'
  BY <1>1 DEF HoldsItsOwn, TypeOK
\* Entries of c before the new one: none before the question, and only the
\* question before the answer.
<1>7. \A m \in Stores : \A i \in DOMAIN log[m] :
        log[m][i].from = c => at[c] = "asked" /\ log[m][i].kind = "question"
  BY <1>1, EntryOfARequest DEF TurnsSoFar, Entries
<1> HIDE DEF M
<1>8. \A m \in Stores : \A i \in DOMAIN log'[m] :
        \/ i \in DOMAIN log[m] /\ log'[m][i] = log[m][i]
        \/ m = M /\ i = Len(log[M]) + 1 /\ log'[m][i] = new
  BY <1>4
<1>9. TurnsSoFar'
  <2> SUFFICES ASSUME NEW m \in Stores, NEW i \in DOMAIN log'[m]
               PROVE  /\ at'[log'[m][i].from] \in {"asked", "ended"}
                      /\ log'[m][i].kind = "answer" => at'[log'[m][i].from] = "ended"
    BY DEF TurnsSoFar
  <2>1. CASE i \in DOMAIN log[m] /\ log'[m][i] = log[m][i]
    BY <2>1, <1>1, <1>7, EntryOfARequest DEF TurnsSoFar, TypeOK
  <2>2. CASE log'[m][i] = new
    BY <2>2, <1>1 DEF TypeOK
  <2> QED BY <2>1, <2>2, <1>8
<1>10. SessionsApart'
  <2>1. \A s \in Sessions : \A i \in DOMAIN log'[s] : log'[s][i].session = s
    <3> SUFFICES ASSUME NEW s \in Sessions, NEW i \in DOMAIN log'[s] PROVE log'[s][i].session = s
      OBVIOUS
    <3> QED BY <1>2, <1>8, SessionAssumption DEF SessionsApart, Stores
  <2>2. \A i \in DOMAIN log'[Own] : ungiven'[log'[Own][i].from]
    <3> SUFFICES ASSUME NEW i \in DOMAIN log'[Own] PROVE ungiven[log'[Own][i].from]
      BY <1>1
    <3> QED BY <1>2, <1>8, SessionAssumption DEF SessionsApart, Stores
  <2>3. \A m \in Stores : \A i, j \in DOMAIN log'[m] :
          i < j /\ log'[m][i].from = log'[m][j].from => log'[m][i].kind = "question" /\ log'[m][j].kind = "answer"
    <3> SUFFICES ASSUME NEW m \in Stores, NEW i \in DOMAIN log'[m], NEW j \in DOMAIN log'[m],
                        i < j, log'[m][i].from = log'[m][j].from
                 PROVE  log'[m][i].kind = "question" /\ log'[m][j].kind = "answer"
      OBVIOUS
    <3>1. CASE j \in DOMAIN log[m] /\ log'[m][j] = log[m][j]
      <4>1. i \in DOMAIN log[m] /\ log'[m][i] = log[m][i]
        BY <3>1, <1>8, <1>4, <1>3
      <4> QED BY <3>1, <4>1 DEF SessionsApart, TypeOK, Stores
    <3>2. CASE m = M /\ j = Len(log[M]) + 1 /\ log'[m][j] = new
      <4>1. i \in DOMAIN log[m] /\ log'[m][i] = log[m][i]
        BY <3>2, <1>8, <1>3
      <4> QED BY <3>2, <4>1, <1>7, <1>1
    <3> QED BY <3>1, <3>2, <1>8
  <2> QED BY <1>1, <1>4, <2>1, <2>2, <2>3 DEF SessionsApart
<1> QED BY <1>5, <1>6, <1>9, <1>10

-----------------------------------------------------------------------------
LEMMA SessionInit == Init => SessionInv
<1> SUFFICES ASSUME Init PROVE SessionInv
  OBVIOUS
<1>1. TypeOK
  BY DEF Init, TypeOK
<1> QED BY <1>1 DEF Init, SessionInv, HoldsItsOwn, TurnsSoFar, SessionsApart, Stores

LEMMA SessionStep == SessionInv /\ [Next]_vars => SessionInv'
<1> SUFFICES ASSUME SessionInv, [Next]_vars PROVE SessionInv'
  OBVIOUS
<1>1. CASE UNCHANGED vars
  BY <1>1 DEF vars, SessionInv, TypeOK, HoldsItsOwn, TurnsSoFar, SessionsApart
<1>2. ASSUME NEW id \in Models, RegisterModel(id) \/ RegisterAgent(id) PROVE SessionInv'
  BY <1>2, RegistryKeeps
<1>3. ASSUME NEW how \in {"sessions", "nullptr"}, SetMemoryResolver(how) PROVE SessionInv'
  BY <1>3 DEF SetMemoryResolver, SessionInv, TypeOK, HoldsItsOwn, TurnsSoFar, SessionsApart
<1>4. ASSUME NEW c \in Chats, Rest(c) PROVE SessionInv'
  BY <1>4, RestKeeps
<1>5. ASSUME NEW c \in Chats, ResolveMemory(c) \/ AgentReads(c) \/ AddQuestion(c) \/ AddAnswer(c) PROVE SessionInv'
  BY <1>5, ResolveKeeps, ReadKeeps, AddKeeps
<1> QED BY <1>1, <1>2, <1>3, <1>4, <1>5 DEF Next, Rest

\* Whatever requests run at a time and whatever the application registers
\* meanwhile, the turns of a session are in its own memory, its requests saw
\* no others, and only requests that were given no memory share the agent's.
THEOREM NoLeak == Spec => []SessionsApart
<1>1. SessionInv => SessionsApart
  BY DEF SessionInv
<1> QED BY <1>1, SessionInit, SessionStep, PTL DEF Spec

-----------------------------------------------------------------------------
(* ApiRoutes.  A request is answered by what the table held when it was    *)
(* looked at, which is the beginning of what it holds later.  The          *)
(* operators take the table and the request q.                             *)

Fit(table, q, i) == table[i].method = q.method /\ Rts!MatchPath(q.path, table[i].pattern).ok
FitsUpTo(table, q, n) == {i \in 1..n : Fit(table, q, i)}

IsChat(q) == q.method = "POST" /\ q.path = Rts!ChatPath

Plainly(what) == Rts!Outcome(what, 0, <<>>, <<>>)

\* The answer that needs no custom route.
BuiltIn(q) ==
  Plainly(IF q.method \notin {"GET", "HEAD"} \/ q.path \notin {Rts!ModelsPath, Rts!HealthzPath} THEN "notFound"
          ELSE IF q.path = Rts!ModelsPath /\ ~q.key THEN "unauthorized" ELSE "builtin")

\* The answer by route i.
ByRoute(table, q, i) ==
  Rts!Outcome("handled", i, Rts!MatchPath(q.path, table[i].pattern).params, Rts!ParseQuery(q.query))

(* o answers q by the first n routes.                                      *)
Decided(table, q, o, n) ==
  IF IsChat(q) THEN o = Plainly(IF q.key THEN "builtin" ELSE "unauthorized")
  ELSE IF q.method \notin Rts!Dispatched \/ FitsUpTo(table, q, n) = {} THEN o = BuiltIn(q)
  ELSE IF ~q.key THEN o = Plainly("unauthorized")
  ELSE \E i \in FitsUpTo(table, q, n) : (\A k \in FitsUpTo(table, q, n) : i <= k) /\ o = ByRoute(table, q, i)

(* The copy is what the table began with, and both answers were given by   *)
(* it, the first by no more of it than the second.                         *)
Copied == Len(snapshot) <= Len(routes) /\ \A i \in DOMAIN snapshot : snapshot[i] = routes[i]
Earlier(n) == first # None => \E m \in 0..n : Decided(routes, request, first, m)

RouteInv ==
  /\ Rts!TypeOK /\ snapshot \in Seq(Routes) /\ Copied
  /\ where = "idle" => first = None
  /\ where # "idle" => request \in Asked /\ known <= Len(routes)
  /\ where = "received" => Earlier(Len(routes))
  /\ where = "routing" => /\ ~IsChat(request) /\ request.method \in Rts!Dispatched
                          /\ known <= Len(snapshot) /\ Earlier(Len(snapshot))
  /\ where = "ended" => \E n \in known..Len(routes) : Decided(routes, request, routed, n) /\ Earlier(n)

LEMMA RouteInit == Rts!Init => RouteInv
BY ServersAssumption DEF Rts!Init, RouteInv, Rts!TypeOK, Copied, Earlier, Rts!Nowhere, Rts!Outcome

\* More routes behind leave an answer what it was.
LEMMA DecidedStays ==
  ASSUME NEW table \in Seq(Routes), NEW rt, NEW q, NEW n \in 0..Len(table), NEW o
  PROVE  Decided(table, q, o, n) <=> Decided(Append(table, rt), q, o, n)
<1> DEFINE longer == Append(table, rt)
<1>1. \A i \in 1..n : longer[i] = table[i]
  OBVIOUS
<1> HIDE DEF longer
<1>2. FitsUpTo(longer, q, n) = FitsUpTo(table, q, n)
  BY <1>1 DEF FitsUpTo, Fit
<1>3. \A i \in FitsUpTo(table, q, n) : ByRoute(longer, q, i) = ByRoute(table, q, i)
  BY <1>1 DEF FitsUpTo, ByRoute
<1>4. Decided(table, q, o, n) <=> Decided(longer, q, o, n)
  BY <1>2, <1>3 DEF Decided
<1> QED BY <1>4 DEF longer

\* Two answers of one request, the later by at least the routes of the other.
LEMMA AnswersAgree ==
  ASSUME NEW table, NEW q, NEW n \in Nat, NEW m \in 0..n, NEW o, NEW p,
         Decided(table, q, p, m), Decided(table, q, o, n)
  PROVE  /\ p.kind # "notFound" /\ p.kind # "builtin" => o = p
         /\ o.kind = "notFound" => p.kind = "notFound"
<1> DEFINE P == FitsUpTo(table, q, m)
           O == FitsUpTo(table, q, n)
<1>1. P \subseteq O
  BY DEF FitsUpTo
<1>2. ASSUME NEW i \in P, NEW j \in O, \A k \in P : i <= k, \A k \in O : j <= k
      PROVE  i = j
  BY <1>2 DEF FitsUpTo
<1> HIDE DEF P, O
<1>3. CASE IsChat(q) \/ q.method \notin Rts!Dispatched \/ O = {} \/ P = {}
  <2>1. P = {} \/ q.method \notin Rts!Dispatched \/ IsChat(q)
    BY <1>1, <1>3
  <2>2. p = BuiltIn(q) \/ (IsChat(q) /\ o = p)
    BY <2>1 DEF Decided, P
  <2>3. o.kind \in {"handled", "unauthorized"} \/ o = BuiltIn(q) \/ (IsChat(q) /\ o = p)
    BY DEF Decided, O, Plainly, ByRoute, Rts!Outcome
  <2>4. BuiltIn(q).kind = "unauthorized" => ~q.key /\ BuiltIn(q) = Plainly("unauthorized")
    BY DEF BuiltIn, Plainly, Rts!Outcome
  <2>5. ~q.key /\ ~IsChat(q) => o = BuiltIn(q) \/ o = Plainly("unauthorized")
    BY DEF Decided, O
  <2>6. BuiltIn(q).kind \in {"notFound", "builtin", "unauthorized"}
    BY DEF BuiltIn, Plainly, Rts!Outcome
  <2>7. IsChat(q) => o = p /\ o.kind \in {"builtin", "unauthorized"}
    BY DEF Decided, Plainly, Rts!Outcome
  <2> QED BY <2>2, <2>3, <2>4, <2>5, <2>6, <2>7
<1>4. CASE ~(IsChat(q) \/ q.method \notin Rts!Dispatched \/ O = {} \/ P = {})
  <2>1. CASE ~q.key
    <3>1. o = Plainly("unauthorized") /\ p = Plainly("unauthorized")
      BY <1>4, <2>1 DEF Decided, O, P
    <3> QED BY <3>1 DEF Plainly, Rts!Outcome
  <2>2. CASE q.key
    <3>1. PICK i \in P : (\A k \in P : i <= k) /\ p = ByRoute(table, q, i)
      BY <1>4, <2>2 DEF Decided, P
    <3>2. PICK j \in O : (\A k \in O : j <= k) /\ o = ByRoute(table, q, j)
      BY <1>4, <2>2 DEF Decided, O
    <3>3. i = j
      BY <3>1, <3>2, <1>2
    <3>4. o.kind = "handled"
      BY <3>2 DEF ByRoute, Rts!Outcome
    <3> QED BY <3>1, <3>2, <3>3, <3>4
  <2> QED BY <2>1, <2>2
<1> QED BY <1>3, <1>4

LEMMA RouteAdded == ASSUME RouteInv, NEW rt \in Routes, Rts!AddRoute(rt) PROVE RouteInv'
<1>1. routes' = Append(routes, rt) /\ Len(routes) < MaxRoutes
      /\ UNCHANGED <<request, where, snapshot, routed, known, first>>
  BY DEF Rts!AddRoute
<1>2. /\ routes' \in Seq(Routes) /\ Len(routes') = Len(routes) + 1
      /\ \A i \in 1..Len(routes) : routes'[i] = routes[i]
      /\ Len(routes) \in Nat
  BY <1>1 DEF RouteInv, Rts!TypeOK
<1>3. \A n \in 0..Len(routes) : \A o : Decided(routes, request, o, n) => Decided(routes', request, o, n)
  BY <1>1, DecidedStays DEF RouteInv, Rts!TypeOK
<1>4. ASSUME NEW n \in 0..Len(routes), NEW k \in n..Len(routes'), Earlier(n)
      PROVE  first # None => \E m \in 0..k : Decided(routes', request, first, m)
  <2>1. \A m \in 0..n : m \in 0..k /\ m \in 0..Len(routes)
    BY <1>2
  <2> QED BY <1>4, <1>3, <2>1 DEF Earlier
<1>5. Rts!TypeOK' /\ snapshot' \in Seq(Routes) /\ Copied'
  BY <1>1, <1>2, ServersAssumption DEF RouteInv, Rts!TypeOK, Copied
<1>6. (where = "received" => Earlier(Len(routes)))'
  <2>1. Len(routes) \in 0..Len(routes) /\ Len(routes') \in Len(routes)..Len(routes')
    BY <1>2
  <2> QED BY <2>1, <1>1, <1>4 DEF RouteInv, Earlier
<1>7. (where = "routing" => ~IsChat(request) /\ request.method \in Rts!Dispatched /\ known <= Len(snapshot) /\ Earlier(Len(snapshot)))'
  <2>1. Len(snapshot) \in 0..Len(routes) /\ Len(snapshot) \in Len(snapshot)..Len(routes')
    BY <1>2 DEF RouteInv, Copied
  <2> QED BY <2>1, <1>1, <1>4 DEF RouteInv, Earlier
<1>8. (where = "ended" => \E n \in known..Len(routes) : Decided(routes, request, routed, n) /\ Earlier(n))'
  <2> SUFFICES ASSUME where = "ended" PROVE (\E n \in known..Len(routes) : Decided(routes, request, routed, n) /\ Earlier(n))'
    BY <1>1
  <2>1. PICK n \in known..Len(routes) : Decided(routes, request, routed, n) /\ Earlier(n)
    BY DEF RouteInv
  <2>2. n \in known..Len(routes') /\ n \in 0..Len(routes) /\ n \in n..Len(routes')
    BY <1>2 DEF RouteInv, Rts!TypeOK
  <2>3. Decided(routes', request', routed', n)
    BY <1>1, <1>3, <2>1, <2>2
  <2>4. first' # None => \E m \in 0..n : Decided(routes', request', first', m)
    BY <1>1, <1>4, <2>1, <2>2
  <2>5. known' = known
    BY <1>1
  <2> QED BY <2>2, <2>3, <2>4, <2>5 DEF Earlier
<1>9. (where # "idle" => request \in Asked /\ known <= Len(routes))'
  BY <1>1, <1>2 DEF RouteInv, Rts!TypeOK
<1> QED BY <1>1, <1>5, <1>6, <1>7, <1>8, <1>9 DEF RouteInv

\* A request comes, again or not, and gets its copy.
LEMMA RouteTaken ==
  ASSUME RouteInv, (\E q \in Asked : Rts!Receive(q)) \/ Rts!ReceiveAgain \/ Rts!TakeSnapshot
  PROVE  RouteInv'
<1>1. CASE \E q \in Asked : Rts!Receive(q)
  BY <1>1, ServersAssumption DEF Rts!Receive, RouteInv, Rts!TypeOK, Copied, Earlier
<1>2. CASE Rts!ReceiveAgain
  <2>1. Rts!TypeOK' /\ snapshot' \in Seq(Routes) /\ Copied' /\ where' = "received"
    BY <1>2, ServersAssumption DEF Rts!ReceiveAgain, RouteInv, Rts!TypeOK, Copied, Rts!Nowhere, Rts!Outcome
  <2>2. PICK n \in 0..Len(routes) : Decided(routes, request, routed, n)
    BY <1>2 DEF Rts!ReceiveAgain, RouteInv, Rts!TypeOK
  <2>3. Earlier(Len(routes))'
    BY <1>2, <2>2 DEF Rts!ReceiveAgain, Earlier
  <2>4. (request \in Asked /\ known <= Len(routes))'
    BY <1>2 DEF Rts!ReceiveAgain, RouteInv, Rts!TypeOK
  <2> QED BY <2>1, <2>3, <2>4 DEF RouteInv
<1>3. CASE Rts!TakeSnapshot
  <2>1. snapshot' = routes /\ where' = "routing" /\ UNCHANGED <<routes, request, routed, known, first>>
        /\ where = "received" /\ ~IsChat(request) /\ request.method \in Rts!Dispatched
    BY <1>3 DEF Rts!TakeSnapshot, IsChat
  <2> QED BY <2>1 DEF RouteInv, Rts!TypeOK, Copied, Earlier
<1> QED BY <1>1, <1>2, <1>3

LEMMA RouteEnds ==
  ASSUME RouteInv, Rts!PostChat \/ Rts!Handle \/ Rts!Unauthorized \/ Rts!Unhandled
  PROVE  RouteInv'
<1>1. UNCHANGED <<routes, request, snapshot, known, first>> /\ where' = "ended"
  BY DEF Rts!PostChat, Rts!Handle, Rts!Unauthorized, Rts!Unhandled, Rts!End
<1> DEFINE matching == FitsUpTo(routes, request, Len(snapshot))
<1>2. Rts!Matching = matching /\ matching \subseteq Nat /\ Len(snapshot) \in 0..Len(routes)
      /\ \A i \in matching : i \in DOMAIN snapshot /\ i \in 1..MaxRoutes /\ snapshot[i] = routes[i]
  BY ServersAssumption DEF Rts!Matching, FitsUpTo, Fit, RouteInv, Rts!TypeOK, Copied
<1> HIDE DEF matching
<1>3. CASE where = "received" /\ (Rts!PostChat \/ Rts!Unhandled)
  <2>1. CASE Rts!PostChat
    <3>1. IsChat(request) /\ routed' = Plainly(IF request.key THEN "builtin" ELSE "unauthorized")
      BY <2>1 DEF Rts!PostChat, Rts!End, Rts!AuthOk, IsChat, Plainly
    <3>2. Decided(routes, request, routed', Len(routes))
      BY <3>1 DEF Decided
    <3>3. Rts!TypeOK'
      BY <1>1, <3>1, ServersAssumption DEF RouteInv, Rts!TypeOK, Plainly, Rts!Outcome
    <3>4. Len(routes) \in 0..Len(routes)
      BY DEF RouteInv, Rts!TypeOK
    <3> QED BY <1>1, <1>3, <3>2, <3>3, <3>4 DEF RouteInv, Copied, Earlier
  <2>2. CASE Rts!Unhandled
    <3>1. request.method \notin Rts!Dispatched /\ routed' = BuiltIn(request)
      BY <2>2, <1>3 DEF Rts!Unhandled, Rts!End, Rts!AuthOk, BuiltIn, Plainly
    <3>2. Decided(routes, request, routed', Len(routes))
      BY <3>1 DEF Decided, IsChat, Rts!Dispatched
    <3>3. Rts!TypeOK'
      BY <1>1, <3>1, ServersAssumption DEF RouteInv, Rts!TypeOK, BuiltIn, Plainly, Rts!Outcome
    <3>4. Len(routes) \in 0..Len(routes)
      BY DEF RouteInv, Rts!TypeOK
    <3> QED BY <1>1, <1>3, <3>2, <3>3, <3>4 DEF RouteInv, Copied, Earlier
  <2> QED BY <1>3, <2>1, <2>2
<1>4. CASE where = "routing" /\ (Rts!Handle \/ Rts!Unauthorized \/ Rts!Unhandled)
  <2>1. Decided(routes, request, routed', Len(snapshot)) /\ routed'.kind \in {"handled", "builtin", "unauthorized", "notFound"}
        /\ routed'.route \in 0..MaxRoutes
    <3>1. CASE Rts!Handle
      <4>1. PICK i \in matching : \A k \in matching : i <= k
        BY <3>1, <1>2, Least DEF Rts!Handle
      <4>2. Rts!Min(matching) = i
        BY <4>1, <1>2 DEF Rts!Min
      <4>3. routed' = ByRoute(routes, request, i)
        BY <3>1, <1>2, <4>2 DEF Rts!Handle, Rts!End, ByRoute
      <4>4. request.key
        BY <3>1 DEF Rts!Handle, Rts!AuthOk
      <4> QED BY <1>2, <1>4, <4>1, <4>3, <4>4 DEF Decided, matching, ByRoute, Rts!Outcome, RouteInv
    <3>2. CASE Rts!Unauthorized
      BY <3>2, <1>2, <1>4, ServersAssumption
         DEF Rts!Unauthorized, Rts!End, Rts!AuthOk, Decided, matching, Plainly, Rts!Outcome, RouteInv
    <3>3. CASE Rts!Unhandled
      <4>1. routed' = BuiltIn(request) /\ matching = {}
        BY <3>3, <1>2, <1>4 DEF Rts!Unhandled, Rts!End, Rts!AuthOk, BuiltIn, Plainly
      <4>2. Decided(routes, request, routed', Len(snapshot))
        BY <4>1, <1>4 DEF Decided, matching, RouteInv
      <4> QED BY <4>1, <4>2, ServersAssumption DEF BuiltIn, Plainly, Rts!Outcome
    <3> QED BY <1>4, <3>1, <3>2, <3>3
  <2>2. Rts!TypeOK'
    BY <1>1, <2>1 DEF RouteInv, Rts!TypeOK
  <2> QED BY <1>1, <1>2, <1>4, <2>1, <2>2 DEF RouteInv, Copied, Earlier
<1> QED BY <1>3, <1>4 DEF Rts!PostChat, Rts!Handle, Rts!Unauthorized, Rts!Unhandled

LEMMA RouteStep == RouteInv /\ Rts!Next => RouteInv'
BY RouteAdded, RouteTaken, RouteEnds DEF Rts!Next

LEMMA RouteHolds == RouteInv => Rts!RoutesStay
<1> SUFFICES ASSUME RouteInv, where = "ended", first # None
             PROVE  /\ first.kind # "notFound" /\ first.kind # "builtin" => routed = first
                    /\ routed.kind = "notFound" => first.kind = "notFound"
  BY DEF Rts!RoutesStay
<1>1. PICK n \in 0..Len(routes) : Decided(routes, request, routed, n) /\ Earlier(n)
  BY DEF RouteInv, Rts!TypeOK
<1>2. PICK m \in 0..n : Decided(routes, request, first, m)
  BY <1>1 DEF Earlier
<1>3. n \in Nat
  BY DEF RouteInv, Rts!TypeOK
<1> QED BY <1>1, <1>2, <1>3, AnswersAgree

-----------------------------------------------------------------------------
(* Every variable keeps its type.  Of a request: After comes once for each *)
(* run of its stream handler, or once for an answer that is no stream, so  *)
(* that neither is counted beyond MaxRuns.                                 *)

FiredAtMost(r, n) == \A m \in Managers : after[r][m] <= n

Counted(r) ==
  /\ runs[r] <= MaxRuns /\ FiredAtMost(r, MaxRuns)
  /\ rpc[r] \in {"idle", "arrived", "before", "handling", "closing"} => runs[r] = 0 /\ FiredAtMost(r, 0)
  /\ rpc[r] = "provider" => FiredAtMost(r, runs[r])
  /\ rpc[r] \in {"streaming", "doneCalled", "streamed"} => runs[r] > 0 /\ FiredAtMost(r, runs[r] - 1)

CountInv ==
  /\ stopping \in BOOLEAN /\ kind \in [Requests -> Req!Kinds] /\ peer \in [Requests -> BOOLEAN]
  /\ \A r \in Requests : Counted(r)

LEMMA CountInit == Req!Init => CountInv
<1> SUFFICES ASSUME Req!Init PROVE CountInv
  OBVIOUS
<1>1. ASSUME NEW r \in Requests PROVE Counted(r)
  <2>1. rpc[r] = "idle" /\ runs[r] = 0 /\ \A m \in Managers : after[r][m] = 0
    BY DEF Req!Init
  <2> QED BY <2>1, ServersAssumption DEF Counted, FiredAtMost
<1> QED BY <1>1 DEF Req!Init, CountInv

\* Steps that fire nothing and run nothing.
LEMMA CountQuiet ==
  ASSUME RequestTypes, CountInv, NEW r \in Requests,
         \/ Req!PeerLeaves(r) \/ Req!Arrive(r) \/ Req!Rejected(r) \/ Req!TakeCallId(r) \/ Req!FireBefore(r)
         \/ Req!Answered(r) \/ Req!Escapes(r) \/ Req!BecomesStream(r) \/ Req!Dropped(r) \/ Req!HandlerStep(r)
  PROVE  CountInv'
<1> USE DEF Req!Goto, Req!Excused, Req!world, Req!events, Req!stream, Req!Terminate
<1>1. UNCHANGED <<stopping, kind, after, runs>>
  BY DEF Req!PeerLeaves, Req!Arrive, Req!Rejected, Req!TakeCallId, Req!FireBefore, Req!Answered, Req!Escapes,
         Req!BecomesStream, Req!Dropped, Req!HandlerStep, Req!HandlerDone, Req!HandlerReturns, Req!HandlerThrows,
         Req!HandlerTerminates, Req!ChatStreams, Req!ChatStreamEscapes
<1>2. peer' = peer \/ peer' = [peer EXCEPT ![r] = FALSE]
  BY DEF Req!PeerLeaves, Req!Arrive, Req!Rejected, Req!TakeCallId, Req!FireBefore, Req!Answered, Req!Escapes,
         Req!BecomesStream, Req!Dropped, Req!HandlerStep, Req!HandlerDone, Req!HandlerReturns, Req!HandlerThrows,
         Req!HandlerTerminates, Req!ChatStreams, Req!ChatStreamEscapes
<1>3. \/ rpc' = rpc
      \/ \E to \in {"arrived", "before", "handling", "closing", "provider", "doneCalled", "streamed", "ended", "terminated"} :
           /\ rpc' = [rpc EXCEPT ![r] = to]
           /\ to \in {"arrived", "before", "handling", "closing", "provider"} =>
                rpc[r] \in {"idle", "arrived", "before", "handling"}
           /\ to \in {"doneCalled", "streamed"} => rpc[r] \in {"streaming", "doneCalled"}
  BY DEF Req!PeerLeaves, Req!Arrive, Req!Rejected, Req!TakeCallId, Req!FireBefore, Req!Answered, Req!Escapes,
         Req!BecomesStream, Req!Dropped, Req!HandlerStep, Req!HandlerDone, Req!HandlerReturns, Req!HandlerThrows,
         Req!HandlerTerminates, Req!ChatStreams, Req!ChatStreamEscapes
<1>4. ASSUME NEW q \in Requests PROVE Counted(q)'
  BY <1>1, <1>3 DEF CountInv, RequestTypes, Counted, FiredAtMost
<1>5. peer' \in [Requests -> BOOLEAN]
  BY <1>2 DEF CountInv
<1> QED BY <1>1, <1>4, <1>5 DEF CountInv

\* The stream handler runs once more, or After comes.
LEMMA CountFired ==
  ASSUME RequestTypes, CountInv, NEW r \in Requests,
         Req!ProviderCalled(r) \/ Req!AfterAnswer(r) \/ Req!AfterStream(r)
  PROVE  CountInv'
<1> USE DEF Req!Goto, Req!world, Req!events, Req!stream
<1>1. UNCHANGED <<stopping, kind, peer>>
  BY DEF Req!ProviderCalled, Req!AfterAnswer, Req!AfterStream
<1>2. CASE Req!ProviderCalled(r)
  <2>1. /\ rpc[r] = "provider" /\ rpc'[r] = "streaming" /\ runs[r] < MaxRuns /\ runs'[r] = runs[r] + 1 /\ after' = after
        /\ \A q \in Requests \ {r} : rpc'[q] = rpc[q] /\ runs'[q] = runs[q]
    BY <1>2 DEF Req!ProviderCalled, RequestTypes
  <2>2. Counted(r)'
    <3>1. runs[r] \in Nat /\ MaxRuns \in Nat /\ runs'[r] - 1 = runs[r] /\ runs'[r] <= MaxRuns /\ runs'[r] > 0
      <4>1. runs[r] \in Nat
        BY DEF RequestTypes
      <4>2. MaxRuns \in Nat
        BY ServersAssumption
      <4> QED BY <2>1, <4>1, <4>2
    <3> QED BY <2>1, <3>1 DEF CountInv, Counted, FiredAtMost
  <2>3. ASSUME NEW q \in Requests \ {r} PROVE Counted(q)'
    BY <2>1 DEF CountInv, Counted, FiredAtMost
  <2> QED BY <1>1, <2>2, <2>3 DEF CountInv
<1>3. CASE Req!AfterAnswer(r) \/ Req!AfterStream(r)
  <2>1. /\ runs' = runs
        /\ rpc[r] \in {"closing", "streamed"}
        /\ \E to \in {"provider", "ended"} : rpc' = [rpc EXCEPT ![r] = to] /\ (to = "provider" => rpc[r] = "streamed")
        /\ after' = IF hooks = NoHooks THEN after ELSE [after EXCEPT ![r][hooks] = @ + 1]
    BY <1>3 DEF Req!AfterAnswer, Req!AfterStream, Req!FireAfter
  <2>2. \A m \in Managers : after[r][m] + 1 <= MaxRuns /\ (rpc[r] = "streamed" => after[r][m] + 1 <= runs[r])
    BY <2>1, ServersAssumption DEF CountInv, RequestTypes, Counted, FiredAtMost
  <2>3. /\ \A m \in Managers : after'[r][m] \in Nat /\ after'[r][m] <= after[r][m] + 1
        /\ \A q \in Requests \ {r} : after'[q] = after[q]
    BY <2>1 DEF RequestTypes
  <2>4. ASSUME NEW q \in Requests PROVE Counted(q)'
    <3>1. CASE q = r
      <4>1. \A m \in Managers : after'[q][m] <= MaxRuns /\ (rpc[r] = "streamed" => after'[q][m] <= runs[r])
        BY <3>1, <2>2, <2>3, ServersAssumption DEF RequestTypes
      <4>2. rpc'[r] = "ended" \/ (rpc'[r] = "provider" /\ rpc[r] = "streamed")
        BY <2>1 DEF RequestTypes
      <4> QED BY <3>1, <4>1, <4>2, <2>1 DEF CountInv, Counted, FiredAtMost
    <3>2. CASE q # r
      BY <3>2, <2>1, <2>3 DEF CountInv, RequestTypes, Counted, FiredAtMost
    <3> QED BY <3>1, <3>2
  <2> QED BY <1>1, <2>4 DEF CountInv
<1> QED BY <1>2, <1>3

LEMMA CountStep == RequestTypes /\ CountInv /\ Req!Next => CountInv'
<1> SUFFICES ASSUME RequestTypes, CountInv, Req!Next PROVE CountInv'
  OBVIOUS
<1>1. CASE Req!StopServer \/ \E m \in Managers \cup {NoHooks} : Req!SetHooks(m)
  <2>1. UNCHANGED <<rpc, kind, after, runs, peer>> /\ stopping' \in BOOLEAN
    BY <1>1 DEF Req!StopServer, Req!SetHooks, Req!events, Req!stream, CountInv
  <2> QED BY <2>1 DEF CountInv, Counted, FiredAtMost
<1> QED BY <1>1, CountQuiet, CountFired DEF Req!Next, Req!RequestStep

LEMMA RequestTyped == RequestInv /\ CountInv => Req!TypeOK
<1> SUFFICES ASSUME RequestInv, CountInv PROVE Req!TypeOK
  OBVIOUS
<1>1. RequestTypes
  BY DEF RequestInv
<1>2. runs \in [Requests -> 0..MaxRuns]
  BY <1>1, ServersAssumption DEF RequestTypes, CountInv, Counted
<1>3. after \in [Requests -> [Managers -> 0..MaxRuns]]
  <2>1. ASSUME NEW r \in Requests PROVE after[r] \in [Managers -> 0..MaxRuns]
    BY <1>1, ServersAssumption DEF RequestTypes, CountInv, Counted, FiredAtMost
  <2> QED BY <1>1, <2>1 DEF RequestTypes
<1> QED BY <1>1, <1>2, <1>3 DEF RequestTypes, CountInv, Req!TypeOK

-----------------------------------------------------------------------------
(* ChatExchange.  What is written at the end follows from what was told,   *)
(* and what is read from what is written.                                  *)

\* The frames of the events told so far.
Framed == [i \in DOMAIN told |-> Xch!Frame(told[i])]

Texted ==
  Xch!EncodeResponse([Xch!AssistantMessage(IF ending = "finished" THEN Xch!Output ELSE Xch!GaveUp) EXCEPT !.calls = made.calls],
                     Xch!FinishReason(ending, made))

\* The response, once there is one.
WrittenWell ==
  /\ ending \in {"finished", "gaveUp", "threw"} /\ (ending = "gaveUp" => by = "agent")
  /\ streams => /\ answer.status = 200
                /\ answer.frames = IF ending = "threw" THEN Append(Framed, Xch!ErrorFrame)
                                   ELSE Framed \o Xch!Closing(ending) \o <<Xch!SseChunk(<<>>, "stop"), Xch!DoneFrame>>
  /\ ~streams => IF ending = "threw" THEN answer.status = 500
                 ELSE answer.status = 200 /\ answer.body = Texted

Encoded == Xch!AIClientPayload([messages |-> sent, opts |-> options, tools |-> {}], streams)
Given == LET req == Xch!DecodeRequest(Encoded)
         IN  IF by = "llm" THEN [messages |-> req.messages, options |-> req.options]
             ELSE [messages |-> <<Xch!Question(req.messages)>>, options |-> req.options \cap Xch!AgentOptions]

Replied == IF answer.status # 200 THEN None
           ELSE IF streams THEN Xch!ReadFrames(answer.frames) ELSE Xch!ReadBody(answer.body)

ExchangeInv ==
  /\ Xch!TypeOK
  /\ by \in {"llm", "agent"} /\ streams \in BOOLEAN /\ options \in {{}, {"temperature", "top_k", "stop"}}
  /\ sent \in Seq(Sendable)
  /\ answer = [status |-> answer.status, body |-> answer.body, frames |-> answer.frames]
  /\ defect # None => xpc # "running"
  /\ xpc = "idle" => defect = None
  /\ xpc # "idle" /\ defect = None => json = Encoded
  /\ asked # None => asked = Given
  /\ xpc \in {"idle", "posted"} => asked = None
  /\ xpc \in {"idle", "posted"} \/ defect # None => told = <<>>
  /\ \A i \in DOMAIN told : told[i].type \in Xch!Kinds
  /\ xpc \in {"idle", "posted"} => answer = Xch!NoAnswer
  /\ xpc = "running" => answer.frames = IF streams THEN Framed ELSE <<>>
  /\ xpc \in {"written", "ended"} => IF defect = None THEN WrittenWell ELSE ending = None /\ answer.status # 200
  /\ xpc \notin {"written", "ended"} => ending = None
  /\ made # Xch!NoResult => by = "llm"
  /\ xpc = "ended" => read = Replied

LEMMA ExchangeInit == Xch!Init => ExchangeInv
<1> SUFFICES ASSUME Xch!Init PROVE ExchangeInv
  OBVIOUS
<1>1. sent \in Seq(Sendable)
  <2>1. PICK n \in 1..MaxMessages : sent \in [1..n -> Sendable]
    BY DEF Xch!Init
  <2> QED BY <2>1
<1> HIDE DEF Sendable
<1> QED BY <1>1, ServersAssumption DEF Xch!Init, ExchangeInv, Xch!TypeOK, Xch!NoAnswer, Xch!NoResult, Xch!Results, Xch!Defects

LEMMA ExchangeStep == ExchangeInv /\ [Xch!Next]_chatVars => ExchangeInv'
<1> SUFFICES ASSUME ExchangeInv, [Xch!Next]_chatVars PROVE ExchangeInv'
  OBVIOUS
<1> HIDE DEF Sendable
<1> USE DEF ExchangeInv, Xch!TypeOK, Xch!Go, Xch!caller, Xch!Kinds
<1>0. None \notin Xch!Defects
  BY ServersAssumption
<1>t. ASSUME UNCHANGED <<by, told>> PROVE Framed' = Framed /\ Xch!Output' = Xch!Output
  BY <1>t DEF Framed, Xch!Frame, Xch!Output, Xch!SelectLastInSeq
<1>w. ASSUME UNCHANGED <<by, streams, told, ending, made, answer>> PROVE WrittenWell' <=> WrittenWell
  <2>1. Framed' = Framed /\ Xch!Output' = Xch!Output
    BY <1>t, <1>w
  <2> QED BY <1>w, <2>1 DEF WrittenWell, Xch!Closing, Texted, Xch!FinishReason
<1>1. CASE UNCHANGED chatVars
  <2>1. UNCHANGED <<by, sent, options, streams, xpc, defect, json, asked, told, ending, made, answer, read>>
    BY <1>1 DEF chatVars
  <2>2. Encoded' = Encoded /\ Given' = Given /\ Replied' = Replied
    BY <2>1 DEF Encoded, Given, Replied
  <2> QED BY <2>1, <2>2, <1>t, <1>w
<1>2. CASE Xch!Post
  BY <1>2 DEF Xch!Post, Encoded
<1>3. CASE \E d \in Xch!Defects : Xch!PostDefect(d)
  BY <1>3, <1>0 DEF Xch!PostDefect
<1>4. CASE Xch!Refuse
  BY <1>4 DEF Xch!Refuse, Xch!Reply
<1>5. CASE Xch!Give
  BY <1>5 DEF Xch!Give, Xch!NoAnswer, Framed, Encoded, Given
<1>6. CASE \E k \in {"delta"} \cup Xch!Steps, t \in {<<>>, <<"x">>, <<"y">>} : Xch!Tell(k, t)
  <2>1. PICK k \in {"delta"} \cup Xch!Steps, t \in {<<>>, <<"x">>, <<"y">>} : Xch!Tell(k, t)
    BY <1>6
  <2> DEFINE ev == [type |-> k, text |-> t]
  <2>2. /\ xpc = "running" /\ xpc' = "running" /\ UNCHANGED <<by, sent, options, streams, defect, json, asked, ending, made, read>>
        /\ told' = Append(told, ev)
        /\ answer' = IF streams THEN [answer EXCEPT !.status = 200, !.frames = Append(@, Xch!Frame(ev))] ELSE answer
    BY <2>1 DEF Xch!Tell, Xch!Say
  <2>3. ev \in [type : {"delta"} \cup Xch!Steps, text : {<<>>, <<"x">>, <<"y">>}]
    OBVIOUS
  <2> HIDE DEF ev
  <2>4. Framed' = Append(Framed, Xch!Frame(ev))
    BY <2>2, <2>3 DEF Framed, Xch!Frame
  <2>5. Xch!TypeOK' /\ \A i \in DOMAIN told' : told'[i].type \in Xch!Kinds'
    <3>1. ev.type \in Xch!Kinds /\ Xch!Kinds' = Xch!Kinds
      BY <2>1, <2>2 DEF Xch!Tell, ev, Xch!Kinds
    <3>2. answer'.status \in {0, 200, 400, 500}
      BY <2>2
    <3> DEFINE E == [type : {"delta"} \cup Xch!Steps, text : {<<>>, <<"x">>, <<"y">>}]
    <3>3. told \in Seq(E) /\ ev \in E
      BY <2>3
    <3> HIDE DEF E
    <3>4. told' \in Seq(E) /\ \A i \in DOMAIN told' : told'[i] = ev \/ (i \in DOMAIN told /\ told'[i] = told[i])
      BY <2>2, <3>3
    <3>5. told' \in Seq([type : {"delta"} \cup Xch!Steps, text : {<<>>, <<"x">>, <<"y">>}])
      BY <3>4 DEF E
    <3>6. \A i \in DOMAIN told' : told'[i].type \in Xch!Kinds'
      BY <3>1, <3>4
    <3> HIDE DEF Xch!Kinds
    <3> QED BY <2>2, <3>2, <3>5, <3>6
  <2>6. /\ answer' = [status |-> answer'.status, body |-> answer'.body, frames |-> answer'.frames]
        /\ answer'.frames = IF streams THEN Framed' ELSE <<>>
    BY <2>2, <2>4
  <2>7. Encoded' = Encoded /\ Given' = Given
    BY <2>2 DEF Encoded, Given
  <2> HIDE DEF Xch!TypeOK, Xch!Kinds
  <2> QED BY <2>2, <2>5, <2>6, <2>7
<1>7. CASE \E how \in {"finished", "gaveUp"}, m \in Xch!Results : Xch!Finish(how, m)
  <2>1. PICK how \in {"finished", "gaveUp"}, m \in Xch!Results : Xch!Finish(how, m)
    BY <1>7
  <2> DEFINE closed == answer.frames \o Xch!Closing(how) \o <<Xch!SseChunk(<<>>, "stop"), Xch!DoneFrame>>
             told_all == Xch!EncodeResponse([Xch!AssistantMessage(IF how = "finished" THEN Xch!Output ELSE Xch!GaveUp) EXCEPT !.calls = m.calls],
                                            Xch!FinishReason(how, m))
  <2>2. /\ xpc = "running" /\ xpc' = "written" /\ ending' = how /\ made' = m
        /\ how = "gaveUp" => by = "agent"
        /\ m # Xch!NoResult => by = "llm"
        /\ UNCHANGED <<by, sent, options, streams, defect, json, asked, told, read>>
        /\ IF streams THEN answer' = [status |-> 200, body |-> None, frames |-> closed]
                      ELSE answer' = [status |-> 200, body |-> told_all, frames |-> <<>>]
    BY <2>1 DEF Xch!Finish, Xch!Result, Xch!Reply
  <2>3. Encoded' = Encoded /\ Given' = Given /\ Framed' = Framed /\ Xch!Output' = Xch!Output
    BY <2>2, <1>t DEF Encoded, Given
  <2>4. streams => closed = Framed' \o Xch!Closing(ending)' \o <<Xch!SseChunk(<<>>, "stop"), Xch!DoneFrame>>
    BY <2>2, <2>3 DEF Xch!Closing
  <2>5. told_all = Texted'
    BY <2>2, <2>3 DEF Texted, Xch!FinishReason
  <2> HIDE DEF closed, told_all
  <2>6. WrittenWell'
    <3>1. streams => (/\ answer.status = 200
                      /\ answer.frames = IF ending = "threw" THEN Append(Framed, Xch!ErrorFrame)
                           ELSE Framed \o Xch!Closing(ending) \o <<Xch!SseChunk(<<>>, "stop"), Xch!DoneFrame>>)'
      <4>1. streams => answer'.status = 200 /\ answer'.frames = closed
        BY <2>2
      <4>2. ending' # "threw"
        BY <2>2
      <4> QED BY <4>1, <4>2, <2>4
    <3>2. ~streams => (answer.status = 200 /\ answer.body = Texted)'
      BY <2>2, <2>5
    <3> QED BY <2>2, <3>1, <3>2 DEF WrittenWell
  <2> QED BY <2>2, <2>3, <2>6
<1>8. CASE Xch!Throw
  <2>1. /\ xpc = "running" /\ xpc' = "written" /\ ending' = "threw"
        /\ UNCHANGED <<by, sent, options, streams, defect, json, asked, told, made, read>>
        /\ IF streams THEN answer' = [status |-> 200, body |-> None, frames |-> Append(answer.frames, Xch!ErrorFrame)]
                      ELSE answer' = [status |-> 500, body |-> None, frames |-> <<>>]
    BY <1>8 DEF Xch!Throw, Xch!Reply
  <2>2. Encoded' = Encoded /\ Given' = Given /\ Framed' = Framed
    BY <2>1, <1>t DEF Encoded, Given
  <2>3. WrittenWell'
    BY <2>1, <2>2 DEF WrittenWell
  <2> QED BY <2>1, <2>2, <2>3
<1>9. CASE Xch!Read
  <2>1. /\ xpc = "written" /\ xpc' = "ended" /\ read' = Replied
        /\ UNCHANGED <<by, sent, options, streams, defect, json, asked, told, ending, made, answer>>
    BY <1>9 DEF Xch!Read, Replied
  <2>2. Encoded' = Encoded /\ Given' = Given /\ Replied' = Replied
    BY <2>1 DEF Encoded, Given, Replied
  <2> QED BY <2>1, <2>2, <1>w
<1> QED BY <1>1, <1>2, <1>3, <1>4, <1>5, <1>6, <1>7, <1>8, <1>9 DEF Xch!Next

\* The messages a client has, part by part.
APart(part) ==
  \/ \E t : part = Xch!TextPart(t)
  \/ \E u : part = Xch!UrlPart(u)
  \/ \E d, mime : part = Xch!Base64Part(d, mime) /\ mime # None
Said(m) == \A i \in DOMAIN m.parts : APart(m.parts[i])

LEMMA SendableSaid == \A m \in Sendable : Said(m)
<1>1. \A t, id : Codecs!UserMessage(t).parts = <<>> /\ Codecs!ToolMessage(t, id).parts = <<>>
                 /\ Codecs!AssistantMessage(t).parts = <<>>
  BY DEF Codecs!UserMessage, Codecs!ToolMessage, Codecs!AssistantMessage
<1>2. /\ \A t : APart(Codecs!TextPart(t))
      /\ \A u : APart(Codecs!UrlPart(u))
      /\ \A d, mime : mime # None => APart(Codecs!Base64Part(d, mime))
  <2>1. /\ \A t : Codecs!TextPart(t) = Xch!TextPart(t)
        /\ \A u : Codecs!UrlPart(u) = Xch!UrlPart(u)
        /\ \A d, mime : Codecs!Base64Part(d, mime) = Xch!Base64Part(d, mime)
    BY DEF Codecs!TextPart, Codecs!UrlPart, Codecs!Base64Part, Codecs!NoPart,
           Xch!TextPart, Xch!UrlPart, Xch!Base64Part, Xch!NoPart
  <2> QED BY <2>1 DEF APart
<1>3. "jpeg" # None
  BY ServersAssumption
<1> DEFINE user == Codecs!UserMessage(<<>>)
           call == [Codecs!AssistantMessage(<<"c">>) EXCEPT !.calls = <<[id |-> "1", name |-> "tool", arguments |-> "{}"]>>]
           two == <<Codecs!TextPart(<<"a">>), Codecs!Base64Part("data", "jpeg")>>
           urls == <<Codecs!UrlPart(Codecs!HttpUrl("url")), Codecs!UrlPart(Codecs!DataUrl("gif", "data"))>>
           cut == <<Codecs!UrlPart([Codecs!DataUrl("gif", "data") EXCEPT !.comma = FALSE])>>
<1>4. Said(user) /\ Said(Codecs!UserMessage(<<"a">>)) /\ Said(Codecs!ToolMessage(<<"b">>, "1"))
  BY <1>1 DEF Said
<1>5. Said(call)
  BY DEF Said, Codecs!AssistantMessage
<1>6. ASSUME NEW parts, \A i \in DOMAIN parts : APart(parts[i]) PROVE Said([user EXCEPT !.parts = parts])
  BY <1>6 DEF Said, Codecs!UserMessage, Codecs!AssistantMessage
<1>7. (\A i \in DOMAIN two : APart(two[i])) /\ (\A i \in DOMAIN urls : APart(urls[i])) /\ (\A i \in DOMAIN cut : APart(cut[i]))
  BY <1>2, <1>3
<1>8. Said([user EXCEPT !.parts = two]) /\ Said([user EXCEPT !.parts = urls]) /\ Said([user EXCEPT !.parts = cut])
  BY <1>6, <1>7
<1> QED BY <1>4, <1>5, <1>8 DEF Sendable

\* A part comes back as what it shows.
LEMMA PartsReturn ==
  ASSUME NEW m, Said(m), NEW i \in DOMAIN m.parts
  PROVE  LET item == Xch!OpenAIItem(m.parts[i])
         IN  /\ Xch!OpenAIPart(item) = Xch!Said(m.parts[i])
             /\ Xch!Shown(item) = IF m.parts[i].type = "text" THEN m.parts[i].text ELSE <<"image_url">>
<1> USE DEF Xch!NoPart, Xch!TextPart, Xch!UrlPart, Xch!Base64Part, Xch!OpenAIItem, Xch!OpenAIPart, Xch!Said, Xch!Shown,
            Xch!DataUrl, Xch!Inline
<1>1. CASE \E t : m.parts[i] = Xch!TextPart(t)
  BY <1>1
<1>2. CASE \E u : m.parts[i] = Xch!UrlPart(u)
  BY <1>2
<1>3. CASE \E d, mime : m.parts[i] = Xch!Base64Part(d, mime) /\ mime # None
  BY <1>3
<1> QED BY <1>1, <1>2, <1>3 DEF Said, APart

LEMMA MessageReturns ==
  ASSUME NEW m, Said(m)
  PROVE  Xch!Same(Xch!DecodeMessage(Xch!AIClientEncode(m)), m)
<1> DEFINE j == Xch!AIClientEncode(m)
           w == Xch!DecodeMessage(j)
<1>1. /\ j = [role |-> m.role, content |-> Xch!OpenAIContent(m), id |-> m.id, calls |-> m.calls]
      /\ w.role = j.role /\ w.id = j.id /\ w.calls = j.calls
      /\ w.parts = Xch!MapSeq(Xch!ParseContentPart, j.content.items)
      /\ w.text = IF j.content.kind = "array" THEN Xch!FlattenContent(j.content.items) ELSE j.content.text
  BY DEF Xch!AIClientEncode, Xch!OpenAIEncode, Xch!DecodeMessage
<1> HIDE DEF j, w
<1>2. CASE m.parts = <<>>
  <2>1. j.content.items = m.parts /\ j.content.kind # "array" /\ j.content.text = m.text
    BY <1>1, <1>2 DEF Xch!OpenAIContent, Xch!StringOf, Xch!Absent
  <2>2. w.parts = Xch!MapSeq(Xch!Said, m.parts)
    BY <1>1, <1>2, <2>1 DEF Xch!MapSeq
  <2> QED BY <1>1, <1>2, <2>1, <2>2 DEF Xch!Same, Xch!MapSeq, w, j
<1>3. CASE m.parts # <<>>
  <2> DEFINE shown == [i \in DOMAIN m.parts |-> IF m.parts[i].type = "text" THEN m.parts[i].text ELSE <<"image_url">>]
  <2>1. j.content.items = [i \in DOMAIN m.parts |-> Xch!OpenAIItem(m.parts[i])] /\ j.content.kind = "array"
    BY <1>1, <1>3 DEF Xch!OpenAIContent, Xch!ArrayOf, Xch!MapSeq
  <2>2. w.parts = [i \in DOMAIN m.parts |-> Xch!Said(m.parts[i])]
    BY <1>1, <2>1, PartsReturn DEF Xch!MapSeq, Xch!ParseContentPart
  <2>3. Xch!MapSeq(Xch!Shown, j.content.items) = shown
    BY <2>1, PartsReturn DEF Xch!MapSeq
  <2>4. w.text = Xch!JoinLines(shown)
    BY <1>1, <2>1, <2>3 DEF Xch!FlattenContent
  <2>5. shown = Xch!MapSeq(LAMBDA p : IF p.type = "text" THEN p.text ELSE <<"image_url">>, m.parts)
    BY DEF Xch!MapSeq
  <2> HIDE DEF shown
  <2> QED BY <1>1, <1>3, <2>2, <2>4, <2>5 DEF Xch!Same, Xch!MapSeq, w, j
<1> QED BY <1>2, <1>3 DEF w, j

LEMMA SentIsMeant == ExchangeInv => Xch!RequestMeant
<1> SUFFICES ASSUME ExchangeInv, asked # None PROVE Xch!RequestMeant
  BY DEF Xch!RequestMeant
<1> HIDE DEF Sendable
<1> DEFINE messages == Xch!DecodeRequest(Encoded).messages
           back(m) == Xch!DecodeMessage(Xch!AIClientEncode(m))
<1>1. messages = [i \in DOMAIN sent |-> back(sent[i])] /\ Xch!DecodeRequest(Encoded).options = options
  BY DEF Xch!DecodeRequest, Encoded, Xch!AIClientPayload, Xch!MapSeq
<1>2. \A i \in DOMAIN sent : Xch!Same(back(sent[i]), sent[i]) /\ back(sent[i]).role = sent[i].role
  <2> SUFFICES ASSUME NEW i \in DOMAIN sent PROVE Xch!Same(back(sent[i]), sent[i]) /\ back(sent[i]).role = sent[i].role
    OBVIOUS
  <2>1. sent[i] \in Sendable
    BY DEF ExchangeInv
  <2>2. Xch!Same(back(sent[i]), sent[i])
    BY <2>1, SendableSaid, MessageReturns
  <2> QED BY <2>2 DEF Xch!Same
<1>3. Len(sent) \in Nat /\ DOMAIN sent = 1..Len(sent)
  BY DEF ExchangeInv
<1> HIDE DEF messages, back
<1>4. Len(messages) = Len(sent)
  BY <1>1, <1>3
<1>5. CASE by = "llm"
  <2>1. asked.messages = messages /\ asked.options = options
    BY <1>1, <1>5 DEF ExchangeInv, Given, messages
  <2> QED BY <1>1, <1>2, <1>4, <1>5, <2>1 DEF Xch!RequestMeant
<1>6. CASE by = "agent"
  <2> DEFINE users == {i \in DOMAIN sent : sent[i].role = "user"}
             asking == {i \in 1..Len(messages) : messages[i].role = "user"}
  <2>1. asked.messages = <<Xch!Question(messages)>> /\ asked.options = options \cap Xch!AgentOptions
    BY <1>1, <1>6 DEF ExchangeInv, Given, messages
  <2>2. asking = users
    BY <1>1, <1>2, <1>3, <1>4
  <2>3. Xch!Question(messages) = LET i == IF asking # {} THEN Xch!Max(asking) ELSE 0
                                IN  IF i = 0 THEN Xch!UserMessage(<<>>) ELSE messages[i]
    BY DEF Xch!Question, Xch!SelectLastInSeq
  <2>4. ASSUME NEW i \in users, \A k \in users : k <= i PROVE Xch!Question(messages) = messages[i]
    <3>1. i \in asking /\ (\A k \in asking : i >= k) /\ asking \subseteq Nat \ {0}
      BY <2>2, <2>4, <1>3
    <3> HIDE DEF asking
    <3>2. Xch!Max(asking) = i
      <4>1. \A x \in asking : (\A k \in asking : x >= k) => x = i
        <5> SUFFICES ASSUME NEW x \in asking, \A k \in asking : x >= k PROVE x = i
          OBVIOUS
        <5>1. x \in Nat /\ i \in Nat /\ x >= i /\ i >= x
          BY <3>1
        <5> QED BY <5>1
      <4> QED BY <3>1, <4>1 DEF Xch!Max
    <3>3. asking # {} /\ i # 0
      BY <3>1
    <3> DEFINE last == IF asking # {} THEN Xch!Max(asking) ELSE 0
    <3>4. Xch!Question(messages) = IF last = 0 THEN Xch!UserMessage(<<>>) ELSE messages[last]
      BY <2>3
    <3>5. last = i
      BY <3>2, <3>3
    <3> HIDE DEF last
    <3> QED BY <3>3, <3>4, <3>5
  <2>5. options \cap Xch!AgentOptions = options \ {"stop"}
    BY DEF ExchangeInv, Xch!AgentOptions
  <2>6. users = {} => Xch!Question(messages) = Xch!UserMessage(<<>>)
    BY <2>2, <2>3
  <2> HIDE DEF asking
  <2>7. ASSUME NEW i \in users, \A k \in users : k <= i PROVE Xch!Same(asked.messages[1], sent[i])
    BY <2>1, <2>4, <2>7, <1>1, <1>2
  <2> QED BY <1>6, <2>1, <2>5, <2>6, <2>7 DEF Xch!RequestMeant
<1> QED BY <1>5, <1>6 DEF ExchangeInv

-----------------------------------------------------------------------------
(* What a stream says: its frames say what the events told, and the frames *)
(* of its end say nothing.                                                 *)

Chars == {"x", "y"}
Frames == [kind : {"chunk", "[DONE]", "error"}, event : {None, "answer", "done", "delta"} \cup Xch!Steps,
           content : {None} \cup Seq(Chars), finish : {None, "stop"}]
Value(f) == IF f.kind = "chunk" /\ f.content # None THEN f.content ELSE <<>>
Values(fs) == [i \in DOMAIN fs |-> Value(fs[i])]
Ends(f) == f.kind = "chunk" /\ f.finish # None

LEMMA ValueIsText == \A f \in Frames : Value(f) \in Seq(Chars)
BY DEF Frames, Value

LEMMA QuietFrame ==
  ASSUME NEW fs \in Seq(Frames), NEW f \in Frames, Value(f) = <<>>
  PROVE  Append(fs, f) \in Seq(Frames) /\ Flat(Values(Append(fs, f))) = Flat(Values(fs))
<1>1. Values(fs) \in Seq(Seq(Chars))
  <2>1. \A i \in DOMAIN fs : fs[i] \in Frames
    OBVIOUS
  <2>2. \A i \in DOMAIN fs : Value(fs[i]) \in Seq(Chars)
    BY <2>1, ValueIsText
  <2> DEFINE S == Seq(Chars)
  <2>3. Values(fs) \in [1..Len(fs) -> S]
    BY <2>2 DEF Values
  <2> HIDE DEF S
  <2>4. Values(fs) \in Seq(S)
    BY <2>3
  <2> QED BY <2>4 DEF S
<1>2. Values(Append(fs, f)) = Append(Values(fs), <<>>)
  <2> HIDE DEF Frames
  <2>1. \A i \in 1..(Len(fs) + 1) : Append(fs, f)[i] = IF i <= Len(fs) THEN fs[i] ELSE f
    OBVIOUS
  <2>2. Values(Append(fs, f)) = [i \in 1..(Len(fs) + 1) |-> IF i <= Len(fs) THEN Value(fs[i]) ELSE <<>>]
    BY <2>1 DEF Values
  <2>3. Values(fs) = [i \in 1..Len(fs) |-> Value(fs[i])] /\ Len(Values(fs)) = Len(fs)
    BY <1>1 DEF Values
  <2> QED BY <1>1, <2>2, <2>3
<1>3. Flat(Append(Values(fs), <<>>)) = Flat(Values(fs)) \o <<>> /\ Flat(Values(fs)) \in Seq(Chars)
  <2>1. <<>> \in Seq(Chars)
    OBVIOUS
  <2> QED BY <1>1, <2>1, FlatAppend
<1> QED BY <1>2, <1>3

LEMMA FramedSays ==
  ASSUME ExchangeInv
  PROVE  /\ Framed \in Seq(Frames) /\ Len(Framed) = Len(told)
         /\ Flat(Values(Framed)) = Xch!Spoken(told) /\ Flat(Values(Framed)) \in Seq(Chars)
         /\ \A i \in DOMAIN Framed : ~Ends(Framed[i]) /\ Framed[i].finish = None
         /\ by = "agent" => \A i \in DOMAIN told : Framed[i].event = told[i].type
<1> DEFINE spoken == [i \in DOMAIN told |-> IF told[i].type \in {"delta", "thought"} THEN told[i].text ELSE <<>>]
<1>1. \A i \in DOMAIN told : /\ told[i].type \in Xch!Kinds /\ told[i].text \in {<<>>, <<"x">>, <<"y">>}
                             /\ told[i].text \in Seq(Chars)
  <2>1. \A i \in DOMAIN told : told[i].type \in Xch!Kinds /\ told[i].text \in {<<>>, <<"x">>, <<"y">>}
    <3> DEFINE E == [type : {"delta"} \cup Xch!Steps, text : {<<>>, <<"x">>, <<"y">>}]
    <3>1. told \in Seq(E)
      BY DEF ExchangeInv, Xch!TypeOK
    <3>2. \A e \in E : e.text \in {<<>>, <<"x">>, <<"y">>}
      OBVIOUS
    <3> HIDE DEF E
    <3>3. \A i \in DOMAIN told : told[i] \in E
      BY <3>1
    <3> QED BY <3>2, <3>3 DEF ExchangeInv
  <2>2. <<>> \in Seq(Chars) /\ <<"x">> \in Seq(Chars) /\ <<"y">> \in Seq(Chars)
    BY DEF Chars
  <2> QED BY <2>1, <2>2
<1>2. ASSUME NEW i \in DOMAIN told
      PROVE  LET f == Xch!Frame(told[i])
             IN  /\ f \in Frames /\ f.finish = None
                 /\ Value(f) = IF told[i].type \in {"delta", "thought"} THEN told[i].text ELSE <<>>
                 /\ by = "agent" => f.event = told[i].type
  <2>1. None \notin Seq(Chars)
    BY ServersAssumption DEF Chars
  <2>2. CASE by = "llm"
    <3>1. told[i].type = "delta"
      BY <1>1, <2>2 DEF Xch!Kinds
    <3>2. Xch!Frame(told[i]) = [kind |-> "chunk", event |-> None, content |-> IF told[i].text = <<>> THEN None ELSE told[i].text, finish |-> None]
      BY <2>2 DEF Xch!Frame, Xch!SseChunk, Xch!Chunk
    <3> QED BY <1>1, <2>1, <2>2, <3>1, <3>2 DEF Frames, Value
  <2>3. CASE by = "agent"
    <3>1. told[i].type \in Xch!Steps
      BY <1>1, <2>3 DEF Xch!Kinds
    <3>2. Xch!Frame(told[i]) = [kind |-> "chunk", event |-> told[i].type, finish |-> None,
                                content |-> IF told[i].type = "thought" /\ told[i].text # <<>> THEN told[i].text ELSE None]
      BY <2>3, <3>1 DEF Xch!Frame, Xch!AgentSseChunk, Xch!Chunk, Xch!Steps
    <3>3. told[i].type # "delta"
      BY <3>1 DEF Xch!Steps
    <3> QED BY <1>1, <2>1, <2>3, <3>1, <3>2, <3>3 DEF Frames, Value
  <2> QED BY <2>2, <2>3 DEF ExchangeInv
<1>3. DOMAIN told = 1..Len(told) /\ Len(told) \in Nat
  BY DEF ExchangeInv, Xch!TypeOK
<1> HIDE DEF Frames
<1>4. Framed \in Seq(Frames) /\ Len(Framed) = Len(told) /\ \A i \in DOMAIN told : Framed[i] = Xch!Frame(told[i])
  BY <1>2, <1>3 DEF Framed
<1>5. Values(Framed) = spoken
  BY <1>2, <1>3, <1>4 DEF Values
<1>6. spoken \in Seq(Seq(Chars))
  <2> DEFINE S == Seq(Chars)
  <2>1. spoken \in [1..Len(told) -> S]
    BY <1>1, <1>3
  <2> HIDE DEF S, spoken
  <2>2. spoken \in Seq(S)
    BY <2>1, <1>3
  <2> QED BY <2>2 DEF S
<1>7. Xch!Spoken(told) = Flat(spoken)
  BY DEF Xch!Spoken, Xch!FlattenSeq, Flat
<1>8. Flat(spoken) \in Seq(Chars)
  <2>1. <<>> \in Seq(Chars)
    OBVIOUS
  <2> HIDE DEF spoken
  <2> QED BY <1>6, <2>1, FlatAppend
<1> HIDE DEF spoken
<1>9. \A i \in DOMAIN Framed : ~Ends(Framed[i]) /\ Framed[i].finish = None
  BY <1>2, <1>3, <1>4 DEF Ends
<1> QED BY <1>2, <1>3, <1>4, <1>5, <1>7, <1>8, <1>9

(* fs are the frames of what was told, and some that say and end nothing.  *)
SaysSo(fs) ==
  /\ fs \in Seq(Frames) /\ Flat(Values(fs)) = Flat(Values(Framed))
  /\ Len(Framed) <= Len(fs) /\ \A i \in DOMAIN Framed : fs[i] = Framed[i]

LEMMA SaysMore ==
  ASSUME NEW fs, SaysSo(fs), Framed \in Seq(Frames), NEW f \in Frames, Value(f) = <<>>
  PROVE  /\ SaysSo(Append(fs, f)) /\ Len(Append(fs, f)) = Len(fs) + 1 /\ Append(fs, f)[Len(fs) + 1] = f
         /\ \A i \in DOMAIN fs : Append(fs, f)[i] = fs[i]
         /\ DOMAIN Append(fs, f) = 1..(Len(fs) + 1)
<1>1. Append(fs, f) \in Seq(Frames) /\ Flat(Values(Append(fs, f))) = Flat(Values(fs))
  BY QuietFrame DEF SaysSo
<1> HIDE DEF Frames
<1> QED BY <1>1 DEF SaysSo

\* Only the last but one of the frames of a stream that did not fail ends it,
\* and only the last is "[DONE]".
LEMMA StreamRead ==
  ASSUME NEW fs, SaysSo(fs), Framed \in Seq(Frames), \A i \in DOMAIN fs : ~Ends(fs[i]),
         answer.frames = Append(Append(fs, Xch!SseChunk(<<>>, "stop")), Xch!DoneFrame)
  PROVE  /\ SaysSo(answer.frames)
         /\ Xch!ReadFrames(answer.frames).finish = "stop" /\ Xch!Last(answer.frames) = Xch!DoneFrame
         /\ \E i \in DOMAIN answer.frames : answer.frames[i].finish = "stop"
<1> DEFINE stop == Xch!SseChunk(<<>>, "stop")
           n == Len(fs)
           g == answer.frames
<1>1. /\ stop = [kind |-> "chunk", event |-> None, content |-> None, finish |-> "stop"]
      /\ Xch!DoneFrame = [kind |-> "[DONE]", event |-> None, content |-> None, finish |-> None]
  BY DEF Xch!SseChunk, Xch!Chunk, Xch!DoneFrame
<1>2. /\ stop \in Frames /\ Xch!DoneFrame \in Frames /\ Value(stop) = <<>> /\ Value(Xch!DoneFrame) = <<>>
      /\ Ends(stop) /\ ~Ends(Xch!DoneFrame) /\ stop.finish = "stop"
  <2>1. None # "stop"
    BY ServersAssumption DEF Xch!Reasons
  <2> QED BY <1>1, <2>1 DEF Frames, Value, Ends
<1> HIDE DEF stop
<1>3. /\ SaysSo(Append(fs, stop)) /\ Len(Append(fs, stop)) = n + 1 /\ Append(fs, stop)[n + 1] = stop
      /\ \A i \in 1..n : Append(fs, stop)[i] = fs[i]
      /\ n \in Nat
  BY <1>2, SaysMore DEF SaysSo
<1>4. /\ SaysSo(g) /\ Len(g) = n + 2 /\ g[n + 2] = Xch!DoneFrame /\ g[n + 1] = stop
      /\ (\A i \in 1..n : g[i] = fs[i]) /\ DOMAIN g = 1..(n + 2)
  <2>1. g = Append(Append(fs, stop), Xch!DoneFrame)
    BY DEF stop
  <2> DEFINE h == Append(fs, stop)
  <2>2. SaysSo(h) /\ Len(h) = n + 1 /\ h[n + 1] = stop /\ (\A i \in 1..n : h[i] = fs[i]) /\ DOMAIN h = 1..(n + 1)
    BY <1>2, <1>3, SaysMore DEF SaysSo
  <2>h. g = Append(h, Xch!DoneFrame)
    BY <2>1
  <2> HIDE DEF h, g
  <2>3. /\ SaysSo(g) /\ Len(g) = Len(h) + 1 /\ g[Len(h) + 1] = Xch!DoneFrame
        /\ (\A i \in DOMAIN h : g[i] = h[i]) /\ DOMAIN g = 1..(Len(h) + 1)
    BY <1>2, <2>h, <2>2, SaysMore
  <2> QED BY <1>3, <2>2, <2>3
<1> HIDE DEF g, n
<1>5. {i \in 1..Len(g) : Ends(g[i])} = {n + 1}
  <2>1. n \in Nat /\ \A i \in 1..n : ~Ends(g[i])
    BY <1>3, <1>4 DEF n, SaysSo
  <2>2. Len(g) = n + 2 /\ Ends(g[n + 1]) /\ ~Ends(g[n + 2])
    BY <1>2, <1>4
  <2> HIDE DEF Ends
  <2>3. \A i \in 1..(n + 2) : i \in 1..n \/ i = n + 1 \/ i = n + 2
    BY <2>1
  <2>4. \A i \in 1..(n + 2) : Ends(g[i]) <=> i = n + 1
    BY <2>1, <2>2, <2>3
  <2>5. n + 1 \in 1..(n + 2)
    BY <2>1
  <2> QED BY <2>2, <2>4, <2>5
<1>6. Xch!ReadFrames(g).finish = "stop"
  <2> DEFINE ends == {i \in 1..Len(g) : Ends(g[i])}
             last == IF ends # {} THEN Xch!Max(ends) ELSE 0
  <2>1. Xch!ReadFrames(g).finish = IF last = 0 THEN "stop" ELSE g[last].finish
    BY DEF Xch!ReadFrames, Xch!SelectLastInSeq, Ends
  <2>2. Xch!Max({n + 1}) = n + 1
    BY <1>3 DEF Xch!Max
  <2>3. last = n + 1
    BY <1>5, <2>2
  <2> HIDE DEF last
  <2> QED BY <1>2, <1>4, <2>1, <2>3
<1>7. Xch!Last(g) = Xch!DoneFrame
  BY <1>4 DEF Xch!Last
<1>8. n + 1 \in DOMAIN g /\ g[n + 1].finish = "stop"
  BY <1>2, <1>3, <1>4
<1> QED BY <1>4, <1>6, <1>7, <1>8 DEF g

LEMMA MaxIsIn == ASSUME NEW n \in Nat, NEW I \in SUBSET (1..n), I # {} PROVE Xch!Max(I) \in I
<1>1. \E x \in I : \A y \in I : y <= x
  BY Greatest
<1> QED BY <1>1 DEF Xch!Max

(* What an answer says is text.                                            *)
LEMMA OutputIsText == ASSUME ExchangeInv PROVE Xch!Output \in Seq(Chars)
<1> DEFINE E == [type : {"delta"} \cup Xch!Steps, text : {<<>>, <<"x">>, <<"y">>}]
           S == Seq(Chars)
<1>1. told \in Seq(E) /\ Len(told) \in Nat
  BY DEF ExchangeInv, Xch!TypeOK
<1>2. \A e \in E : e.text \in S
  <2>1. <<>> \in S /\ <<"x">> \in S /\ <<"y">> \in S
    BY DEF Chars
  <2>2. \A e \in E : e.text \in {<<>>, <<"x">>, <<"y">>}
    OBVIOUS
  <2> QED BY <2>1, <2>2
<1>3. <<>> \in S
  OBVIOUS
<1> HIDE DEF E
<1>4. ASSUME NEW es \in Seq(E) PROVE Xch!Spoken(es) \in S
  <2> DEFINE v == [i \in DOMAIN es |-> IF es[i].type \in {"delta", "thought"} THEN es[i].text ELSE <<>>]
  <2>1. \A i \in DOMAIN es : v[i] \in S
    BY <1>2, <1>3
  <2>2. v \in Seq(S)
    <3> HIDE DEF S
    <3>1. DOMAIN es = 1..Len(es) /\ Len(es) \in Nat
      OBVIOUS
    <3>2. v \in [1..Len(es) -> S]
      BY <2>1, <3>1
    <3> HIDE DEF v
    <3> QED BY <3>1, <3>2
  <2>3. Xch!Spoken(es) = Flat(v)
    BY DEF Xch!Spoken, Xch!FlattenSeq, Flat
  <2> HIDE DEF v
  <2> QED BY <1>3, <2>2, <2>3, FlatAppend
<1> HIDE DEF S
<1> DEFINE steps == {k \in 1..Len(told) : told[k].type # "thought"}
           i == IF steps # {} THEN Xch!Max(steps) ELSE 0
<1>5. i \in 0..Len(told)
  <2>1. steps \in SUBSET (1..Len(told))
    OBVIOUS
  <2> HIDE DEF steps
  <2>2. steps # {} => Xch!Max(steps) \in steps
    BY <1>1, <2>1, MaxIsIn
  <2>3. \A k \in steps : k \in 1..Len(told)
    BY <2>1
  <2> HIDE DEF Xch!Max
  <2>4. CASE steps = {}
    BY <1>1, <2>4
  <2>5. CASE steps # {}
    <3>1. i = Xch!Max(steps) /\ Xch!Max(steps) \in 1..Len(told)
      BY <2>2, <2>3, <2>5
    <3> QED BY <1>1, <3>1
  <2> QED BY <2>4, <2>5
<1>6. Xch!Output = IF by = "llm" THEN Xch!Spoken(told) ELSE Xch!Spoken(SubSeq(told, i + 1, Len(told)))
  BY DEF Xch!Output, Xch!SelectLastInSeq
<1> HIDE DEF i
<1>7. SubSeq(told, i + 1, Len(told)) \in Seq(E)
  <2>1. i + 1 \in 1..(Len(told) + 1)
    BY <1>1, <1>5
  <2>2. \A k \in (i + 1)..Len(told) : told[k] \in E
    BY <1>1, <2>1
  <2> QED BY <1>1, <2>1, <2>2, SubSeqProperties
<1> QED BY <1>1, <1>4, <1>6, <1>7 DEF S

LEMMA ReadIsMeant == ExchangeInv => Xch!ReplyMeant
<1> SUFFICES ASSUME ExchangeInv, xpc = "ended" PROVE Xch!ReplyMeant
  BY DEF Xch!ReplyMeant
<1>0. /\ Framed \in Seq(Frames) /\ Len(Framed) = Len(told) /\ Len(told) \in Nat
      /\ DOMAIN told = 1..Len(told) /\ DOMAIN Framed = 1..Len(told)
      /\ Flat(Values(Framed)) = Xch!Spoken(told) /\ Flat(Values(Framed)) \in Seq(Chars)
      /\ (\A i \in DOMAIN Framed : ~Ends(Framed[i]) /\ Framed[i].finish = None)
      /\ by = "agent" => \A i \in DOMAIN told : Framed[i].event = told[i].type
  BY FramedSays DEF ExchangeInv, Xch!TypeOK, Framed
<1>r. \A fs : Xch!ReadFrames(fs) = [text |-> Flat(Values(fs)), calls |-> <<>>, finish |-> Xch!ReadFrames(fs).finish]
  BY DEF Xch!ReadFrames, Xch!MapSeq, Xch!FlattenSeq, Flat, Values, Value
<1>1. CASE defect # None
  BY <1>1 DEF ExchangeInv, Replied, Xch!ReplyMeant
<1>2. CASE defect = None /\ streams
  <2> DEFINE g == answer.frames
  <2>1. answer.status = 200 /\ read = Xch!ReadFrames(g) /\ WrittenWell
    BY <1>2 DEF ExchangeInv, Replied, WrittenWell
  <2>2. SaysSo(Framed)
    BY <1>0 DEF SaysSo
  <2>3. /\ SaysSo(g) /\ Xch!ReadFrames(g).finish = "stop"
        /\ (Xch!Last(g) = Xch!DoneFrame) = (ending # "threw")
        /\ ending # "threw" => \E i \in DOMAIN g : g[i].finish = "stop"
    <3>1. CASE ending = "threw"
      <4>1. g = Append(Framed, Xch!ErrorFrame)
        BY <1>2, <2>1, <3>1 DEF WrittenWell
      <4>2. /\ Xch!ErrorFrame \in Frames /\ Value(Xch!ErrorFrame) = <<>> /\ ~Ends(Xch!ErrorFrame)
            /\ Xch!ErrorFrame # Xch!DoneFrame
        BY DEF Xch!ErrorFrame, Xch!DoneFrame, Frames, Value, Ends
      <4>3. /\ SaysSo(g) /\ Len(g) = Len(Framed) + 1 /\ g[Len(Framed) + 1] = Xch!ErrorFrame
            /\ (\A i \in DOMAIN Framed : g[i] = Framed[i]) /\ DOMAIN g = 1..(Len(Framed) + 1)
        BY <1>0, <2>2, <4>1, <4>2, SaysMore
      <4> HIDE DEF g
      <4>4. {i \in 1..Len(g) : Ends(g[i])} = {}
        BY <1>0, <4>2, <4>3
      <4>5. Xch!ReadFrames(g).finish = "stop"
        <5> DEFINE ends == {i \in 1..Len(g) : Ends(g[i])}
                   last == IF ends # {} THEN Xch!Max(ends) ELSE 0
        <5>1. Xch!ReadFrames(g).finish = IF last = 0 THEN "stop" ELSE g[last].finish
          BY DEF Xch!ReadFrames, Xch!SelectLastInSeq, Ends
        <5> QED BY <4>4, <5>1
      <4>6. Xch!Last(g) # Xch!DoneFrame
        BY <1>0, <4>2, <4>3 DEF Xch!Last
      <4> QED BY <3>1, <4>3, <4>5, <4>6
    <3>2. CASE ending # "threw"
      <4> DEFINE a == [kind |-> "chunk", event |-> "answer", content |-> None, finish |-> None]
                 d == [kind |-> "chunk", event |-> "done", content |-> None, finish |-> None]
                 e == [kind |-> "chunk", event |-> "error", content |-> None, finish |-> None]
                 s == Xch!SseChunk(<<>>, "stop")
      <4>1. /\ Xch!Closing(ending) = IF by = "llm" THEN <<>> ELSE IF ending = "finished" THEN <<a, d>> ELSE <<e>>
            /\ g = Framed \o Xch!Closing(ending) \o <<s, Xch!DoneFrame>>
        BY <1>2, <2>1, <3>2 DEF Xch!Closing, Xch!AgentSseChunk, Xch!Chunk, WrittenWell
      <4>2. /\ a \in Frames /\ d \in Frames /\ e \in Frames
            /\ Value(a) = <<>> /\ Value(d) = <<>> /\ Value(e) = <<>>
            /\ ~Ends(a) /\ ~Ends(d) /\ ~Ends(e)
        BY DEF Frames, Value, Ends, Xch!Steps
      <4>3. s \in Frames /\ Xch!DoneFrame \in Frames
        BY DEF Frames, Xch!SseChunk, Xch!Chunk, Xch!DoneFrame
      <4> HIDE DEF a, d, e, s
      <4>4. PICK fs : /\ SaysSo(fs) /\ (\A i \in DOMAIN fs : ~Ends(fs[i]))
                      /\ g = Append(Append(fs, s), Xch!DoneFrame)
        <5> HIDE DEF Frames, g
        <5>1. CASE by = "llm"
          <6>1. g = Append(Append(Framed, s), Xch!DoneFrame)
            BY <1>0, <4>1, <4>3, <5>1
          <6> QED BY <6>1, <1>0, <2>2
        <5>2. CASE by # "llm" /\ ending = "finished"
          <6> DEFINE f1 == Append(Framed, a)
                     f2 == Append(f1, d)
          <6>1. /\ SaysSo(f1) /\ Len(f1) = Len(Framed) + 1 /\ f1[Len(Framed) + 1] = a
                /\ (\A i \in DOMAIN Framed : f1[i] = Framed[i]) /\ DOMAIN f1 = 1..(Len(Framed) + 1)
            BY <1>0, <2>2, <4>2, SaysMore
          <6>2. g = Append(Append(f2, s), Xch!DoneFrame)
            BY <1>0, <4>1, <4>2, <4>3, <5>2
          <6> HIDE DEF f1
          <6>3. /\ SaysSo(f2) /\ Len(f2) = Len(f1) + 1 /\ f2[Len(f1) + 1] = d
                /\ (\A i \in DOMAIN f1 : f2[i] = f1[i]) /\ DOMAIN f2 = 1..(Len(f1) + 1)
            BY <1>0, <4>2, <6>1, SaysMore
          <6> HIDE DEF f2
          <6>4. \A i \in DOMAIN f2 : ~Ends(f2[i])
            BY <1>0, <4>2, <6>1, <6>3
          <6> QED BY <6>2, <6>3, <6>4
        <5>3. CASE by # "llm" /\ ending # "finished"
          <6> DEFINE f1 == Append(Framed, e)
          <6>1. /\ SaysSo(f1) /\ Len(f1) = Len(Framed) + 1 /\ f1[Len(Framed) + 1] = e
                /\ (\A i \in DOMAIN Framed : f1[i] = Framed[i]) /\ DOMAIN f1 = 1..(Len(Framed) + 1)
            BY <1>0, <2>2, <4>2, SaysMore
          <6>2. g = Append(Append(f1, s), Xch!DoneFrame)
            BY <1>0, <4>1, <4>2, <4>3, <5>3
          <6> HIDE DEF f1
          <6>3. \A i \in DOMAIN f1 : ~Ends(f1[i])
            BY <1>0, <4>2, <6>1
          <6> QED BY <6>1, <6>2, <6>3
        <5> QED BY <5>1, <5>2, <5>3
      <4>5. /\ SaysSo(g) /\ Xch!ReadFrames(g).finish = "stop" /\ Xch!Last(g) = Xch!DoneFrame
            /\ \E i \in DOMAIN g : g[i].finish = "stop"
        BY <1>0, <4>4, StreamRead DEF s
      <4> QED BY <3>2, <4>5
    <3> QED BY <3>1, <3>2
  <2>4. read.text = Xch!Spoken(told) /\ read.finish = "stop" /\ read # None
    <3>1. read = [text |-> Flat(Values(g)), calls |-> <<>>, finish |-> "stop"]
      BY <1>r, <2>1, <2>3
    <3>2. Flat(Values(g)) = Xch!Spoken(told) /\ Flat(Values(g)) \in Seq(Chars)
      BY <1>0, <2>3 DEF SaysSo
    <3>3. read \in Readable
      <4>1. Flat(Values(g)) \in Seq({"x", "y"} \cup {Xch!GaveUp[1]})
        BY <3>2 DEF Chars
      <4> QED BY <3>1, <4>1 DEF Readable, Xch!Reasons
    <3> QED BY <3>1, <3>2, <3>3, ServersAssumption
  <2>5. by = "agent" => \A i \in DOMAIN told : g[i].event = told[i].type
    BY <1>0, <2>3 DEF SaysSo
  <2> QED BY <1>2, <2>3, <2>4, <2>5 DEF Xch!ReplyMeant
<1>3. CASE defect = None /\ ~streams
  <2>1. WrittenWell /\ read = Replied
    BY <1>3 DEF ExchangeInv
  <2>2. CASE ending = "threw"
    BY <1>3, <2>1, <2>2 DEF WrittenWell, Replied, Xch!ReplyMeant
  <2>3. CASE ending # "threw"
    <3>1. answer.status = 200 /\ answer.body = Texted
      BY <1>3, <2>1, <2>3 DEF WrittenWell
    <3> DEFINE t == IF ending = "finished" THEN Xch!Output ELSE Xch!GaveUp
               fin == Xch!FinishReason(ending, made)
               said == IF fin = None THEN "stop" ELSE fin
    <3>2. read = [text |-> t, calls |-> made.calls, finish |-> said]
      BY <1>3, <2>1, <3>1, ServersAssumption
         DEF Replied, Texted, Xch!ReadBody, Xch!EncodeResponse, Xch!EncodeMessage, Xch!AIClientDecode, Xch!OpenAIDecode,
             Xch!StringOf, Xch!AssistantMessage
    <3>3. t \in Seq({"x", "y"} \cup {Xch!GaveUp[1]})
      <4>1. Xch!Output \in Seq(Chars)
        BY OutputIsText
      <4>2. Xch!GaveUp \in Seq({Xch!GaveUp[1]})
        BY DEF Xch!GaveUp
      <4> HIDE DEF Xch!Output, Xch!GaveUp
      <4> QED BY <4>1, <4>2 DEF Chars
    <3>4. (ending = "gaveUp" => by = "agent") /\ ending \in {"finished", "gaveUp"}
      BY <2>1, <2>3 DEF WrittenWell
    <3> HIDE DEF t
    <3>5. /\ made.calls \in {<<>>, Xch!Calls} /\ said \in Xch!Reasons
          /\ by = "llm" => said = IF made.reason = None THEN "stop" ELSE made.reason
          /\ by = "agent" => said = IF ending = "finished" THEN "stop" ELSE "length"
      <4>1. made.calls \in {<<>>, Xch!Calls} /\ made.reason \in Xch!Reasons \cup {None} /\ by \in {"llm", "agent"}
        BY DEF ExchangeInv, Xch!TypeOK, Xch!Results
      <4>2. None \notin Xch!Reasons /\ {"stop", "length"} \subseteq Xch!Reasons
        BY ServersAssumption DEF Xch!Reasons
      <4> QED BY <4>1, <4>2 DEF Xch!FinishReason
    <3> HIDE DEF said
    <3>6. read # None
      <4>1. read \in Readable
        BY <3>2, <3>3, <3>5 DEF Readable
      <4> QED BY <4>1, ServersAssumption
    <3>7. ending = "finished" => read.text = Xch!Output
      BY <3>2 DEF t
    <3>8. /\ read.calls = made.calls
          /\ by = "agent" => (read.finish = "length" <=> ending = "gaveUp") /\ (read.finish = "stop" <=> ending = "finished")
          /\ by = "llm" => read.finish = IF made.reason = None THEN "stop" ELSE made.reason
      BY <3>2, <3>4, <3>5
    <3> QED BY <1>3, <2>3, <3>6, <3>7, <3>8 DEF Xch!ReplyMeant
  <2> QED BY <2>2, <2>3
<1> QED BY <1>1, <1>2, <1>3 DEF ExchangeInv

-----------------------------------------------------------------------------
(* The rest of the server side: each invariant through the steps of MCSpec.*)

LEMMA SessionsCarry == SessionInv /\ [MCNext]_all => SessionInv'
<1> SUFFICES ASSUME SessionInv, [MCNext]_all PROVE SessionInv'
  OBVIOUS
<1>1. [Next]_vars
  BY DEF MCNext, ApiNext, McpNext, RequestNext, RouteNext, SessionNext, ChatNext, TaskNext, all, http
<1> QED BY <1>1, SessionStep

LEMMA CountsCarry == RequestInv /\ CountInv /\ [MCNext]_all => CountInv'
<1> SUFFICES ASSUME RequestInv, CountInv, [MCNext]_all PROVE CountInv'
  OBVIOUS
<1>1. CASE RequestNext
  BY <1>1, CountStep DEF RequestNext, RequestInv
<1>2. CASE UNCHANGED requestVars
  BY <1>2 DEF requestVars, CountInv, Counted, FiredAtMost
<1> QED BY <1>1, <1>2 DEF MCNext, ApiNext, McpNext, RouteNext, SessionNext, ChatNext, TaskNext, all

LEMMA RoutesCarry == RouteInv /\ [MCNext]_all => RouteInv'
<1> SUFFICES ASSUME RouteInv, [MCNext]_all PROVE RouteInv'
  OBVIOUS
<1>1. CASE RouteNext
  BY <1>1, RouteStep DEF RouteNext
<1>2. CASE UNCHANGED routeVars
  <2>1. /\ routes' = routes /\ request' = request /\ where' = where /\ snapshot' = snapshot
        /\ routed' = routed /\ known' = known /\ first' = first
    BY <1>2 DEF routeVars
  <2>2. \A n : Earlier(n)' <=> Earlier(n)
    BY <2>1 DEF Earlier
  <2> QED BY <2>1, <2>2 DEF RouteInv, Rts!TypeOK, Copied
<1> QED BY <1>1, <1>2 DEF MCNext, ApiNext, McpNext, RequestNext, SessionNext, ChatNext, TaskNext, all, http

Exchanges == choice = "chat" => ExchangeInv

LEMMA ExchangesBegin == MCInit => Exchanges
BY ExchangeInit DEF MCInit, Exchanges

LEMMA ExchangesCarry == Exchanges /\ [MCNext]_all => Exchanges'
<1> SUFFICES ASSUME Exchanges, [MCNext]_all, choice' = "chat" PROVE ExchangeInv'
  BY DEF Exchanges
<1>1. choice = "chat" /\ [Xch!Next]_chatVars
  BY DEF MCNext, ApiNext, McpNext, RequestNext, RouteNext, SessionNext, ChatNext, TaskNext, all, http
<1> QED BY <1>1, ExchangeStep DEF Exchanges

\* What ApiServer makes of requests, for any number of them: hooks come in
\* pairs and a stream ends once; an answer that a route gave is given again
\* however many routes are added; a backend is told what the caller sent and
\* the caller reads what the backend said, or learns that it failed.
THEOREM RequestsAreServed == MCSpec => []RequestsServed
<1> DEFINE Inv == RequestInv /\ RouteInv /\ Exchanges
<1>1. MCInit => Inv
  BY RequestInit, RouteInit, ExchangesBegin DEF MCInit
<1>2. Inv /\ [MCNext]_all => Inv'
  BY RequestsCarry, RoutesCarry, ExchangesCarry
<1>3. Inv => RequestsServed
  BY HooksAndStreams, RouteHolds, SentIsMeant, ReadIsMeant DEF RequestsServed, Exchanges
<1> QED BY <1>1, <1>2, <1>3, PTL DEF MCSpec

\* Every variable of the server side keeps its type: in particular After is
\* not counted beyond the runs of a handler, and the copy of the routes and
\* the memory of a session hold nothing but routes and entries.
THEOREM ServerTypes == MCSpec => []TypesOK
<1> DEFINE Inv == Lifecycles /\ RequestInv /\ CountInv /\ TaskInv /\ RouteInv /\ SessionInv /\ Exchanges
<1>1. MCInit => Inv
  BY LifecyclesBegin, RequestInit, CountInit, TaskInit, RouteInit, SessionInit, ExchangesBegin DEF MCInit
<1>2. Inv /\ [MCNext]_all => Inv'
  BY LifecyclesCarry, RequestsCarry, CountsCarry, TasksCarry, RoutesCarry, SessionsCarry, ExchangesCarry
<1>3. Inv => TypesOK
  <2> SUFFICES ASSUME Inv PROVE TypesOK
    OBVIOUS
  <2>1. (choice = "api" => Api!TypeOK) /\ (choice = "mcp" => Mcp!TypeOK)
    BY DEF Lifecycles, ApiInv, McpInv
  <2>2. Req!TypeOK
    BY RequestTyped
  <2>3. A2A!TypeOK /\ Rts!TypeOK /\ TypeOK
    BY DEF TaskInv, RouteInv, SessionInv
  <2>4. choice = "chat" => Xch!TypeOK
    BY DEF Exchanges, ExchangeInv
  <2> QED BY <2>1, <2>2, <2>3, <2>4 DEF TypesOK
<1> QED BY <1>1, <1>2, <1>3, PTL DEF MCSpec

-----------------------------------------------------------------------------
(* How a path is cut at its slashes, and what the cuts say of it.          *)
Inside == STRING \ {"/"}
Tokens == Inside \cup {"/"}
Segments == Seq(Inside) \ {<<>>}
Pieces == [parts : Seq(Segments), part : Seq(Inside)]
NoPieces == [parts |-> <<>>, part |-> <<>>]

LEMMA TokensAre == "/" \in Tokens /\ Inside \subseteq Tokens /\ "/" \notin Inside /\ STRING \subseteq Tokens
BY DEF Tokens, Inside

\* One token is read.
Reads(t, v) == IF t = "/" THEN [parts |-> Rts!Pushed(v), part |-> <<>>] ELSE [v EXCEPT !.part = Append(@, t)]

LEMMA PushedType == ASSUME NEW v \in Pieces PROVE Rts!Pushed(v) \in Seq(Segments)
<1>1. v.parts \in Seq(Segments) /\ v.part \in Seq(Inside)
  BY DEF Pieces
<1>2. v.part # <<>> => v.part \in Segments
  BY <1>1 DEF Segments
<1> DEFINE S == Segments
<1> HIDE DEF S
<1>3. v.parts \in Seq(S) /\ (v.part # <<>> => v.part \in S)
  BY <1>1, <1>2 DEF S
<1>4. Rts!Pushed(v) \in Seq(S)
  BY <1>3 DEF Rts!Pushed
<1> QED BY <1>4 DEF S

LEMMA ReadsType ==
  ASSUME NEW t \in Tokens, NEW v \in Pieces
  PROVE  /\ Reads(t, v) \in Pieces
         /\ t = "/" => Reads(t, v).parts = Rts!Pushed(v) /\ Reads(t, v).part = <<>>
         /\ t # "/" => Reads(t, v).parts = v.parts /\ Reads(t, v).part = Append(v.part, t)
<1>1. CASE t = "/"
  <2> DEFINE p == Rts!Pushed(v)
  <2>1. p \in Seq(Segments) /\ <<>> \in Seq(Inside)
    BY PushedType
  <2>2. Reads(t, v) = [parts |-> p, part |-> <<>>]
    BY <1>1 DEF Reads
  <2> HIDE DEF p
  <2>3. Reads(t, v) \in Pieces
    BY <2>1, <2>2 DEF Pieces
  <2> QED BY <1>1, <2>2, <2>3 DEF p
<1>2. CASE t # "/"
  <2>1. v.parts \in Seq(Segments) /\ v.part \in Seq(Inside) /\ v = [parts |-> v.parts, part |-> v.part]
    BY DEF Pieces
  <2>2. t \in Inside
    BY <1>2 DEF Tokens
  <2> DEFINE p == Append(v.part, t)
  <2>3. p \in Seq(Inside)
    BY <2>1, <2>2
  <2>4. Reads(t, v) = [parts |-> v.parts, part |-> p]
    BY <1>2, <2>1 DEF Reads
  <2> HIDE DEF p
  <2>5. Reads(t, v) \in Pieces
    BY <2>1, <2>3, <2>4 DEF Pieces
  <2> QED BY <1>2, <2>4, <2>5 DEF p
<1> QED BY <1>1, <1>2

LEMMA NoPiecesType == NoPieces \in Pieces
<1>1. <<>> \in Seq(Segments) /\ <<>> \in Seq(Inside)
  OBVIOUS
<1> QED BY <1>1 DEF NoPieces, Pieces

\* What c is after so many tokens, as a function.
Reading(c) == [p \in (1..Len(c)) \X Pieces |-> Reads(c[p[1]], p[2])]
Cuts(c, f) == Iteration(f, Reading(c), Pieces, NoPieces, Len(c))

LEMMA CutsAre ==
  ASSUME NEW c \in Seq(Tokens), NEW f
  PROVE  Cuts(c, f) <=> /\ f \in [0..Len(c) -> Pieces] /\ f[0] = NoPieces
                        /\ \A i \in 1..Len(c) : f[i] = Reads(c[i], f[i - 1])
<1> DEFINE m == Len(c)
           G == Reading(c)
<1>1. m \in Nat
  OBVIOUS
<1>2. \A i \in 1..m, v \in Pieces : G[<<i, v>>] = Reads(c[i], v)
  BY DEF Reading
<1> HIDE DEF m, G
<1>3. ASSUME f \in [0..m -> Pieces], NEW i \in 1..m PROVE G[<<i, f[i - 1]>>] = Reads(c[i], f[i - 1])
  <2>1. i - 1 \in 0..m
    BY <1>1
  <2>2. f[i - 1] \in Pieces
    BY <1>3, <2>1
  <2> QED BY <1>2, <2>2
<1> QED BY <1>3 DEF Cuts, Iteration, m, G

LEMMA CutsExist == ASSUME NEW c \in Seq(Tokens) PROVE \E f : Cuts(c, f)
<1> DEFINE m == Len(c)
           G == Reading(c)
<1>1. m \in Nat /\ \A i \in 1..m : c[i] \in Tokens
  OBVIOUS
<1>2. \A i \in 1..m, v \in Pieces : Reads(c[i], v) \in Pieces
  BY <1>1, ReadsType
<1>3. G \in [(1..m) \X Pieces -> Pieces]
  <2>1. \A p \in (1..m) \X Pieces : Reads(c[p[1]], p[2]) \in Pieces
    BY <1>2
  <2> QED BY <2>1 DEF Reading
<1> HIDE DEF m, G
<1>4. \E f : Iteration(f, G, Pieces, NoPieces, m)
  BY <1>1, <1>3, NoPiecesType, Iterates
<1> QED BY <1>4 DEF Cuts, m, G

LEMMA CutIs == ASSUME NEW c \in Seq(Tokens), NEW f, Cuts(c, f) PROVE Rts!Cut(c) = f[Len(c)]
<1> DEFINE m == Len(c)
           Whole(h) == h = [n \in 0..m |-> IF n = 0 THEN [parts |-> <<>>, part |-> <<>>]
                                          ELSE IF c[n] = "/" THEN [parts |-> Rts!Pushed(h[n - 1]), part |-> <<>>]
                                          ELSE [h[n - 1] EXCEPT !.part = Append(@, c[n])]]
           Nth(h, n) == IF n = 0 THEN NoPieces ELSE Reads(c[n], h[n - 1])
           g == CHOOSE h : Whole(h)
<1>1. m \in Nat
  OBVIOUS
<1>2. \A h : Whole(h) <=> h = [n \in 0..m |-> Nth(h, n)]
  BY DEF NoPieces, Reads
<1>3. f \in [0..m -> Pieces] /\ f[0] = NoPieces /\ \A i \in 1..m : f[i] = Reads(c[i], f[i - 1])
  BY CutsAre
<1>4. Rts!Cut(c) = g[m]
  BY DEF Rts!Cut
<1> HIDE DEF Whole, g
<1>5. Whole(f)
  <2>1. \A n \in 0..m : f[n] = Nth(f, n)
    BY <1>1, <1>3
  <2> QED BY <1>2, <1>3, <2>1
<1>6. Whole(g)
  BY <1>5 DEF g
<1>7. \A n \in 0..m : g[n] = Nth(g, n)
  <2>1. g = [n \in 0..m |-> Nth(g, n)]
    BY <1>2, <1>6
  <2> DEFINE h == [n \in 0..m |-> Nth(g, n)]
  <2>2. \A n \in 0..m : h[n] = Nth(g, n)
    OBVIOUS
  <2>3. g = h
    BY <2>1
  <2> HIDE DEF h, Nth
  <2> QED BY <2>2, <2>3
<1> HIDE DEF m
<1> DEFINE Same == {n \in Nat : n <= m => f[n] = g[n]}
<1>8. 0 \in Same
  BY <1>1, <1>3, <1>7
<1>9. ASSUME NEW n \in Same PROVE n + 1 \in Same
  <2> SUFFICES ASSUME n + 1 <= m PROVE f[n + 1] = g[n + 1]
    OBVIOUS
  <2>1. n + 1 \in 1..m /\ n + 1 \in 0..m /\ (n + 1) - 1 = n /\ n + 1 # 0 /\ f[n] = g[n]
    BY <1>1
  <2>2. g[n + 1] = Reads(c[n + 1], g[n])
    BY <1>7, <2>1
  <2>3. f[n + 1] = Reads(c[n + 1], f[n])
    BY <1>3, <2>1
  <2> QED BY <2>1, <2>2, <2>3
<1> HIDE DEF Same
<1>10. Same = Nat
  <2>1. Same \in SUBSET Nat
    BY DEF Same
  <2> QED BY <1>8, <1>9, <2>1, Induction
<1>11. f[m] = g[m]
  BY <1>1, <1>10 DEF Same
<1> QED BY <1>4, <1>11 DEF m

LEMMA CutEmpty == Rts!Cut(<<>>) = NoPieces
<1> DEFINE e == <<>>
<1>1. e \in Seq(Tokens) /\ Len(e) = 0
  OBVIOUS
<1> HIDE DEF e
<1>2. PICK f : Cuts(e, f)
  BY <1>1, CutsExist
<1>3. f[0] = NoPieces
  BY <1>1, <1>2, CutsAre
<1>4. Rts!Cut(e) = NoPieces
  BY <1>1, <1>2, <1>3, CutIs
<1> QED BY <1>4 DEF e

LEMMA CutAppend ==
  ASSUME NEW c \in Seq(Tokens), NEW t \in Tokens
  PROVE  Rts!Cut(c) \in Pieces /\ Rts!Cut(Append(c, t)) = Reads(t, Rts!Cut(c))
<1> DEFINE m == Len(c)
           d == Append(c, t)
<1>1. m \in Nat /\ d \in Seq(Tokens) /\ Len(d) = m + 1 /\ d[m + 1] = t /\ \A i \in 1..m : d[i] = c[i]
  OBVIOUS
<1> HIDE DEF d
<1>2. PICK f : Cuts(d, f)
  BY <1>1, CutsExist
<1>3. f \in [0..(m + 1) -> Pieces] /\ f[0] = NoPieces /\ \A i \in 1..(m + 1) : f[i] = Reads(d[i], f[i - 1])
  <2>1. f \in [0..Len(d) -> Pieces] /\ f[0] = NoPieces /\ \A i \in 1..Len(d) : f[i] = Reads(d[i], f[i - 1])
    BY <1>1, <1>2, CutsAre
  <2> HIDE DEF m
  <2> QED BY <1>1, <2>1
<1> DEFINE g == [n \in 0..m |-> f[n]]
<1>4. \A n \in 0..m : n \in 0..(m + 1) /\ f[n] \in Pieces /\ g[n] = f[n]
  <2>1. \A n \in 0..m : n \in 0..(m + 1)
    BY <1>1
  <2> QED BY <1>3, <2>1
<1>5. g \in [0..m -> Pieces] /\ g[0] = NoPieces
  BY <1>1, <1>3, <1>4
<1>6. \A i \in 1..m : g[i] = Reads(c[i], g[i - 1])
  <2> SUFFICES ASSUME NEW i \in 1..m PROVE g[i] = Reads(c[i], g[i - 1])
    OBVIOUS
  <2>1. i \in 0..m /\ i - 1 \in 0..m /\ i \in 1..(m + 1)
    BY <1>1
  <2> HIDE DEF g
  <2> QED BY <1>1, <1>3, <1>4, <2>1
<1> HIDE DEF g
<1>7. Cuts(c, g)
  BY <1>5, <1>6, CutsAre
<1>8. Rts!Cut(c) = g[m] /\ m \in 0..m
  BY <1>1, <1>7, CutIs
<1>9. Rts!Cut(c) = f[m] /\ f[m] \in Pieces
  BY <1>4, <1>8
<1>10. Rts!Cut(d) = f[m + 1]
  BY <1>1, <1>2, CutIs
<1>11. m + 1 \in 1..(m + 1) /\ (m + 1) - 1 = m
  BY <1>1
<1>12. f[m + 1] = Reads(t, f[m])
  BY <1>1, <1>3, <1>11
<1> QED BY <1>9, <1>10, <1>12 DEF d

LEMMA CutType == ASSUME NEW c \in Seq(Tokens) PROVE Rts!Cut(c) \in Pieces /\ Rts!Parts(c) \in Seq(Segments)
<1>1. "/" \in Tokens
  BY TokensAre
<1>2. Rts!Cut(c) \in Pieces
  BY <1>1, CutAppend
<1> QED BY <1>2, PushedType DEF Rts!Parts

-----------------------------------------------------------------------------
(* Segments joined by slashes.                                             *)
Spaced(ps) == [i \in DOMAIN ps |-> (IF i = 1 THEN <<>> ELSE <<"/">>) \o ps[i]]
Join(ps) == Flat(Spaced(ps))

LEMMA SpacedAppend ==
  ASSUME NEW ps \in Seq(Seq(Tokens)), NEW p \in Seq(Tokens)
  PROVE  /\ Spaced(ps) \in Seq(Seq(Tokens))
         /\ (IF ps = <<>> THEN <<>> ELSE <<"/">>) \o p \in Seq(Tokens)
         /\ Spaced(Append(ps, p)) = Append(Spaced(ps), (IF ps = <<>> THEN <<>> ELSE <<"/">>) \o p)
<1> DEFINE U == Seq(Tokens)
           With(i, q) == (IF i = 1 THEN <<>> ELSE <<"/">>) \o q
           n == Len(ps)
           d == Append(ps, p)
<1>1. \A i \in Nat, q \in U : With(i, q) \in U
  <2>1. <<>> \in U /\ <<"/">> \in U
    BY TokensAre
  <2> QED BY <2>1, ConcatProperties
<1>2. (IF ps = <<>> THEN <<>> ELSE <<"/">>) \o p = With(n + 1, p)
  OBVIOUS
<1>3. Spaced(ps) = [i \in 1..n |-> With(i, ps[i])] /\ n \in Nat
  BY DEF Spaced
<1> HIDE DEF U
<1>4. ps \in Seq(U) /\ p \in U
  BY DEF U
<1>5. d \in Seq(U) /\ Len(d) = n + 1 /\ d[n + 1] = p /\ \A i \in 1..n : d[i] = ps[i] /\ ps[i] \in U
  BY <1>4
<1> HIDE DEF d
<1>6. Spaced(d) = [i \in 1..(n + 1) |-> With(i, d[i])]
  BY <1>5 DEF Spaced
<1> HIDE DEF n, With
<1> DEFINE s == Spaced(ps)
           t == Append(s, With(n + 1, p))
<1>7. s \in Seq(U) /\ Len(s) = n /\ \A i \in 1..n : s[i] = With(i, ps[i])
  <2>1. \A i \in 1..n : With(i, ps[i]) \in U
    BY <1>1, <1>3, <1>5
  <2> QED BY <1>3, <2>1
<1>8. With(n + 1, p) \in U
  BY <1>1, <1>3, <1>4
<1> HIDE DEF s
<1>9. t \in Seq(U) /\ Len(t) = n + 1 /\ t[n + 1] = With(n + 1, p) /\ \A i \in 1..n : t[i] = s[i]
  BY <1>7, <1>8, <1>3
<1>10. Spaced(d) \in Seq(U) /\ Len(Spaced(d)) = n + 1 /\ \A i \in 1..(n + 1) : Spaced(d)[i] = With(i, d[i])
  <2>1. \A i \in 1..(n + 1) : With(i, d[i]) \in U
    <3>1. \A i \in 1..(n + 1) : d[i] \in U /\ i \in Nat
      BY <1>3, <1>4, <1>5
    <3> QED BY <1>1, <3>1
  <2> QED BY <1>3, <1>6, <2>1
<1>11. \A i \in 1..(n + 1) : Spaced(d)[i] = t[i]
  <2> SUFFICES ASSUME NEW i \in 1..(n + 1) PROVE Spaced(d)[i] = t[i]
    OBVIOUS
  <2>1. CASE i = n + 1
    BY <2>1, <1>5, <1>9, <1>10
  <2>2. CASE i \in 1..n
    BY <2>2, <1>5, <1>7, <1>9, <1>10
  <2>3. i = n + 1 \/ i \in 1..n
    BY <1>3
  <2> QED BY <2>1, <2>2, <2>3
<1> HIDE DEF t
<1>12. Spaced(d) = t
  BY <1>9, <1>10, <1>11, SeqEqual
<1> QED BY <1>2, <1>7, <1>8, <1>12 DEF d, t, s, U, n

LEMMA JoinAppend ==
  ASSUME NEW ps \in Seq(Seq(Tokens)), NEW p \in Seq(Tokens)
  PROVE  /\ Join(ps) \in Seq(Tokens)
         /\ Join(Append(ps, p)) = Join(ps) \o ((IF ps = <<>> THEN <<>> ELSE <<"/">>) \o p)
<1> DEFINE e == (IF ps = <<>> THEN <<>> ELSE <<"/">>) \o p
           s == Spaced(ps)
<1>1. s \in Seq(Seq(Tokens)) /\ e \in Seq(Tokens) /\ Spaced(Append(ps, p)) = Append(s, e)
  BY SpacedAppend
<1> HIDE DEF s, e
<1>2. Flat(s) \in Seq(Tokens) /\ Flat(Append(s, e)) = Flat(s) \o e
  BY <1>1, FlatAppend
<1> QED BY <1>1, <1>2 DEF Join, s, e

LEMMA JoinEmpty == Join(<<>>) = <<>>
<1>1. Spaced(<<>>) = <<>>
  BY DEF Spaced
<1> QED BY <1>1, FlatEmpty DEF Join

LEMMA SegmentsAre == \A p \in Segments : p \in Seq(Inside) /\ p \in Seq(Tokens) /\ p # <<>>
<1> SUFFICES ASSUME NEW p \in Segments PROVE p \in Seq(Inside) /\ p \in Seq(Tokens) /\ p # <<>>
  OBVIOUS
<1>1. p \in Seq(Inside) /\ p # <<>>
  BY DEF Segments
<1>2. p \in Seq(Tokens)
  BY <1>1, TokensAre, SeqMonotonic
<1> QED BY <1>1, <1>2

LEMMA SegmentsJoin == ASSUME NEW ps \in Seq(Segments) PROVE ps \in Seq(Seq(Tokens)) /\ Join(ps) \in Seq(Tokens)
<1> DEFINE S == Segments
           U == Seq(Tokens)
<1>1. S \subseteq U /\ <<>> \in U
  BY SegmentsAre
<1> HIDE DEF S, U
<1>2. ps \in Seq(S)
  BY DEF S
<1>3. ps \in Seq(U)
  BY <1>1, <1>2, SeqMonotonic
<1> QED BY <1>1, <1>3, JoinAppend DEF U

-----------------------------------------------------------------------------
(* What is joined is cut where it was joined.                              *)
LEMMA CutWord ==
  ASSUME NEW c \in Seq(Tokens), NEW e \in Seq(Inside)
  PROVE  /\ Rts!Cut(c \o e).parts = Rts!Cut(c).parts
         /\ Rts!Cut(c \o e).part = Rts!Cut(c).part \o e
<1> DEFINE v == Rts!Cut(c)
           G == {w \in Seq(Inside) : Rts!Cut(c \o w).parts = v.parts /\ Rts!Cut(c \o w).part = v.part \o w}
<1>1. v \in Pieces /\ v.part \in Seq(Inside)
  BY CutType DEF Pieces
<1>2. <<>> \in G
  <2>1. c \o <<>> = c
    BY ConcatEmptySeq
  <2>2. v.part \o <<>> = v.part
    BY <1>1, ConcatEmptySeq
  <2>3. <<>> \in Seq(Inside)
    OBVIOUS
  <2> QED BY <2>1, <2>2, <2>3
<1>3. ASSUME NEW w \in Seq(Inside), NEW t \in Inside, w \in G PROVE Append(w, t) \in G
  <2>1. w \in Seq(Tokens) /\ t \in Tokens /\ t # "/"
    BY TokensAre, SeqMonotonic
  <2>2. c \o w \in Seq(Tokens) /\ c \o Append(w, t) = Append(c \o w, t)
    BY <2>1, AppendToConcat, ConcatProperties
  <2>3. Rts!Cut(Append(c \o w, t)) = Reads(t, Rts!Cut(c \o w)) /\ Rts!Cut(c \o w) \in Pieces
    BY <2>1, <2>2, CutAppend
  <2>4. Reads(t, Rts!Cut(c \o w)).parts = Rts!Cut(c \o w).parts
        /\ Reads(t, Rts!Cut(c \o w)).part = Append(Rts!Cut(c \o w).part, t)
    BY <2>1, <2>3, ReadsType
  <2>5. Append(v.part \o w, t) = v.part \o Append(w, t) /\ Append(w, t) \in Seq(Inside)
    <3>1. Append(w, t) \in Seq(Inside)
      OBVIOUS
    <3>2. v.part \in Seq(Tokens)
      BY <1>1, TokensAre, SeqMonotonic
    <3> HIDE DEF G, v
    <3>3. PICK p \in Seq(Tokens) : p = v.part
      BY <3>2
    <3>4. p \o Append(w, t) = Append(p \o w, t)
      BY <2>1, AppendToConcat, ConcatProperties
    <3> QED BY <3>1, <3>3, <3>4
  <2> HIDE DEF v
  <2> QED BY <1>3, <2>2, <2>3, <2>4, <2>5
<1> HIDE DEF G
<1>4. e \in G
  BY <1>2, <1>3, SequencesGrow
<1> QED BY <1>4 DEF G

LEMMA CutOfJoin == ASSUME NEW vs \in Seq(Segments) PROVE Rts!Parts(Join(vs)) = vs
<1> DEFINE S == Segments
           G == {ws \in Seq(S) : Rts!Parts(Join(ws)) = ws}
<1>1. <<>> \in G
  <2>1. Rts!Pushed(NoPieces) = <<>>
    BY DEF Rts!Pushed, NoPieces
  <2> QED BY <2>1, JoinEmpty, CutEmpty DEF Rts!Parts
<1>2. ASSUME NEW ws \in Seq(S), NEW e \in S, ws \in G PROVE Append(ws, e) \in G
  <2> DEFINE c == Join(ws)
             d == IF ws = <<>> THEN c ELSE Append(c, "/")
  <2>1. e \in Seq(Inside) /\ e \in Seq(Tokens) /\ e # <<>>
    BY SegmentsAre
  <2>2. ws \in Seq(Seq(Tokens)) /\ c \in Seq(Tokens)
    BY SegmentsJoin
  <2>3. d \in Seq(Tokens)
    BY <2>2, TokensAre
  <2>4. Join(Append(ws, e)) = d \o e
    <3>1. Join(Append(ws, e)) = c \o ((IF ws = <<>> THEN <<>> ELSE <<"/">>) \o e)
      BY <2>1, <2>2, JoinAppend
    <3>2. CASE ws = <<>>
      <4>1. <<>> \o e = e
        BY <2>1, ConcatEmptySeq
      <4> QED BY <3>1, <3>2, <4>1
    <3>3. CASE ws # <<>>
      <4>1. <<"/">> \in Seq(Tokens) /\ Append(c, "/") = c \o <<"/">>
        BY <2>2, TokensAre, AppendIsConcat
      <4> HIDE DEF c
      <4>2. c \o (<<"/">> \o e) = (c \o <<"/">>) \o e
        BY <2>1, <2>2, <4>1, ConcatAssociative, SMTT(30)
      <4> QED BY <3>1, <3>3, <4>1, <4>2
    <3> QED BY <3>2, <3>3
  <2>5. Rts!Cut(d).parts = ws /\ Rts!Cut(d).part = <<>>
    <3>1. CASE ws = <<>>
      BY <3>1, JoinEmpty, CutEmpty DEF NoPieces
    <3>2. CASE ws # <<>>
      <4>1. Rts!Cut(d) = Reads("/", Rts!Cut(c)) /\ Rts!Cut(c) \in Pieces
        BY <2>2, <3>2, TokensAre, CutAppend
      <4>2. Rts!Pushed(Rts!Cut(c)) = ws
        BY <1>2 DEF Rts!Parts
      <4> QED BY <4>1, <4>2, TokensAre, ReadsType
    <3> QED BY <3>1, <3>2
  <2> HIDE DEF d, c
  <2>6. Rts!Cut(d \o e).parts = ws /\ Rts!Cut(d \o e).part = e
    <3>1. <<>> \o e = e
      BY <2>1, ConcatEmptySeq
    <3> QED BY <2>1, <2>3, <2>5, <3>1, CutWord
  <2>7. Rts!Parts(d \o e) = Append(ws, e)
    BY <2>1, <2>6 DEF Rts!Parts, Rts!Pushed
  <2>8. Append(ws, e) \in Seq(S)
    <3> HIDE DEF S
    <3> QED OBVIOUS
  <2> QED BY <2>4, <2>7, <2>8
<1> HIDE DEF G
<1>3. \A ws \in Seq(S) : ws \in G
  <2> HIDE DEF S
  <2> QED BY <1>1, <1>2, SequencesGrow
<1>4. vs \in G
  BY <1>3
<1> QED BY <1>4 DEF G

-----------------------------------------------------------------------------
(* Plain says of a path what its cuts do.                                  *)

Keeps(c) == {i \in DOMAIN c : c[i] # "/" \/ (/\ \E k \in 1..(i - 1) : c[k] # "/"
                                             /\ i < Len(c) /\ c[i + 1] # "/")}

LEMMA PlainIs ==
  ASSUME NEW path, NEW c \in Seq(Tokens), c = Rts!Clean(path)
  PROVE  \E f \in [0..Len(c) -> Seq(Tokens)] :
           /\ Rts!Plain(path) = f[Len(c)] /\ f[0] = <<>>
           /\ \A n \in Nat : n + 1 <= Len(c) => f[n + 1] = IF n + 1 \in Keeps(c) THEN Append(f[n], c[n + 1]) ELSE f[n]
<1> DEFINE m == Len(c)
           V == Seq(Tokens)
           K == Keeps(c)
           Nth(h, n) == IF n = 0 THEN <<>> ELSE IF n \in K THEN Append(h[n - 1], c[n]) ELSE h[n - 1]
           Whole(h) == h = [n \in 0..m |-> Nth(h, n)]
           G == [p \in (1..m) \X V |-> IF p[1] \in K THEN Append(p[2], c[p[1]]) ELSE p[2]]
           g == CHOOSE h : Whole(h)
<1>1. m \in Nat /\ <<>> \in V /\ \A i \in 1..m, v \in V : Append(v, c[i]) \in V
  OBVIOUS
<1>2. Rts!Plain(path) = g[m]
  BY DEF Rts!Plain, Keeps
<1> HIDE DEF K, V, m
<1>3. G \in [(1..m) \X V -> V] /\ \A i \in 1..m, v \in V : G[<<i, v>>] = IF i \in K THEN Append(v, c[i]) ELSE v
  BY <1>1
<1> HIDE DEF G
<1>4. PICK f : Iteration(f, G, V, <<>>, m)
  BY <1>1, <1>3, Iterates
<1>5. f \in [0..m -> V] /\ f[0] = <<>> /\ \A i \in 1..m : f[i] = G[<<i, f[i - 1]>>]
  BY <1>4 DEF Iteration
<1>6. \A i \in 1..m : f[i] = IF i \in K THEN Append(f[i - 1], c[i]) ELSE f[i - 1]
  <2> SUFFICES ASSUME NEW i \in 1..m PROVE f[i] = IF i \in K THEN Append(f[i - 1], c[i]) ELSE f[i - 1]
    OBVIOUS
  <2>1. i - 1 \in 0..m
    BY <1>1
  <2>2. f[i - 1] \in V
    BY <1>5, <2>1
  <2> QED BY <1>3, <1>5, <2>2
<1>7. Whole(f)
  <2>1. \A n \in 0..m : f[n] = Nth(f, n)
    <3> SUFFICES ASSUME NEW n \in 0..m PROVE f[n] = Nth(f, n)
      OBVIOUS
    <3>1. n = 0 \/ n \in 1..m
      BY <1>1
    <3>2. n \in 1..m => n # 0
      BY <1>1
    <3> QED BY <1>5, <1>6, <3>1, <3>2
  <2> HIDE DEF Nth
  <2> QED BY <1>5, <2>1
<1> HIDE DEF Whole
<1>8. Whole(g)
  BY <1>7 DEF g
<1> DEFINE b == <<>>
           Same == {n \in Nat : n <= m => f[n] = g[n]}
<1> HIDE DEF g
<1>9. \A n \in 0..m : g[n] = Nth(g, n)
  <2> DEFINE h == [n \in 0..m |-> Nth(g, n)]
  <2>1. \A n \in 0..m : h[n] = Nth(g, n)
    OBVIOUS
  <2>2. g = h
    BY <1>8 DEF Whole
  <2> HIDE DEF h, Nth
  <2> QED BY <2>1, <2>2
<1>10. 0 \in Same
  BY <1>1, <1>5, <1>9
<1>11. ASSUME NEW n \in Same PROVE n + 1 \in Same
  <2> SUFFICES ASSUME n + 1 <= m PROVE f[n + 1] = g[n + 1]
    OBVIOUS
  <2>1. n + 1 \in 1..m /\ n + 1 \in 0..m /\ (n + 1) - 1 = n /\ n + 1 # 0 /\ f[n] = g[n]
    BY <1>1
  <2>2. g[n + 1] = IF n + 1 \in K THEN Append(g[n], c[n + 1]) ELSE g[n]
    BY <1>9, <2>1
  <2>3. f[n + 1] = IF n + 1 \in K THEN Append(f[n], c[n + 1]) ELSE f[n]
    BY <1>6, <2>1
  <2> QED BY <2>1, <2>2, <2>3
<1> HIDE DEF Same
<1>12. Same = Nat
  <2>1. Same \in SUBSET Nat
    BY DEF Same
  <2> QED BY <1>10, <1>11, <2>1, Induction
<1>13. f[m] = g[m]
  BY <1>1, <1>12 DEF Same
<1>14. \A n \in Nat : n + 1 <= m => f[n + 1] = IF n + 1 \in K THEN Append(f[n], c[n + 1]) ELSE f[n]
  <2> SUFFICES ASSUME NEW n \in Nat, n + 1 <= m PROVE f[n + 1] = IF n + 1 \in K THEN Append(f[n], c[n + 1]) ELSE f[n]
    OBVIOUS
  <2>1. n + 1 \in 1..m /\ (n + 1) - 1 = n
    BY <1>1
  <2> QED BY <1>6, <2>1
<1> QED BY <1>2, <1>5, <1>13, <1>14 DEF m, V, K

\* What is read so far, and whether a slash is still to be written.
LEMMA PlainJoins ==
  ASSUME NEW path, Rts!Clean(path) \in Seq(Tokens)
  PROVE  Rts!Plain(path) = Join(Rts!Parts(Rts!Clean(path)))
<1> DEFINE c == Rts!Clean(path)
           m == Len(c)
           K == Keeps(c)
<1>1. c \in Seq(Tokens) /\ m \in Nat
  OBVIOUS
<1>2. PICK f \in [0..m -> Seq(Tokens)] :
           /\ Rts!Plain(path) = f[m] /\ f[0] = <<>>
           /\ \A n \in Nat : n + 1 <= m => f[n + 1] = IF n + 1 \in K THEN Append(f[n], c[n + 1]) ELSE f[n]
  BY PlainIs
<1> HIDE DEF c
<1> DEFINE View(n) == Rts!Cut(SubSeq(c, 1, n))
           Nonblank(n) == \E k \in 1..n : c[k] # "/"
           Hangs(n) == n # 0 /\ c[n] = "/" /\ n \in K
           Good(n) == /\ View(n) \in Pieces
                      /\ View(n).part = <<>> <=> n = 0 \/ c[n] = "/"
                      /\ View(n).parts = <<>> /\ View(n).part = <<>> <=> ~Nonblank(n)
                      /\ f[n] = Join(Rts!Pushed(View(n))) \o (IF Hangs(n) THEN <<"/">> ELSE <<>>)
           Goods == {n \in Nat : n <= m => Good(n)}
<1>3. /\ SubSeq(c, 1, 0) = <<>> /\ SubSeq(c, 1, m) = c
      /\ \A n \in Nat : n + 1 <= m => /\ SubSeq(c, 1, n) \in Seq(Tokens) /\ c[n + 1] \in Tokens
                                      /\ SubSeq(c, 1, n + 1) = Append(SubSeq(c, 1, n), c[n + 1])
  <2>1. /\ SubSeq(c, 1, 0) = <<>> /\ SubSeq(c, 1, Len(c)) = c
        /\ \A n \in 0..Len(c) : SubSeq(c, 1, n) \in Seq(Tokens)
        /\ \A n \in Nat : n + 1 <= Len(c) =>
             c[n + 1] \in Tokens /\ SubSeq(c, 1, n + 1) = Append(SubSeq(c, 1, n), c[n + 1])
    BY <1>1, Prefixes
  <2>2. \A n \in Nat : n + 1 <= m => n \in 0..Len(c)
    BY <1>1
  <2> QED BY <2>1, <2>2
<1>4. \A n \in Nat : n + 1 <= m => View(n) \in Pieces /\ View(n + 1) = Reads(c[n + 1], View(n))
  BY <1>3, CutAppend
<1>5. \A n \in 1..m : /\ c[n] # "/" => n \in K
                      /\ c[n] = "/" => (n \in K <=> Nonblank(n - 1) /\ n < m /\ c[n + 1] # "/")
  BY <1>1 DEF Keeps
<1> HIDE DEF K, m, View
<1>6. 0 \in Goods
  <2>1. View(0) = NoPieces
    BY <1>3, CutEmpty DEF View
  <2>2. Join(Rts!Pushed(NoPieces)) \o <<>> = <<>>
    <3>1. Rts!Pushed(NoPieces) = <<>>
      BY DEF Rts!Pushed, NoPieces
    <3>2. <<>> \o <<>> = <<>>
      OBVIOUS
    <3> QED BY <3>1, <3>2, JoinEmpty
  <2>3. ~Nonblank(0) /\ ~Hangs(0)
    OBVIOUS
  <2> HIDE DEF Nonblank, Hangs
  <2> QED BY <1>2, <2>1, <2>2, <2>3, NoPiecesType DEF NoPieces
<1>7. ASSUME NEW n \in Goods PROVE n + 1 \in Goods
  <2> SUFFICES ASSUME n + 1 <= m PROVE Good(n + 1)
    OBVIOUS
  <2> DEFINE t == c[n + 1]
             v == View(n)
             w == View(n + 1)
             ps == Rts!Pushed(v)
             qs == Rts!Pushed(w)
  <2>1. Good(n) /\ n \in Nat /\ n + 1 \in 1..m /\ (n + 1) - 1 = n /\ n + 1 # 0
    BY <1>1
  <2>2. t \in Tokens /\ v \in Pieces /\ w = Reads(t, v)
    BY <1>3, <1>4, <2>1
  <2>3. /\ w \in Pieces
        /\ t = "/" => w.parts = ps /\ w.part = <<>>
        /\ t # "/" => w.parts = v.parts /\ w.part = Append(v.part, t)
    BY <2>2, ReadsType
  <2>4. f[n + 1] = IF n + 1 \in K THEN Append(f[n], t) ELSE f[n]
    BY <1>2, <2>1
  <2>5. Nonblank(n + 1) <=> Nonblank(n) \/ t # "/"
    <3>1. \A k \in 1..(n + 1) : k \in 1..n \/ k = n + 1
      BY <2>1
    <3>2. \A k \in 1..n : k \in 1..(n + 1)
      BY <2>1
    <3> HIDE DEF Goods
    <3> QED BY <2>1, <3>1, <3>2
  <2>6. /\ t # "/" => n + 1 \in K
        /\ n # 0 /\ c[n] = "/" => (n \in K <=> Nonblank(n - 1) /\ t # "/")
    <3>1. n # 0 => n \in 1..m /\ n < m
      BY <2>1, <1>1
    <3> HIDE DEF Nonblank
    <3> QED BY <1>5, <2>1, <3>1
  <2>7. n # 0 /\ c[n] = "/" => (Nonblank(n) <=> Nonblank(n - 1))
    <3>1. n # 0 => \A k \in 1..n : k \in 1..(n - 1) \/ k = n
      BY <2>1
    <3>2. n # 0 => \A k \in 1..(n - 1) : k \in 1..n
      BY <2>1
    <3> QED BY <3>1, <3>2
  <2>8. v.parts \in Seq(Segments) /\ v.part \in Seq(Inside) /\ ps \in Seq(Segments) /\ qs \in Seq(Segments)
    BY <2>2, <2>3, PushedType DEF Pieces
  <2> DEFINE W == Nonblank(n)
             W1 == Nonblank(n + 1)
             Out(q, b) == Join(q) \o (IF b THEN <<"/">> ELSE <<>>)
  <2>9. f[n] = Out(ps, Hangs(n)) /\ (v.part = <<>> <=> n = 0 \/ c[n] = "/") /\ (v.parts = <<>> /\ v.part = <<>> <=> ~W)
    BY <2>1
  <2>13. n = 0 => ~W
    BY <2>1
  <2> HIDE DEF Nonblank, Goods
  <2>10. \A q \in Seq(Segments) : Join(q) \in Seq(Tokens) /\ Out(q, FALSE) = Join(q) /\ Out(q, TRUE) = Append(Join(q), "/")
    <3> SUFFICES ASSUME NEW q \in Seq(Segments)
                 PROVE  Join(q) \in Seq(Tokens) /\ Out(q, FALSE) = Join(q) /\ Out(q, TRUE) = Append(Join(q), "/")
      OBVIOUS
    <3>1. Join(q) \in Seq(Tokens)
      BY SegmentsJoin
    <3>2. Join(q) \o <<>> = Join(q)
      BY <3>1, ConcatEmptySeq
    <3>3. Join(q) \o <<"/">> = Append(Join(q), "/")
      BY <3>1, TokensAre, AppendIsConcat
    <3> QED BY <3>1, <3>2, <3>3
  <2> HIDE DEF Out
  <2>11. CASE t = "/"
    <3>1. w.parts = ps /\ w.part = <<>> /\ qs = ps
      BY <2>3, <2>11 DEF Rts!Pushed
    <3>2. ~Hangs(n)
      BY <2>6, <2>11
    <3>3. f[n] = Join(ps)
      BY <2>8, <2>9, <2>10, <3>2
    <3>4. f[n + 1] = Out(qs, n + 1 \in K)
      <4> HIDE DEF ps, qs
      <4>1. CASE n + 1 \in K
        <5>1. Out(qs, n + 1 \in K) = Out(qs, TRUE)
          BY <4>1 DEF Out
        <5> QED BY <2>4, <2>8, <2>10, <2>11, <3>1, <3>3, <4>1, <5>1
      <4>2. CASE n + 1 \notin K
        <5>1. Out(qs, n + 1 \in K) = Out(qs, FALSE)
          BY <4>2 DEF Out
        <5> QED BY <2>4, <2>8, <2>10, <3>1, <3>3, <4>2, <5>1
      <4> QED BY <4>1, <4>2
    <3>5. Hangs(n + 1) <=> n + 1 \in K
      BY <2>1, <2>11
    <3>6. f[n + 1] = Out(qs, Hangs(n + 1))
      <4>1. CASE n + 1 \in K
        BY <4>1, <3>4, <3>5 DEF Out
      <4>2. CASE n + 1 \notin K
        BY <4>2, <3>4, <3>5 DEF Out
      <4> QED BY <4>1, <4>2
    <3>7. w.parts = <<>> /\ w.part = <<>> <=> ~W1
      <4>1. ps = <<>> <=> v.parts = <<>> /\ v.part = <<>>
        <5>1. v.part # <<>> => ps = Append(v.parts, v.part)
          BY DEF Rts!Pushed
        <5>2. v.part # <<>> => v.part \in Segments
          BY <2>8 DEF Segments
        <5>3. v.part # <<>> => ps # <<>>
          BY <2>8, <5>1, <5>2, AppendProperties
        <5>4. v.part = <<>> => ps = v.parts
          BY DEF Rts!Pushed
        <5> QED BY <5>3, <5>4
      <4> QED BY <2>5, <2>9, <2>11, <3>1, <4>1
    <3> QED BY <2>1, <2>3, <2>11, <3>1, <3>6, <3>7 DEF Out
  <2>12. CASE t # "/"
    <3>1. w.parts = v.parts /\ w.part = Append(v.part, t) /\ n + 1 \in K /\ ~Hangs(n + 1) /\ W1
      BY <2>3, <2>5, <2>6, <2>12
    <3>2. t \in Inside
      BY <2>2, <2>12 DEF Tokens
    <3>3. w.part # <<>>
      BY <2>8, <3>1, <3>2, AppendProperties
    <3>4. qs = Append(v.parts, w.part)
      BY <3>1, <3>3 DEF Rts!Pushed
    <3>5. f[n + 1] = Append(f[n], t)
      BY <2>4, <3>1
    <3>6. v.parts \in Seq(Seq(Tokens)) /\ v.part \in Seq(Tokens) /\ w.part \in Seq(Tokens) /\ Join(v.parts) \in Seq(Tokens)
      <4>1. w.part \in Seq(Inside)
        BY <2>3 DEF Pieces
      <4> QED BY <2>8, <4>1, SegmentsJoin, TokensAre, SeqMonotonic
    <3>7. Join(qs) = Join(v.parts) \o ((IF v.parts = <<>> THEN <<>> ELSE <<"/">>) \o w.part)
      BY <3>4, <3>6, JoinAppend
    <3>8. Join(qs) = Append(f[n], t)
      <4> DEFINE a == Join(v.parts)
                 p == v.part
                 e == IF v.parts = <<>> THEN <<>> ELSE <<"/">>
      <4>1. e \in Seq(Tokens) /\ a \in Seq(Tokens) /\ p \in Seq(Tokens)
        BY <3>6, TokensAre
      <4>2. CASE p = <<>>
        <5>1. ps = v.parts
          BY <4>2 DEF Rts!Pushed
        <5>2. Hangs(n) <=> v.parts # <<>>
          <6>1. n = 0 => ~W /\ ~Hangs(n)
            BY <2>13
          <6>2. n # 0 => (Hangs(n) <=> W)
            BY <2>6, <2>7, <2>9, <2>12, <4>2
          <6> HIDE DEF Hangs
          <6>3. W <=> v.parts # <<>>
            BY <2>9, <4>2
          <6> QED BY <6>1, <6>2, <6>3
        <5>3. f[n] = a \o e
          BY <2>9, <5>1, <5>2 DEF Out
        <5>4. w.part = <<t>>
          BY <3>1, <4>2
        <5> HIDE DEF a, e
        <5>5. a \o (e \o <<t>>) = Append(a \o e, t)
          <6>1. e \o <<t>> = Append(e, t) /\ a \o e \in Seq(Tokens)
            BY <2>2, <4>1, AppendIsConcat, ConcatProperties
          <6>2. a \o Append(e, t) = Append(a \o e, t)
            BY <2>2, <4>1, AppendToConcat
          <6> QED BY <6>1, <6>2
        <5> QED BY <3>7, <5>3, <5>4, <5>5 DEF a, e
      <4>3. CASE p # <<>>
        <5>1. ps = Append(v.parts, p)
          BY <4>3 DEF Rts!Pushed
        <5>2. ~Hangs(n)
          BY <2>9, <4>3
        <5>3. f[n] = Join(ps)
          BY <2>8, <2>9, <2>10, <5>2
        <5>4. Join(ps) = a \o (e \o p)
          BY <5>1, <3>6, JoinAppend
        <5>5. w.part = Append(p, t)
          BY <3>1
        <5> HIDE DEF a, e, p, ps
        <5>6. a \o (e \o Append(p, t)) = Append(a \o (e \o p), t)
          <6>1. e \o Append(p, t) = Append(e \o p, t) /\ e \o p \in Seq(Tokens)
            BY <2>2, <4>1, AppendToConcat, ConcatProperties
          <6>2. a \o Append(e \o p, t) = Append(a \o (e \o p), t)
            BY <2>2, <4>1, <6>1, AppendToConcat
          <6> QED BY <6>1, <6>2
        <5> QED BY <3>7, <5>3, <5>4, <5>5, <5>6 DEF a, e
      <4> QED BY <4>2, <4>3
    <3>9. f[n + 1] = Out(qs, Hangs(n + 1))
      <4>1. Out(qs, Hangs(n + 1)) = Out(qs, FALSE)
        BY <3>1 DEF Out
      <4> QED BY <2>8, <2>10, <3>5, <3>8, <4>1
    <3>10. w.part = <<>> <=> n + 1 = 0 \/ c[n + 1] = "/"
      BY <2>1, <2>12, <3>3
    <3>11. w.parts = <<>> /\ w.part = <<>> <=> ~W1
      BY <3>1, <3>3
    <3> QED BY <2>3, <3>9, <3>10, <3>11 DEF Out
  <2> QED BY <2>11, <2>12
<1> HIDE DEF Goods
<1>8. Goods = Nat
  <2>1. Goods \in SUBSET Nat
    BY DEF Goods
  <2> QED BY <1>6, <1>7, <2>1, Induction
<1>9. Good(m) /\ ~Hangs(m)
  <2>1. m \in Nat /\ m \in Goods
    BY <1>1, <1>8
  <2>2. Good(m)
    BY <2>1 DEF Goods
  <2>3. ~Hangs(m)
    <3>1. m # 0 => m \in 1..m /\ ~(m < m)
      BY <2>1
    <3> HIDE DEF Nonblank
    <3> QED BY <1>5, <3>1
  <2> HIDE DEF Good, Hangs
  <2> QED BY <2>2, <2>3
<1>10. f[m] = Join(Rts!Pushed(View(m))) \o <<>> /\ View(m) = Rts!Cut(c) /\ View(m) \in Pieces
  BY <1>3, <1>9 DEF View
<1>11. Rts!Pushed(View(m)) \in Seq(Segments)
  BY <1>10, PushedType
<1>12. Join(Rts!Pushed(View(m))) \o <<>> = Join(Rts!Pushed(View(m)))
  BY <1>11, SegmentsJoin, ConcatEmptySeq
<1> QED BY <1>2, <1>10, <1>12 DEF c, Rts!Parts

-----------------------------------------------------------------------------
(* Every part of a path is written there.                                  *)

Endings(c) == {SubSeq(c, a + 1, Len(c)) : a \in 0..Len(c)}

LEMMA SameSlices ==
  ASSUME NEW c \in Seq(Tokens), NEW d \in Seq(Tokens), Len(c) <= Len(d), \A k \in 1..Len(c) : c[k] = d[k],
         NEW i \in 0..Len(c), NEW j \in 0..Len(c)
  PROVE  SubSeq(c, i + 1, j) = SubSeq(d, i + 1, j)
<1> DEFINE m == i + 1
           x == SubSeq(c, m, j)
           y == SubSeq(d, m, j)
<1>1. m \in Int /\ j \in Int /\ \A k \in m..j : k \in 1..Len(c) /\ c[k] \in Tokens /\ d[k] = c[k] /\ d[k] \in Tokens
  OBVIOUS
<1> HIDE DEF m
<1>2. /\ x \in Seq(Tokens) /\ Len(x) = (IF m <= j THEN j - m + 1 ELSE 0)
      /\ \A k \in 1..(j - m + 1) : x[k] = c[m + k - 1]
  BY <1>1, SubSeqProperties
<1>3. /\ y \in Seq(Tokens) /\ Len(y) = (IF m <= j THEN j - m + 1 ELSE 0)
      /\ \A k \in 1..(j - m + 1) : y[k] = d[m + k - 1]
  BY <1>1, SubSeqProperties
<1> HIDE DEF x, y
<1>4. Len(x) = Len(y)
  BY <1>2, <1>3
<1>5. \A k \in 1..Len(x) : x[k] = y[k]
  <2> SUFFICES ASSUME NEW k \in 1..Len(x) PROVE x[k] = y[k]
    OBVIOUS
  <2>1. k \in 1..(j - m + 1) /\ m + k - 1 \in m..j
    BY <1>1, <1>2
  <2> QED BY <1>1, <1>2, <1>3, <2>1
<1>6. x = y
  BY <1>2, <1>3, <1>4, <1>5, SeqEqual
<1> QED BY <1>6 DEF x, y, m

LEMMA SliceIs == ASSUME NEW d, NEW i \in 0..Len(d), NEW j \in 0..Len(d) PROVE SubSeq(d, i + 1, j) \in Rts!SubSeqs(d)
BY DEF Rts!SubSeqs

LEMMA SlicesOfPrefix ==
  ASSUME NEW c \in Seq(Tokens), NEW d \in Seq(Tokens), Len(c) <= Len(d), \A k \in 1..Len(c) : c[k] = d[k]
  PROVE  Rts!SubSeqs(c) \subseteq Rts!SubSeqs(d)
<1> SUFFICES ASSUME NEW x \in Rts!SubSeqs(c) PROVE x \in Rts!SubSeqs(d)
  OBVIOUS
<1> PICK i \in 0..Len(c), j \in 0..Len(c) : x = SubSeq(c, i + 1, j)
  BY DEF Rts!SubSeqs
<1>1. SubSeq(c, i + 1, j) = SubSeq(d, i + 1, j)
  BY SameSlices
<1>2. i \in 0..Len(d) /\ j \in 0..Len(d)
  OBVIOUS
<1>3. SubSeq(d, i + 1, j) \in Rts!SubSeqs(d)
  BY <1>2, SliceIs
<1> QED BY <1>1, <1>3

LEMMA EndsGrow ==
  ASSUME NEW c \in Seq(Tokens), NEW t \in Tokens
  PROVE  /\ Rts!SubSeqs(c) \subseteq Rts!SubSeqs(Append(c, t))
         /\ Endings(c) \subseteq Rts!SubSeqs(c)
         /\ <<>> \in Endings(Append(c, t))
         /\ \A e \in Endings(c) : Append(e, t) \in Endings(Append(c, t))
<1> DEFINE d == Append(c, t)
           m == Len(c)
<1>1. d \in Seq(Tokens) /\ Len(d) = m + 1 /\ d[m + 1] = t /\ m \in Nat /\ \A k \in 1..m : c[k] = d[k]
  OBVIOUS
<1> HIDE DEF d
<1>2. Rts!SubSeqs(c) \subseteq Rts!SubSeqs(d)
  <2>1. Len(c) <= Len(d)
    BY <1>1
  <2> QED BY <1>1, <2>1, SlicesOfPrefix
<1>3. Endings(c) \subseteq Rts!SubSeqs(c)
  <2>1. m \in 0..m
    BY <1>1
  <2> QED BY <2>1 DEF Endings, Rts!SubSeqs
<1>4. <<>> \in Endings(d)
  <2>1. SubSeq(d, (m + 1) + 1, m + 1) = <<>> /\ m + 1 \in 0..(m + 1)
    BY <1>1, SubSeqEmpty
  <2> QED BY <1>1, <2>1 DEF Endings
<1>5. ASSUME NEW e \in Endings(c) PROVE Append(e, t) \in Endings(d)
  <2>1. PICK a \in 0..m : e = SubSeq(c, a + 1, m)
    BY DEF Endings
  <2>2. e = SubSeq(d, a + 1, m)
    <3>1. m \in 0..m /\ Len(c) <= Len(d)
      BY <1>1
    <3> QED BY <1>1, <2>1, <3>1, SameSlices
  <2>3. a + 1 \in 1..Len(d) /\ m + 1 \in (a + 1)..Len(d) /\ (m + 1) - 1 = m /\ a \in 0..(m + 1)
    BY <1>1
  <2>4. SubSeq(d, a + 1, m + 1) = SubSeq(d, a + 1, m) \o <<t>>
    BY <1>1, <2>3, SubSeqRecursiveSecond
  <2>5. e \in Seq(Tokens)
    <3>1. \A k \in (a + 1)..m : c[k] \in Tokens
      BY <1>1
    <3> QED BY <1>1, <2>1, <3>1, SubSeqProperties
  <2>6. Append(e, t) = SubSeq(d, a + 1, m + 1)
    BY <2>2, <2>4, <2>5, AppendIsConcat
  <2> QED BY <1>1, <2>3, <2>6 DEF Endings
<1> QED BY <1>2, <1>3, <1>4, <1>5 DEF d

LEMMA PartsAreWritten ==
  ASSUME NEW c \in Seq(Tokens)
  PROVE  \A i \in DOMAIN Rts!Parts(c) : Rts!Parts(c)[i] \in Rts!SubSeqs(c)
<1> DEFINE Within(v, d) == (\A i \in DOMAIN v.parts : v.parts[i] \in Rts!SubSeqs(d)) /\ v.part \in Endings(d)
           Pushes(v, d) == \A i \in DOMAIN Rts!Pushed(v) : Rts!Pushed(v)[i] \in Rts!SubSeqs(d)
           G == {d \in Seq(Tokens) : Within(Rts!Cut(d), d) /\ Pushes(Rts!Cut(d), d)}
<1>1. ASSUME NEW d \in Seq(Tokens), Within(Rts!Cut(d), d) PROVE Pushes(Rts!Cut(d), d)
  <2> DEFINE v == Rts!Cut(d)
  <2>1. v \in Pieces /\ v.parts \in Seq(Segments) /\ v.part \in Seq(Inside)
    BY CutType DEF Pieces
  <2>2. Endings(d) \subseteq Rts!SubSeqs(d)
    BY TokensAre, EndsGrow
  <2>3. v.part # <<>> => v.part \in Segments
    BY <2>1 DEF Segments
  <2> DEFINE ps == v.parts
             p == v.part
             n == Len(ps)
  <2>4. n \in Nat /\ DOMAIN ps = 1..n
    BY <2>1
  <2>5. ASSUME p # <<>> PROVE \A i \in DOMAIN Append(ps, p) : i \in 1..(n + 1) /\ Append(ps, p)[i] = IF i = n + 1 THEN p ELSE ps[i]
    BY <2>1, <2>3, <2>5
  <2>6. \A i \in 1..(n + 1) : i = n + 1 \/ i \in 1..n
    BY <2>4
  <2>7. (\A i \in DOMAIN ps : ps[i] \in Rts!SubSeqs(d)) /\ p \in Rts!SubSeqs(d)
    BY <1>1, <2>2
  <2>8. Rts!Pushed(v) = IF p = <<>> THEN ps ELSE Append(ps, p)
    BY DEF Rts!Pushed
  <2> HIDE DEF v, ps, p, n
  <2> QED BY <2>4, <2>5, <2>6, <2>7, <2>8 DEF v
<1>2. <<>> \in G
  <2>1. <<>> \in Endings(<<>>) /\ <<>> \in Seq(Tokens)
    <3>1. SubSeq(<<>>, 0 + 1, 0) = <<>>
      BY SubSeqEmpty
    <3>2. Len(<<>>) = 0 /\ 0 \in 0..0
      OBVIOUS
    <3>3. <<>> \in Endings(<<>>)
      BY <3>1, <3>2 DEF Endings
    <3> QED BY <3>3
  <2>2. Within(Rts!Cut(<<>>), <<>>)
    BY <2>1, CutEmpty DEF NoPieces
  <2> QED BY <1>1, <2>1, <2>2
<1>3. ASSUME NEW d \in Seq(Tokens), NEW t \in Tokens, d \in G PROVE Append(d, t) \in G
  <2> DEFINE v == Rts!Cut(d)
             e == Append(d, t)
             w == Rts!Cut(e)
  <2>1. v \in Pieces /\ w = Reads(t, v) /\ e \in Seq(Tokens)
    BY CutAppend
  <2>2. /\ t = "/" => w.parts = Rts!Pushed(v) /\ w.part = <<>>
        /\ t # "/" => w.parts = v.parts /\ w.part = Append(v.part, t)
    BY <2>1, ReadsType
  <2>3. /\ Rts!SubSeqs(d) \subseteq Rts!SubSeqs(e) /\ <<>> \in Endings(e) /\ \A x \in Endings(d) : Append(x, t) \in Endings(e)
    BY EndsGrow
  <2>4. Within(v, d) /\ Pushes(v, d)
    BY <1>3
  <2> HIDE DEF v, e, G
  <2>5. Within(w, e)
    <3>1. CASE t = "/"
      BY <2>2, <2>3, <2>4, <3>1
    <3>2. CASE t # "/"
      BY <2>2, <2>3, <2>4, <3>2
    <3> QED BY <3>1, <3>2
  <2> HIDE DEF Within, Pushes
  <2>6. Pushes(w, e)
    BY <1>1, <2>1, <2>5
  <2> QED BY <2>1, <2>5, <2>6 DEF G, e
<1> HIDE DEF G
<1>4. c \in G
  BY <1>2, <1>3, SequencesGrow
<1> QED BY <1>4 DEF G, Rts!Parts

LEMMA CleanIs ==
  ASSUME NEW path \in Seq(Tokens)
  PROVE  Rts!Clean(path) \in Seq(Tokens) /\ Rts!SubSeqs(Rts!Clean(path)) \subseteq Rts!SubSeqs(path)
<1> DEFINE I == {i \in 1..Len(path) : path[i] = "?"}
           c == Rts!Clean(path)
<1>1. Len(path) \in Nat
  OBVIOUS
<1>2. CASE I = {}
  <2>1. c = path
    BY <1>2 DEF Rts!Clean, Rts!SelectInSeq
  <2> QED BY <2>1
<1>3. CASE I # {}
  <2>1. PICK q \in I : \A i \in I : q <= i
    <3>1. I \in SUBSET Nat
      BY <1>1
    <3> HIDE DEF I
    <3> QED BY <1>3, <3>1, Least
  <2>2. Rts!Min(I) = q /\ q # 0
    BY <2>1 DEF Rts!Min
  <2> DEFINE d == SubSeq(path, 1, q - 1)
  <2>3. c = d
    BY <1>3, <2>2 DEF Rts!Clean, Rts!SelectInSeq
  <2>4. q \in 1..Len(path) /\ q - 1 \in Int /\ \A i \in 1..(q - 1) : i \in 1..Len(path) /\ path[i] \in Tokens
    BY <1>1
  <2> HIDE DEF I
  <2>5. d \in Seq(Tokens) /\ Len(d) = (IF 1 <= q - 1 THEN (q - 1) - 1 + 1 ELSE 0)
        /\ \A i \in 1..((q - 1) - 1 + 1) : d[i] = path[1 + i - 1]
    <3> DEFINE k == q - 1
    <3>1. k \in Int /\ \A i \in 1..k : path[i] \in Tokens
      BY <2>4
    <3> HIDE DEF k
    <3>2. SubSeq(path, 1, k) \in Seq(Tokens) /\ Len(SubSeq(path, 1, k)) = (IF 1 <= k THEN k - 1 + 1 ELSE 0)
          /\ \A i \in 1..(k - 1 + 1) : SubSeq(path, 1, k)[i] = path[1 + i - 1]
      BY <3>1, SubSeqProperties
    <3> QED BY <3>2 DEF k
  <2> HIDE DEF d
  <2>6. Len(d) <= Len(path) /\ \A i \in 1..Len(d) : d[i] = path[i]
    BY <1>1, <2>4, <2>5
  <2>7. Rts!SubSeqs(d) \subseteq Rts!SubSeqs(path)
    BY <2>5, <2>6, SlicesOfPrefix
  <2> QED BY <2>3, <2>5, <2>7
<1> QED BY <1>2, <1>3

-----------------------------------------------------------------------------
(* A pattern matches exactly the paths that it writes.                     *)

PatternPart == [param : BOOLEAN, name : Inside]
Patterns == Seq(PatternPart)
Filled(p, values) == [i \in DOMAIN p |-> IF p[i].param THEN values[i] ELSE <<p[i].name>>]

LEMMA WrittenIs == \A p, values : Rts!Written(p, values) = Join(Filled(p, values))
<1> SUFFICES ASSUME NEW p, NEW values PROVE Rts!Written(p, values) = Join(Filled(p, values))
  OBVIOUS
<1> DEFINE w == Filled(p, values)
           s == [i \in DOMAIN p |-> (IF i = 1 THEN <<>> ELSE <<"/">>) \o (IF p[i].param THEN values[i] ELSE <<p[i].name>>)]
<1>1. DOMAIN w = DOMAIN p /\ \A i \in DOMAIN p : w[i] = IF p[i].param THEN values[i] ELSE <<p[i].name>>
  BY DEF Filled
<1> HIDE DEF w
<1>2. Spaced(w) = s
  BY <1>1 DEF Spaced
<1>3. Rts!Written(p, values) = Rts!FlattenSeq(s)
  BY DEF Rts!Written
<1> HIDE DEF s
<1>4. Rts!FlattenSeq(s) = Flat(s)
  BY DEF Rts!FlattenSeq, Flat
<1> QED BY <1>2, <1>3, <1>4 DEF Join, w

LEMMA FilledType ==
  ASSUME NEW p \in Patterns, NEW values, \A i \in DOMAIN p : p[i].param => values[i] \in Segments
  PROVE  Filled(p, values) \in Seq(Segments) /\ Len(Filled(p, values)) = Len(p) /\ DOMAIN p = 1..Len(p) /\ Len(p) \in Nat
<1> DEFINE n == Len(p)
           E(i) == IF p[i].param THEN values[i] ELSE <<p[i].name>>
<1>1. n \in Nat /\ DOMAIN p = 1..n /\ \A i \in 1..n : p[i].name \in Inside
  <2>1. n \in Nat /\ DOMAIN p = 1..n /\ \A i \in 1..n : p[i] \in PatternPart
    BY DEF Patterns
  <2> QED BY <2>1 DEF PatternPart
<1>2. \A i \in 1..n : E(i) \in Segments
  <2> SUFFICES ASSUME NEW i \in 1..n PROVE E(i) \in Segments
    OBVIOUS
  <2>1. <<p[i].name>> \in Seq(Inside) /\ <<p[i].name>> # <<>>
    BY <1>1
  <2> QED BY <1>1, <2>1 DEF Segments
<1>3. Filled(p, values) = [i \in 1..n |-> E(i)]
  BY <1>1 DEF Filled
<1> HIDE DEF n, E
<1> DEFINE S == Segments
<1> HIDE DEF S
<1>4. \A i \in 1..n : E(i) \in S
  BY <1>2 DEF S
<1>5. [i \in 1..n |-> E(i)] \in Seq(S) /\ Len([i \in 1..n |-> E(i)]) = n
  BY <1>1, <1>4
<1> QED BY <1>1, <1>3, <1>5 DEF n, S

LEMMA ValuesAre ==
  ASSUME NEW path \in Seq(Tokens)
  PROVE  /\ \A v \in Rts!Values(path) : v \in Segments
         /\ \A v \in Segments : v \in Rts!SubSeqs(path) => v \in Rts!Values(path)
<1>1. ASSUME NEW v \in Rts!Values(path) PROVE v \in Segments
  <2>1. v \in Rts!SubSeqs(path) /\ v # <<>> /\ ~Rts!Contains(v, "/")
    BY DEF Rts!Values
  <2>2. PICK i \in 0..Len(path), j \in 0..Len(path) : v = SubSeq(path, i + 1, j)
    BY <2>1 DEF Rts!SubSeqs
  <2>3. v \in Seq(Tokens)
    <3>1. i + 1 \in Int /\ j \in Int /\ \A k \in (i + 1)..j : path[k] \in Tokens
      OBVIOUS
    <3> QED BY <2>2, <3>1, SubSeqProperties
  <2>4. \A k \in 1..Len(v) : v[k] \in Inside
    BY <2>1, <2>3 DEF Rts!Contains, Tokens
  <2>5. v \in Seq(Inside)
    <3> HIDE DEF Rts!Values
    <3> QED BY <2>3, <2>4
  <2> QED BY <2>1, <2>5 DEF Segments
<1>2. ASSUME NEW v \in Segments, v \in Rts!SubSeqs(path) PROVE v \in Rts!Values(path)
  <2>1. v \in Seq(Inside) /\ v # <<>>
    BY SegmentsAre
  <2>2. \A k \in 1..Len(v) : v[k] # "/"
    BY <2>1, TokensAre
  <2> QED BY <1>2, <2>1, <2>2 DEF Rts!Values, Rts!Contains
<1> QED BY <1>1, <1>2

\* match_path's parts, and when it succeeds.
LEMMA MatchIs ==
  ASSUME NEW path \in Seq(Tokens), NEW p \in Patterns
  PROVE  /\ Rts!Parts(Rts!Clean(path)) \in Seq(Segments)
         /\ \A i \in DOMAIN Rts!Parts(Rts!Clean(path)) : Rts!Parts(Rts!Clean(path))[i] \in Rts!Values(path)
         /\ Rts!Plain(path) = Join(Rts!Parts(Rts!Clean(path)))
         /\ Rts!MatchPath(path, p).ok <=>
              /\ Len(Rts!Parts(Rts!Clean(path))) = Len(p)
              /\ Filled(p, Rts!Parts(Rts!Clean(path))) = Rts!Parts(Rts!Clean(path))
<1> DEFINE c == Rts!Clean(path)
           parts == Rts!Parts(c)
<1>1. c \in Seq(Tokens) /\ Rts!SubSeqs(c) \subseteq Rts!SubSeqs(path)
  BY CleanIs
<1>2. Rts!Plain(path) = Join(parts)
  BY <1>1, PlainJoins
<1>3. Rts!MatchPath(path, p).ok <=> /\ Len(parts) = Len(p)
                                    /\ \A i \in DOMAIN p : p[i].param \/ parts[i] = <<p[i].name>>
  BY DEF Rts!MatchPath
<1> HIDE DEF c
<1>4. parts \in Seq(Segments)
  BY <1>1, CutType
<1>5. \A i \in DOMAIN parts : parts[i] \in Rts!SubSeqs(c)
  BY <1>1, PartsAreWritten
<1> HIDE DEF parts
<1>6. \A i \in DOMAIN parts : parts[i] \in Segments /\ parts[i] \in Rts!Values(path)
  BY <1>1, <1>4, <1>5, ValuesAre
<1>7. ASSUME Len(parts) = Len(p)
      PROVE  (\A i \in DOMAIN p : p[i].param \/ parts[i] = <<p[i].name>>) <=> Filled(p, parts) = parts
  <2>1. DOMAIN parts = DOMAIN p
    BY <1>4, <1>7 DEF Patterns
  <2>2. parts = [i \in DOMAIN p |-> parts[i]]
    BY <1>4, <2>1
  <2>3. DOMAIN Filled(p, parts) = DOMAIN p
        /\ \A i \in DOMAIN p : Filled(p, parts)[i] = IF p[i].param THEN parts[i] ELSE <<p[i].name>>
    BY DEF Filled
  <2>4. ASSUME \A i \in DOMAIN p : p[i].param \/ parts[i] = <<p[i].name>> PROVE Filled(p, parts) = parts
    <3>1. \A i \in DOMAIN p : Filled(p, parts)[i] = parts[i]
      BY <2>3, <2>4
    <3>2. Filled(p, parts) = [i \in DOMAIN p |-> Filled(p, parts)[i]]
      BY DEF Filled
    <3> HIDE DEF Filled
    <3> QED BY <2>2, <3>1, <3>2
  <2>5. ASSUME Filled(p, parts) = parts, NEW i \in DOMAIN p, ~p[i].param PROVE parts[i] = <<p[i].name>>
    BY <2>3, <2>5
  <2> QED BY <2>4, <2>5
<1> QED BY <1>2, <1>3, <1>4, <1>6, <1>7 DEF parts, c

LEMMA MatchFits ==
  ASSUME NEW path \in Seq(Tokens), NEW p \in Patterns
  PROVE  Rts!MatchPath(path, p).ok <=>
           \E values \in [DOMAIN p -> Rts!Values(path)] : Rts!Written(p, values) = Rts!Plain(path)
<1> DEFINE parts == Rts!Parts(Rts!Clean(path))
<1>1. /\ parts \in Seq(Segments) /\ \A i \in DOMAIN parts : parts[i] \in Rts!Values(path)
      /\ Rts!Plain(path) = Join(parts)
      /\ Rts!MatchPath(path, p).ok <=> Len(parts) = Len(p) /\ Filled(p, parts) = parts
  BY MatchIs
<1>2. DOMAIN p = 1..Len(p) /\ Len(p) \in Nat
  BY DEF Patterns
<1> HIDE DEF parts
<1>3. ASSUME Len(parts) = Len(p), Filled(p, parts) = parts
      PROVE  \E values \in [DOMAIN p -> Rts!Values(path)] : Rts!Written(p, values) = Rts!Plain(path)
  <2>1. parts \in [DOMAIN p -> Rts!Values(path)]
    BY <1>1, <1>2, <1>3
  <2>2. Rts!Written(p, parts) = Rts!Plain(path)
    BY <1>1, <1>3, WrittenIs
  <2> QED BY <2>1, <2>2
<1>4. ASSUME NEW values \in [DOMAIN p -> Rts!Values(path)], Rts!Written(p, values) = Rts!Plain(path)
      PROVE  Len(parts) = Len(p) /\ Filled(p, parts) = parts
  <2> DEFINE w == Filled(p, values)
  <2>1. \A i \in DOMAIN p : values[i] \in Segments
    BY ValuesAre
  <2>2. w \in Seq(Segments) /\ Len(w) = Len(p)
    BY <2>1, FilledType
  <2>3. Join(w) = Join(parts)
    BY <1>1, <1>4, WrittenIs
  <2>4. w = parts
    <3>1. Rts!Parts(Join(w)) = w /\ Rts!Parts(Join(parts)) = parts
      BY <1>1, <2>2, CutOfJoin
    <3> QED BY <2>3, <3>1
  <2>5. Filled(p, w) = w
    <3>1. \A i \in DOMAIN p : w[i] = IF p[i].param THEN values[i] ELSE <<p[i].name>>
      BY DEF Filled
    <3>2. w = [i \in DOMAIN p |-> IF p[i].param THEN values[i] ELSE <<p[i].name>>]
      BY DEF Filled
    <3> HIDE DEF w
    <3>3. Filled(p, w) = [i \in DOMAIN p |-> IF p[i].param THEN w[i] ELSE <<p[i].name>>]
      BY DEF Filled
    <3> QED BY <3>1, <3>2, <3>3
  <2> QED BY <2>2, <2>4, <2>5
<1> QED BY <1>1, <1>3, <1>4

\* The parameters of a match, where no name comes twice, write the path.
LEMMA ParamsWrite ==
  ASSUME NEW path \in Seq(Tokens), NEW p \in Patterns, Rts!MatchPath(path, p).ok, Rts!NamesOnce(p), NEW values,
         values = [i \in DOMAIN p |-> IF p[i].param THEN Rts!MatchPath(path, p).params[p[i].name] ELSE <<>>]
  PROVE  Rts!Written(p, values) = Rts!Plain(path)
<1> DEFINE parts == Rts!Parts(Rts!Clean(path))
           At(x) == {i \in DOMAIN p : p[i] = Rts!Placeholder(x)}
           names == {p[i].name : i \in {j \in DOMAIN p : p[j].param}}
           params == Rts!MatchPath(path, p).params
<1>1. /\ Rts!Plain(path) = Join(parts) /\ Len(parts) = Len(p) /\ Filled(p, parts) = parts
  BY MatchIs
<1>2. params = [x \in names |-> parts[Rts!Max(At(x))]]
  <2>1. params = [x \in IF Rts!MatchPath(path, p).ok THEN names ELSE {} |-> parts[Rts!Max(At(x))]]
    BY DEF Rts!MatchPath
  <2> QED BY <2>1
<1> HIDE DEF parts, params
<1>3. DOMAIN p = 1..Len(p) /\ Len(p) \in Nat /\ \A i \in DOMAIN p : p[i] \in PatternPart
  BY DEF Patterns
<1>4. ASSUME NEW i \in DOMAIN p, p[i].param PROVE params[p[i].name] = parts[i]
  <2>1. p[i].name \in names
    BY <1>4
  <2>2. p[i] = Rts!Placeholder(p[i].name)
    BY <1>3, <1>4 DEF Rts!Placeholder, PatternPart
  <2>3. At(p[i].name) = {i}
    <3>1. \A j \in DOMAIN p : p[j] = Rts!Placeholder(p[i].name) => j = i
      BY <1>4, <2>2 DEF Rts!NamesOnce
    <3> QED BY <2>2, <3>1
  <2>4. Rts!Max({i}) = i
    BY <1>3 DEF Rts!Max
  <2> HIDE DEF names, At
  <2> QED BY <1>2, <2>1, <2>3, <2>4
<1>5. Filled(p, values) = Filled(p, parts)
  <2>1. \A i \in DOMAIN p : (IF p[i].param THEN values[i] ELSE <<p[i].name>>) = (IF p[i].param THEN parts[i] ELSE <<p[i].name>>)
    BY <1>4 DEF params
  <2> QED BY <2>1 DEF Filled
<1> QED BY <1>1, <1>5, WrittenIs

-----------------------------------------------------------------------------
(* The last of several equal keys.                                         *)

LEMMA LastOfKey ==
  ASSUME NEW T, NEW pairs \in Seq(T)
  PROVE  /\ DOMAIN Rts!ParseQuery(pairs) = {pairs[i].key : i \in {j \in DOMAIN pairs : pairs[j].eq}}
         /\ \A a \in DOMAIN pairs : pairs[a].eq =>
              \/ Rts!ParseQuery(pairs)[pairs[a].key] = pairs[a].value
              \/ \E b \in DOMAIN pairs : pairs[b].eq /\ b > a /\ pairs[b].key = pairs[a].key
<1> DEFINE S == {p \in Rts!Range(pairs) : p.eq}
           keyed == Sifted(pairs, S)
           At(k) == {i \in DOMAIN keyed : keyed[i].key = k}
           keys == {keyed[i].key : i \in DOMAIN keyed}
           q == Rts!ParseQuery(pairs)
<1>1. \A a \in DOMAIN pairs : pairs[a] \in S <=> pairs[a].eq
  BY DEF Rts!Range
<1>2. Rts!Only(pairs, S) = keyed
  BY DEF Rts!Only, Sifted
<1>3. q = [k \in keys |-> keyed[Rts!Max(At(k))].value]
  BY <1>2 DEF Rts!ParseQuery
<1> HIDE DEF S
<1>4. /\ keyed \in Seq(T)
      /\ \A i \in DOMAIN keyed : keyed[i] \in S /\ \E a \in DOMAIN pairs : keyed[i] = pairs[a]
      /\ \A a \in DOMAIN pairs : pairs[a] \in S => \E i \in DOMAIN keyed : keyed[i] = pairs[a]
  BY SiftedOrder
<1>5. \A a \in DOMAIN pairs : pairs[a] \in S =>
           \E i \in DOMAIN keyed :
             /\ keyed[i] = pairs[a]
             /\ \A j \in DOMAIN keyed : j > i => \E b \in DOMAIN pairs : b > a /\ pairs[b] = keyed[j]
  BY SiftedLater
<1> HIDE DEF keyed, q
<1>6. DOMAIN q = {pairs[i].key : i \in {j \in DOMAIN pairs : pairs[j].eq}}
  <2>1. keys = {pairs[i].key : i \in {j \in DOMAIN pairs : pairs[j].eq}}
    BY <1>1, <1>4
  <2> QED BY <1>3, <2>1
<1>7. ASSUME NEW a \in DOMAIN pairs, pairs[a].eq
      PROVE  \/ q[pairs[a].key] = pairs[a].value
             \/ \E b \in DOMAIN pairs : pairs[b].eq /\ b > a /\ pairs[b].key = pairs[a].key
  <2>1. PICK i \in DOMAIN keyed :
             /\ keyed[i] = pairs[a]
             /\ \A j \in DOMAIN keyed : j > i => \E b \in DOMAIN pairs : b > a /\ pairs[b] = keyed[j]
    BY <1>1, <1>5, <1>7
  <2> DEFINE k == pairs[a].key
             I == At(k)
  <2>2. i \in I /\ I \in SUBSET (1..Len(keyed)) /\ Len(keyed) \in Nat /\ DOMAIN keyed = 1..Len(keyed)
    <3>1. Len(keyed) \in Nat /\ DOMAIN keyed = 1..Len(keyed)
      BY <1>4
    <3>2. i \in I
      BY <2>1
    <3>3. I \subseteq DOMAIN keyed
      OBVIOUS
    <3> QED BY <3>1, <3>2, <3>3
  <2> HIDE DEF At
  <2>3. PICK x \in I : \A y \in I : y <= x
    <3> HIDE DEF I
    <3> QED BY <2>2, Greatest
  <2>4. Rts!Max(I) = x
    <3> HIDE DEF I
    <3> QED BY <2>2, <2>3 DEF Rts!Max
  <2>5. k \in keys /\ q[k] = keyed[x].value
    <3>1. k \in keys
      BY <2>1
    <3> HIDE DEF keys, k
    <3> QED BY <1>3, <2>4, <3>1
  <2>6. x \in DOMAIN keyed /\ keyed[x].key = k /\ i <= x /\ i \in Nat /\ x \in Nat
    BY <2>2, <2>3 DEF At
  <2>7. CASE x = i
    BY <2>1, <2>5, <2>7
  <2>8. CASE x # i
    <3>1. x > i
      BY <2>6, <2>8
    <3>2. PICK b \in DOMAIN pairs : b > a /\ pairs[b] = keyed[x]
      BY <2>1, <2>6, <3>1
    <3>3. pairs[b].eq
      BY <1>1, <1>4, <2>6, <3>2
    <3> QED BY <2>6, <3>2, <3>3
  <2> QED BY <2>7, <2>8
<1> QED BY <1>6, <1>7 DEF q

-----------------------------------------------------------------------------
(* What a request gets is what RouteChosen says.                           *)

LEMMA RouteTypes ==
  ASSUME RouteInv, where # "idle"
  PROVE  /\ request.path \in Seq(Tokens)
         /\ request.query \in Seq([key : STRING, value : STRING, eq : BOOLEAN])
         /\ \A i \in DOMAIN routes : routes[i].pattern \in Patterns
<1>1. request \in Asked /\ routes \in Seq(Routes)
  BY DEF RouteInv, Rts!TypeOK
<1>2. request.path \in Seq(STRING) /\ request.query \in Seq([key : STRING, value : STRING, eq : BOOLEAN])
  BY <1>1, RoutesAssumption
<1>3. request.path \in Seq(Tokens)
  <2> DEFINE p == request.path
             S == STRING
  <2>1. p \in Seq(S) /\ S \subseteq Tokens
    BY <1>2, TokensAre
  <2> HIDE DEF p, S
  <2>2. p \in Seq(Tokens)
    BY <2>1, SeqMonotonic
  <2> QED BY <2>2 DEF p
<1>4. \A i \in DOMAIN routes : routes[i].pattern \in Patterns
  <2>1. \A i \in DOMAIN routes : routes[i] \in Routes
    BY <1>1
  <2>2. \A rt \in Routes : rt.pattern \in Patterns
    BY RoutesAssumption DEF Patterns, PatternPart, Inside
  <2> QED BY <2>1, <2>2
<1> QED BY <1>2, <1>3, <1>4

LEMMA FitIsFits ==
  ASSUME RouteInv, where # "idle", NEW i \in DOMAIN routes
  PROVE  Rts!Fits(routes[i]) <=> Fit(routes, request, i)
<1>1. request.path \in Seq(Tokens) /\ routes[i].pattern \in Patterns
  BY RouteTypes
<1>2. Rts!MatchPath(request.path, routes[i].pattern).ok <=>
           \E values \in [DOMAIN routes[i].pattern -> Rts!Values(request.path)] :
             Rts!Written(routes[i].pattern, values) = Rts!Plain(request.path)
  BY <1>1, MatchFits
<1> QED BY <1>2 DEF Rts!Fits, Fit

LEMMA RouteChosenHolds == RouteInv => Rts!RouteChosen
<1> SUFFICES ASSUME RouteInv, where = "ended" PROVE Rts!RouteChosen
  BY DEF Rts!RouteChosen
<1> DEFINE fits == {i \in DOMAIN routes : Rts!Fits(routes[i])}
           o == routed
           pattern == routes[o.route].pattern
           values == [i \in DOMAIN pattern |-> IF pattern[i].param THEN o.params[pattern[i].name] ELSE <<>>]
           pairs == {i \in DOMAIN request.query : request.query[i].eq}
<1>1. PICK n \in known..Len(routes) : Decided(routes, request, routed, n)
  BY DEF RouteInv
<1>2. n \in Nat /\ known <= n /\ Len(routes) \in Nat /\ DOMAIN routes = 1..Len(routes)
      /\ \A i \in 1..n : i \in DOMAIN routes
  BY DEF RouteInv, Rts!TypeOK
<1> DEFINE F == FitsUpTo(routes, request, n)
<1>3. \A i \in DOMAIN routes : i \in fits <=> Fit(routes, request, i)
  BY FitIsFits
<1>4. F \subseteq fits /\ \A i \in fits : i \in F \/ i > n
  <2>1. \A i \in DOMAIN routes : i \in 1..n \/ i > n
    BY <1>2
  <2> HIDE DEF RouteInv
  <2> QED BY <1>2, <1>3, <2>1 DEF FitsUpTo
<1>5. \/ IsChat(request) /\ o = Plainly(IF request.key THEN "builtin" ELSE "unauthorized")
      \/ /\ ~IsChat(request) /\ (request.method \notin Rts!Dispatched \/ F = {})
         /\ o = BuiltIn(request)
      \/ ~request.key /\ o = Plainly("unauthorized")
      \/ /\ request.key
         /\ \E i \in F : (\A k \in F : i <= k) /\ o = ByRoute(routes, request, i)
  BY <1>1 DEF Decided
<1> HIDE DEF F, fits
<1>6. CASE \E i \in F : (\A k \in F : i <= k) /\ request.key /\ o = ByRoute(routes, request, i)
  <2>1. PICK i \in F : (\A k \in F : i <= k) /\ request.key /\ o = ByRoute(routes, request, i)
    BY <1>6
  <2>2. /\ o.kind = "handled" /\ o.route = i
        /\ o.params = Rts!MatchPath(request.path, routes[i].pattern).params
        /\ o.query = Rts!ParseQuery(request.query)
    BY <2>1 DEF ByRoute, Rts!Outcome
  <2>3. i \in fits /\ i \in DOMAIN routes /\ i \in 1..n /\ Rts!MatchPath(request.path, routes[i].pattern).ok
    BY <1>2, <1>4 DEF F, FitsUpTo, Fit
  <2>4. \A k \in fits : i <= k
    <3>1. \A k \in fits : k \in Nat
      BY <1>2 DEF fits
    <3> QED BY <1>2, <1>4, <2>1, <2>3, <3>1
  <2>5. Rts!NamesOnce(pattern) => Rts!Written(pattern, values) = Rts!Plain(request.path)
    <3> SUFFICES ASSUME Rts!NamesOnce(pattern) PROVE Rts!Written(pattern, values) = Rts!Plain(request.path)
      OBVIOUS
    <3>1. request.path \in Seq(Tokens) /\ pattern \in Patterns
      BY <2>2, <2>3, RouteTypes
    <3>2. Rts!MatchPath(request.path, pattern).ok /\ o.params = Rts!MatchPath(request.path, pattern).params
      BY <2>2, <2>3
    <3>3. values = [x \in DOMAIN pattern |-> IF pattern[x].param THEN Rts!MatchPath(request.path, pattern).params[pattern[x].name] ELSE <<>>]
      BY <3>2
    <3> HIDE DEF pattern, values
    <3> QED BY <3>1, <3>2, <3>3, ParamsWrite
  <2>6. /\ DOMAIN o.query = {request.query[x].key : x \in pairs}
        /\ \A x \in pairs : o.query[request.query[x].key] = request.query[x].value
                            \/ \E j \in pairs : j > x /\ request.query[j].key = request.query[x].key
    <3>1. request.query \in Seq([key : STRING, value : STRING, eq : BOOLEAN])
      BY RouteTypes
    <3> DEFINE query == request.query
    <3> HIDE DEF query
    <3>2. /\ DOMAIN Rts!ParseQuery(query) = {query[x].key : x \in {j \in DOMAIN query : query[j].eq}}
          /\ \A a \in DOMAIN query : query[a].eq =>
               \/ Rts!ParseQuery(query)[query[a].key] = query[a].value
               \/ \E b \in DOMAIN query : query[b].eq /\ b > a /\ query[b].key = query[a].key
      BY <3>1, LastOfKey DEF query
    <3> QED BY <2>2, <3>2 DEF query
  <2> HIDE DEF pairs, values
  <2> QED BY <2>1, <2>2, <2>3, <2>4, <2>5, <2>6 DEF Rts!RouteChosen, Rts!AuthOk, fits, pairs, values
<1>7. CASE \/ IsChat(request) /\ o = Plainly(IF request.key THEN "builtin" ELSE "unauthorized")
           \/ ~request.key /\ o = Plainly("unauthorized")
  <2>1. \/ o.kind = "builtin" /\ IsChat(request)
        \/ o.kind = "unauthorized" /\ ~request.key
    BY <1>7 DEF Plainly, Rts!Outcome
  <2> QED BY <2>1 DEF Rts!RouteChosen, IsChat
<1>8. CASE ~IsChat(request) /\ (request.method \notin Rts!Dispatched \/ F = {}) /\ o = BuiltIn(request)
  <2>1. \/ o.kind = "notFound"
        \/ o.kind = "unauthorized" /\ ~request.key
        \/ o.kind = "builtin" /\ request.method \in {"GET", "HEAD"}
    BY <1>8 DEF BuiltIn, Plainly, Rts!Outcome
  <2>2. F = {} => \A i \in fits : i > known
    <3>1. \A i \in fits : i \in Nat
      BY <1>2 DEF fits
    <3>2. known \in Nat
      BY DEF RouteInv, Rts!TypeOK
    <3> QED BY <1>2, <1>4, <3>1, <3>2
  <2>3. request.method = "GET" => request.method \in Rts!Dispatched
    BY DEF Rts!Dispatched
  <2> QED BY <1>8, <2>1, <2>2, <2>3 DEF Rts!RouteChosen, fits
<1> QED BY <1>5, <1>6, <1>7, <1>8

\* The route that answers a request, and what it is given.
THEOREM RoutesAreChosen == MCSpec => []RoutesChosen
<1> DEFINE I == RouteInv
<1>1. MCInit => I
  BY RouteInit DEF MCInit
<1>2. I /\ [MCNext]_all => I'
  BY RoutesCarry
<1>3. I => RoutesChosen
  BY RouteChosenHolds DEF RoutesChosen
<1> HIDE DEF I
<1> QED BY <1>1, <1>2, <1>3, PTL DEF MCSpec
=============================================================================

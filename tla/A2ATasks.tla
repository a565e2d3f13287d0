------------------------------- MODULE A2ATasks -------------------------------
(***************************************************************************)
(* The tasks of an A2AServer as its clients see them: tasks/send,          *)
(* tasks/sendSubscribe, tasks/get and tasks/cancel over the map            *)
(* Impl::tasks, with a plain handler or a streaming one.                   *)
(*                                                                         *)
(* A task enters the map only when its handler has returned, and a resent  *)
(* id replaces what is there.  The handler may return a task under another *)
(* id.  A client is an A2AClient in one call at a time.                    *)
(***************************************************************************)
CONSTANTS Ids, Clients, None

States == {"pending", "working", "input-required", "completed", "failed", "canceled"}
(* What the handlers of these instances answer.                            *)
Results == {"completed", "failed", "input-required"}

VARIABLES
  streaming,  \* the server was built with a StreamTaskHandler
  tasks,      \* the map: a state, or None
  pc,         \* where the call of client c is
  subscribed, \* c called send_task_stream
  result,     \* [id, state] the handler returned for c, or None
  frame,      \* the last update c received: [id, state], or None
  outcome,    \* how the last call of c ended
  settled     \* ids a cancel was acknowledged for while no task was being handled, since when none was sent

vars == <<streaming, tasks, pc, subscribed, result, frame, outcome, settled>>

Tasks == [id : Ids \cup {"none"}, state : States]

(* The record of an {"error": ...} frame, as the client parses it.         *)
ErrorTask == [id |-> "none", state |-> "pending"]

(* Every variable keeps its type.                                          *)
TypeOK ==
  /\ streaming \in BOOLEAN
  /\ tasks \in [Ids -> (States \ {"pending"}) \cup {None}]
  /\ pc \in [Clients -> {"idle", "running", "storing", "replying", "streamed", "returned"}]
  /\ subscribed \in [Clients -> BOOLEAN]
  /\ result \in [Clients -> Tasks \cup {None}]
  /\ frame \in [Clients -> Tasks \cup {None}]
  /\ outcome \in [Clients -> {"none", "ok", "failed", "aborted"}]
  /\ settled \subseteq Ids

Init ==
  /\ streaming \in BOOLEAN
  /\ tasks = [id \in Ids |-> None]
  /\ pc = [c \in Clients |-> "idle"]
  /\ subscribed = [c \in Clients |-> FALSE]
  /\ result = [c \in Clients |-> None]
  /\ frame = [c \in Clients |-> None]
  /\ outcome = [c \in Clients |-> "none"]
  /\ settled = {}

Goto(c, from, to) == pc[c] = from /\ pc' = [pc EXCEPT ![c] = to]
Outcome(c, o) == outcome' = [outcome EXCEPT ![c] = o]
(* A client that gave up reads nothing more.                               *)
Frame(c, t) == frame' = IF outcome[c] = "aborted" THEN frame ELSE [frame EXCEPT ![c] = t]

Handling == \E c \in Clients : pc[c] \in {"running", "storing"}

-----------------------------------------------------------------------------
Send(c, stream) ==
  /\ Goto(c, "idle", "running")
  /\ subscribed' = [subscribed EXCEPT ![c] = stream]
  /\ result' = [result EXCEPT ![c] = None]
  /\ frame' = [frame EXCEPT ![c] = None]
  /\ Outcome(c, "none")
  /\ settled' = {}
  /\ UNCHANGED <<streaming, tasks>>

(* A streaming handler reports progress; without a subscriber nobody       *)
(* hears it.  The result of the write is ignored.                          *)
Update(c) ==
  /\ streaming /\ subscribed[c] /\ pc[c] = "running"
  /\ \E id \in Ids : Frame(c, [id |-> id, state |-> "working"])
  /\ UNCHANGED <<streaming, tasks, pc, subscribed, result, outcome, settled>>

(* The handler returns.  What a plain handler returns is the subscriber's  *)
(* only update, and is sent before it is stored.                           *)
HandlerReturns(c, id, s) ==
  /\ Goto(c, "running", "storing")
  /\ result' = [result EXCEPT ![c] = [id |-> id, state |-> s]]
  /\ IF subscribed[c] /\ ~streaming THEN Frame(c, [id |-> id, state |-> s]) ELSE UNCHANGED frame
  /\ UNCHANGED <<streaming, tasks, subscribed, outcome, settled>>

(* An exception, of the handler or of an update that cannot be serialised: *)
(* 500, or an error frame and the end of the stream.  Nothing is stored.   *)
HandlerThrows(c) ==
  /\ IF subscribed[c]
     THEN Goto(c, "running", "streamed") /\ Frame(c, ErrorTask) /\ UNCHANGED outcome
     ELSE Goto(c, "running", "returned") /\ Outcome(c, "failed") /\ UNCHANGED frame
  /\ UNCHANGED <<streaming, tasks, subscribed, result, settled>>

(* The server stops before the stream was started: the connection is       *)
(* closed without an end and the handler never runs.                       *)
StreamDropped(c) ==
  /\ subscribed[c] /\ frame[c] = None
  /\ Goto(c, "running", "returned")
  /\ Outcome(c, "failed")
  /\ UNCHANGED <<streaming, tasks, subscribed, result, frame, settled>>

\* Mutation: a result is stored only while somebody listens.
StoreIfHeard(c) ==
  /\ Goto(c, "storing", IF subscribed[c] THEN "streamed" ELSE "replying")
  /\ tasks' = IF frame[c] # None \/ ~subscribed[c]
              THEN [tasks EXCEPT ![result[c].id] = result[c].state] ELSE tasks
  /\ UNCHANGED <<streaming, subscribed, result, frame, outcome, settled>>

\* Mutation: the task is entered as it came, not as the handler returned it.
StoreIncoming(c) ==
  /\ Goto(c, "storing", IF subscribed[c] THEN "streamed" ELSE "replying")
  /\ tasks' = [tasks EXCEPT ![result[c].id] = "pending"]
  /\ UNCHANGED <<streaming, subscribed, result, frame, outcome, settled>>

(* Under mu: store, and for a stream done().                               *)
Store(c) ==
  /\ Goto(c, "storing", IF subscribed[c] THEN "streamed" ELSE "replying")
  /\ tasks' = [tasks EXCEPT ![result[c].id] = result[c].state]
  /\ UNCHANGED <<streaming, subscribed, result, frame, outcome, settled>>

(* The stored task is serialised, which may fail.                          *)
Reply(c) ==
  /\ Goto(c, "replying", "returned")
  /\ \E o \in {"ok", "failed"} : Outcome(c, o)
  /\ UNCHANGED <<streaming, tasks, subscribed, result, frame, settled>>

(* on_update returns false: the client closes the connection and, when the *)
(* call is over, throws.                                                   *)
Abort(c) ==
  /\ subscribed[c] /\ frame[c] # None /\ outcome[c] = "none"
  /\ pc[c] \in {"running", "storing", "streamed"}
  /\ Outcome(c, "aborted")
  /\ UNCHANGED <<streaming, tasks, pc, subscribed, result, frame, settled>>

StreamEnds(c) ==
  /\ Goto(c, "streamed", "returned")
  /\ IF outcome[c] = "aborted" THEN UNCHANGED outcome ELSE Outcome(c, "ok")
  /\ UNCHANGED <<streaming, tasks, subscribed, result, frame, settled>>

Again(c) ==
  /\ Goto(c, "returned", "idle")
  /\ UNCHANGED <<streaming, tasks, subscribed, result, frame, outcome, settled>>

\* Mutation: only a task at work is cancelled.
CancelWorking(c, id) ==
  /\ pc[c] = "idle" /\ tasks[id] # None
  /\ tasks' = IF tasks[id] = "input-required" THEN [tasks EXCEPT ![id] = "canceled"] ELSE tasks
  /\ settled' = IF Handling THEN settled ELSE settled \cup {id}
  /\ UNCHANGED <<streaming, pc, subscribed, result, frame, outcome>>

(* Whatever its state.  An id that is not in the map, that of a running    *)
(* task included, is answered with 404.                                    *)
Cancel(c, id) ==
  /\ pc[c] = "idle" /\ tasks[id] # None
  /\ tasks' = [tasks EXCEPT ![id] = "canceled"]
  /\ settled' = IF Handling THEN settled ELSE settled \cup {id}
  /\ UNCHANGED <<streaming, pc, subscribed, result, frame, outcome>>

Next ==
  \E c \in Clients :
    \/ \E stream \in BOOLEAN : Send(c, stream)
    \/ Update(c)
    \/ \E id \in Ids, s \in Results : HandlerReturns(c, id, s)
    \/ HandlerThrows(c) \/ StreamDropped(c)
    \/ Store(c) \/ Reply(c) \/ Abort(c) \/ StreamEnds(c) \/ Again(c)
    \/ \E id \in Ids : Cancel(c, id)

Spec == Init /\ [][Next]_vars

-----------------------------------------------------------------------------
(* A call that returned normally left its task in the map, where tasks/get *)
(* finds it from then on -- unless the last update was the empty task that *)
(* an error frame becomes.                                                 *)
ReturnedMeansKnown ==
  \A c \in Clients : outcome[c] = "ok" /\ frame[c] # ErrorTask =>
    result[c] # None /\ tasks[result[c].id] # None

(* An acknowledged cancel is what tasks/get answers, until a task is sent, *)
(* if no handler was running at the time.                                  *)
CancelHolds == \A id \in settled : tasks[id] = "canceled"
=============================================================================

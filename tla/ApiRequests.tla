------------------------------ MODULE ApiRequests ------------------------------
(***************************************************************************)
(* What ApiServer does with a request: a custom route (dispatch_custom,    *)
(* events BeforeApi and AfterApi) or a chat completion (BeforeLLM and      *)
(* AfterLLM), answered at once or as a stream of server-sent events.       *)
(*                                                                         *)
(* Several requests run at a time on httplib's threads.  hooks_ is read    *)
(* anew for the call id, for Before and for After, without mu_.  A stream  *)
(* is produced by a content provider that httplib calls until done() was   *)
(* called, the peer is gone, or the server is stopping.                    *)
(***************************************************************************)
EXTENDS Naturals

CONSTANTS Requests, Managers, NoHooks, MaxRuns

Kinds == {"custom", "chat"}

VARIABLES
  hooks,      \* ApiServer::hooks_
  stopping,   \* httplib's socket is closed
  pc,         \* where request r is
  kind,       \* what r asks for
  callId,     \* the manager that issued r's call id, or NoHooks for "anon"
  before,     \* the manager that got Before of r, or NoHooks
  after,      \* how often manager m got After of r
  runs,       \* how often the stream handler of r was entered
  open,       \* the response has not been terminated by done()
  late,       \* frames or done() came after done()
  peer,       \* the client of r is connected
  excuse      \* what happened to r that leaves its events unpaired

vars == <<hooks, stopping, pc, kind, callId, before, after, runs, open, late, peer, excuse>>

Excuses == {"rehooked", "dropped", "escaped", "undone", "misused"}

(* Every variable keeps its type.                                          *)
TypeOK ==
  /\ hooks \in Managers \cup {NoHooks}
  /\ stopping \in BOOLEAN
  /\ pc \in [Requests -> {"idle", "arrived", "before", "handling", "closing",
                          "provider", "streaming", "doneCalled", "streamed", "ended", "terminated"}]
  /\ kind \in [Requests -> Kinds]
  /\ callId \in [Requests -> Managers \cup {NoHooks}]
  /\ before \in [Requests -> Managers \cup {NoHooks}]
  /\ after \in [Requests -> [Managers -> 0..MaxRuns]]
  /\ runs \in [Requests -> 0..MaxRuns]
  /\ {open, late, peer} \subseteq [Requests -> BOOLEAN]
  /\ excuse \in [Requests -> SUBSET Excuses]

Init ==
  /\ hooks \in Managers \cup {NoHooks}
  /\ stopping = FALSE
  /\ pc = [r \in Requests |-> "idle"]
  /\ kind \in [Requests -> Kinds]
  /\ callId = [r \in Requests |-> NoHooks]
  /\ before = [r \in Requests |-> NoHooks]
  /\ after = [r \in Requests |-> [m \in Managers |-> 0]]
  /\ runs = [r \in Requests |-> 0]
  /\ open = [r \in Requests |-> TRUE]
  /\ late = [r \in Requests |-> FALSE]
  /\ peer = [r \in Requests |-> TRUE]
  /\ excuse = [r \in Requests |-> {}]

Goto(r, from, to) == pc[r] = from /\ pc' = [pc EXCEPT ![r] = to]
Excused(r, why) == excuse' = [excuse EXCEPT ![r] = @ \cup {why}]

stream == <<runs, open, late>>
events == <<callId, before, after>>
world == <<hooks, stopping, kind, peer>>

-----------------------------------------------------------------------------
(* The world around the requests.                                          *)

SetHooks(m) ==
  /\ m # hooks
  /\ hooks' = m
  /\ excuse' = [r \in Requests |->
       IF pc[r] \in {"idle", "arrived", "ended"} THEN excuse[r] ELSE excuse[r] \cup {"rehooked"}]
  /\ UNCHANGED <<stopping, pc, kind, events, stream, peer>>

StopServer ==
  /\ ~stopping
  /\ stopping' = TRUE
  /\ UNCHANGED <<hooks, pc, kind, events, stream, peer, excuse>>

PeerLeaves(r) ==
  /\ pc[r] \in {"provider", "streaming"} /\ peer[r]
  /\ peer' = [peer EXCEPT ![r] = FALSE]
  /\ UNCHANGED <<hooks, stopping, pc, kind, events, stream, excuse>>

-----------------------------------------------------------------------------
(* The route handler.                                                      *)

Arrive(r) ==
  /\ ~stopping
  /\ Goto(r, "idle", "arrived")
  /\ UNCHANGED <<world, events, stream, excuse>>

(* 401, 400 for invalid JSON, 404: no event.  For a chat the call id was   *)
(* drawn already, which nothing observes.                                  *)
Rejected(r) ==
  /\ Goto(r, "arrived", "ended")
  /\ UNCHANGED <<world, events, stream, excuse>>

TakeCallId(r) ==
  /\ Goto(r, "arrived", "before")
  /\ callId' = [callId EXCEPT ![r] = hooks]
  /\ UNCHANGED <<world, before, after, stream, excuse>>

FireBefore(r) ==
  /\ Goto(r, "before", "handling")
  /\ before' = [before EXCEPT ![r] = hooks]
  /\ UNCHANGED <<world, callId, after, stream, excuse>>

\* Mutation: an exception leaves the handler before AfterApi.
AnsweredOrThrown(r) ==
  /\ \/ Goto(r, "handling", "closing")
     \/ Goto(r, "handling", "ended")
  /\ UNCHANGED <<world, events, stream, excuse>>

(* The handler, agent or backend answers, or throws and is answered with   *)
(* 500; decode_request refuses a chat with 400.                            *)
Answered(r) ==
  /\ Goto(r, "handling", "closing")
  /\ UNCHANGED <<world, events, stream, excuse>>

(* httplib answers 500 to what leaves the route handler: of a chat, which  *)
(* catches std::exception only around its backend and memory resolver, any *)
(* other exception; and of every kind the exception that dump() throws in  *)
(* a catch block, at the what() of the first one that is not UTF-8.        *)
Escapes(r) ==
  /\ Goto(r, "handling", "ended")
  /\ Excused(r, "escaped")
  /\ UNCHANGED <<world, events, stream>>

BecomesStream(r) ==
  /\ Goto(r, "handling", "provider")
  /\ UNCHANGED <<world, events, stream, excuse>>

-----------------------------------------------------------------------------
(* httplib's loop around the content provider.                             *)

Dropped(r) ==
  /\ stopping \/ ~peer[r]
  /\ Goto(r, "provider", "ended")
  /\ excuse' = IF runs[r] = 0 THEN [excuse EXCEPT ![r] = @ \cup {"dropped"}] ELSE excuse
  /\ UNCHANGED <<world, events, stream>>

ProviderCalled(r) ==
  /\ ~stopping /\ peer[r]
  /\ runs[r] < MaxRuns
  /\ Goto(r, "provider", "streaming")
  /\ runs' = [runs EXCEPT ![r] = @ + 1]
  /\ UNCHANGED <<world, events, open, late, excuse>>

(* sink.done(): it ends the response unless an earlier write failed.       *)
Terminate(r) ==
  /\ open' = [open EXCEPT ![r] = FALSE]
  /\ late' = [late EXCEPT ![r] = @ \/ ~open[r]]

HandlerDone(r) ==
  /\ kind[r] = "custom"
  /\ Goto(r, "streaming", "doneCalled")
  /\ Terminate(r)
  /\ UNCHANGED <<world, events, runs, excuse>>

HandlerReturns(r) ==
  /\ kind[r] = "custom"
  /\ \/ Goto(r, "doneCalled", "streamed") /\ UNCHANGED excuse
     \/ Goto(r, "streaming", "streamed") /\ Excused(r, "undone")
  /\ UNCHANGED <<world, events, stream>>

\* Mutation: the wrapper leaves done() to the handler.
HandlerThrowsOpen(r) ==
  /\ kind[r] = "custom"
  /\ \/ Goto(r, "streaming", "streamed") /\ UNCHANGED excuse
     \/ Goto(r, "doneCalled", "streamed") /\ Excused(r, "misused")
  /\ UNCHANGED <<world, events, stream>>

(* The wrapper reports the exception as a frame and calls done(), whether  *)
(* or not the handler did.                                                 *)
HandlerThrows(r) ==
  /\ kind[r] = "custom"
  /\ \/ Goto(r, "streaming", "streamed") /\ UNCHANGED excuse
     \/ Goto(r, "doneCalled", "streamed") /\ Excused(r, "misused")
  /\ Terminate(r)
  /\ UNCHANGED <<world, events, runs>>

\* Mutation: a second done() after the one of the inner handler.
ChatStreamsTwice(r) ==
  /\ kind[r] = "chat"
  /\ Goto(r, "streaming", "streamed")
  /\ open' = [open EXCEPT ![r] = FALSE]
  /\ late' = [late EXCEPT ![r] = TRUE]
  /\ UNCHANGED <<world, events, runs, excuse>>

(* dump() throws in the wrapper's catch block, as in Escapes.  Neither the *)
(* provider nor httplib's pool thread catches that: the process ends.      *)
HandlerTerminates(r) ==
  /\ kind[r] = "custom"
  /\ \/ Goto(r, "streaming", "terminated")
     \/ Goto(r, "doneCalled", "terminated")
  /\ UNCHANGED <<world, events, stream, excuse>>

(* A chat stream ends with done() whether its backend returned or threw a  *)
(* std::exception; anything else, and what dump() throws at a what() that  *)
(* is not UTF-8, is caught by the provider, which terminates the response  *)
(* and fires nothing.                                                      *)
ChatStreams(r) ==
  /\ kind[r] = "chat"
  /\ Goto(r, "streaming", "streamed")
  /\ Terminate(r)
  /\ UNCHANGED <<world, events, runs, excuse>>

ChatStreamEscapes(r) ==
  /\ kind[r] = "chat"
  /\ Goto(r, "streaming", "ended")
  /\ Terminate(r)
  /\ Excused(r, "escaped")
  /\ UNCHANGED <<world, events, runs>>

\* Mutation: also to the manager that got Before.
FireAfterBoth(r) ==
  after' = [after EXCEPT ![r] = [m \in Managers |->
              IF m \in {hooks, before[r]} /\ @[m] < MaxRuns THEN @[m] + 1 ELSE @[m]]]

(* After, to the manager installed now.                                    *)
FireAfter(r) ==
  after' = IF hooks = NoHooks THEN after ELSE [after EXCEPT ![r][hooks] = @ + 1]

AfterAnswer(r) ==
  /\ Goto(r, "closing", "ended")
  /\ FireAfter(r)
  /\ UNCHANGED <<world, callId, before, stream, excuse>>

(* on_complete, and back to httplib's loop.                                *)
AfterStream(r) ==
  /\ Goto(r, "streamed", IF open[r] THEN "provider" ELSE "ended")
  /\ FireAfter(r)
  /\ UNCHANGED <<world, callId, before, stream, excuse>>

HandlerStep(r) ==
  \/ HandlerDone(r) \/ HandlerReturns(r) \/ HandlerThrows(r) \/ HandlerTerminates(r)
  \/ ChatStreams(r) \/ ChatStreamEscapes(r)

RequestStep(r) ==
  \/ PeerLeaves(r) \/ Arrive(r) \/ Rejected(r) \/ TakeCallId(r) \/ FireBefore(r)
  \/ Answered(r) \/ Escapes(r) \/ BecomesStream(r)
  \/ Dropped(r) \/ ProviderCalled(r) \/ HandlerStep(r)
  \/ AfterAnswer(r) \/ AfterStream(r)

Alive == \A r \in Requests : pc[r] # "terminated"

Next ==
  /\ Alive
  /\ \/ \E m \in Managers \cup {NoHooks} : SetHooks(m)
     \/ StopServer
     \/ \E r \in Requests : RequestStep(r)

Spec == Init /\ [][Next]_vars

-----------------------------------------------------------------------------
(* A request that ended has given After, once, to the manager that issued  *)
(* its call id and got its Before, and to nobody else.  The exceptions:    *)
(* set_hooks ran in between; the stream was dropped before its handler     *)
(* ran; a chat threw something that is no std::exception, or a route or a  *)
(* chat one whose what() is not UTF-8; or the stream handler returned      *)
(* without done() and was called again.  Even when set_hooks runs in       *)
(* between, After reaches at most one manager, unless the handler was      *)
(* called again.                                                           *)
EventsPaired ==
  \A r \in Requests :
    /\ pc[r] = "ended" /\ excuse[r] \cap {"rehooked", "dropped", "escaped", "undone"} = {} =>
         /\ before[r] = callId[r]
         /\ \A m \in Managers : after[r][m] = (IF m = before[r] THEN 1 ELSE 0)
    /\ "undone" \notin excuse[r] =>
         \A m, n \in Managers : after[r][m] > 0 /\ after[r][n] > 0 => m = n

(* A stream handler is entered once, unless it returned without done(); and*)
(* "After this, no further writes are allowed": the server itself obeys,   *)
(* unless the handler throws after its done().                             *)
StreamEndsOnce ==
  \A r \in Requests :
    /\ "undone" \notin excuse[r] => runs[r] <= 1
    /\ "misused" \notin excuse[r] => ~late[r]
=============================================================================

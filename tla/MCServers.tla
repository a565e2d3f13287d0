------------------------------- MODULE MCServers -------------------------------
(***************************************************************************)
(* The server side: the lifecycles of ApiServer and McpServer, the         *)
(* requests, routes and chats of ApiServer, the sessions (extended here)   *)
(* and the tasks of A2AServer.  choice says which one runs; the others'    *)
(* variables keep their values.                                            *)
(***************************************************************************)
EXTENDS ChatSessions

CONSTANTS Owner, Stoppers, SlowStart, Requests, Managers, NoHooks, MaxRuns, Ids, Clients, Routes, Asked, MaxRoutes, MaxMessages, MaxTold

VARIABLES
  choice,     \* "api", "mcp", "requests", "routes", "sessions", "chat" or "tasks"
  sock, listening, decommissioned, running, worker, pc, dying, portFree, early, overlap, retried,
  hooks, stopping, rpc, kind, callId, before, after, runs, open, late, peer, excuse,
  streaming, tasks, tpc, subscribed, result, frame, outcome, settled,
  routes, request, where, snapshot, routed, known, first,
  by, sent, options, streams, xpc, defect, json, asked, told, ending, made, answer, read

(* Paths with one or two words, and slashes or a question mark anywhere;   *)
(* patterns that fit the same path; a query with a key twice and a pair    *)
(* that is none.                                                           *)
Word(w) == [param |-> FALSE, name |-> w]
Any(n)  == [param |-> TRUE, name |-> n]
Route(m, p) == [method |-> m, pattern |-> p]
SomeRoutes ==
  {Route("GET", p) : p \in {<<Word("a")>>, <<Any("x")>>, <<Any("x"), Any("x")>>, <<Any("x"), Any("y")>>}}
    \cup {Route("POST", <<Any("x")>>), Route("HEAD", <<Any("x")>>)}

Pair(k, v, eq) == [key |-> k, value |-> v, eq |-> eq]
Query == <<Pair("k", "1", TRUE), Pair("l", "1", FALSE), Pair("k", "2", TRUE)>>
Ask(m, p, q, k) == [method |-> m, path |-> p, query |-> q, key |-> k]
Paths == {<<"/">> \o p : p \in UNION {[1..n -> {"/", "?", "a"}] : n \in 0..2}} \cup {<<"/", "a", "/", "b">>, <<"/", "a", "/", "b", "/">>}
SomeRequests ==
  {Ask("GET", p, <<>>, TRUE) : p \in Paths}
    \cup {Ask(m, p, Query, k) : m \in {"GET", "POST", "HEAD"}, k \in BOOLEAN,
                               p \in {<<"/", "chat">>, <<"/", "models">>, <<"/", "healthz">>}}

(* Messages of every role, with texts, calls, ids and images of each kind. *)
Codecs == INSTANCE BackendCodecs
Sendable ==
  LET user == Codecs!UserMessage(<<>>)
  IN  {Codecs!UserMessage(<<"a">>), Codecs!ToolMessage(<<"b">>, "1"),
       [Codecs!AssistantMessage(<<"c">>) EXCEPT !.calls = <<[id |-> "1", name |-> "tool", arguments |-> "{}"]>>],
       [user EXCEPT !.parts = <<Codecs!TextPart(<<"a">>), Codecs!Base64Part("data", "jpeg")>>],
       [user EXCEPT !.parts = <<Codecs!UrlPart(Codecs!HttpUrl("url")), Codecs!UrlPart(Codecs!DataUrl("gif", "data"))>>],
       [user EXCEPT !.parts = <<Codecs!UrlPart([Codecs!DataUrl("gif", "data") EXCEPT !.comma = FALSE])>>]}

Api == INSTANCE ApiServerLifecycle
Mcp == INSTANCE McpServerLifecycle
Req == INSTANCE ApiRequests WITH pc <- rpc
A2A == INSTANCE A2ATasks WITH pc <- tpc
Rts == INSTANCE ApiRoutes WITH outcome <- routed, HasKey <- TRUE
Xch == INSTANCE ChatExchange WITH Given <- {{}, {"temperature", "top_k", "stop"}}

\* What a client may read: pieces of what was told, or that an agent gave up.
Readable == [text : Seq({"x", "y"} \cup {Xch!GaveUp[1]}), calls : {<<>>, Xch!Calls}, finish : Xch!Reasons]

\* None is no task, defect, text, finish reason, type or reply, and no manager lacks a name.
ASSUME ServersAssumption ==
  /\ None \notin A2A!States \cup A2A!Tasks \cup Xch!Defects \cup Xch!Reasons \cup {"jpeg"}
  /\ None \notin Seq({"x", "y"}) \cup Readable
  /\ NoHooks \notin Managers
  /\ MaxRoutes \in Nat /\ MaxRuns \in Nat \ {0}

\* A slash is no segment of a pattern.
ASSUME RoutesAssumption ==
  /\ \A rt \in Routes : rt.pattern \in Seq([param : BOOLEAN, name : STRING \ {"/"}])
  /\ \A q \in Asked : q.path \in Seq(STRING) /\ q.query \in Seq([key : STRING, value : STRING, eq : BOOLEAN])

lifecycle == <<sock, listening, decommissioned, running, worker, pc, dying, portFree, early, overlap, retried>>
requestVars == <<hooks, stopping, rpc, kind, callId, before, after, runs, open, late, peer, excuse>>
taskVars == <<streaming, tasks, tpc, subscribed, result, frame, outcome, settled>>
routeVars == <<routes, request, where, snapshot, routed, known, first>>
chatVars == <<by, sent, options, streams, xpc, defect, json, asked, told, ending, made, answer, read>>
http == <<routeVars, vars, chatVars>>
all == <<choice, lifecycle, requestVars, taskVars, http>>

NoChat ==
  /\ by = None /\ sent = None /\ options = None /\ streams = None /\ xpc = None /\ defect = None
  /\ json = None /\ asked = None /\ told = None /\ ending = None /\ made = None /\ answer = None /\ read = None

MCInit ==
  /\ choice \in {"api", "mcp", "requests", "routes", "sessions", "chat", "tasks"}
  /\ Api!Init /\ Mcp!Init /\ Req!Init /\ A2A!Init /\ Rts!Init /\ Init
  /\ IF choice = "chat" THEN Xch!Init ELSE NoChat
  /\ choice \notin {"api", "mcp"} => portFree
  /\ choice # "requests" => hooks = NoHooks /\ kind = [r \in Requests |-> "chat"]
  /\ choice # "tasks" => streaming

ApiNext == choice = "api" /\ Api!Next /\ UNCHANGED <<choice, retried, requestVars, taskVars, http>>
McpNext == choice = "mcp" /\ Mcp!Next /\ UNCHANGED <<choice, early, requestVars, taskVars, http>>
RequestNext == choice = "requests" /\ Req!Next /\ UNCHANGED <<choice, lifecycle, taskVars, http>>
RouteNext == choice = "routes" /\ Rts!Next /\ UNCHANGED <<choice, lifecycle, requestVars, taskVars, vars, chatVars>>
SessionNext == choice = "sessions" /\ Next /\ UNCHANGED <<choice, lifecycle, requestVars, taskVars, routeVars, chatVars>>
ChatNext == choice = "chat" /\ Xch!Next /\ UNCHANGED <<choice, lifecycle, requestVars, taskVars, routeVars, vars>>
TaskNext == choice = "tasks" /\ A2A!Next /\ UNCHANGED <<choice, lifecycle, requestVars, http>>

MCNext == ApiNext \/ McpNext \/ RequestNext \/ RouteNext \/ SessionNext \/ ChatNext \/ TaskNext

(* The fairness of the two lifecycles, see there.                          *)
ApiFair(A) == choice = "api" /\ A /\ UNCHANGED <<choice, retried, requestVars, taskVars, http>>
McpFair(A) == choice = "mcp" /\ A /\ UNCHANGED <<choice, early, requestVars, taskVars, http>>

MCSpec ==
  /\ MCInit /\ [][MCNext]_all
  /\ WF_all(ApiFair(Api!WorkerStep)) /\ WF_all(ApiFair(Api!OwnerStep))
  /\ \A t \in Api!Callers : WF_all(ApiFair(Api!CallStep(t)))
  /\ WF_all(McpFair(Mcp!WorkerStep)) /\ WF_all(McpFair(Mcp!OwnerStep))
  /\ \A t \in Mcp!Callers : WF_all(McpFair(Mcp!StopJoins(t)))

(* The properties of the modules, see there.                               *)
TypesOK ==
  /\ choice = "api" => Api!TypeOK
  /\ choice = "mcp" => Mcp!TypeOK
  /\ Req!TypeOK /\ A2A!TypeOK /\ Rts!TypeOK /\ TypeOK
  /\ choice = "chat" => Xch!TypeOK
RunningIsServing ==
  /\ choice = "api" => Api!RunningIsServing
  /\ choice = "mcp" => Mcp!RunningIsServing
ServersEnd ==
  /\ choice = "api" => Api!DestructorEnds
  /\ choice = "mcp" => Mcp!CallsEnd
ApiStopEndsRun == choice = "api" => Api!StopEndsRun
RequestsServed ==
  /\ Req!EventsPaired /\ Req!StreamEndsOnce
  /\ choice = "routes" => Rts!RoutesStay
  /\ choice = "chat" => Xch!RequestMeant /\ Xch!ReplyMeant
RoutesChosen   == choice = "routes" => Rts!RouteChosen
TasksHold      == A2A!ReturnedMeansKnown /\ A2A!CancelHolds
=============================================================================

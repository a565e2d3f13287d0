----------------------------- MODULE ChatSessions -----------------------------
(***************************************************************************)
(* Who answers a chat completion, and which memory the turn goes to: the   *)
(* registrations of ApiServer, the backend and the memory a request        *)
(* resolves under mu_, one after the other, and what an agent then does    *)
(* with the memory it was given.  Several requests run at a time on        *)
(* httplib's threads while the application registers.                      *)
(*                                                                         *)
(* The resolver is the application's: here it maps a session to its own    *)
(* memory, may answer with no memory, and may throw.                       *)
(***************************************************************************)
EXTENDS Naturals, Sequences

CONSTANTS
  Chats,        \* requests
  Sessions,     \* session ids, each with its memory
  Own,          \* the memory an agent was made with
  Models,       \* model ids
  Unnamed,      \* no model id in the body
  None

ASSUME SessionAssumption == Own \notin Sessions /\ None \notin Sessions

VARIABLES
  llms, agents, \* the ids registered
  resolver,     \* memory_resolver_: "unset", "sessions", or "nullptr"
  log,          \* per memory what was added to it: [from, session, kind]
  at,           \* where each request is
  asks,         \* the session of each
  server,       \* what serves it: [kind, id], or None
  memory,       \* per_request_mem: a session, or None
  history,      \* what the agent read from its memory
  ungiven       \* history: no memory was resolved (unset, nullptr or an exception)

vars == <<llms, agents, resolver, log, at, asks, server, memory, history, ungiven>>

registry == <<llms, agents, resolver>>

Init ==
  /\ llms = {} /\ agents = {} /\ resolver = "unset"
  /\ log = [m \in Sessions \cup {Own} |-> <<>>]
  /\ at = [c \in Chats |-> "idle"]
  /\ asks = [c \in Chats |-> None] /\ server = [c \in Chats |-> None]
  /\ memory = [c \in Chats |-> None] /\ history = [c \in Chats |-> <<>>]
  /\ ungiven = [c \in Chats |-> FALSE]

-----------------------------------------------------------------------------
(* The application.                                                        *)
RegisterModel(id) ==
  /\ id \notin llms /\ llms' = llms \cup {id}
  /\ UNCHANGED <<agents, resolver, log, at, asks, server, memory, history, ungiven>>

\* Of either kind: a ReAct agent goes before a tool-calling one of its id.
RegisterAgent(id) ==
  /\ id \notin agents /\ agents' = agents \cup {id}
  /\ UNCHANGED <<llms, resolver, log, at, asks, server, memory, history, ungiven>>

SetMemoryResolver(kind) ==
  /\ resolver = "unset" /\ resolver' = kind
  /\ UNCHANGED <<llms, agents, log, at, asks, server, memory, history, ungiven>>

-----------------------------------------------------------------------------
(* POST /v1/chat/completions.                                              *)
Go(c, from, to) == at[c] = from /\ at' = [at EXCEPT ![c] = to]

By(kind, id) == [kind |-> kind, id |-> id]

(* An agent of that id, or the model of that id, or whichever model the    *)
(* unordered map has first.                                                *)
Backends(id) ==
  IF id \in agents THEN {By("agent", id)}
  ELSE IF id \in llms THEN {By("llm", id)}
  ELSE {By("llm", m) : m \in llms}

ResolveBackend(c, id, s) ==
  /\ Go(c, "idle", "served")
  /\ asks' = [asks EXCEPT ![c] = s]
  /\ \E b \in Backends(id) : server' = [server EXCEPT ![c] = b]
  /\ UNCHANGED <<registry, log, memory, history, ungiven>>

NoModel(c, id) ==   \* 404
  /\ Go(c, "idle", "ended") /\ Backends(id) = {}
  /\ UNCHANGED <<registry, log, asks, server, memory, history, ungiven>>

BadRequest(c) ==    \* 400
  /\ Go(c, "served", "ended")
  /\ UNCHANGED <<registry, log, asks, server, memory, history, ungiven>>

\* Mutation: the memory is kept in the server, where another request finds it.
ResolveMemoryShared(c) ==
  /\ Go(c, "served", "remembering")
  /\ resolver = "sessions"
  /\ memory' = [d \in Chats |-> asks[c]]
  /\ UNCHANGED <<registry, log, asks, server, history, ungiven>>

(* The resolver is asked for models and agents alike; what it throws is    *)
(* logged, and the request goes on without a memory of its own.            *)
ResolveMemory(c) ==
  /\ Go(c, "served", "remembering")
  /\ \/ /\ resolver = "sessions"
        /\ memory' = [memory EXCEPT ![c] = asks[c]]
        /\ UNCHANGED ungiven
     \/ /\ ungiven' = [ungiven EXCEPT ![c] = TRUE]       \* also: it throws
        /\ UNCHANGED memory
  /\ UNCHANGED <<registry, log, asks, server, history>>

(* A model gets the messages of the request, and no memory.                *)
ModelAnswers(c) ==
  /\ Go(c, "remembering", "ended") /\ server[c].kind = "llm"
  /\ UNCHANGED <<registry, log, asks, server, memory, history, ungiven>>

-----------------------------------------------------------------------------
(* The agent: the memory it was given, or its own.                         *)
\* Mutation: the agent's own memory goes first.
MemoryOwn(c) == Own

Memory(c) == IF memory[c] # None THEN memory[c] ELSE Own

AgentReads(c) ==
  /\ Go(c, "remembering", "running") /\ server[c].kind = "agent"
  /\ history' = [history EXCEPT ![c] = log[Memory(c)]]
  /\ UNCHANGED <<registry, log, asks, server, memory, ungiven>>

Add(c, kind) ==
  log' = [log EXCEPT ![Memory(c)] = Append(@, [from |-> c, session |-> asks[c], kind |-> kind])]

AgentGivesUp(c) ==  \* no answer within max_iterations, or an exception, also of the second add
  /\ Go(c, "running", "ended") \/ Go(c, "asked", "ended")
  /\ UNCHANGED <<registry, log, asks, server, memory, history, ungiven>>

AddQuestion(c) ==
  /\ Go(c, "running", "asked") /\ Add(c, "question")
  /\ UNCHANGED <<registry, asks, server, memory, history, ungiven>>

AddAnswer(c) ==
  /\ Go(c, "asked", "ended") /\ Add(c, "answer")
  /\ UNCHANGED <<registry, asks, server, memory, history, ungiven>>

Next ==
  \/ \E id \in Models : RegisterModel(id) \/ RegisterAgent(id)
  \/ \E kind \in {"sessions", "nullptr"} : SetMemoryResolver(kind)
  \/ \E c \in Chats :
       \/ \E id \in Models \cup {Unnamed} : NoModel(c, id) \/ \E s \in Sessions : ResolveBackend(c, id, s)
       \/ BadRequest(c) \/ ResolveMemory(c) \/ ModelAnswers(c)
       \/ AgentReads(c) \/ AgentGivesUp(c) \/ AddQuestion(c) \/ AddAnswer(c)

Spec == Init /\ [][Next]_vars

-----------------------------------------------------------------------------
Entries == [from : Chats, session : Sessions, kind : {"question", "answer"}]

TypeOK ==
  /\ llms \subseteq Models /\ agents \subseteq Models /\ resolver \in {"unset", "sessions", "nullptr"}
  /\ log \in [Sessions \cup {Own} -> Seq(Entries)]
  /\ at \in [Chats -> {"idle", "served", "remembering", "running", "asked", "ended"}]
  /\ asks \in [Chats -> Sessions \cup {None}] /\ memory \in [Chats -> Sessions \cup {None}]
  /\ server \in [Chats -> {None} \cup [kind : {"agent", "llm"}, id : Models]]
  /\ history \in [Chats -> Seq(Entries)] /\ ungiven \in [Chats -> BOOLEAN]

(* server.cpp:1078: "so a single shared Agent can serve many sessions      *)
(* without leaking state between them."  A session's memory holds turns of *)
(* that session only, a request that was given a memory saw no other       *)
(* session's turns, and only requests that were given none are in the      *)
(* memory the agent was made with, for all to see.  (server.h:170 says     *)
(* "Returning nullptr disables memory for that request": the agent then    *)
(* takes its own.)  No turn is in a memory twice, nor an answer before its *)
(* question.                                                               *)
SessionsApart ==
  /\ \A s \in Sessions : \A i \in DOMAIN log[s] : log[s][i].session = s
  /\ \A i \in DOMAIN log[Own] : ungiven[log[Own][i].from]
  /\ \A c \in Chats : ~ungiven[c] => \A i \in DOMAIN history[c] : history[c][i].session = asks[c]
  /\ \A m \in DOMAIN log : \A i, j \in DOMAIN log[m] :
       i < j /\ log[m][i].from = log[m][j].from => log[m][i].kind = "question" /\ log[m][j].kind = "answer"
=============================================================================

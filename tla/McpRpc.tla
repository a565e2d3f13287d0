-------------------------------- MODULE McpRpc --------------------------------
(***************************************************************************)
(* A JSON-RPC request to mcp::McpServer, one envelope or a batch of them,  *)
(* and what mcp::McpClient makes of the reply, while tools are registered. *)
(* What an envelope holds is told apart as far as dispatch() does.         *)
(***************************************************************************)
EXTENDS Naturals, Sequences, SequencesExt

CONSTANTS Tools, None, MaxBatch

VARIABLES
  registered,  \* tools_
  body,        \* the envelopes
  batched,     \* they came in an array
  replies,     \* what dispatch() returned, so far
  ran,         \* history: the tools that were run
  spans,       \* history: phases fired, per call of a tool
  status       \* of the response: None while there is none
vars == <<registered, body, batched, replies, ran, spans, status>>

Methods == {"initialize", "tools/list", "tools/call", "ping", "unknown"}

\* "invalid" is no JSON-RPC 2.0 request; the fields of an "odd" one have types
\* at which json::value throws.
Envelopes == [shape : {"valid"}, id : 1..2, method : Methods \ {"tools/call"}, tool : {None}]
               \cup [shape : {"valid"}, id : 1..2, method : {"tools/call"}, tool : Tools]
               \cup [shape : {"invalid"}, id : {1, None}, method : {None}, tool : {None}]
               \cup [shape : {"odd"}, id : {1}, method : {"ping"}, tool : {None}]

Reply(kind, id, what, tools, isError) == [kind |-> kind, id |-> id, what |-> what, tools |-> tools, isError |-> isError]
make_error(id, code)   == Reply("error", id, code, {}, FALSE)
make_result(id, what)  == Reply("result", id, what, {}, FALSE)
text_content(id, text, isError) == Reply("result", id, text, {}, isError)

Init ==
  /\ registered \in SUBSET Tools
  /\ batched \in BOOLEAN
  /\ body \in IF batched THEN SeqOf(Envelopes, MaxBatch) ELSE SeqOf(Envelopes, 1) \ {<<>>}
  /\ replies = <<>> /\ ran = <<>> /\ spans = <<>> /\ status = None

\* register_tool and register_tools, in another thread.
Register(t) ==
  /\ registered' = registered \cup {t}
  /\ UNCHANGED <<body, batched, replies, ran, spans, status>>

-----------------------------------------------------------------------------
Answer(reply) == replies' = Append(replies, reply) /\ UNCHANGED <<registered, body, batched, status>>
NoTool == UNCHANGED <<ran, spans>>

DispatchPlain(e) ==
  /\ e.shape = "valid" /\ e.method # "tools/call" /\ NoTool
  /\ Answer(CASE e.method = "initialize" -> make_result(e.id, "serverInfo")
              [] e.method = "tools/list" -> Reply("result", e.id, "tools", registered, FALSE)
              [] e.method = "ping"       -> make_result(e.id, "empty")
              [] e.method = "unknown"    -> make_error(e.id, "MethodNotFound"))

DispatchInvalid(e) == e.shape = "invalid" /\ NoTool /\ Answer(make_error(e.id, "InvalidRequest"))

\* Mutation: what a tool throws is an error of the protocol.
DispatchCallError(e) ==
  /\ e.shape = "valid" /\ e.method = "tools/call"
  /\ IF e.tool \notin registered THEN NoTool /\ Answer(text_content(e.id, "unknownTool", TRUE))
     ELSE \E failed \in BOOLEAN :
            /\ ran' = Append(ran, e.tool)
            /\ spans' = spans \o <<"BeforeTool", "AfterTool">>
            /\ Answer(IF failed THEN make_error(e.id, "InternalError") ELSE text_content(e.id, "observation", FALSE))

\* A tool that returns, or throws a std::exception.
DispatchCall(e) ==
  /\ e.shape = "valid" /\ e.method = "tools/call"
  /\ IF e.tool \notin registered THEN NoTool /\ Answer(text_content(e.id, "unknownTool", TRUE))
     ELSE \E failed \in BOOLEAN :
            /\ ran' = Append(ran, e.tool)
            /\ spans' = spans \o <<"BeforeTool", "AfterTool">>
            /\ Answer(text_content(e.id, IF failed THEN "error" ELSE "observation", failed))

\* What a single request is answered with when a std::exception ends it; in a
\* batch the id is asked of an array, which throws again.
Failed(e) == IF batched THEN <<>> ELSE <<make_error(e.id, "InternalError")>>

\* The type error of an odd envelope; what the schema of a tool throws that is
\* listed; what a tool throws that is no std::exception: the span is closed.
\* The replies made so far are lost.
DispatchThrows(e) ==
  /\ status' = 500
  /\ \/ e.shape = "odd" /\ NoTool /\ replies' = Failed(e)
     \/ e.method = "tools/list" /\ registered # {} /\ NoTool /\ replies' \in {Failed(e), <<>>}
     \/ /\ e.method = "tools/call" /\ e.tool \in registered
        /\ ran' = Append(ran, e.tool) /\ spans' = spans \o <<"BeforeTool", "AfterTool">>
        /\ replies' = <<>>
  /\ UNCHANGED <<registered, body, batched>>

Dispatch ==
  /\ status = None /\ Len(replies) < Len(body)
  /\ LET e == body[Len(replies) + 1]
     IN  DispatchPlain(e) \/ DispatchInvalid(e) \/ DispatchCall(e) \/ DispatchThrows(e)

\* The dump of an observation or a description that is no UTF-8 throws, too.
Respond ==
  /\ status = None /\ Len(replies) = Len(body)
  /\ \/ status' = 200 /\ UNCHANGED replies
     \/ /\ \E i \in DOMAIN replies : replies[i].what \in {"error", "observation"} \/ replies[i].tools # {}
        /\ status' = 500
        /\ replies' = Failed(body[1])
  /\ UNCHANGED <<registered, body, batched, ran, spans>>

\* A body that is no JSON.
ParseError ==
  /\ status = None /\ replies = <<>> /\ ran = <<>>
  /\ status' = 400 /\ replies' = <<make_error(None, "ParseError")>>
  /\ UNCHANGED <<registered, body, batched, ran, spans>>

Next == (\E t \in Tools : Register(t)) \/ Dispatch \/ Respond \/ ParseError

Spec == Init /\ [][Next]_vars

-----------------------------------------------------------------------------
\* HttpTransport::request throws an LCError.  The id is not compared.
fails(reply) == status # 200 \/ reply.kind = "error"

\* McpClient::invoke_tool, and the tools of as_lc_tools: the text, whatever isError says.
invoke_tool(reply) == IF fails(reply) THEN None ELSE reply.what
list_tools(reply)  == IF fails(reply) THEN {} ELSE reply.tools

TypeOK ==
  /\ registered \subseteq Tools /\ batched \in BOOLEAN /\ ran \in Seq(Tools)
  /\ status \in {None, 200, 400, 500}
  /\ \A i \in DOMAIN replies : replies[i].kind \in {"result", "error"}

\* The envelopes that call a tool.
Calling == {i \in DOMAIN body : body[i].method = "tools/call"}

(* A response of 200 answers every envelope, in order and under its id:    *)
(* each call of a tool with the text of that tool, which was run once, in  *)
(* its turn, or with the news that there is none; and nothing else is      *)
(* reported as an error of the protocol.  Whatever the response, a client  *)
(* that is given a text can rely on its tool having run, only tools that   *)
(* were called have run, in the order of the calls, and every run of a     *)
(* tool was announced and reported to the hooks.                           *)
RepliesAnswer ==
  /\ status = 200 =>
       /\ Len(replies) = Len(body)
       /\ \A i \in DOMAIN body :
            /\ replies[i].id = body[i].id
            /\ replies[i].kind = "error" <=> body[i].shape = "invalid" \/ body[i].method = "unknown"
            /\ list_tools(replies[i]) \subseteq registered
            /\ body[i].method = "tools/call" => invoke_tool(replies[i]) \in {"observation", "error", "unknownTool"}
       /\ Len(ran) = Cardinality({i \in DOMAIN body : invoke_tool(replies[i]) \in {"observation", "error"}})
  /\ \E f \in [1..Len(ran) -> Calling] :
       /\ \A i \in 1..Len(ran) : body[f[i]].tool = ran[i]
       /\ \A i, j \in 1..Len(ran) : i < j => f[i] < f[j]
  /\ spans = FlattenSeq([i \in DOMAIN ran |-> <<"BeforeTool", "AfterTool">>])
  /\ status = 500 => \E i \in DOMAIN body : \/ body[i].shape = "odd" \/ body[i].tool \in registered
                                            \/ body[i].method = "tools/list" /\ registered # {}
=============================================================================

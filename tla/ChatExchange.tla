----------------------------- MODULE ChatExchange -----------------------------
(***************************************************************************)
(* One chat completion between api::AIClient and ApiServer: the request    *)
(* that is encoded, decoded and given to a model or an agent, what that    *)
(* tells as it runs, and the JSON or the server-sent events the client     *)
(* makes its reply of.  The texts, messages and JSON of the wire are those *)
(* of BackendCodecs.  Other clients send bodies AIClient never sends.      *)
(***************************************************************************)
EXTENDS BackendCodecs

CONSTANTS
  Sendable,     \* the messages a client has
  Given,        \* the sets of options it gives
  MaxMessages, MaxTold

VARIABLES
  by,           \* what serves the model id: "llm" or "agent"
  sent,         \* the caller's messages
  options,      \* and options
  streams,      \* it wants a stream
  xpc,          \* "idle", "posted", "running", "written", "ended"
  defect,       \* what is wrong with the body, or None
  json,         \* the body
  asked,        \* what the model or agent is given: [messages, options]
  told,         \* the events of the run, in order: [type, text]
  ending,       \* how it ended: None, "finished", "gaveUp", "threw"
  made,         \* a model's result beside its text: [calls, reason], or NoResult
  answer,       \* the response: [status, body, frames]
  read          \* the caller's reply: [text, calls, finish], or None for an exception

vars == <<by, sent, options, streams, xpc, defect, json, asked, told, ending, made, answer, read>>

Defects == {"json", "object", "model", "stream", "message"}
NoAnswer == [status |-> 0, body |-> None, frames |-> <<>>]
NoResult == [calls |-> <<>>, reason |-> None]

Init ==
  /\ by \in {"llm", "agent"} /\ streams \in BOOLEAN /\ options \in Given
  /\ sent \in UNION {[1..n -> Sendable] : n \in 1..MaxMessages}
  /\ xpc = "idle" /\ defect = None /\ json = None /\ asked = None
  /\ told = <<>> /\ ending = None /\ made = NoResult /\ answer = NoAnswer /\ read = None

-----------------------------------------------------------------------------
(* server.cpp: the request.                                                *)
ParseContentPart(item) == OpenAIPart(item)

\* The text beside the parts; of an image its URL, inline data and all.
FlattenContent(items) == JoinLines(MapSeq(Shown, items))

\* Mutation: the text only.
DecodeMessageText(j) ==
  [role |-> j.role, parts |-> <<>>, id |-> j.id, calls |-> j.calls,
   text |-> IF j.content.kind = "array" THEN FlattenContent(j.content.items) ELSE j.content.text]

DecodeMessage(j) ==
  [role |-> j.role, parts |-> MapSeq(ParseContentPart, j.content.items), id |-> j.id, calls |-> j.calls,
   text |-> IF j.content.kind = "array" THEN FlattenContent(j.content.items) ELSE j.content.text]

DecodeRequest(j) == [messages |-> MapSeq(DecodeMessage, j.messages), options |-> j.fields, stream |-> j.stream]

\* Mutation: the last message, whoever it is from.
QuestionLast(messages) == Last(messages)

(* The last message of the user; an empty one when there is none.          *)
Question(messages) ==
  LET i == SelectLastInSeq(messages, LAMBDA m : m.role = "user")
  IN  IF i = 0 THEN UserMessage(<<>>) ELSE messages[i]

\* What invoke of an agent takes.
AgentOptions == {"temperature", "max_tokens", "top_p", "top_k"}

-----------------------------------------------------------------------------
(* server.cpp: the response.                                               *)
EncodeMessage(m) == [role |-> m.role, content |-> StringOf(m.text), id |-> None, calls |-> m.calls]

EncodeResponse(m, finish) == [message |-> EncodeMessage(m), finish |-> IF finish = None THEN "stop" ELSE finish]

Chunk(event, t, finish) == [kind |-> "chunk", event |-> event, content |-> IF t = <<>> THEN None ELSE t, finish |-> finish]
SseChunk(t, finish) == Chunk(None, t, finish)
DoneFrame  == [kind |-> "[DONE]", event |-> None, content |-> None, finish |-> None]
ErrorFrame == [kind |-> "error", event |-> None, content |-> None, finish |-> None]

\* Mutation: whatever an event says is content.
AgentSseChunkAll(ev) == Chunk(ev.type, ev.text, None)

(* Only a thought, or an answer with text, is content to an OpenAI client. *)
AgentSseChunk(ev) == Chunk(ev.type, IF ev.type \in {"thought", "answer"} THEN ev.text ELSE <<>>, None)

Frame(ev) == IF by = "agent" THEN AgentSseChunk(ev) ELSE SseChunk(ev.text, None)

-----------------------------------------------------------------------------
Go(from, to) == xpc = from /\ xpc' = to
caller == <<by, sent, options, streams>>

Post ==
  /\ Go("idle", "posted")
  /\ json' = AIClientPayload([messages |-> sent, opts |-> options, tools |-> {}], streams)
  /\ UNCHANGED <<caller, defect, asked, told, ending, made, answer, read>>

PostDefect(d) ==
  /\ Go("idle", "posted") /\ defect' = d
  /\ UNCHANGED <<caller, json, asked, told, ending, made, answer, read>>

Reply(status, b, fs) == answer' = [status |-> status, body |-> b, frames |-> fs]

(* No JSON at all and what decode_request throws at are 400; a body that   *)
(* is no object, and a model or stream of another type, are outside its    *)
(* try block: httplib answers 500.                                         *)
Refuse ==
  /\ Go("posted", "written") /\ defect # None
  /\ Reply(IF defect \in {"json", "message"} THEN 400 ELSE 500, None, <<>>)
  /\ UNCHANGED <<caller, defect, json, asked, told, ending, made, read>>

(* A model gets the whole request, an agent the question and the options   *)
(* of its invoke.                                                          *)
Give ==
  /\ Go("posted", "running") /\ defect = None
  /\ LET req == DecodeRequest(json)
     IN  asked' = IF by = "llm" THEN [messages |-> req.messages, options |-> req.options]
                  ELSE [messages |-> <<Question(req.messages)>>, options |-> req.options \cap AgentOptions]
  /\ UNCHANGED <<caller, defect, json, told, ending, made, answer, read>>

(* The run tells what it does (external): a model pieces of text, an agent *)
(* also its calls, what they return and the tools that fail.               *)
Steps == {"thought", "tool_call", "observation", "error"}
Kinds == IF by = "llm" THEN {"delta"} ELSE Steps
Say(ev) ==
  /\ told' = Append(told, ev)
  /\ answer' = IF streams THEN [answer EXCEPT !.status = 200, !.frames = Append(@, Frame(ev))] ELSE answer

Tell(kind, t) ==
  /\ xpc = "running" /\ kind \in Kinds
  /\ Len(told) < MaxTold
  /\ Say([type |-> kind, text |-> t])
  /\ UNCHANGED <<caller, xpc, defect, json, asked, ending, made, read>>

(* The text of the result: all a model said, and what an agent said since  *)
(* its last tool (of a ReAct agent, the answer in it).                     *)
Spoken(es) == FlattenSeq([i \in DOMAIN es |-> IF es[i].type \in {"delta", "thought"} THEN es[i].text ELSE <<>>])
Output ==
  IF by = "llm" THEN Spoken(told)
  ELSE LET i == SelectLastInSeq(told, LAMBDA ev : ev.type # "thought") IN Spoken(SubSeq(told, i + 1, Len(told)))

GaveUp == <<"(agent stopped after max_iterations)">>

\* What an agent tells at its end carries no text: it was told before.
Closing(how) ==
  IF by = "llm" THEN <<>>
  ELSE IF how = "finished" THEN <<AgentSseChunk([type |-> "answer", text |-> <<>>]), AgentSseChunk([type |-> "done", text |-> <<>>])>>
  ELSE <<AgentSseChunk([type |-> "error", text |-> GaveUp])>>

Calls == <<[id |-> "1", name |-> "tool", arguments |-> "{}"]>>
Reasons == {"stop", "length", "tool_calls", "content_filter"}

(* What a model returns beside its text is its own: any reason, or none,   *)
(* with calls or without.  An agent returns a text and whether it          *)
(* finished.                                                               *)
Result(how, m) ==
  /\ Go("running", "written") /\ ending' = how /\ made' = m
  /\ how = "gaveUp" => by = "agent"
  /\ m # NoResult => by = "llm"

\* Mutation: "stop", whatever a model says.
FinishReasonStop(how, m) == IF by = "llm" \/ how = "finished" THEN "stop" ELSE "length"

FinishReason(how, m) == IF by = "llm" THEN m.reason ELSE IF how = "finished" THEN "stop" ELSE "length"

\* Mutation: a stream ends without its last two frames.
FinishShort(how, m) ==
  /\ Result(how, m)
  /\ IF streams THEN Reply(200, None, answer.frames \o Closing(how))
     ELSE Reply(200, EncodeResponse([AssistantMessage(IF how = "finished" THEN Output ELSE GaveUp) EXCEPT !.calls = m.calls],
                                    FinishReason(how, m)), <<>>)
  /\ UNCHANGED <<caller, defect, json, asked, told, read>>

(* invoke or invoke_stream returns.  A stream ends in "stop" whether or    *)
(* not the agent finished and whatever the model's reason, and has no      *)
(* place for calls.                                                        *)
Finish(how, m) ==
  /\ Result(how, m)
  /\ IF streams THEN Reply(200, None, answer.frames \o Closing(how) \o <<SseChunk(<<>>, "stop"), DoneFrame>>)
     ELSE Reply(200, EncodeResponse([AssistantMessage(IF how = "finished" THEN Output ELSE GaveUp) EXCEPT !.calls = m.calls],
                                    FinishReason(how, m)), <<>>)
  /\ UNCHANGED <<caller, defect, json, asked, told, read>>

(* It throws: 500, or, when the status has been sent, a frame about it.    *)
Throw ==
  /\ Go("running", "written") /\ ending' = "threw"
  /\ IF streams THEN Reply(200, None, Append(answer.frames, ErrorFrame)) ELSE Reply(500, None, <<>>)
  /\ UNCHANGED <<caller, defect, json, asked, told, made, read>>

-----------------------------------------------------------------------------
(* client.cpp: the reply.                                                  *)
ReadFrames(fs) ==
  LET end == SelectLastInSeq(fs, LAMBDA f : f.kind = "chunk" /\ f.finish # None)
  IN  [text |-> FlattenSeq(MapSeq(LAMBDA f : IF f.kind = "chunk" /\ f.content # None THEN f.content ELSE <<>>, fs)),
       calls |-> <<>>, finish |-> IF end = 0 THEN "stop" ELSE fs[end].finish]

ReadBody(b) ==
  LET m == AIClientDecode(b.message) IN [text |-> m.text, calls |-> m.calls, finish |-> b.finish]

Read ==
  /\ Go("written", "ended")
  /\ read' = IF answer.status # 200 THEN None
             ELSE IF streams THEN ReadFrames(answer.frames) ELSE ReadBody(answer.body)
  /\ UNCHANGED <<caller, defect, json, asked, told, ending, made, answer>>

Results == [calls : {<<>>, Calls}, reason : Reasons \cup {None}]

Next ==
  \/ Post \/ \E d \in Defects : PostDefect(d)
  \/ Refuse \/ Give
  \/ \E kind \in {"delta"} \cup Steps, t \in {<<>>, <<"x">>, <<"y">>} : Tell(kind, t)
  \/ \E how \in {"finished", "gaveUp"}, m \in Results : Finish(how, m)
  \/ Throw \/ Read

Spec == Init /\ [][Next]_vars

-----------------------------------------------------------------------------
TypeOK ==
  /\ xpc \in {"idle", "posted", "running", "written", "ended"}
  /\ defect \in Defects \cup {None} /\ answer.status \in {0, 200, 400, 500}
  /\ told \in Seq([type : {"delta"} \cup Steps, text : {<<>>, <<"x">>, <<"y">>}])
  /\ made \in Results

(* What a message says: a data URL and the image it holds are the same, and*)
(* the text of a message with parts is theirs.                             *)
Said(part) == IF part.type = "image_url" /\ part.url.data /\ part.url.comma THEN Inline(part.url) ELSE part
Same(m, w) ==
  /\ m.role = w.role /\ m.calls = w.calls /\ m.id = w.id
  /\ m.parts = MapSeq(Said, w.parts)
  /\ m.text = IF w.parts = <<>> THEN w.text
              ELSE JoinLines(MapSeq(LAMBDA p : IF p.type = "text" THEN p.text ELSE <<"image_url">>, w.parts))

(* server.h: "the schema round-trips correctly so callers built against    *)
(* the OpenAI spec keep working."  A model is given what the caller said,  *)
(* message for message, with every option; an agent the caller's last      *)
(* question, which an answer or a tool result after it does not hide.      *)
RequestMeant ==
  asked # None =>
    LET users == {i \in DOMAIN sent : sent[i].role = "user"}
    IN  IF by = "llm" THEN /\ Len(asked.messages) = Len(sent) /\ asked.options = options
                           /\ \A i \in DOMAIN sent : Same(asked.messages[i], sent[i])
        ELSE /\ asked.options = options \ {"stop"}
             /\ IF users = {} THEN asked.messages = <<UserMessage(<<>>)>>
                ELSE \A i \in users : (\A k \in users : k <= i) => Same(asked.messages[1], sent[i])

(* The caller reads what was said, in order, as a text or as a stream: of  *)
(* an agent its thoughts and no call or observation, which only the        *)
(* agent_event of a frame tells, one frame each.  In a reply that is no    *)
(* stream a model's calls and its reason come back, "stop" for none, and   *)
(* of an agent whether it finished.  A stream has neither: to AIClient it  *)
(* has always stopped, when the model was cut short, when the agent gave   *)
(* up and when it failed, as the text so far shows.  What failed before it *)
(* was answered is an exception.                                           *)
ReplyMeant ==
  xpc = "ended" =>
    /\ read = None <=> defect # None \/ (ending = "threw" /\ ~streams)
    /\ streams /\ defect = None =>
         /\ read.text = Spoken(told) /\ read.finish = "stop"
         /\ by = "agent" => \A i \in DOMAIN told : answer.frames[i].event = told[i].type
         /\ (Last(answer.frames) = DoneFrame) = (ending # "threw")
         /\ ending # "threw" => \E i \in DOMAIN answer.frames : answer.frames[i].finish = "stop"
    /\ ~streams /\ read # None =>
         /\ ending = "finished" => read.text = Output
         /\ read.calls = made.calls
         /\ by = "agent" => (read.finish = "length" <=> ending = "gaveUp") /\ (read.finish = "stop" <=> ending = "finished")
         /\ by = "llm" => read.finish = IF made.reason = None THEN "stop" ELSE made.reason
=============================================================================

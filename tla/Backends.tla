------------------------------- MODULE Backends -------------------------------
(***************************************************************************)
(* One exchange of a backend, or of api::AIClient ("aiclient"), with its   *)
(* provider and the beginning of the next: the                             *)
(* request is posted; the provider answers with one JSON message, or with  *)
(* a stream of events cut into chunks anywhere; the reply is put into the  *)
(* conversation, with an answer to each of its calls, and posted again.    *)
(*                                                                         *)
(* A stream is a sequence of tokens: an event (a line of text that parses  *)
(* to it, or to something else), a newline, or the "event:" and "," lines  *)
(* of Anthropic and Gemini.  A chunk ends between any two tokens; one that ends inside  *)
(* a line leaves the buffer as one that ends before it.                    *)
(***************************************************************************)
EXTENDS BackendCodecs

CONSTANTS
  Texts,      \* pieces of text
  MaxEvents,  \* events of a stream
  MaxBlocks   \* items of a message that is returned whole

VARIABLES
  provider,
  stream,     \* invoke_stream rather than invoke
  events,     \* what the provider streams
  said,       \* the message it returns when it does not (or in place of a stream)
  endpoint,   \* the path of the request
  patience,   \* on_delta answers true so many times, and false from then on
  wire,       \* the tokens not yet received
  st,         \* the locals of invoke_stream_impl: buffer, content, calls, finish, aborted; history deltas
  phase,      \* "posted", "replied", "thrown", "again"
  reply,      \* the message and finish_reason the caller got
  payload     \* the JSON posted last

vars == <<provider, stream, events, said, endpoint, patience, wire, st, phase, reply, payload>>

NoCall == [id |-> None, name |-> None, args |-> <<>>]

-----------------------------------------------------------------------------
(* Events.                                                                 *)
TextEvents(k) == {Event(k, <<t>>, <<>>, None) : t \in Texts}

\* A provider may repeat the name of a call as an empty one.
CompatibleEvents ==
  TextEvents("delta")
    \cup {Event("delta", None, <<Fragment(1, None, "", <<1>>)>>, None)}
    \cup {Event("delta", None, <<Fragment(i, IF first THEN i ELSE None, IF first THEN "tool" ELSE None, <<i>>)>>, None)
            : i \in 1..2, first \in BOOLEAN}
    \cup {Event("delta", None, <<>>, "length"), Mark("other")}

EventsOf(p) ==
  CASE p = "openai"                 -> CompatibleEvents \cup TextEvents("message")
    [] p \in Compatible \ {"openai"} -> CompatibleEvents
    [] p = "anthropic" -> TextEvents("content_block_delta") \cup
                          {Event("message_delta", None, <<>>, "end_turn"), Event("message_delta", None, <<>>, "max_tokens"),
                           Mark("message_stop"), Mark("other")}
    [] p = "gemini"    -> TextEvents("candidates") \cup {Event("candidates", <<>>, <<>>, "MAX_TOKENS"), Mark("other")}
    [] p = "ollama"    -> TextEvents("message") \cup TextEvents("response") \cup
                          {Event("message", <<>>, <<>>, "done"), Mark("other")}

\* How a provider writes an event, and what separates it from the next one.
Written(p, e) ==
  CASE p \in Compatible -> <<e, NL, NL>>
    [] p = "anthropic"  -> <<Mark("event:"), NL, e, NL, NL>>
    [] p = "gemini"     -> <<Mark(","), NL, e, NL>>
    [] p = "ollama"     -> <<e, NL>>

-----------------------------------------------------------------------------
(* The handlers of an event, one per backend.                              *)

\* aggregate_content += piece; if (!on_delta(piece)) aborted = true;
Speak(s, piece) == [s EXCEPT !.content = @ \o piece, !.deltas = Append(@, piece),
                             !.aborted = @ \/ Len(s.deltas) >= patience]

SpeakIfAny(s, piece) == IF piece = <<>> THEN s ELSE Speak(s, piece)

\* Mutation: the fragments of a call are appended as they come.
MergeFragmentAtEnd(cs, f) ==
  IF f.id # None THEN Append(cs, [id |-> f.id, name |-> f.name, args |-> f.args])
  ELSE IF cs = <<>> THEN cs ELSE [cs EXCEPT ![Len(cs)].args = @ \o f.args]

\* Fragments of calls are merged by their index; an empty name is one, an empty id is none.
MergeFragment(cs, f) ==
  LET grown == cs \o [i \in 1..(IF f.index > Len(cs) THEN f.index - Len(cs) ELSE 0) |-> NoCall]
  IN  [grown EXCEPT ![f.index] = [id   |-> IF f.id # None THEN f.id ELSE @.id,
                                  name |-> IF f.name # None THEN f.name ELSE @.name,
                                  args |-> @.args \o f.args]]

Choice(s, e) ==
  LET spoken == IF e.text # None THEN Speak(s, e.text) ELSE s
  IN  [spoken EXCEPT !.calls = FoldLeft(MergeFragment, @, e.calls),
                     !.finish = IF e.finish # None THEN e.finish ELSE @]

OpenAIEvent(s, e)   == IF e.kind \in {"delta", "message"} THEN Choice(s, e) ELSE s
DeepSeekEvent(s, e) == IF e.kind = "delta" THEN Choice(s, e) ELSE s
GroqEvent(s, e)     == IF e.kind = "delta" THEN Choice(s, e) ELSE s
QwenEvent(s, e)     == IF e.kind = "delta" THEN Choice(s, e) ELSE s

\* AIClient reads no calls in a stream.
AIClientEvent(s, e) ==
  IF e.kind = "delta" THEN Choice(s, [e EXCEPT !.calls = <<>>]) ELSE s

AnthropicEvent(s, e) ==
  CASE e.kind = "content_block_delta" -> Speak(s, e.text)
    [] e.kind = "message_delta" -> [s EXCEPT !.finish = e.finish]
    [] e.kind = "message_stop"  -> [s EXCEPT !.finish = IF e.finish # None THEN e.finish ELSE "stop"]
    [] OTHER -> s

GeminiFinish(f) == CASE f = "STOP" -> "stop" [] f = "MAX_TOKENS" -> "length" [] f = "SAFETY" -> "content_filter" [] OTHER -> f

\* Mutation: a chunk without text is skipped, its finish reason with it.
GeminiEventText(s, e) ==
  IF e.kind = "candidates" /\ e.text # <<>> THEN Speak(s, e.text) ELSE s

GeminiEvent(s, e) ==
  IF e.kind = "candidates"
    THEN [SpeakIfAny(s, e.text) EXCEPT !.finish = IF e.finish # None THEN GeminiFinish(e.finish) ELSE @]
    ELSE s

OllamaEvent(s, e) ==
  IF e.kind \in {"message", "response"}
    THEN [SpeakIfAny(s, e.text) EXCEPT !.finish = IF e.finish = "done" THEN "stop" ELSE @]
    ELSE s

Handle(p, s, e) ==
  CASE p = "openai"    -> OpenAIEvent(s, e)
    [] p = "deepseek"  -> DeepSeekEvent(s, e)
    [] p = "groq"      -> GroqEvent(s, e)
    [] p = "qwen"      -> QwenEvent(s, e)
    [] p = "aiclient"  -> AIClientEvent(s, e)
    [] p = "anthropic" -> AnthropicEvent(s, e)
    [] p = "gemini"    -> GeminiEvent(s, e)
    [] p = "ollama"    -> OllamaEvent(s, e)

-----------------------------------------------------------------------------
(* The receivers: what is cut off the buffer is read line by line.         *)
IsData(t) == t.kind \notin {"newline", ",", "event:"}

Receiver(p, cut, s) ==
  LET lines == SelectSeq(FlattenSeq(cut.whole), IsData)
  IN  FoldLeft(LAMBDA x, e : Handle(p, x, e), [s EXCEPT !.buffer = cut.rest], lines)

OpenAIReceive(s, chunk)    == Receiver("openai", CutFrames(s.buffer \o chunk), s)
DeepSeekReceive(s, chunk)  == Receiver("deepseek", CutFrames(s.buffer \o chunk), s)
GroqReceive(s, chunk)      == Receiver("groq", CutFrames(s.buffer \o chunk), s)
QwenReceive(s, chunk)      == Receiver("qwen", CutFrames(s.buffer \o chunk), s)
AIClientReceive(s, chunk)  ==   \* a refusal also ends the chunk
  LET Heard(x, e) == IF x.aborted THEN x ELSE AIClientEvent(x, e)
      cut == CutFrames(s.buffer \o chunk)
  IN  FoldLeft(Heard, [s EXCEPT !.buffer = cut.rest], SelectSeq(FlattenSeq(cut.whole), IsData))
AnthropicReceive(s, chunk) == Receiver("anthropic", CutFrames(s.buffer \o chunk), s)
GeminiReceive(s, chunk)    == Receiver("gemini", CutLines(s.buffer \o chunk), s)
OllamaReceive(s, chunk)    == Receiver("ollama", CutLines(s.buffer \o chunk), s)

ReceiveOf(p, s, chunk) ==
  CASE p = "openai"    -> OpenAIReceive(s, chunk)
    [] p = "deepseek"  -> DeepSeekReceive(s, chunk)
    [] p = "groq"      -> GroqReceive(s, chunk)
    [] p = "qwen"      -> QwenReceive(s, chunk)
    [] p = "aiclient"  -> AIClientReceive(s, chunk)
    [] p = "anthropic" -> AnthropicReceive(s, chunk)
    [] p = "gemini"    -> GeminiReceive(s, chunk)
    [] p = "ollama"    -> OllamaReceive(s, chunk)

-----------------------------------------------------------------------------
(* Replies.  Thrown stands for the LCError of the call.                    *)
Thrown == None

\* invoke_impl: [error] the request failed, [status] "ok" for 200, "2xx" for
\* its like, and a body that is no JSON, holds the message said, holds none,
\* or is an error wrapped in a 200.
Results == [error : BOOLEAN, status : {"ok", "2xx", "other"}, body : {"garbage", "message", "empty", "wrapped"}]

Usable(res) == ~res.error /\ res.status # "other" /\ res.body # "garbage"
Wrapping(res, message) == IF res.body = "message" THEN message ELSE UserMessage(<<>>)

OpenAIInvoke(res)    == IF Usable(res) /\ res.body # "wrapped" THEN Wrapping(res, OpenAIDecode(said)) ELSE Thrown
DeepSeekInvoke(res)  == IF Usable(res) THEN Wrapping(res, DeepSeekDecode(said)) ELSE Thrown
GroqInvoke(res)      == IF Usable(res) THEN Wrapping(res, GroqDecode(said)) ELSE Thrown
QwenInvoke(res)      == IF Usable(res) THEN Wrapping(res, QwenDecode(said)) ELSE Thrown
AIClientInvoke(res)  == IF Usable(res) THEN Wrapping(res, AIClientDecode(said)) ELSE Thrown
GeminiInvoke(res)    == IF Usable(res) THEN Wrapping(res, GeminiDecode(said)) ELSE Thrown
\* These two decode whatever object came.
AnthropicInvoke(res) ==
  IF ~Usable(res) THEN Thrown ELSE IF res.body = "message" THEN AnthropicDecode(said) ELSE AssistantMessage(<<>>)
OllamaInvoke(res) ==
  IF ~Usable(res) \/ res.status # "ok" THEN Thrown
  ELSE IF res.body = "message" THEN OllamaDecode(said) ELSE AssistantMessage(<<>>)

InvokeOf(p, res) ==
  CASE p = "openai"    -> OpenAIInvoke(res)
    [] p = "deepseek"  -> DeepSeekInvoke(res)
    [] p = "groq"      -> GroqInvoke(res)
    [] p = "qwen"      -> QwenInvoke(res)
    [] p = "aiclient"  -> AIClientInvoke(res)
    [] p = "anthropic" -> AnthropicInvoke(res)
    [] p = "gemini"    -> GeminiInvoke(res)
    [] p = "ollama"    -> OllamaInvoke(res)

\* invoke_stream_impl, when the request is over.
StreamReply(s) == [AssistantMessage(s.content) EXCEPT !.calls = s.calls]
StreamFinish(p, s) == IF s.finish = None \/ (p = "anthropic" /\ s.finish = "end_turn") THEN "stop" ELSE s.finish

PayloadOf(p, req, streamed) ==
  CASE p = "openai"    -> OpenAIPayload(req, streamed)
    [] p = "deepseek"  -> DeepSeekPayload(req, streamed)
    [] p = "groq"      -> GroqPayload(req, streamed)
    [] p = "qwen"      -> QwenPayload(req, streamed)
    [] p = "aiclient"  -> AIClientPayload(req, streamed)
    [] p = "anthropic" -> AnthropicPayload(req, streamed)
    [] p = "gemini"    -> GeminiPayload(req)
    [] p = "ollama"    -> OllamaPayload(req, streamed)

Request(messages) == [messages |-> messages, opts |-> {"max_tokens", "stop"}, tools |-> {"tool"}]
Question == UserMessage(<<"question">>)

-----------------------------------------------------------------------------
\* What a provider may return whole.
Items(p) ==
  LET texts == {TextPart(<<t>>) : t \in Texts}
      data  == {Base64Part("d", "image/jpeg")}
      url   == {UrlPart(HttpUrl("u"))}
  IN  CASE p \in Compatible -> texts \cup url \cup {UrlPart(DataUrl("image/jpeg", "d"))}
        [] p = "anthropic"  -> texts \cup url \cup data
        [] p = "gemini"     -> texts \cup data
        [] p = "ollama"     -> {}

SaidBy(p) ==
  LET contents == (IF p \in Compatible \cup {"ollama"} THEN {StringOf(<<t>>) : t \in Texts} ELSE {})
                    \cup {ArrayOf(s) : s \in SeqOf(Items(p), MaxBlocks) \ {<<>>}}
      calls == {[id |-> i, name |-> "tool", args |-> <<i>>] : i \in 1..2}
  IN  [role : {IF p = "gemini" THEN "model" ELSE "assistant"}, content : contents, id : {None},
       calls : IF p \in Compatible THEN SeqOf(calls, 2) ELSE {<<>>}]

Wire(p, es) == FlattenSeq([i \in DOMAIN es |-> Written(p, es[i])])

Bases == [scheme : BOOLEAN, path : {<<>>, <<"llm">>, <<"v1">>, <<"llm", "v1">>, <<"v1", "llm">>}]

EndpointOf(p, base) ==
  CASE p = "openai"    -> OpenAIEndpoint(base)
    [] p = "deepseek"  -> DeepSeekEndpoint(base)
    [] p = "groq"      -> GroqEndpoint(base)
    [] p = "qwen"      -> QwenEndpoint(base)
    [] p = "aiclient"  -> AIClientEndpoint(base)
    [] p = "anthropic" -> AnthropicEndpoint(base)
    [] p = "gemini"    -> GeminiEndpoint(base)
    [] p = "ollama"    -> OllamaEndpoint(base)

\* A provider may also answer a request for a stream with one JSON body.
Init ==
  /\ provider \in Providers /\ stream \in BOOLEAN
  /\ IF stream THEN /\ events \in SeqOf(EventsOf(provider), MaxEvents) /\ patience \in {1, MaxEvents}
                    /\ said \in IF events = <<>> THEN {None} \cup SaidBy(provider) ELSE {None}
               ELSE events = <<>> /\ patience = MaxEvents /\ said \in SaidBy(provider)
  /\ endpoint \in {EndpointOf(provider, b) : b \in IF Len(events) = 1 THEN Bases ELSE {[scheme |-> TRUE, path |-> <<>>]}}
  /\ wire = IF stream /\ said # None THEN <<Mark("body")>> ELSE Wire(provider, events)
  /\ st = [buffer |-> <<>>, content |-> <<>>, calls |-> <<>>, finish |-> None, aborted |-> FALSE, deltas |-> <<>>]
  /\ phase = "posted" /\ reply = None
  /\ payload = PayloadOf(provider, Request(<<Question>>), stream)

Ends(message) ==
  /\ reply' = message
  /\ phase' = IF message = Thrown THEN "thrown" ELSE "replied"
  /\ UNCHANGED <<provider, stream, events, said, endpoint, patience, wire, st, payload>>

Invoke ==
  /\ phase = "posted" /\ ~stream
  /\ \E res \in Results : Ends(InvokeOf(provider, res))

\* Mutation: a receiver that is told to stop goes on.
ReceiveOn ==
  /\ phase = "posted" /\ stream
  /\ \E n \in 1..Len(wire) :
       /\ st' = [ReceiveOf(provider, st, SubSeq(wire, 1, n)) EXCEPT !.aborted = FALSE]
       /\ wire' = SubSeq(wire, n + 1, Len(wire))
  /\ UNCHANGED <<provider, stream, events, said, endpoint, patience, phase, reply, payload>>

\* A callback of the receiver; it is not called again once it has returned false.
Receive ==
  /\ phase = "posted" /\ stream /\ ~st.aborted
  /\ \E n \in 1..Len(wire) :
       /\ st' = ReceiveOf(provider, st, SubSeq(wire, 1, n))
       /\ wire' = SubSeq(wire, n + 1, Len(wire))
  /\ UNCHANGED <<provider, stream, events, said, endpoint, patience, phase, reply, payload>>

\* The body is over, wherever the provider ended it.
StreamOver ==
  /\ phase = "posted" /\ stream /\ ~st.aborted
  /\ Ends(StreamReply(st))

\* The connection is lost, the status is not a good one, or the receiver
\* returned false, which httplib reports as a failed request.
StreamFails ==
  /\ phase = "posted" /\ stream
  /\ Ends(Thrown)

\* The next request: the conversation with the reply and an answer to each call.
AskAgain ==
  /\ phase = "replied"
  /\ phase' = "again"
  /\ payload' = PayloadOf(provider,
                          Request(<<Question, reply>> \o [i \in DOMAIN reply.calls |-> ToolMessage(<<"result">>, reply.calls[i].id)]),
                          stream)
  /\ UNCHANGED <<provider, stream, events, said, endpoint, patience, wire, st, reply>>

Next == Invoke \/ Receive \/ StreamOver \/ StreamFails \/ AskAgain

Spec == Init /\ [][Next]_vars

-----------------------------------------------------------------------------
(* The events of which every token has arrived; all have as many.          *)
Whole ==
  LET each == Len(Written(provider, NL))
  IN  IF said # None THEN <<>> ELSE SubSeq(events, 1, Len(events) - (Len(wire) + each - 1) \div each)

Spoken(es) == SelectSeq([i \in DOMAIN es |-> IF es[i].text = None THEN <<>> ELSE es[i].text], LAMBDA t : t # <<>>)

\* Call i: its last id, its last name, and all that came for its arguments.
CallOf(es, i) ==
  LET mine == SelectSeq(FlattenSeq([k \in DOMAIN es |-> es[k].calls]), LAMBDA f : f.index = i)
      known == SelectSeq(mine, LAMBDA f : f.id # None)
      named == SelectSeq(mine, LAMBDA f : f.name # None)
  IN  [id   |-> IF known = <<>> THEN None ELSE Last(known).id,
       name |-> IF named = <<>> THEN None ELSE Last(named).name,
       args |-> FlattenSeq([k \in DOMAIN mine |-> mine[k].args])]
CallsOf(es) ==
  LET indices == UNION {{es[k].calls[j].index : j \in DOMAIN es[k].calls} : k \in DOMAIN es}
      n == IF 2 \in indices THEN 2 ELSE IF 1 \in indices THEN 1 ELSE 0
  IN  [i \in 1..n |-> CallOf(es, i)]

\* Why it ended, by the last event that says so; a message_stop, which has
\* no reason, is taken for "stop".
FinishOf(es) ==
  LET telling == SelectSeq(es, LAMBDA e : e.finish # None \/ e.kind = "message_stop")
  IN  IF telling = <<>> \/ Last(telling).finish \in {None, "end_turn", "done"} THEN "stop"
      ELSE IF Last(telling).finish = "MAX_TOKENS" THEN "length" ELSE Last(telling).finish

\* Types of the locals and of what came out.
TypeOK ==
  /\ provider \in Providers /\ stream \in BOOLEAN
  /\ phase \in {"posted", "replied", "thrown", "again"}
  /\ st.aborted \in BOOLEAN
  /\ \A k \in DOMAIN st.calls : st.calls[k].args \in Seq(1..2)
  /\ reply = None \/ reply.role \in {"assistant", "user"}

\* AIClient hears no event behind the one that was refused.
Heard ==
  IF provider = "aiclient" /\ Len(Spoken(Whole)) > patience
    THEN LET upTo == CHOOSE k \in DOMAIN Whole : Len(Spoken(SubSeq(Whole, 1, k))) = patience + 1 /\ Whole[k].text # None
         IN  SubSeq(Whole, 1, upTo)
    ELSE Whole

\* What the provider said.
ContentOf(es) == IF stream THEN FlattenSeq(Spoken(es)) ELSE said.content
CallsSaid(es) == IF ~stream THEN said.calls ELSE IF provider = "aiclient" THEN <<>> ELSE CallsOf(es)

(* A stream is read as it was written, wherever the network cuts it: at    *)
(* every moment the text gathered, the deltas given out, the calls merged  *)
(* from their fragments and the finish reason are those of the events that *)
(* have arrived whole; and after on_delta has said no, nothing that comes  *)
(* in a later chunk is read, and no reply is made of what was.  Two things *)
(* an event says are lost, and the property says so: the stop_reason of    *)
(* Anthropic's message_delta once message_stop has come, so that a stream  *)
(* cut short at max_tokens ends as one that is complete, and the name of a *)
(* call when a later fragment of it brings an empty one.                   *)
StreamTracksWire ==
  stream =>
    LET heard == Heard
        spoken == Spoken(heard)
    IN  /\ st.content = FlattenSeq(spoken) /\ st.deltas = spoken
        /\ st.calls = CallsSaid(heard)
        /\ StreamFinish(provider, st) = FinishOf(heard)
        /\ Len(st.deltas) > patience => reply = None

\* A reply that was made of an answer without a message.
NothingSaid == ~stream /\ reply \in {UserMessage(<<>>), AssistantMessage(<<>>)}

(* The conversation goes back as it came: the next request repeats the     *)
(* provider's message to it, text, images and calls, and answers each of   *)
(* its calls under the id the provider gave it; and it goes to an endpoint *)
(* that names the version of the interface once, as openai_common.h says.  *)
EchoesReply ==
  phase = "again" /\ ~NothingSaid =>
    LET heard == Heard
        back == payload.messages[2]
        answers == SubSeq(payload.messages, 3, Len(payload.messages))
    IN  /\ IF stream THEN FlattenSeq(MapSeq(LAMBDA i : i.text, back.content.items)) \o back.content.text = ContentOf(heard)
                     ELSE back.content = ContentOf(heard)
        /\ back.role = IF provider = "gemini" THEN "model" ELSE "assistant"
        /\ provider \in Compatible =>
             /\ back.calls = CallsSaid(heard)
             /\ [k \in DOMAIN answers |-> answers[k].id] = [k \in DOMAIN CallsSaid(heard) |-> CallsSaid(heard)[k].id]
        /\ provider \in Compatible \ {"aiclient"} => Cardinality({i \in DOMAIN endpoint : endpoint[i] = "v1"}) = 1
=============================================================================

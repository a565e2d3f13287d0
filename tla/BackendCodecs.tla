---------------------------- MODULE BackendCodecs ----------------------------
(***************************************************************************)
(* What the HTTP backends of llm::ILLM, and api::AIClient, write to and    *)
(* read from a provider, as functions: the endpoint of a base URL, the     *)
(* payload of a request, the message of a reply.  openai_llm.cpp,          *)
(* deepseek_llm.cpp, groq_llm.cpp, qwen_llm.cpp and api/client.cpp are     *)
(* copies of one another but for the places named below, each with         *)
(* definitions of its own here, so that each can go wrong alone.           *)
(*                                                                         *)
(* A text is a sequence of pieces, an empty one the empty sequence; an     *)
(* absent name, id or JSON field is None.  A message has the fields of     *)
(* util/common.h.  A JSON content is an array of items, a string, or       *)
(* absent; its items carry the fields of ContentPart under other names.    *)
(***************************************************************************)
EXTENDS Naturals, Sequences, SequencesExt

CONSTANTS None

Compatible == {"openai", "deepseek", "groq", "qwen", "aiclient"}
Providers  == Compatible \cup {"anthropic", "gemini", "ollama"}

NoPart == [type |-> None, text |-> <<>>, url |-> None, data |-> None, mime |-> None]

TextPart(t)         == [NoPart EXCEPT !.type = "text", !.text = t]
UrlPart(u)          == [NoPart EXCEPT !.type = "image_url", !.url = u]
Base64Part(d, mime) == [NoPart EXCEPT !.type = "image_base64", !.data = d, !.mime = mime]

\* "data:<mime>;base64,<body>", in which the comma or the mime may be missing,
\* and any other URL.
DataUrl(mime, body) == [data |-> TRUE, comma |-> TRUE, mime |-> mime, body |-> body]
HttpUrl(body)       == [data |-> FALSE, comma |-> FALSE, mime |-> None, body |-> body]

AssistantMessage(t) == [role |-> "assistant", text |-> t, parts |-> <<>>, id |-> None, calls |-> <<>>]
ToolMessage(t, id)  == [AssistantMessage(t) EXCEPT !.role = "tool", !.id = id]
UserMessage(t)      == [AssistantMessage(t) EXCEPT !.role = "user"]

ArrayOf(items) == [kind |-> "array", items |-> items, text |-> <<>>]
StringOf(t)    == [kind |-> "string", items |-> <<>>, text |-> t]
Absent         == [kind |-> "absent", items |-> <<>>, text |-> <<>>]

MapSeq(Op(_), s) == [i \in DOMAIN s |-> Op(s[i])]
JoinLines(texts) == FlattenSeq([i \in DOMAIN texts |-> IF i = 1 THEN texts[i] ELSE <<"\n">> \o texts[i]])

\* The image a data URL holds; "image/png" when it names no type.
Inline(u) == Base64Part(u.body, IF u.mime = None THEN "image/png" ELSE u.mime)

-----------------------------------------------------------------------------
(* Events.  One shape for all: the text it carries (None: no string),      *)
(* fragments of calls by index, and a finish reason.                       *)
Event(k, t, cs, f) == [kind |-> k, text |-> t, calls |-> cs, finish |-> f]
Mark(k) == Event(k, None, <<>>, None)
NL == Mark("newline")
Fragment(i, id, n, a) == [index |-> i, id |-> id, name |-> n, args |-> a]

\* Mutation: one frame per chunk.
CutOneFrame(b) ==
  LET all == {i \in 1..(Len(b) - 1) : b[i] = NL /\ b[i + 1] = NL}
      cut == CHOOSE i \in all : \A k \in all : i <= k
  IN  IF all = {} THEN [whole |-> <<>>, rest |-> b]
                  ELSE [whole |-> <<SubSeq(b, 1, cut - 1)>>, rest |-> SubSeq(b, cut + 2, Len(b))]

(* The receivers: the buffer is cut at "\n\n" into frames, or at "\n" into *)
(* lines, and what is behind the last cut stays in it.                     *)
CutFrames(b) ==
  FoldLeft(LAMBDA c, t : IF t = NL /\ c.rest # <<>> /\ Last(c.rest) = NL
                           THEN [whole |-> Append(c.whole, Front(c.rest)), rest |-> <<>>]
                           ELSE [c EXCEPT !.rest = Append(@, t)],
           [whole |-> <<>>, rest |-> <<>>], b)

\* Mutation: what is behind the last line is dropped with it.
CutLinesOnly(b) ==
  [whole |-> FoldLeft(LAMBDA c, t : IF t = NL THEN Append(c, <<>>) ELSE [c EXCEPT ![Len(c)] = Append(@, t)], <<<<>>>>, b),
   rest |-> <<>>]

CutLines(b) ==
  FoldLeft(LAMBDA c, t : IF t = NL THEN [whole |-> Append(c.whole, c.rest), rest |-> <<>>]
                                   ELSE [c EXCEPT !.rest = Append(@, t)],
           [whole |-> <<>>, rest |-> <<>>], b)

-----------------------------------------------------------------------------
(* Base URLs: [scheme, path], the path a sequence of segments.  Without    *)
(* "://" everything is taken for the host.                                 *)
Prefix(base) == IF base.scheme THEN base.path ELSE <<>>

\* openai_common.h: "/v1" is added unless the prefix ends in it or has it inside.
CompletionsPath(prefix) ==
  IF Contains(prefix, "v1") THEN prefix \o <<"chat", "completions">>
                            ELSE prefix \o <<"v1", "chat", "completions">>

OpenAIEndpoint(base)    == CompletionsPath(Prefix(base))
DeepSeekEndpoint(base)  == CompletionsPath(Prefix(base))
GroqEndpoint(base)      == CompletionsPath(Prefix(base))
QwenEndpoint(base)      == CompletionsPath(Prefix(base))
AIClientEndpoint(base)  == Prefix(base) \o <<"v1", "chat", "completions">>   \* also behind a "/v1"
AnthropicEndpoint(base) == Prefix(base) \o <<"v1", "messages">>
GeminiEndpoint(base)    == Prefix(base) \o <<"models", "generate">>
OllamaEndpoint(base)    == Prefix(base) \o <<"api", "chat">>

-----------------------------------------------------------------------------
(* OpenAI and its copies: messages.                                        *)
OpenAIItem(part) ==
  CASE part.type = "text"         -> TextPart(part.text)
    [] part.type = "image_url"    -> UrlPart(part.url)
    [] part.type = "image_base64" -> UrlPart(DataUrl(part.mime, part.data))
    [] OTHER                      -> [NoPart EXCEPT !.type = part.type]

OpenAIContent(m) ==
  IF m.parts # <<>> THEN ArrayOf(MapSeq(OpenAIItem, m.parts))
  ELSE IF m.text # <<>> THEN StringOf(m.text) ELSE Absent

\* Mutation: the calls of an assistant message are not repeated to the provider.
OpenAIEncodeText(m) == [role |-> m.role, content |-> OpenAIContent(m), id |-> m.id, calls |-> <<>>]

OpenAIEncode(m) == [role |-> m.role, content |-> OpenAIContent(m), id |-> m.id, calls |-> m.calls]

OpenAIPart(item) ==
  CASE item.type = "text" -> TextPart(item.text)
    [] item.type = "image_url" -> IF item.url.data /\ item.url.comma THEN Inline(item.url) ELSE UrlPart(item.url)
    [] OTHER -> TextPart(<<item.type>>)

\* The text beside the parts, for callers that read no parts.
Shown(part) == IF part.type = "text" THEN part.text ELSE <<part.type>>

OpenAIDecode(j) ==
  LET parts == MapSeq(OpenAIPart, j.content.items)
  IN  [role |-> j.role, parts |-> parts, id |-> None, calls |-> j.calls,
       text |-> IF j.content.kind = "array" THEN JoinLines(MapSeq(Shown, parts)) ELSE j.content.text]

\* The same code, four times.
DeepSeekEncode(m) == OpenAIEncode(m)
DeepSeekDecode(j) == OpenAIDecode(j)
GroqEncode(m)     == OpenAIEncode(m)
GroqDecode(j)     == OpenAIDecode(j)
QwenEncode(m)     == OpenAIEncode(m)
QwenDecode(j)     == OpenAIDecode(j)
AIClientEncode(m) == OpenAIEncode(m)
AIClientDecode(j) == OpenAIDecode(j)

-----------------------------------------------------------------------------
(* Anthropic: blocks; what is no text and no image has no place in them,   *)
(* nor have calls and their ids.                                           *)
AnthropicEncode(m) ==
  [role |-> m.role, id |-> None, calls |-> <<>>,
   content |-> IF m.parts # <<>>
                 THEN ArrayOf(SelectSeq(m.parts, LAMBDA p : p.type \in {"text", "image_url", "image_base64"}))
                 ELSE IF m.text # <<>> THEN ArrayOf(<<TextPart(m.text)>>) ELSE Absent]

\* Mutation: only the first block of a reply is kept.
AnthropicDecodeFirst(j) ==
  [AssistantMessage(IF j.content.items # <<>> THEN Shown(Head(j.content.items)) ELSE <<>>) EXCEPT
     !.parts = IF j.content.items # <<>> THEN <<Head(j.content.items)>> ELSE <<>>]

AnthropicDecode(j) ==
  LET blocks == SelectSeq(j.content.items, LAMBDA b : b.type \in {"text", "image_url", "image_base64", "image"})
  IN  [role |-> j.role, id |-> None, calls |-> <<>>,
       parts |-> SelectSeq(blocks, LAMBDA b : b.type # "image"),     \* "image": of an unknown source
       text |-> IF j.content.kind = "array" THEN JoinLines(MapSeq(LAMBDA b : IF b.type = "text" THEN b.text ELSE <<"image">>, blocks))
                                            ELSE j.content.text]

(* Gemini: two roles, and images inline; a URL becomes a text about it.    *)
GeminiPart(part) ==
  CASE part.type = "text"         -> TextPart(part.text)
    [] part.type = "image_base64" -> part
    [] part.type = "image_url"    -> IF part.url.data /\ part.url.comma THEN Inline(part.url) ELSE TextPart(<<part.url.body>>)
    [] OTHER                      -> TextPart(<<part.type>>)

GeminiEncode(m) ==
  [role |-> IF m.role = "user" THEN "user" ELSE "model", id |-> None, calls |-> <<>>,
   content |-> ArrayOf(IF m.parts # <<>> THEN MapSeq(GeminiPart, m.parts)
                       ELSE IF m.text # <<>> THEN <<TextPart(m.text)>> ELSE <<>>)]

\* A part of another kind (a function call) leaves an empty line in the text.
GeminiDecode(j) ==
  [role |-> IF j.role = "user" THEN "user" ELSE "assistant", id |-> None, calls |-> <<>>,
   parts |-> SelectSeq(j.content.items, LAMBDA p : p.type \in {"text", "image_base64"}),
   text |-> JoinLines(MapSeq(LAMBDA p : IF p.type = "text" THEN p.text
                                        ELSE IF p.type = "image_base64" THEN <<p.type>> ELSE <<>>, j.content.items))]

(* Ollama: one text and a list of images; replies are text.                *)
OllamaEncode(m) ==
  LET texts  == SelectSeq(m.parts, LAMBDA p : p.type = "text")
      images == SelectSeq(m.parts, LAMBDA p : p.type \in {"image_url", "image_base64"})
  IN  [role |-> m.role, id |-> None, calls |-> <<>>,
       content |-> IF m.parts # <<>> THEN [kind |-> "string", text |-> FlattenSeq(MapSeq(LAMBDA p : p.text, texts)), items |-> images]
                   ELSE IF m.text # <<>> THEN StringOf(m.text) ELSE Absent]

OllamaDecode(j) == [AssistantMessage(j.content.text) EXCEPT !.role = j.role]

-----------------------------------------------------------------------------
(* Payloads.  A request has messages, a set of options that are given, and *)
(* tools; the payload's fields are the names the options go by.            *)
OptionNames == {"temperature", "max_tokens", "top_p", "top_k", "stop"}

\* The names of the options that differ from provider to provider.
GeminiName == [temperature |-> "temperature", max_tokens |-> "maxOutputTokens", top_p |-> "topP", top_k |-> "topK", stop |-> "stopSequences"]
OllamaName == [temperature |-> "temperature", max_tokens |-> "num_predict", top_p |-> "top_p", top_k |-> "top_k", stop |-> "stop"]

OpenAIPayload(req, stream) ==
  [stream |-> stream, messages |-> MapSeq(OpenAIEncode, req.messages), fields |-> req.opts, tools |-> req.tools]
DeepSeekPayload(req, stream) ==
  [stream |-> stream, messages |-> MapSeq(DeepSeekEncode, req.messages), fields |-> req.opts, tools |-> req.tools]
GroqPayload(req, stream) ==
  [stream |-> stream, messages |-> MapSeq(GroqEncode, req.messages), fields |-> req.opts, tools |-> req.tools]
QwenPayload(req, stream) ==
  [stream |-> stream, messages |-> MapSeq(QwenEncode, req.messages), fields |-> req.opts, tools |-> req.tools]
AIClientPayload(req, stream) ==
  [stream |-> stream, messages |-> MapSeq(AIClientEncode, req.messages), fields |-> req.opts, tools |-> req.tools]

\* max_tokens is the configuration's, whatever the request says; no tools.
AnthropicPayload(req, stream) ==
  [stream |-> stream, messages |-> MapSeq(AnthropicEncode, req.messages), tools |-> {},
   fields |-> (req.opts \ {"stop"}) \cup {"max_tokens"} \cup IF "stop" \in req.opts THEN {"stop_sequences"} ELSE {}]

\* The endpoint says whether to stream; no tools.
GeminiPayload(req) ==
  [stream |-> None, messages |-> MapSeq(GeminiEncode, req.messages), tools |-> {},
   fields |-> {GeminiName[o] : o \in req.opts} \cup {"safetySettings"}]

OllamaPayload(req, stream) ==
  [stream |-> stream, messages |-> MapSeq(OllamaEncode, req.messages), tools |-> {},
   fields |-> {OllamaName[o] : o \in req.opts}]
=============================================================================

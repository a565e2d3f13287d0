------------------------------- MODULE A2AWire -------------------------------
(***************************************************************************)
(* a2a/a2a.cpp: what the parties of the A2A protocol write to each other   *)
(* and what they make of it: cards, tasks and streams of tasks, of         *)
(* A2AClient, A2AServer and of agents that are neither.                    *)
(*                                                                         *)
(* An object is a record whose absent (or ill-typed) fields are None; an   *)
(* absent string is read as "".  A time counts half seconds.               *)
(***************************************************************************)
EXTENDS Naturals, Sequences, SequencesExt

CONSTANTS
  None,         \* an absent field, a null pointer
  MaxUpdates    \* updates of a stream

Frames == INSTANCE BackendCodecs

Or(value, default) == IF value = None THEN default ELSE value
Each(Op(_), s) == [i \in DOMAIN s |-> Op(s[i])]
Listed(js) == IF js = None THEN <<>> ELSE js

-----------------------------------------------------------------------------
(* Parts.  None in a list of parts is a null pointer, or an unknown kind.  *)
NoFields == [type |-> None, text |-> None, name |-> None, mime |-> None, bytes |-> None, uri |-> None, data |-> None]
Text(t)    == [NoFields EXCEPT !.type = "text", !.text = t]
File(n, u) == [NoFields EXCEPT !.type = "file", !.name = n, !.mime = "m", !.bytes = "b", !.uri = u]
Data(d)    == [NoFields EXCEPT !.type = "data", !.data = d]

PartToJson(p) == [p EXCEPT !.uri = IF p.uri = "" THEN None ELSE p.uri]

PartFromJson(j) ==
  CASE j.type = "text" -> Text(Or(j.text, ""))
    [] j.type = "file" -> [NoFields EXCEPT !.type = "file", !.name = Or(j.name, ""), !.mime = Or(j.mime, ""),
                                           !.bytes = Or(j.bytes, ""), !.uri = Or(j.uri, "")]
    [] j.type = "data" -> Data(Or(j.data, "null"))
    [] OTHER           -> None

\* Mutation: an object that is no part is kept as a null pointer.
PartsFromJsonAll(js) == Each(PartFromJson, Listed(js))

Present(parts) == SelectSeq(parts, LAMBDA p : p # None)
PartsToJson(parts) == Each(PartToJson, Present(parts))
PartsFromJson(js)  == Present(Each(PartFromJson, Listed(js)))

MessageToJson(m)   == [role |-> m.role, parts |-> PartsToJson(m.parts)]
MessageFromJson(j) == [role |-> Or(j.role, ""), parts |-> PartsFromJson(j.parts)]

-----------------------------------------------------------------------------
(* Tasks.                                                                  *)
TaskStates == {"pending", "working", "input-required", "completed", "failed", "canceled"}

\* Mutation: one state is not read.
StateFromStringOld(s) == IF s \in TaskStates \ {"input-required"} THEN s ELSE "pending"

StateFromString(s) == IF s \in TaskStates THEN s ELSE "pending"

\* A status without a time gets that of its reading.
Now == 5
StatusToJson(s)   == [state |-> s.state, timestamp |-> s.time \div 2]
StatusFromJson(j) == [state |-> StateFromString(Or(j.state, "pending")),
                      time |-> IF j.timestamp = None THEN Now ELSE 2 * j.timestamp]

ArtifactToJson(a) ==
  [name |-> a.name, description |-> a.description, index |-> a.index, metadata |-> a.metadata, parts |-> PartsToJson(a.parts)]
ArtifactFromJson(j) ==
  [name |-> Or(j.name, ""), description |-> Or(j.description, ""), index |-> Or(j.index, 0),
   metadata |-> IF j.metadata \in {None, "null"} THEN "{}" ELSE j.metadata, parts |-> PartsFromJson(j.parts)]

TaskToJson(t) ==
  [id |-> t.id, session_id |-> t.session_id, status |-> StatusToJson(t.status),
   artifacts |-> Each(ArtifactToJson, t.artifacts), history |-> Each(MessageToJson, t.history)]

\* Mutation: the artifacts of a task are not read.
TaskFromJsonShort(j) ==
  [id |-> Or(j.id, ""), session_id |-> Or(j.session_id, ""), artifacts |-> <<>>,
   status |-> IF j.status = None THEN [state |-> "pending", time |-> 0] ELSE StatusFromJson(j.status),
   history |-> Each(MessageFromJson, Listed(j.history))]

TaskFromJson(j) ==
  [id |-> Or(j.id, ""), session_id |-> Or(j.session_id, ""),
   status |-> IF j.status = None THEN [state |-> "pending", time |-> 0] ELSE StatusFromJson(j.status),
   artifacts |-> Each(ArtifactFromJson, Listed(j.artifacts)), history |-> Each(MessageFromJson, Listed(j.history))]

-----------------------------------------------------------------------------
(* Cards.  An entry of a list of strings that is none is None.             *)
Strings(js) == SelectSeq(Listed(js), LAMBDA s : s # None)

CapabilityToJson(c)   == c
CapabilityFromJson(j) == [streaming |-> Or(j.streaming, FALSE), push_notifications |-> Or(j.push_notifications, FALSE)]
AuthenticationToJson(a)   == [schemes |-> a.schemes]
AuthenticationFromJson(j) == [schemes |-> Strings(j.schemes)]
SkillToJson(s)   == s
SkillFromJson(j) ==
  [id |-> Or(j.id, ""), name |-> Or(j.name, ""), description |-> Or(j.description, ""),
   examples |-> Strings(j.examples), input_modes |-> Strings(j.input_modes), output_modes |-> Strings(j.output_modes)]

CardToJson(c) ==
  [c EXCEPT !.capabilities = CapabilityToJson(@), !.authentication = AuthenticationToJson(@), !.skills = Each(SkillToJson, @)]
CardFromJson(j) ==
  [name |-> Or(j.name, ""), description |-> Or(j.description, ""), url |-> Or(j.url, ""), version |-> Or(j.version, ""),
   capabilities |-> IF j.capabilities = None THEN [streaming |-> FALSE, push_notifications |-> FALSE] ELSE CapabilityFromJson(j.capabilities),
   authentication |-> IF j.authentication = None THEN [schemes |-> <<>>] ELSE AuthenticationFromJson(j.authentication),
   skills |-> Each(SkillFromJson, SelectSeq(Listed(j.skills), LAMBDA s : s # None))]
-----------------------------------------------------------------------------
VARIABLES
  amode,     \* "send", "subscribe", "get" of a foreign task, "discover"
  sent,      \* what one side has: a task, a card, an object of a foreign agent
  got,       \* what the other side made of it
  updates,   \* the tasks a handler reports
  frames,    \* the tokens of the stream that are not yet received
  abuffer, heard, willing, \* send_task_stream: the buffer, what on_update got, how often it agrees
  astate     \* "asked", "done", "threw"

vars == <<amode, sent, got, updates, frames, abuffer, heard, willing, astate>>

\* Tasks that differ from a plain one in one respect each.
Plain == [id |-> "i", session_id |-> "", status |-> [state |-> "working", time |-> 2], artifacts |-> <<>>, history |-> <<>>]
PartLists == SeqOf({Text(""), Text("t"), File("n", ""), File("n", "u"), Data("d"), Data("null"), None}, 2)
Tasks ==
  {[Plain EXCEPT !.status = [state |-> st, time |-> t]] : st \in TaskStates, t \in 0..3}
    \cup {[Plain EXCEPT !.history = <<[role |-> r, parts |-> ps], [role |-> "agent", parts |-> <<>>]>>] : r \in {"", "user"}, ps \in PartLists}
    \cup {[Plain EXCEPT !.artifacts = <<[name |-> "n", description |-> "", index |-> 1, metadata |-> md, parts |-> ps]>>]
             : md \in {"{}", "m", "null"}, ps \in PartLists}

ForeignPart == [NoFields EXCEPT !.type = "image"]
ForeignTasks ==
  [id : {None, "i"}, session_id : {None}, status : {None} \cup [state : {None, "submitted", "failed"}, timestamp : {None, 1}],
   artifacts : {None, <<[name |-> None, description |-> None, index |-> None, metadata |-> None, parts |-> <<ForeignPart, Text("t")>>]>>},
   history : {None, <<[role |-> None, parts |-> None]>>, <<[role |-> "user", parts |-> <<[NoFields EXCEPT !.type = "file"], ForeignPart>>]>>}]

Skills == [id : {"s"}, name : {"n"}, description : {""}, examples : SeqOf({"e"}, 1), input_modes : SeqOf({"text", "image"}, 2), output_modes : {<<"text">>}]
Cards ==
  [name : {"n"}, description : {""}, url : {"u"}, version : {"1"},
   capabilities : [streaming : BOOLEAN, push_notifications : BOOLEAN],
   authentication : [schemes : SeqOf({"basic", "bearer"}, 2)], skills : SeqOf(Skills, 1)]

\* The server's wrapper writes each update as a frame; the line of another
\* server's frame may be no JSON.
Framed(u) == <<u, Frames!NL, Frames!NL>>
Junk == Frames!Mark("other")

Init ==
  /\ amode \in {"send", "subscribe", "get", "discover"}
  /\ sent \in CASE amode = "send" -> Tasks [] amode = "get" -> ForeignTasks [] amode = "discover" -> Cards [] OTHER -> {None}
  /\ updates \in IF amode = "subscribe" THEN SeqOf({Frames!Event("update", u, <<>>, None) : u \in 1..2} \cup {Junk}, MaxUpdates) ELSE {<<>>}
  /\ willing \in IF amode = "subscribe" THEN 0..MaxUpdates ELSE {0}
  /\ frames = FlattenSeq(Each(Framed, updates))
  /\ got = None /\ abuffer = <<>> /\ heard = <<>> /\ astate = "asked"

Answered(value) ==
  /\ got' = value /\ astate' = "done"
  /\ UNCHANGED <<amode, sent, updates, frames, abuffer, heard, willing>>

\* A2AClient::send_task and the route of tasks/send: the handler here returns
\* the task it got.
SendTask == astate = "asked" /\ amode = "send" /\ Answered(TaskFromJson(TaskToJson(TaskFromJson(TaskToJson(sent)))))
GetTask  == astate = "asked" /\ amode = "get" /\ Answered(TaskFromJson(sent))
Discover == astate = "asked" /\ amode = "discover" /\ Answered(CardFromJson(CardToJson(sent)))

\* No connection, no 2xx, no JSON, or on_update returned false.
Throws ==
  /\ astate = "asked" /\ astate' = "threw"
  /\ UNCHANGED <<amode, sent, got, updates, frames, abuffer, heard, willing>>

Refused == Len(heard) > willing

\* Mutation: the buffer is forgotten when a callback of the receiver returns.
ReceiveUpdatesAfresh(b, hs, chunk) ==
  LET cut == Frames!CutFrames(chunk)
      data == SelectSeq(FlattenSeq(cut.whole), LAMBDA t : t.kind = "update")
      room == willing + 1 - Len(hs)
  IN  [rest |-> cut.rest, heard |-> hs \o SubSeq(data, 1, IF Len(data) < room THEN Len(data) ELSE room)]

\* The receiver of send_task_stream; a refusal ends the chunk as well.
ReceiveUpdates(b, hs, chunk) ==
  LET cut == Frames!CutFrames(b \o chunk)
      data == SelectSeq(FlattenSeq(cut.whole), LAMBDA t : t.kind = "update")
      room == willing + 1 - Len(hs)
  IN  [rest |-> cut.rest, heard |-> hs \o SubSeq(data, 1, IF Len(data) < room THEN Len(data) ELSE room)]

ReceiveChunk ==
  /\ astate = "asked" /\ amode = "subscribe" /\ ~Refused
  /\ \E n \in 1..Len(frames) :
       LET r == ReceiveUpdates(abuffer, heard, SubSeq(frames, 1, n))
       IN  /\ abuffer' = r.rest /\ heard' = r.heard
           /\ frames' = SubSeq(frames, n + 1, Len(frames))
  /\ UNCHANGED <<amode, sent, got, updates, willing, astate>>

StreamOver ==
  /\ astate = "asked" /\ amode = "subscribe" /\ ~Refused
  /\ Answered(None)

Next == SendTask \/ GetTask \/ Discover \/ Throws \/ ReceiveChunk \/ StreamOver

Spec == Init /\ [][Next]_vars

-----------------------------------------------------------------------------
\* What is left of a task: null parts and half seconds are not, and an
\* artifact's metadata is an object.
Carried(t) ==
  [t EXCEPT !.status.time = 2 * (@ \div 2),
            !.artifacts = Each(LAMBDA a : [a EXCEPT !.parts = Present(@), !.metadata = IF @ = "null" THEN "{}" ELSE @], @),
            !.history = Each(LAMBDA m : [m EXCEPT !.parts = Present(@)], @)]

TypeOK ==
  /\ amode \in {"send", "subscribe", "get", "discover"} /\ astate \in {"asked", "done", "threw"}
  /\ willing \in Nat /\ Len(heard) <= Len(updates)

(* What arrives is what was sent: a task that went to the server and back, *)
(* a card that was discovered; an object of a foreign agent becomes a task *)
(* that this library would carry unchanged, with no null part and one of   *)
(* the six states.  Updates are heard in order, each once, as soon as its  *)
(* frame is there wherever the network cuts it, and none after a refusal,  *)
(* which is never taken for the end of the stream.                         *)
WireKeeps ==
  /\ astate = "done" /\ amode = "send" => got = Carried(sent)
  /\ astate = "done" /\ amode = "discover" => got = sent
  /\ astate = "done" /\ amode = "get" =>
       /\ TaskFromJson(TaskToJson(got)) = Carried(got) /\ got.status.state \in TaskStates
       /\ \A i \in DOMAIN got.artifacts : None \notin Range(got.artifacts[i].parts)
       /\ \A i \in DOMAIN got.history : None \notin Range(got.history[i].parts)
  /\ amode = "subscribe" =>
       LET whole == (Len(updates) * 3 - Len(frames)) \div 3
           arrived == SelectSeq(SubSeq(updates, 1, whole), LAMBDA u : u # Junk)
       IN  /\ heard = SubSeq(arrived, 1, IF Len(arrived) > willing THEN willing + 1 ELSE Len(arrived))
           /\ astate = "done" => Len(heard) <= willing
=============================================================================

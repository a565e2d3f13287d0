--------------------------------- MODULE Agents ---------------------------------
(***************************************************************************)
(* One invocation of a ReActAgent or a ToolCallingAgent: run_impl_msg with *)
(* the span around it.  The loop asks the model, runs the tools the answer *)
(* names, appends what they return to the conversation and asks again, at  *)
(* most max_iterations times.  The two agents differ in how an answer      *)
(* names its tools (text that is parsed, at most one; tool_calls, several) *)
(* and in the role under which an observation goes back.  The memory is    *)
(* shared with other invocations of the same session, which append to it   *)
(* at any time.  The model, the tools, the memory and the callback may     *)
(* throw.                                                                  *)
(*                                                                         *)
(* Left out: the system prompt, texts, and the arguments of a tool, whose  *)
(* parse errors give an empty object and not an exception.                 *)
(***************************************************************************)
EXTENDS Naturals, SequencesExt

CONSTANTS MaxIterations, MaxCalls, MaxOthers

Agents == {"react", "calling"}
Modes == {"plain", "delta", "event"}
Names == {"known", "unknown"}

VARIABLES
  agent, mode,  \* which agent, and which callback the caller gave
  pc,           \* where the invocation is
  iter,         \* iterations begun
  mem,          \* whether there is a memory
  memory,       \* what the session's memory holds
  stored,       \* what this invocation added to it, in order (history)
  conv,         \* the request: the memory as it was read, the user, the exchanges
  todo,         \* tool calls of the last answer that are still to run
  open,         \* spans that are open, innermost first
  events,       \* what on_event was given (history)
  steps,        \* result.steps: the ids of the calls
  finished,     \* result.finished
  aborted       \* the callback has returned false (history)

vars == <<agent, mode, mem, pc, iter, memory, stored, conv, todo, open, events, steps, finished, aborted>>

CallIds == (1..MaxIterations) \X (1..MaxCalls)
Calls == [id : CallIds, name : Names]
Roles == {"other", "user", "assistant", "tool", "observation"}
Message(role, calls, id) == [role |-> role, calls |-> calls, id |-> id]
Messages == [role : Roles, calls : Seq(CallIds), id : CallIds \cup {<<0, 0>>}]
Plain(role) == Message(role, <<>>, <<0, 0>>)
EventTypes == {"Thought", "ToolCall", "Observation", "Answer", "Error", "Done"}
PCs == {"start", "ask", "asked", "storeUser", "storeAnswer", "stored", "call", "tool", "observe", "returned", "threw"}

(* Every variable keeps its type.                                          *)
TypeOK ==
  /\ agent \in Agents /\ mode \in Modes /\ mem \in BOOLEAN /\ pc \in PCs
  /\ iter \in 0..MaxIterations
  /\ memory \in Seq({"other", "user", "answer"})
  /\ stored \in Seq({"user", "answer"})
  /\ conv \in Seq(Messages)
  /\ todo \in Seq(Calls)
  /\ open \in Seq({"agent", "tool"})
  /\ events \in Seq(EventTypes)
  /\ steps \in Seq(CallIds)
  /\ finished \in BOOLEAN /\ aborted \in BOOLEAN

Init ==
  /\ agent \in Agents /\ mode \in Modes /\ mem \in BOOLEAN /\ pc = "start"
  /\ iter = 0
  /\ memory \in (IF mem THEN {<<>>, <<"other">>} ELSE {<<>>})
  /\ stored = <<>> /\ conv = <<>> /\ todo = <<>> /\ open = <<>> /\ events = <<>> /\ steps = <<>>
  /\ finished = TRUE
  /\ aborted = FALSE

-----------------------------------------------------------------------------
(* An exception leaves run_impl_msg: the spans of the scopes it unwinds    *)
(* fire their After hook, and nothing else happens.                        *)
Throws ==
  /\ pc' = "threw"
  /\ open' = <<>>
  /\ todo' = <<>>
  /\ UNCHANGED conv

(* on_event gets the events s, if the caller gave one, and may throw at    *)
(* each of them.  What it returns is looked at for a Thought only, and     *)
(* there by the model's stream.                                            *)
Tell(s, then) ==
  IF mode # "event"
    THEN then /\ UNCHANGED <<events, aborted>>
    ELSE /\ aborted' \in {aborted, TRUE}
         /\ \/ then /\ events' = events \o s
            \/ \E n \in DOMAIN s : Throws /\ events' = events \o SubSeq(s, 1, n)

Begin ==
  /\ pc = "start"
  /\ pc' = "ask"
  /\ open' = <<"agent">>
  /\ conv' = [i \in DOMAIN memory |-> Plain("other")] \o <<Plain("user")>>
  /\ UNCHANGED <<agent, mode, mem, iter, memory, stored, todo, events, steps, finished, aborted>>

(* invoke or invoke_stream.  Deltas go to the callback, whose false ends   *)
(* the stream: the network backends then throw, as for a broken            *)
(* connection, the llama.cpp backend returns what it has, which is handled *)
(* like a whole answer.  The Thoughts a ToolCallingAgent makes of an       *)
(* answer that came without deltas are told here as well.                  *)
AskReturns == pc' = "asked" /\ UNCHANGED <<open, todo, conv>>

Ask ==
  /\ pc = "ask" /\ iter < MaxIterations
  /\ iter' = iter + 1
  /\ \/ Throws /\ UNCHANGED <<events, aborted>>
     \/ AskReturns /\ UNCHANGED <<events, aborted>>
     \/ Tell(<<"Thought">>, AskReturns)
     \/ mode = "delta" /\ AskReturns /\ aborted' = TRUE /\ UNCHANGED events
  /\ UNCHANGED <<agent, mode, mem, memory, stored, steps, finished>>

(* The calls of an answer.  parse_react finds one action at most; without  *)
(* any it has an empty name, which is the name of no tool.                 *)
CallsOf(n) == {[k \in 1..n |-> [id |-> <<iter, k>>, name |-> f[k]]] : f \in [1..n -> Names]}
Answers == UNION {CallsOf(n) : n \in 0..(IF agent = "react" THEN 1 ELSE MaxCalls)}

Answer ==
  /\ pc = "asked"
  /\ \E calls \in Answers :
       /\ conv' = Append(conv, Message("assistant", [k \in DOMAIN calls |-> calls[k].id], <<0, 0>>))
       /\ todo' = calls
       /\ pc' = IF calls # <<>> THEN "call" ELSE IF mem THEN "storeUser" ELSE "stored"
  /\ UNCHANGED <<agent, mode, mem, iter, memory, stored, open, events, steps, finished, aborted>>

(* The turn goes to the memory, in two calls of add; a memory backed by a  *)
(* database may throw, before or after it keeps the message.               *)
Adds(m) == memory' = Append(memory, m) /\ stored' = Append(stored, m)

Store(m, from, to) ==
  /\ pc = from
  /\ \/ Adds(m) /\ pc' = to /\ UNCHANGED <<open, todo, conv>>
     \/ (Adds(m) \/ UNCHANGED <<memory, stored>>) /\ Throws
  /\ UNCHANGED <<agent, mode, mem, iter, events, steps, finished, aborted>>

StoreUser == Store("user", "storeUser", "storeAnswer")
StoreAnswer == Store("answer", "storeAnswer", "stored")

Returns == pc' = "returned" /\ open' = <<>> /\ UNCHANGED <<todo, conv>>

Finish ==
  /\ pc = "stored"
  /\ Tell(<<"Answer", "Done">>, Returns)
  /\ UNCHANGED <<agent, mode, mem, iter, memory, stored, steps, finished>>

\* Mutation: a name no tool has is skipped.
BeginToolSkips ==
  /\ pc = "call"
  /\ IF Head(todo).name = "known"
       THEN Tell(<<"ToolCall">>, pc' = "tool" /\ open' = <<"tool">> \o open /\ UNCHANGED <<todo, conv>>)
       ELSE /\ todo' = Tail(todo) /\ pc' = (IF Len(todo) = 1 THEN "ask" ELSE "call")
            /\ UNCHANGED <<open, conv, events, aborted>>
  /\ UNCHANGED <<agent, mode, mem, iter, memory, stored, steps, finished>>

(* One tool call is begun; a name no tool has is observed as an error.     *)
BeginTool ==
  /\ pc = "call"
  /\ IF Head(todo).name = "known"
       THEN Tell(<<"ToolCall">>, pc' = "tool" /\ open' = <<"tool">> \o open /\ UNCHANGED <<todo, conv>>)
       ELSE Tell(<<"ToolCall", "Error">>, pc' = "observe" /\ UNCHANGED <<open, todo, conv>>)
  /\ UNCHANGED <<agent, mode, mem, iter, memory, stored, steps, finished>>

(* The tool returns, throws a std::exception, which is observed as an      *)
(* error, or throws anything else.                                         *)
ToolEnds == pc' = "observe" /\ open' = Tail(open) /\ UNCHANGED <<todo, conv>>

RunTool ==
  /\ pc = "tool"
  /\ \/ ToolEnds /\ UNCHANGED <<events, aborted>>
     \/ Tell(<<"Error">>, ToolEnds)
     \/ Throws /\ UNCHANGED <<events, aborted>>
  /\ UNCHANGED <<agent, mode, mem, iter, memory, stored, steps, finished>>

(* The observation goes to the steps, to on_event and, as the message that *)
(* answers the call, to the conversation.                                  *)
Reply(id) == Message(IF agent = "react" THEN "observation" ELSE "tool", <<>>, id)

Observed ==
  /\ conv' = Append(conv, Reply(Head(todo).id))
  /\ todo' = Tail(todo)
  /\ pc' = IF Len(todo) = 1 THEN "ask" ELSE "call"
  /\ UNCHANGED open

Observe ==
  /\ pc = "observe"
  /\ steps' = Append(steps, Head(todo).id)
  /\ Tell(<<"Observation">>, Observed)
  /\ UNCHANGED <<agent, mode, mem, iter, memory, stored, finished>>

\* Mutation: the user's message is kept although there is no answer.
GiveUpKeeps ==
  /\ pc = "ask" /\ iter = MaxIterations
  /\ finished' = FALSE
  /\ Tell(<<"Error">>, Returns)
  /\ IF mem THEN Adds("user") ELSE UNCHANGED <<memory, stored>>
  /\ UNCHANGED <<agent, mode, mem, iter, steps>>

\* Mutation: every run that returns tells Done.
GiveUpDone ==
  /\ pc = "ask" /\ iter = MaxIterations
  /\ finished' = FALSE
  /\ Tell(<<"Error", "Done">>, Returns)
  /\ UNCHANGED <<agent, mode, mem, iter, memory, stored, steps>>

GiveUp ==
  /\ pc = "ask" /\ iter = MaxIterations
  /\ finished' = FALSE
  /\ Tell(<<"Error">>, Returns)
  /\ UNCHANGED <<agent, mode, mem, iter, memory, stored, steps>>

\* The elements of s that are in S, in their order.
Only(s, S) ==
  LET kept[n \in 0..Len(s)] ==
        IF n = 0 THEN <<>> ELSE IF s[n] \in S THEN Append(kept[n - 1], s[n]) ELSE kept[n - 1]
  IN  kept[Len(s)]

(* Another invocation of the session, at most MaxOthers times.             *)
OtherAdds ==
  /\ mem /\ Len(Only(memory, {"other"})) < MaxOthers
  /\ memory' = Append(memory, "other")
  /\ UNCHANGED <<agent, mode, mem, pc, iter, stored, conv, todo, open, events, steps, finished, aborted>>

Ended == pc \in {"returned", "threw"}

Step ==
  \/ Begin \/ Ask \/ Answer \/ StoreUser \/ StoreAnswer \/ Finish
  \/ BeginTool \/ RunTool \/ Observe \/ GiveUp

Next == Step \/ OtherAdds

Spec == Init /\ [][Next]_vars

-----------------------------------------------------------------------------
(* Whenever the model is asked, every call of every answer so far is       *)
(* followed, in the order of the calls, by the one message that answers    *)
(* it, whatever became of its tool; and result.steps lists the same calls. *)
EveryCallAnswered ==
  pc = "ask" =>
    /\ \A p \in DOMAIN conv : \A k \in DOMAIN conv[p].calls :
         p + k \in DOMAIN conv /\ conv[p + k] = Reply(conv[p].calls[k])
    /\ steps = FlattenSeq([p \in DOMAIN conv |-> conv[p].calls])

(* The session's memory gets the whole turn, the user's message before the *)
(* answer, from an invocation that finishes, and nothing from one that     *)
(* gives up or fails before it has an answer; what other invocations added *)
(* stays.                                                                  *)
TurnStored ==
  /\ Only(memory, {"user", "answer"}) = stored
  /\ IsPrefix(stored, <<"user", "answer">>)
  /\ pc = "returned" => stored = (IF mem /\ finished THEN <<"user", "answer">> ELSE <<>>)
  /\ stored # <<>> => Last(conv).role = "assistant" /\ Last(conv).calls = <<>>

(* What on_event sees: a ToolCall and its Observation never separated by   *)
(* another ToolCall or by the end of a run that returns; Done once, last,  *)
(* after the turn is in the memory, and never for a run that gave up.      *)
Told(type) == Len(Only(events, {type}))

EventsTellSteps ==
  /\ Told("ToolCall") - Told("Observation") \in 0..1
  /\ mode = "event" /\ pc \in {"ask", "returned"} =>
       Told("ToolCall") = Len(steps) /\ Told("Observation") = Len(steps)
  /\ \A i \in DOMAIN events : events[i] = "Done" => i = Len(events) /\ pc \in {"returned", "threw"}
  /\ Told("Done") > 0 /\ mem => stored = <<"user", "answer">>
  /\ mode = "event" /\ pc = "returned" => Last(events) = (IF finished THEN "Done" ELSE "Error")

(* What agent.h says of the callback, "Return false to abort": once it has *)
(* returned false, no tool is begun and the model is not asked again.      *)
AbortEndsRun == [][mode = "event" /\ aborted /\ pc' # pc => pc' \notin {"tool", "asked"}]_vars
=============================================================================

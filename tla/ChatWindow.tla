------------------------------ MODULE ChatWindow ------------------------------
(***************************************************************************)
(* examples/00_smart_app/ui: the chat window.  The UI thread runs the      *)
(* callbacks of the widgets, one timer, and the closures that a worker     *)
(* thread puts into a queue; the worker runs one request at a time.  The   *)
(* UI thread joins the worker inside some of its callbacks.                *)
(*                                                                         *)
(* A text is a sequence of pieces; a piece names the request it belongs to *)
(* and what it is.  The widgets of the connection bar and the status line  *)
(* are left out, and so is FLTK but for the order in which it calls.       *)
(***************************************************************************)
EXTENDS Naturals, Sequences

CONSTANTS
  MaxJobs,            \* requests, of the user and of the other buttons
  MaxPieces,          \* events of all streams and conversations opened, together
  MaxConversations,
  MaxOpened           \* how often the user opens a conversation

VARIABLES
  conversations,      \* per conversation its history: [role, text] each
  current,            \* current_conversation_
  transcript,         \* transcript_view_: [role, text] per bubble
  bubble,             \* current_assistant_bubble_; 0 for -1
  pending,            \* pending_assistant_delta_
  flushDue,           \* assistant_flush_scheduled_
  busy,               \* the buttons are as set_busy(true) leaves them
  running,            \* worker_running_
  cancel,             \* cancel_requested_
  job,                \* what the worker runs
  wstep,              \* where it is: "none" when it is not joinable
  queue,              \* ui_queue_
  local,              \* drain_ui_queue: the closures it took and has not run
  joining,            \* the UI thread is inside worker_.join()
  jobs, opened, heard, \* history: requests, conversations opened, events
  overlapped          \* history: the user opened a conversation, or asked again,
                      \* before the closures of a request had all run

vars == <<conversations, current, transcript, bubble, pending, flushDue, busy, running,
          cancel, job, wstep, queue, local, joining, jobs, opened, heard, overlapped>>
ui == <<conversations, current, transcript, bubble, pending, flushDue, busy>>

Bubble(role, text) == [role |-> role, text |-> text]
Turn(role, text)   == [role |-> role, text |-> text]
Piece(n, kind, k)  == [job |-> n, kind |-> kind, number |-> k]
Apology(n)         == <<Piece(n, "apology", 0)>>
NoJob == [n |-> 0, kind |-> "none", stream |-> FALSE, got |-> <<>>]

\* A closure in the queue.
Do(what, n, text) == [what |-> what, n |-> n, text |-> text, ok |-> TRUE]

\* ChatApp::ChatApp: one conversation is opened.
Init ==
  /\ conversations = <<<<>>>> /\ current = 1 /\ transcript = <<>>
  /\ bubble = 0 /\ pending = <<>> /\ flushDue = FALSE
  /\ busy = FALSE /\ running = FALSE /\ cancel = FALSE
  /\ job = NoJob /\ wstep = "none"
  /\ queue = <<>> /\ local = <<>> /\ joining = FALSE
  /\ jobs = 0 /\ opened = 0 /\ heard = 0 /\ overlapped = FALSE

-----------------------------------------------------------------------------
(* The transcript, as functions of what is there: [t, b], the bubbles and  *)
(* the index of the assistant's.                                           *)
View == [t |-> transcript, b |-> bubble]

append_assistant_prefix(v) == [t |-> Append(v.t, Bubble("assistant", <<>>)), b |-> Len(v.t) + 1]
Prefixed(v) == IF v.b = 0 THEN append_assistant_prefix(v) ELSE v

\* append_to_message does nothing for an index that is not there (any more).
append_to_message(v, text) == IF v.b \in DOMAIN v.t THEN [v EXCEPT !.t[v.b].text = @ \o text] ELSE v
append_assistant_delta(v, text) == append_to_message(Prefixed(v), text)

flush_assistant_delta(v) == IF pending = <<>> THEN v ELSE append_assistant_delta(v, pending)

append_status_line(v, text) == [v EXCEPT !.t = Append(@, Bubble("system", text))]

\* The apology in the place of a text, and what the request says of its failure.
Apologised(v, c) ==
  LET said == append_assistant_delta(v, Apology(c.n))
  IN  IF c.ok THEN said ELSE append_status_line(said, Apology(c.n))

Show(v) == transcript' = v.t /\ bubble' = v.b

-----------------------------------------------------------------------------
(* Callbacks of widgets, when the UI thread is in none and in no join.     *)
Free == local = <<>> /\ ~joining
Underway == running \/ queue # <<>>

\* start_worker joins a worker that has returned from its job first; it has
\* nothing left to do but to put its last closure into the queue.
start_worker(j) ==
  /\ wstep \in {"none", "exited"}
  /\ jobs' = jobs + 1 /\ running' = TRUE
  /\ job' = j /\ wstep' = "started"
  /\ overlapped' = (overlapped \/ Underway)
  /\ UNCHANGED <<queue, local, joining, opened, heard>>

Job(kind, stream) == [NoJob EXCEPT !.n = jobs + 1, !.kind = kind, !.stream = stream]

on_send ==
  /\ Free /\ ~busy /\ ~running /\ jobs < MaxJobs
  /\ LET text == <<Piece(jobs + 1, "question", 0)>>
     IN  /\ transcript' = Append(transcript, Bubble("user", text))
         /\ conversations' = [conversations EXCEPT ![current] = Append(@, Turn("user", text))]
  /\ busy' = TRUE /\ cancel' = FALSE
  /\ \E kind \in {"llm", "agent"}, stream \in BOOLEAN : start_worker(Job(kind, stream))
  /\ UNCHANGED <<current, bubble, pending, flushDue>>

\* Also health_check and the reading of the models, which leave the history alone.
on_clear ==
  /\ Free /\ ~busy /\ ~running /\ jobs < MaxJobs
  /\ transcript' = <<>> /\ conversations' = [conversations EXCEPT ![current] = <<>>]
  /\ start_worker(Job("clear", FALSE))
  /\ UNCHANGED <<current, bubble, pending, flushDue, busy, cancel>>

on_health_check ==
  /\ Free /\ ~busy /\ ~running /\ jobs < MaxJobs
  /\ start_worker(Job("health", FALSE))
  /\ UNCHANGED <<ui, cancel>>

on_stop ==
  /\ Free /\ busy /\ ~cancel
  /\ cancel' = TRUE
  /\ UNCHANGED <<ui, running, job, wstep, queue, local, joining, jobs, opened, heard, overlapped>>

Opens ==
  /\ Free /\ opened < MaxOpened /\ opened + heard < MaxPieces
  /\ opened' = opened + 1 /\ overlapped' = (overlapped \/ Underway)
  /\ UNCHANGED <<pending, flushDue, busy, running, cancel, job, wstep, queue, local, joining, jobs, heard>>

\* bubble keeps its index, whatever it is of now.
on_new_conversation ==
  /\ Opens /\ Len(conversations) < MaxConversations
  /\ conversations' = Append(conversations, <<>>)
  /\ current' = Len(conversations) + 1 /\ transcript' = <<>>
  /\ UNCHANGED bubble

\* One turn after the other.
Loaded(history) ==
  LET Shown(v, turn) ==
        IF turn.role = "user" THEN [v EXCEPT !.t = Append(@, Bubble("user", turn.text))]
        ELSE [append_assistant_delta(append_assistant_prefix(v), turn.text) EXCEPT !.b = 0]
      loaded[i \in 0..Len(history)] ==
        IF i = 0 THEN [t |-> <<>>, b |-> bubble] ELSE Shown(loaded[i - 1], history[i])
  IN  loaded[Len(history)]

on_select_conversation(c) ==
  /\ Opens
  /\ current' = c /\ Show(Loaded(conversations[c]))
  /\ UNCHANGED conversations

-----------------------------------------------------------------------------
(* The worker.                                                             *)
Enqueue(closures) ==
  /\ queue' = queue \o closures
  /\ UNCHANGED <<ui, running, cancel, local, joining, jobs, opened, overlapped>>
Keep == UNCHANGED <<job, heard>>

Chats == job.kind \in {"llm", "agent"}

Begin ==
  /\ wstep = "started" /\ wstep' = "asking" /\ Keep
  /\ Enqueue(IF Chats THEN <<Do("prefix", job.n, <<>>)>> ELSE <<>>)

\* SmartAppClient::chat_stream: an event of the stream.  An agent sends
\* thoughts, tool calls and its answer, a model sends deltas; what is no JSON
\* is reported, what has no text is not.
HearEvent(kind) ==
  /\ wstep = "asking" /\ Chats /\ job.stream /\ ~cancel /\ opened + heard < MaxPieces
  /\ kind \in IF job.kind = "llm" THEN {"delta", "garbled"} ELSE {"thought", "tool", "answer"}
  /\ LET text == <<Piece(job.n, kind, heard + 1)>>
     IN  /\ heard' = heard + 1
         /\ job' = [job EXCEPT !.got = IF kind \in {"delta", "answer"} THEN @ \o text ELSE @]
         /\ Enqueue(<<Do(kind, job.n, text)>>)
  /\ UNCHANGED wstep

Finish(text, ok) ==
  /\ wstep = "asking" /\ wstep' = "returned" /\ Keep
  /\ Enqueue(<<[Do(IF ~Chats THEN "status" ELSE IF job.stream THEN "streamed" ELSE "answered", job.n, text) EXCEPT !.ok = ok]>>)

\* The stream is over, failed, or was stopped by an event that came after
\* cancel was set, which is a failed request.
StreamEnds(ok) == Chats /\ job.stream /\ Finish(job.got, ok)
\* chat_once does not look at cancel.  No text: it failed, or there is none.
Answers ==
  /\ Chats /\ ~job.stream
  /\ Finish(<<Piece(job.n, "answer", 1)>>, TRUE) \/ \E ok \in BOOLEAN : Finish(<<>>, ok)
Replies == ~Chats /\ \E ok \in BOOLEAN : Finish(<<>>, ok)

\* Mutation: a thread that waits until what it announced has been shown.
LeaveThreadLast ==
  /\ wstep = "returned" /\ queue = <<>>
  /\ wstep' = "exited" /\ Keep
  /\ Enqueue(<<Do("idle", job.n, <<>>)>>)

\* The last closure of every worker, behind its job's.
LeaveThread ==
  /\ wstep = "returned" /\ wstep' = "exited" /\ Keep
  /\ Enqueue(<<Do("idle", job.n, <<>>)>>)

Worker == Begin \/ (\E kind \in {"delta", "garbled", "thought", "tool", "answer"} : HearEvent(kind))
          \/ (\E ok \in BOOLEAN : StreamEnds(ok)) \/ Answers \/ Replies \/ LeaveThread

-----------------------------------------------------------------------------
(* The closures.  drain_ui_queue takes all that are there.                 *)
Drain ==
  /\ Free /\ queue # <<>>
  /\ local' = queue /\ queue' = <<>>
  /\ UNCHANGED <<ui, running, cancel, job, wstep, joining, jobs, opened, heard, overlapped>>

\* set_busy(false): the worker is joined, by this thread.
set_busy_false == busy' = FALSE /\ running' = FALSE /\ joining' = (wstep # "none")

Quietly == UNCHANGED <<conversations, busy, running, joining>>

\* append_assistant_delta_deferred; the timer is set unless it is.
Deferred(c) == Show(Prefixed(View)) /\ pending' = pending \o c.text /\ flushDue' = TRUE /\ Quietly

\* Mutation: the deltas that wait for the timer are left to it.
StreamedUnflushed(c) ==
  /\ UNCHANGED <<pending, flushDue>>
  /\ IF c.text # <<>>
       THEN /\ conversations' = [conversations EXCEPT ![current] = Append(@, Turn("assistant", c.text))]
            /\ UNCHANGED transcript
       ELSE /\ transcript' = Apologised(View, c).t
            /\ UNCHANGED conversations
  /\ bubble' = 0 /\ set_busy_false

Streamed(c) ==
  LET v == flush_assistant_delta(View)
  IN  /\ pending' = <<>> /\ flushDue' = FALSE
      /\ IF c.text # <<>>
           THEN /\ conversations' = [conversations EXCEPT ![current] = Append(@, Turn("assistant", c.text))]
                /\ transcript' = v.t
           ELSE /\ transcript' = Apologised(v, c).t
                /\ UNCHANGED conversations
      /\ bubble' = 0 /\ set_busy_false

Answered(c) ==
  /\ transcript' = IF c.text # <<>> THEN append_assistant_delta(View, c.text).t ELSE Apologised(View, c).t
  /\ conversations' = IF c.text # <<>> THEN [conversations EXCEPT ![current] = Append(@, Turn("assistant", c.text))]
                                       ELSE conversations
  /\ bubble' = 0 /\ set_busy_false /\ UNCHANGED <<pending, flushDue>>

Closure(c) ==
  CASE c.what = "prefix" -> Show(append_assistant_prefix(View)) /\ UNCHANGED <<pending, flushDue>> /\ Quietly
    [] c.what = "delta"  -> Deferred(c)
    [] c.what \in {"thought", "answer"} ->
         Show(append_assistant_delta(View, c.text)) /\ UNCHANGED <<pending, flushDue>> /\ Quietly
    [] c.what \in {"tool", "garbled"} ->
         Show(append_status_line(View, c.text)) /\ UNCHANGED <<pending, flushDue>> /\ Quietly
    [] c.what = "streamed" -> Streamed(c)
    [] c.what = "answered" -> Answered(c)
    [] c.what = "status" -> UNCHANGED <<transcript, bubble, pending, flushDue>> /\ Quietly
    [] c.what = "idle" -> /\ IF running THEN set_busy_false ELSE UNCHANGED <<busy, running, joining>>
                          /\ UNCHANGED <<conversations, transcript, bubble, pending, flushDue>>

RunClosure ==
  /\ local # <<>> /\ ~joining
  /\ Closure(Head(local)) /\ local' = Tail(local)
  /\ UNCHANGED <<current, cancel, job, wstep, queue, jobs, opened, heard, overlapped>>

\* The rest of worker_.join().
Joined ==
  /\ joining /\ wstep = "exited"
  /\ joining' = FALSE /\ wstep' = "none" /\ job' = NoJob
  /\ UNCHANGED <<ui, running, cancel, queue, local, jobs, opened, heard, overlapped>>

\* The timer of 0.05 s.
Flush ==
  /\ Free /\ flushDue /\ flushDue' = FALSE
  /\ Show(flush_assistant_delta(View)) /\ pending' = <<>>
  /\ UNCHANGED <<conversations, current, busy, running, cancel, job, wstep, queue, local, joining, jobs, opened, heard, overlapped>>

Next ==
  \/ on_send \/ on_clear \/ on_health_check \/ on_stop
  \/ on_new_conversation \/ (\E c \in DOMAIN conversations : on_select_conversation(c))
  \/ Worker \/ Drain \/ RunClosure \/ Joined \/ Flush

\* The worker runs, and a request ends: httplib has timeouts.  FLTK calls what
\* Fl::awake announced and goes on with it.
UiSteps == Drain \/ RunClosure \/ Joined
Fairness == WF_vars(Worker /\ Next) /\ WF_vars(UiSteps /\ Next)

Spec == Init /\ [][Next]_vars
FairSpec == Spec /\ Fairness

-----------------------------------------------------------------------------
Settled == ~running /\ queue = <<>> /\ local = <<>> /\ ~joining

Words == [job : Nat, kind : {"question", "delta", "answer", "garbled", "tool"}, number : Nat]
Turns == [role : {"user", "assistant"}, text : Seq(Words) \ {<<>>}]

\* What is left of a sequence when only elements of S stay.
Only(s, S) ==
  LET only[n \in 0..Len(s)] ==
        IF n = 0 THEN <<>> ELSE IF s[n] \in S THEN Append(only[n - 1], s[n]) ELSE only[n - 1]
  IN  only[Len(s)]

\* The bubbles of the user and the assistant, without thoughts and apologies.
Said(b) == Only(b.text, Words)
Spoken  == Only([i \in DOMAIN transcript |-> Turn(transcript[i].role, Said(transcript[i]))], Turns)

JobOf(turn) == turn.text[1].job

(* As long as the user waits for the end of a request before opening a     *)
(* conversation or asking again, every reply is stored right behind its    *)
(* question, with nothing of another reply in it, whatever was stopped or  *)
(* failed; and when the window has settled it shows the history of the     *)
(* open conversation, all of it and nothing else.  And whatever the user   *)
(* does, no reply is stored twice, and no text that has arrived waits      *)
(* without a closure or a timer that will show it.                         *)
RepliesInPlace ==
  LET turns == {<<c, i>> : c \in DOMAIN conversations, i \in 1..MaxJobs * 2} 
      replies == {t \in turns : t[2] \in DOMAIN conversations[t[1]] /\ conversations[t[1]][t[2]].role = "assistant"}
      At(t) == conversations[t[1]][t[2]]
  IN  /\ pending # <<>> => flushDue
      /\ \A t, u \in replies : t # u => JobOf(At(t)) # JobOf(At(u))
      /\ ~overlapped =>
           /\ \A t \in replies :
                /\ t[2] > 1 /\ conversations[t[1]][t[2] - 1].role = "user"
                /\ JobOf(conversations[t[1]][t[2] - 1]) = JobOf(At(t))
                /\ \A k \in DOMAIN At(t).text : At(t).text[k].job = JobOf(At(t))
           /\ Settled => Spoken = conversations[current]

(* The window comes back to the user: a join that the UI thread is in      *)
(* returns, also when the closure that was to end an earlier request has   *)
(* met the next one, and the buttons that a request disables are enabled.  *)
WindowReturns == (joining ~> ~joining) /\ (running ~> ~running)
=============================================================================

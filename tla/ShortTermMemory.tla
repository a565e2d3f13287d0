--------------------------- MODULE ShortTermMemory ---------------------------
(***************************************************************************)
(* memory::BufferMemory and memory::WindowMemory                           *)
(* (src/src/memory/memory.cpp:17-79), given the same calls: "buffer" is    *)
(* the history_ of the one, "window" that of the other.  Threads share     *)
(* them and record exchanges with IMemory::add_exchange, which is two      *)
(* calls of add(), each under the mutex.                                   *)
(***************************************************************************)
EXTENDS Naturals, Sequences

CONSTANTS
  Threads, Texts,
  NoExchange,   \* no text
  K,            \* WindowMemory's k
  MaxMessages   \* bound: messages in the buffer

ASSUME WindowAssumption == K \in Nat /\ NoExchange \notin Texts /\ MaxMessages \in Nat

Message == [role : {"user", "assistant"}, text : Texts]

VARIABLES
  buffer,   \* BufferMemory::history_
  window,   \* WindowMemory::history_
  half,     \* the exchange each thread has recorded the question of
  mixed     \* history: exchanges overlapped, with each other or with a clear()

vars == <<buffer, window, half, mixed>>

Init ==
  /\ buffer = <<>> /\ window = <<>>
  /\ half = [t \in Threads |-> NoExchange]
  /\ mixed = FALSE

Open == \E u \in Threads : half[u] # NoExchange

\* Mutation: k is taken for a number of messages, plus the newest.
KeptAsOdd == K + 1

Kept == K * 2      \* max_messages_

\* Mutation: the size is compared with >=.
EvictOneMore(h) == IF Len(h) >= Kept /\ h # <<>> THEN Tail(h) ELSE h

\* while (history_.size() > max_messages_) history_.pop_front()
Evict(h) == IF Len(h) > Kept THEN SubSeq(h, Len(h) - Kept + 1, Len(h)) ELSE h

\* add()
Add(m) ==
  /\ Len(buffer) < MaxMessages
  /\ buffer' = Append(buffer, m)
  /\ window' = Evict(Append(window, m))

\* add_exchange()
AddQuestion(t, x) ==
  /\ half[t] = NoExchange
  /\ Add([role |-> "user", text |-> x])
  /\ half' = [half EXCEPT ![t] = x]
  /\ mixed' = (mixed \/ Open)

AddAnswer(t) ==
  /\ half[t] # NoExchange
  /\ Add([role |-> "assistant", text |-> half[t]])
  /\ half' = [half EXCEPT ![t] = NoExchange]
  /\ UNCHANGED mixed

\* Mutation: an exchange is closed by anything but a text.
ClearForgetful(t) ==
  /\ half[t] = NoExchange
  /\ buffer' = <<>> /\ window' = <<>>
  /\ half' = [half EXCEPT ![t] = {}]
  /\ mixed' = Open

Clear(t) ==
  /\ half[t] = NoExchange
  /\ buffer' = <<>> /\ window' = <<>>
  /\ mixed' = Open
  /\ UNCHANGED half

Next == \E t \in Threads :
  \/ \E x \in Texts : AddQuestion(t, x)
  \/ AddAnswer(t)
  \/ Clear(t)

Spec == Init /\ [][Next]_vars

-----------------------------------------------------------------------------
(* Types of the state.                                                     *)
TypeOK ==
  /\ buffer \in Seq(Message) /\ window \in Seq(Message)
  /\ half \in [Threads -> Texts \cup {NoExchange}]
  /\ mixed \in BOOLEAN

(* However adds and clears of the threads interleave, the window is the    *)
(* newest end of the buffer, as long as the buffer up to 2k messages.      *)
WindowIsSuffix ==
  window = IF Len(buffer) > Kept
           THEN SubSeq(buffer, Len(buffer) - Kept + 1, Len(buffer))
           ELSE buffer

(* memory.h:7 "keeps only the last k exchanges (sliding window)": between  *)
(* calls of add_exchange that did not overlap, the window holds questions  *)
(* with their answers.  Overlapping calls interleave message by message,   *)
(* and the window may begin with an answer.                                *)
WholeExchanges ==
  ~Open /\ ~mixed =>
    \A i \in DOMAIN window :
      IF i % 2 = 1 THEN window[i].role = "user"
      ELSE window[i] = [role |-> "assistant", text |-> window[i - 1].text]
=============================================================================

---------------------------- MODULE TaskExecutor ----------------------------
(***************************************************************************)
(* What a fixed-width executor promises its users, without threads, locks  *)
(* or condition variables: tasks are accepted into a log while it is open, *)
(* taken in the order of the log by at most Width at a time, and all done  *)
(* before it is down.  util::ThreadPool implements it.                     *)
(***************************************************************************)
EXTENDS Naturals, Sequences, FiniteSets

CONSTANTS Tasks, Width

VARIABLES
  log,    \* the tasks accepted so far, in order
  taken,  \* how many of them were taken
  done,   \* the tasks that have ended
  phase   \* "open", "closed" to new tasks, "down"

avars == <<log, taken, done, phase>>

Logged  == {log[i] : i \in 1..Len(log)}
Started == {log[i] : i \in 1..taken}

Init ==
  /\ log = <<>>
  /\ taken = 0
  /\ done = {}
  /\ phase = "open"

Accept(t) ==
  /\ phase = "open"
  /\ t \notin Logged
  /\ log' = Append(log, t)
  /\ UNCHANGED <<taken, done, phase>>

TakeNext ==
  /\ phase # "down"
  /\ taken < Len(log)
  /\ Cardinality(Started \ done) < Width
  /\ taken' = taken + 1
  /\ UNCHANGED <<log, done, phase>>

End(t) ==
  /\ t \in Started \ done
  /\ done' = done \cup {t}
  /\ UNCHANGED <<log, taken, phase>>

Close ==
  /\ phase = "open"
  /\ phase' = "closed"
  /\ UNCHANGED <<log, taken, done>>

ShutDown ==
  /\ phase = "closed"
  /\ done = Logged
  /\ phase' = "down"
  /\ UNCHANGED <<log, taken, done>>

Next ==
  \/ \E t \in Tasks : Accept(t) \/ End(t)
  \/ TakeNext \/ Close \/ ShutDown

FairSpec ==
  /\ Init /\ [][Next]_avars
  /\ WF_avars(TakeNext)
  /\ \A t \in Tasks : WF_avars(End(t))
  /\ WF_avars(ShutDown)
=============================================================================

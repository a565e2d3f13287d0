----------------------------- MODULE ThreadPool -----------------------------
(***************************************************************************)
(* util::ThreadPool (src/src/util/thread_pool.cpp): a fixed set of worker  *)
(* threads that run queued tasks in FIFO order.  submit() pushes under the *)
(* mutex and calls cv_.notify_one() after releasing it; a worker waits on  *)
(* the condition variable with a predicate; the destructor sets stop_,     *)
(* notifies every worker and joins them.                                   *)
(*                                                                         *)
(* Each critical section of mu_ is one action; everything the code does    *)
(* outside the mutex (notify_one, notify_all, running a task, joining) is  *)
(* an action of its own, so the interleavings around the lock are here.    *)
(***************************************************************************)
EXTENDS Naturals, Sequences, FiniteSets

CONSTANTS
  Workers,  \* the threads of workers_
  Clients,  \* threads outside the pool that call submit()
  Tasks,    \* the std::function objects, each submitted at most once
  None      \* "no task": a worker that runs nothing

ASSUME PoolAssumption ==
  /\ IsFiniteSet(Workers) /\ Workers # {}  \* default_pool(): at least two
  /\ IsFiniteSet(Clients)
  /\ Workers \cap Clients = {}
  /\ None \notin Tasks

VARIABLES
  tasks,      \* tasks_: the queue
  stop,       \* stop_
  wpc,        \* where each worker is in its loop
  current,    \* the task a running worker executes
  notifying,  \* threads that pushed a task and have not called notify_one yet
  dtor,       \* where the destructor is
  accepted,   \* history: the tasks for which submit returned true, in order
  refused,    \* history: the tasks for which submit returned false
  started,    \* history: the tasks workers popped, in order
  finished    \* history: the tasks whose call returned or threw

vars == <<tasks, stop, wpc, current, notifying, dtor,
          accepted, refused, started, finished>>

Elems(s) == {s[i] : i \in DOMAIN s}

WorkerStates == {"check", "waiting", "running", "exited"}
DtorStates   == {"none", "notify", "join", "done"}

\* The constructor has run: every thread is about to test the predicate.
Init ==
  /\ tasks = <<>>
  /\ stop = FALSE
  /\ wpc = [w \in Workers |-> "check"]
  /\ current = [w \in Workers |-> None]
  /\ notifying = {}
  /\ dtor = "none"
  /\ accepted = <<>>
  /\ refused = {}
  /\ started = <<>>
  /\ finished = {}

-----------------------------------------------------------------------------
(* submit().  A caller is a client, or a worker whose task submits.  The   *)
(* pool object exists until the destructor has returned.                   *)

MayCall(c) ==
  /\ dtor # "done"
  /\ c \notin notifying
  /\ c \in Workers => wpc[c] = "running"

Fresh(t) == t \notin Elems(accepted) \cup refused

\* Mutation: notify only when the queue was empty.
SubmitPushQuiet(c, t) ==
  /\ MayCall(c) /\ Fresh(t) /\ ~stop
  /\ tasks' = Append(tasks, t)
  /\ accepted' = Append(accepted, t)
  /\ notifying' = IF tasks = <<>> THEN notifying \cup {c} ELSE notifying
  /\ UNCHANGED <<stop, wpc, current, dtor, refused, started, finished>>

\* Mutation: submit() does not test stop_.
SubmitPushLate(c, t) ==
  /\ MayCall(c) /\ Fresh(t)
  /\ tasks' = Append(tasks, t)
  /\ accepted' = Append(accepted, t)
  /\ notifying' = notifying \cup {c}
  /\ UNCHANGED <<stop, wpc, current, dtor, refused, started, finished>>

SubmitPush(c, t) ==
  /\ MayCall(c) /\ Fresh(t)
  /\ ~stop
  /\ tasks' = Append(tasks, t)
  /\ accepted' = Append(accepted, t)
  /\ notifying' = notifying \cup {c}
  /\ UNCHANGED <<stop, wpc, current, dtor, refused, started, finished>>

SubmitRefused(c, t) ==
  /\ MayCall(c) /\ Fresh(t)
  /\ stop
  /\ refused' = refused \cup {t}
  /\ UNCHANGED <<tasks, stop, wpc, current, notifying, dtor, accepted, started, finished>>

\* notify_one wakes one waiting worker, or nobody when none waits.
NotifyOne(c) ==
  /\ c \in notifying
  /\ notifying' = notifying \ {c}
  /\ \/ \E w \in Workers : /\ wpc[w] = "waiting"
                           /\ wpc' = [wpc EXCEPT ![w] = "check"]
     \/ /\ \A w \in Workers : wpc[w] # "waiting"
        /\ UNCHANGED wpc
  /\ UNCHANGED <<tasks, stop, current, dtor, accepted, refused, started, finished>>

-----------------------------------------------------------------------------
(* The worker loop.                                                        *)

\* The predicate is false: cv_.wait releases the mutex and blocks, atomically.
Block(w) ==
  /\ wpc[w] = "check"
  /\ ~stop /\ tasks = <<>>
  /\ wpc' = [wpc EXCEPT ![w] = "waiting"]
  /\ UNCHANGED <<tasks, stop, current, notifying, dtor, accepted, refused, started, finished>>

\* A condition variable may wake a thread nobody notified.
SpuriousWake(w) ==
  /\ wpc[w] = "waiting"
  /\ wpc' = [wpc EXCEPT ![w] = "check"]
  /\ UNCHANGED <<tasks, stop, current, notifying, dtor, accepted, refused, started, finished>>

\* Mutation: a stopping worker leaves whatever is queued behind.
ExitAtOnce(w) ==
  /\ wpc[w] = "check" /\ stop
  /\ wpc' = [wpc EXCEPT ![w] = "exited"]
  /\ UNCHANGED <<tasks, stop, current, notifying, dtor, accepted, refused, started, finished>>

Exit(w) ==
  /\ wpc[w] = "check"
  /\ stop /\ tasks = <<>>
  /\ wpc' = [wpc EXCEPT ![w] = "exited"]
  /\ UNCHANGED <<tasks, stop, current, notifying, dtor, accepted, refused, started, finished>>

\* Mutation: the newest task first.
TakeNewest(w) ==
  /\ wpc[w] = "check" /\ tasks # <<>>
  /\ wpc' = [wpc EXCEPT ![w] = "running"]
  /\ current' = [current EXCEPT ![w] = tasks[Len(tasks)]]
  /\ tasks' = SubSeq(tasks, 1, Len(tasks) - 1)
  /\ started' = Append(started, tasks[Len(tasks)])
  /\ UNCHANGED <<stop, notifying, dtor, accepted, refused, finished>>

\* Mutation: front() without pop().
TakeKeeps(w) ==
  /\ wpc[w] = "check" /\ tasks # <<>>
  /\ wpc' = [wpc EXCEPT ![w] = "running"]
  /\ current' = [current EXCEPT ![w] = Head(tasks)]
  /\ started' = Append(started, Head(tasks))
  /\ UNCHANGED <<tasks, stop, notifying, dtor, accepted, refused, finished>>

Take(w) ==
  /\ wpc[w] = "check"
  /\ tasks # <<>>
  /\ wpc' = [wpc EXCEPT ![w] = "running"]
  /\ current' = [current EXCEPT ![w] = Head(tasks)]
  /\ tasks' = Tail(tasks)
  /\ started' = Append(started, Head(tasks))
  /\ UNCHANGED <<stop, notifying, dtor, accepted, refused, finished>>

\* Mutation: the finished task stays in the worker's hands.
TaskKept(w) ==
  /\ wpc[w] = "running"
  /\ w \notin notifying
  /\ finished' = finished \cup {current[w]}
  /\ UNCHANGED <<tasks, stop, current, notifying, dtor, accepted, refused, started>>

\* task() is over, including any submit() it was in the middle of.
TaskEnds(w) ==
  /\ wpc[w] = "running"
  /\ w \notin notifying
  /\ finished' = finished \cup {current[w]}
  /\ current' = [current EXCEPT ![w] = None]
  /\ UNCHANGED <<tasks, stop, notifying, dtor, accepted, refused, started>>

TaskReturns(w) == TaskEnds(w) /\ wpc' = [wpc EXCEPT ![w] = "check"]

\* Mutation: the exception leaves the loop.
ThrowKillsWorker(w) == TaskEnds(w) /\ wpc' = [wpc EXCEPT ![w] = "exited"]

\* Both catch clauses log and fall through to the next iteration.
TaskThrows(w) == TaskEnds(w) /\ wpc' = [wpc EXCEPT ![w] = "check"]

WorkerStep(w) ==
  Block(w) \/ Exit(w) \/ Take(w) \/ TaskReturns(w) \/ TaskThrows(w)

-----------------------------------------------------------------------------
(* The destructor.                                                         *)

SetStop ==
  /\ dtor = "none"
  /\ stop' = TRUE
  /\ dtor' = "notify"
  /\ UNCHANGED <<tasks, wpc, current, notifying, accepted, refused, started, finished>>

\* Mutation: notify_one instead of notify_all.
NotifyAllAsOne ==
  /\ dtor = "notify"
  /\ dtor' = "join"
  /\ \/ \E w \in Workers : wpc[w] = "waiting" /\ wpc' = [wpc EXCEPT ![w] = "check"]
     \/ (\A w \in Workers : wpc[w] # "waiting") /\ UNCHANGED wpc
  /\ UNCHANGED <<tasks, stop, current, notifying, accepted, refused, started, finished>>

NotifyAll ==
  /\ dtor = "notify"
  /\ dtor' = "join"
  /\ wpc' = [w \in Workers |-> IF wpc[w] = "waiting" THEN "check" ELSE wpc[w]]
  /\ UNCHANGED <<tasks, stop, current, notifying, accepted, refused, started, finished>>

\* Mutation: the workers are detached instead of joined.
DetachAll ==
  /\ dtor = "join"
  /\ dtor' = "done"
  /\ UNCHANGED <<tasks, stop, wpc, current, notifying, accepted, refused, started, finished>>

\* The join loop is over once every worker has left its loop.
JoinAll ==
  /\ dtor = "join"
  /\ \A w \in Workers : wpc[w] = "exited"
  /\ dtor' = "done"
  /\ UNCHANGED <<tasks, stop, wpc, current, notifying, accepted, refused, started, finished>>

-----------------------------------------------------------------------------
Next ==
  \/ \E c \in Clients \cup Workers : \/ \E t \in Tasks : SubmitPush(c, t) \/ SubmitRefused(c, t)
                                     \/ NotifyOne(c)
  \/ \E w \in Workers : WorkerStep(w) \/ SpuriousWake(w)
  \/ SetStop \/ NotifyAll \/ JoinAll

(* Fairness: the OS schedules every runnable thread, tasks terminate, and  *)
(* a destructor that was called runs on.  Nobody has to submit a task or   *)
(* to destroy the pool, and no spurious wake-up is ever promised.          *)
Fairness ==
  /\ \A w \in Workers : WF_vars(WorkerStep(w))
  /\ \A c \in Clients \cup Workers : WF_vars(NotifyOne(c))
  /\ WF_vars(NotifyAll)
  /\ WF_vars(JoinAll)

Spec     == Init /\ [][Next]_vars
FairSpec == Spec /\ Fairness

-----------------------------------------------------------------------------
(* Types: the state the code and the history variables range over.         *)
TypeOK ==
  /\ tasks \in Seq(Tasks)
  /\ stop \in BOOLEAN
  /\ wpc \in [Workers -> WorkerStates]
  /\ current \in [Workers -> Tasks \cup {None}]
  /\ \A w \in Workers : current[w] # None <=> wpc[w] = "running"
  /\ notifying \subseteq Clients \cup Workers
  /\ dtor \in DtorStates
  /\ accepted \in Seq(Tasks)
  /\ refused \subseteq Tasks
  /\ started \in Seq(Tasks)
  /\ finished \subseteq Tasks

(* thread_pool.h:31 "Tasks are executed FIFO by the worker threads": what  *)
(* was popped, followed by what is queued, is what was accepted, in order. *)
Fifo == accepted = started \o tasks

(* A popped task is at one place only: in the hands of exactly one worker, *)
(* or finished; no two workers run the same std::function, and none that   *)
(* was refused ever runs.                                                  *)
Running == {w \in Workers : wpc[w] = "running"}
RunsOnce ==
  /\ Elems(started) = finished \cup {current[w] : w \in Running}
  /\ \A w \in Running : current[w] \notin finished
  /\ \A v, w \in Running : current[v] = current[w] => v = w
  /\ refused \cap Elems(started) = {}

(* The notify_one after the unlock is never lost: while a worker sleeps,   *)
(* every queued task has a wake-up on its way, from a submitter that still *)
(* has to notify or from a worker about to test the predicate.             *)
Sleeping == {w \in Workers : wpc[w] = "waiting"}
Checking == {w \in Workers : wpc[w] = "check"}
WorkConserving ==
  Sleeping # {} => Len(tasks) <= Cardinality(notifying) + Cardinality(Checking)

(* When ~ThreadPool returns, every accepted task has run to its end, those *)
(* that tasks submitted meanwhile too, and no task is still inside         *)
(* submit() of the destroyed pool.                                         *)
DrainedAtDestruction ==
  dtor = "done" => finished = Elems(accepted) /\ notifying \cap Workers = {}

(* Every accepted task eventually runs to its end, with no spurious        *)
(* wake-up to rescue it, and the destructor terminates, whatever was queued*)
(* when it was called.                                                     *)
AcceptedCompletes ==
  /\ \A t \in Tasks : t \in Elems(accepted) ~> t \in finished
  /\ stop ~> dtor = "done"

-----------------------------------------------------------------------------
(* The pool implements the executor of TaskExecutor.                       *)
Executor == INSTANCE TaskExecutor WITH
  log   <- accepted,
  taken <- Len(started),
  done  <- finished,
  phase <- IF dtor = "done" THEN "down" ELSE IF stop THEN "closed" ELSE "open",
  Width <- Cardinality(Workers)

ExecutorSpec == Executor!FairSpec
=============================================================================

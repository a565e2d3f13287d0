-------------------------- MODULE ThreadPoolProofs --------------------------
(***************************************************************************)
(* Safety of the thread pool for every number of workers, clients and      *)
(* tasks: FIFO order, one run per task, no lost wake-up, and a queue that  *)
(* is drained before the destructor returns.                               *)
(***************************************************************************)
EXTENDS ThreadPool, SequenceTheorems, FiniteSetTheorems, TLAPS

-----------------------------------------------------------------------------
(* Sequences: what the elements of an appended, split or joined queue are. *)

LEMMA ElemsAppend ==
  ASSUME NEW S, NEW s \in Seq(S), NEW x \in S
  PROVE  Elems(Append(s, x)) = Elems(s) \cup {x}
BY AppendProperties DEF Elems

LEMMA ElemsConcat ==
  ASSUME NEW S, NEW s \in Seq(S), NEW t \in Seq(S)
  PROVE  Elems(s \o t) = Elems(s) \cup Elems(t)
<1> DEFINE u == s \o t
<1>1. /\ Len(u) = Len(s) + Len(t) /\ u \in Seq(S)
      /\ \A i \in 1..Len(s) : u[i] = s[i]
      /\ \A i \in 1..Len(t) : u[i + Len(s)] = t[i]
  BY ConcatProperties, LenProperties
<1>2. Elems(u) \subseteq Elems(s) \cup Elems(t)
  BY ConcatProperties, LenProperties DEF Elems
<1>3. Elems(s) \subseteq Elems(u)
  BY <1>1, LenProperties DEF Elems
<1>4. Elems(t) \subseteq Elems(u)
  <2> SUFFICES ASSUME NEW i \in 1..Len(t) PROVE t[i] \in Elems(u)
    BY LenProperties DEF Elems
  <2>1. i + Len(s) \in DOMAIN u /\ u[i + Len(s)] = t[i]
    BY <1>1, LenProperties
  <2> QED BY <2>1 DEF Elems
<1> QED BY <1>2, <1>3, <1>4

\* Moving the head of a queue to the end of a log leaves their concatenation alone.
LEMMA MoveHead ==
  ASSUME NEW S, NEW s \in Seq(S), NEW q \in Seq(S), q # <<>>
  PROVE  Append(s, Head(q)) \o Tail(q) = s \o q
<1> DEFINE l == Append(s, Head(q)) \o Tail(q)
           r == s \o q
<1>1. /\ Head(q) \in S /\ Tail(q) \in Seq(S) /\ Len(Tail(q)) = Len(q) - 1
      /\ Len(q) \in Nat \ {0} /\ Head(q) = q[1]
      /\ \A i \in 1..Len(Tail(q)) : Tail(q)[i] = q[i + 1]
  BY HeadTailProperties, EmptySeq
<1>2. Append(s, Head(q)) \in Seq(S) /\ Len(Append(s, Head(q))) = Len(s) + 1
  BY <1>1, AppendProperties
<1>3. l \in Seq(S) /\ r \in Seq(S) /\ Len(l) = Len(r) /\ Len(r) = Len(s) + Len(q)
  BY <1>1, <1>2, ConcatProperties, LenProperties
<1>4. ASSUME NEW i \in 1..Len(l) PROVE l[i] = r[i]
  <2>0. Len(s) \in Nat /\ i \in 1..(Len(s) + Len(q))
    BY <1>3, LenProperties
  <2>1. CASE i <= Len(s)
    BY <2>0, <2>1, <1>1, <1>2, ConcatProperties, AppendProperties
  <2>2. CASE i = Len(s) + 1
    BY <2>0, <2>2, <1>1, <1>2, ConcatProperties, AppendProperties
  <2>3. CASE i > Len(s) + 1
    <3>1. l[i] = Tail(q)[i - (Len(s) + 1)]
      BY <2>0, <2>3, <1>1, <1>2, ConcatProperties
    <3>2. r[i] = q[i - Len(s)]
      BY <2>0, <2>3, <1>1, ConcatProperties
    <3>3. Tail(q)[i - (Len(s) + 1)] = q[i - Len(s)]
      BY <2>0, <2>3, <1>1
    <3> QED BY <3>1, <3>2, <3>3
  <2> QED BY <2>0, <2>1, <2>2, <2>3
<1> QED BY <1>3, <1>4, SeqEqual

\* Appending to a queue appends to the log followed by the queue.
LEMMA AppendRight ==
  ASSUME NEW S, NEW s \in Seq(S), NEW q \in Seq(S), NEW x \in S
  PROVE  s \o Append(q, x) = Append(s \o q, x)
<1>1. Append(q, x) = q \o <<x>> /\ Append(s \o q, x) = (s \o q) \o <<x>> /\ <<x>> \in Seq(S)
  BY AppendIsConcat, ConcatProperties
<1> QED BY <1>1, ConcatAssociative, SMTT(30)

-----------------------------------------------------------------------------
(* Types.                                                                  *)

\* Every variable keeps its type, for every number of threads and tasks.
THEOREM TypeCorrect == Spec => []TypeOK
<1>1. Init => TypeOK
  BY EmptySeq DEF Init, TypeOK, WorkerStates, DtorStates
<1>2. TypeOK /\ [Next]_vars => TypeOK'
  <2> SUFFICES ASSUME TypeOK, [Next]_vars PROVE TypeOK'
    OBVIOUS
  <2> USE PoolAssumption DEF TypeOK, WorkerStates, DtorStates
  <2>1. ASSUME NEW c \in Clients \cup Workers, NEW t \in Tasks, SubmitPush(c, t) PROVE TypeOK'
    BY <2>1, AppendProperties DEF SubmitPush
  <2>2. ASSUME NEW c \in Clients \cup Workers, NEW t \in Tasks, SubmitRefused(c, t) PROVE TypeOK'
    BY <2>2 DEF SubmitRefused
  <2>3. ASSUME NEW c \in Clients \cup Workers, NotifyOne(c) PROVE TypeOK'
    BY <2>3 DEF NotifyOne
  <2>4. ASSUME NEW w \in Workers, Block(w) \/ SpuriousWake(w) \/ Exit(w) PROVE TypeOK'
    BY <2>4 DEF Block, SpuriousWake, Exit
  <2>5. ASSUME NEW w \in Workers, Take(w) PROVE TypeOK'
    <3>1. Head(tasks) \in Tasks /\ Tail(tasks) \in Seq(Tasks)
      BY <2>5, HeadTailProperties DEF Take
    <3>2. Append(started, Head(tasks)) \in Seq(Tasks)
      BY <3>1, AppendProperties
    <3> QED BY <2>5, <3>1, <3>2 DEF Take
  <2>6. ASSUME NEW w \in Workers, TaskReturns(w) \/ TaskThrows(w) PROVE TypeOK'
    BY <2>6 DEF TaskReturns, TaskThrows, TaskEnds
  <2>7. CASE SetStop \/ NotifyAll \/ JoinAll
    BY <2>7 DEF SetStop, NotifyAll, JoinAll
  <2>8. CASE UNCHANGED vars
    BY <2>8 DEF vars
  <2> QED
    BY <2>1, <2>2, <2>3, <2>4, <2>5, <2>6, <2>7, <2>8 DEF Next, WorkerStep
<1> QED BY <1>1, <1>2, PTL DEF Spec

-----------------------------------------------------------------------------
(* Order and single execution.                                             *)

\* No task is accepted twice, none is both accepted and refused.
Distinct ==
  /\ \A i, j \in 1..Len(accepted) : accepted[i] = accepted[j] => i = j
  /\ refused \cap Elems(accepted) = {}

OrderInv == TypeOK /\ Fifo /\ Distinct /\ RunsOnce

\* In a queue of distinct tasks that follows the log, the head was never popped.
LEMMA HeadIsNew ==
  ASSUME TypeOK, Fifo, Distinct, tasks # <<>>
  PROVE  Head(tasks) \in Tasks /\ Head(tasks) \notin Elems(started) \cup refused
<1>1. /\ started \in Seq(Tasks) /\ tasks \in Seq(Tasks)
      /\ Len(started) \in Nat /\ Len(tasks) \in Nat \ {0}
      /\ Head(tasks) = tasks[1] /\ Head(tasks) \in Tasks
      /\ DOMAIN started = 1..Len(started)
  BY EmptySeq, LenProperties, HeadTailProperties DEF TypeOK
<1>2. /\ Len(accepted) = Len(started) + Len(tasks)
      /\ accepted[Len(started) + 1] = tasks[1]
      /\ \A i \in 1..Len(started) : accepted[i] = started[i]
      /\ DOMAIN accepted = 1..Len(accepted)
  BY <1>1, ConcatProperties, LenProperties DEF Fifo
<1>3. ASSUME NEW i \in 1..Len(started) PROVE started[i] # Head(tasks)
  BY <1>1, <1>2 DEF Distinct
<1>4. Head(tasks) \in Elems(accepted)
  BY <1>1, <1>2 DEF Elems
<1> QED BY <1>1, <1>3, <1>4 DEF Distinct, Elems

LEMMA OrderInductive == OrderInv /\ [Next]_vars /\ TypeOK' => OrderInv'
<1> SUFFICES ASSUME OrderInv, [Next]_vars, TypeOK'
             PROVE  Fifo' /\ Distinct' /\ RunsOnce'
  BY DEF OrderInv
<1> USE PoolAssumption DEF OrderInv
<1>1. ASSUME NEW c \in Clients \cup Workers, NEW t \in Tasks, SubmitPush(c, t)
      PROVE  Fifo' /\ Distinct' /\ RunsOnce'
  <2>1. Fifo'
    <3>1. /\ tasks \in Seq(Tasks) /\ started \in Seq(Tasks) /\ accepted = started \o tasks
          /\ tasks' = Append(tasks, t) /\ accepted' = Append(accepted, t) /\ started' = started
      BY <1>1 DEF SubmitPush, Fifo, TypeOK
    <3>2. started \o Append(tasks, t) = Append(started \o tasks, t)
      BY <3>1, AppendRight
    <3> QED BY <3>1, <3>2 DEF Fifo
  <2>2. /\ Elems(accepted') = Elems(accepted) \cup {t} /\ t \notin Elems(accepted) \cup refused
        /\ refused' = refused
    BY <1>1, ElemsAppend DEF SubmitPush, Fresh, TypeOK
  <2>3. /\ Len(accepted') = Len(accepted) + 1 /\ Len(accepted) \in Nat
        /\ \A i \in 1..Len(accepted) : accepted'[i] = accepted[i] /\ accepted[i] \in Elems(accepted)
        /\ accepted'[Len(accepted) + 1] = t
    BY <1>1, AppendProperties, LenProperties DEF SubmitPush, TypeOK, Elems
  <2>4. Distinct'
    BY <2>2, <2>3 DEF Distinct
  <2>5. RunsOnce'
    BY <1>1 DEF SubmitPush, RunsOnce, Running
  <2> QED BY <2>1, <2>4, <2>5
<1>2. ASSUME NEW c \in Clients \cup Workers, NEW t \in Tasks, SubmitRefused(c, t)
      PROVE  Fifo' /\ Distinct' /\ RunsOnce'
  <2>1. Elems(started) \subseteq Elems(accepted)
    BY ElemsConcat DEF Fifo, TypeOK
  <2>2. Elems(accepted)' = Elems(accepted) /\ Elems(started)' = Elems(started)
    BY <1>2 DEF SubmitRefused
  <2> QED BY <1>2, <2>1, <2>2 DEF SubmitRefused, Fifo, Distinct, RunsOnce, Running, Fresh
<1>3. ASSUME NEW w \in Workers, Take(w)
      PROVE  Fifo' /\ Distinct' /\ RunsOnce'
  <2>1. Fifo'
    <3>1. /\ tasks # <<>> /\ tasks \in Seq(Tasks) /\ started \in Seq(Tasks) /\ accepted = started \o tasks
          /\ started' = Append(started, Head(tasks)) /\ tasks' = Tail(tasks) /\ accepted' = accepted
      BY <1>3 DEF Take, Fifo, TypeOK
    <3> QED BY <3>1, MoveHead DEF Fifo
  <2>2. Distinct'
    BY <1>3 DEF Take, Distinct
  <2>3. Head(tasks) \in Tasks /\ Head(tasks) \notin Elems(started) \cup refused
    BY <1>3, HeadIsNew DEF Take
  <2>4. /\ Running' = Running \cup {w} /\ w \notin Running
        /\ current'[w] = Head(tasks)
        /\ \A v \in Running : current'[v] = current[v]
        /\ finished' = finished /\ refused' = refused
    BY <1>3 DEF Take, Running, TypeOK, WorkerStates
  <2>5. Elems(started') = Elems(started) \cup {Head(tasks)}
    BY <1>3, <2>3, ElemsAppend DEF Take, TypeOK
  <2>6. {current'[v] : v \in Running'} = {current[v] : v \in Running} \cup {Head(tasks)}
    BY <2>4
  <2>7. \A v \in Running : current[v] \in Elems(started)
    BY DEF RunsOnce
  <2>8. finished \subseteq Elems(started)
    BY DEF RunsOnce
  <2>9. RunsOnce'
    BY <2>3, <2>4, <2>5, <2>6, <2>7, <2>8 DEF RunsOnce
  <2> QED BY <2>1, <2>2, <2>9
<1>4. ASSUME NEW w \in Workers, TaskReturns(w) \/ TaskThrows(w)
      PROVE  Fifo' /\ Distinct' /\ RunsOnce'
  <2>1. /\ Running' = Running \ {w} /\ w \in Running
        /\ \A v \in Running' : current'[v] = current[v]
        /\ finished' = finished \cup {current[w]} /\ refused' = refused
        /\ started' = started /\ accepted' = accepted /\ tasks' = tasks
    BY <1>4 DEF TaskReturns, TaskThrows, TaskEnds, Running, TypeOK, WorkerStates
  <2>2. {current[v] : v \in Running} = {current'[v] : v \in Running'} \cup {current[w]}
    BY <2>1
  <2> QED BY <2>1, <2>2 DEF Fifo, Distinct, RunsOnce
<1>5. ASSUME UNCHANGED <<tasks, current, accepted, refused, started, finished>>,
             Running' = Running
      PROVE  Fifo' /\ Distinct' /\ RunsOnce'
  BY <1>5 DEF Fifo, Distinct, RunsOnce
<1>6. ASSUME NEW c \in Clients \cup Workers, NotifyOne(c)
      PROVE  Fifo' /\ Distinct' /\ RunsOnce'
  BY <1>5, <1>6 DEF NotifyOne, Running, TypeOK
<1>7. ASSUME NEW w \in Workers, Block(w) \/ SpuriousWake(w) \/ Exit(w)
      PROVE  Fifo' /\ Distinct' /\ RunsOnce'
  BY <1>5, <1>7 DEF Block, SpuriousWake, Exit, Running, TypeOK
<1>8. CASE SetStop \/ NotifyAll \/ JoinAll
  BY <1>5, <1>8 DEF SetStop, NotifyAll, JoinAll, Running, TypeOK
<1>9. CASE UNCHANGED vars
  BY <1>5, <1>9 DEF vars, Running
<1> QED
  BY <1>1, <1>2, <1>3, <1>4, <1>6, <1>7, <1>8, <1>9 DEF Next, WorkerStep

LEMMA OrderInvariant == Spec => []OrderInv
<1>1. Init => OrderInv
  <2> SUFFICES ASSUME Init PROVE OrderInv
    OBVIOUS
  <2>1. TypeOK
    BY EmptySeq DEF Init, TypeOK, WorkerStates, DtorStates
  <2>2. Fifo
    BY ConcatEmptySeq, EmptySeq DEF Init, Fifo
  <2>3. Distinct /\ RunsOnce
    BY EmptySeq DEF Init, Distinct, RunsOnce, Running, Elems
  <2> QED BY <2>1, <2>2, <2>3 DEF OrderInv
<1>2. QED BY <1>1, OrderInductive, TypeCorrect, PTL DEF Spec

\* Tasks are popped in exactly the order submit accepted them.
THEOREM FifoOrder == Spec => []Fifo
BY OrderInvariant, PTL DEF OrderInv

\* An accepted task is run by at most one worker, once; a refused one never.
THEOREM SingleExecution == Spec => []RunsOnce
BY OrderInvariant, PTL DEF OrderInv

-----------------------------------------------------------------------------
(* Shutdown.                                                               *)

\* The destructor's progress, the flag it sets, and the workers it joins.
ShutdownInv ==
  /\ stop <=> dtor # "none"
  /\ dtor \in {"join", "done"} => Sleeping = {}
  /\ \A w \in Workers : wpc[w] = "exited" => stop /\ tasks = <<>>
  /\ dtor = "done" => \A w \in Workers : wpc[w] = "exited"
  /\ \A w \in notifying \cap Workers : wpc[w] = "running"

LEMMA ShutdownInductive == TypeOK /\ ShutdownInv /\ [Next]_vars => ShutdownInv'
<1> SUFFICES ASSUME TypeOK, ShutdownInv, [Next]_vars PROVE ShutdownInv'
  OBVIOUS
<1> USE PoolAssumption DEF TypeOK, ShutdownInv, Sleeping, WorkerStates, DtorStates
<1>1. ASSUME NEW c \in Clients \cup Workers, NEW t \in Tasks, SubmitPush(c, t)
      PROVE  ShutdownInv'
  BY <1>1 DEF SubmitPush, MayCall
<1>2. ASSUME NEW c \in Clients \cup Workers, NEW t \in Tasks, SubmitRefused(c, t)
      PROVE  ShutdownInv'
  BY <1>2 DEF SubmitRefused
<1>3. ASSUME NEW c \in Clients \cup Workers, NotifyOne(c)
      PROVE  ShutdownInv'
  BY <1>3 DEF NotifyOne
<1>4. ASSUME NEW w \in Workers, Block(w) \/ SpuriousWake(w) \/ Exit(w)
      PROVE  ShutdownInv'
  BY <1>4 DEF Block, SpuriousWake, Exit
<1>5. ASSUME NEW w \in Workers, Take(w)
      PROVE  ShutdownInv'
  BY <1>5 DEF Take
<1>6. ASSUME NEW w \in Workers, TaskReturns(w) \/ TaskThrows(w)
      PROVE  ShutdownInv'
  BY <1>6 DEF TaskReturns, TaskThrows, TaskEnds
<1>7. CASE SetStop \/ NotifyAll \/ JoinAll
  BY <1>7 DEF SetStop, NotifyAll, JoinAll
<1>8. CASE UNCHANGED vars
  BY <1>8 DEF vars
<1> QED
  BY <1>1, <1>2, <1>3, <1>4, <1>5, <1>6, <1>7, <1>8 DEF Next, WorkerStep

LEMMA ShutdownInvariant == Spec => []ShutdownInv
<1>1. Init => ShutdownInv
  BY DEF Init, ShutdownInv, Sleeping
<1> QED BY <1>1, ShutdownInductive, TypeCorrect, PTL DEF Spec

\* ~ThreadPool returns only when every accepted task has run to its end and
\* no task is inside submit().
THEOREM Drained == Spec => []DrainedAtDestruction
<1>1. OrderInv /\ ShutdownInv => DrainedAtDestruction
  <2> SUFFICES ASSUME OrderInv, ShutdownInv, dtor = "done"
               PROVE  finished = Elems(accepted) /\ notifying \cap Workers = {}
    BY DEF DrainedAtDestruction
  <2>1. Running = {} /\ tasks = <<>>
    BY PoolAssumption DEF ShutdownInv, Running
  <2>2. finished = Elems(started)
    BY <2>1 DEF OrderInv, RunsOnce
  <2>3. accepted = started
    BY <2>1, ConcatEmptySeq DEF OrderInv, Fifo, TypeOK
  <2>4. notifying \cap Workers = {}
    BY DEF ShutdownInv
  <2> QED BY <2>2, <2>3, <2>4
<1> QED BY <1>1, OrderInvariant, ShutdownInvariant, PTL

-----------------------------------------------------------------------------
(* No lost wake-up.                                                        *)

LEMMA WakeInductive == TypeOK /\ WorkConserving /\ [Next]_vars /\ TypeOK' => WorkConserving'
<1> SUFFICES ASSUME TypeOK, WorkConserving, [Next]_vars, TypeOK', Sleeping' # {}
             PROVE  Len(tasks') <= Cardinality(notifying') + Cardinality(Checking')
  BY DEF WorkConserving
<1> USE DEF WorkerStates
<1>1. IsFiniteSet(Clients \cup Workers)
  BY PoolAssumption, FS_Union
<1>2. /\ IsFiniteSet(notifying) /\ IsFiniteSet(notifying')
      /\ IsFiniteSet(Checking) /\ IsFiniteSet(Checking')
  BY <1>1, PoolAssumption, FS_Subset DEF TypeOK, Checking
<1>3. /\ Cardinality(notifying) \in Nat /\ Cardinality(notifying') \in Nat
      /\ Cardinality(Checking) \in Nat /\ Cardinality(Checking') \in Nat
      /\ Len(tasks) \in Nat /\ Len(tasks') \in Nat
  BY <1>2, FS_CardinalityType, LenProperties DEF TypeOK
\* A worker that starts to check adds one to the wake-ups under way.
<1>4. ASSUME NEW w \in Workers, w \notin Checking, Checking' = Checking \cup {w}
      PROVE  Cardinality(Checking') = Cardinality(Checking) + 1
  BY <1>2, <1>4, FS_AddElement
<1>5. ASSUME NEW c \in Clients \cup Workers, NEW t \in Tasks, SubmitPush(c, t)
      PROVE  Len(tasks') <= Cardinality(notifying') + Cardinality(Checking')
  <2>1. Cardinality(notifying') = Cardinality(notifying) + 1
    BY <1>2, <1>5, FS_AddElement DEF SubmitPush, MayCall
  <2>2. Len(tasks') = Len(tasks) + 1
    BY <1>5, AppendProperties DEF SubmitPush, TypeOK
  <2>3. Checking' = Checking /\ Sleeping' = Sleeping
    BY <1>5 DEF SubmitPush, Checking, Sleeping
  <2> QED BY <1>3, <2>1, <2>2, <2>3 DEF WorkConserving
<1>6. ASSUME NEW c \in Clients \cup Workers, NotifyOne(c)
      PROVE  Len(tasks') <= Cardinality(notifying') + Cardinality(Checking')
  <2>0. \E w \in Workers : wpc[w] = "waiting"
    BY <1>6 DEF NotifyOne, Sleeping, TypeOK
  <2>1. PICK w \in Workers : wpc[w] = "waiting" /\ wpc' = [wpc EXCEPT ![w] = "check"]
    BY <1>6, <2>0 DEF NotifyOne
  <2>2. Checking' = Checking \cup {w} /\ w \notin Checking /\ w \in Sleeping
    BY <2>1 DEF Checking, Sleeping, TypeOK
  <2>3. Cardinality(Checking') = Cardinality(Checking) + 1
    BY <2>2, <1>4
  <2>4. Cardinality(notifying') = Cardinality(notifying) - 1 /\ tasks' = tasks
    BY <1>2, <1>6, FS_RemoveElement DEF NotifyOne
  <2> QED BY <1>3, <2>2, <2>3, <2>4 DEF WorkConserving
<1>7. ASSUME NEW w \in Workers, Block(w) \/ Exit(w)
      PROVE  Len(tasks') <= Cardinality(notifying') + Cardinality(Checking')
  BY <1>3, <1>7, EmptySeq DEF Block, Exit
<1>8. ASSUME NEW w \in Workers, SpuriousWake(w) \/ TaskReturns(w) \/ TaskThrows(w)
      PROVE  Len(tasks') <= Cardinality(notifying') + Cardinality(Checking')
  <2>1. /\ Checking' = Checking \cup {w} /\ w \notin Checking
        /\ Sleeping' \subseteq Sleeping /\ notifying' = notifying /\ tasks' = tasks
    BY <1>8 DEF SpuriousWake, TaskReturns, TaskThrows, TaskEnds, Checking, Sleeping, TypeOK
  <2>2. Cardinality(Checking') = Cardinality(Checking) + 1
    BY <1>4, <2>1
  <2>3. Len(tasks) <= Cardinality(notifying) + Cardinality(Checking)
    BY <2>1 DEF WorkConserving
  <2> QED BY <1>3, <2>1, <2>2, <2>3
<1>9. ASSUME NEW w \in Workers, Take(w)
      PROVE  Len(tasks') <= Cardinality(notifying') + Cardinality(Checking')
  <2>1. /\ Checking' = Checking \ {w} /\ w \in Checking
        /\ Sleeping' = Sleeping /\ notifying' = notifying /\ tasks' = Tail(tasks)
    BY <1>9 DEF Take, Checking, Sleeping, TypeOK
  <2>2. Cardinality(Checking') = Cardinality(Checking) - 1
    BY <1>2, <2>1, FS_RemoveElement
  <2>3. Len(tasks') = Len(tasks) - 1
    BY <1>9, <2>1, HeadTailProperties DEF Take, TypeOK
  <2> QED BY <1>3, <2>1, <2>2, <2>3 DEF WorkConserving
<1>10. CASE NotifyAll
  BY <1>10 DEF NotifyAll, Sleeping, TypeOK
<1>11. ASSUME UNCHANGED <<tasks, wpc, notifying>>
       PROVE  Len(tasks') <= Cardinality(notifying') + Cardinality(Checking')
  BY <1>11 DEF WorkConserving, Checking, Sleeping
<1>12. ASSUME NEW c \in Clients \cup Workers, NEW t \in Tasks, SubmitRefused(c, t)
       PROVE  Len(tasks') <= Cardinality(notifying') + Cardinality(Checking')
  BY <1>11, <1>12 DEF SubmitRefused
<1>13. CASE SetStop \/ JoinAll \/ UNCHANGED vars
  BY <1>11, <1>13 DEF SetStop, JoinAll, vars
<1> QED
  BY <1>5, <1>6, <1>7, <1>8, <1>9, <1>10, <1>12, <1>13 DEF Next, WorkerStep

\* While a worker sleeps, every queued task has a wake-up on its way.
THEOREM NoLostWakeup == Spec => []WorkConserving
<1>1. Init => WorkConserving
  BY DEF Init, WorkConserving, Sleeping
<1> QED BY <1>1, WakeInductive, TypeCorrect, PTL DEF Spec

-----------------------------------------------------------------------------
(* Refinement: the initial states and the steps of the executor.           *)

LEMMA TakenTasks ==
  ASSUME OrderInv
  PROVE  /\ Executor!Started = Elems(started)
         /\ Executor!Logged = Elems(accepted)
         /\ Executor!Started \ finished = {current[w] : w \in Running}
<1>1. /\ accepted \in Seq(Tasks) /\ started \in Seq(Tasks) /\ tasks \in Seq(Tasks)
      /\ DOMAIN accepted = 1..Len(accepted) /\ DOMAIN started = 1..Len(started)
      /\ \A i \in 1..Len(started) : accepted[i] = started[i]
  BY ConcatProperties, LenProperties DEF OrderInv, TypeOK, Fifo
<1>2. Executor!Started = Elems(started) /\ Executor!Logged = Elems(accepted)
  BY <1>1 DEF Executor!Started, Executor!Logged, Elems
<1> QED BY <1>2 DEF OrderInv, RunsOnce

LEMMA SameCardinality == \A S : Executor!Cardinality(S) = Cardinality(S)
BY DEF Executor!Cardinality, Cardinality

\* A free worker leaves room: fewer tasks are in flight than there are workers.
LEMMA FreeWorker ==
  ASSUME TypeOK, NEW w \in Workers, w \notin Running
  PROVE  Cardinality({current[v] : v \in Running}) < Cardinality(Workers)
<1> DEFINE T == {current[v] : v \in Running}
           f == [v \in Running |-> current[v]]
<1>1. IsFiniteSet(Running) /\ IsFiniteSet(Workers \ {w})
  BY PoolAssumption, FS_Subset DEF Running
<1>2. f \in Surjection(Running, T)
  BY DEF Surjection
<1>3. Cardinality(T) <= Cardinality(Running) /\ IsFiniteSet(T)
  BY <1>1, <1>2, FS_Surjection
<1>4. Cardinality(Running) <= Cardinality(Workers \ {w})
  <2>1. Running \in SUBSET (Workers \ {w})
    BY DEF Running
  <2> QED BY <1>1, <2>1, FS_Subset
<1>5. Cardinality(Workers \ {w}) = Cardinality(Workers) - 1
  BY PoolAssumption, FS_RemoveElement
<1>6. /\ Cardinality(T) \in Nat /\ Cardinality(Running) \in Nat
      /\ Cardinality(Workers \ {w}) \in Nat /\ Cardinality(Workers) \in Nat
  BY <1>1, <1>3, PoolAssumption, FS_CardinalityType
<1> QED BY <1>3, <1>4, <1>5, <1>6

\* The pool starts as the executor does.
THEOREM ExecutorInit == Init => Executor!Init
BY DEF Init, Executor!Init

LEMMA ExecutorStep ==
  ASSUME OrderInv, OrderInv', ShutdownInv, DrainedAtDestruction', [Next]_vars
  PROVE  [Executor!Next]_(Executor!avars)
<1> DEFINE phase == IF dtor = "done" THEN "down" ELSE IF stop THEN "closed" ELSE "open"
<1> USE DEF Executor!avars
<1>1. TypeOK /\ TypeOK' /\ Len(accepted) = Len(started) + Len(tasks)
      /\ Len(started) \in Nat /\ Len(tasks) \in Nat
  BY ConcatProperties, LenProperties DEF OrderInv, TypeOK, Fifo
<1>2. ASSUME UNCHANGED <<accepted, started, finished, dtor, stop>>
      PROVE  UNCHANGED Executor!avars
  BY <1>2
<1>3. ASSUME NEW c \in Clients \cup Workers, NEW t \in Tasks, SubmitPush(c, t)
      PROVE  Executor!Accept(t)
  BY <1>3, TakenTasks DEF SubmitPush, MayCall, Fresh, Executor!Accept
<1>4. ASSUME NEW w \in Workers, Take(w)
      PROVE  Executor!TakeNext
  <2>1. dtor # "done" /\ Len(started) < Len(accepted)
    BY <1>1, <1>4, EmptySeq DEF Take, ShutdownInv, TypeOK
  <2>2. Executor!Cardinality(Executor!Started \ finished) < Cardinality(Workers)
    BY <1>1, <1>4, TakenTasks, FreeWorker, SameCardinality DEF Take, Running
  <2>3. Len(started') = Len(started) + 1
    BY <1>1, <1>4, AppendProperties, HeadTailProperties DEF Take, TypeOK
  <2> QED BY <1>4, <2>1, <2>2, <2>3 DEF Take, Executor!TakeNext
<1>5. ASSUME NEW w \in Workers, TaskReturns(w) \/ TaskThrows(w)
      PROVE  \E t \in Tasks : Executor!End(t)
  <2>1. w \in Running /\ current[w] \in Tasks
    BY <1>1, <1>5, PoolAssumption DEF TaskReturns, TaskThrows, TaskEnds, Running, TypeOK
  <2>2. current[w] \in Executor!Started \ finished
    BY <2>1, TakenTasks
  <2>3. Executor!End(current[w])
    BY <1>5, <2>2 DEF TaskReturns, TaskThrows, TaskEnds, Executor!End
  <2> QED BY <2>1, <2>3
<1>6. CASE SetStop
  <2>1. Executor!Close
    BY <1>6 DEF SetStop, ShutdownInv, Executor!Close
  <2> QED BY <2>1 DEF Executor!Next
<1>7. CASE JoinAll
  <2>1. finished = Executor!Logged /\ stop
    BY <1>7, TakenTasks DEF JoinAll, DrainedAtDestruction, ShutdownInv
  <2>2. Executor!ShutDown
    BY <1>7, <2>1 DEF JoinAll, Executor!ShutDown
  <2> QED BY <2>2 DEF Executor!Next
<1>8. ASSUME NEW c \in Clients \cup Workers, NEW t \in Tasks, SubmitRefused(c, t)
      PROVE  UNCHANGED Executor!avars
  BY <1>2, <1>8 DEF SubmitRefused
<1>9. ASSUME NEW c \in Clients \cup Workers, NotifyOne(c)
      PROVE  UNCHANGED Executor!avars
  BY <1>2, <1>9 DEF NotifyOne
<1>10. ASSUME NEW w \in Workers, Block(w) \/ Exit(w) \/ SpuriousWake(w)
       PROVE  UNCHANGED Executor!avars
  BY <1>2, <1>10 DEF Block, Exit, SpuriousWake
<1>11. CASE NotifyAll
  BY <1>11, <1>2 DEF NotifyAll, ShutdownInv
<1>12. CASE UNCHANGED vars
  BY <1>2, <1>12 DEF vars
<1> QED
  BY <1>3, <1>4, <1>5, <1>6, <1>7, <1>8, <1>9, <1>10, <1>11, <1>12
     DEF Next, WorkerStep, Executor!Next

\* Every behaviour of the pool is, step by step, one of the executor.
THEOREM ImplementsExecutor == Spec => Executor!Init /\ [][Executor!Next]_(Executor!avars)
BY ExecutorInit, ExecutorStep, OrderInvariant, ShutdownInvariant, Drained, PTL DEF Spec

=============================================================================

--------------------------- MODULE AsyncLLMProofs ---------------------------
(***************************************************************************)
(* The call layer of ILLM for every number of calls, threads and hook      *)
(* managers: what on_complete and the hooks are told of a call.            *)
(***************************************************************************)
EXTENDS AsyncLLM, SequenceTheorems, TLAPS

PoolProofs == INSTANCE ThreadPoolProofs WITH Tasks <- Calls

Outcomes == {"ok", "error", "refused"}
Stages   == {"idle", "before", "queued", "invoked", "fired", "callback", "over"}

CallTypes ==
  /\ hooks \in Managers
  /\ nextId \in [Managers -> Nat]
  /\ kind \in [Calls -> {"sync", "async", None}]
  /\ stage \in [Calls -> Stages]
  /\ outcome \in [Calls -> Outcomes \cup {None}]
  /\ span \in [Calls -> (Managers \X Nat) \cup {None}]
  /\ afters \in [Calls -> Seq(Managers \X Nat \X Threads)]
  /\ replies \in [Calls -> Seq(Outcomes)]

(* Whether somebody is told how the call ended.                            *)
Listens(t) == kind[t] = "async" /\ t \in Watched

(* A call that on_complete interrupted after a success, and that goes      *)
(* round once more with a failure.                                         *)
Again(t) == t \in Throwing /\ Listens(t) /\ outcome[t] = "error" /\ replies[t] = <<"ok">>

(* A call somebody has been told of: once, or of a failure after its       *)
(* success; each time after an AfterLLM.                                   *)
Told(t) ==
  \/ outcome[t] \in Outcomes /\ replies[t] = <<outcome[t]>> /\ Len(afters[t]) = 1
  \/ t \in Throwing /\ outcome[t] = "error" /\ replies[t] = <<"ok", "error">> /\ Len(afters[t]) = 2

(* What has been reported of a call at every stage of it.                  *)
Progress(t) ==
  /\ stage[t] \in {"idle", "before", "queued"} => replies[t] = <<>> /\ afters[t] = <<>>
  /\ stage[t] = "queued" => kind[t] = "async"
  /\ stage[t] = "invoked" =>
       /\ outcome[t] \in Outcomes
       /\ \/ replies[t] = <<>> /\ Len(afters[t]) = 0
          \/ Again(t) /\ Len(afters[t]) = 1
  /\ stage[t] = "fired" =>
       /\ Listens(t) /\ outcome[t] \in Outcomes
       /\ \/ replies[t] = <<>> /\ Len(afters[t]) = 1
          \/ Again(t) /\ Len(afters[t]) = 2
  /\ stage[t] = "callback" => Listens(t) /\ Told(t)
  /\ stage[t] = "over" => IF Listens(t) THEN Told(t) ELSE replies[t] = <<>> /\ Len(afters[t]) = 1

(* A call holds an id its manager has given out; every AfterLLM of it      *)
(* carries that id and, unless the pool refused it, comes from a worker.   *)
SpanHeld(t) ==
  /\ IF stage[t] = "idle" THEN span[t] = None
     ELSE span[t] \in Managers \X Nat /\ span[t][2] <= nextId[span[t][1]]
  /\ \A i \in DOMAIN afters[t] :
       /\ <<afters[t][i][1], afters[t][i][2]>> = span[t]
       /\ kind[t] = "async" /\ t \notin refused => afters[t][i][3] \in Workers

(* No two calls hold the same id.                                          *)
SpansDiffer ==
  \A t, u \in Calls : t # u /\ stage[t] # "idle" /\ stage[u] # "idle" => span[t] # span[u]

CallInv ==
  /\ CallTypes
  /\ \A t \in Calls : Progress(t) /\ SpanHeld(t)
  /\ SpansDiffer

-----------------------------------------------------------------------------
(* A span with the thread that closes it.                                  *)
LEMMA SpanClosed ==
  ASSUME NEW m, NEW n, NEW x
  PROVE  <<m, n>> \o <<x>> = <<m, n, x>>
<1> DEFINE S == {m, n, x}
           l == <<m, n>> \o <<x>>
           r == <<m, n, x>>
<1>1. /\ <<m, n>> \in Seq(S) /\ <<x>> \in Seq(S) /\ r \in Seq(S)
      /\ Len(<<m, n>>) = 2 /\ Len(<<x>>) = 1 /\ Len(r) = 3
  OBVIOUS
<1>2. /\ l \in Seq(S) /\ Len(l) = 3
      /\ l[1] = m /\ l[2] = n /\ l[3] = x
  BY <1>1, ConcatProperties
<1>3. \A i \in 1 .. 3 : l[i] = r[i]
  BY <1>2
<1> HIDE DEF l, r
<1> QED  BY <1>1, <1>2, <1>3, SeqEqual DEF l, r

LEMMA ReportedAgain ==
  ASSUME NEW a, NEW b
  PROVE  Append(<<a>>, b) = <<a, b>>
<1> DEFINE S == {a, b}
           l == Append(<<a>>, b)
           r == <<a, b>>
<1>1. <<a>> \in Seq(S) /\ b \in S /\ r \in Seq(S) /\ Len(<<a>>) = 1 /\ Len(r) = 2
  OBVIOUS
<1>2. l \in Seq(S) /\ Len(l) = 2 /\ l[1] = a /\ l[2] = b
  BY <1>1, AppendProperties
<1>3. \A i \in 1 .. 2 : l[i] = r[i]
  BY <1>2
<1> HIDE DEF l, r
<1> QED  BY <1>1, <1>2, <1>3, SeqEqual DEF l, r

(* Each report of a call comes with an AfterLLM of its own.               *)
LEMMA ToldPaired ==
  ASSUME NEW t \in Calls, Told(t)
  PROVE  /\ replies[t] \in {<<"ok">>, <<"error">>, <<"refused">>, <<"ok", "error">>}
         /\ Len(replies[t]) \in {1, 2} /\ Len(afters[t]) = Len(replies[t])
         /\ t \notin Throwing => Len(replies[t]) = 1
<1>1. CASE outcome[t] \in Outcomes /\ replies[t] = <<outcome[t]>> /\ Len(afters[t]) = 1
  <2>1. Len(replies[t]) = 1
    BY <1>1
  <2>2. replies[t] \in {<<"ok">>, <<"error">>, <<"refused">>}
    BY <1>1 DEF Outcomes
  <2> QED  BY <1>1, <2>1, <2>2
<1>2. CASE t \in Throwing /\ outcome[t] = "error" /\ replies[t] = <<"ok", "error">> /\ Len(afters[t]) = 2
  <2>1. Len(replies[t]) = 2
    BY <1>2
  <2> QED  BY <1>2, <2>1
<1> QED  BY <1>1, <1>2 DEF Told

(* A step on another call, which draws ids and is refused, leaves a call   *)
(* as it was.                                                              *)
LEMMA OtherCall ==
  ASSUME CallTypes, CallTypes', NEW t \in Calls, Progress(t), SpanHeld(t),
         UNCHANGED <<kind[t], stage[t], outcome[t], span[t], afters[t], replies[t]>>,
         refused \subseteq refused',
         \A m \in Managers : nextId[m] <= nextId'[m]
  PROVE  Progress(t)' /\ SpanHeld(t)'
<1>1. Progress(t)'
  BY DEF Progress, Told, Again, Listens
<1>2. ASSUME stage[t] # "idle"
      PROVE  span'[t] \in Managers \X Nat /\ span'[t][2] <= nextId'[span'[t][1]]
  <2>1. PICK m \in Managers, n \in Nat : span[t] = <<m, n>>
    BY <1>2 DEF SpanHeld
  <2>2. n <= nextId[m] /\ nextId[m] \in Nat /\ nextId'[m] \in Nat
    BY <1>2, <2>1 DEF SpanHeld, CallTypes
  <2> QED  BY <2>1, <2>2
<1>3. SpanHeld(t)'
  BY <1>2 DEF SpanHeld
<1> QED  BY <1>1, <1>3

(* What a step on one call has to show for the invariant to hold after it. *)
LEMMA OneCallMoves ==
  ASSUME CallInv, CallTypes', NEW c \in Calls, Progress(c)', SpanHeld(c)',
         \A t \in Calls \ {c} :
           UNCHANGED <<kind[t], stage[t], outcome[t], span[t], afters[t], replies[t]>>,
         stage[c] # "idle", UNCHANGED <<span, nextId>>, refused \subseteq refused'
  PROVE  CallInv'
<1>1. \A m \in Managers : nextId[m] <= nextId'[m]
  BY DEF CallInv, CallTypes
<1>2. \A t \in Calls : Progress(t)' /\ SpanHeld(t)'
  BY <1>1, OtherCall DEF CallInv
<1>3. SpansDiffer'
  BY DEF CallInv, SpansDiffer
<1> QED  BY <1>2, <1>3 DEF CallInv

\* invoke() and async_invoke() draw an id no other call holds.
LEMMA EnterStep ==
  ASSUME CallInv, NEW x \in Threads, NEW c \in Calls, NEW k \in {"sync", "async"}, Enter(x, c, k)
  PROVE  CallInv'
<1> DEFINE n == nextId[hooks] + 1
<1>1. /\ stage[c] = "idle" /\ hooks \in Managers /\ n \in Nat
      /\ span' = [span EXCEPT ![c] = <<hooks, nextId'[hooks]>>]
      /\ nextId' = [nextId EXCEPT ![hooks] = n]
      /\ stage' = [stage EXCEPT ![c] = "before"]
      /\ kind' = [kind EXCEPT ![c] = k]
      /\ UNCHANGED <<poolVars, hooks, outcome, afters, replies>>
  BY DEF Enter, CallInv, CallTypes
<1>2. nextId'[hooks] = n /\ span'[c] = <<hooks, n>>
  BY <1>1 DEF CallInv, CallTypes
<1>3. CallTypes'
  BY <1>1, <1>2 DEF CallInv, CallTypes, Stages
<1>4. \A m \in Managers : nextId[m] <= nextId'[m]
  BY <1>1 DEF CallInv, CallTypes
<1>5. refused' = refused
  BY <1>1 DEF poolVars
<1>6. ASSUME NEW t \in Calls PROVE Progress(t)' /\ SpanHeld(t)'
  <2>1. CASE t # c
    BY <1>1, <1>3, <1>4, <1>5, <2>1, OtherCall DEF CallInv, CallTypes
  <2>2. CASE t = c
    <3>1. /\ stage'[c] = "before" /\ replies'[c] = <<>> /\ afters'[c] = <<>>
      BY <1>1 DEF CallInv, CallTypes, Progress
    <3>2. Progress(c)'
      BY <3>1 DEF Progress
    <3>3. SpanHeld(c)'
      BY <1>1, <1>2, <3>1, EmptySeq DEF SpanHeld
    <3> QED  BY <2>2, <3>2, <3>3
  <2> QED  BY <2>1, <2>2
\* An id held so far is at most the manager's counter, and the new one is more.
<1>7. ASSUME NEW t \in Calls \ {c}, stage[t] # "idle" PROVE span[t] # <<hooks, n>>
  <2>1. PICK m \in Managers, l \in Nat : span[t] = <<m, l>> /\ l <= nextId[m]
    BY <1>7 DEF CallInv, SpanHeld
  <2> QED  BY <1>1, <2>1 DEF CallInv, CallTypes
<1>8. SpansDiffer'
  <2> SUFFICES ASSUME NEW t \in Calls, NEW u \in Calls, t # u, stage'[t] # "idle", stage'[u] # "idle"
               PROVE  span'[t] # span'[u]
    BY DEF SpansDiffer
  <2>1. CASE t # c /\ u # c
    BY <1>1, <2>1 DEF CallInv, CallTypes, SpansDiffer
  <2>2. CASE t = c
    BY <1>1, <1>2, <1>7, <2>2 DEF CallInv, CallTypes
  <2>3. CASE u = c
    BY <1>1, <1>2, <1>7, <2>3 DEF CallInv, CallTypes
  <2> QED  BY <2>1, <2>2, <2>3
<1> QED  BY <1>3, <1>6, <1>8 DEF CallInv

\* submit() queues the call, or refuses it and leaves the report to the caller.
LEMMA SubmitStep ==
  ASSUME CallInv, NEW x \in Threads, NEW c \in Calls, AsyncInvokeImpl(x, c)
  PROVE  CallInv'
<1>1. /\ stage[c] = "before" /\ kind[c] = "async" /\ refused \subseteq refused'
      /\ UNCHANGED <<hooks, nextId, kind, span, afters, replies>>
      /\ \/ stage' = [stage EXCEPT ![c] = "queued"] /\ UNCHANGED outcome
         \/ stage' = [stage EXCEPT ![c] = "invoked"] /\ outcome' = [outcome EXCEPT ![c] = "refused"]
  BY DEF AsyncInvokeImpl, Submitted, Refused, Pool!SubmitPush, Pool!SubmitRefused
<1>2. CallTypes'
  BY <1>1 DEF CallInv, CallTypes, Stages, Outcomes
<1>3. /\ replies'[c] = <<>> /\ afters'[c] = <<>> /\ stage'[c] \in {"queued", "invoked"}
      /\ stage'[c] = "invoked" => outcome'[c] \in Outcomes
  BY <1>1 DEF CallInv, CallTypes, Progress, Outcomes
<1>4. Progress(c)'
  BY <1>1, <1>3, EmptySeq DEF Progress
<1>5. SpanHeld(c)'
  BY <1>1, <1>3, EmptySeq DEF CallInv, SpanHeld
<1>6. \A t \in Calls \ {c} :
        UNCHANGED <<kind[t], stage[t], outcome[t], span[t], afters[t], replies[t]>>
  BY <1>1 DEF CallInv, CallTypes
<1> QED  BY <1>1, <1>2, <1>4, <1>5, <1>6, OneCallMoves

\* The backend ends with a response or an exception.
LEMMA BackendStep ==
  ASSUME CallInv, NEW x \in Threads, NEW c \in Calls, InvokeImpl(x, c)
  PROVE  CallInv'
<1>1. PICK o \in {"ok", "error"} : outcome' = [outcome EXCEPT ![c] = o]
  BY DEF InvokeImpl
<1>2. /\ stage[c] \in {"before", "queued"} /\ refused' = refused
      /\ stage' = [stage EXCEPT ![c] = "invoked"]
      /\ UNCHANGED <<hooks, nextId, kind, span, afters, replies>>
  BY DEF InvokeImpl, poolVars
<1>3. CallTypes'
  BY <1>1, <1>2 DEF CallInv, CallTypes, Stages, Outcomes
<1>4. /\ replies'[c] = <<>> /\ afters'[c] = <<>> /\ stage'[c] = "invoked"
      /\ outcome'[c] \in Outcomes
  BY <1>1, <1>2 DEF CallInv, CallTypes, Progress, Outcomes
<1>5. Progress(c)' /\ SpanHeld(c)'
  BY <1>2, <1>4, EmptySeq DEF CallInv, Progress, SpanHeld
<1>6. \A t \in Calls \ {c} :
        UNCHANGED <<kind[t], stage[t], outcome[t], span[t], afters[t], replies[t]>>
  BY <1>1, <1>2 DEF CallInv, CallTypes
<1> QED  BY <1>2, <1>3, <1>5, <1>6, OneCallMoves

\* AfterLLM carries the id of the call, and a worker fires it unless the
\* call is synchronous or was refused.
LEMMA AfterStep ==
  ASSUME CallInv, NEW x \in Threads, NEW c \in Calls, FireAfter(x, c)
  PROVE  CallInv'
<1>1. /\ stage[c] = "invoked" /\ Executes(x, c) /\ refused' = refused
      /\ afters' = [afters EXCEPT ![c] = Append(@, span[c] \o <<x>>)]
      /\ stage' = [stage EXCEPT ![c] = IF kind[c] = "async" /\ c \in Watched THEN "fired" ELSE "over"]
      /\ UNCHANGED <<hooks, nextId, kind, outcome, span, replies>>
  BY DEF FireAfter, Innermost, poolVars
<1>2. PICK m \in Managers, n \in Nat : span[c] = <<m, n>> /\ n <= nextId[m]
  BY <1>1 DEF CallInv, SpanHeld
<1>3. span[c] \o <<x>> = <<m, n, x>> /\ <<m, n, x>> \in Managers \X Nat \X Threads
  BY <1>2, SpanClosed
<1>4. /\ afters[c] \in Seq(Managers \X Nat \X Threads)
      /\ afters'[c] = Append(afters[c], <<m, n, x>>)
  BY <1>1, <1>3 DEF CallInv, CallTypes
<1>5. /\ afters'[c] \in Seq(Managers \X Nat \X Threads)
      /\ Len(afters[c]) \in Nat /\ Len(afters'[c]) = Len(afters[c]) + 1
      /\ DOMAIN afters[c] = 1 .. Len(afters[c]) /\ DOMAIN afters'[c] = 1 .. Len(afters'[c])
      /\ \A i \in 1 .. Len(afters[c]) : afters'[c][i] = afters[c][i]
      /\ afters'[c][Len(afters[c]) + 1] = <<m, n, x>>
  BY <1>3, <1>4, AppendProperties, LenProperties
<1>6. CallTypes'
  BY <1>1, <1>3, <1>4, <1>5 DEF CallInv, CallTypes, Stages
<1>7. Progress(c)'
  <2>1. /\ stage'[c] = IF Listens(c) THEN "fired" ELSE "over"
        /\ outcome'[c] = outcome[c] /\ replies'[c] = replies[c] /\ kind'[c] = kind[c]
    BY <1>1 DEF CallInv, CallTypes, Listens
  <2>2. /\ outcome[c] \in Outcomes
        /\ \/ replies[c] = <<>> /\ Len(afters[c]) = 0
           \/ Again(c) /\ Len(afters[c]) = 1
    BY <1>1 DEF CallInv, Progress
  <2>3. \/ replies'[c] = <<>> /\ Len(afters'[c]) = 1
        \/ Again(c)' /\ Len(afters'[c]) = 2
    <3>1. CASE replies[c] = <<>> /\ Len(afters[c]) = 0
      BY <1>5, <2>1, <3>1
    <3>2. CASE Again(c) /\ Len(afters[c]) = 1
      <4>1. Again(c)'
        BY <2>1, <3>2 DEF Again, Listens
      <4> QED  BY <1>5, <3>2, <4>1
    <3> QED  BY <2>2, <3>1, <3>2
  <2>4. ~Listens(c)' => ~Again(c)'
    BY DEF Again
  <2> QED  BY <2>1, <2>2, <2>3, <2>4 DEF Progress, Listens
<1>8. ASSUME kind[c] = "async", c \notin refused PROVE x \in Workers
  BY <1>1, <1>8 DEF Executes, OnCaller
<1>9. SpanHeld(c)'
  <2>1. /\ stage'[c] # "idle" /\ span'[c] = <<m, n>> /\ n <= nextId'[m]
    BY <1>1, <1>2 DEF CallInv, CallTypes
  <2>2. ASSUME NEW i \in 1 .. Len(afters[c]) + 1
        PROVE  /\ <<afters'[c][i][1], afters'[c][i][2]>> = <<m, n>>
               /\ kind[c] = "async" /\ c \notin refused => afters'[c][i][3] \in Workers
    <3>1. CASE i = Len(afters[c]) + 1
      BY <1>5, <1>8, <3>1
    <3>2. CASE i # Len(afters[c]) + 1
      <4>1. i \in 1 .. Len(afters[c])
        BY <1>5, <3>2
      <4>2. i \in DOMAIN afters[c] /\ afters'[c][i] = afters[c][i]
        BY <1>5, <4>1
      <4> QED  BY <1>2, <4>2 DEF CallInv, SpanHeld
    <3> QED  BY <3>1, <3>2
  <2>3. kind'[c] = kind[c] /\ refused' = refused
    BY <1>1
  <2>4. DOMAIN afters'[c] = 1 .. Len(afters[c]) + 1
    BY <1>5
  <2>5. span'[c] \in Managers \X Nat /\ span'[c][2] <= nextId'[span'[c][1]]
    BY <2>1
  <2>6. \A i \in DOMAIN afters'[c] :
          /\ <<afters'[c][i][1], afters'[c][i][2]>> = span'[c]
          /\ kind'[c] = "async" /\ c \notin refused' => afters'[c][i][3] \in Workers
    BY <2>1, <2>2, <2>3, <2>4
  <2> QED  BY <2>1, <2>5, <2>6 DEF SpanHeld
<1>10. \A t \in Calls \ {c} :
         UNCHANGED <<kind[t], stage[t], outcome[t], span[t], afters[t], replies[t]>>
  BY <1>1 DEF CallInv, CallTypes
<1> QED  BY <1>1, <1>6, <1>7, <1>9, <1>10, OneCallMoves

\* on_complete is told the outcome, once more only after its own exception.
LEMMA ReportStep ==
  ASSUME CallInv, NEW x \in Threads, NEW c \in Calls, OnComplete(x, c)
  PROVE  CallInv'
<1>1. /\ stage[c] = "fired" /\ refused' = refused
      /\ replies' = [replies EXCEPT ![c] = Append(@, outcome[c])]
      /\ stage' = [stage EXCEPT ![c] = "callback"]
      /\ UNCHANGED <<hooks, nextId, kind, outcome, span, afters>>
  BY DEF OnComplete, poolVars
<1>2. /\ Listens(c) /\ outcome[c] \in Outcomes
      /\ \/ replies[c] = <<>> /\ Len(afters[c]) = 1
         \/ Again(c) /\ Len(afters[c]) = 2
  BY <1>1 DEF CallInv, Progress
<1>3. replies[c] \in Seq(Outcomes) /\ replies'[c] = Append(replies[c], outcome[c])
  BY <1>1 DEF CallInv, CallTypes
<1>4. CallTypes'
  <2>1. replies'[c] \in Seq(Outcomes)
    BY <1>2, <1>3, AppendProperties
  <2> QED  BY <1>1, <1>3, <2>1 DEF CallInv, CallTypes, Stages
<1>5. Told(c)'
  <2>1. CASE replies[c] = <<>> /\ Len(afters[c]) = 1
    <3>1. replies'[c] = <<outcome[c]>>
      BY <1>3, <2>1
    <3> QED  BY <1>1, <1>2, <2>1, <3>1 DEF Told
  <2>2. CASE Again(c) /\ Len(afters[c]) = 2
    <3>1. replies'[c] = <<"ok", "error">>
      BY <1>3, <2>2, ReportedAgain DEF Again
    <3> QED  BY <1>1, <2>2, <3>1 DEF Told, Again
  <2> QED  BY <1>2, <2>1, <2>2
<1>6. Progress(c)' /\ SpanHeld(c)'
  <2>1. stage'[c] = "callback" /\ Listens(c)'
    BY <1>1, <1>2 DEF CallInv, CallTypes, Listens
  <2>2. SpanHeld(c)'
    BY <1>1, <2>1 DEF CallInv, SpanHeld
  <2> QED  BY <1>5, <2>1, <2>2 DEF Progress
<1>7. \A t \in Calls \ {c} :
        UNCHANGED <<kind[t], stage[t], outcome[t], span[t], afters[t], replies[t]>>
  BY <1>1 DEF CallInv, CallTypes
<1> QED  BY <1>1, <1>4, <1>6, <1>7, OneCallMoves

\* A callback returns, or throws: after a success the call goes round again.
LEMMA CallbackStep ==
  ASSUME CallInv, NEW x \in Threads, NEW c \in Calls,
         CallbackReturns(x, c) \/ CallbackThrows(x, c)
  PROVE  CallInv'
<1>1. /\ stage[c] = "callback" /\ refused' = refused
      /\ UNCHANGED <<hooks, nextId, kind, span, afters, replies>>
      /\ \/ stage' = [stage EXCEPT ![c] = "over"] /\ UNCHANGED outcome
         \/ /\ c \in Throwing /\ outcome[c] = "ok"
            /\ outcome' = [outcome EXCEPT ![c] = "error"]
            /\ stage' = [stage EXCEPT ![c] = "invoked"]
  BY DEF CallbackReturns, CallbackThrows, poolVars
<1>2. Listens(c) /\ Told(c) /\ Listens(c)'
  BY <1>1 DEF CallInv, Progress, Listens
<1>3. CallTypes'
  BY <1>1 DEF CallInv, CallTypes, Stages, Outcomes
<1>4. Progress(c)'
  <2>1. CASE stage' = [stage EXCEPT ![c] = "over"] /\ UNCHANGED outcome
    <3>1. stage'[c] = "over" /\ Told(c)'
      BY <1>1, <1>2, <2>1 DEF CallInv, CallTypes, Told
    <3> QED  BY <1>2, <3>1 DEF Progress
  <2>2. CASE /\ c \in Throwing /\ outcome[c] = "ok"
             /\ outcome' = [outcome EXCEPT ![c] = "error"]
             /\ stage' = [stage EXCEPT ![c] = "invoked"]
    <3>1. stage'[c] = "invoked" /\ outcome'[c] = "error"
      BY <2>2 DEF CallInv, CallTypes
    <3>2. replies'[c] = <<"ok">> /\ Len(afters'[c]) = 1
      BY <1>1, <1>2, <2>2 DEF Told
    <3> QED  BY <1>2, <2>2, <3>1, <3>2 DEF Progress, Again, Outcomes
  <2> QED  BY <1>1, <2>1, <2>2
<1>5. SpanHeld(c)'
  BY <1>1 DEF CallInv, CallTypes, SpanHeld
<1>6. \A t \in Calls \ {c} :
        UNCHANGED <<kind[t], stage[t], outcome[t], span[t], afters[t], replies[t]>>
  BY <1>1 DEF CallInv, CallTypes
<1> QED  BY <1>1, <1>3, <1>4, <1>5, <1>6, OneCallMoves

\* The pool's own steps and set_hooks() touch no call.
LEMMA QuietStep ==
  ASSUME CallInv, UNCHANGED <<nextId, kind, stage, outcome, span, afters, replies>>,
         refused' = refused, hooks' \in Managers
  PROVE  CallInv'
BY DEF CallInv, CallTypes, Progress, Told, Again, Listens, SpanHeld, SpansDiffer

LEMMA CallInductive == CallInv /\ [Next]_vars => CallInv'
<1> SUFFICES ASSUME CallInv, [Next]_vars PROVE CallInv'
  OBVIOUS
<1>1. hooks \in Managers
  BY DEF CallInv, CallTypes
<1>2. ASSUME NEW x \in Threads, NEW c \in Calls, Invoke(x, c) \/ AsyncInvoke(x, c)
      PROVE  CallInv'
  BY <1>2, EnterStep DEF Invoke, AsyncInvoke
<1>3. ASSUME NEW x \in Threads, CallStep(x)
      PROVE  CallInv'
  BY <1>3, SubmitStep, BackendStep, AfterStep, ReportStep, CallbackStep DEF CallStep
<1>4. ASSUME NEW w \in Workers, TaskOver(w)
      PROVE  CallInv'
  BY <1>1, <1>4, QuietStep
     DEF TaskOver, callVars, Pool!TaskThrows, Pool!TaskReturns, Pool!TaskEnds
<1>5. ASSUME NEW m \in Managers, SetHooks(m)
      PROVE  CallInv'
  BY <1>5, QuietStep DEF SetHooks, poolVars
<1>6. CASE PoolStep
  BY <1>1, <1>6, QuietStep
     DEF PoolStep, callVars, Pool!NotifyOne, Pool!Block, Pool!Exit, Pool!Take, Pool!SpuriousWake,
         Pool!SetStop, Pool!NotifyAll, Pool!JoinAll
<1>7. CASE UNCHANGED vars
  BY <1>1, <1>7, QuietStep DEF vars, poolVars, callVars
<1> QED  BY <1>2, <1>3, <1>4, <1>5, <1>6, <1>7 DEF Next

LEMMA CallInvariant == Spec => []CallInv
<1>1. Init => CallInv
  <2> SUFFICES ASSUME Init PROVE CallInv
    OBVIOUS
  <2>1. \A t \in Calls : stage[t] = "idle" /\ replies[t] = <<>> /\ afters[t] = <<>> /\ span[t] = None
    BY DEF Init
  <2>2. CallTypes
    BY EmptySeq DEF Init, CallTypes, Stages
  <2> QED  BY <2>1, <2>2, EmptySeq DEF CallInv, Progress, SpanHeld, SpansDiffer
<1> QED  BY <1>1, CallInductive, PTL DEF Spec

-----------------------------------------------------------------------------
(* The pool underneath: the steps of the calls are steps of the pool, so   *)
(* what is proved of the pool holds of it here.                            *)

\* Calls are the pool's tasks: each step is one of the pool or leaves it alone.
THEOREM ImplementsPool == Spec => Pool!Spec
<1>1. Init => Pool!Init
  BY DEF Init
<1>2. [Next]_vars => [Pool!Next]_(Pool!vars)
  <2> SUFFICES ASSUME [Next]_vars PROVE Pool!Next \/ UNCHANGED poolVars
    BY DEF poolVars, Pool!vars
  <2>1. ASSUME NEW x \in Threads, NEW t \in Calls, Invoke(x, t) \/ AsyncInvoke(x, t)
        PROVE  UNCHANGED poolVars
    BY <2>1 DEF Invoke, AsyncInvoke, Enter
  <2>2. ASSUME NEW x \in Threads, CallStep(x)
        PROVE  Pool!Next \/ UNCHANGED poolVars
    <3>1. ASSUME NEW t \in Calls, AsyncInvokeImpl(x, t)
          PROVE  Pool!Next
      BY <3>1 DEF AsyncInvokeImpl, Pool!Next, Threads
    <3> QED  BY <2>2, <3>1
                DEF CallStep, InvokeImpl, FireAfter, OnComplete, CallbackReturns, CallbackThrows
  <2>3. ASSUME NEW w \in Workers, TaskOver(w)
        PROVE  Pool!Next
    BY <2>3 DEF TaskOver, Pool!Next, Pool!WorkerStep
  <2>4. ASSUME NEW m \in Managers, SetHooks(m)
        PROVE  UNCHANGED poolVars
    BY <2>4 DEF SetHooks
  <2>5. CASE PoolStep
    BY <2>5 DEF PoolStep, Pool!Next, Pool!WorkerStep, Threads
  <2>6. CASE UNCHANGED vars
    BY <2>6 DEF vars
  <2> QED  BY <2>1, <2>2, <2>3, <2>4, <2>5, <2>6 DEF Next
<1> QED  BY <1>1, <1>2, PTL DEF Spec, Pool!Spec

(* ThreadPoolProofs speaks of the same pool.                               *)
LEMMA SamePool == Pool!Spec => PoolProofs!Spec
<1>1. Pool!Init => PoolProofs!Init
  BY DEF Pool!Init, PoolProofs!Init
<1>2. ASSUME NEW x, NEW t, Pool!SubmitPush(x, t) PROVE PoolProofs!SubmitPush(x, t)
  BY <1>2 DEF Pool!SubmitPush, PoolProofs!SubmitPush,
     Pool!MayCall, PoolProofs!MayCall, Pool!Fresh, PoolProofs!Fresh, Pool!Elems, PoolProofs!Elems
<1>3. ASSUME NEW x, NEW t, Pool!SubmitRefused(x, t) PROVE PoolProofs!SubmitRefused(x, t)
  BY <1>3 DEF Pool!SubmitRefused, PoolProofs!SubmitRefused,
     Pool!MayCall, PoolProofs!MayCall, Pool!Fresh, PoolProofs!Fresh, Pool!Elems, PoolProofs!Elems
<1>4. ASSUME NEW x, Pool!NotifyOne(x) PROVE PoolProofs!NotifyOne(x)
  BY <1>4 DEF Pool!NotifyOne, PoolProofs!NotifyOne
<1>5. ASSUME NEW x, Pool!Block(x) PROVE PoolProofs!Block(x)
  BY <1>5 DEF Pool!Block, PoolProofs!Block
<1>6. ASSUME NEW x, Pool!Exit(x) PROVE PoolProofs!Exit(x)
  BY <1>6 DEF Pool!Exit, PoolProofs!Exit
<1>7. ASSUME NEW x, Pool!Take(x) PROVE PoolProofs!Take(x)
  BY <1>7 DEF Pool!Take, PoolProofs!Take
<1>8. ASSUME NEW x, Pool!SpuriousWake(x) PROVE PoolProofs!SpuriousWake(x)
  BY <1>8 DEF Pool!SpuriousWake, PoolProofs!SpuriousWake
<1>9. ASSUME NEW x, Pool!TaskReturns(x) PROVE PoolProofs!TaskReturns(x)
  BY <1>9 DEF Pool!TaskReturns, PoolProofs!TaskReturns,
     Pool!TaskEnds, PoolProofs!TaskEnds
<1>10. ASSUME NEW x, Pool!TaskThrows(x) PROVE PoolProofs!TaskThrows(x)
  BY <1>10 DEF Pool!TaskThrows, PoolProofs!TaskThrows,
     Pool!TaskEnds, PoolProofs!TaskEnds
<1>11. ASSUME Pool!SetStop \/ Pool!NotifyAll \/ Pool!JoinAll
      PROVE  PoolProofs!SetStop \/ PoolProofs!NotifyAll \/ PoolProofs!JoinAll
  BY <1>11 DEF Pool!SetStop, Pool!NotifyAll, Pool!JoinAll,
     PoolProofs!SetStop, PoolProofs!NotifyAll, PoolProofs!JoinAll
<1>12. [Pool!Next]_(Pool!vars) => [PoolProofs!Next]_(PoolProofs!vars)
  BY <1>2, <1>3, <1>4, <1>5, <1>6, <1>7, <1>8, <1>9, <1>10, <1>11
     DEF Pool!Next, Pool!WorkerStep, Pool!vars, PoolProofs!Next, PoolProofs!WorkerStep, PoolProofs!vars
<1> QED  BY <1>1, <1>12, PTL DEF Pool!Spec, PoolProofs!Spec

(* What the proofs about the pool give the call layer.                     *)
PoolFacts ==
  /\ accepted \in Seq(Calls) /\ current \in [Workers -> Calls \cup {None}]
  /\ \A v, w \in Workers : current[v] # None /\ current[v] = current[w] => v = w
  /\ dtor = "done" => finished = Pool!Elems(accepted)

LEMMA PoolInvariant == Spec => []PoolFacts
<1>1. PoolProofs!PoolAssumption
  BY LayerAssumption
     DEF Pool!PoolAssumption, PoolProofs!PoolAssumption, Pool!IsFiniteSet, PoolProofs!IsFiniteSet
<1>2. PoolProofs!Spec => []PoolProofs!TypeOK
  BY <1>1, PoolProofs!TypeCorrect
<1>3. PoolProofs!Spec => []PoolProofs!RunsOnce
  BY <1>1, PoolProofs!SingleExecution
<1>4. PoolProofs!Spec => []PoolProofs!DrainedAtDestruction
  BY <1>1, PoolProofs!Drained
<1>5. PoolProofs!TypeOK /\ PoolProofs!RunsOnce /\ PoolProofs!DrainedAtDestruction => PoolFacts
  BY DEF PoolProofs!TypeOK, PoolProofs!RunsOnce, PoolProofs!Running, PoolProofs!DrainedAtDestruction,
     PoolProofs!Elems, Pool!Elems, PoolFacts
<1> QED  BY <1>2, <1>3, <1>4, <1>5, ImplementsPool, SamePool, PTL

-----------------------------------------------------------------------------
(* A task the pool has finished is a call that is over.                    *)
FinishedInv == \A t \in Calls : t \in finished => stage[t] = "over"

LEMMA FinishedInductive == PoolFacts /\ CallInv /\ FinishedInv /\ [Next]_vars => FinishedInv'
<1> SUFFICES ASSUME PoolFacts, CallInv, FinishedInv, [Next]_vars PROVE FinishedInv'
  OBVIOUS
<1>1. ASSUME finished' = finished, NEW c \in Calls, stage[c] # "over",
             NEW p \in Stages, stage' = [stage EXCEPT ![c] = p]
      PROVE  FinishedInv'
  BY <1>1 DEF FinishedInv, CallInv, CallTypes
<1>2. ASSUME NEW x \in Threads, NEW c \in Calls, Invoke(x, c) \/ AsyncInvoke(x, c)
      PROVE  FinishedInv'
  BY <1>1, <1>2 DEF Invoke, AsyncInvoke, Enter, poolVars, Stages
<1>3. ASSUME NEW x \in Threads, CallStep(x)
      PROVE  FinishedInv'
  <2>1. ASSUME NEW c \in Calls, AsyncInvokeImpl(x, c) PROVE FinishedInv'
    BY <1>1, <2>1 DEF AsyncInvokeImpl, Submitted, Refused, Pool!SubmitPush, Pool!SubmitRefused, Stages
  <2>2. ASSUME NEW c \in Calls, InvokeImpl(x, c) PROVE FinishedInv'
    BY <1>1, <2>2 DEF InvokeImpl, poolVars, Stages
  <2>3. ASSUME NEW c \in Calls, FireAfter(x, c) PROVE FinishedInv'
    BY <1>1, <2>3 DEF FireAfter, poolVars, Stages
  <2>4. ASSUME NEW c \in Calls, OnComplete(x, c) PROVE FinishedInv'
    BY <1>1, <2>4 DEF OnComplete, poolVars, Stages
  <2>5. ASSUME NEW c \in Calls, CallbackReturns(x, c) \/ CallbackThrows(x, c) PROVE FinishedInv'
    BY <1>1, <2>5 DEF CallbackReturns, CallbackThrows, poolVars, Stages
  <2> QED  BY <1>3, <2>1, <2>2, <2>3, <2>4, <2>5 DEF CallStep
<1>4. ASSUME NEW w \in Workers, TaskOver(w)
      PROVE  FinishedInv'
  BY <1>4 DEF FinishedInv, TaskOver, callVars, Pool!TaskThrows, Pool!TaskReturns, Pool!TaskEnds
<1>5. ASSUME NEW m \in Managers, SetHooks(m)
      PROVE  FinishedInv'
  BY <1>5 DEF FinishedInv, SetHooks, poolVars
<1>6. CASE PoolStep
  BY <1>6
     DEF FinishedInv, PoolStep, callVars, Pool!NotifyOne, Pool!Block, Pool!Exit, Pool!Take,
         Pool!SpuriousWake, Pool!SetStop, Pool!NotifyAll, Pool!JoinAll
<1>7. CASE UNCHANGED vars
  BY <1>7 DEF FinishedInv, vars, poolVars, callVars
<1> QED  BY <1>2, <1>3, <1>4, <1>5, <1>6, <1>7 DEF Next

LEMMA FinishedInvariant == Spec => []FinishedInv
<1>1. Init => FinishedInv
  BY DEF Init, Pool!Init, FinishedInv
<1> QED  BY <1>1, FinishedInductive, PoolInvariant, CallInvariant, PTL DEF Spec

(* No two threads are ever inside the same call.                           *)
OneExecutor ==
  \A t \in Calls : \A x, y \in Threads : Executes(x, t) /\ Executes(y, t) => x = y

(* A call runs on its caller's thread or on one worker, never on two       *)
(* threads at once, although submit() hands it from the one to the other.  *)
THEOREM CallsHaveOneExecutor == Spec => []OneExecutor
<1>1. None \notin Calls
  BY LayerAssumption DEF Pool!PoolAssumption
<1>2. PoolFacts => OneExecutor
  BY <1>1 DEF PoolFacts, OneExecutor, Executes
<1> QED  BY <1>2, PoolInvariant, PTL

-----------------------------------------------------------------------------
(* on_complete is called once for a call whose callback does not throw, at *)
(* most once more otherwise and then with the failure, whatever the pool,  *)
(* its shutdown, the backend and the other calls did meanwhile.            *)
THEOREM CallsReportedOnce == Spec => []ReportedOnce
<1>1. CallInv /\ PoolFacts /\ FinishedInv => ReportedOnce
  <2> SUFFICES ASSUME CallInv, PoolFacts, FinishedInv PROVE ReportedOnce
    OBVIOUS
  <2>1. ASSUME NEW t \in Calls
        PROVE  /\ replies[t] \in {<<>>, <<"ok">>, <<"error">>, <<"refused">>, <<"ok", "error">>}
               /\ t \notin Throwing => Len(replies[t]) <= 1 /\ Len(afters[t]) <= 1
    <3>1. Progress(t) /\ stage[t] \in Stages
      BY DEF CallInv, CallTypes
    <3>2. \/ replies[t] = <<>> /\ Len(afters[t]) \in {0, 1}
          \/ t \in Throwing /\ replies[t] = <<"ok">>
          \/ Told(t)
      <4>1. CASE stage[t] \in {"idle", "before", "queued"}
        <5>1. replies[t] = <<>> /\ afters[t] = <<>>
          BY <3>1, <4>1 DEF Progress
        <5> QED  BY <5>1
      <4>2. CASE stage[t] \in {"invoked", "fired"}
        BY <3>1, <4>2 DEF Progress, Again
      <4>3. CASE stage[t] \in {"callback", "over"}
        BY <3>1, <4>3 DEF Progress
      <4> QED  BY <3>1, <4>1, <4>2, <4>3 DEF Stages
    <3>3. CASE replies[t] = <<>> /\ Len(afters[t]) \in {0, 1}
      <4>1. Len(replies[t]) = 0
        BY <3>3
      <4>2. Len(replies[t]) <= 1
        BY <4>1
      <4>3. Len(afters[t]) <= 1
        <5>1. CASE Len(afters[t]) = 0
          BY <5>1
        <5>2. CASE Len(afters[t]) = 1
          BY <5>2
        <5> QED  BY <3>3, <5>1, <5>2
      <4> QED  BY <3>3, <4>2, <4>3
    <3>4. CASE t \in Throwing /\ replies[t] = <<"ok">>
      BY <3>4
    <3>5. CASE Told(t)
      <4>1. ASSUME t \notin Throwing
            PROVE  Len(replies[t]) <= 1 /\ Len(afters[t]) <= 1
        <5>1. Len(replies[t]) = 1 /\ Len(afters[t]) = 1
          BY <3>5, <4>1, ToldPaired
        <5> QED  BY <5>1
      <4>2. replies[t] \in {<<"ok">>, <<"error">>, <<"refused">>, <<"ok", "error">>}
        BY <3>5, ToldPaired
      <4> QED  BY <4>1, <4>2
    <3> QED  BY <3>2, <3>3, <3>4, <3>5
  <2>2. ASSUME NEW t \in Calls \ Throwing, stage[t] = "over"
        PROVE  Len(afters[t]) = 1 /\ (Listens(t) => Len(replies[t]) = 1)
    BY <2>2 DEF CallInv, Progress, Told
  <2>3. dtor = "done" => \A t \in Pool!Elems(accepted) : stage[t] = "over"
    <3>1. Pool!Elems(accepted) \subseteq Calls
      BY ElementOfSeq, LenProperties DEF PoolFacts, Pool!Elems
    <3> QED  BY <3>1 DEF PoolFacts, FinishedInv
  <2> QED  BY <2>1, <2>2, <2>3 DEF ReportedOnce, Listens
<1> QED  BY <1>1, CallInvariant, PoolInvariant, FinishedInvariant, PTL

(* BeforeLLM and AfterLLM of a call meet at one manager under an id of     *)
(* their own, each report has an AfterLLM before it, and a worker fires    *)
(* that of every asynchronous call the pool accepted.                      *)
THEOREM HookSpansPaired == Spec => []SpansPaired
<1>1. CallInv => SpansPaired
  <2> SUFFICES ASSUME CallInv, NEW t \in Calls
               PROVE  /\ \A i \in DOMAIN afters[t] : <<afters[t][i][1], afters[t][i][2]>> = span[t]
                      /\ span[t] # None => \A u \in Calls \ {t} : span[u] # span[t]
                      /\ Len(afters[t]) - Len(replies[t]) \in
                           IF kind[t] = "async" /\ t \in Watched
                             THEN (IF stage[t] = "fired" THEN {1} ELSE {0}) ELSE {0, 1}
                      /\ kind[t] = "async" /\ t \notin refused =>
                           \A i \in DOMAIN afters[t] : afters[t][i][3] \in Workers
    BY DEF SpansPaired
  <2>1. SpanHeld(t) /\ Progress(t) /\ stage[t] \in Stages
    BY DEF CallInv, CallTypes
  <2>2. span[t] # None => \A u \in Calls \ {t} : span[u] # span[t]
    BY DEF CallInv, SpanHeld, SpansDiffer
  <2>3. Len(afters[t]) - Len(replies[t]) \in
          IF Listens(t) THEN (IF stage[t] = "fired" THEN {1} ELSE {0}) ELSE {0, 1}
    <3> DEFINE d == Len(afters[t]) - Len(replies[t])
    <3>1. replies[t] = <<>> => Len(replies[t]) = 0
      OBVIOUS
    <3>2. Again(t) => Listens(t) /\ Len(replies[t]) = 1
      BY DEF Again
    <3>3. Told(t) => d = 0
      BY ToldPaired
    <3>4. CASE stage[t] \in {"idle", "before", "queued"}
      <4>1. d = 0
        <5>1. replies[t] = <<>> /\ afters[t] = <<>>
          BY <2>1, <3>4 DEF Progress
        <5> QED  BY <5>1
      <4> QED  BY <3>4, <4>1
    <3>5. CASE stage[t] = "invoked"
      <4>1. \/ replies[t] = <<>> /\ Len(afters[t]) = 0
            \/ Again(t) /\ Len(afters[t]) = 1
        BY <2>1, <3>5 DEF Progress
      <4>2. d = 0
        BY <3>1, <3>2, <4>1
      <4> QED  BY <3>5, <4>2
    <3>6. CASE stage[t] = "fired"
      <4>1. /\ Listens(t)
            /\ \/ replies[t] = <<>> /\ Len(afters[t]) = 1
               \/ Again(t) /\ Len(afters[t]) = 2
        BY <2>1, <3>6 DEF Progress
      <4>2. CASE replies[t] = <<>> /\ Len(afters[t]) = 1
        BY <3>1, <3>6, <4>1, <4>2
      <4>3. CASE Again(t) /\ Len(afters[t]) = 2
        <5>1. Len(replies[t]) = 1 /\ Len(afters[t]) = 2
          BY <3>2, <4>3
        <5>2. d = 1
          BY <5>1
        <5> QED  BY <3>6, <4>1, <5>2
      <4> QED  BY <4>1, <4>2, <4>3
    <3>7. CASE stage[t] \in {"callback", "over"}
      <4>1. Told(t) \/ (~Listens(t) /\ replies[t] = <<>> /\ Len(afters[t]) = 1)
        BY <2>1, <3>7 DEF Progress
      <4>2. CASE Told(t)
        <5>1. d = 0
          BY <3>3, <4>2
        <5> QED  BY <3>7, <5>1
      <4>3. CASE ~Listens(t) /\ replies[t] = <<>> /\ Len(afters[t]) = 1
        BY <3>1, <4>3
      <4> QED  BY <4>1, <4>2, <4>3
    <3> QED  BY <2>1, <3>4, <3>5, <3>6, <3>7 DEF Stages
  <2> QED  BY <2>1, <2>2, <2>3 DEF SpanHeld, Listens
<1> QED  BY <1>1, CallInvariant, PTL
=============================================================================

------------------------------ MODULE AsyncLLM ------------------------------
(***************************************************************************)
(* llm::ILLM, the non-virtual layer every backend is called through        *)
(* (src/src/llm/llm.cpp): invoke() runs the backend between the BeforeLLM  *)
(* and AfterLLM hooks; async_invoke() fires BeforeLLM on the caller, hands *)
(* the rest to the default ThreadPool and reports through on_complete.     *)
(* The streaming variants differ only in the deltas the backend reports    *)
(* while it runs.                                                          *)
(*                                                                         *)
(* The pool is the module ThreadPool with calls as its tasks; what a task  *)
(* does while its worker is "running" is spelled out here.                 *)
(***************************************************************************)
EXTENDS Naturals, Sequences, FiniteSets

CONSTANTS
  Workers, Clients, None,
  Calls,      \* the calls made on one ILLM object
  Managers,   \* hook managers the object may use; global() is one of them
  Watched,    \* the calls made with a non-empty on_complete
  Throwing    \* the calls whose on_complete throws

ASSUME CallAssumption ==
  /\ Throwing \subseteq Watched /\ Watched \subseteq Calls
  /\ None \notin Managers

VARIABLES
  tasks, stop, wpc, current, notifying, dtor,     \* the pool, see ThreadPool
  accepted, refused, started, finished,
  hooks,      \* the manager hooks_ (or global()) designates now
  nextId,     \* next_id_ of every manager
  kind,       \* "sync" or "async", None before the call
  caller,     \* the thread that made the call
  stage,      \* how far the call is
  outcome,    \* what the next report says: "ok", "error", "refused"
  span,       \* <<manager, call_id>> of the call, as captured at its start
  afters,     \* history: where each AfterLLM of the call was fired, <<mgr, id, thread>>
  replies     \* history: the outcomes on_complete was called with

Pool == INSTANCE ThreadPool WITH Tasks <- Calls

ASSUME LayerAssumption == Pool!PoolAssumption

callVars == <<hooks, nextId, kind, caller, stage, outcome, span, afters, replies>>
poolVars == <<tasks, stop, wpc, current, notifying, dtor, accepted, refused, started, finished>>
vars == <<poolVars, callVars>>

Threads == Clients \cup Workers

Init ==
  /\ Pool!Init
  /\ hooks \in Managers
  /\ nextId = [m \in Managers |-> 0]
  /\ kind    = [t \in Calls |-> None]
  /\ caller  = [t \in Calls |-> None]
  /\ stage   = [t \in Calls |-> "idle"]
  /\ outcome = [t \in Calls |-> None]
  /\ span    = [t \in Calls |-> None]
  /\ afters  = [t \in Calls |-> <<>>]
  /\ replies = [t \in Calls |-> <<>>]

-----------------------------------------------------------------------------
(* Which thread executes a call now: its caller until submit() accepts it, *)
(* and to the end when the call is synchronous or was refused; else the    *)
(* worker that popped it.                                                  *)

OnCaller(t) == kind[t] = "sync" \/ stage[t] = "before" \/ t \in refused

Executes(x, t) ==
  IF OnCaller(t) THEN x = caller[t] /\ stage[t] # "over"
                 ELSE x \in Workers /\ current[x] = t

\* A thread runs its innermost call.  It can start another one when it is a
\* client without a call, or a worker inside an on_complete callback.
Innermost(x, t) ==
  /\ Executes(x, t) /\ x \notin notifying
  /\ \A u \in Calls \ {t} : Executes(x, u) => stage[u] = "callback" /\ ~OnCaller(u)

Idle(x) == \A t \in Calls : Executes(x, t) => stage[t] = "callback" /\ ~OnCaller(t)

CanCall(x) ==
  /\ Idle(x) /\ x \notin notifying
  /\ x \in Workers => \E t \in Calls : Executes(x, t)

-----------------------------------------------------------------------------
(* Entering a call: the manager is chosen once, its next id is drawn, and  *)
(* BeforeLLM fires on the caller's thread.                                 *)
Enter(x, t, k) ==
  /\ CanCall(x) /\ stage[t] = "idle"
  /\ kind' = [kind EXCEPT ![t] = k]
  /\ caller' = [caller EXCEPT ![t] = x]
  /\ nextId' = [nextId EXCEPT ![hooks] = @ + 1]
  /\ span' = [span EXCEPT ![t] = <<hooks, nextId'[hooks]>>]
  /\ stage' = [stage EXCEPT ![t] = "before"]
  /\ UNCHANGED <<poolVars, hooks, outcome, afters, replies>>

\* invoke() needs no pool; async_invoke() needs a live one.
Invoke(x, t)      == Enter(x, t, "sync")
AsyncInvoke(x, t) == dtor # "done" /\ Enter(x, t, "async")

\* set_hooks() from another thread, at any moment.
SetHooks(m) ==
  /\ m # hooks
  /\ hooks' = m
  /\ UNCHANGED <<poolVars, nextId, kind, caller, stage, outcome, span, afters, replies>>

Submitted(t) ==
  /\ stage' = [stage EXCEPT ![t] = "queued"]
  /\ UNCHANGED <<hooks, nextId, kind, caller, outcome, span, afters, replies>>

\* Mutation: the refusal is dropped.
RefusedSilently(t) ==
  /\ stage' = [stage EXCEPT ![t] = "over"]
  /\ UNCHANGED <<hooks, nextId, kind, caller, outcome, span, afters, replies>>

\* submit() returned false: the caller itself reports the failure.
Refused(t) ==
  /\ stage' = [stage EXCEPT ![t] = "invoked"]
  /\ outcome' = [outcome EXCEPT ![t] = "refused"]
  /\ UNCHANGED <<hooks, nextId, kind, caller, span, afters, replies>>

\* Mutation: the result of submit() is ignored.
AsyncInvokeUnchecked(x, t) ==
  /\ stage[t] = "before" /\ kind[t] = "async" /\ caller[t] = x
  /\ Pool!SubmitPush(x, t) \/ Pool!SubmitRefused(x, t)
  /\ stage' = [stage EXCEPT ![t] = "queued"]
  /\ UNCHANGED <<hooks, nextId, kind, caller, outcome, span, afters, replies>>

AsyncInvokeImpl(x, t) ==
  /\ stage[t] = "before" /\ kind[t] = "async" /\ caller[t] = x
  /\ \/ Pool!SubmitPush(x, t) /\ Submitted(t)
     \/ Pool!SubmitRefused(x, t) /\ Refused(t)

\* invoke_impl() returns a response or throws.
InvokeImpl(x, t) ==
  /\ Executes(x, t)
  /\ IF kind[t] = "sync" THEN stage[t] = "before" ELSE stage[t] = "queued" /\ t \notin refused
  /\ \E o \in {"ok", "error"} : outcome' = [outcome EXCEPT ![t] = o]
  /\ stage' = [stage EXCEPT ![t] = "invoked"]
  /\ UNCHANGED <<poolVars, hooks, nextId, kind, caller, span, afters, replies>>

\* Mutation: AfterLLM goes to the manager of the moment.
FireAfterAtCurrent(x, t) ==
  /\ Innermost(x, t) /\ stage[t] = "invoked"
  /\ afters' = [afters EXCEPT ![t] = Append(@, <<hooks, span[t][2], x>>)]
  /\ stage' = [stage EXCEPT ![t] = IF kind[t] = "async" /\ t \in Watched THEN "fired" ELSE "over"]
  /\ UNCHANGED <<poolVars, hooks, nextId, kind, caller, outcome, span, replies>>

\* Mutation: no AfterLLM for a failed call.
FireAfterOnSuccess(x, t) ==
  /\ Innermost(x, t) /\ stage[t] = "invoked"
  /\ afters' = IF outcome[t] = "ok" THEN [afters EXCEPT ![t] = Append(@, span[t] \o <<x>>)] ELSE afters
  /\ stage' = [stage EXCEPT ![t] = IF kind[t] = "async" /\ t \in Watched THEN "fired" ELSE "over"]
  /\ UNCHANGED <<poolVars, hooks, nextId, kind, caller, outcome, span, replies>>

\* AfterLLM: by the destructor of invoke()'s ScopedSpan, or by the wrapped callback.
FireAfter(x, t) ==
  /\ Innermost(x, t)
  /\ stage[t] = "invoked"
  /\ afters' = [afters EXCEPT ![t] = Append(@, span[t] \o <<x>>)]
  /\ stage' = [stage EXCEPT ![t] = IF kind[t] = "async" /\ t \in Watched THEN "fired" ELSE "over"]
  /\ UNCHANGED <<poolVars, hooks, nextId, kind, caller, outcome, span, replies>>

OnComplete(x, t) ==
  /\ Innermost(x, t)
  /\ stage[t] = "fired"
  /\ replies' = [replies EXCEPT ![t] = Append(@, outcome[t])]
  /\ stage' = [stage EXCEPT ![t] = "callback"]
  /\ UNCHANGED <<poolVars, hooks, nextId, kind, caller, outcome, span, afters>>

CallbackReturns(x, t) ==
  /\ Innermost(x, t)
  /\ stage[t] = "callback" /\ t \notin Throwing
  /\ stage' = [stage EXCEPT ![t] = "over"]
  /\ UNCHANGED <<poolVars, hooks, nextId, kind, caller, outcome, span, afters, replies>>

\* Mutation: the throwing report is repeated as it was.
CallbackRetried(x, t) ==
  /\ Innermost(x, t)
  /\ stage[t] = "callback" /\ t \in Throwing
  /\ stage' = [stage EXCEPT ![t] = IF Len(replies[t]) < 2 THEN "invoked" ELSE "over"]
  /\ UNCHANGED <<poolVars, hooks, nextId, kind, caller, outcome, span, afters, replies>>

\* on_complete is called inside the try block: what it throws after a
\* success is caught and reported through on_complete again; what it throws
\* from a catch clause, or on the caller's thread, leaves the call.
CallbackThrows(x, t) ==
  /\ Innermost(x, t)
  /\ stage[t] = "callback" /\ t \in Throwing
  /\ IF outcome[t] = "ok"
       THEN /\ outcome' = [outcome EXCEPT ![t] = "error"]
            /\ stage' = [stage EXCEPT ![t] = "invoked"]
       ELSE /\ stage' = [stage EXCEPT ![t] = "over"]
            /\ UNCHANGED outcome
  /\ UNCHANGED <<poolVars, hooks, nextId, kind, caller, span, afters, replies>>

-----------------------------------------------------------------------------
\* The pool's own steps; a worker's task is over when the call is.
PoolStep ==
  /\ \/ \E x \in Threads : Pool!NotifyOne(x)
     \/ \E w \in Workers : Pool!Block(w) \/ Pool!Exit(w) \/ Pool!Take(w) \/ Pool!SpuriousWake(w)
     \/ Pool!SetStop \/ Pool!NotifyAll \/ Pool!JoinAll
  /\ UNCHANGED callVars

\* The exception of a throwing on_complete, if any, ends in the worker loop.
TaskOver(w) ==
  /\ current[w] # None /\ stage[current[w]] = "over"
  /\ IF current[w] \in Throwing THEN Pool!TaskThrows(w) ELSE Pool!TaskReturns(w)
  /\ UNCHANGED callVars

CallStep(x) ==
  \E t \in Calls : \/ AsyncInvokeImpl(x, t) \/ InvokeImpl(x, t) \/ FireAfter(x, t)
                   \/ OnComplete(x, t) \/ CallbackReturns(x, t) \/ CallbackThrows(x, t)

Next ==
  \/ \E x \in Threads : \/ \E t \in Calls : Invoke(x, t) \/ AsyncInvoke(x, t)
                        \/ CallStep(x)
  \/ \E w \in Workers : TaskOver(w)
  \/ \E m \in Managers : SetHooks(m)
  \/ PoolStep

(* Every thread runs on inside the calls it is in and inside the pool, and *)
(* backends and callbacks terminate; nobody has to make a call, to change  *)
(* the hooks or to destroy the pool.                                       *)
WorkerLoop(w) == /\ Pool!Block(w) \/ Pool!Exit(w) \/ Pool!Take(w)
                 /\ UNCHANGED callVars
Fairness ==
  /\ \A x \in Threads : WF_vars(CallStep(x)) /\ WF_vars(Pool!NotifyOne(x) /\ UNCHANGED callVars)
  /\ \A w \in Workers : WF_vars(WorkerLoop(w) \/ TaskOver(w))
  /\ WF_vars((Pool!NotifyAll \/ Pool!JoinAll) /\ UNCHANGED callVars)

Spec     == Init /\ [][Next]_vars
FairSpec == Spec /\ Fairness

-----------------------------------------------------------------------------
(* llm.h:99 "on_complete is called once at the end": while callbacks do    *)
(* not throw, a call that is over was reported once if somebody listens,   *)
(* and AfterLLM fired once for it, whatever the pool, the shutdown, the    *)
(* backend and the callbacks of other calls did meanwhile.  A callback     *)
(* that throws sees at most one failure after its success, never a success *)
(* after a failure.  And when the destructor of the pool has returned,     *)
(* every call it accepted is over.                                         *)
ReportedOnce ==
  /\ \A t \in Calls \ Throwing :
       /\ Len(replies[t]) <= 1 /\ Len(afters[t]) <= 1
       /\ stage[t] = "over" => /\ Len(afters[t]) = 1
                               /\ kind[t] = "async" /\ t \in Watched => Len(replies[t]) = 1
  /\ \A t \in Calls : replies[t] \in {<<>>, <<"ok">>, <<"error">>, <<"refused">>, <<"ok", "error">>}
  /\ dtor = "done" => \A t \in Pool!Elems(accepted) : stage[t] = "over"

(* The same promise for every call, throwing callbacks included.           *)
CompletesOnce == \A t \in Calls : Len(replies[t]) <= 1

(* BeforeLLM and AfterLLM of a call meet at one manager under one call_id, *)
(* although set_hooks may replace the manager in between; no two calls     *)
(* share a call_id there; each report to on_complete is preceded by an     *)
(* AfterLLM of its own; and that of an asynchronous call is fired by a     *)
(* worker, as llm.h:95 has it, except when the pool refused the call.      *)
SpansPaired ==
  \A t \in Calls :
    /\ \A i \in DOMAIN afters[t] : <<afters[t][i][1], afters[t][i][2]>> = span[t]
    /\ span[t] # None => \A u \in Calls \ {t} : span[u] # span[t]
    /\ Len(afters[t]) - Len(replies[t]) \in
         IF kind[t] = "async" /\ t \in Watched THEN (IF stage[t] = "fired" THEN {1} ELSE {0}) ELSE {0, 1}
    /\ kind[t] = "async" /\ t \notin refused => \A i \in DOMAIN afters[t] : afters[t][i][3] \in Workers

(* Every call that was entered comes to its end, also when the pool is     *)
(* destroyed while it is queued.  The one exception is a caller that       *)
(* reaches submit() only after the static pool is gone, which is undefined.*)
TooLate(t) == stage[t] = "before" /\ kind[t] = "async" /\ dtor = "done"
CallsEnd == \A t \in Calls : stage[t] # "idle" ~> stage[t] = "over" \/ TooLate(t)
=============================================================================

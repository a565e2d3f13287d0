------------------------------- MODULE Broadcast -------------------------------
(***************************************************************************)
(* The three observer lists of the library: util::Signal (removal by id),  *)
(* util::EventBus (removal by id, delivery by topic) and hook::HookManager *)
(* (removal by name, delivery by phase).  All three copy the list under    *)
(* mu_ and call the copies without it, so that an observer may change the  *)
(* list, or emit again, while it is called; what it throws is swallowed.   *)
(* An EventBus filters while it copies, a HookManager while it calls.      *)
(*                                                                         *)
(* Scoped is a set of ScopedConnection objects, used with a Signal only.   *)
(***************************************************************************)
EXTENDS Naturals, SequencesExt

CONSTANTS Threads, Keys, AnyKey, Scoped, MaxIds, MaxDepth

Classes == {"signal", "bus", "hooks"}
Ids == 1..MaxIds

VARIABLES
  class,    \* which of the three
  slots,    \* slots_, entries_ or hooks_: a sequence of [id, key]
  nextId,   \* next_id_; for a HookManager, which has no ids, a history
  calls,    \* per thread, the emissions it is in, innermost first: what is still to be
            \* called, what was called, and, as history, the ids that were there at its
            \* start and of them those that stayed
  conn,     \* per ScopedConnection, its id or 0
  scoped    \* ids that were given to a ScopedConnection and not removed otherwise

vars == <<class, slots, nextId, calls, conn, scoped>>

Observer == [id : Ids, key : Keys \cup {AnyKey}]
IdsOf(s) == {s[i].id : i \in DOMAIN s}

\* The elements of s that are in S, in their order.
Only(s, S) ==
  LET only[n \in 0..Len(s)] ==
        IF n = 0 THEN <<>> ELSE IF s[n] \in S THEN Append(only[n - 1], s[n]) ELSE only[n - 1]
  IN  only[Len(s)]

Init ==
  /\ class \in Classes
  /\ slots = <<>>
  /\ nextId = 0
  /\ calls = [t \in Threads |-> <<>>]
  /\ conn = [c \in Scoped |-> 0]
  /\ scoped = {}

(* Whether observer e hears what is emitted under key k: a hook without    *)
(* phases wants all of them.                                               *)
Wants(e, k) == class = "signal" \/ e.key = k \/ (class = "hooks" /\ e.key = AnyKey)

(* The list becomes s; running emissions remember who stayed.              *)
ChangeTo(s) ==
  /\ slots' = s
  /\ calls' = [t \in Threads |-> [i \in DOMAIN calls[t] |->
       [calls[t][i] EXCEPT !.steady = @ \cap IdsOf(s)]]]
  /\ UNCHANGED class

\* Mutation: the id is the length of the list.
ConnectNumbered(k) ==
  /\ nextId < MaxIds
  /\ nextId' = nextId + 1
  /\ ChangeTo(Append(slots, [id |-> Len(slots) + 1, key |-> k]))

Connect(k) ==
  /\ nextId < MaxIds
  /\ nextId' = nextId + 1
  /\ ChangeTo(Append(slots, [id |-> nextId + 1, key |-> k]))

Add(k) ==
  /\ IF class = "signal" THEN k = AnyKey ELSE class = "hooks" \/ k \in Keys
  /\ Connect(k)
  /\ UNCHANGED <<conn, scoped>>

Without(id) == Only(slots, {e \in Observer : e.id # id})

(* disconnect and unsubscribe by whoever knows the id.                     *)
Disconnect(id) ==
  /\ class # "hooks" /\ id \in IdsOf(slots)
  /\ ChangeTo(Without(id))
  /\ scoped' = scoped \ {id}
  /\ UNCHANGED <<nextId, conn>>

(* HookManager::remove takes every hook of the name: the name of a hook is *)
(* its key here.                                                           *)
RemoveNamed(k) ==
  /\ class = "hooks" /\ \E i \in DOMAIN slots : slots[i].key = k
  /\ ChangeTo(Only(slots, {e \in Observer : e.key # k}))
  /\ UNCHANGED <<nextId, conn, scoped>>

Clear ==
  /\ slots # <<>>
  /\ ChangeTo(<<>>)
  /\ scoped' = {}
  /\ UNCHANGED <<nextId, conn>>

-----------------------------------------------------------------------------
(* ScopedConnection.                                                       *)

ConnectScoped(c) ==
  /\ class = "signal" /\ conn[c] = 0
  /\ Connect(AnyKey)
  /\ conn' = [conn EXCEPT ![c] = nextId + 1]
  /\ scoped' = scoped \cup {nextId + 1}

\* Mutation: the moved-from connection keeps its id.
MoveCopies(c, d) ==
  /\ conn[c] # 0 /\ c # d
  /\ ChangeTo(Without(conn[d]))
  /\ conn' = [conn EXCEPT ![d] = conn[c]]
  /\ UNCHANGED <<nextId, scoped>>

Reset(c) ==
  /\ conn[c] # 0
  /\ ChangeTo(Without(conn[c]))
  /\ conn' = [conn EXCEPT ![c] = 0]
  /\ UNCHANGED <<nextId, scoped>>

(* d = std::move(c).                                                       *)
Move(c, d) ==
  /\ conn[c] # 0 /\ c # d
  /\ ChangeTo(Without(conn[d]))
  /\ conn' = [conn EXCEPT ![d] = conn[c], ![c] = 0]
  /\ UNCHANGED <<nextId, scoped>>

-----------------------------------------------------------------------------
(* emit, publish and fire.                                                 *)

Copied(k) == Only(slots, {e \in Observer : class = "hooks" \/ Wants(e, k)})

Emission(k) ==
  LET heard == {slots[i].id : i \in {j \in DOMAIN slots : Wants(slots[j], k)}}
  IN [key |-> k, rest |-> Copied(k), seen |-> <<>>, start |-> heard, steady |-> heard]

Emit(t, k) ==
  /\ Len(calls[t]) < MaxDepth
  /\ calls' = [calls EXCEPT ![t] = <<Emission(k)>> \o @]
  /\ UNCHANGED <<class, slots, nextId, conn, scoped>>

\* Mutation: the first observer that throws ends the emission.
DeliverOrThrow(t) ==
  /\ calls[t] # <<>> /\ calls[t][1].rest # <<>>
  /\ LET e == Head(calls[t][1].rest)
     IN \E rest \in {<<>>, Tail(calls[t][1].rest)} :
          calls' = [calls EXCEPT ![t][1].rest = rest,
                                 ![t][1].seen = IF Wants(e, calls[t][1].key) THEN Append(@, e.id) ELSE @]
  /\ UNCHANGED <<class, slots, nextId, conn, scoped>>

(* The next observer of the copy is called, if it wants the event.         *)
Deliver(t) ==
  /\ calls[t] # <<>> /\ calls[t][1].rest # <<>>
  /\ LET e == Head(calls[t][1].rest)
     IN calls' = [calls EXCEPT ![t][1].rest = Tail(@),
                               ![t][1].seen = IF Wants(e, calls[t][1].key) THEN Append(@, e.id) ELSE @]
  /\ UNCHANGED <<class, slots, nextId, conn, scoped>>

EmitReturns(t) ==
  /\ calls[t] # <<>> /\ calls[t][1].rest = <<>>
  /\ calls' = [calls EXCEPT ![t] = Tail(@)]
  /\ UNCHANGED <<class, slots, nextId, conn, scoped>>

Step(t) == Deliver(t) \/ EmitReturns(t)

(* Any thread changes the list at any time, an observer inside its call    *)
(* included.                                                               *)
Change ==
  \/ \E k \in Keys \cup {AnyKey} : Add(k)
  \/ \E id \in Ids : Disconnect(id)
  \/ \E k \in Keys : RemoveNamed(k)
  \/ Clear
  \/ \E c \in Scoped : ConnectScoped(c) \/ Reset(c)
  \/ \E c, d \in Scoped : Move(c, d)

Next == Change \/ \E t \in Threads : Step(t) \/ \E k \in Keys : Emit(t, k)

Spec == Init /\ [][Next]_vars

-----------------------------------------------------------------------------
(* Whatever happens to the list meanwhile and whatever observers throw, an *)
(* emission calls observers in the order they were added, none twice, none *)
(* that was added after it began and, before it returns, every one that    *)
(* stayed.  A slot that a ScopedConnection was given is there as long as a *)
(* connection holds it and nobody else removed it, and gone when none does.*)
EmissionExact ==
  /\ \A t \in Threads, i \in 1..MaxDepth : i \in DOMAIN calls[t] =>
       LET c == calls[t][i] IN
         /\ \A j \in DOMAIN c.seen : \A h \in 1..(j - 1) : c.seen[h] < c.seen[j]
         /\ ToSet(c.seen) \subseteq c.start
         /\ c.rest = <<>> => c.steady \subseteq ToSet(c.seen)
  /\ \A id \in scoped : id \in IdsOf(slots) <=> \E c \in Scoped : conn[c] = id
=============================================================================

---------------------------- MODULE ConversationLog ----------------------------
(***************************************************************************)
(* What a persistent conversation memory promises (IMemory in              *)
(* src/include/memory/memory.h, sessions added): each session is a log, a  *)
(* message is appended to one of them, and clear() empties one of them.    *)
(***************************************************************************)
EXTENDS Sequences

CONSTANTS Sessions, Line

VARIABLE stored   \* per session, the messages a reader finds

Init == stored = [s \in Sessions |-> <<>>]

AddTo(s) == \E l \in Line : stored' = [stored EXCEPT ![s] = Append(@, l)]
ClearOf(s) == stored' = [stored EXCEPT ![s] = <<>>]

Next == \E s \in Sessions : AddTo(s) \/ ClearOf(s)
Spec == Init /\ [][Next]_stored
=============================================================================

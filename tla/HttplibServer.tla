----------------------------- MODULE HttplibServer -----------------------------
(***************************************************************************)
(* What ApiServer and McpServer use of httplib::Server: the listening      *)
(* socket, the flag is_running_, and is_decommissioned, which a failed     *)
(* bind sets and stop() resets.  This is vendored code, modelled from how  *)
(* the two servers call it.                                                *)
(***************************************************************************)
VARIABLES
  sock,            \* svr_sock_: "closed" (INVALID_SOCKET) or "open"
  listening,       \* is_running_: listen_internal is between its two ends
  decommissioned   \* is_decommissioned

httplib == <<sock, listening, decommissioned>>

HttplibTypeOK ==
  /\ sock \in {"closed", "open"}
  /\ listening \in BOOLEAN
  /\ decommissioned \in BOOLEAN

HttplibInit ==
  /\ sock = "closed"
  /\ listening = FALSE
  /\ decommissioned = FALSE

Binds(free) ==
  /\ free /\ ~decommissioned
  /\ sock' = "open"
  /\ UNCHANGED <<listening, decommissioned>>

BindFails(free) ==
  /\ ~free \/ decommissioned
  /\ decommissioned' = TRUE
  /\ UNCHANGED <<sock, listening>>

ListenEnters ==
  /\ ~decommissioned
  /\ listening' = TRUE
  /\ UNCHANGED <<sock, decommissioned>>

(* The accept loop ends when stop() has closed the socket.                 *)
ListenReturns ==
  /\ listening /\ sock = "closed"
  /\ listening' = FALSE
  /\ decommissioned' = FALSE
  /\ UNCHANGED sock

(* stop() closes the socket of a server that listens and does nothing to   *)
(* one that is only bound.                                                 *)
SvrStop ==
  /\ sock' = IF listening THEN "closed" ELSE sock
  /\ decommissioned' = FALSE
  /\ UNCHANGED listening

(* What stop() asserts when it finds is_running_ set.                      *)
StopAsserts == listening => sock = "open"
=============================================================================

----------------------------- MODULE ClientConfig -----------------------------
(***************************************************************************)
(* api/client.cpp: an AIClient that threads share.  It and its HttpClient  *)
(* keep a copy of the configuration each, behind a mutex each; a call      *)
(* reads the model from the first and, one after the other, the base URL,  *)
(* the timeouts and the headers from the second.  The URL is read without  *)
(* the mutex.  A configuration is the number of the set_config that gave   *)
(* it; reading one while it is assigned gives either, or neither.          *)
(***************************************************************************)
EXTENDS Naturals, FiniteSets

CONSTANTS
  Users,        \* threads
  Torn,         \* a value that is no configuration's
  Free,         \* a mutex nobody holds
  MaxConfigs

ASSUME ConfigAssumption == Free \notin Users /\ MaxConfigs \in Nat \ {0}

VARIABLES
  cfg,          \* AIClient::Impl::cfg
  httpCfg,      \* HttpClient::Impl::cfg
  mu, httpMu,   \* their mutexes: the thread that holds it, or Free
  ustep,        \* where each thread is
  used          \* what the call of each thread has read

vars == <<cfg, httpCfg, mu, httpMu, ustep, used>>

Nothing == [model |-> 0, url |-> 0, timeouts |-> 0, key |-> 0]

\* AIClient::Impl: both copies are of the configuration it was made with.
Init ==
  /\ cfg = 1 /\ httpCfg = 1 /\ mu = Free /\ httpMu = Free
  /\ ustep = [u \in Users |-> "idle"]
  /\ used = [u \in Users |-> Nothing]

Go(u, from, to) == ustep[u] = from /\ ustep' = [ustep EXCEPT ![u] = to]

-----------------------------------------------------------------------------
\* Mutation: mu is given back before the HttpClient has the configuration.
SetConfigUnlocked(u) ==
  /\ Go(u, "idle", "set") /\ mu = Free /\ cfg < MaxConfigs
  /\ cfg' = cfg + 1
  /\ UNCHANGED <<httpCfg, mu, httpMu, used>>

\* AIClient::set_config holds mu until HttpClient::set_config has returned.
SetConfig(u) ==
  /\ Go(u, "idle", "set") /\ mu = Free /\ cfg < MaxConfigs
  /\ mu' = u /\ cfg' = cfg + 1
  /\ UNCHANGED <<httpCfg, httpMu, used>>

AssignBegins(u) ==
  /\ Go(u, "set", "assigning") /\ httpMu = Free
  /\ httpMu' = u
  /\ UNCHANGED <<cfg, httpCfg, mu, used>>

AssignEnds(u) ==
  /\ Go(u, "assigning", "idle")
  /\ httpCfg' = cfg /\ httpMu' = Free /\ mu' = Free
  /\ UNCHANGED <<cfg, used>>

-----------------------------------------------------------------------------
Read(u, field, value) == used' = [used EXCEPT ![u][field] = value] /\ UNCHANGED <<cfg, httpCfg, mu, httpMu>>

\* invoke and invoke_stream: effective_model, under mu.
EffectiveModel(u) == Go(u, "idle", "called") /\ mu = Free /\ Read(u, "model", cfg)

\* request and stream_post: split_base_url(impl_->cfg.base_url), under no lock.
Assigning == \E w \in Users : ustep[w] = "assigning"
ReadUrl(u) ==
  /\ Go(u, "called", "split")
  /\ \E value \in IF Assigning THEN {httpCfg, cfg, Torn} ELSE {httpCfg} : Read(u, "url", value)

MakeClient(u)   == Go(u, "split", "made") /\ httpMu = Free /\ Read(u, "timeouts", httpCfg)
BuildHeaders(u) == Go(u, "made", "sent") /\ httpMu = Free /\ Read(u, "key", httpCfg)

\* The answer is there, or none is, which is status 0.
Answered(u) ==
  /\ Go(u, "sent", "idle")
  /\ used' = [used EXCEPT ![u] = Nothing]
  /\ UNCHANGED <<cfg, httpCfg, mu, httpMu>>

Next ==
  \E u \in Users :
    SetConfig(u) \/ AssignBegins(u) \/ AssignEnds(u)
      \/ EffectiveModel(u) \/ ReadUrl(u) \/ MakeClient(u) \/ BuildHeaders(u) \/ Answered(u)

Spec == Init /\ [][Next]_vars

-----------------------------------------------------------------------------
TypeOK ==
  /\ cfg \in 1..MaxConfigs /\ httpCfg \in 1..MaxConfigs
  /\ mu \in Users \cup {Free} /\ httpMu \in Users \cup {Free}
  /\ ustep \in [Users -> {"idle", "set", "assigning", "called", "split", "made", "sent"}]
  /\ used \in [Users -> [model : 0..MaxConfigs, url : 0..MaxConfigs \cup {Torn}, timeouts : 0..MaxConfigs, key : 0..MaxConfigs]]

(* A request takes nothing from a configuration that is older than one it  *)
(* has used already: what is read later is as new or newer, the model      *)
(* first, then the timeouts and the key, and the URL, if it is one at all, *)
(* between them.  And a call that no set_config overlaps uses one only.    *)
NeverOlder ==
  \A u \in Users : ustep[u] = "sent" =>
    LET r == used[u]
    IN  /\ r.model <= r.timeouts /\ r.timeouts <= r.key
        /\ r.url # Torn => r.model <= r.url /\ r.url <= r.key
        /\ r.model = r.key => r.url = r.key

(* client.h:75: access to the configuration is thread-safe.                *)
UrlIsWhole == \A u \in Users : used[u].url # Torn
=============================================================================

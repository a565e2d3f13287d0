------------------------------ MODULE Coordinator ------------------------------
(***************************************************************************)
(* CoordinatorAgent::invoke: the registered agents run one after the       *)
(* other, each with the request and, if the configuration says so, with    *)
(* what the earlier ones produced.  A runner finishes, gives up or throws. *)
(***************************************************************************)
EXTENDS Naturals, SequencesExt

CONSTANT MaxAgents

Outcomes == {"finished", "unfinished", "error"}

VARIABLES
  size,                         \* how many agents are registered
  stopOnError, passPrevious,    \* the configuration
  cpc,                          \* "start", "running", "returned" or "threw"
  given,                        \* the agents whose outputs the runner that is called was given
  results,                      \* out.steps: [agent, given, outcome]
  allFinished                   \* out.finished

vars == <<size, stopOnError, passPrevious, cpc, given, results, allFinished>>

Results == [agent : 1..MaxAgents, given : Seq(1..MaxAgents), outcome : Outcomes]

(* Every variable keeps its type.                                          *)
TypeOK ==
  /\ size \in 0..MaxAgents /\ stopOnError \in BOOLEAN /\ passPrevious \in BOOLEAN
  /\ cpc \in {"start", "running", "returned", "threw"}
  /\ given \in Seq(1..MaxAgents)
  /\ results \in Seq(Results)
  /\ allFinished \in BOOLEAN

Init ==
  /\ size \in 0..MaxAgents /\ stopOnError \in BOOLEAN /\ passPrevious \in BOOLEAN
  /\ cpc = "start" /\ given = <<>> /\ results = <<>> /\ allFinished = TRUE

config == <<size, stopOnError, passPrevious>>

\* Mutation: only what finished is handed on.
BuildInputFinished(s) ==
  IF passPrevious THEN [i \in DOMAIN SelectSeq(s, LAMBDA r : r.outcome = "finished") |-> SelectSeq(s, LAMBDA r : r.outcome = "finished")[i].agent] ELSE <<>>

(* build_input names every earlier step, failed ones with their error.     *)
BuildInput(s) == IF passPrevious THEN [i \in DOMAIN s |-> s[i].agent] ELSE <<>>

Invoke ==
  /\ cpc = "start"
  /\ cpc' = IF size = 0 THEN "threw" ELSE "running"
  /\ given' = BuildInput(results)
  /\ UNCHANGED <<config, results, allFinished>>

\* Mutation: an agent that gives up without an exception counts as finished.
RunnerEndsKindly ==
  /\ cpc = "running"
  /\ \E o \in Outcomes :
       LET all == Append(results, [agent |-> Len(results) + 1, given |-> given, outcome |-> o])
       IN /\ results' = all
          /\ allFinished' = (allFinished /\ o # "error")
          /\ cpc' = IF Len(all) = size \/ (o = "error" /\ stopOnError) THEN "returned" ELSE "running"
          /\ given' = IF cpc' = "running" THEN BuildInput(all) ELSE <<>>
  /\ UNCHANGED config

(* The runner of the next agent returns or throws a std::exception.        *)
RunnerEnds ==
  /\ cpc = "running"
  /\ \E o \in Outcomes :
       LET all == Append(results, [agent |-> Len(results) + 1, given |-> given, outcome |-> o])
       IN /\ results' = all
          /\ allFinished' = (allFinished /\ o = "finished")
          /\ cpc' = IF Len(all) = size \/ (o # "finished" /\ stopOnError) THEN "returned" ELSE "running"
          /\ given' = IF cpc' = "running" THEN BuildInput(all) ELSE <<>>
  /\ UNCHANGED config

(* The runner throws something else, which nothing here catches.           *)
RunnerThrows ==
  /\ cpc = "running"
  /\ cpc' = "threw"
  /\ UNCHANGED <<config, given, results, allFinished>>

Next == Invoke \/ RunnerEnds \/ RunnerThrows

Spec == Init /\ [][Next]_vars

-----------------------------------------------------------------------------
(* A downstream agent is given the outputs of all the agents before it, in *)
(* the order of the registration, whether they finished or failed; one     *)
(* workflow that may not go on after an error ends at the first agent that *)
(* did not finish; and one that returns claims to be finished exactly if   *)
(* every registered agent ran and finished.                                *)
InputsChain ==
  /\ \A i \in DOMAIN results :
       /\ results[i].agent = i
       /\ results[i].given = IF passPrevious THEN [j \in 1..(i - 1) |-> j] ELSE <<>>
       /\ stopOnError /\ results[i].outcome # "finished" => i = Len(results) /\ cpc # "running"
  /\ cpc = "returned" =>
       allFinished = (Len(results) = size /\ \A i \in DOMAIN results : results[i].outcome = "finished")
=============================================================================

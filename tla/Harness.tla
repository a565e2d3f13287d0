-------------------------------- MODULE Harness --------------------------------
(***************************************************************************)
(* HarnessAgent::invoke: a runner's result is scored by a model; as long   *)
(* as the score is too low the runner gets another try with the critique,  *)
(* at most max_correction_iterations times; the result with the highest    *)
(* score is the answer.  The score is what std::stof makes of the model's  *)
(* text: a number, 0 for text without one, and NaN for "nan", with which   *)
(* every comparison is false.                                              *)
(***************************************************************************)
EXTENDS Naturals, SequencesExt

CONSTANTS MinScore, MaxScore, MaxCorrections

Numbers == 0..MaxScore
NaN == MaxScore + 1       \* stands for it; it is compared with Greater and Passes only
Scores == Numbers \cup {NaN}

VARIABLES
  hpc,            \* "start", "run", "evaluate", "choose", "evolve", "returned" or "threw"
  evolution,      \* enable_evolution, and there is a memory
  iterations,     \* the scores of trace.iterations
  corrections,    \* trace.correction_iterations
  best,           \* the index of the iteration that was chosen, or 0
  succeeded,      \* trace.succeeded
  learned         \* the scores evolve wrote to the memory, or <<>>

vars == <<hpc, evolution, iterations, corrections, best, succeeded, learned>>

(* Every variable keeps its type.                                          *)
TypeOK ==
  /\ hpc \in {"start", "run", "evaluate", "choose", "evolve", "returned", "threw"}
  /\ evolution \in BOOLEAN /\ succeeded \in BOOLEAN
  /\ iterations \in Seq(Scores) /\ learned \in Seq(Scores)
  /\ corrections \in 0..MaxCorrections
  /\ best \in 0..(MaxCorrections + 1)

Init ==
  /\ hpc = "start" /\ evolution \in BOOLEAN
  /\ iterations = <<>> /\ corrections = 0 /\ best = 0 /\ succeeded = FALSE /\ learned = <<>>

Passes(s) == s # NaN /\ s >= MinScore
Greater(a, b) == a # NaN /\ b # NaN /\ a > b

Invoke ==
  /\ hpc = "start" /\ hpc' = "run"
  /\ UNCHANGED <<evolution, iterations, corrections, best, succeeded, learned>>

RunnerReturns ==
  /\ hpc = "run" /\ hpc' = "evaluate"
  /\ UNCHANGED <<evolution, iterations, corrections, best, succeeded, learned>>

\* Mutation: the corrections are counted one too few.
EvaluateLonger ==
  /\ hpc = "evaluate"
  /\ \E s \in Scores :
       /\ iterations' = Append(iterations, s)
       /\ IF Passes(s) \/ corrections = MaxCorrections
            THEN hpc' = "choose" /\ UNCHANGED corrections
            ELSE hpc' = "run" /\ corrections' = IF iterations = <<>> THEN 0 ELSE corrections + 1
  /\ UNCHANGED <<evolution, best, succeeded, learned>>

(* evaluate, and the condition of the correction loop.                     *)
Evaluate ==
  /\ hpc = "evaluate"
  /\ \E s \in Scores :
       /\ iterations' = Append(iterations, s)
       /\ IF Passes(s) \/ corrections = MaxCorrections
            THEN hpc' = "choose" /\ UNCHANGED corrections
            ELSE hpc' = "run" /\ corrections' = corrections + 1
  /\ UNCHANGED <<evolution, best, succeeded, learned>>

\* Mutation: the last result is the answer.
ChooseLast ==
  /\ hpc = "choose" /\ hpc' = "evolve"
  /\ best' = Len(iterations)
  /\ succeeded' = Passes(iterations[Len(iterations)])
  /\ UNCHANGED <<evolution, iterations, corrections, learned>>

(* The scan over the iterations: the first with the highest score.        *)
Chosen ==
  LET scan[n \in 0..Len(iterations)] ==
        IF n = 0 THEN 1 ELSE IF Greater(iterations[n], iterations[scan[n - 1]]) THEN n ELSE scan[n - 1]
  IN  scan[Len(iterations)]

Choose ==
  /\ hpc = "choose" /\ hpc' = "evolve"
  /\ best' = Chosen
  /\ succeeded' = Passes(iterations[Chosen])
  /\ UNCHANGED <<evolution, iterations, corrections, learned>>

Evolve ==
  /\ hpc = "evolve" /\ hpc' = "returned"
  /\ learned' = IF evolution THEN iterations ELSE <<>>
  /\ UNCHANGED <<evolution, iterations, corrections, best, succeeded>>

(* The runner, the evaluating model or the memory throws.                  *)
Fails ==
  /\ hpc \in {"run", "evaluate", "evolve"} /\ hpc' = "threw"
  /\ UNCHANGED <<evolution, iterations, corrections, best, succeeded, learned>>

Next == Invoke \/ RunnerReturns \/ Evaluate \/ Choose \/ Evolve \/ Fails

Spec == Init /\ [][Next]_vars

-----------------------------------------------------------------------------
(* Unless the first score is NaN, the answer is the earliest with the      *)
(* highest score, and the run succeeded exactly if its last result passed: *)
(* no corrected result is worse for the caller than the one it corrects.   *)
(* (harness.h has succeeded "true if final check passed or max iter        *)
(* reached"; it is false when the tries run out, as a test expects.)       *)
(* A result that passed is never sent back for correction, one that did    *)
(* not is while tries are left; what is learned is all of them.            *)
BestIsAnswer ==
  /\ hpc \in {"evolve", "returned"} /\ iterations[1] # NaN =>
       /\ \A i \in DOMAIN iterations : ~Greater(iterations[i], iterations[best])
       /\ \A i \in 1..(best - 1) : iterations[i] # iterations[best]
       /\ succeeded = Passes(Last(iterations))
  /\ Len(iterations) <= MaxCorrections + 1
  /\ \A i \in DOMAIN iterations : Passes(iterations[i]) => i = Len(iterations)
  /\ hpc = "returned" => Len(iterations) = MaxCorrections + 1 \/ Passes(Last(iterations))
  /\ learned # <<>> => evolution /\ learned = iterations
=============================================================================

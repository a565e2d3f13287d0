------------------------------ MODULE LoopsProofs ------------------------------
(***************************************************************************)
(* The steps of the clients of Loops, for any number of threads,           *)
(* configurations, agents, iterations, calls in an answer and tries.  Each *)
(* client has an inductive invariant, of parts that are kept one by one;   *)
(* the properties of its module follow from it.  The theorems about the    *)
(* shared client are here, those about the others, whose specification is  *)
(* MCClients, in ClientsProofs.                                            *)
(***************************************************************************)
EXTENDS Loops, SequenceFacts, FiniteSetTheorems

(* The shared client.  NeverOlder is about a request that has read all its *)
(* fields; it is not inductive, for it does not say what the fields read   *)
(* so far are compared with while set_config is between the two copies.    *)
Setting == {"set", "assigning"}

\* The mutexes say who is inside set_config, and with it how far the copy of
\* the HttpClient is behind.
LockInv ==
  /\ \A u \in Users : (ustep[u] \in Setting) = (mu = u)
  /\ \A u \in Users : (ustep[u] = "assigning") = (httpMu = u)
  /\ IF mu = Free THEN httpCfg = cfg ELSE httpCfg < cfg

\* What the HttpClient has when its mutex is free again.
Soon == IF Assigning THEN cfg ELSE httpCfg

\* A URL is one of a configuration between the model's and k, or torn by an
\* assignment of a newer one than the model's.
UrlBetween(r, k) ==
  \/ r.url \in Nat /\ r.model <= r.url /\ r.url <= k
  \/ r.url = Torn /\ r.model < k

\* Where a request is, what it has read so far is in order, and no newer than
\* what it will read next.
InOrder(u) ==
  LET r == used[u] IN
    /\ ustep[u] = "called" => r.model <= httpCfg
    /\ ustep[u] = "split" => r.model <= httpCfg /\ UrlBetween(r, Soon)
    /\ ustep[u] = "made" => r.model <= r.timeouts /\ r.timeouts <= httpCfg /\ UrlBetween(r, httpCfg)
    /\ ustep[u] = "sent" => r.model <= r.timeouts /\ r.timeouts <= r.key /\ UrlBetween(r, r.key)

ReadInv == \A u \in Users : InOrder(u)

Reads(u) == EffectiveModel(u) \/ ReadUrl(u) \/ MakeClient(u) \/ BuildHeaders(u) \/ Answered(u)

-----------------------------------------------------------------------------
LEMMA TypeKept == TypeOK /\ [Next]_vars => TypeOK'
<1> SUFFICES ASSUME TypeOK, [Next]_vars PROVE TypeOK'
  OBVIOUS
<1> USE ConfigAssumption DEF TypeOK, Go
<1>1. ASSUME NEW u \in Users, SetConfig(u) PROVE TypeOK'
  BY <1>1 DEF SetConfig
<1>2. ASSUME NEW u \in Users, AssignBegins(u) PROVE TypeOK'
  BY <1>2 DEF AssignBegins
<1>3. ASSUME NEW u \in Users, AssignEnds(u) PROVE TypeOK'
  BY <1>3 DEF AssignEnds
<1>4. ASSUME NEW u \in Users, EffectiveModel(u) PROVE TypeOK'
  BY <1>4 DEF EffectiveModel, Read
<1>5. ASSUME NEW u \in Users, ReadUrl(u) PROVE TypeOK'
  BY <1>5 DEF ReadUrl, Read
<1>6. ASSUME NEW u \in Users, MakeClient(u) \/ BuildHeaders(u) PROVE TypeOK'
  BY <1>6 DEF MakeClient, BuildHeaders, Read
<1>7. ASSUME NEW u \in Users, Answered(u) PROVE TypeOK'
  BY <1>7 DEF Answered, Nothing
<1>8. CASE UNCHANGED vars
  BY <1>8 DEF vars
<1> QED BY <1>1, <1>2, <1>3, <1>4, <1>5, <1>6, <1>7, <1>8 DEF Next

LEMMA LockKept == TypeOK /\ LockInv /\ [Next]_vars => LockInv'
<1> SUFFICES ASSUME TypeOK, LockInv, [Next]_vars PROVE LockInv'
  OBVIOUS
<1> USE ConfigAssumption DEF TypeOK, LockInv, Setting, Go
<1>1. ASSUME NEW u \in Users, SetConfig(u) PROVE LockInv'
  BY <1>1 DEF SetConfig
<1>2. ASSUME NEW u \in Users, AssignBegins(u) PROVE LockInv'
  BY <1>2 DEF AssignBegins
<1>3. ASSUME NEW u \in Users, AssignEnds(u) PROVE LockInv'
  BY <1>3 DEF AssignEnds
<1>4. ASSUME NEW u \in Users, Reads(u) PROVE LockInv'
  BY <1>4 DEF Reads, EffectiveModel, ReadUrl, MakeClient, BuildHeaders, Answered, Read
<1>5. CASE UNCHANGED vars
  BY <1>5 DEF vars
<1> QED BY <1>1, <1>2, <1>3, <1>4, <1>5 DEF Next, Reads

\* A thread that assigns holds both mutexes: nobody else does, and the copy
\* is behind.
LEMMA OneAssigns ==
  ASSUME TypeOK, LockInv
  PROVE  /\ Assigning => httpMu # Free /\ httpCfg < cfg
         /\ httpMu = Free => Soon = httpCfg
         /\ httpCfg <= Soon /\ Soon <= cfg /\ Soon \in Nat
BY ConfigAssumption DEF TypeOK, LockInv, Setting, Assigning, Soon

\* Nothing that is read gets newer than what is there: steps of set_config.
LEMMA CopiesGrow ==
  ASSUME TypeOK, LockInv, NEW u \in Users, SetConfig(u) \/ AssignBegins(u) \/ AssignEnds(u)
  PROVE  httpCfg <= httpCfg' /\ Soon <= Soon'
<1> USE ConfigAssumption DEF TypeOK, LockInv, Setting, Go, Assigning, Soon
<1>1. CASE SetConfig(u)
  BY <1>1 DEF SetConfig
<1>2. CASE AssignBegins(u)
  BY <1>2 DEF AssignBegins
<1>3. CASE AssignEnds(u)
  BY <1>3 DEF AssignEnds
<1> QED BY <1>1, <1>2, <1>3

\* A step of one request leaves what the others compare with.
LEMMA OthersUndisturbed ==
  ASSUME TypeOK, NEW u \in Users, Reads(u)
  PROVE  /\ httpCfg' = httpCfg /\ Soon' = Soon
         /\ \A w \in Users \ {u} : ustep'[w] = ustep[w] /\ used'[w] = used[w]
BY DEF Reads, EffectiveModel, ReadUrl, MakeClient, BuildHeaders, Answered, Read, Go, TypeOK, Soon, Assigning

LEMMA ReadKept ==
  TypeOK /\ LockInv /\ ReadInv /\ [Next]_vars => ReadInv'
<1> SUFFICES ASSUME TypeOK, LockInv, ReadInv, [Next]_vars PROVE ReadInv'
  OBVIOUS
<1>t. TypeOK' /\ LockInv'
  BY TypeKept, LockKept
<1>s. Soon \in Nat /\ Soon' \in Nat /\ httpCfg \in Nat /\ httpCfg' \in Nat /\ cfg \in Nat
  BY <1>t DEF TypeOK, Soon
<1>1. ASSUME NEW u \in Users, SetConfig(u) \/ AssignBegins(u) \/ AssignEnds(u) PROVE ReadInv'
  <2>1. httpCfg <= httpCfg' /\ Soon <= Soon'
    BY <1>1, CopiesGrow
  <2>2. used' = used /\ \A w \in Users : ustep'[w] \in {"called", "split", "made", "sent"} => ustep'[w] = ustep[w]
    BY <1>1 DEF SetConfig, AssignBegins, AssignEnds, Go, TypeOK
  <2> QED BY <2>1, <2>2, <1>s DEF ReadInv, InOrder, UrlBetween, TypeOK
<1>2. ASSUME NEW u \in Users, Reads(u) PROVE ReadInv'
  <2>1. ASSUME NEW w \in Users \ {u} PROVE InOrder(w)'
    BY <2>1, <1>2, OthersUndisturbed DEF ReadInv, InOrder, UrlBetween
  <2> SUFFICES InOrder(u)'
    BY <2>1 DEF ReadInv
  <2>2. Soon' = Soon /\ httpCfg' = httpCfg
    BY <1>2, OthersUndisturbed
  <2>3. CASE EffectiveModel(u)
    BY <2>3, <1>s DEF EffectiveModel, Go, Read, InOrder, TypeOK, LockInv
  <2>4. CASE ReadUrl(u)
    <3>1. PICK value \in IF Assigning THEN {httpCfg, cfg, Torn} ELSE {httpCfg} : Read(u, "url", value)
      BY <2>4 DEF ReadUrl
    <3>2. used[u].model <= httpCfg /\ ustep[u] = "called" /\ ustep'[u] = "split"
      BY <2>4 DEF ReadUrl, Go, ReadInv, InOrder, TypeOK
    <3>3. used'[u].url = value /\ used'[u].model = used[u].model /\ used[u].model \in Nat
      BY <3>1 DEF Read, TypeOK
    <3>4. UrlBetween(used'[u], Soon)
      BY <3>1, <3>2, <3>3, <1>s, OneAssigns DEF UrlBetween, Soon
    <3> QED BY <3>2, <3>3, <3>4, <2>2 DEF InOrder, UrlBetween
  <2>5. CASE MakeClient(u)
    BY <2>5, <2>2, <1>s, OneAssigns DEF MakeClient, Go, Read, ReadInv, InOrder, UrlBetween, TypeOK
  <2>6. CASE BuildHeaders(u)
    BY <2>6, <2>2, <1>s DEF BuildHeaders, Go, Read, ReadInv, InOrder, UrlBetween, TypeOK
  <2>7. CASE Answered(u)
    BY <2>7 DEF Answered, Go, InOrder, TypeOK
  <2> QED BY <1>2, <2>3, <2>4, <2>5, <2>6, <2>7 DEF Reads
<1>3. CASE UNCHANGED vars
  BY <1>3 DEF vars, ReadInv, InOrder, UrlBetween, Soon, Assigning
<1> QED BY <1>1, <1>2, <1>3 DEF Next, Reads

-----------------------------------------------------------------------------
\* Every variable of the shared client keeps its type.
THEOREM TypeCorrect == Spec => []TypeOK
<1>1. Init => TypeOK
  BY ConfigAssumption DEF Init, TypeOK, Nothing
<1>2. TypeOK /\ [Next]_vars => TypeOK'
  BY TypeKept
<1> QED BY <1>1, <1>2, PTL DEF Spec

\* A request of AIClient uses no configuration older than one it has used
\* already, and one only if no set_config comes between, for any number of
\* threads that share the client and of configurations it is given.
THEOREM RequestsNeverOlder == Spec => []NeverOlder
<1> DEFINE Inv == TypeOK /\ LockInv /\ ReadInv
<1>1. Init => Inv
  BY ConfigAssumption DEF Init, TypeOK, LockInv, ReadInv, InOrder, Setting, Nothing
<1>2. Inv /\ [Next]_vars => Inv'
  BY TypeKept, LockKept, ReadKept
<1>3. Inv => NeverOlder
  BY DEF TypeOK, ReadInv, InOrder, UrlBetween, NeverOlder
<1> QED BY <1>1, <1>2, <1>3, PTL DEF Spec

-----------------------------------------------------------------------------
(* The coordinator.  What the next runner is given names every agent that  *)
(* has run; a run that is not over has no reason to be.                    *)
Earlier(n) == IF passPrevious THEN [j \in 1..n |-> j] ELSE <<>>

CoordTypes ==
  /\ size \in Nat /\ stopOnError \in BOOLEAN /\ passPrevious \in BOOLEAN
  /\ results \in Seq([agent : Nat, given : Seq(Nat), outcome : Coord!Outcomes])

CoordInv ==
  /\ CoordTypes
  /\ Coord!InputsChain
  /\ Len(results) <= size
  /\ cpc = "start" => results = <<>>
  /\ cpc = "running" => given = Earlier(Len(results)) /\ Len(results) < size
  /\ allFinished = \A i \in DOMAIN results : results[i].outcome = "finished"

LEMMA CoordStarts == Coord!Init => CoordInv
BY ClientsAssumption DEF Coord!Init, CoordInv, CoordTypes, Coord!InputsChain

LEMMA CoordStep == CoordInv /\ [Coord!Next]_coordVars => CoordInv'
<1> SUFFICES ASSUME CoordInv, [Coord!Next]_coordVars PROVE CoordInv'
  OBVIOUS
<1>1. CASE Coord!Invoke
  <2>1. UNCHANGED <<size, stopOnError, passPrevious, results, allFinished>> /\ results = <<>> /\ given' = Earlier(0)
    BY <1>1 DEF Coord!Invoke, Coord!config, CoordInv, Coord!BuildInput, Earlier
  <2>2. cpc' = IF size = 0 THEN "threw" ELSE "running"
    BY <1>1 DEF Coord!Invoke
  <2> QED BY <2>1, <2>2 DEF CoordInv, CoordTypes, Coord!InputsChain, Earlier
<1>2. CASE Coord!RunnerEnds
  <2>1. PICK o \in Coord!Outcomes :
          LET run == Append(results, [agent |-> Len(results) + 1, given |-> given, outcome |-> o])
          IN /\ results' = run
             /\ allFinished' = (allFinished /\ o = "finished")
             /\ cpc' = IF Len(run) = size \/ (o # "finished" /\ stopOnError) THEN "returned" ELSE "running"
             /\ given' = IF cpc' = "running" THEN Coord!BuildInput(run) ELSE <<>>
    BY <1>2, Zenon DEF Coord!RunnerEnds
  <2> DEFINE n == Len(results)
             r == [agent |-> n + 1, given |-> given, outcome |-> o]
             T == [agent : Nat, given : Seq(Nat), outcome : Coord!Outcomes]
  <2>2. UNCHANGED <<size, stopOnError, passPrevious>> /\ cpc = "running"
    BY <1>2 DEF Coord!RunnerEnds, Coord!config
  <2>3. n \in Nat /\ n < size /\ given = Earlier(n) /\ given \in Seq(Nat) /\ r \in T
    <3>1. n \in Nat /\ n < size /\ given = Earlier(n) /\ size \in Nat
      BY <2>2 DEF CoordInv, CoordTypes
    <3>2. [j \in 1..n |-> j] \in Seq(Nat) /\ <<>> \in Seq(Nat)
      BY <3>1
    <3>3. given \in Seq(Nat)
      BY <3>1, <3>2 DEF Earlier
    <3> HIDE DEF n
    <3>4. r \in T
      BY <3>1, <3>3
    <3> QED BY <3>1, <3>3, <3>4
  <2>4. /\ results' \in Seq(T) /\ Len(results') = n + 1 /\ results'[n + 1] = r
        /\ DOMAIN results = 1..n /\ DOMAIN results' = 1..(n + 1)
        /\ \A i \in 1..n : results'[i] = results[i]
    BY <2>1, <2>3 DEF CoordInv, CoordTypes
  <2> HIDE DEF n
  <2>5. \A i \in 1..(n + 1) : i \in 1..n \/ i = n + 1
    BY <2>3
  <2>6. \A i \in 1..(n + 1) : results'[i].agent = i /\ results'[i].given = Earlier(i - 1)
    <3>1. r.agent = n + 1 /\ r.given = Earlier((n + 1) - 1)
      BY <2>3
    <3>2. \A i \in 1..n : results[i].agent = i /\ results[i].given = Earlier(i - 1)
      BY <2>4 DEF CoordInv, Coord!InputsChain, Earlier
    <3> HIDE DEF r
    <3> QED BY <2>4, <2>5, <3>1, <3>2
  <2>7. stopOnError => \A i \in 1..n : results[i].outcome = "finished"
    BY <2>2, <2>3, <2>4 DEF CoordInv, Coord!InputsChain
  <2>8. allFinished' = \A i \in 1..(n + 1) : results'[i].outcome = "finished"
    <3>1. allFinished' = (allFinished /\ r.outcome = "finished")
      BY <2>1
    <3> HIDE DEF r
    <3>2. allFinished = \A i \in 1..n : results[i].outcome = "finished"
      BY <2>4 DEF CoordInv
    <3>3. /\ n + 1 \in 1..(n + 1) /\ \A i \in 1..n : i \in 1..(n + 1)
          /\ results'[n + 1] = r /\ \A i \in 1..n : results'[i] = results[i]
      BY <2>3, <2>4
    <3>4. (\A i \in 1..(n + 1) : results'[i].outcome = "finished") <=>
          ((\A i \in 1..n : results[i].outcome = "finished") /\ r.outcome = "finished")
      BY <2>5, <3>3, Zenon
    <3> QED BY <3>1, <3>2, <3>4, Zenon
  <2>9. /\ cpc' \in {"running", "returned"}
        /\ cpc' = "running" => n + 1 # size /\ (stopOnError => r.outcome = "finished") /\ given' = Coord!BuildInput(results')
        /\ cpc' = "returned" => n + 1 = size \/ r.outcome # "finished"
    BY <2>1, <2>3 DEF n
  <2> HIDE DEF r
  <2>10. \A i \in DOMAIN results' :
           /\ results'[i].agent = i /\ results'[i].given = Earlier(i - 1)
           /\ stopOnError /\ results'[i].outcome # "finished" => i = Len(results') /\ cpc' # "running"
    BY <2>4, <2>5, <2>6, <2>7, <2>9
  <2>11. cpc' = "returned" => allFinished' = (Len(results') = size /\ \A i \in DOMAIN results' : results'[i].outcome = "finished")
    <3> SUFFICES ASSUME cpc' = "returned"
                 PROVE  allFinished' = (Len(results') = size /\ \A i \in DOMAIN results' : results'[i].outcome = "finished")
      OBVIOUS
    <3>1. (\A i \in DOMAIN results' : results'[i].outcome = "finished") =>
            Len(results') = size
      <4>1. n + 1 \in DOMAIN results' /\ results'[n + 1] = r /\ Len(results') = n + 1
        BY <2>3, <2>4
      <4> QED BY <4>1, <2>9
    <3>2. allFinished' = \A i \in DOMAIN results' : results'[i].outcome = "finished"
      BY <2>4, <2>8, Zenon
    <3> QED BY <3>1, <3>2, Zenon
  <2>12. Coord!InputsChain'
    BY <2>2, <2>10, <2>11 DEF Coord!InputsChain, Earlier
  <2>13. cpc' = "running" => given' = Earlier(n + 1) /\ n + 1 < size
    <3> SUFFICES ASSUME cpc' = "running" PROVE given' = Earlier(n + 1) /\ n + 1 < size
      OBVIOUS
    <3>1. n + 1 < size
      BY <2>3, <2>9 DEF CoordInv, CoordTypes
    <3>2. \A i \in DOMAIN results' : results'[i].agent = i
      BY <2>4, <2>6
    <3>3. Coord!BuildInput(results') = Earlier(n + 1)
      BY <2>4, <3>2 DEF Coord!BuildInput, Earlier
    <3> QED BY <2>9, <3>1, <3>3
  <2>14. CoordTypes' /\ Len(results') <= size /\ cpc' # "start"
    BY <2>2, <2>3, <2>4, <2>9 DEF CoordInv, CoordTypes
  <2> QED BY <2>2, <2>4, <2>8, <2>12, <2>13, <2>14 DEF CoordInv, Earlier
<1>3. CASE Coord!RunnerThrows
  BY <1>3 DEF Coord!RunnerThrows, Coord!config, CoordInv, CoordTypes, Coord!InputsChain
<1>4. CASE UNCHANGED coordVars
  BY <1>4 DEF coordVars, CoordInv, CoordTypes, Coord!InputsChain, Earlier
<1> QED BY <1>1, <1>2, <1>3, <1>4 DEF Coord!Next

-----------------------------------------------------------------------------
(* The correcting agent.  The scan keeps the first of the highest scores,   *)
(* as long as it has a number to compare with; NaN takes no part in it.     *)

\* What Harn!Chosen evaluates, as a relation.
Scans(f, s) ==
  f = [n \in 0..Len(s) |-> IF n = 0 THEN 1 ELSE IF Harn!Greater(s[n], s[f[n - 1]]) THEN n ELSE f[n - 1]]

LEMMA ScanExists ==
  ASSUME iterations \in Seq(Harn!Scores)
  PROVE  \E f : Scans(f, iterations) /\ Harn!Chosen = f[Len(iterations)]
<1> DEFINE m == Len(iterations)
           Step(n, b) == IF Harn!Greater(iterations[n], iterations[b]) THEN n ELSE b
           V == Nat
           G == [p \in (1..m) \X V |-> Step(p[1], p[2])]
           one == 1
<1>1. m \in Nat /\ one \in V
  OBVIOUS
<1>2. \A n \in 1..m, b \in V : Step(n, b) \in V
  OBVIOUS
<1> HIDE DEF Step, one
<1>3. G \in [(1..m) \X V -> V]
  BY <1>2
<1>4. \A n \in 1..m, b \in V : G[<<n, b>>] = Step(n, b)
  OBVIOUS
<1> HIDE DEF G, m, V
<1> PICK h : Iteration(h, G, V, one, m)
  BY <1>1, <1>3, Iterates
<1>5. h \in [0..m -> V] /\ h[0] = 1 /\ \A n \in 1..m : h[n] = Step(n, h[n - 1])
  <2>1. h \in [0..m -> V] /\ h[0] = 1 /\ \A n \in 1..m : h[n] = G[<<n, h[n - 1]>>]
    BY DEF Iteration, one
  <2>2. \A n \in 1..m : n - 1 \in 0..m
    BY <1>1
  <2> QED BY <1>4, <2>1, <2>2
<1>6. h = [n \in 0..m |-> IF n = 0 THEN 1 ELSE IF Harn!Greater(iterations[n], iterations[h[n - 1]]) THEN n ELSE h[n - 1]]
  <2>1. \A n \in 0..m : n = 0 \/ n \in 1..m
    BY <1>1
  <2>2. \A n \in 0..m : h[n] = IF n = 0 THEN 1 ELSE Step(n, h[n - 1])
    BY <1>5, <2>1
  <2> QED BY <1>5, <2>2 DEF Step
<1>7. \E f : Scans(f, iterations)
  BY <1>6 DEF Scans, m
<1> DEFINE g == CHOOSE f : Scans(f, iterations)
<1>8. Scans(g, iterations)
  BY <1>7
<1>9. Harn!Chosen = g[Len(iterations)]
  BY DEF Harn!Chosen, Scans
<1> HIDE DEF g
<1> QED BY <1>8, <1>9

\* The b-th score is the first of the highest among the first n.
FirstHighest(b, n) ==
  /\ b \in DOMAIN iterations /\ b <= n /\ iterations[b] # Harn!NaN
  /\ \A i \in 1..n : ~Harn!Greater(iterations[i], iterations[b])
  /\ \A i \in 1..(b - 1) : iterations[i] # iterations[b]

LEMMA ScanFinds ==
  ASSUME iterations \in Seq(Harn!Scores), iterations # <<>>, iterations[1] # Harn!NaN
  PROVE  FirstHighest(Harn!Chosen, Len(iterations))
<1> DEFINE m == Len(iterations)
<1>1. m \in Nat /\ m >= 1 /\ DOMAIN iterations = 1..m /\ \A i \in 1..m : iterations[i] \in Nat
  BY ClientsAssumption DEF Harn!Scores, Harn!Numbers, Harn!NaN
<1>2. PICK f : Scans(f, iterations) /\ Harn!Chosen = f[m]
  BY ScanExists
<1> HIDE DEF m
<1>3. /\ f[0] = 1
      /\ \A n \in 1..m : f[n] = IF Harn!Greater(iterations[n], iterations[f[n - 1]]) THEN n ELSE f[n - 1]
  <2>1. /\ 0 \in 0..m /\ \A n \in 1..m : n \in 0..m /\ n # 0
    BY <1>1
  <2>2. \A n \in 0..m : f[n] = IF n = 0 THEN 1 ELSE IF Harn!Greater(iterations[n], iterations[f[n - 1]]) THEN n ELSE f[n - 1]
    BY <1>2 DEF Scans, m
  <2> QED BY <2>1, <2>2
<1> DEFINE Good == {n \in Nat : n + 1 <= m => FirstHighest(f[n + 1], n + 1)}
<1>4. 0 \in Good
  <2>1. f[1] = 1
    <3>1. 1 \in 1..m /\ 1 - 1 = 0
      BY <1>1
    <3>2. f[1] = IF Harn!Greater(iterations[1], iterations[1]) THEN 1 ELSE 1
      BY <1>3, <3>1
    <3> QED BY <3>2
  <2>2. FirstHighest(1, 1)
    BY <1>1 DEF FirstHighest, Harn!Greater
  <2>3. f[0 + 1] = 1
    BY <2>1
  <2> QED BY <2>2, <2>3
<1>5. ASSUME NEW n \in Good PROVE n + 1 \in Good
  <2>1. n \in Nat /\ n + 1 \in Nat
    OBVIOUS
  <2> DEFINE k == n + 1
             b == f[k]
  <2> SUFFICES ASSUME k + 1 <= m PROVE FirstHighest(f[k + 1], k + 1)
    BY <2>1
  <2>2. FirstHighest(b, k) /\ k \in Nat /\ k >= 1 /\ k + 1 \in 1..m
    BY <1>1, <2>1
  <2>3. f[k + 1] = IF Harn!Greater(iterations[k + 1], iterations[b]) THEN k + 1 ELSE b
    <3>1. (k + 1) - 1 = k
      BY <2>1
    <3> HIDE DEF k
    <3> QED BY <1>3, <2>2, <3>1
  <2> HIDE DEF k, b, Good
  <2>4. b \in 1..k /\ \A i \in 1..(k + 1) : i \in 1..k \/ i = k + 1
    BY <1>1, <2>2 DEF FirstHighest
  <2>5. CASE Harn!Greater(iterations[k + 1], iterations[b])
    <3>1. \A i \in 1..k : ~Harn!Greater(iterations[i], iterations[k + 1]) /\ iterations[i] # iterations[k + 1]
      <4> SUFFICES ASSUME NEW i \in 1..k
                   PROVE  ~Harn!Greater(iterations[i], iterations[k + 1]) /\ iterations[i] # iterations[k + 1]
        OBVIOUS
      <4>1. ~Harn!Greater(iterations[i], iterations[b]) /\ i \in 1..m
        BY <1>1, <2>2 DEF FirstHighest
      <4> QED BY <1>1, <2>2, <2>4, <2>5, <4>1 DEF FirstHighest, Harn!Greater
    <3>2. iterations[k + 1] # Harn!NaN /\ ~Harn!Greater(iterations[k + 1], iterations[k + 1])
      BY <1>1, <2>2, <2>5 DEF Harn!Greater
    <3>3. (k + 1) - 1 = k
      BY <2>2
    <3>4. FirstHighest(k + 1, k + 1)
      BY <1>1, <2>2, <2>4, <3>1, <3>2, <3>3 DEF FirstHighest
    <3> QED BY <2>3, <2>5, <3>4
  <2>6. CASE ~Harn!Greater(iterations[k + 1], iterations[b])
    BY <2>2, <2>3, <2>4, <2>6 DEF FirstHighest
  <2> QED BY <2>5, <2>6
<1> HIDE DEF Good
<1>6. Good = Nat
  <2>1. Good \in SUBSET Nat
    BY DEF Good
  <2> QED BY <1>4, <1>5, <2>1, Induction
<1>7. m - 1 \in Good /\ (m - 1) + 1 = m
  BY <1>1, <1>6
<1> QED BY <1>1, <1>2, <1>7 DEF Good, m

(* No result that passed was corrected, and only so many were; the answer   *)
(* is the first of the highest, if there is a number to begin with.         *)
HarnessTypes ==
  /\ iterations \in Seq(Harn!Scores) /\ corrections \in Nat /\ evolution \in BOOLEAN

OnlyLastPasses == \A i \in DOMAIN iterations : Harn!Passes(iterations[i]) => i = Len(iterations)

HarnessInv ==
  /\ HarnessTypes
  /\ corrections <= MaxCorrections
  /\ hpc \in {"start", "run", "evaluate", "choose", "evolve", "returned", "threw"}
  /\ hpc \in {"start", "run", "evaluate"} =>
       Len(iterations) = corrections /\ \A i \in DOMAIN iterations : ~Harn!Passes(iterations[i])
  /\ hpc \in {"choose", "evolve", "returned"} =>
       /\ Len(iterations) = corrections + 1
       /\ Len(iterations) = MaxCorrections + 1 \/ Harn!Passes(iterations[Len(iterations)])
  /\ OnlyLastPasses /\ Len(iterations) <= MaxCorrections + 1
  /\ hpc # "returned" => learned = <<>>
  /\ learned # <<>> => evolution /\ learned = iterations
  /\ hpc \in {"evolve", "returned"} /\ iterations[1] # Harn!NaN =>
       /\ FirstHighest(best, Len(iterations))
       /\ succeeded = Harn!Passes(iterations[best])

LEMMA HarnessStarts == Harn!Init => HarnessInv
BY ClientsAssumption DEF Harn!Init, HarnessInv, HarnessTypes, OnlyLastPasses

LEMMA HarnessStep == HarnessInv /\ [Harn!Next]_harnessVars => HarnessInv'
<1> SUFFICES ASSUME HarnessInv, [Harn!Next]_harnessVars PROVE HarnessInv'
  OBVIOUS
<1>1. CASE Harn!Invoke
  BY <1>1 DEF Harn!Invoke, HarnessInv, HarnessTypes, OnlyLastPasses
<1>2. CASE Harn!RunnerReturns
  BY <1>2 DEF Harn!RunnerReturns, HarnessInv, HarnessTypes, OnlyLastPasses
<1>3. CASE Harn!Evaluate
  <2>1. PICK s \in Harn!Scores :
          /\ iterations' = Append(iterations, s)
          /\ IF Harn!Passes(s) \/ corrections = MaxCorrections
               THEN hpc' = "choose" /\ UNCHANGED corrections
               ELSE hpc' = "run" /\ corrections' = corrections + 1
    BY <1>3 DEF Harn!Evaluate
  <2>2. UNCHANGED <<evolution, best, succeeded, learned>> /\ hpc = "evaluate"
    BY <1>3 DEF Harn!Evaluate
  <2> DEFINE n == Len(iterations)
  <2>3. /\ n \in Nat /\ n = corrections /\ n <= MaxCorrections
        /\ \A i \in 1..n : ~Harn!Passes(iterations[i])
    BY <2>2 DEF HarnessInv, HarnessTypes
  <2>4. /\ iterations' \in Seq(Harn!Scores) /\ Len(iterations') = n + 1 /\ iterations'[n + 1] = s
        /\ DOMAIN iterations' = 1..(n + 1)
        /\ \A i \in 1..(n + 1) : i \in 1..n \/ i = n + 1
        /\ \A i \in 1..n : iterations'[i] = iterations[i]
    BY <2>1 DEF HarnessInv, HarnessTypes
  <2> HIDE DEF n
  <2>5. corrections' \in Nat /\ corrections' <= MaxCorrections
    BY <2>1, <2>3, ClientsAssumption
  <2>6. OnlyLastPasses' /\ n + 1 <= MaxCorrections + 1
    BY <2>3, <2>4, ClientsAssumption DEF OnlyLastPasses, Harn!Passes, Harn!NaN
  <2>7. CASE hpc' = "run"
    <3>1. ~Harn!Passes(s) /\ corrections' = n + 1
      BY <2>1, <2>3, <2>7
    <3>2. \A i \in 1..(n + 1) : ~Harn!Passes(iterations'[i])
      BY <2>3, <2>4, <3>1
    <3> QED BY <2>2, <2>4, <2>5, <2>6, <2>7, <3>1, <3>2 DEF HarnessInv, HarnessTypes, Harn!Passes, Harn!NaN
  <2>8. CASE hpc' = "choose"
    <3>1. corrections' = n /\ (n + 1 = MaxCorrections + 1 \/ Harn!Passes(s))
      BY <2>1, <2>3, <2>8
    <3> QED BY <2>2, <2>4, <2>5, <2>6, <2>8, <3>1 DEF HarnessInv, HarnessTypes, Harn!Passes, Harn!NaN
  <2> QED BY <2>1, <2>7, <2>8
<1>4. CASE Harn!Choose
  <2>1. /\ best' = Harn!Chosen /\ succeeded' = Harn!Passes(iterations[Harn!Chosen])
        /\ hpc = "choose" /\ hpc' = "evolve"
        /\ UNCHANGED <<evolution, iterations, corrections, learned>>
    BY <1>4 DEF Harn!Choose
  <2>2. iterations # <<>>
    BY <2>1 DEF HarnessInv, HarnessTypes
  <2>3. iterations[1] # Harn!NaN => FirstHighest(Harn!Chosen, Len(iterations))
    BY <2>2, ScanFinds DEF HarnessInv, HarnessTypes
  <2>4. iterations'[1] # Harn!NaN => FirstHighest(best, Len(iterations))' /\ succeeded' = Harn!Passes(iterations[best])'
    BY <2>1, <2>3 DEF FirstHighest, Harn!Greater, Harn!Passes, Harn!NaN
  <2> QED BY <2>1, <2>4 DEF HarnessInv, HarnessTypes, OnlyLastPasses, Harn!Passes, Harn!NaN
<1>5. CASE Harn!Evolve
  BY <1>5 DEF Harn!Evolve, HarnessInv, HarnessTypes, OnlyLastPasses, FirstHighest, Harn!Passes, Harn!Greater, Harn!NaN
<1>6. CASE Harn!Fails
  BY <1>6 DEF Harn!Fails, HarnessInv, HarnessTypes, OnlyLastPasses
<1>7. CASE UNCHANGED harnessVars
  BY <1>7 DEF harnessVars, HarnessInv, HarnessTypes, OnlyLastPasses, FirstHighest, Harn!Passes, Harn!Greater, Harn!NaN
<1> QED BY <1>1, <1>2, <1>3, <1>4, <1>5, <1>6, <1>7 DEF Harn!Next

\* The run succeeded exactly if its last result passed: one that passed is the
\* last, and then the highest score passes too.
LEMMA BestIsLast ==
  ASSUME HarnessInv, hpc \in {"evolve", "returned"}, iterations[1] # Harn!NaN
  PROVE  Harn!Passes(iterations[best]) <=> Harn!Passes(iterations[Len(iterations)])
<1> DEFINE n == Len(iterations)
<1>1. n \in Nat /\ n >= 1 /\ DOMAIN iterations = 1..n /\ \A i \in 1..n : iterations[i] \in Nat
  BY ClientsAssumption DEF HarnessInv, HarnessTypes, Harn!Scores, Harn!Numbers, Harn!NaN
<1>2. FirstHighest(best, n) /\ OnlyLastPasses
  BY DEF HarnessInv
<1> HIDE DEF n
<1>3. n \in 1..n /\ best \in 1..n /\ ~Harn!Greater(iterations[n], iterations[best]) /\ iterations[best] # Harn!NaN
  BY <1>1, <1>2 DEF FirstHighest
<1>4. ASSUME Harn!Passes(iterations[n]) PROVE Harn!Passes(iterations[best])
  BY <1>1, <1>3, <1>4, ClientsAssumption DEF Harn!Passes, Harn!Greater
<1>5. ASSUME Harn!Passes(iterations[best]) PROVE best = n
  BY <1>1, <1>2, <1>3, <1>5 DEF OnlyLastPasses, n
<1> QED BY <1>4, <1>5 DEF n

LEMMA HarnessHolds == HarnessInv => Harn!BestIsAnswer
<1> SUFFICES ASSUME HarnessInv PROVE Harn!BestIsAnswer
  OBVIOUS
<1>1. ASSUME hpc \in {"evolve", "returned"}, iterations[1] # Harn!NaN
      PROVE  /\ \A i \in DOMAIN iterations : ~Harn!Greater(iterations[i], iterations[best])
             /\ \A i \in 1..(best - 1) : iterations[i] # iterations[best]
             /\ succeeded = Harn!Passes(Harn!Last(iterations))
  <2>1. FirstHighest(best, Len(iterations)) /\ succeeded = Harn!Passes(iterations[best])
    BY <1>1 DEF HarnessInv
  <2>2. DOMAIN iterations = 1..Len(iterations)
    BY DEF HarnessInv, HarnessTypes
  <2>3. Harn!Passes(iterations[best]) = Harn!Passes(iterations[Len(iterations)])
    <3>1. Harn!Passes(iterations[best]) <=> Harn!Passes(iterations[Len(iterations)])
      BY <1>1, BestIsLast
    <3> QED BY <3>1, Zenon DEF Harn!Passes
  <2> QED BY <2>1, <2>2, <2>3 DEF FirstHighest, Harn!Last
<1> QED BY <1>1 DEF HarnessInv, OnlyLastPasses, Harn!BestIsAnswer, Harn!Last

-----------------------------------------------------------------------------
(* The agents.  First what on_event is told, and what a step leaves alone.  *)
agentConfig == <<agent, mode, mem>>

LEMMA TellsOne ==
  ASSUME events \in Seq(Agent!EventTypes), NEW e \in Agent!EventTypes
  PROVE  /\ events \o <<e>> = Append(events, e)
         /\ \A n \in DOMAIN <<e>> : events \o SubSeq(<<e>>, 1, n) = Append(events, e)
         /\ Append(events, e) \in Seq(Agent!EventTypes)
<1>1. \A n \in DOMAIN <<e>> : SubSeq(<<e>>, 1, n) = <<e>>
  <2>1. DOMAIN <<e>> = {1} /\ Len(<<e>>) = 1 /\ <<e>> \in Seq({e})
    OBVIOUS
  <2>2. SubSeq(<<e>>, 1, Len(<<e>>)) = <<e>>
    BY <2>1, SubSeqFull
  <2> QED BY <2>1, <2>2
<1>2. events \o <<e>> = Append(events, e)
  BY AppendIsConcat
<1> QED BY <1>1, <1>2

LEMMA TellsTwo ==
  ASSUME events \in Seq(Agent!EventTypes), NEW a \in Agent!EventTypes, NEW b \in Agent!EventTypes
  PROVE  /\ events \o <<a, b>> = Append(Append(events, a), b)
         /\ \A n \in DOMAIN <<a, b>> :
              events \o SubSeq(<<a, b>>, 1, n) \in {Append(events, a), Append(Append(events, a), b)}
         /\ Append(events, a) \in Seq(Agent!EventTypes)
         /\ Append(Append(events, a), b) \in Seq(Agent!EventTypes)
<1>1. \A n \in DOMAIN <<a, b>> : SubSeq(<<a, b>>, 1, n) \in {<<a>>, <<a, b>>}
  <2>1. DOMAIN <<a, b>> = {1, 2}
    OBVIOUS
  <2> DEFINE s == <<a, b>>
             t == <<a>>
  <2>2. s \in Seq({a, b}) /\ Len(s) = 2 /\ s[1] = a /\ t \in Seq({a, b}) /\ Len(t) = 1 /\ t[1] = a
    OBVIOUS
  <2> HIDE DEF s, t
  <2>3. SubSeq(s, 1, 2) = s
    <3>1. SubSeq(s, 1, Len(s)) = s
      BY <2>2, SubSeqFull
    <3> QED BY <2>2, <3>1
  <2>4. SubSeq(s, 1, 1) \in Seq({a, b}) /\ Len(SubSeq(s, 1, 1)) = 1 /\ SubSeq(s, 1, 1)[1] = a
    BY <2>2
  <2>5. SubSeq(s, 1, 1) = t
    BY <2>2, <2>4
  <2> QED BY <2>1, <2>3, <2>5 DEF s, t
<1>2. events \o <<a>> = Append(events, a)
  BY AppendIsConcat
<1>3. events \o <<a, b>> = Append(Append(events, a), b)
  OBVIOUS
<1>4. Append(events, a) \in Seq(Agent!EventTypes)
  OBVIOUS
<1>5. Append(Append(events, a), b) \in Seq(Agent!EventTypes)
  BY <1>4
<1> QED BY <1>1, <1>2, <1>3, <1>4, <1>5

\* How often a type of event was told.
Count(s, type) == Len(Sifted(s, {type}))

LEMMA CountAppend ==
  ASSUME NEW T, NEW s \in Seq(T), NEW e \in T, NEW type
  PROVE  /\ Count(s, type) \in Nat
         /\ Count(Append(s, e), type) = IF e = type THEN Count(s, type) + 1 ELSE Count(s, type)
<1> DEFINE k == Sifted(s, {type})
<1>1. Sifted(Append(s, e), {type}) = IF e \in {type} THEN Append(k, e) ELSE k
  BY SiftedAppend
<1>2. k \in Seq(T \cap {type})
  BY SiftedHolds
<1> HIDE DEF k
<1>3. e = type => Append(k, e) \in Seq(T \cap {type}) /\ Len(Append(k, e)) = Len(k) + 1
  BY <1>2
<1> QED BY <1>1, <1>2, <1>3 DEF Count, k

LEMMA ToldIsCount == ASSUME NEW type PROVE Agent!Told(type) = Count(events, type)
BY DEF Agent!Told, Agent!Only, Count, Sifted

(* What the steps that may call on_event come to, with the branches of Tell *)
(* taken together.                                                          *)
Goes(to) == pc' = to /\ UNCHANGED <<open, todo, conv>>

LEMMA AskDoes ==
  ASSUME Agent!TypeOK, Agent!Ask
  PROVE  /\ pc = "ask" /\ iter < MaxIterations /\ iter' = iter + 1 /\ aborted' \in BOOLEAN
         /\ UNCHANGED <<agentConfig, memory, stored, steps, finished>>
         /\ events' = events \/ (mode = "event" /\ events' = Append(events, "Thought"))
         /\ Goes("asked") \/ Agent!Throws
<1>1. "Thought" \in Agent!EventTypes /\ events \in Seq(Agent!EventTypes) /\ aborted \in BOOLEAN
  BY DEF Agent!TypeOK, Agent!EventTypes
<1>2. /\ events \o <<"Thought">> = Append(events, "Thought")
      /\ \A n \in DOMAIN <<"Thought">> : events \o SubSeq(<<"Thought">>, 1, n) = Append(events, "Thought")
  BY <1>1, TellsOne
<1>3. pc = "ask" /\ iter < MaxIterations /\ iter' = iter + 1 /\ UNCHANGED <<agentConfig, memory, stored, steps, finished>>
  BY DEF Agent!Ask, agentConfig
<1>4. CASE Agent!Tell(<<"Thought">>, Agent!AskReturns)
  <2>1. CASE mode # "event"
    BY <1>1, <1>3, <1>4, <2>1 DEF Agent!Tell, Agent!AskReturns, Goes
  <2>2. CASE mode = "event"
    <3>1. aborted' \in {aborted, TRUE} /\
          \/ Agent!AskReturns /\ events' = events \o <<"Thought">>
          \/ \E n \in DOMAIN <<"Thought">> : Agent!Throws /\ events' = events \o SubSeq(<<"Thought">>, 1, n)
      BY <1>4, <2>2 DEF Agent!Tell
    <3>2. events' = Append(events, "Thought") /\ (Agent!AskReturns \/ Agent!Throws)
      BY <1>2, <3>1, Zenon
    <3> QED BY <1>1, <1>3, <2>2, <3>1, <3>2 DEF Agent!AskReturns, Goes
  <2> QED BY <1>3, <2>1, <2>2
<1>5. CASE \/ Agent!Throws /\ UNCHANGED <<events, aborted>>
           \/ Agent!AskReturns /\ UNCHANGED <<events, aborted>>
           \/ mode = "delta" /\ Agent!AskReturns /\ aborted' = TRUE /\ UNCHANGED events
  BY <1>1, <1>3, <1>5 DEF Agent!AskReturns, Goes
<1> QED BY <1>3, <1>4, <1>5 DEF Agent!Ask

\* Two events before the end of a run, or one.
LEMMA FinishDoes ==
  ASSUME Agent!TypeOK, Agent!Finish
  PROVE  /\ pc = "stored" /\ open' = <<>> /\ aborted' \in BOOLEAN /\ todo' \in {todo, <<>>}
         /\ UNCHANGED <<agentConfig, iter, memory, stored, steps, finished, conv>>
         /\ mode # "event" => pc' = "returned" /\ events' = events
         /\ mode = "event" =>
              \/ pc' = "returned" /\ events' = Append(Append(events, "Answer"), "Done")
              \/ pc' = "threw" /\ events' \in {Append(events, "Answer"), Append(Append(events, "Answer"), "Done")}
<1> DEFINE s == <<"Answer", "Done">>
<1>1. {"Answer", "Done"} \subseteq Agent!EventTypes /\ events \in Seq(Agent!EventTypes) /\ aborted \in BOOLEAN
  BY DEF Agent!TypeOK, Agent!EventTypes
<1>2. /\ events \o s = Append(Append(events, "Answer"), "Done")
      /\ \A n \in DOMAIN s : events \o SubSeq(s, 1, n) \in {Append(events, "Answer"), Append(Append(events, "Answer"), "Done")}
  BY <1>1, TellsTwo
<1> HIDE DEF s
<1>3. /\ pc = "stored" /\ UNCHANGED <<agentConfig, iter, memory, stored, steps, finished>>
      /\ Agent!Tell(s, Agent!Returns)
  BY DEF Agent!Finish, agentConfig, s
<1>4. CASE mode # "event"
  BY <1>1, <1>3, <1>4 DEF Agent!Tell, Agent!Returns
<1>5. CASE mode = "event"
  <2>1. aborted' \in {aborted, TRUE} /\
        \/ Agent!Returns /\ events' = events \o s
        \/ \E n \in DOMAIN s : Agent!Throws /\ events' = events \o SubSeq(s, 1, n)
    BY <1>3, <1>5 DEF Agent!Tell
  <2>2. \/ Agent!Returns /\ events' = Append(Append(events, "Answer"), "Done")
        \/ Agent!Throws /\ events' \in {Append(events, "Answer"), Append(Append(events, "Answer"), "Done")}
    BY <1>2, <2>1, Zenon
  <2> QED BY <1>1, <1>3, <1>5, <2>1, <2>2 DEF Agent!Returns, Agent!Throws
<1> QED BY <1>4, <1>5

LEMMA GiveUpDoes ==
  ASSUME Agent!TypeOK, Agent!GiveUp
  PROVE  /\ pc = "ask" /\ iter = MaxIterations /\ open' = <<>> /\ aborted' \in BOOLEAN /\ todo' \in {todo, <<>>}
         /\ finished' = FALSE
         /\ UNCHANGED <<agentConfig, iter, memory, stored, steps, conv>>
         /\ mode # "event" => pc' = "returned" /\ events' = events
         /\ mode = "event" => pc' \in {"returned", "threw"} /\ events' = Append(events, "Error")
<1>1. "Error" \in Agent!EventTypes /\ events \in Seq(Agent!EventTypes) /\ aborted \in BOOLEAN
  BY DEF Agent!TypeOK, Agent!EventTypes
<1>2. /\ events \o <<"Error">> = Append(events, "Error")
      /\ \A n \in DOMAIN <<"Error">> : events \o SubSeq(<<"Error">>, 1, n) = Append(events, "Error")
  BY <1>1, TellsOne
<1>3. /\ pc = "ask" /\ iter = MaxIterations /\ finished' = FALSE
      /\ UNCHANGED <<agentConfig, iter, memory, stored, steps>>
      /\ Agent!Tell(<<"Error">>, Agent!Returns)
  BY DEF Agent!GiveUp, agentConfig
<1>4. CASE mode # "event"
  BY <1>1, <1>3, <1>4 DEF Agent!Tell, Agent!Returns
<1>5. CASE mode = "event"
  <2>1. aborted' \in {aborted, TRUE} /\
        \/ Agent!Returns /\ events' = events \o <<"Error">>
        \/ \E n \in DOMAIN <<"Error">> : Agent!Throws /\ events' = events \o SubSeq(<<"Error">>, 1, n)
    BY <1>3, <1>5 DEF Agent!Tell
  <2>2. events' = Append(events, "Error") /\ (Agent!Returns \/ Agent!Throws)
    BY <1>2, <2>1, Zenon
  <2> QED BY <1>1, <1>3, <1>5, <2>1, <2>2 DEF Agent!Returns, Agent!Throws
<1> QED BY <1>4, <1>5

LEMMA RunToolDoes ==
  ASSUME Agent!TypeOK, Agent!RunTool
  PROVE  /\ pc = "tool" /\ aborted' \in BOOLEAN
         /\ UNCHANGED <<agentConfig, iter, memory, stored, steps, finished, conv>>
         /\ events' = events \/ (mode = "event" /\ events' = Append(events, "Error"))
         /\ Agent!ToolEnds \/ Agent!Throws
<1>1. "Error" \in Agent!EventTypes /\ events \in Seq(Agent!EventTypes) /\ aborted \in BOOLEAN
  BY DEF Agent!TypeOK, Agent!EventTypes
<1>2. /\ events \o <<"Error">> = Append(events, "Error")
      /\ \A n \in DOMAIN <<"Error">> : events \o SubSeq(<<"Error">>, 1, n) = Append(events, "Error")
  BY <1>1, TellsOne
<1>3. pc = "tool" /\ UNCHANGED <<agentConfig, iter, memory, stored, steps, finished>>
  BY DEF Agent!RunTool, agentConfig
<1>4. CASE Agent!Tell(<<"Error">>, Agent!ToolEnds)
  <2>1. CASE mode # "event"
    BY <1>1, <1>3, <1>4, <2>1 DEF Agent!Tell, Agent!ToolEnds
  <2>2. CASE mode = "event"
    <3>1. aborted' \in {aborted, TRUE} /\
          \/ Agent!ToolEnds /\ events' = events \o <<"Error">>
          \/ \E n \in DOMAIN <<"Error">> : Agent!Throws /\ events' = events \o SubSeq(<<"Error">>, 1, n)
      BY <1>4, <2>2 DEF Agent!Tell
    <3>2. events' = Append(events, "Error") /\ (Agent!ToolEnds \/ Agent!Throws)
      BY <1>2, <3>1, Zenon
    <3> QED BY <1>1, <1>3, <2>2, <3>1, <3>2 DEF Agent!ToolEnds, Agent!Throws
  <2> QED BY <2>1, <2>2
<1>5. CASE (Agent!ToolEnds \/ Agent!Throws) /\ UNCHANGED <<events, aborted>>
  BY <1>1, <1>3, <1>5 DEF Agent!ToolEnds, Agent!Throws
<1> QED BY <1>4, <1>5 DEF Agent!RunTool

LEMMA ObserveDoes ==
  ASSUME Agent!TypeOK, Agent!Observe
  PROVE  /\ pc = "observe" /\ aborted' \in BOOLEAN
         /\ UNCHANGED <<agentConfig, iter, memory, stored, finished>>
         /\ steps' = Append(steps, Head(todo).id)
         /\ events' = IF mode = "event" THEN Append(events, "Observation") ELSE events
         /\ Agent!Observed \/ (mode = "event" /\ Agent!Throws)
<1>1. "Observation" \in Agent!EventTypes /\ events \in Seq(Agent!EventTypes) /\ aborted \in BOOLEAN
  BY DEF Agent!TypeOK, Agent!EventTypes
<1>2. /\ events \o <<"Observation">> = Append(events, "Observation")
      /\ \A n \in DOMAIN <<"Observation">> : events \o SubSeq(<<"Observation">>, 1, n) = Append(events, "Observation")
  BY <1>1, TellsOne
<1>3. /\ pc = "observe" /\ UNCHANGED <<agentConfig, iter, memory, stored, finished>>
      /\ steps' = Append(steps, Head(todo).id)
      /\ Agent!Tell(<<"Observation">>, Agent!Observed)
  BY DEF Agent!Observe, agentConfig
<1>4. CASE mode # "event"
  BY <1>1, <1>3, <1>4 DEF Agent!Tell
<1>5. CASE mode = "event"
  <2>1. aborted' \in {aborted, TRUE} /\
        \/ Agent!Observed /\ events' = events \o <<"Observation">>
        \/ \E n \in DOMAIN <<"Observation">> : Agent!Throws /\ events' = events \o SubSeq(<<"Observation">>, 1, n)
    BY <1>3, <1>5 DEF Agent!Tell
  <2>2. events' = Append(events, "Observation") /\ (Agent!Observed \/ Agent!Throws)
    BY <1>2, <2>1, Zenon
  <2> QED BY <1>1, <1>3, <1>5, <2>1, <2>2
<1> QED BY <1>4, <1>5

\* A call of a tool is told, and whether there is such a tool as well.
LEMMA BeginToolDoes ==
  ASSUME Agent!TypeOK, Agent!BeginTool
  PROVE  /\ pc = "call" /\ aborted' \in BOOLEAN
         /\ UNCHANGED <<agentConfig, iter, memory, stored, steps, finished, conv>>
         /\ IF mode = "event" THEN events' \in {Append(events, "ToolCall"), Append(Append(events, "ToolCall"), "Error")}
                              ELSE events' = events
         /\ \/ pc' = "tool" /\ open' = <<"tool">> \o open /\ todo' = todo
            \/ Goes("observe")
            \/ Agent!Throws
<1> DEFINE s == <<"ToolCall", "Error">>
           All == {Append(events, "ToolCall"), Append(Append(events, "ToolCall"), "Error")}
           Known == pc' = "tool" /\ open' = <<"tool">> \o open /\ UNCHANGED <<todo, conv>>
           Unknown == pc' = "observe" /\ UNCHANGED <<open, todo, conv>>
<1>1. {"ToolCall", "Error"} \subseteq Agent!EventTypes /\ events \in Seq(Agent!EventTypes) /\ aborted \in BOOLEAN
  BY DEF Agent!TypeOK, Agent!EventTypes
<1>2. /\ events \o s = Append(Append(events, "ToolCall"), "Error")
      /\ \A n \in DOMAIN s : events \o SubSeq(s, 1, n) \in All
  BY <1>1, TellsTwo
<1>3. /\ events \o <<"ToolCall">> = Append(events, "ToolCall")
      /\ \A n \in DOMAIN <<"ToolCall">> : events \o SubSeq(<<"ToolCall">>, 1, n) = Append(events, "ToolCall")
  BY <1>1, TellsOne
<1> HIDE DEF s
<1>4. /\ pc = "call" /\ UNCHANGED <<agentConfig, iter, memory, stored, steps, finished>>
      /\ Agent!Tell(<<"ToolCall">>, Known) \/ Agent!Tell(s, Unknown)
  BY DEF Agent!BeginTool, agentConfig, s
<1>5. CASE mode # "event"
  BY <1>1, <1>4, <1>5 DEF Agent!Tell, Goes
<1>6. CASE mode = "event"
  <2>1. CASE Agent!Tell(<<"ToolCall">>, Known)
    <3>1. aborted' \in {aborted, TRUE} /\
          \/ Known /\ events' = events \o <<"ToolCall">>
          \/ \E n \in DOMAIN <<"ToolCall">> : Agent!Throws /\ events' = events \o SubSeq(<<"ToolCall">>, 1, n)
      BY <1>6, <2>1 DEF Agent!Tell
    <3>2. events' = Append(events, "ToolCall") /\ (Known \/ Agent!Throws)
      <4> HIDE DEF Known
      <4> QED BY <1>3, <3>1, Zenon
    <3>3. aborted' \in BOOLEAN
      BY <1>1, <3>1
    <3> QED BY <1>4, <1>6, <3>2, <3>3 DEF Agent!Throws
  <2>2. CASE Agent!Tell(s, Unknown)
    <3>1. aborted' \in {aborted, TRUE} /\
          \/ Unknown /\ events' = events \o s
          \/ \E n \in DOMAIN s : Agent!Throws /\ events' = events \o SubSeq(s, 1, n)
      BY <1>6, <2>2 DEF Agent!Tell
    <3>2. events' \in All /\ (Unknown \/ Agent!Throws)
      <4>1. events \o s \in All
        BY <1>2
      <4> HIDE DEF Unknown, All
      <4> QED BY <1>2, <3>1, <4>1, Zenon
    <3>3. aborted' \in BOOLEAN
      BY <1>1, <3>1
    <3> QED BY <1>4, <1>6, <3>2, <3>3 DEF Agent!Throws, Goes
  <2> QED BY <1>4, <2>1, <2>2
<1> QED BY <1>5, <1>6

-----------------------------------------------------------------------------
(* Where the invocation is.                                                *)
Running == {"call", "tool", "observe"}

PlaceInv ==
  /\ pc \in Running \cup {"asked", "storeUser", "storeAnswer", "stored"} => iter >= 1
  /\ pc = "tool" => open # <<>>
  /\ pc \in Running <=> todo # <<>>
  /\ pc = "start" => conv = <<>> /\ steps = <<>>

IdsOf(s) == [k \in DOMAIN s |-> s[k].id]

LEMMA AnswersTyped ==
  ASSUME NEW c \in Agent!Answers, iter \in 1..MaxIterations
  PROVE  c \in Seq(Agent!Calls) /\ IdsOf(c) \in Seq(Agent!CallIds) /\ Len(IdsOf(c)) = Len(c)
<1>1. PICK n \in 0..(IF agent = "react" THEN 1 ELSE MaxCalls) : c \in Agent!CallsOf(n)
  BY DEF Agent!Answers
<1>2. PICK f \in [1..n -> Agent!Names] : c = [k \in 1..n |-> [id |-> <<iter, k>>, name |-> f[k]]]
  BY <1>1 DEF Agent!CallsOf
<1>3. n \in Nat /\ n <= MaxCalls /\ MaxCalls \in Nat /\ MaxIterations \in Nat
  BY <1>1, ClientsAssumption
<1>4. \A k \in 1..n : k \in 1..MaxCalls /\ <<iter, k>> \in Agent!CallIds
  BY <1>3 DEF Agent!CallIds
<1>5. \A k \in 1..n : [id |-> <<iter, k>>, name |-> f[k]] \in Agent!Calls
  BY <1>4 DEF Agent!Calls
<1>6. c \in Seq(Agent!Calls) /\ Len(c) = n /\ DOMAIN c = 1..n
  BY <1>2, <1>3, <1>5
<1>7. \A k \in 1..n : c[k].id \in Agent!CallIds
  BY <1>2, <1>4
<1> QED BY <1>3, <1>6, <1>7 DEF IdsOf

\* What is kept of the conversation and the calls when nothing is appended.
LEMMA AgentTypesKept ==
  ASSUME Agent!TypeOK, PlaceInv, [Agent!Next]_agentVars
  PROVE  Agent!TypeOK'
<1> USE ClientsAssumption
<1>e. /\ events \in Seq(Agent!EventTypes)
      /\ \A e \in Agent!EventTypes : Append(events, e) \in Seq(Agent!EventTypes)
      /\ \A d, e \in Agent!EventTypes : Append(Append(events, d), e) \in Seq(Agent!EventTypes)
  <2> DEFINE T == Agent!EventTypes
  <2>1. events \in Seq(T)
    BY DEF Agent!TypeOK
  <2> HIDE DEF T
  <2>2. \A e \in T : Append(events, e) \in Seq(T)
    BY <2>1
  <2>3. \A d, e \in T : Append(Append(events, d), e) \in Seq(T)
    BY <2>2
  <2> QED BY <2>1, <2>2, <2>3 DEF T
<1>a. {"Thought", "ToolCall", "Observation", "Answer", "Error", "Done"} \subseteq Agent!EventTypes
  BY DEF Agent!EventTypes
<1>n. <<>> \in Seq(Agent!Calls) /\ <<>> \in Seq({"agent", "tool"})
  OBVIOUS
<1>t. /\ todo \in Seq(Agent!Calls) /\ open \in Seq({"agent", "tool"}) /\ pc \in Agent!PCs
      /\ agent \in Agent!Agents /\ mode \in Agent!Modes /\ mem \in BOOLEAN /\ iter \in 0..MaxIterations
      /\ memory \in Seq({"other", "user", "answer"}) /\ stored \in Seq({"user", "answer"})
      /\ conv \in Seq(Agent!Messages) /\ steps \in Seq(Agent!CallIds) /\ finished \in BOOLEAN /\ aborted \in BOOLEAN
  BY DEF Agent!TypeOK
<1>x. Agent!Throws => pc' \in Agent!PCs /\ open' \in Seq({"agent", "tool"}) /\ todo' \in Seq(Agent!Calls) /\ conv' = conv
  <2>1. "threw" \in Agent!PCs
    BY DEF Agent!PCs
  <2> QED BY <1>n, <2>1 DEF Agent!Throws
<1>g. ASSUME NEW to \in Agent!PCs, Goes(to)
      PROVE  pc' \in Agent!PCs /\ open' \in Seq({"agent", "tool"}) /\ todo' \in Seq(Agent!Calls) /\ conv' = conv
  BY <1>t, <1>g DEF Goes
<1>1. CASE Agent!Begin
  <2> DEFINE before == [i \in DOMAIN memory |-> Agent!Plain("other")]
             user == Agent!Plain("user")
  <2>1. user \in Agent!Messages /\ Agent!Plain("other") \in Agent!Messages
    BY DEF Agent!Plain, Agent!Message, Agent!Messages, Agent!Roles
  <2>2. before \in Seq(Agent!Messages)
    <3> DEFINE M == Agent!Messages
               x == Agent!Plain("other")
    <3>1. Len(memory) \in Nat /\ DOMAIN memory = 1..Len(memory) /\ x \in M
      BY <1>t, <2>1
    <3> HIDE DEF M, x
    <3>2. [i \in 1..Len(memory) |-> x] \in Seq(M)
      BY <3>1
    <3> QED BY <3>1, <3>2 DEF M, x
  <2> HIDE DEF before, user
  <2>3. before \o <<user>> \in Seq(Agent!Messages)
    BY <2>1, <2>2
  <2>4. conv' \in Seq(Agent!Messages)
    BY <1>1, <2>3 DEF Agent!Begin, before, user
  <2>5. pc' \in Agent!PCs
    BY <1>1 DEF Agent!Begin, Agent!PCs
  <2>6. open' \in Seq({"agent", "tool"})
    <3>1. "agent" \in {"agent", "tool"}
      OBVIOUS
    <3>2. <<"agent">> \in Seq({"agent", "tool"})
      BY <3>1
    <3> QED BY <1>1, <3>2 DEF Agent!Begin
  <2> QED BY <1>1, <1>e, <1>t, <2>4, <2>5, <2>6 DEF Agent!Begin, Agent!TypeOK
<1>2. CASE Agent!Ask
  <2>1. events' \in Seq(Agent!EventTypes)
    BY <1>2, <1>a, <1>e, AskDoes
  <2>2. pc' \in Agent!PCs /\ open' \in Seq({"agent", "tool"}) /\ todo' \in Seq(Agent!Calls) /\ conv' = conv
    <3>1. "asked" \in Agent!PCs
      BY DEF Agent!PCs
    <3> QED BY <1>2, <1>g, <1>x, <3>1, AskDoes
  <2>3. iter' \in 0..MaxIterations
    BY <1>2, <1>t, AskDoes
  <2> QED BY <1>2, <2>1, <2>2, <2>3, AskDoes DEF Agent!TypeOK, agentConfig
<1>3. CASE Agent!Answer
  <2>1. PICK c \in Agent!Answers :
          /\ conv' = Append(conv, Agent!Message("assistant", IdsOf(c), <<0, 0>>))
          /\ todo' = c
          /\ pc' = IF c # <<>> THEN "call" ELSE IF mem THEN "storeUser" ELSE "stored"
    BY <1>3 DEF Agent!Answer, IdsOf
  <2>2. iter \in 1..MaxIterations
    BY <1>3 DEF Agent!Answer, PlaceInv, Agent!TypeOK
  <2>3. c \in Seq(Agent!Calls) /\ IdsOf(c) \in Seq(Agent!CallIds)
    BY <2>2, AnswersTyped
  <2>4. Agent!Message("assistant", IdsOf(c), <<0, 0>>) \in Agent!Messages
    BY <2>3 DEF Agent!Message, Agent!Messages, Agent!Roles
  <2>5. conv' \in Seq(Agent!Messages)
    <3> DEFINE M == Agent!Messages
               x == Agent!Message("assistant", IdsOf(c), <<0, 0>>)
    <3>1. conv \in Seq(M) /\ x \in M /\ conv' = Append(conv, x)
      BY <1>t, <2>1, <2>4
    <3> HIDE DEF M, x
    <3>2. conv' \in Seq(M)
      BY <3>1
    <3> QED BY <3>2 DEF M
  <2> QED BY <1>3, <2>1, <2>3, <2>5 DEF Agent!Answer, Agent!TypeOK, Agent!PCs
<1>4. ASSUME NEW m \in {"user", "answer"}, NEW from, NEW to \in Agent!PCs, Agent!Store(m, from, to)
      PROVE  Agent!TypeOK'
  <2>1. memory' \in Seq({"other", "user", "answer"}) /\ stored' \in Seq({"user", "answer"})
    <3>1. m \in {"other", "user", "answer"}
      OBVIOUS
    <3>2. Append(memory, m) \in Seq({"other", "user", "answer"})
      BY <1>t, <3>1
    <3>3. Append(stored, m) \in Seq({"user", "answer"})
      BY <1>t
    <3> QED BY <1>4, <1>t, <3>2, <3>3 DEF Agent!Store, Agent!Adds
  <2>2. pc' \in Agent!PCs /\ open' \in Seq({"agent", "tool"}) /\ todo' \in Seq(Agent!Calls) /\ conv' = conv
    BY <1>4, <1>t, <1>x DEF Agent!Store
  <2> QED BY <1>4, <2>1, <2>2 DEF Agent!Store, Agent!TypeOK
<1>5. CASE Agent!Finish
  <2>1. events' \in Seq(Agent!EventTypes)
    BY <1>5, <1>a, <1>e, FinishDoes
  <2>2. pc' \in Agent!PCs
    BY <1>5, FinishDoes DEF Agent!PCs
  <2>3. todo' \in Seq(Agent!Calls) /\ open' \in Seq({"agent", "tool"})
    BY <1>5, <1>n, <1>t, FinishDoes
  <2> QED BY <1>5, <2>1, <2>2, <2>3, FinishDoes DEF Agent!TypeOK, agentConfig
<1>6. CASE Agent!BeginTool
  <2>1. events' \in Seq(Agent!EventTypes)
    BY <1>6, <1>a, <1>e, BeginToolDoes
  <2>2. pc' \in Agent!PCs /\ open' \in Seq({"agent", "tool"}) /\ todo' \in Seq(Agent!Calls)
    <3>1. {"tool", "observe"} \subseteq Agent!PCs
      BY DEF Agent!PCs
    <3>2. "tool" \in {"agent", "tool"}
      OBVIOUS
    <3>3. <<"tool">> \o open \in Seq({"agent", "tool"})
      BY <1>t, <3>2
    <3> QED BY <1>6, <1>g, <1>t, <1>x, <3>1, <3>3, BeginToolDoes
  <2> QED BY <1>6, <2>1, <2>2, BeginToolDoes DEF Agent!TypeOK, agentConfig
<1>7. CASE Agent!RunTool
  <2>1. events' \in Seq(Agent!EventTypes)
    BY <1>7, <1>a, <1>e, RunToolDoes
  <2>2. pc' \in Agent!PCs /\ open' \in Seq({"agent", "tool"}) /\ todo' \in Seq(Agent!Calls)
    <3>1. "observe" \in Agent!PCs
      BY DEF Agent!PCs
    <3>2. open # <<>>
      BY <1>7, RunToolDoes DEF PlaceInv
    <3>3. Tail(open) \in Seq({"agent", "tool"})
      BY <1>t, <3>2
    <3> QED BY <1>7, <1>t, <1>x, <3>1, <3>3, RunToolDoes DEF Agent!ToolEnds
  <2> QED BY <1>7, <2>1, <2>2, RunToolDoes DEF Agent!TypeOK, agentConfig
<1>8. CASE Agent!Observe
  <2>1. todo # <<>> /\ Head(todo) \in Agent!Calls /\ Tail(todo) \in Seq(Agent!Calls)
    BY <1>8, <1>t, ObserveDoes DEF PlaceInv, Running
  <2>2. Head(todo).id \in Agent!CallIds
    BY <2>1 DEF Agent!Calls
  <2>3. events' \in Seq(Agent!EventTypes)
    BY <1>8, <1>a, <1>e, ObserveDoes
  <2>4. steps' \in Seq(Agent!CallIds)
    <3> DEFINE T == Agent!CallIds
               x == Head(todo).id
    <3>1. steps \in Seq(T) /\ x \in T
      BY <1>t, <2>2
    <3> HIDE DEF T, x
    <3>2. Append(steps, x) \in Seq(T)
      BY <3>1
    <3> QED BY <1>8, <3>2, ObserveDoes DEF T, x
  <2>5. Agent!Reply(Head(todo).id) \in Agent!Messages
    BY <2>2 DEF Agent!Reply, Agent!Message, Agent!Messages, Agent!Roles
  <2>6. /\ pc' \in Agent!PCs /\ open' \in Seq({"agent", "tool"}) /\ todo' \in Seq(Agent!Calls)
        /\ conv' \in Seq(Agent!Messages)
    <3>1. {"ask", "call"} \subseteq Agent!PCs
      BY DEF Agent!PCs
    <3> DEFINE M == Agent!Messages
    <3>2. conv \in Seq(M) /\ Agent!Reply(Head(todo).id) \in M
      BY <1>t, <2>5
    <3> HIDE DEF M
    <3>3. Append(conv, Agent!Reply(Head(todo).id)) \in Seq(M)
      BY <3>2
    <3> QED BY <1>8, <1>t, <1>x, <2>1, <3>1, <3>3, ObserveDoes DEF Agent!Observed, M
  <2> QED BY <1>8, <2>3, <2>4, <2>6, ObserveDoes DEF Agent!TypeOK, agentConfig
<1>9. CASE Agent!GiveUp
  <2>1. events' \in Seq(Agent!EventTypes)
    BY <1>9, <1>a, <1>e, GiveUpDoes
  <2>2. pc' \in Agent!PCs
    BY <1>9, GiveUpDoes DEF Agent!PCs
  <2>3. todo' \in Seq(Agent!Calls) /\ open' \in Seq({"agent", "tool"})
    BY <1>9, <1>n, <1>t, GiveUpDoes
  <2> QED BY <1>9, <2>1, <2>2, <2>3, GiveUpDoes DEF Agent!TypeOK, agentConfig
<1>10. CASE Agent!OtherAdds
  <2>1. "other" \in {"other", "user", "answer"}
    OBVIOUS
  <2>2. Append(memory, "other") \in Seq({"other", "user", "answer"})
    BY <1>t, <2>1
  <2> QED BY <1>10, <1>e, <1>t, <2>2 DEF Agent!OtherAdds, Agent!TypeOK
<1>11. CASE UNCHANGED agentVars
  BY <1>11 DEF agentVars, Agent!TypeOK
<1>12. Agent!StoreUser => Agent!TypeOK'
  BY <1>4 DEF Agent!StoreUser, Agent!PCs
<1>13. Agent!StoreAnswer => Agent!TypeOK'
  BY <1>4 DEF Agent!StoreAnswer, Agent!PCs
<1> QED BY <1>1, <1>2, <1>3, <1>5, <1>6, <1>7, <1>8, <1>9, <1>10, <1>11, <1>12, <1>13 DEF Agent!Next, Agent!Step

LEMMA PlaceKept ==
  ASSUME Agent!TypeOK, PlaceInv, [Agent!Next]_agentVars
  PROVE  PlaceInv'
<1> USE DEF Running
<1>t. todo \in Seq(Agent!Calls) /\ iter \in Nat
  BY ClientsAssumption DEF Agent!TypeOK
<1>x. Agent!Throws => pc' = "threw" /\ todo' = <<>>
  BY DEF Agent!Throws
<1>1. CASE Agent!Begin
  BY <1>1 DEF Agent!Begin, PlaceInv
<1>2. CASE Agent!Ask
  BY <1>2, <1>t, <1>x, AskDoes DEF PlaceInv, Goes
<1>3. CASE Agent!Answer
  BY <1>3 DEF Agent!Answer, PlaceInv
<1>4. CASE Agent!StoreUser \/ Agent!StoreAnswer
  BY <1>4, <1>x DEF Agent!StoreUser, Agent!StoreAnswer, Agent!Store, PlaceInv
<1>5. CASE Agent!Finish
  <2>1. todo' = <<>> /\ pc' \in {"returned", "threw"}
    BY <1>5, FinishDoes DEF PlaceInv
  <2> QED BY <2>1 DEF PlaceInv
<1>6. CASE Agent!BeginTool
  <2>1. <<"tool">> \o open # <<>>
    <3>1. open \in Seq({"agent", "tool"})
      BY DEF Agent!TypeOK
    <3>2. Len(<<"tool">> \o open) = 1 + Len(open) /\ Len(open) \in Nat
      BY <3>1
    <3> QED BY <3>2
  <2> QED BY <1>6, <1>x, <2>1, BeginToolDoes DEF PlaceInv, Goes
<1>7. CASE Agent!RunTool
  BY <1>7, <1>x, RunToolDoes DEF PlaceInv, Agent!ToolEnds
<1>8. CASE Agent!Observe
  <2>1. todo # <<>> /\ Len(Tail(todo)) = Len(todo) - 1 /\ Len(todo) \in Nat /\ iter >= 1
    BY <1>8, <1>t, ObserveDoes DEF PlaceInv
  <2>2. Tail(todo) = <<>> <=> Len(todo) = 1
    BY <1>t, <2>1
  <2> QED BY <1>8, <1>t, <1>x, <2>1, <2>2, ObserveDoes DEF PlaceInv, Agent!Observed
<1>9. CASE Agent!GiveUp
  <2>1. todo' = <<>> /\ pc' \in {"returned", "threw"}
    BY <1>9, GiveUpDoes DEF PlaceInv
  <2> QED BY <2>1 DEF PlaceInv
<1>10. CASE Agent!OtherAdds
  BY <1>10 DEF Agent!OtherAdds, PlaceInv
<1>11. CASE UNCHANGED agentVars
  BY <1>11 DEF agentVars, PlaceInv
<1> QED BY <1>1, <1>2, <1>3, <1>4, <1>5, <1>6, <1>7, <1>8, <1>9, <1>10, <1>11 DEF Agent!Next, Agent!Step

LEMMA AgentStarts == Agent!Init => Agent!TypeOK /\ PlaceInv
<1> SUFFICES ASSUME Agent!Init PROVE Agent!TypeOK /\ PlaceInv
  OBVIOUS
<1>1. <<>> \in Seq({"other", "user", "answer"}) /\ <<"other">> \in Seq({"other", "user", "answer"})
  <2>1. "other" \in {"other", "user", "answer"}
    OBVIOUS
  <2> QED BY <2>1
<1>2. memory \in Seq({"other", "user", "answer"})
  BY <1>1 DEF Agent!Init
<1>3. /\ <<>> \in Seq({"user", "answer"}) /\ <<>> \in Seq(Agent!Messages) /\ <<>> \in Seq(Agent!Calls)
      /\ <<>> \in Seq({"agent", "tool"}) /\ <<>> \in Seq(Agent!EventTypes) /\ <<>> \in Seq(Agent!CallIds)
  OBVIOUS
<1>4. 0 \in 0..MaxIterations
  BY ClientsAssumption
<1>5. agent \in Agent!Agents /\ mode \in Agent!Modes /\ mem \in BOOLEAN /\ pc = "start" /\ pc \in Agent!PCs
  BY DEF Agent!Init, Agent!PCs
<1>6. Agent!TypeOK
  BY <1>2, <1>3, <1>4, <1>5 DEF Agent!Init, Agent!TypeOK
<1> QED BY <1>6 DEF Agent!Init, PlaceInv, Running

-----------------------------------------------------------------------------
(* Every call of an answer is answered or still to run: what is left of    *)
(* the calls is the end of those of the last answer, and the calls before  *)
(* it are the steps.                                                       *)
RoleOf(a) == IF a = "react" THEN "observation" ELSE "tool"
Response(role, id) == Agent!Message(role, <<>>, id)

Paired(c, t, role) ==
  \A p \in DOMAIN c : \A k \in DOMAIN c[p].calls :
    IF p + k <= Len(c) THEN c[p + k] = Response(role, c[p].calls[k])
                       ELSE p + k - Len(c) \in DOMAIN t /\ t[p + k - Len(c)].id = c[p].calls[k]

CallsIn(c) == [p \in DOMAIN c |-> c[p].calls]

PairInv ==
  pc # "threw" =>
    /\ Paired(conv, todo, RoleOf(agent))
    /\ steps \o IdsOf(todo) = Flat(CallsIn(conv))

LEMMA CallsTyped ==
  ASSUME NEW c \in Seq(Agent!Messages)
  PROVE  \A p \in DOMAIN c : c[p].calls \in Seq(Agent!CallIds)
<1>1. \A p \in DOMAIN c : c[p] \in Agent!Messages
  OBVIOUS
<1>2. \A m \in Agent!Messages : m.calls \in Seq(Agent!CallIds)
  BY DEF Agent!Messages
<1> QED BY <1>1, <1>2

LEMMA PairedAnswer ==
  ASSUME NEW c \in Seq(Agent!Messages), NEW t \in Seq(Agent!Calls), NEW role, Paired(c, <<>>, role)
  PROVE  Paired(Append(c, Agent!Message("assistant", IdsOf(t), <<0, 0>>)), t, role)
<1> DEFINE m == Agent!Message("assistant", IdsOf(t), <<0, 0>>)
           d == Append(c, m)
           n == Len(c)
<1>1. m.calls = IdsOf(t) /\ DOMAIN m.calls = DOMAIN t /\ \A k \in DOMAIN t : m.calls[k] = t[k].id
  BY DEF Agent!Message, IdsOf
<1>2. DOMAIN t = 1..Len(t) /\ Len(t) \in Nat
  OBVIOUS
<1>3. n \in Nat /\ DOMAIN c = 1..n /\ DOMAIN d = 1..(n + 1) /\ Len(d) = n + 1 /\ d[n + 1] = m /\ \A p \in 1..n : d[p] = c[p]
  OBVIOUS
<1>4. \A p \in 1..n : DOMAIN c[p].calls \subseteq Nat
  <2>1. \A p \in 1..n : c[p].calls \in Seq(Agent!CallIds)
    BY <1>3, CallsTyped
  <2> QED BY <2>1
<1>5. \A p \in 1..n : \A k \in DOMAIN c[p].calls : p + k <= n /\ c[p + k] = Response(role, c[p].calls[k])
  BY <1>3 DEF Paired
<1> HIDE DEF m, d, n
<1>6. ASSUME NEW p \in 1..(n + 1), NEW k \in DOMAIN d[p].calls
      PROVE  IF p + k <= n + 1 THEN d[p + k] = Response(role, d[p].calls[k])
                               ELSE p + k - (n + 1) \in DOMAIN t /\ t[p + k - (n + 1)].id = d[p].calls[k]
  <2>1. CASE p \in 1..n
    <3>1. k \in DOMAIN c[p].calls /\ k \in Nat
      BY <1>3, <1>4, <2>1
    <3>2. p + k <= n /\ c[p + k] = Response(role, c[p].calls[k])
      BY <1>5, <2>1, <3>1
    <3>3. p + k \in 1..n
      BY <1>3, <2>1, <3>1, <3>2
    <3> QED BY <1>3, <2>1, <3>2, <3>3
  <2>2. CASE p = n + 1
    <3>1. k \in DOMAIN t /\ d[p].calls[k] = t[k].id
      BY <1>1, <1>3, <2>2
    <3>2. k \in Nat /\ k >= 1 /\ p + k - (n + 1) = k
      BY <1>2, <1>3, <2>2, <3>1
    <3> QED BY <1>3, <2>2, <3>1, <3>2
  <2> QED BY <1>3, <2>1, <2>2
<1>7. Paired(d, t, role)
  BY <1>3, <1>6 DEF Paired
<1> QED BY <1>7 DEF d, m

LEMMA PairedObserve ==
  ASSUME NEW c \in Seq(Agent!Messages), NEW t \in Seq(Agent!Calls), t # <<>>, NEW role, Paired(c, t, role)
  PROVE  Paired(Append(c, Response(role, Head(t).id)), Tail(t), role)
<1> DEFINE m == Response(role, Head(t).id)
           d == Append(c, m)
           n == Len(c)
           u == Tail(t)
<1>1. m.calls = <<>> /\ m = Response(role, t[1].id)
  BY DEF Response, Agent!Message
<1>2. /\ DOMAIN t = 1..Len(t) /\ Len(t) \in Nat /\ DOMAIN u = 1..(Len(t) - 1)
      /\ \A k \in 1..(Len(t) - 1) : u[k] = t[k + 1]
  OBVIOUS
<1>3. n \in Nat /\ DOMAIN c = 1..n /\ DOMAIN d = 1..(n + 1) /\ Len(d) = n + 1 /\ d[n + 1] = m /\ \A p \in 1..n : d[p] = c[p]
  OBVIOUS
<1>4. \A p \in 1..n : DOMAIN c[p].calls \subseteq Nat \ {0}
  <2>1. \A p \in 1..n : c[p].calls \in Seq(Agent!CallIds)
    BY <1>3, CallsTyped
  <2> QED BY <2>1
<1>5. \A p \in 1..n : \A k \in DOMAIN c[p].calls :
        IF p + k <= n THEN c[p + k] = Response(role, c[p].calls[k])
                      ELSE p + k - n \in DOMAIN t /\ t[p + k - n].id = c[p].calls[k]
  BY <1>3 DEF Paired
<1> HIDE DEF m, d, n, u
<1>6. ASSUME NEW p \in 1..(n + 1), NEW k \in DOMAIN d[p].calls
      PROVE  IF p + k <= n + 1 THEN d[p + k] = Response(role, d[p].calls[k])
                               ELSE p + k - (n + 1) \in DOMAIN u /\ u[p + k - (n + 1)].id = d[p].calls[k]
  <2>1. p \in 1..n
    <3>1. DOMAIN <<>> = {}
      OBVIOUS
    <3> QED BY <1>1, <1>3, <3>1
  <2>2. k \in DOMAIN c[p].calls /\ k \in Nat \ {0} /\ d[p].calls = c[p].calls
    BY <1>3, <1>4, <2>1
  <2>3. CASE p + k <= n
    <3>1. p + k \in 1..n /\ c[p + k] = Response(role, c[p].calls[k])
      BY <1>3, <1>5, <2>1, <2>2, <2>3
    <3> QED BY <1>3, <2>2, <2>3, <3>1
  <2>4. CASE p + k = n + 1
    <3>1. p + k - n = 1 /\ ~(p + k <= n)
      BY <1>3, <2>1, <2>2, <2>4
    <3>2. t[1].id = c[p].calls[k]
      BY <1>5, <2>1, <2>2, <3>1
    <3> QED BY <1>1, <1>3, <2>2, <2>4, <3>2
  <2>5. CASE p + k > n + 1
    <3> DEFINE j == p + k - (n + 1)
    <3>1. p + k - n = j + 1 /\ ~(p + k <= n) /\ ~(p + k <= n + 1) /\ j \in Nat /\ j >= 1
      BY <1>3, <2>1, <2>2, <2>5
    <3>2. j + 1 \in DOMAIN t /\ t[j + 1].id = c[p].calls[k]
      BY <1>5, <2>1, <2>2, <3>1
    <3> HIDE DEF j
    <3>3. j \in 1..(Len(t) - 1)
      BY <1>2, <3>1, <3>2
    <3>4. j \in DOMAIN u /\ u[j].id = d[p].calls[k]
      BY <1>2, <2>2, <3>2, <3>3
    <3> QED BY <3>1, <3>4 DEF j
  <2> QED BY <1>3, <2>1, <2>2, <2>3, <2>4, <2>5
<1>7. Paired(d, u, role)
  BY <1>3, <1>6 DEF Paired
<1> QED BY <1>7 DEF d, m, u

LEMMA CallsInAppend ==
  ASSUME NEW c \in Seq(Agent!Messages), NEW m \in Agent!Messages
  PROVE  /\ CallsIn(c) \in Seq(Seq(Agent!CallIds))
         /\ CallsIn(Append(c, m)) = Append(CallsIn(c), m.calls)
         /\ Flat(CallsIn(Append(c, m))) = Flat(CallsIn(c)) \o m.calls
<1> DEFINE V == Seq(Agent!CallIds)
           d == Append(c, m)
           n == Len(c)
<1>1. m.calls \in V /\ \A p \in DOMAIN c : c[p].calls \in V
  BY CallsTyped DEF Agent!Messages
<1>2. n \in Nat /\ DOMAIN c = 1..n /\ DOMAIN d = 1..(n + 1) /\ d[n + 1] = m /\ \A p \in 1..n : d[p] = c[p]
  OBVIOUS
<1> HIDE DEF V, d, n
<1>3. CallsIn(c) = [p \in 1..n |-> c[p].calls] /\ CallsIn(d) = [p \in 1..(n + 1) |-> d[p].calls]
  BY <1>2 DEF CallsIn
<1>4. CallsIn(c) \in Seq(V) /\ Len(CallsIn(c)) = n /\ \A p \in 1..n : CallsIn(c)[p] = c[p].calls
  BY <1>1, <1>2, <1>3
<1>5. CallsIn(d) \in Seq(V) /\ Len(CallsIn(d)) = n + 1 /\ \A p \in 1..(n + 1) : CallsIn(d)[p] = d[p].calls
  BY <1>1, <1>2, <1>3
<1>6. CallsIn(d) = Append(CallsIn(c), m.calls)
  <2> DEFINE x == CallsIn(c)
             y == CallsIn(d)
             z == Append(x, m.calls)
  <2>1. x \in Seq(V) /\ y \in Seq(V) /\ m.calls \in V /\ Len(x) = n /\ Len(y) = n + 1
    BY <1>1, <1>4, <1>5
  <2>2. y[n + 1] = m.calls /\ \A p \in 1..n : y[p] = x[p]
    BY <1>2, <1>4, <1>5
  <2> DEFINE w == m.calls
  <2> HIDE DEF x, y, w
  <2>3. z \in Seq(V) /\ Len(z) = n + 1 /\ z[n + 1] = w /\ \A p \in 1..n : z[p] = x[p]
    BY <1>2, <2>1 DEF w
  <2>4. \A p \in 1..(n + 1) : y[p] = z[p]
    BY <1>2, <2>2, <2>3 DEF w
  <2> HIDE DEF z
  <2>5. y = z
    BY <1>2, <2>1, <2>3, <2>4
  <2> QED BY <2>5 DEF x, y, z
<1>7. Flat(Append(CallsIn(c), m.calls)) = Flat(CallsIn(c)) \o m.calls
  BY <1>1, <1>4, FlatAppend DEF V
<1> QED BY <1>4, <1>6, <1>7 DEF V, d

\* A conversation in which nobody calls.
LEMMA NobodyCalls ==
  ASSUME NEW c \in Seq(Agent!Messages), \A p \in DOMAIN c : c[p].calls = <<>>, NEW role
  PROVE  Paired(c, <<>>, role) /\ Flat(CallsIn(c)) = <<>>
<1>1. Paired(c, <<>>, role)
  <2>1. DOMAIN <<>> = {}
    OBVIOUS
  <2> QED BY <2>1 DEF Paired
<1>2. CASE c = <<>>
  <2>1. CallsIn(c) = <<>>
    BY <1>2 DEF CallsIn
  <2> QED BY <1>1, <2>1, FlatEmpty
<1>3. CASE c # <<>>
  <2> DEFINE x == CallsIn(c)
             V == Seq({})
             e == <<>>
  <2>1. DOMAIN c = 1..Len(c) /\ Len(c) \in Nat /\ Len(c) # 0 /\ e \in V
    BY <1>3
  <2>2. x = [p \in 1..Len(c) |-> e]
    BY <2>1 DEF CallsIn
  <2> HIDE DEF V, x, e
  <2>3. x \in Seq(V) /\ x # <<>>
    BY <2>1, <2>2
  <2>4. Flat(x) \in V
    BY <2>3, FlatDef DEF V
  <2>5. Flat(x) = <<>>
    BY <2>4 DEF V
  <2> QED BY <1>1, <2>5 DEF x
<1> QED BY <1>2, <1>3

LEMMA PairStarts == Agent!Init => PairInv
<1> SUFFICES ASSUME Agent!Init PROVE PairInv
  OBVIOUS
<1>1. conv = <<>> /\ todo = <<>> /\ steps = <<>>
  BY DEF Agent!Init
<1>2. Paired(conv, <<>>, RoleOf(agent)) /\ Flat(CallsIn(conv)) = <<>>
  <2>1. conv \in Seq(Agent!Messages) /\ DOMAIN conv = {}
    BY <1>1
  <2> QED BY <2>1, NobodyCalls
<1>3. steps \o IdsOf(todo) = <<>>
  BY <1>1 DEF IdsOf
<1> QED BY <1>1, <1>2, <1>3 DEF PairInv

LEMMA PairKept ==
  ASSUME Agent!TypeOK, PlaceInv, PairInv, [Agent!Next]_agentVars
  PROVE  PairInv'
<1> SUFFICES ASSUME pc' # "threw"
             PROVE  Paired(conv', todo', RoleOf(agent')) /\ steps' \o IdsOf(todo') = Flat(CallsIn(conv'))
  BY DEF PairInv
<1>t. conv \in Seq(Agent!Messages) /\ todo \in Seq(Agent!Calls) /\ steps \in Seq(Agent!CallIds)
  BY DEF Agent!TypeOK
<1>x. ~Agent!Throws
  BY DEF Agent!Throws
<1>u. ASSUME UNCHANGED <<agent, conv, todo, steps>>, pc # "threw"
      PROVE  Paired(conv', todo', RoleOf(agent')) /\ steps' \o IdsOf(todo') = Flat(CallsIn(conv'))
  BY <1>u DEF PairInv
<1>i. \A t \in Seq(Agent!Calls) : IdsOf(t) \in Seq(Agent!CallIds) /\ Len(IdsOf(t)) = Len(t)
  <2> SUFFICES ASSUME NEW t \in Seq(Agent!Calls) PROVE IdsOf(t) \in Seq(Agent!CallIds) /\ Len(IdsOf(t)) = Len(t)
    OBVIOUS
  <2>1. DOMAIN t = 1..Len(t) /\ Len(t) \in Nat /\ \A k \in 1..Len(t) : t[k] \in Agent!Calls
    OBVIOUS
  <2>2. \A k \in 1..Len(t) : t[k].id \in Agent!CallIds
    BY <2>1 DEF Agent!Calls
  <2> QED BY <2>1, <2>2 DEF IdsOf
<1>1. CASE Agent!Begin
  <2> DEFINE before == [i \in DOMAIN memory |-> Agent!Plain("other")]
             d == before \o <<Agent!Plain("user")>>
  <2>1. d \in Seq(Agent!Messages) /\ \A p \in DOMAIN d : d[p].calls = <<>>
    <3> DEFINE x == Agent!Plain("other")
               y == Agent!Plain("user")
               Quiet == {m \in Agent!Messages : m.calls = <<>>}
    <3>1. x \in Quiet /\ y \in Quiet
      BY DEF Agent!Plain, Agent!Message, Agent!Messages, Agent!Roles
    <3>2. Len(memory) \in Nat /\ DOMAIN memory = 1..Len(memory)
      BY DEF Agent!TypeOK
    <3> HIDE DEF x, y, Quiet
    <3>3. [i \in 1..Len(memory) |-> x] \in Seq(Quiet)
      BY <3>1, <3>2
    <3>4. [i \in 1..Len(memory) |-> x] \o <<y>> \in Seq(Quiet)
      BY <3>1, <3>3
    <3>5. d \in Seq(Quiet)
      BY <3>2, <3>4 DEF x, y
    <3> HIDE DEF d
    <3>6. \A p \in DOMAIN d : d[p] \in Quiet
      BY <3>5
    <3>7. Quiet \subseteq Agent!Messages /\ \A m \in Quiet : m.calls = <<>>
      BY DEF Quiet
    <3> QED BY <3>5, <3>6, <3>7
  <2>2. conv' = d /\ todo' = todo /\ steps' = steps /\ pc = "start"
    BY <1>1 DEF Agent!Begin
  <2>3. todo = <<>> /\ steps = <<>>
    BY <2>2 DEF PlaceInv, Running
  <2> HIDE DEF d
  <2>4. Paired(d, <<>>, RoleOf(agent')) /\ Flat(CallsIn(d)) = <<>>
    BY <2>1, NobodyCalls
  <2>5. IdsOf(<<>>) = <<>>
    BY DEF IdsOf
  <2> QED BY <2>2, <2>3, <2>4, <2>5
<1>2. CASE Agent!Ask
  BY <1>2, <1>u, <1>x, AskDoes DEF Goes, agentConfig
<1>3. CASE Agent!Answer
  <2>1. PICK c \in Agent!Answers :
          /\ conv' = Append(conv, Agent!Message("assistant", IdsOf(c), <<0, 0>>))
          /\ todo' = c
    BY <1>3 DEF Agent!Answer, IdsOf
  <2> DEFINE m == Agent!Message("assistant", IdsOf(c), <<0, 0>>)
  <2>2. iter \in 1..MaxIterations /\ agent' = agent /\ steps' = steps /\ pc = "asked"
    BY <1>3, ClientsAssumption DEF Agent!Answer, PlaceInv, Agent!TypeOK
  <2>3. c \in Seq(Agent!Calls) /\ IdsOf(c) \in Seq(Agent!CallIds)
    BY <2>2, AnswersTyped
  <2>4. m \in Agent!Messages /\ m.calls = IdsOf(c)
    BY <2>3 DEF Agent!Message, Agent!Messages, Agent!Roles
  <2>5. todo = <<>> /\ Paired(conv, <<>>, RoleOf(agent)) /\ steps \o IdsOf(todo) = Flat(CallsIn(conv))
    BY <2>2 DEF PlaceInv, Running, PairInv
  <2>6. Paired(Append(conv, m), c, RoleOf(agent))
    BY <1>t, <2>3, <2>5, PairedAnswer
  <2>7. Flat(CallsIn(Append(conv, m))) = Flat(CallsIn(conv)) \o IdsOf(c)
    BY <1>t, <2>4, CallsInAppend
  <2>8. steps \o IdsOf(todo) = steps
    BY <1>t, <2>5 DEF IdsOf
  <2> QED BY <2>1, <2>2, <2>5, <2>6, <2>7, <2>8
<1>4. CASE Agent!StoreUser \/ Agent!StoreAnswer
  BY <1>4, <1>u, <1>x DEF Agent!StoreUser, Agent!StoreAnswer, Agent!Store
<1>5. CASE Agent!Finish
  <2>1. todo = <<>>
    BY <1>5, FinishDoes DEF PlaceInv, Running
  <2> QED BY <1>5, <1>u, <2>1, FinishDoes DEF agentConfig
<1>6. CASE Agent!BeginTool
  BY <1>6, <1>u, <1>x, BeginToolDoes DEF Goes, agentConfig
<1>7. CASE Agent!RunTool
  BY <1>7, <1>u, <1>x, RunToolDoes DEF Agent!ToolEnds, agentConfig
<1>8. CASE Agent!Observe
  <2> DEFINE id == Head(todo).id
             m == Response(RoleOf(agent), id)
  <2>1. /\ pc = "observe" /\ agent' = agent /\ steps' = Append(steps, id)
        /\ conv' = Append(conv, m) /\ todo' = Tail(todo)
    BY <1>8, <1>x, ObserveDoes DEF Agent!Observed, Agent!Reply, Response, RoleOf, agentConfig
  <2>2. todo # <<>> /\ Paired(conv, todo, RoleOf(agent)) /\ steps \o IdsOf(todo) = Flat(CallsIn(conv))
    BY <2>1 DEF PlaceInv, Running, PairInv
  <2>3. id \in Agent!CallIds
    <3>1. Head(todo) \in Agent!Calls
      BY <1>t, <2>2
    <3> QED BY <3>1 DEF Agent!Calls
  <2>4. m \in Agent!Messages /\ m.calls = <<>>
    BY <2>3 DEF Response, RoleOf, Agent!Message, Agent!Messages, Agent!Roles
  <2>5. Paired(Append(conv, m), Tail(todo), RoleOf(agent))
    BY <1>t, <2>2, PairedObserve
  <2>6. Flat(CallsIn(Append(conv, m))) = Flat(CallsIn(conv)) \o <<>>
    BY <1>t, <2>4, CallsInAppend
  <2>7. Append(steps, id) \o IdsOf(Tail(todo)) = steps \o IdsOf(todo)
    <3> DEFINE T == Agent!CallIds
               a == IdsOf(todo)
               b == IdsOf(Tail(todo))
    <3>0. Tail(todo) \in Seq(Agent!Calls) /\ Len(Tail(todo)) = Len(todo) - 1
      BY <1>t, <2>2
    <3> HIDE DEF id
    <3>1. a \in Seq(T) /\ b \in Seq(T) /\ steps \in Seq(T) /\ id \in T /\ Len(a) = Len(todo) /\ Len(b) = Len(todo) - 1
      BY <1>i, <1>t, <2>3, <3>0
    <3>2. Len(todo) \in Nat /\ Len(todo) >= 1 /\ a[1] = id /\ \A k \in 1..(Len(todo) - 1) : b[k] = a[k + 1]
      BY <1>t, <2>2 DEF IdsOf, id
    <3> HIDE DEF T, a, b
    <3> DEFINE x == Append(steps, id) \o b
               y == steps \o a
    <3>3. x \in Seq(T) /\ y \in Seq(T) /\ Len(x) = Len(steps) + Len(a) /\ Len(y) = Len(x) /\ Len(steps) \in Nat
      <4>1. Append(steps, id) \in Seq(T) /\ Len(Append(steps, id)) = Len(steps) + 1 /\ Len(steps) \in Nat
        BY <3>1
      <4> DEFINE r == Append(steps, id)
      <4> HIDE DEF r
      <4>2. r \o b \in Seq(T) /\ Len(r \o b) = Len(r) + Len(b)
        BY <3>1, <4>1 DEF r
      <4>3. y \in Seq(T) /\ Len(y) = Len(steps) + Len(a)
        BY <3>1
      <4> HIDE DEF y
      <4>4. x = r \o b /\ Len(r) = Len(steps) + 1
        BY <4>1 DEF r
      <4> HIDE DEF x
      <4>5. x \in Seq(T) /\ Len(x) = Len(r) + Len(b)
        BY <4>2, <4>4
      <4>6. Len(r) + Len(b) = Len(steps) + Len(a)
        BY <3>1, <3>2, <4>1, <4>4
      <4> QED BY <4>1, <4>3, <4>5, <4>6
    <3>4. \A i \in 1..Len(x) : x[i] = y[i]
      <4> DEFINE n == Len(steps)
                 r == Append(steps, id)
      <4>1. r \in Seq(T) /\ Len(r) = n + 1 /\ r[n + 1] = id /\ \A i \in 1..n : r[i] = steps[i]
        BY <3>1
      <4>2. \A i \in 1..Len(x) : x[i] = IF i <= n + 1 THEN r[i] ELSE b[i - (n + 1)]
        BY <3>1, <4>1
      <4>3. \A i \in 1..Len(x) : y[i] = IF i <= n THEN steps[i] ELSE a[i - n]
        BY <3>1, <3>3
      <4> HIDE DEF x, y, n, r
      <4> TAKE i \in 1..Len(x)
      <4>4. i \in Nat /\ n \in Nat /\ i >= 1 /\ i <= n + Len(todo)
        BY <3>1, <3>2, <3>3 DEF n
      <4>5. CASE i <= n
        BY <4>1, <4>2, <4>3, <4>4, <4>5
      <4>6. CASE i = n + 1
        BY <3>2, <4>1, <4>2, <4>3, <4>4, <4>6
      <4>7. CASE i > n + 1
        <5> DEFINE j == i - (n + 1)
        <5>1. j \in 1..(Len(todo) - 1) /\ i - n = j + 1
          BY <3>2, <4>4, <4>7
        <5> HIDE DEF j
        <5>2. b[j] = a[j + 1]
          BY <3>2, <5>1
        <5>3. ~(i <= n + 1) /\ ~(i <= n)
          BY <4>4, <4>7
        <5>4. y[i] = a[j + 1]
          BY <4>3, <5>1, <5>3
        <5> QED BY <4>2, <5>2, <5>3, <5>4 DEF j
      <4> QED BY <4>4, <4>5, <4>6, <4>7
    <3> HIDE DEF x, y
    <3>5. x = y
      BY <3>3, <3>4
    <3> QED BY <3>5 DEF x, y, a, b
  <2>8. Flat(CallsIn(conv)) \o <<>> = steps \o IdsOf(todo)
    <3>1. steps \o IdsOf(todo) \in Seq(Agent!CallIds)
      BY <1>i, <1>t
    <3> QED BY <2>2, <3>1
  <2> QED BY <2>1, <2>5, <2>6, <2>7, <2>8
<1>9. CASE Agent!GiveUp
  <2>1. todo = <<>>
    BY <1>9, GiveUpDoes DEF PlaceInv, Running
  <2> QED BY <1>9, <1>u, <2>1, GiveUpDoes DEF agentConfig
<1>10. CASE Agent!OtherAdds
  BY <1>10, <1>u DEF Agent!OtherAdds
<1>11. CASE UNCHANGED agentVars
  BY <1>11, <1>u DEF agentVars
<1> QED BY <1>1, <1>2, <1>3, <1>4, <1>5, <1>6, <1>7, <1>8, <1>9, <1>10, <1>11 DEF Agent!Next, Agent!Step

LEMMA AllAnswered == Agent!TypeOK /\ PlaceInv /\ PairInv => Agent!EveryCallAnswered
<1> SUFFICES ASSUME Agent!TypeOK, PlaceInv, PairInv, pc = "ask"
             PROVE  /\ \A p \in DOMAIN conv : \A k \in DOMAIN conv[p].calls :
                         p + k \in DOMAIN conv /\ conv[p + k] = Agent!Reply(conv[p].calls[k])
                    /\ steps = Agent!FlattenSeq([p \in DOMAIN conv |-> conv[p].calls])
  BY DEF Agent!EveryCallAnswered
<1>1. todo = <<>> /\ Paired(conv, <<>>, RoleOf(agent)) /\ steps \o IdsOf(todo) = Flat(CallsIn(conv))
  BY DEF PlaceInv, PairInv, Running
<1>2. conv \in Seq(Agent!Messages) /\ steps \in Seq(Agent!CallIds)
  BY DEF Agent!TypeOK
<1>3. steps \o IdsOf(todo) = steps
  BY <1>1, <1>2 DEF IdsOf
<1>4. Flat(CallsIn(conv)) = Agent!FlattenSeq([p \in DOMAIN conv |-> conv[p].calls])
  BY DEF Flat, Agent!FlattenSeq, CallsIn
<1>5. ASSUME NEW p \in DOMAIN conv, NEW k \in DOMAIN conv[p].calls
      PROVE  p + k \in DOMAIN conv /\ conv[p + k] = Agent!Reply(conv[p].calls[k])
  <2>1. p + k <= Len(conv) /\ conv[p + k] = Response(RoleOf(agent), conv[p].calls[k])
    <3>1. DOMAIN <<>> = {}
      OBVIOUS
    <3> QED BY <1>1, <3>1 DEF Paired
  <2>2. k \in Nat /\ p \in 1..Len(conv) /\ Len(conv) \in Nat
    <3>1. conv[p].calls \in Seq(Agent!CallIds)
      BY <1>2, CallsTyped
    <3> QED BY <1>2, <3>1
  <2> QED BY <1>2, <2>1, <2>2 DEF Agent!Reply, Response, RoleOf
<1> QED BY <1>1, <1>3, <1>4, <1>5

-----------------------------------------------------------------------------
(* The turn.  What the invocation adds to the memory is in its place there *)
(* whatever others add, and is whole when the invocation is over.          *)
Whole == <<"user", "answer">>
Turn == {"user", "answer"}
Closing == Len(conv) > 0 /\ conv[Len(conv)].role = "assistant" /\ conv[Len(conv)].calls = <<>>

TurnInv ==
  /\ Sifted(memory, Turn) = stored
  /\ stored \in {<<>>, <<"user">>, Whole}
  /\ pc \in Running \cup {"start", "ask", "asked", "storeUser"} => stored = <<>>
  /\ pc = "storeAnswer" => stored = <<"user">>
  /\ pc = "stored" => stored = IF mem THEN Whole ELSE <<>>
  /\ pc = "returned" => stored = IF mem /\ finished THEN Whole ELSE <<>>
  /\ pc \notin {"returned", "threw"} => finished
  /\ pc \in {"storeUser", "storeAnswer"} => mem
  /\ pc = "storeUser" \/ stored # <<>> => Closing

LEMMA AppendOne == ASSUME NEW a, NEW b PROVE Append(<<a>>, b) = <<a, b>>
<1> DEFINE T == {a, b}
           x == <<a>>
           z == Append(x, b)
           m == Len(x)
<1>1. x \in Seq(T) /\ m = 1 /\ x[1] = a /\ b \in T
  OBVIOUS
<1> HIDE DEF T, x
<1>2. z \in Seq(T) /\ m \in Nat /\ Len(z) = m + 1 /\ z[m + 1] = b /\ \A i \in 1..m : z[i] = x[i]
  BY <1>1
<1> HIDE DEF z, m
<1>3. z \in Seq(T) /\ Len(z) = 2 /\ z[1] = a /\ z[2] = b
  BY <1>1, <1>2
<1>4. z = <<a, b>>
  BY <1>3
<1> QED BY <1>4 DEF z, x

LEMMA TurnStarts == Agent!Init => TurnInv
<1> SUFFICES ASSUME Agent!Init PROVE TurnInv
  OBVIOUS
<1>1. Sifted(memory, Turn) = <<>>
  <2>1. Sifted(<<>>, Turn) = <<>>
    BY SiftedEmpty
  <2>2. Sifted(<<"other">>, Turn) = <<>>
    <3>1. <<"other">> \in Seq({"other"}) /\ {"other"} \cap Turn = {}
      BY DEF Turn
    <3> QED BY <3>1, SiftedNothing
  <2> QED BY <2>1, <2>2 DEF Agent!Init
<1> QED BY <1>1 DEF Agent!Init, TurnInv, Running, Whole

LEMMA TurnKept ==
  ASSUME Agent!TypeOK, PlaceInv, TurnInv, [Agent!Next]_agentVars
  PROVE  TurnInv'
<1> USE DEF Running
<1>t. /\ memory \in Seq({"other", "user", "answer"}) /\ stored \in Seq(Turn) /\ conv \in Seq(Agent!Messages)
      /\ mem \in BOOLEAN /\ finished \in BOOLEAN
  BY DEF Agent!TypeOK, Turn
<1>x. Agent!Throws => pc' = "threw" /\ conv' = conv
  BY DEF Agent!Throws
<1>u. ASSUME UNCHANGED <<memory, stored>> PROVE Sifted(memory', Turn) = stored'
  BY <1>u DEF TurnInv
\* Nothing of the turn is touched, and the next place asks no more.
<1>s. ASSUME UNCHANGED <<mem, memory, stored, conv, finished>>, pc' = "threw"
      PROVE  TurnInv'
  BY <1>s, <1>u DEF TurnInv, Closing
<1>r. ASSUME UNCHANGED <<mem, memory, stored, finished>>, stored = <<>>, finished,
             pc' \in Running \cup {"ask", "asked"}
      PROVE  TurnInv'
  BY <1>r, <1>u DEF TurnInv
<1>1. CASE Agent!Begin
  BY <1>1, <1>r DEF Agent!Begin, TurnInv
<1>2. CASE Agent!Ask
  <2>1. UNCHANGED <<mem, memory, stored, finished, conv>> /\ stored = <<>> /\ finished /\ pc' \in {"asked", "threw"}
    BY <1>2, <1>x, AskDoes DEF Goes, agentConfig, TurnInv
  <2> QED BY <1>r, <1>s, <2>1
<1>3. CASE Agent!Answer
  <2>1. PICK c \in Agent!Answers :
          /\ conv' = Append(conv, Agent!Message("assistant", IdsOf(c), <<0, 0>>))
          /\ pc' = IF c # <<>> THEN "call" ELSE IF mem THEN "storeUser" ELSE "stored"
    BY <1>3 DEF Agent!Answer, IdsOf
  <2>2. UNCHANGED <<mem, memory, stored, finished>> /\ stored = <<>> /\ finished
    BY <1>3 DEF Agent!Answer, TurnInv
  <2>3. c # <<>> => TurnInv'
    BY <1>r, <2>1, <2>2
  <2>4. c = <<>> => Closing'
    <3> DEFINE m == Agent!Message("assistant", IdsOf(c), <<0, 0>>)
               d == Append(conv, m)
    <3>1. c = <<>> => m.role = "assistant" /\ m.calls = <<>>
      BY DEF Agent!Message, IdsOf
    <3>2. Len(d) > 0 /\ d[Len(d)] = m
      BY <1>t
    <3>3. conv' = d
      BY <2>1
    <3> HIDE DEF m, d
    <3> QED BY <3>1, <3>2, <3>3 DEF Closing
  <2>5. c = <<>> => TurnInv'
    BY <1>u, <2>1, <2>2, <2>4 DEF TurnInv, Whole
  <2> QED BY <2>3, <2>5
<1>4. ASSUME NEW m \in Turn, Agent!Adds(m)
      PROVE  Sifted(memory', Turn) = stored'
  <2>1. Sifted(Append(memory, m), Turn) = Append(Sifted(memory, Turn), m)
    <3> DEFINE T == {"other", "user", "answer"}
    <3>1. memory \in Seq(T) /\ m \in T /\ m \in Turn
      BY <1>t DEF Turn
    <3> HIDE DEF T
    <3> QED BY <3>1, SiftedAppend
  <2> QED BY <1>4, <2>1 DEF Agent!Adds, TurnInv
<1>5. CASE Agent!StoreUser
  <2>1. pc = "storeUser" /\ stored = <<>> /\ finished /\ mem /\ Closing /\ UNCHANGED <<mem, finished>>
    BY <1>5 DEF Agent!StoreUser, Agent!Store, TurnInv
  <2>2. conv' = conv
    BY <1>5, <1>x DEF Agent!StoreUser, Agent!Store
  <2>3. CASE Agent!Adds("user") /\ pc' \in {"storeAnswer", "threw"}
    <3>1. Sifted(memory', Turn) = stored'
      BY <1>4, <2>3 DEF Turn
    <3>2. stored' = <<"user">>
      BY <2>1, <2>3 DEF Agent!Adds
    <3>3. Closing'
      BY <2>1, <2>2 DEF Closing
    <3> QED BY <2>1, <2>3, <3>1, <3>2, <3>3 DEF TurnInv
  <2>4. CASE UNCHANGED <<memory, stored>> /\ pc' = "threw"
    BY <1>s, <2>1, <2>2, <2>4
  <2> QED BY <1>5, <1>x, <2>3, <2>4 DEF Agent!StoreUser, Agent!Store
<1>6. CASE Agent!StoreAnswer
  <2>1. pc = "storeAnswer" /\ stored = <<"user">> /\ finished /\ mem /\ Closing /\ UNCHANGED <<mem, finished>>
    BY <1>6 DEF Agent!StoreAnswer, Agent!Store, TurnInv
  <2>2. conv' = conv
    BY <1>6, <1>x DEF Agent!StoreAnswer, Agent!Store
  <2>3. CASE Agent!Adds("answer") /\ pc' \in {"stored", "threw"}
    <3>1. Sifted(memory', Turn) = stored'
      BY <1>4, <2>3 DEF Turn
    <3>2. stored' = Whole
      <4>1. Append(<<"user">>, "answer") = <<"user", "answer">>
        BY AppendOne
      <4> QED BY <2>1, <2>3, <4>1 DEF Agent!Adds, Whole
    <3>3. Closing'
      BY <2>1, <2>2 DEF Closing
    <3> QED BY <2>1, <2>3, <3>1, <3>2, <3>3 DEF TurnInv
  <2>4. CASE UNCHANGED <<memory, stored>> /\ pc' = "threw"
    BY <1>s, <2>1, <2>2, <2>4
  <2> QED BY <1>6, <1>x, <2>3, <2>4 DEF Agent!StoreAnswer, Agent!Store
<1>7. CASE Agent!Finish
  <2>1. UNCHANGED <<mem, memory, stored, conv, finished>> /\ pc = "stored" /\ pc' \in {"returned", "threw"}
    BY <1>7, FinishDoes DEF agentConfig
  <2> QED BY <1>u, <2>1 DEF TurnInv, Closing
<1>8. CASE Agent!BeginTool
  <2>1. UNCHANGED <<mem, memory, stored, finished, conv>> /\ stored = <<>> /\ finished /\ pc' \in Running \cup {"threw"}
    BY <1>8, <1>x, BeginToolDoes DEF Goes, agentConfig, TurnInv
  <2> QED BY <1>r, <1>s, <2>1
<1>9. CASE Agent!RunTool
  <2>1. UNCHANGED <<mem, memory, stored, finished, conv>> /\ stored = <<>> /\ finished /\ pc' \in Running \cup {"threw"}
    BY <1>9, <1>x, RunToolDoes DEF Agent!ToolEnds, agentConfig, TurnInv
  <2> QED BY <1>r, <1>s, <2>1
<1>10. CASE Agent!Observe
  <2>1. UNCHANGED <<mem, memory, stored, finished>> /\ stored = <<>> /\ finished
    BY <1>10, ObserveDoes DEF agentConfig, TurnInv
  <2>2. pc' \in {"ask", "call"} \/ (pc' = "threw" /\ conv' = conv)
    BY <1>10, <1>x, ObserveDoes DEF Agent!Observed
  <2> QED BY <1>r, <1>s, <2>1, <2>2
<1>11. CASE Agent!GiveUp
  <2>1. /\ UNCHANGED <<mem, memory, stored, conv>> /\ stored = <<>> /\ finished' = FALSE
        /\ pc' \in {"returned", "threw"}
    BY <1>11, GiveUpDoes DEF agentConfig, TurnInv
  <2> QED BY <1>u, <2>1 DEF TurnInv
<1>12. CASE Agent!OtherAdds
  <2>1. memory' = Append(memory, "other") /\ UNCHANGED <<mem, pc, stored, conv, finished>>
    BY <1>12 DEF Agent!OtherAdds
  <2>2. Sifted(Append(memory, "other"), Turn) = Sifted(memory, Turn)
    <3>1. "other" \in {"other", "user", "answer"} /\ "other" \notin Turn
      BY DEF Turn
    <3> QED BY <1>t, <3>1, SiftedAppend
  <2> QED BY <2>1, <2>2 DEF TurnInv, Closing
<1>13. CASE UNCHANGED agentVars
  BY <1>13 DEF agentVars, TurnInv, Closing
<1> QED BY <1>1, <1>2, <1>3, <1>5, <1>6, <1>7, <1>8, <1>9, <1>10, <1>11, <1>12, <1>13 DEF Agent!Next, Agent!Step

LEMMA TurnHolds == TurnInv => Agent!TurnStored
<1> SUFFICES ASSUME TurnInv PROVE Agent!TurnStored
  OBVIOUS
<1>1. Agent!Only(memory, {"user", "answer"}) = stored
  BY DEF TurnInv, Agent!Only, Sifted, Turn
<1>2. Agent!IsPrefix(stored, Whole)
  <2> DEFINE w == Whole
  <2>1. w \in Seq(Turn) /\ Len(w) = 2 /\ w[1] = "user"
    BY DEF Whole, Turn
  <2>2. SubSeq(w, 1, 1) = <<"user">>
    <3> DEFINE x == SubSeq(w, 1, 1)
               y == <<"user">>
    <3>1. y \in Seq(Turn) /\ Len(y) = 1 /\ y[1] = "user"
      BY DEF Turn
    <3> HIDE DEF w, y
    <3>2. x \in Seq(Turn) /\ Len(x) = 1 /\ x[1] = "user"
      BY <2>1
    <3> HIDE DEF x
    <3>3. x = y
      BY <3>1, <3>2
    <3> QED BY <3>3 DEF x, y
  <2>3. CASE stored = <<>>
    <3>1. SubSeq(w, 1, 0) = <<>> /\ SubSeq(<<>>, 1, 0) = <<>> /\ Len(<<>>) = 0
      <4> HIDE DEF w
      <4> QED BY <2>1
    <3> QED BY <2>1, <2>3, <3>1 DEF Agent!IsPrefix
  <2>4. CASE stored = <<"user">>
    <3>1. SubSeq(<<"user">>, 1, 1) = <<"user">> /\ Len(<<"user">>) = 1
      <4>1. <<"user">> \in Seq(Turn) /\ Len(<<"user">>) = 1
        BY DEF Turn
      <4>2. SubSeq(<<"user">>, 1, Len(<<"user">>)) = <<"user">>
        BY <4>1, SubSeqFull
      <4> QED BY <4>1, <4>2
    <3> QED BY <2>1, <2>2, <2>4, <3>1 DEF Agent!IsPrefix
  <2>5. CASE stored = Whole
    <3>1. Len(Whole) <= Len(Whole)
      BY <2>1
    <3> QED BY <2>5, <3>1, Zenon DEF Agent!IsPrefix
  <2> QED BY <2>3, <2>4, <2>5 DEF TurnInv
<1> QED BY <1>1, <1>2 DEF TurnInv, Agent!TurnStored, Closing, Agent!Last, Whole

-----------------------------------------------------------------------------
(* What on_event was told.  Between two calls of tools it was told as many *)
(* ToolCalls and Observations as there are steps; a Done is the last it is *)
(* told.                                                                   *)
Tally(p, a, b, n) ==
  IF p \in {"tool", "observe"} THEN a = n + 1 /\ b = n
  ELSE IF p = "threw" THEN a - b \in 0..1 ELSE a = n /\ b = n

TallyInv ==
  /\ mode # "event" => events = <<>>
  /\ mode = "event" => Tally(pc, Count(events, "ToolCall"), Count(events, "Observation"), Len(steps))

\* A Done is told last, when the turn is in the memory.
NoDone(s) == \A i \in DOMAIN s : s[i] # "Done"

DoneInv ==
  /\ pc \notin {"returned", "threw"} => NoDone(events)
  /\ \A i \in DOMAIN events : events[i] = "Done" => i = Len(events) /\ (mem => stored = Whole)
  /\ mode = "event" /\ pc = "returned" =>
       Len(events) > 0 /\ events[Len(events)] = (IF finished THEN "Done" ELSE "Error")

LEMMA EventsStart == Agent!Init => TallyInv /\ DoneInv
<1> SUFFICES ASSUME Agent!Init PROVE TallyInv /\ DoneInv
  OBVIOUS
<1>1. events = <<>> /\ steps = <<>> /\ pc = "start" /\ DOMAIN events = {}
  BY DEF Agent!Init
<1>2. \A type : Count(events, type) = 0
  BY <1>1, SiftedEmpty DEF Count
<1> QED BY <1>1, <1>2 DEF TallyInv, Tally, DoneInv, NoDone

LEMMA TallyKept ==
  ASSUME Agent!TypeOK, PlaceInv, TallyInv, [Agent!Next]_agentVars
  PROVE  TallyInv'
<1> DEFINE E == Agent!EventTypes
           A(s) == Count(s, "ToolCall")
           B(s) == Count(s, "Observation")
           n == Len(steps)
<1>t. events \in Seq(E) /\ n \in Nat /\ {"Thought", "ToolCall", "Observation", "Answer", "Error", "Done"} \subseteq E
  BY DEF Agent!TypeOK, Agent!EventTypes
<1>x. Agent!Throws => pc' = "threw"
  BY DEF Agent!Throws
<1> HIDE DEF E
<1>a. ASSUME NEW s \in Seq(E), NEW e \in E
      PROVE  /\ A(s) \in Nat /\ B(s) \in Nat /\ Append(s, e) \in Seq(E)
             /\ A(Append(s, e)) = IF e = "ToolCall" THEN A(s) + 1 ELSE A(s)
             /\ B(Append(s, e)) = IF e = "Observation" THEN B(s) + 1 ELSE B(s)
  BY CountAppend
<1>b. \A s \in Seq(E), e \in E : e \notin {"ToolCall", "Observation"} =>
        Append(s, e) \in Seq(E) /\ A(Append(s, e)) = A(s) /\ B(Append(s, e)) = B(s)
  BY <1>a
<1>n. A(events) \in Nat /\ B(events) \in Nat
  BY <1>a, <1>t
<1> HIDE DEF A, B, n
<1>i. mode = "event" => Tally(pc, A(events), B(events), n)
  BY DEF TallyInv, A, B, n
<1>p. ASSUME mode' = mode,
             mode # "event" => events' = events,
             mode = "event" => Tally(pc', A(events'), B(events'), Len(steps'))
      PROVE  TallyInv'
  BY <1>p DEF TallyInv, A, B
\* A step that tells nothing of a call, or nothing.
<1>s. ASSUME mode' = mode, UNCHANGED steps,
             mode # "event" => events' = events,
             A(events') = A(events) /\ B(events') = B(events),
             \/ pc' = "threw"
             \/ pc' \in {"tool", "observe"} <=> pc \in {"tool", "observe"},
             pc # "threw" \/ pc' = "threw"
      PROVE  TallyInv'
  <2>1. mode = "event" => Tally(pc', A(events), B(events), n)
    BY <1>i, <1>n, <1>s, <1>t DEF Tally
  <2> QED BY <1>p, <1>s, <2>1 DEF n
<1>1. CASE Agent!Begin
  BY <1>1, <1>s DEF Agent!Begin
<1>2. CASE Agent!Ask
  <2>1. A(events') = A(events) /\ B(events') = B(events)
    BY <1>2, <1>b, <1>t, AskDoes
  <2> QED BY <1>2, <1>s, <1>x, <2>1, AskDoes DEF Goes, agentConfig
<1>3. CASE Agent!Answer
  BY <1>3, <1>s DEF Agent!Answer
<1>4. CASE Agent!StoreUser \/ Agent!StoreAnswer
  BY <1>4, <1>s, <1>x DEF Agent!StoreUser, Agent!StoreAnswer, Agent!Store
<1>5. CASE Agent!Finish
  <2>1. A(events') = A(events) /\ B(events') = B(events)
    <3> DEFINE y == Append(events, "Answer")
               z == Append(y, "Done")
    <3>1. y \in Seq(E) /\ A(y) = A(events) /\ B(y) = B(events)
      BY <1>b, <1>t
    <3> HIDE DEF y
    <3>2. A(z) = A(y) /\ B(z) = B(y)
      BY <1>b, <1>t, <3>1
    <3>3. events' \in {events, y, z}
      BY <1>5, FinishDoes DEF y
    <3> QED BY <3>1, <3>2, <3>3
  <2>2. pc = "stored" /\ pc' \in {"returned", "threw"} /\ UNCHANGED <<mode, steps>> /\ (mode # "event" => events' = events)
    BY <1>5, FinishDoes DEF agentConfig
  <2> QED BY <1>s, <2>1, <2>2
<1>6. CASE Agent!BeginTool
  <2>1. /\ pc = "call" /\ pc' \in {"tool", "observe", "threw"} /\ UNCHANGED <<mode, steps>>
        /\ mode # "event" => events' = events
        /\ mode = "event" => events' \in {Append(events, "ToolCall"), Append(Append(events, "ToolCall"), "Error")}
    BY <1>6, <1>x, BeginToolDoes DEF Goes, agentConfig
  <2>2. /\ Append(events, "ToolCall") \in Seq(E)
        /\ A(Append(events, "ToolCall")) = A(events) + 1 /\ B(Append(events, "ToolCall")) = B(events)
    BY <1>a, <1>t
  <2>3. mode = "event" => A(events') = A(events) + 1 /\ B(events') = B(events)
    <3> DEFINE y == Append(events, "ToolCall")
               z == Append(y, "Error")
    <3>1. mode = "event" => events' \in {y, z}
      BY <2>1
    <3>2. y \in Seq(E) /\ A(y) = A(events) + 1 /\ B(y) = B(events)
      BY <2>2
    <3> HIDE DEF y
    <3>3. A(z) = A(y) /\ B(z) = B(y)
      BY <1>b, <1>t, <3>2
    <3> QED BY <3>1, <3>2, <3>3
  <2>4. mode = "event" => Tally(pc', A(events'), B(events'), n)
    BY <1>i, <1>n, <1>t, <2>1, <2>3 DEF Tally
  <2> QED BY <1>p, <2>1, <2>4 DEF n
<1>7. CASE Agent!RunTool
  <2>1. A(events') = A(events) /\ B(events') = B(events)
    BY <1>7, <1>b, <1>t, RunToolDoes
  <2> QED BY <1>7, <1>s, <1>x, <2>1, RunToolDoes DEF Agent!ToolEnds, agentConfig
<1>8. CASE Agent!Observe
  <2>1. /\ pc = "observe" /\ pc' \in {"ask", "call", "threw"} /\ mode' = mode /\ steps' = Append(steps, Head(todo).id)
        /\ mode # "event" => events' = events
        /\ mode = "event" => events' = Append(events, "Observation")
    BY <1>8, <1>x, ObserveDoes DEF Agent!Observed, agentConfig
  <2>2. Len(steps') = n + 1
    <3> DEFINE x == Head(todo).id
               T == Agent!CallIds
    <3>1. steps \in Seq(T) /\ todo \in Seq(Agent!Calls) /\ todo # <<>>
      BY <2>1 DEF Agent!TypeOK, PlaceInv, Running
    <3>2. Head(todo) \in Agent!Calls
      BY <3>1
    <3>3. x \in T
      BY <3>2 DEF Agent!Calls
    <3> HIDE DEF x, T
    <3>4. Len(Append(steps, x)) = Len(steps) + 1
      BY <3>1, <3>3
    <3> QED BY <2>1, <3>4 DEF x, n
  <2>3. mode = "event" => A(events') = A(events) /\ B(events') = B(events) + 1
    BY <1>a, <1>t, <2>1
  <2>4. mode = "event" => Tally(pc', A(events'), B(events'), n + 1)
    BY <1>i, <1>n, <1>t, <2>1, <2>3 DEF Tally
  <2> QED BY <1>p, <2>1, <2>2, <2>4
<1>9. CASE Agent!GiveUp
  <2>1. pc = "ask" /\ pc' \in {"returned", "threw"} /\ UNCHANGED <<mode, steps>> /\ (mode # "event" => events' = events)
    BY <1>9, GiveUpDoes DEF agentConfig
  <2>2. A(events') = A(events) /\ B(events') = B(events)
    <3>1. events' = events \/ events' = Append(events, "Error")
      BY <1>9, GiveUpDoes
    <3>2. "Error" \in E /\ "Error" \notin {"ToolCall", "Observation"}
      BY <1>t
    <3> QED BY <1>b, <1>t, <3>1, <3>2
  <2> QED BY <1>s, <2>1, <2>2
<1>10. CASE Agent!OtherAdds
  BY <1>10, <1>s DEF Agent!OtherAdds
<1>11. CASE UNCHANGED agentVars
  BY <1>11, <1>s DEF agentVars
<1> QED BY <1>1, <1>2, <1>3, <1>4, <1>5, <1>6, <1>7, <1>8, <1>9, <1>10, <1>11 DEF Agent!Next, Agent!Step

LEMMA AppendTells ==
  ASSUME NEW T, NEW s \in Seq(T), NEW e \in T
  PROVE  /\ Append(s, e) \in Seq(T) /\ Len(s) \in Nat /\ Len(Append(s, e)) = Len(s) + 1
         /\ DOMAIN Append(s, e) = 1..(Len(s) + 1) /\ DOMAIN s = 1..Len(s)
         /\ Append(s, e)[Len(s) + 1] = e /\ \A i \in 1..Len(s) : Append(s, e)[i] = s[i]
         /\ e # "Done" /\ NoDone(s) => NoDone(Append(s, e))
<1> DEFINE t == Append(s, e)
           n == Len(s)
<1>1. /\ t \in Seq(T) /\ n \in Nat /\ Len(t) = n + 1 /\ DOMAIN t = 1..(n + 1) /\ DOMAIN s = 1..n
      /\ t[n + 1] = e /\ \A i \in 1..n : t[i] = s[i]
  OBVIOUS
<1> HIDE DEF t, n
<1>2. e # "Done" /\ NoDone(s) => NoDone(t)
  <2> SUFFICES ASSUME e # "Done", NoDone(s), NEW i \in 1..(n + 1) PROVE t[i] # "Done"
    BY <1>1 DEF NoDone
  <2>1. i \in 1..n \/ i = n + 1
    BY <1>1
  <2> QED BY <1>1, <2>1 DEF NoDone
<1> QED BY <1>1, <1>2 DEF t, n

LEMMA DoneKept ==
  ASSUME Agent!TypeOK, PlaceInv, TurnInv, TallyInv, DoneInv, [Agent!Next]_agentVars
  PROVE  DoneInv'
<1> DEFINE E == Agent!EventTypes
<1>t. events \in Seq(E) /\ {"Thought", "ToolCall", "Observation", "Answer", "Error", "Done"} \subseteq E
  BY DEF Agent!TypeOK, Agent!EventTypes
<1>x. Agent!Throws => pc' = "threw"
  BY DEF Agent!Throws
<1> HIDE DEF E
<1>a. \A s \in Seq(E), e \in E : Append(s, e) \in Seq(E) /\ (e # "Done" /\ NoDone(s) => NoDone(Append(s, e)))
  BY AppendTells
\* The run goes on or fails, and has not told Done.
<1>s. ASSUME NoDone(events'), pc' # "returned" PROVE DoneInv'
  BY <1>s DEF DoneInv, NoDone
<1>k. ASSUME UNCHANGED <<mode, mem, stored, events, finished>>, pc' = pc PROVE DoneInv'
  BY <1>k DEF DoneInv
<1>1. CASE Agent!Begin
  BY <1>1, <1>s DEF Agent!Begin, DoneInv
<1>2. CASE Agent!Ask
  <2>1. NoDone(events') /\ pc' \in {"asked", "threw"}
    BY <1>2, <1>a, <1>t, <1>x, AskDoes DEF Goes, DoneInv
  <2> QED BY <1>s, <2>1
<1>3. CASE Agent!Answer
  BY <1>3, <1>s DEF Agent!Answer, DoneInv
<1>4. CASE Agent!StoreUser \/ Agent!StoreAnswer
  BY <1>4, <1>s, <1>x DEF Agent!StoreUser, Agent!StoreAnswer, Agent!Store, DoneInv
<1>5. CASE Agent!Finish
  <2> DEFINE y == Append(events, "Answer")
             z == Append(y, "Done")
  <2>1. pc = "stored" /\ NoDone(events) /\ finished /\ (mem => stored = Whole)
    BY <1>5, FinishDoes DEF DoneInv, TurnInv
  <2>2. y \in Seq(E) /\ NoDone(y)
    BY <1>a, <1>t, <2>1
  <2>3. UNCHANGED <<mem, stored, finished, mode>>
    BY <1>5, FinishDoes DEF agentConfig
  <2>4. \/ mode # "event" /\ events' = events /\ pc' = "returned"
        \/ mode = "event" /\ events' = y /\ pc' = "threw"
        \/ mode = "event" /\ events' = z /\ pc' \in {"returned", "threw"}
    BY <1>5, FinishDoes
  <2> DEFINE m == Len(y) + 1
  <2>5. /\ m \in Nat /\ m > 0 /\ Len(z) = m /\ DOMAIN z = 1..m /\ DOMAIN y = 1..(m - 1) /\ z[m] = "Done"
        /\ \A i \in 1..(m - 1) : z[i] = y[i]
    <3> HIDE DEF y
    <3>1. /\ Len(y) \in Nat /\ Len(z) = Len(y) + 1 /\ DOMAIN z = 1..(Len(y) + 1) /\ DOMAIN y = 1..Len(y)
          /\ z[Len(y) + 1] = "Done" /\ \A i \in 1..Len(y) : z[i] = y[i]
      BY <1>t, <2>2, AppendTells
    <3> HIDE DEF z
    <3> QED BY <3>1
  <2> HIDE DEF y, z, m
  <2>6. CASE events' = events /\ pc' = "returned" /\ mode # "event"
    BY <2>1, <2>3, <2>6 DEF DoneInv, NoDone
  <2>7. CASE events' = y /\ pc' = "threw"
    BY <1>s, <2>2, <2>7
  <2>8. CASE events' = z /\ pc' \in {"returned", "threw"}
    <3>1. \A i \in DOMAIN z : z[i] = "Done" => i = m
      <4> TAKE i \in DOMAIN z
      <4>1. i \in 1..(m - 1) \/ i = m
        BY <2>5
      <4> QED BY <2>2, <2>5, <4>1 DEF NoDone
    <3>2. mem' => stored' = Whole
      BY <2>1, <2>3
    <3> QED BY <2>1, <2>3, <2>5, <2>8, <3>1, <3>2 DEF DoneInv
  <2> QED BY <2>4, <2>6, <2>7, <2>8
<1>6. CASE Agent!BeginTool
  <2>1. NoDone(events) /\ pc' \in {"tool", "observe", "threw"}
    BY <1>6, <1>x, BeginToolDoes DEF Goes, DoneInv
  <2> DEFINE y == Append(events, "ToolCall")
  <2>2. y \in Seq(E) /\ NoDone(y)
    BY <1>a, <1>t, <2>1
  <2>3. events' \in {events, y, Append(y, "Error")}
    BY <1>6, BeginToolDoes
  <2> HIDE DEF y
  <2>4. NoDone(Append(y, "Error"))
    BY <1>a, <1>t, <2>2
  <2> QED BY <1>s, <2>1, <2>2, <2>3, <2>4
<1>7. CASE Agent!RunTool
  <2>1. NoDone(events') /\ pc' \in {"observe", "threw"}
    BY <1>7, <1>a, <1>t, <1>x, RunToolDoes DEF Agent!ToolEnds, DoneInv
  <2> QED BY <1>s, <2>1
<1>8. CASE Agent!Observe
  <2>1. NoDone(events') /\ pc' \in {"ask", "call", "threw"}
    BY <1>8, <1>a, <1>t, <1>x, ObserveDoes DEF Agent!Observed, DoneInv
  <2> QED BY <1>s, <2>1
<1>9. CASE Agent!GiveUp
  <2>1. /\ NoDone(events) /\ pc' \in {"returned", "threw"} /\ finished' = FALSE /\ mode' = mode
        /\ mode # "event" => events' = events
        /\ mode = "event" => events' = Append(events, "Error")
    BY <1>9, GiveUpDoes DEF agentConfig, DoneInv
  <2> DEFINE y == Append(events, "Error")
  <2>2. NoDone(y) /\ Len(y) > 0 /\ y[Len(y)] = "Error"
    <3>1. NoDone(y)
      BY <1>a, <1>t, <2>1
    <3>2. Len(events) \in Nat /\ Len(y) = Len(events) + 1 /\ y[Len(events) + 1] = "Error"
      BY <1>t, AppendTells
    <3> HIDE DEF y
    <3> QED BY <3>1, <3>2
  <2> HIDE DEF y
  <2>3. NoDone(events')
    BY <2>1, <2>2 DEF y
  <2>4. mode = "event" => events' = y
    BY <2>1 DEF y
  <2> QED BY <2>1, <2>2, <2>3, <2>4 DEF DoneInv, NoDone
<1>10. CASE Agent!OtherAdds
  BY <1>10, <1>k DEF Agent!OtherAdds
<1>11. CASE UNCHANGED agentVars
  BY <1>11, <1>k DEF agentVars
<1> QED BY <1>1, <1>2, <1>3, <1>4, <1>5, <1>6, <1>7, <1>8, <1>9, <1>10, <1>11 DEF Agent!Next, Agent!Step

LEMMA EventsHold == Agent!TypeOK /\ TallyInv /\ DoneInv /\ TurnInv => Agent!EventsTellSteps
<1> SUFFICES ASSUME Agent!TypeOK, TallyInv, DoneInv, TurnInv PROVE Agent!EventsTellSteps
  OBVIOUS
<1>1. \A type : Agent!Told(type) = Count(events, type)
  BY ToldIsCount
<1>2. Len(steps) \in Nat
  BY DEF Agent!TypeOK
<1>3. Count(events, "ToolCall") - Count(events, "Observation") \in 0..1
  <2>1. CASE mode # "event"
    <3>1. \A type : Count(events, type) = 0
      BY <2>1, SiftedEmpty DEF TallyInv, Count
    <3> QED BY <3>1
  <2>2. CASE mode = "event"
    BY <1>2, <2>2 DEF TallyInv, Tally
  <2> QED BY <2>1, <2>2
<1>4. mode = "event" /\ pc \in {"ask", "returned"} =>
        Count(events, "ToolCall") = Len(steps) /\ Count(events, "Observation") = Len(steps)
  BY DEF TallyInv, Tally
<1>5. \A i \in DOMAIN events : events[i] = "Done" => i = Len(events) /\ pc \in {"returned", "threw"}
  BY DEF DoneInv, NoDone
<1>6. Count(events, "Done") > 0 /\ mem => stored = Whole
  <2> SUFFICES ASSUME Count(events, "Done") > 0, mem PROVE stored = Whole
    OBVIOUS
  <2> DEFINE E == Agent!EventTypes
             k == Sifted(events, {"Done"})
  <2>1. events \in Seq(E)
    BY DEF Agent!TypeOK
  <2>2. k \in Seq(E) /\ \A i \in DOMAIN k : k[i] \in {"Done"} /\ \E a \in DOMAIN events : k[i] = events[a]
    BY <2>1, SiftedOrder
  <2>3. Len(k) > 0
    BY DEF Count
  <2> HIDE DEF k
  <2>4. 1 \in DOMAIN k
    BY <2>2, <2>3
  <2>5. PICK a \in DOMAIN events : events[a] = "Done"
    BY <2>2, <2>4
  <2> QED BY <2>5 DEF DoneInv
<1>7. mode = "event" /\ pc = "returned" => Agent!Last(events) = (IF finished THEN "Done" ELSE "Error")
  BY DEF DoneInv, Agent!Last
<1> QED BY <1>1, <1>3, <1>4, <1>5, <1>6, <1>7 DEF Agent!EventsTellSteps, Whole

-----------------------------------------------------------------------------
(* The generation.  While it samples, the output is what was streamed, no  *)
(* stop string ends any part of it, and no limit has been passed; and the  *)
(* context, which is charged for when the call returns or left unpaid when *)
(* its callback throws, is at most one token short for each call before.   *)
Stopped(p, k) == \E s \in Stops \ {<<>>} : Llama!IsSuffix(s, Flat(SubSeq(p, 1, k)))

Rest(p, o) == SubSeq(Flat(p), Len(o) + 1, Len(Flat(p)))

GenerationTypes ==
  /\ ctx \in Seq({<<>>} \cup Pieces) /\ Len(ctx) <= ContextSize
  /\ calls \in Nat /\ spent \in Nat /\ unpaid \in Nat /\ limit \in Nat /\ willing \in Nat /\ promptTokens \in Nat
  /\ lphase \in {"idle", "sampling", "returned", "threw"}
  /\ pieces \in Seq(Pieces) /\ output \in Seq(Letters)
  /\ finishReason \in {"stop", "length", "abort", "error"}

SamplingInv ==
  lphase = "sampling" =>
    /\ output = Flat(pieces) /\ Len(pieces) <= limit /\ Len(pieces) <= willing
    /\ \A k \in 1..Len(pieces) : ~Stopped(pieces, k)
    /\ Len(ctx) <= spent + unpaid + promptTokens + Len(pieces)
    /\ spent + unpaid + promptTokens + Len(pieces) < Len(ctx) + calls

\* How a call ended, and why it says it did.
ReturnedInv ==
  /\ lphase = "idle" => pieces = <<>> /\ output = <<>>
  /\ lphase = "returned" =>
       /\ Llama!IsPrefix(output, Flat(pieces))
       /\ Rest(pieces, output) # <<>> => Rest(pieces, output) \in Stops
       /\ Len(pieces) <= limit /\ \A k \in 1..(Len(pieces) - 1) : ~Stopped(pieces, k)
       /\ (finishReason = "abort") = (Len(pieces) > willing)
       /\ finishReason = "length" => Len(pieces) = limit
       /\ finishReason = "error" => Len(ctx) = ContextSize
       /\ Len(pieces) > 0 /\ Stopped(pieces, Len(pieces)) /\ Len(pieces) <= willing =>
            finishReason = "stop" /\ Rest(pieces, output) # <<>>

ChargedInv == lphase # "sampling" => Len(ctx) <= spent + unpaid /\ spent + unpaid <= Len(ctx) + calls

GenerationInv == GenerationTypes /\ SamplingInv /\ ReturnedInv /\ ChargedInv

LEMMA PiecesTyped == Pieces \subseteq Seq(Letters) /\ Stops \subseteq Seq(Letters)
BY ClientsAssumption

\* A suffix is the end of the sequence it is a suffix of.
LEMMA SuffixIsEnd ==
  ASSUME NEW T, NEW s \in Seq(T), NEW t \in Seq(T), Llama!IsSuffix(s, t)
  PROVE  Len(s) <= Len(t) /\ SubSeq(t, Len(t) - Len(s) + 1, Len(t)) = s
<1> DEFINE n == Len(s)
           m == Len(t)
           rs == Llama!Reverse(s)
           rt == Llama!Reverse(t)
<1>1. n \in Nat /\ m \in Nat
  OBVIOUS
<1>2. /\ rs = [i \in 1..n |-> s[(n - i) + 1]] /\ rt = [i \in 1..m |-> t[(m - i) + 1]]
      /\ rs \in Seq(T) /\ rt \in Seq(T) /\ Len(rs) = n /\ Len(rt) = m
  BY DEF Llama!Reverse
<1>3. n <= m /\ SubSeq(rs, 1, n) = SubSeq(rt, 1, n)
  BY <1>2 DEF Llama!IsSuffix, Llama!IsPrefix
<1> HIDE DEF rs, rt
<1>4. ASSUME NEW i \in 1..n PROVE rs[i] = rt[i]
  <2>1. SubSeq(rs, 1, n)[i] = rs[i] /\ SubSeq(rt, 1, n)[i] = rt[i]
    BY <1>1, <1>2, <1>3
  <2> QED BY <1>3, <2>1
<1>5. ASSUME NEW i \in 1..n PROVE t[m - n + i] = s[i]
  <2>1. (n - i) + 1 \in 1..n /\ (n - i) + 1 \in 1..m
    BY <1>1, <1>3
  <2>2. rs[(n - i) + 1] = s[(n - ((n - i) + 1)) + 1] /\ rt[(n - i) + 1] = t[(m - ((n - i) + 1)) + 1]
    BY <1>2, <2>1
  <2>3. (n - ((n - i) + 1)) + 1 = i /\ (m - ((n - i) + 1)) + 1 = m - n + i
    BY <1>1
  <2> QED BY <1>4, <2>1, <2>2, <2>3
<1> DEFINE e == SubSeq(t, m - n + 1, m)
<1>6. e \in Seq(T) /\ Len(e) = n /\ \A i \in 1..n : e[i] = t[m - n + i]
  BY <1>1, <1>3
<1> HIDE DEF e
<1>7. e = s
  BY <1>1, <1>5, <1>6
<1> QED BY <1>3, <1>7 DEF e

\* What a sampled piece makes of what was streamed.
LEMMA Streams ==
  ASSUME NEW p \in Seq(Pieces), NEW piece \in Pieces
  PROVE  LET q == Append(p, piece)
         IN  /\ q \in Seq(Pieces) /\ Len(q) = Len(p) + 1
             /\ Flat(p) \in Seq(Letters) /\ Flat(q) \in Seq(Letters) /\ Flat(q) = Flat(p) \o piece
             /\ \A k \in 1..Len(p) : Stopped(q, k) = Stopped(p, k)
             /\ Stopped(q, Len(q)) = \E s \in Stops : Llama!StopHit(s, Flat(p) \o piece)
<1> DEFINE q == Append(p, piece)
           n == Len(p)
<1>1. q \in Seq(Pieces) /\ n \in Nat /\ Len(q) = n + 1 /\ q[n + 1] = piece /\ \A i \in 1..n : q[i] = p[i]
  OBVIOUS
<1> HIDE DEF q, n
<1>2. Flat(p) \in Seq(Letters) /\ Flat(q) = Flat(p) \o piece /\ piece \in Seq(Letters)
  <2> DEFINE V == Seq(Letters)
  <2>1. piece \in V /\ Pieces \subseteq V
    BY PiecesTyped
  <2>2. p \in Seq(V)
    <3> HIDE DEF V
    <3> QED BY <2>1
  <2> QED BY <2>1, <2>2, FlatAppend DEF q
<1>3. Flat(q) \in Seq(Letters)
  BY <1>2
<1>4. ASSUME NEW k \in 1..n PROVE Stopped(q, k) = Stopped(p, k)
  <2> DEFINE a == SubSeq(q, 1, k)
             b == SubSeq(p, 1, k)
  <2>1. /\ a \in Seq(Pieces) /\ b \in Seq(Pieces) /\ Len(a) = k /\ Len(b) = k
        /\ \A i \in 1..k : a[i] = q[i] /\ b[i] = p[i]
    BY <1>1 DEF n
  <2> HIDE DEF a, b
  <2>2. a = b
    BY <1>1, <2>1
  <2> QED BY <2>2 DEF Stopped, a, b
<1>5. SubSeq(q, 1, Len(q)) = q
  <2> DEFINE a == SubSeq(q, 1, n + 1)
  <2>1. a \in Seq(Pieces) /\ Len(a) = n + 1 /\ \A i \in 1..(n + 1) : a[i] = q[i]
    BY <1>1
  <2> HIDE DEF a
  <2>2. a = q
    BY <1>1, <2>1
  <2> QED BY <1>1, <2>2 DEF a
<1>6. Stopped(q, Len(q)) = \E s \in Stops : Llama!StopHit(s, Flat(p) \o piece)
  BY <1>2, <1>5 DEF Stopped, Llama!StopHit
<1> QED BY <1>1, <1>2, <1>3, <1>4, <1>6 DEF q, n

LEMMA RestOf ==
  ASSUME NEW p \in Seq(Pieces), Flat(p) \in Seq(Letters)
  PROVE  Rest(p, Flat(p)) = <<>> /\ Llama!IsPrefix(Flat(p), Flat(p))
<1> DEFINE f == Flat(p)
<1>1. f \in Seq(Letters) /\ Len(f) \in Nat
  OBVIOUS
<1> HIDE DEF f
<1>2. SubSeq(f, Len(f) + 1, Len(f)) = <<>>
  BY <1>1
<1> QED BY <1>1, <1>2 DEF Rest, Llama!IsPrefix, f

LEMMA GenerationStarts == Llama!Init => GenerationInv
<1> SUFFICES ASSUME Llama!Init PROVE GenerationInv
  OBVIOUS
<1>1. <<>> \in Seq({<<>>} \cup Pieces) /\ <<>> \in Seq(Pieces) /\ <<>> \in Seq(Letters) /\ Len(<<>>) = 0
  OBVIOUS
<1> QED BY <1>1, ClientsAssumption DEF Llama!Init, GenerationInv, GenerationTypes, SamplingInv, ReturnedInv, ChargedInv

\* A call begins, or throws before it has sampled anything.
LEMMA InvokeKeeps == GenerationInv /\ Llama!Invoke => GenerationInv'
<1> SUFFICES ASSUME GenerationInv, Llama!Invoke PROVE GenerationInv'
  OBVIOUS
<1>1. /\ calls' = calls + 1 /\ lphase # "sampling" /\ GenerationTypes /\ Len(ctx) \in Nat
      /\ Len(ctx) <= spent + unpaid /\ spent + unpaid <= Len(ctx) + calls
  BY DEF Llama!Invoke, GenerationInv, ChargedInv, GenerationTypes
<1>2. CASE Llama!Throw
  BY <1>1, <1>2 DEF Llama!Throw, GenerationInv, GenerationTypes, SamplingInv, ReturnedInv, ChargedInv
<1>3. ASSUME NEW prompt \in Llama!Prompts, Llama!Prefill(prompt), ~Llama!Throw PROVE GenerationInv'
  <2>1. Llama!Fits(prompt)
    BY <1>3 DEF Llama!Prefill
  <2>2. PICK most \in 0..MaxNew, w \in 0..MaxNew :
          /\ ctx' = ctx \o prompt /\ promptTokens' = Len(prompt)
          /\ limit' = most /\ willing' = w
          /\ output' = <<>> /\ pieces' = <<>> /\ finishReason' = "stop"
          /\ lphase' = "sampling" /\ UNCHANGED <<spent, unpaid>>
    BY <1>3, <2>1 DEF Llama!Prefill
  <2>3. PICK n \in 1..MaxPrompt : prompt \in [1..n -> {<<>>}]
    BY <1>3 DEF Llama!Prompts
  <2> DEFINE T == {<<>>} \cup Pieces
  <2>4. n \in Nat /\ \A i \in 1..n : prompt[i] \in T
    BY <2>3, ClientsAssumption
  <2>5. ctx \in Seq(T)
    BY <1>1 DEF GenerationTypes
  <2> HIDE DEF T
  <2>6. prompt \in Seq(T) /\ Len(prompt) = n
    BY <2>3, <2>4
  <2>7. ctx' \in Seq(T) /\ Len(ctx') = Len(ctx) + Len(prompt) /\ Len(ctx') <= ContextSize
    <3>1. ctx \o prompt \in Seq(T) /\ Len(ctx \o prompt) = Len(ctx) + Len(prompt)
      BY <2>5, <2>6
    <3> QED BY <2>1, <2>2, <3>1 DEF Llama!Fits
  <2>8. most \in Nat /\ w \in Nat /\ Len(prompt) \in Nat /\ calls' \in Nat
    BY <1>1, <2>4, <2>6, ClientsAssumption DEF GenerationTypes
  <2>9. pieces' \in Seq(Pieces) /\ output' \in Seq(Letters) /\ Len(pieces') = 0
    BY <2>2
  <2>10. GenerationTypes'
    BY <1>1, <2>2, <2>7, <2>8, <2>9 DEF GenerationTypes, T
  <2>11. output' = Flat(pieces')
    BY <2>2, FlatEmpty
  <2>12. /\ Len(ctx') <= spent' + unpaid' + promptTokens' + Len(pieces')
         /\ spent' + unpaid' + promptTokens' + Len(pieces') < Len(ctx') + calls'
    BY <1>1, <2>2, <2>7, <2>8, <2>9 DEF GenerationTypes
  <2>13. SamplingInv'
    BY <2>2, <2>8, <2>9, <2>11, <2>12 DEF SamplingInv
  <2> QED BY <2>2, <2>10, <2>13 DEF GenerationInv, ReturnedInv, ChargedInv
<1> QED BY <1>2, <1>3 DEF Llama!Invoke

\* Whatever ends a call, it is charged for its prompt and what was streamed.
LEMMA ReturnCharges ==
  ASSUME GenerationInv, lphase = "sampling", NEW reason, Llama!Return(reason), UNCHANGED ctx,
         Len(pieces') \in {Len(pieces), Len(pieces) + 1}
  PROVE  ChargedInv' /\ spent' \in Nat
BY DEF Llama!Return, GenerationInv, GenerationTypes, SamplingInv, ChargedInv

LEMMA OverKeeps == GenerationInv /\ lphase = "sampling" /\ Llama!Over => GenerationInv'
<1> SUFFICES ASSUME GenerationInv, lphase = "sampling", Llama!Over PROVE GenerationInv'
  OBVIOUS
<1>1. /\ UNCHANGED <<ctx, output, pieces, calls, unpaid, limit, willing, promptTokens>> /\ Llama!Return("stop")
      /\ lphase' = "returned" /\ finishReason' = "stop"
  BY DEF Llama!Over, Llama!Return
<1>2. /\ GenerationTypes /\ output = Flat(pieces) /\ Len(pieces) \in Nat /\ Len(pieces) <= limit /\ Len(pieces) <= willing
      /\ \A k \in 1..Len(pieces) : ~Stopped(pieces, k)
  BY DEF GenerationInv, GenerationTypes, SamplingInv
<1>3. ChargedInv' /\ spent' \in Nat
  BY <1>1, ReturnCharges
<1>4. GenerationTypes'
  BY <1>1, <1>2, <1>3 DEF GenerationTypes
<1>5. Rest(pieces, output) = <<>> /\ Llama!IsPrefix(output, Flat(pieces))
  BY <1>2, RestOf DEF GenerationTypes
<1>6. ~(Len(pieces) > 0 /\ Stopped(pieces, Len(pieces))) /\ \A k \in 1..(Len(pieces) - 1) : ~Stopped(pieces, k)
  BY <1>2
<1>7. ~(Len(pieces) > willing)
  BY <1>2 DEF GenerationTypes
<1>8. ReturnedInv'
  BY <1>1, <1>2, <1>5, <1>6, <1>7 DEF ReturnedInv
<1> QED BY <1>1, <1>3, <1>4, <1>8 DEF GenerationInv, SamplingInv

LEMMA SampleKeeps ==
  ASSUME GenerationInv, lphase = "sampling", NEW piece \in Pieces, Len(pieces) < limit, Llama!Sample(piece)
  PROVE  GenerationInv'
<1> DEFINE n == Len(pieces)
           stopped == \E s \in Stops : Llama!StopHit(s, output \o piece)
<1>1. /\ GenerationTypes /\ output = Flat(pieces) /\ n \in Nat /\ n <= willing
      /\ \A k \in 1..n : ~Stopped(pieces, k)
      /\ Len(ctx) <= spent + unpaid + promptTokens + n /\ spent + unpaid + promptTokens + n < Len(ctx) + calls
  BY DEF GenerationInv, GenerationTypes, SamplingInv
<1>2. output' = output \o piece /\ pieces' = Append(pieces, piece)
  BY DEF Llama!Sample
<1>3. pieces \in Seq(Pieces) /\ limit \in Nat /\ willing \in Nat
  BY <1>1 DEF GenerationTypes
<1>4. /\ pieces' \in Seq(Pieces) /\ Len(pieces') = n + 1 /\ output' = Flat(pieces') /\ output' \in Seq(Letters)
      /\ \A k \in 1..n : ~Stopped(pieces', k)
      /\ Stopped(pieces', Len(pieces')) = stopped
  BY <1>1, <1>2, <1>3, Streams
<1>5. Rest(pieces', output') = <<>> /\ Llama!IsPrefix(output', Flat(pieces'))
  BY <1>4, RestOf
<1>6. \A k \in 1..(Len(pieces') - 1) : ~Stopped(pieces', k)
  BY <1>1, <1>4
<1>7. Len(pieces') <= limit
  BY <1>1, <1>3, <1>4
<1>8. n >= willing \/ (n < willing /\ ~(n >= willing))
  BY <1>1, <1>3
<1>9. ASSUME NEW reason \in {"abort", "error"}, Llama!Return(reason), UNCHANGED ctx,
             (reason = "abort") = (n + 1 > willing), reason = "error" => ~stopped /\ ~Llama!Fits(<<piece>>)
      PROVE  GenerationInv'
  <2>1. UNCHANGED <<calls, unpaid, limit, willing, promptTokens, ctx>> /\ lphase' = "returned" /\ finishReason' = reason
    BY <1>9 DEF Llama!Return
  <2>2. ChargedInv' /\ spent' \in Nat
    BY <1>4, <1>9, ReturnCharges
  <2>3. GenerationTypes'
    BY <1>1, <1>4, <2>1, <2>2 DEF GenerationTypes
  <2>4. reason = "error" => Len(ctx) = ContextSize
    <3> SUFFICES ASSUME reason = "error" PROVE Len(ctx) = ContextSize
      OBVIOUS
    <3>1. Len(ctx) + 1 > ContextSize
      BY <1>1, <1>9, ClientsAssumption DEF Llama!Fits, GenerationTypes
    <3> QED BY <1>1, <3>1, ClientsAssumption DEF GenerationTypes
  <2>5. ~(Len(pieces') > 0 /\ Stopped(pieces', Len(pieces')) /\ Len(pieces') <= willing)
    <3>1. CASE reason = "abort"
      BY <1>1, <1>3, <1>4, <1>9, <3>1
    <3>2. CASE reason = "error"
      BY <1>4, <1>9, <3>2
    <3> QED BY <3>1, <3>2
  <2>6. (finishReason' = "abort") = (Len(pieces') > willing')
    BY <1>4, <1>9, <2>1
  <2>7. ReturnedInv'
    BY <1>5, <1>6, <1>7, <2>1, <2>4, <2>5, <2>6 DEF ReturnedInv
  <2> QED BY <2>1, <2>2, <2>3, <2>7 DEF GenerationInv, SamplingInv
<1>10. CASE n >= willing
  <2>1. Llama!Return("abort") /\ UNCHANGED ctx
    BY <1>10 DEF Llama!Sample
  <2>2. n + 1 > willing
    BY <1>1, <1>3, <1>10
  <2> QED BY <1>9, <2>1, <2>2
<1>11. ASSUME n < willing, ~(n >= willing), ~stopped, ~Llama!Fits(<<piece>>), Llama!Return("error"), UNCHANGED ctx
       PROVE  GenerationInv'
  <2>1. ~(n + 1 > willing)
    BY <1>1, <1>3, <1>11
  <2> QED BY <1>9, <1>11, <2>1
<1>12. ASSUME n < willing, ~stopped, Llama!Fits(<<piece>>), ctx' = Append(ctx, piece)
       PROVE  /\ ctx' \in Seq({<<>>} \cup Pieces) /\ Len(ctx') = Len(ctx) + 1 /\ Len(ctx') <= ContextSize
              /\ \A k \in 1..Len(pieces') : ~Stopped(pieces', k)
              /\ Len(pieces') <= willing
  <2>1. ctx' \in Seq({<<>>} \cup Pieces) /\ Len(ctx') = Len(ctx) + 1
    <3> DEFINE T == {<<>>} \cup Pieces
    <3>1. ctx \in Seq(T) /\ piece \in T
      BY <1>1 DEF GenerationTypes
    <3> HIDE DEF T
    <3>2. ctx' \in Seq(T) /\ Len(ctx') = Len(ctx) + 1
      BY <1>12, <3>1
    <3> QED BY <3>2 DEF T
  <2>2. Len(<<piece>>) = 1
    OBVIOUS
  <2>3. Len(ctx') <= ContextSize
    BY <1>12, <2>1, <2>2 DEF Llama!Fits
  <2>4. \A k \in 1..Len(pieces') : ~Stopped(pieces', k)
    <3>1. ~Stopped(pieces', Len(pieces'))
      BY <1>4, <1>12
    <3>2. \A k \in 1..Len(pieces') : k \in 1..n \/ k = Len(pieces')
      BY <1>1, <1>4
    <3> QED BY <1>4, <3>1, <3>2
  <2>5. Len(pieces') <= willing
    BY <1>1, <1>3, <1>4, <1>12
  <2> QED BY <2>1, <2>3, <2>4, <2>5
<1>13. ASSUME n < willing, ~stopped, Llama!Fits(<<piece>>), ctx' = Append(ctx, piece),
              n = limit - 1, Llama!Return("length")
       PROVE  GenerationInv'
  <2>1. UNCHANGED <<calls, unpaid, limit, willing, promptTokens>> /\ lphase' = "returned" /\ finishReason' = "length"
    BY <1>13 DEF Llama!Return
  <2>2. spent' = spent + promptTokens + Len(pieces')
    BY <1>13 DEF Llama!Return
  <2>3. GenerationTypes'
    BY <1>1, <1>4, <1>12, <1>13, <2>1, <2>2 DEF GenerationTypes
  <2>4. Len(ctx) \in Nat /\ spent \in Nat /\ unpaid \in Nat /\ promptTokens \in Nat /\ calls \in Nat
    BY <1>1 DEF GenerationTypes
  <2>5. ChargedInv'
    BY <1>1, <1>4, <1>12, <1>13, <2>1, <2>2, <2>4 DEF ChargedInv
  <2>6. Len(pieces') = limit'
    BY <1>3, <1>4, <1>13, <2>1
  <2>7. ~(Len(pieces') > willing)
    BY <1>3, <1>4, <1>12, <1>13
  <2>8. ~(Len(pieces') > 0 /\ Stopped(pieces', Len(pieces')))
    BY <1>4, <1>13
  <2>9. ReturnedInv'
    BY <1>5, <1>6, <1>7, <2>1, <2>6, <2>7, <2>8 DEF ReturnedInv
  <2> QED BY <2>1, <2>3, <2>5, <2>9 DEF GenerationInv, SamplingInv
<1>14. ASSUME n < willing, ~stopped, Llama!Fits(<<piece>>), ctx' = Append(ctx, piece),
              UNCHANGED <<calls, spent, unpaid, lphase, limit, willing, promptTokens, finishReason>>
       PROVE  GenerationInv'
  <2>1. GenerationTypes'
    BY <1>1, <1>4, <1>12, <1>14 DEF GenerationTypes
  <2>2. Len(ctx) \in Nat /\ spent \in Nat /\ unpaid \in Nat /\ promptTokens \in Nat /\ calls \in Nat
    BY <1>1 DEF GenerationTypes
  <2>3. /\ Len(ctx') <= spent' + unpaid' + promptTokens' + Len(pieces')
        /\ spent' + unpaid' + promptTokens' + Len(pieces') < Len(ctx') + calls'
    BY <1>1, <1>4, <1>12, <1>14, <2>2
  <2>4. SamplingInv'
    BY <1>4, <1>7, <1>12, <1>14, <2>3 DEF SamplingInv
  <2>5. lphase' = "sampling"
    BY <1>14
  <2> QED BY <2>1, <2>4, <2>5 DEF GenerationInv, ReturnedInv, ChargedInv
<1> QED BY <1>8, <1>10, <1>11, <1>13, <1>14 DEF Llama!Sample

LEMMA StopKeeps ==
  ASSUME GenerationInv, lphase = "sampling", NEW piece \in Pieces, Len(pieces) < limit, Llama!Stop(piece)
  PROVE  GenerationInv'
<1> DEFINE n == Len(pieces)
           f == output \o piece
<1>1. /\ GenerationTypes /\ output = Flat(pieces) /\ n \in Nat
      /\ \A k \in 1..n : ~Stopped(pieces, k)
  BY DEF GenerationInv, GenerationTypes, SamplingInv
<1>2. pieces' = Append(pieces, piece) /\ n < willing /\ Llama!Return("stop") /\ UNCHANGED ctx
  BY DEF Llama!Stop
<1>3. PICK s \in Stops : Llama!StopHit(s, f) /\ output' = SubSeq(f, 1, Len(f) - Len(s))
  BY DEF Llama!Stop
<1>4. pieces \in Seq(Pieces) /\ limit \in Nat /\ willing \in Nat
  BY <1>1 DEF GenerationTypes
<1>5. /\ pieces' \in Seq(Pieces) /\ Len(pieces') = n + 1 /\ Flat(pieces') = f /\ f \in Seq(Letters)
      /\ \A k \in 1..n : ~Stopped(pieces', k)
  BY <1>1, <1>2, <1>4, Streams
<1> HIDE DEF f
<1>6. s \in Seq(Letters) /\ s # <<>> /\ Llama!IsSuffix(s, f)
  BY <1>3, PiecesTyped DEF Llama!StopHit
<1>7. Len(s) <= Len(f) /\ SubSeq(f, Len(f) - Len(s) + 1, Len(f)) = s
  BY <1>5, <1>6, SuffixIsEnd
<1>8. Len(s) \in Nat /\ Len(f) \in Nat
  BY <1>5, <1>6
<1> DEFINE m == Len(f) - Len(s)
<1>9. output' \in Seq(Letters) /\ Len(output') = m /\ m \in Nat /\ m <= Len(f) /\ \A i \in 1..m : output'[i] = f[i]
  <2>1. m \in Nat /\ m <= Len(f) /\ output' = SubSeq(f, 1, m)
    BY <1>3, <1>7, <1>8
  <2> HIDE DEF m
  <2> QED BY <1>5, <2>1
<1>10. Rest(pieces', output') = s
  BY <1>5, <1>7, <1>9 DEF Rest
<1>11. Llama!IsPrefix(output', Flat(pieces'))
  <2> DEFINE o == output'
  <2>1. o \in Seq(Letters) /\ Len(o) = m /\ o = SubSeq(f, 1, m)
    BY <1>3, <1>9
  <2> HIDE DEF o, m
  <2>2. SubSeq(o, 1, Len(o)) = o
    <3>1. SubSeq(o, 1, m) \in Seq(Letters) /\ Len(SubSeq(o, 1, m)) = m /\ \A i \in 1..m : SubSeq(o, 1, m)[i] = o[i]
      BY <1>9, <2>1
    <3> QED BY <2>1, <3>1
  <2>3. Len(o) <= Len(f) /\ SubSeq(o, 1, Len(o)) = SubSeq(f, 1, Len(o))
    BY <1>9, <2>1, <2>2
  <2> QED BY <1>5, <2>3 DEF o, Llama!IsPrefix
<1>12. /\ UNCHANGED <<calls, unpaid, limit, willing, promptTokens, ctx>> /\ lphase' = "returned" /\ finishReason' = "stop"
  BY <1>2 DEF Llama!Return
<1>13. ChargedInv' /\ spent' \in Nat
  BY <1>2, <1>5, ReturnCharges
<1>14. GenerationTypes'
  BY <1>1, <1>5, <1>9, <1>12, <1>13 DEF GenerationTypes
<1>15. Len(pieces') <= limit /\ ~(Len(pieces') > willing) /\ \A k \in 1..(Len(pieces') - 1) : ~Stopped(pieces', k)
  BY <1>1, <1>2, <1>4, <1>5
<1>16. ReturnedInv'
  BY <1>3, <1>6, <1>10, <1>11, <1>12, <1>15 DEF ReturnedInv
<1> QED BY <1>12, <1>13, <1>14, <1>16 DEF GenerationInv, SamplingInv

\* What the call left in the context is unpaid from then on.
LEMMA ThrowKeeps ==
  ASSUME GenerationInv, lphase = "sampling", NEW piece \in Pieces, Llama!PieceThrows(piece)
  PROVE  GenerationInv'
<1> DEFINE n == Len(pieces)
<1>1. /\ GenerationTypes /\ output = Flat(pieces) /\ n \in Nat
      /\ Len(ctx) <= spent + unpaid + promptTokens + n /\ spent + unpaid + promptTokens + n < Len(ctx) + calls
  BY DEF GenerationInv, GenerationTypes, SamplingInv
<1>2. /\ output' = output \o piece /\ pieces' = Append(pieces, piece)
      /\ lphase' = "threw" /\ unpaid' = unpaid + promptTokens + n
      /\ UNCHANGED <<ctx, calls, spent, limit, willing, promptTokens, finishReason>>
  BY DEF Llama!PieceThrows
<1>3. pieces' \in Seq(Pieces) /\ output' \in Seq(Letters)
  BY <1>1, <1>2, Streams DEF GenerationTypes
<1>4. Len(ctx) \in Nat /\ spent \in Nat /\ unpaid \in Nat /\ promptTokens \in Nat /\ calls \in Nat
  BY <1>1 DEF GenerationTypes
<1> HIDE DEF n
<1>5. ChargedInv'
  BY <1>1, <1>2, <1>4 DEF ChargedInv
<1>6. GenerationTypes'
  BY <1>1, <1>2, <1>3, <1>4 DEF GenerationTypes
<1> QED BY <1>2, <1>5, <1>6 DEF GenerationInv, SamplingInv, ReturnedInv

LEMMA GenerationStep == GenerationInv /\ [Llama!Next]_llamaVars => GenerationInv'
<1> SUFFICES ASSUME GenerationInv, [Llama!Next]_llamaVars PROVE GenerationInv'
  OBVIOUS
<1>1. CASE Llama!Invoke
  BY <1>1, InvokeKeeps
<1>2. CASE Llama!Generate
  BY <1>2, OverKeeps, SampleKeeps, StopKeeps, ThrowKeeps DEF Llama!Generate
<1>3. CASE UNCHANGED llamaVars
  BY <1>3 DEF llamaVars, GenerationInv, GenerationTypes, SamplingInv, ReturnedInv, ChargedInv
<1> QED BY <1>1, <1>2, <1>3 DEF Llama!Next

LEMMA GenerationHolds == GenerationInv => Llama!GeneratedExactly
<1> SUFFICES ASSUME GenerationInv PROVE Llama!GeneratedExactly
  OBVIOUS
<1> DEFINE n == Len(pieces)
<1>1. pieces \in Seq(Pieces) /\ n \in Nat /\ output \in Seq(Letters) /\ limit \in Nat /\ willing \in Nat
  BY DEF GenerationInv, GenerationTypes
<1>2. Flat(pieces) = Llama!FlattenSeq(pieces) /\ Flat(pieces) \in Seq(Letters)
  <2>1. Flat(pieces) = Llama!FlattenSeq(pieces)
    BY DEF Flat, Llama!FlattenSeq
  <2> DEFINE V == Seq(Letters)
  <2>2. Pieces \subseteq V
    BY PiecesTyped
  <2>3. pieces \in Seq(V)
    <3> HIDE DEF V
    <3> QED BY <1>1, <2>2
  <2>4. <<>> \in Seq(Letters)
    OBVIOUS
  <2>5. Flat(pieces) \in Seq(Letters)
    BY <2>3, <2>4, FlatAppend
  <2> QED BY <2>1, <2>5
<1>3. \A k : Llama!StoppedAfter(k) = Stopped(pieces, k)
  <2>1. \A q : Llama!FlattenSeq(q) = Flat(q)
    BY DEF Flat, Llama!FlattenSeq
  <2> QED BY <2>1 DEF Llama!StoppedAfter, Stopped
<1> DEFINE cut == SubSeq(Llama!FlattenSeq(pieces), Len(output) + 1, Len(Llama!FlattenSeq(pieces)))
<1>4. cut = Rest(pieces, output)
  BY <1>2 DEF Rest
<1> HIDE DEF cut
<1>5. ASSUME lphase # "threw"
      PROVE  /\ Llama!IsPrefix(output, Flat(pieces)) /\ (cut # <<>> => cut \in Stops)
             /\ n <= limit /\ \A k \in 1..(n - 1) : ~Stopped(pieces, k)
  <2>1. CASE lphase = "idle"
    <3>1. pieces = <<>> /\ output = <<>> /\ n = 0
      BY <2>1 DEF GenerationInv, ReturnedInv
    <3>2. output = Flat(pieces)
      BY <3>1, FlatEmpty
    <3> QED BY <1>1, <1>2, <1>4, <3>1, <3>2, RestOf
  <2>2. CASE lphase = "sampling"
    BY <1>1, <1>2, <1>4, <2>2, RestOf DEF GenerationInv, SamplingInv
  <2>3. CASE lphase = "returned"
    BY <1>4, <2>3 DEF GenerationInv, ReturnedInv
  <2> QED BY <1>5, <2>1, <2>2, <2>3 DEF GenerationInv, GenerationTypes
<1>6. ASSUME lphase = "returned"
      PROVE  /\ (finishReason = "abort") <=> (n > willing)
             /\ (finishReason = "length") => n = limit
             /\ (finishReason = "error") => Len(ctx) = ContextSize
             /\ n > 0 /\ Stopped(pieces, n) /\ n <= willing => finishReason = "stop" /\ cut # <<>>
  BY <1>4, <1>6 DEF GenerationInv, ReturnedInv
<1>7. lphase # "sampling" => Len(ctx) <= spent + unpaid /\ spent + unpaid <= Len(ctx) + calls
  BY DEF GenerationInv, ChargedInv
<1> QED BY <1>2, <1>3, <1>5, <1>6, <1>7 DEF Llama!GeneratedExactly, cut

-----------------------------------------------------------------------------
(* The calls over MCP.  RepliesAnswer is about a response; while the        *)
(* envelopes are dispatched each reply answers the envelope in its place,   *)
(* of which the tools that ran are the calls so far (RunsInv).              *)

Told == {"observation", "error"}
What == {"serverInfo", "tools", "empty", "MethodNotFound", "InvalidRequest", "InternalError", "ParseError",
         "unknownTool"} \cup Told
Responses == [kind : {"result", "error"}, id : {1, 2, None}, what : What, tools : SUBSET Tools, isError : BOOLEAN]

\* What excuses a response of 500.
Excuses(e) == e.shape = "odd" \/ e.tool \in registered \/ (e.method = "tools/list" /\ registered # {})

Answers(r, e) ==
  /\ r.id = e.id
  /\ r.kind = "error" <=> e.shape = "invalid" \/ e.method = "unknown"
  /\ r.tools \subseteq registered
  /\ r.tools # {} => e.method = "tools/list"
  /\ e.method = "tools/call" => r.what \in Told \cup {"unknownTool"}
  /\ r.what \in Told => e.method = "tools/call" /\ e.tool \in registered

TellingIn(rs) == {i \in DOMAIN rs : rs[i].what \in Told}

\* The replies so far, and in the end all of them.
AnswersInv ==
  /\ status \in {None, 200} => /\ Len(replies) <= Len(body)
                               /\ \A i \in DOMAIN replies : Answers(replies[i], body[i])
                               /\ Len(ran) = Cardinality(TellingIn(replies))
  /\ status = 200 => Len(replies) = Len(body)

\* The runs are of calls in the body, in its order, and before what is next.
Reached == IF status = None THEN Len(replies) ELSE Len(body)
RunsUpTo(n) ==
  \E f \in [1..Len(ran) -> Mcp!Calling] :
    /\ \A i \in 1..Len(ran) : body[f[i]].tool = ran[i] /\ f[i] <= n
    /\ \A i, j \in 1..Len(ran) : i < j => f[i] < f[j]

Span == <<"BeforeTool", "AfterTool">>
Spans == spans = Flat([i \in DOMAIN ran |-> Span])

RpcInv ==
  /\ registered \in SUBSET Tools /\ batched \in BOOLEAN /\ status \in {None, 200, 400, 500}
  /\ body \in Seq(Mcp!Envelopes) /\ replies \in Seq(Responses) /\ ran \in Seq(Tools)
  /\ AnswersInv /\ RunsUpTo(Reached) /\ Spans
  /\ status = 500 => \E i \in DOMAIN body : Excuses(body[i])

LEMMA EnvelopesAre ==
  ASSUME NEW e \in Mcp!Envelopes
  PROVE  /\ e.shape \in {"valid", "invalid", "odd"} /\ e.id \in {1, 2, None}
         /\ e.method = "tools/call" => e.shape = "valid" /\ e.tool \in Tools
         /\ e.shape = "valid" => e.method \in Mcp!Methods
         /\ e.shape = "odd" => e.method = "ping"
         /\ e.shape = "invalid" => e.method = None
BY McpAssumption DEF Mcp!Envelopes, Mcp!Methods

LEMMA TellingAppend ==
  ASSUME NEW rs \in Seq(Responses), NEW r \in Responses
  PROVE  /\ Append(rs, r) \in Seq(Responses) /\ Len(Append(rs, r)) = Len(rs) + 1
         /\ Cardinality(TellingIn(rs)) \in Nat
         /\ Cardinality(TellingIn(Append(rs, r))) =
              IF r.what \in Told THEN Cardinality(TellingIn(rs)) + 1 ELSE Cardinality(TellingIn(rs))
<1> DEFINE S == TellingIn(rs)
           n == Len(rs)
           t == Append(rs, r)
<1>1. t \in Seq(Responses) /\ Len(t) = n + 1 /\ n \in Nat /\ t[n + 1] = r /\ \A i \in 1..n : t[i] = rs[i]
  <2> HIDE DEF Responses
  <2> QED OBVIOUS
<1>2. DOMAIN t = 1..(n + 1) /\ DOMAIN rs = 1..n
  BY <1>1
<1> HIDE DEF t
<1>3. TellingIn(t) = IF r.what \in Told THEN S \cup {n + 1} ELSE S
  <2>1. \A i \in 1..(n + 1) : i \in 1..n \/ i = n + 1
    BY <1>1
  <2>2. 1..n \subseteq 1..(n + 1) /\ n + 1 \in 1..(n + 1)
    BY <1>1
  <2> HIDE DEF n
  <2> QED BY <1>1, <1>2, <2>1, <2>2 DEF TellingIn
<1>4. IsFiniteSet(S) /\ n + 1 \notin S
  <2>1. IsFiniteSet(1..n)
    BY <1>1, FS_Interval
  <2>2. S \in SUBSET (1..n)
    BY <1>2 DEF TellingIn
  <2> QED BY <1>1, <2>1, <2>2, FS_Subset
<1>5. Cardinality(S) \in Nat
  BY <1>4, FS_CardinalityType
<1>6. Cardinality(S \cup {n + 1}) = Cardinality(S) + 1
  BY <1>4, FS_AddElement
<1> HIDE DEF S, n
<1> QED BY <1>1, <1>3, <1>5, <1>6 DEF S, n, t

\* One more run, of the call that is next.
LEMMA OneMoreRun ==
  ASSUME RpcInv, status = None, UNCHANGED body,
         NEW n \in Mcp!Calling, n = Len(replies) + 1, ran' = Append(ran, body[n].tool)
  PROVE  /\ ran' \in Seq(Tools) /\ Len(ran') = Len(ran) + 1
         /\ \E f \in [1..Len(ran') -> Mcp!Calling'] :
              /\ \A i \in 1..Len(ran') : body'[f[i]].tool = ran'[i] /\ f[i] <= n
              /\ \A i, j \in 1..Len(ran') : i < j => f[i] < f[j]
<1>1. PICK f \in [1..Len(ran) -> Mcp!Calling] :
        /\ \A i \in 1..Len(ran) : body[f[i]].tool = ran[i] /\ f[i] <= Len(replies)
        /\ \A i, j \in 1..Len(ran) : i < j => f[i] < f[j]
  <2>1. RunsUpTo(Reached) /\ Reached = Len(replies)
    BY DEF RpcInv, Reached
  <2> QED BY <2>1 DEF RunsUpTo
<1> DEFINE m == Len(ran)
           t == body[n].tool
           g == [i \in 1..(m + 1) |-> IF i = m + 1 THEN n ELSE f[i]]
<1>2. n \in DOMAIN body /\ body \in Seq(Mcp!Envelopes) /\ t \in Tools /\ m \in Nat /\ Len(replies) \in Nat /\ n \in Nat
  <2>1. body \in Seq(Mcp!Envelopes) /\ n \in DOMAIN body /\ body[n].method = "tools/call"
    BY DEF RpcInv, Mcp!Calling
  <2> HIDE DEF Mcp!Envelopes
  <2>2. body[n] \in Mcp!Envelopes
    BY <2>1
  <2> QED BY <2>1, <2>2, EnvelopesAre DEF RpcInv
<1>3. /\ ran' \in Seq(Tools) /\ Len(ran') = m + 1 /\ ran'[m + 1] = t /\ \A i \in 1..m : ran'[i] = ran[i]
  <2> HIDE DEF t
  <2> QED BY <1>2 DEF RpcInv, t
<1>4. Mcp!Calling' = Mcp!Calling
  BY DEF Mcp!Calling
<1> HIDE DEF Mcp!Calling, t
<1>5. g \in [1..Len(ran') -> Mcp!Calling']
  <2>1. \A i \in 1..(m + 1) : i = m + 1 \/ i \in 1..m
    BY <1>2
  <2> QED BY <1>1, <1>3, <1>4, <2>1
<1>6. \A i \in 1..Len(ran') : body'[g[i]].tool = ran'[i] /\ g[i] <= n
  <2> TAKE i \in 1..Len(ran')
  <2>1. CASE i = m + 1
    BY <1>2, <1>3, <2>1 DEF t
  <2>2. CASE i \in 1..m
    <3>1. g[i] = f[i] /\ f[i] \in Mcp!Calling /\ f[i] <= Len(replies)
      BY <1>1, <1>2, <2>2
    <3>2. f[i] \in Nat
      BY <1>2, <3>1 DEF Mcp!Calling, RpcInv
    <3> QED BY <1>1, <1>2, <1>3, <2>2, <3>1, <3>2
  <2> QED BY <1>2, <1>3, <2>1, <2>2
<1>7. \A i, j \in 1..Len(ran') : i < j => g[i] < g[j]
  <2> SUFFICES ASSUME NEW i \in 1..(m + 1), NEW j \in 1..(m + 1), i < j PROVE g[i] < g[j]
    BY <1>3
  <2>1. i \in 1..m /\ i # m + 1 /\ (j = m + 1 \/ j \in 1..m)
    <3> HIDE DEF g, m, t
    <3> QED BY <1>2
  <2>2. g[i] = f[i]
    BY <2>1
  <2>3. f[i] \in Nat /\ f[i] <= Len(replies)
    <3>1. f[i] \in Mcp!Calling
      BY <1>1, <2>1, <2>2
    <3> QED BY <1>1, <2>1, <3>1 DEF Mcp!Calling, RpcInv
  <2> QED BY <1>1, <1>2, <2>1, <2>2, <2>3
<1> HIDE DEF g, m
<1> QED BY <1>3, <1>5, <1>6, <1>7 DEF m

\* The same runs, and more that has been dispatched.
LEMMA RunsAgain ==
  ASSUME body \in Seq(Mcp!Envelopes), UNCHANGED <<body, ran>>, NEW n \in Nat, NEW m \in Nat, n <= m, RunsUpTo(n)
  PROVE  \E f \in [1..Len(ran') -> Mcp!Calling'] :
           /\ \A i \in 1..Len(ran') : body'[f[i]].tool = ran'[i] /\ f[i] <= m
           /\ \A i, j \in 1..Len(ran') : i < j => f[i] < f[j]
<1>1. PICK f \in [1..Len(ran) -> Mcp!Calling] :
        /\ \A i \in 1..Len(ran) : body[f[i]].tool = ran[i] /\ f[i] <= n
        /\ \A i, j \in 1..Len(ran) : i < j => f[i] < f[j]
  BY DEF RunsUpTo
<1>2. Mcp!Calling' = Mcp!Calling
  BY DEF Mcp!Calling
<1>3. \A i \in 1..Len(ran) : f[i] <= m
  <2> TAKE i \in 1..Len(ran)
  <2>1. f[i] \in Mcp!Calling /\ f[i] <= n
    BY <1>1
  <2> HIDE DEF Mcp!Envelopes
  <2>2. f[i] \in Nat
    BY <2>1 DEF Mcp!Calling
  <2> QED BY <2>1, <2>2
<1> HIDE DEF Mcp!Envelopes, Mcp!Calling
<1> QED BY <1>1, <1>2, <1>3

LEMMA OneMoreSpan ==
  ASSUME ran \in Seq(Tools), Spans, NEW t \in Tools, ran' = Append(ran, t), spans' = spans \o Span
  PROVE  Spans'
<1> DEFINE V == {"BeforeTool", "AfterTool"}
           s == [i \in DOMAIN ran |-> Span]
           u == [i \in DOMAIN ran' |-> Span]
           n == Len(ran)
<1>1. n \in Nat /\ DOMAIN ran = 1..n /\ DOMAIN ran' = 1..(n + 1)
  OBVIOUS
<1>2. Span \in Seq(V)
  BY DEF Span
<1> HIDE DEF V, n
<1>3. s \in Seq(Seq(V)) /\ Len(s) = n
  <2> DEFINE W == Seq(V)
  <2>1. s \in [1..n -> W]
    BY <1>1, <1>2
  <2> HIDE DEF W, s
  <2>2. s \in Seq(W) /\ Len(s) = n
    BY <1>1, <2>1
  <2> QED BY <2>2 DEF W
<1>4. u = Append(s, Span)
  <2> HIDE DEF Span
  <2> QED BY <1>1, <1>3
<1> HIDE DEF s, u
<1>5. Flat(u) = Flat(s) \o Span
  BY <1>2, <1>3, <1>4, FlatAppend
<1> QED BY <1>5 DEF Spans, s, u

LEMMA RpcStarts == Mcp!Init => RpcInv
<1> SUFFICES ASSUME Mcp!Init PROVE RpcInv
  OBVIOUS
<1>1. body \in Seq(Mcp!Envelopes)
  <2> HIDE DEF Mcp!Envelopes
  <2>1. PICK n \in Nat : body \in Mcp!SeqOf(Mcp!Envelopes, n)
    BY McpAssumption DEF Mcp!Init
  <2>2. PICK m \in 0..n : body \in [1..m -> Mcp!Envelopes]
    BY <2>1 DEF Mcp!SeqOf
  <2> QED BY <2>2
<1>2. replies = <<>> /\ ran = <<>> /\ spans = <<>> /\ status = None
  BY DEF Mcp!Init
<1> HIDE DEF Mcp!Envelopes
<1>3. AnswersInv
  <2>1. TellingIn(replies) = {}
    BY <1>2 DEF TellingIn
  <2>2. Cardinality(TellingIn(replies)) = 0
    BY <2>1, FS_EmptySet
  <2>3. Len(replies) = 0 /\ Len(ran) = 0 /\ DOMAIN replies = {} /\ Len(body) \in Nat
    <3> HIDE DEF Mcp!Envelopes
    <3> QED BY <1>1, <1>2
  <2> QED BY <1>2, <2>2, <2>3, McpAssumption DEF AnswersInv
<1>4. RunsUpTo(Len(replies))
  <2>1. [i \in 1..Len(ran) |-> 1] \in [1..Len(ran) -> Mcp!Calling]
    BY <1>2
  <2>2. 1..Len(ran) = {}
    BY <1>2
  <2> QED BY <2>1, <2>2 DEF RunsUpTo
<1>5. Spans
  <2>1. [i \in DOMAIN ran |-> Span] = <<>>
    BY <1>2
  <2> QED BY <1>2, <2>1, FlatEmpty DEF Spans
<1> QED BY <1>1, <1>2, <1>3, <1>4, <1>5, McpAssumption DEF RpcInv, Reached, Mcp!Init

\* A reply that answers the next envelope, with the run it tells of if it tells
\* of one.
LEMMA RpcAnswers ==
  ASSUME RpcInv, status = None, Len(replies) < Len(body), NEW r \in Responses, NEW e, e = body[Len(replies) + 1],
         replies' = Append(replies, r), UNCHANGED <<registered, body, batched, status>>,
         Answers(r, e),
         IF r.what \in Told THEN ran' = Append(ran, e.tool) /\ spans' = spans \o Span ELSE UNCHANGED <<ran, spans>>
  PROVE  RpcInv'
<1> DEFINE n == Len(replies) + 1
<1>1. body \in Seq(Mcp!Envelopes) /\ replies \in Seq(Responses) /\ ran \in Seq(Tools) /\ Len(replies) \in Nat
  BY DEF RpcInv
<1>2. n \in DOMAIN body /\ n \in Nat /\ n - 1 = Len(replies)
  BY <1>1
<1>3. e \in Mcp!Envelopes
  <2> HIDE DEF Mcp!Envelopes
  <2> QED BY <1>1, <1>2
<1> HIDE DEF Responses, Mcp!Envelopes
<1>4. replies' \in Seq(Responses) /\ Len(replies') = n
  BY <1>1
<1>5. \A i \in DOMAIN replies' : Answers(replies'[i], body[i])
  <2> TAKE i \in DOMAIN replies'
  <2>1. CASE i = n
    <3>1. replies'[i] = r /\ body[i] = e
      BY <1>1, <2>1
    <3> QED BY <3>1
  <2>2. CASE i # n
    <3>1. i \in DOMAIN replies /\ replies'[i] = replies[i]
      BY <1>1, <1>4, <2>2
    <3> QED BY <3>1 DEF RpcInv, AnswersInv
  <2> QED BY <2>1, <2>2
<1>6. /\ Cardinality(TellingIn(replies)) \in Nat
      /\ Cardinality(TellingIn(replies')) =
              IF r.what \in Told THEN Cardinality(TellingIn(replies)) + 1 ELSE Cardinality(TellingIn(replies))
  BY <1>1, TellingAppend
<1>7. Len(ran) = Cardinality(TellingIn(replies))
  BY DEF RpcInv, AnswersInv
<1>8. CASE r.what \in Told
  <2>1. n \in Mcp!Calling /\ e.tool \in Tools
    BY <1>2, <1>3, <1>8, EnvelopesAre DEF Answers, Mcp!Calling
  <2>2. /\ ran' \in Seq(Tools) /\ Len(ran') = Len(ran) + 1
        /\ \E f \in [1..Len(ran') -> Mcp!Calling'] :
              /\ \A i \in 1..Len(ran') : body'[f[i]].tool = ran'[i] /\ f[i] <= n
              /\ \A i, j \in 1..Len(ran') : i < j => f[i] < f[j]
    BY <1>8, <2>1, OneMoreRun
  <2>3. RunsUpTo(Len(replies))'
    BY <1>4, <2>2 DEF RunsUpTo
  <2>4. Spans'
    BY <1>1, <1>8, <2>1, OneMoreSpan DEF RpcInv
  <2>5. AnswersInv'
    <3>1. TellingIn(replies)' = TellingIn(replies')
      BY DEF TellingIn
    <3> QED BY <1>1, <1>4, <1>5, <1>6, <1>7, <1>8, <2>2, <3>1, McpAssumption DEF AnswersInv, Answers
  <2> QED BY <1>4, <2>2, <2>3, <2>4, <2>5, McpAssumption DEF RpcInv, Reached
<1>9. CASE r.what \notin Told
  <2>1. RunsUpTo(Len(replies))'
    <3>1. RunsUpTo(Len(replies))
      BY DEF RpcInv, Reached
    <3>2. Len(replies) <= n
      BY <1>1
    <3>3. \E f \in [1..Len(ran') -> Mcp!Calling'] :
             /\ \A i \in 1..Len(ran') : body'[f[i]].tool = ran'[i] /\ f[i] <= n
             /\ \A i, j \in 1..Len(ran') : i < j => f[i] < f[j]
      BY <1>1, <1>2, <1>9, <3>1, <3>2, RunsAgain
    <3> QED BY <1>4, <3>3 DEF RunsUpTo
  <2>2. Spans'
    BY <1>9 DEF RpcInv, Spans
  <2>3. AnswersInv'
    <3>1. TellingIn(replies)' = TellingIn(replies')
      BY DEF TellingIn
    <3> QED BY <1>1, <1>4, <1>5, <1>6, <1>7, <1>9, <3>1, McpAssumption DEF AnswersInv, Answers
  <2> QED BY <1>4, <1>9, <2>1, <2>2, <2>3, McpAssumption DEF RpcInv, Reached
<1> QED BY <1>8, <1>9

LEMMA RpcRegister ==
  ASSUME RpcInv, NEW t \in Tools, Mcp!Register(t)
  PROVE  RpcInv'
<1>1. registered \subseteq registered' /\ registered' \in SUBSET Tools
      /\ UNCHANGED <<body, batched, replies, ran, spans, status>>
  BY DEF Mcp!Register, RpcInv
<1> HIDE DEF Responses, Mcp!Envelopes
<1>2. AnswersInv'
  <2>1. \A i \in DOMAIN replies : Answers(replies[i], body[i]) => Answers(replies[i], body[i])'
    BY <1>1 DEF Answers
  <2>2. TellingIn(replies)' = TellingIn(replies)
    BY <1>1 DEF TellingIn
  <2> QED BY <1>1, <2>1, <2>2 DEF AnswersInv, RpcInv
<1>3. RunsUpTo(Reached)' /\ Spans'
  <2>1. Reached' = Reached /\ Mcp!Calling' = Mcp!Calling
    BY <1>1 DEF Reached, Mcp!Calling
  <2>2. RunsUpTo(Reached)'
    <3>1. RunsUpTo(Reached)
      BY DEF RpcInv
    <3> QED BY <1>1, <2>1, <3>1 DEF RunsUpTo
  <2> QED BY <1>1, <2>2 DEF RpcInv, Spans
<1>4. \A i \in DOMAIN body : Excuses(body[i]) => Excuses(body[i])'
  BY <1>1 DEF Excuses
<1> QED BY <1>1, <1>2, <1>3, <1>4 DEF RpcInv

LEMMA RepliesAre ==
  ASSUME NEW e \in Mcp!Envelopes, RpcInv
  PROVE  /\ Mcp!make_result(e.id, "serverInfo") \in Responses /\ Mcp!make_result(e.id, "empty") \in Responses
         /\ Mcp!Reply("result", e.id, "tools", registered, FALSE) \in Responses
         /\ \A code \in {"MethodNotFound", "InvalidRequest", "InternalError"} : Mcp!make_error(e.id, code) \in Responses
         /\ \A text \in Told \cup {"unknownTool"}, failed \in BOOLEAN :
              Mcp!text_content(e.id, text, failed) \in Responses
         /\ Mcp!make_error(None, "ParseError") \in Responses
<1>1. e.id \in {1, 2, None} /\ registered \in SUBSET Tools
  BY EnvelopesAre DEF RpcInv
<1> QED BY <1>1 DEF Responses, What, Told, Mcp!make_result, Mcp!make_error, Mcp!text_content, Mcp!Reply

LEMMA RpcDispatch ==
  ASSUME RpcInv, Mcp!Dispatch
  PROVE  RpcInv'
<1> DEFINE e == body[Len(replies) + 1]
<1>1. /\ status = None /\ Len(replies) < Len(body)
      /\ Mcp!DispatchPlain(e) \/ Mcp!DispatchInvalid(e) \/ Mcp!DispatchCall(e) \/ Mcp!DispatchThrows(e)
  BY DEF Mcp!Dispatch
<1>2. body \in Seq(Mcp!Envelopes) /\ Len(replies) \in Nat /\ replies \in Seq(Responses)
  BY DEF RpcInv
<1>3. e \in Mcp!Envelopes /\ Len(replies) + 1 \in DOMAIN body
  <2> HIDE DEF Mcp!Envelopes
  <2> QED BY <1>1, <1>2
<1> HIDE DEF e, Mcp!Envelopes, Responses
<1>4. /\ e.shape \in {"valid", "invalid", "odd"}
      /\ e.method = "tools/call" => e.shape = "valid" /\ e.tool \in Tools
      /\ e.shape = "invalid" => e.method = None
  BY <1>3, EnvelopesAre
<1>5. CASE Mcp!DispatchPlain(e)
  <2>1. PICK r \in Responses :
          /\ r.id = e.id /\ r.what \notin Told /\ r.tools \subseteq registered
          /\ r.tools # {} => e.method = "tools/list"
          /\ r.kind = "error" <=> e.method = "unknown"
          /\ Mcp!Answer(r)
    <3>1. e.shape = "valid" /\ e.method \in {"initialize", "tools/list", "ping", "unknown"}
      BY <1>3, <1>5, EnvelopesAre DEF Mcp!DispatchPlain, Mcp!Methods
    <3>2. CASE e.method = "initialize"
      <4>1. Mcp!Answer(Mcp!make_result(e.id, "serverInfo"))
        BY <1>5, <3>2 DEF Mcp!DispatchPlain
      <4> QED BY <1>3, <3>2, <4>1, RepliesAre DEF Mcp!make_result, Mcp!Reply, Told
    <3>3. CASE e.method = "tools/list"
      <4>1. Mcp!Answer(Mcp!Reply("result", e.id, "tools", registered, FALSE))
        BY <1>5, <3>3 DEF Mcp!DispatchPlain
      <4> QED BY <1>3, <3>3, <4>1, RepliesAre DEF Mcp!Reply, Told
    <3>4. CASE e.method = "ping"
      <4>1. Mcp!Answer(Mcp!make_result(e.id, "empty"))
        BY <1>5, <3>4 DEF Mcp!DispatchPlain
      <4> QED BY <1>3, <3>4, <4>1, RepliesAre DEF Mcp!make_result, Mcp!Reply, Told
    <3>5. CASE e.method = "unknown"
      <4>1. Mcp!Answer(Mcp!make_error(e.id, "MethodNotFound"))
        BY <1>5, <3>5 DEF Mcp!DispatchPlain
      <4> QED BY <1>3, <3>5, <4>1, RepliesAre DEF Mcp!make_error, Mcp!Reply, Told
    <3> QED BY <3>1, <3>2, <3>3, <3>4, <3>5
  <2>2. Answers(r, e)
    BY <1>5, <2>1 DEF Answers, Mcp!DispatchPlain
  <2> QED BY <1>1, <1>5, <2>1, <2>2, RpcAnswers DEF Mcp!Answer, Mcp!DispatchPlain, Mcp!NoTool, e
<1>6. CASE Mcp!DispatchInvalid(e)
  <2> DEFINE r == Mcp!make_error(e.id, "InvalidRequest")
  <2>1. r \in Responses
    BY <1>3, RepliesAre
  <2>2. Answers(r, e) /\ r.what \notin Told
    BY <1>4, <1>6 DEF Answers, Mcp!DispatchInvalid, Mcp!make_error, Mcp!Reply, Told
  <2> HIDE DEF r
  <2>3. Mcp!Answer(r) /\ Mcp!NoTool
    BY <1>6 DEF Mcp!DispatchInvalid, r
  <2> QED BY <1>1, <2>1, <2>2, <2>3, RpcAnswers DEF Mcp!Answer, Mcp!NoTool, e
<1>7. CASE Mcp!DispatchCall(e)
  <2>1. CASE e.tool \notin registered
    <3> DEFINE r == Mcp!text_content(e.id, "unknownTool", TRUE)
    <3>1. r \in Responses
      BY <1>3, RepliesAre
    <3>2. Answers(r, e) /\ r.what \notin Told
      BY <1>4, <1>7 DEF Answers, Mcp!DispatchCall, Mcp!text_content, Mcp!Reply, Told
    <3> HIDE DEF r
    <3>3. Mcp!Answer(r) /\ Mcp!NoTool
      BY <1>7, <2>1 DEF Mcp!DispatchCall, r
    <3> QED BY <1>1, <3>1, <3>2, <3>3, RpcAnswers DEF Mcp!Answer, Mcp!NoTool, e
  <2>2. CASE e.tool \in registered
    <3>1. PICK failed \in BOOLEAN :
            /\ ran' = Append(ran, e.tool) /\ spans' = spans \o Span
            /\ Mcp!Answer(Mcp!text_content(e.id, IF failed THEN "error" ELSE "observation", failed))
      BY <1>7, <2>2 DEF Mcp!DispatchCall, Span
    <3> DEFINE r == Mcp!text_content(e.id, IF failed THEN "error" ELSE "observation", failed)
    <3>2. r \in Responses
      BY <1>3, RepliesAre DEF Told
    <3>3. Answers(r, e) /\ r.what \in Told
      BY <1>4, <1>7, <2>2 DEF Answers, Mcp!DispatchCall, Mcp!text_content, Mcp!Reply, Told
    <3> HIDE DEF r
    <3>4. Mcp!Answer(r)
      BY <3>1 DEF r
    <3> QED BY <1>1, <3>1, <3>2, <3>3, <3>4, RpcAnswers DEF Mcp!Answer, e
  <2> QED BY <2>1, <2>2
<1>8. CASE Mcp!DispatchThrows(e)
  <2>1. status' = 500 /\ UNCHANGED <<registered, body, batched>>
    BY <1>8 DEF Mcp!DispatchThrows
  <2>2. replies' \in Seq(Responses)
    <3>1. Mcp!make_error(e.id, "InternalError") \in Responses
      BY <1>3, RepliesAre
    <3>2. replies' \in {<<Mcp!make_error(e.id, "InternalError")>>, <<>>}
      BY <1>8 DEF Mcp!DispatchThrows, Mcp!Failed
    <3> DEFINE failure == Mcp!make_error(e.id, "InternalError")
    <3>3. failure \in Responses /\ replies' \in {<<failure>>, <<>>}
      BY <3>1, <3>2
    <3> HIDE DEF failure
    <3>4. <<failure>> \in Seq(Responses) /\ <<>> \in Seq(Responses)
      BY <3>3
    <3> QED BY <3>3, <3>4
  <2>3. Excuses(e)
    BY <1>8 DEF Mcp!DispatchThrows, Excuses
  <2>4. Len(body) \in Nat /\ ran \in Seq(Tools) /\ Spans /\ RunsUpTo(Len(replies)) /\ Len(replies) + 1 <= Len(body)
    BY <1>1, <1>2 DEF RpcInv, Reached
  <2>5. /\ ran' \in Seq(Tools) /\ Spans'
        /\ \E f \in [1..Len(ran') -> Mcp!Calling'] :
             /\ \A i \in 1..Len(ran') : body'[f[i]].tool = ran'[i] /\ f[i] <= Len(body)
             /\ \A i, j \in 1..Len(ran') : i < j => f[i] < f[j]
    <3>1. CASE UNCHANGED <<ran, spans>>
      <4>1. Spans'
        BY <2>4, <3>1 DEF Spans
      <4>2. Len(replies) <= Len(body)
        BY <1>2, <2>4
      <4> QED BY <1>2, <2>1, <2>4, <3>1, <4>1, <4>2, RunsAgain
    <3>2. CASE /\ e.method = "tools/call" /\ e.tool \in registered
               /\ ran' = Append(ran, e.tool) /\ spans' = spans \o Span
      <4> DEFINE n == Len(replies) + 1
      <4>1. n \in Mcp!Calling /\ n \in Nat
        BY <1>2, <1>3, <3>2 DEF Mcp!Calling, e
      <4>2. /\ ran' \in Seq(Tools)
            /\ \E f \in [1..Len(ran') -> Mcp!Calling'] :
                 /\ \A i \in 1..Len(ran') : body'[f[i]].tool = ran'[i] /\ f[i] <= n
                 /\ \A i, j \in 1..Len(ran') : i < j => f[i] < f[j]
        BY <1>1, <2>1, <3>2, <4>1, OneMoreRun DEF e
      <4>3. PICK f \in [1..Len(ran') -> Mcp!Calling'] :
               /\ \A i \in 1..Len(ran') : body'[f[i]].tool = ran'[i] /\ f[i] <= n
               /\ \A i, j \in 1..Len(ran') : i < j => f[i] < f[j]
        BY <4>2
      <4>4. \A i \in 1..Len(ran') : f[i] <= Len(body)
        <5> TAKE i \in 1..Len(ran')
        <5>1. f[i] \in Mcp!Calling'
          BY <4>3
        <5> QED BY <1>2, <2>1, <5>1 DEF Mcp!Calling
      <4>5. Spans'
        BY <1>4, <2>4, <3>2, OneMoreSpan
      <4> QED BY <4>2, <4>3, <4>4, <4>5
    <3> QED BY <1>8, <3>1, <3>2 DEF Mcp!DispatchThrows, Mcp!NoTool, Span
  <2>6. RunsUpTo(Len(body))'
    BY <2>1, <2>5 DEF RunsUpTo
  <2>7. (\E i \in DOMAIN body : Excuses(body[i]))'
    BY <1>3, <2>1, <2>3 DEF e, Excuses
  <2> QED BY <1>1, <2>1, <2>2, <2>5, <2>6, <2>7, McpAssumption DEF RpcInv, AnswersInv, Reached
<1> QED BY <1>1, <1>5, <1>6, <1>7, <1>8

LEMMA RpcRespond ==
  ASSUME RpcInv, Mcp!Respond \/ Mcp!ParseError
  PROVE  RpcInv'
<1>1. status = None /\ status' \in {200, 400, 500} /\ UNCHANGED <<registered, body, batched, ran, spans>>
  BY DEF Mcp!Respond, Mcp!ParseError
<1>2. body \in Seq(Mcp!Envelopes) /\ replies \in Seq(Responses) /\ Len(replies) \in Nat /\ Len(body) \in Nat
      /\ Len(replies) <= Len(body) /\ RunsUpTo(Len(replies))
  BY <1>1 DEF RpcInv, AnswersInv, Reached
<1>3. replies' \in Seq(Responses)
  <2>1. Mcp!make_error(None, "ParseError") \in Responses
    BY DEF Responses, What, Mcp!make_error, Mcp!Reply
  <2>2. Len(body) # 0 => Mcp!make_error(body[1].id, "InternalError") \in Responses
    <3> HIDE DEF Responses, Mcp!Envelopes
    <3>1. Len(body) # 0 => body[1] \in Mcp!Envelopes
      BY <1>2
    <3> QED BY <3>1, RepliesAre
  <2> HIDE DEF Responses, Mcp!Envelopes
  <2>3. (\E i \in DOMAIN replies : replies[i].what \in Told \/ replies[i].tools # {}) /\ Len(replies) = Len(body)
          => Len(body) # 0
    BY <1>2
  <2>4. CASE Mcp!Respond
    <3>1. CASE UNCHANGED replies
      BY <1>2, <3>1
    <3>2. CASE /\ \E i \in DOMAIN replies : replies[i].what \in Told \/ replies[i].tools # {}
               /\ replies' = IF batched THEN <<>> ELSE <<Mcp!make_error(body[1].id, "InternalError")>>
      <4>1. Mcp!make_error(body[1].id, "InternalError") \in Responses
        BY <2>2, <2>3, <2>4, <3>2 DEF Mcp!Respond
      <4> QED BY <3>2, <4>1
    <3> QED BY <2>4, <3>1, <3>2 DEF Mcp!Respond, Mcp!Failed, Told
  <2>5. CASE Mcp!ParseError
    BY <2>1, <2>5 DEF Mcp!ParseError
  <2> QED BY <2>4, <2>5
<1> HIDE DEF Responses, Mcp!Envelopes
<1>4. RunsUpTo(Len(body))' /\ Spans'
  <2>1. RunsUpTo(Len(body))'
    <3>1. \E f \in [1..Len(ran') -> Mcp!Calling'] :
             /\ \A i \in 1..Len(ran') : body'[f[i]].tool = ran'[i] /\ f[i] <= Len(body)
             /\ \A i, j \in 1..Len(ran') : i < j => f[i] < f[j]
      <4>1. /\ body \in Seq(Mcp!Envelopes) /\ UNCHANGED <<body, ran>> /\ RunsUpTo(Len(replies))
            /\ Len(replies) \in Nat /\ Len(body) \in Nat /\ Len(replies) <= Len(body)
        BY <1>1, <1>2
      <4> QED BY <4>1, RunsAgain
    <3> QED BY <1>1, <3>1 DEF RunsUpTo
  <2> QED BY <1>1, <2>1 DEF RpcInv, Spans
<1>5. status' = 200 => replies' = replies /\ Len(replies) = Len(body)
  BY DEF Mcp!Respond, Mcp!ParseError
<1>6. AnswersInv'
  <2>1. CASE status' = 200
    <3>1. TellingIn(replies)' = TellingIn(replies)
      BY <1>5, <2>1 DEF TellingIn
    <3>2. \A i \in DOMAIN replies : Answers(replies[i], body[i]) => Answers(replies[i], body[i])'
      BY <1>1, <1>5, <2>1 DEF Answers
    <3> QED BY <1>1, <1>5, <2>1, <3>1, <3>2 DEF RpcInv, AnswersInv
  <2>2. CASE status' # 200
    BY <1>1, <2>2, McpAssumption DEF AnswersInv
  <2> QED BY <2>1, <2>2
<1>7. ASSUME status' = 500 PROVE (\E i \in DOMAIN body : Excuses(body[i]))'
  <2>1. PICK i \in DOMAIN replies : replies[i].what \in Told \/ replies[i].tools # {}
    BY <1>7 DEF Mcp!Respond, Mcp!ParseError, Told
  <2>2. Answers(replies[i], body[i]) /\ i \in DOMAIN body
    BY <1>1, <1>2, <2>1 DEF RpcInv, AnswersInv
  <2>3. Excuses(body[i])
    BY <2>1, <2>2 DEF Answers, Excuses
  <2> QED BY <1>1, <2>2, <2>3 DEF Excuses
<1> QED BY <1>1, <1>3, <1>4, <1>6, <1>7, McpAssumption DEF RpcInv, Reached

LEMMA RpcStep == RpcInv /\ [Mcp!Next]_mcpVars => RpcInv'
<1> SUFFICES ASSUME RpcInv, [Mcp!Next]_mcpVars PROVE RpcInv'
  OBVIOUS
<1>1. CASE UNCHANGED mcpVars
  <2>1. UNCHANGED <<registered, body, batched, replies, ran, spans, status>>
    BY <1>1 DEF mcpVars
  <2>2. Reached' = Reached /\ Mcp!Calling' = Mcp!Calling
    BY <2>1 DEF Reached, Mcp!Calling
  <2>3. RunsUpTo(Reached)'
    <3>1. RunsUpTo(Reached)
      BY DEF RpcInv
    <3> QED BY <2>1, <2>2, <3>1 DEF RunsUpTo
  <2> QED BY <2>1, <2>3 DEF RpcInv, AnswersInv, Spans, Answers, Excuses, TellingIn
<1>2. CASE Mcp!Next
  BY <1>2, RpcRegister, RpcDispatch, RpcRespond DEF Mcp!Next
<1> QED BY <1>1, <1>2

LEMMA RpcHolds == RpcInv => Mcp!RepliesAnswer /\ Mcp!TypeOK
<1> SUFFICES ASSUME RpcInv PROVE Mcp!RepliesAnswer /\ Mcp!TypeOK
  OBVIOUS
<1>1. Mcp!TypeOK
  <2> HIDE DEF Mcp!Envelopes
  <2>1. \A i \in DOMAIN replies : replies[i] \in Responses
    <3> HIDE DEF Responses
    <3> QED BY DEF RpcInv
  <2> QED BY <2>1 DEF RpcInv, Mcp!TypeOK, Responses
<1>2. status = 200 =>
       /\ Len(replies) = Len(body)
       /\ \A i \in DOMAIN body :
            /\ replies[i].id = body[i].id
            /\ replies[i].kind = "error" <=> body[i].shape = "invalid" \/ body[i].method = "unknown"
            /\ Mcp!list_tools(replies[i]) \subseteq registered
            /\ body[i].method = "tools/call" => Mcp!invoke_tool(replies[i]) \in {"observation", "error", "unknownTool"}
       /\ Len(ran) = Cardinality({i \in DOMAIN body : Mcp!invoke_tool(replies[i]) \in {"observation", "error"}})
  <2> SUFFICES ASSUME status = 200
               PROVE  /\ Len(replies) = Len(body)
                      /\ \A i \in DOMAIN body :
                           /\ replies[i].id = body[i].id
                           /\ replies[i].kind = "error" <=> body[i].shape = "invalid" \/ body[i].method = "unknown"
                           /\ Mcp!list_tools(replies[i]) \subseteq registered
                           /\ body[i].method = "tools/call" =>
                                Mcp!invoke_tool(replies[i]) \in {"observation", "error", "unknownTool"}
                      /\ Len(ran) = Cardinality({i \in DOMAIN body :
                                                    Mcp!invoke_tool(replies[i]) \in {"observation", "error"}})
    OBVIOUS
  <2>1. /\ Len(replies) = Len(body) /\ Len(ran) = Cardinality(TellingIn(replies))
        /\ \A i \in DOMAIN replies : Answers(replies[i], body[i])
    BY DEF RpcInv, AnswersInv
  <2>2. DOMAIN replies = DOMAIN body /\ \A i \in DOMAIN body : body[i] \in Mcp!Envelopes
    <3> HIDE DEF Mcp!Envelopes, Responses
    <3> QED BY <2>1 DEF RpcInv
  <2>3. ASSUME NEW i \in DOMAIN body
        PROVE  /\ replies[i].id = body[i].id
               /\ replies[i].kind = "error" <=> body[i].shape = "invalid" \/ body[i].method = "unknown"
               /\ Mcp!list_tools(replies[i]) \subseteq registered
               /\ body[i].method = "tools/call" =>
                    Mcp!invoke_tool(replies[i]) \in {"observation", "error", "unknownTool"}
               /\ Mcp!invoke_tool(replies[i]) \in {"observation", "error"} <=> replies[i].what \in Told
    <3>1. Answers(replies[i], body[i])
      BY <2>1, <2>2, <2>3
    <3>2. body[i].method = "tools/call" => body[i].shape = "valid"
      BY <2>2, EnvelopesAre
    <3>3. body[i].method = "tools/call" => replies[i].kind # "error"
      BY <3>1, <3>2 DEF Answers
    <3> QED BY <3>1, <3>2, <3>3, McpAssumption DEF Answers, Told, Mcp!list_tools, Mcp!invoke_tool, Mcp!fails
  <2>4. {i \in DOMAIN body : Mcp!invoke_tool(replies[i]) \in {"observation", "error"}} = TellingIn(replies)
    BY <2>2, <2>3 DEF TellingIn
  <2> QED BY <2>1, <2>3, <2>4
<1>3. \E f \in [1..Len(ran) -> Mcp!Calling] :
       /\ \A i \in 1..Len(ran) : body[f[i]].tool = ran[i]
       /\ \A i, j \in 1..Len(ran) : i < j => f[i] < f[j]
  <2>1. PICK f \in [1..Len(ran) -> Mcp!Calling] :
        /\ \A i \in 1..Len(ran) : body[f[i]].tool = ran[i] /\ f[i] <= Reached
        /\ \A i, j \in 1..Len(ran) : i < j => f[i] < f[j]
    BY DEF RpcInv, RunsUpTo
  <2> QED BY <2>1
<1>4. spans = Mcp!FlattenSeq([i \in DOMAIN ran |-> <<"BeforeTool", "AfterTool">>])
  <2> DEFINE told == [i \in DOMAIN ran |-> Span]
  <2>1. spans = Flat(told)
    BY DEF RpcInv, Spans
  <2>2. Len(told) = 0 => told = <<>>
    <3>1. Len(ran) \in Nat /\ DOMAIN told = 1..Len(ran)
      BY DEF RpcInv
    <3> QED BY <3>1
  <2>3. told = [i \in DOMAIN ran |-> <<"BeforeTool", "AfterTool">>]
    BY DEF Span
  <2> HIDE DEF told
  <2>4. Flat(told) = Mcp!FlattenSeq(told)
    BY <2>2 DEF Flat, Mcp!FlattenSeq
  <2> QED BY <2>1, <2>3, <2>4
<1>5. status = 500 => \E i \in DOMAIN body :
                         \/ body[i].shape = "odd" \/ body[i].tool \in registered
                         \/ body[i].method = "tools/list" /\ registered # {}
  BY DEF RpcInv, Excuses
<1>6. \A S : Mcp!Cardinality(S) = Cardinality(S)
  BY DEF Cardinality, Mcp!Cardinality
<1> QED BY <1>1, <1>2, <1>3, <1>4, <1>5, <1>6 DEF Mcp!RepliesAnswer
=============================================================================

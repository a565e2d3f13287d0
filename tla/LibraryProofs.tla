------------------------------ MODULE LibraryProofs ------------------------------
(***************************************************************************)
(* The utilities of the library: the timer, for every number of threads    *)
(* that may call stop(); the configuration file; the observer lists, for   *)
(* every number of threads, ids, connections and nested emissions; the     *)
(* chat window, for every history; the text splitters, for every text.     *)
(***************************************************************************)
EXTENDS MCLibrary, SequenceFacts

-----------------------------------------------------------------------------
(* Timer, which MCLibrary extends.  StoppedIsJoined and FiresTheLatest are *)
(* about quiet histories: neither is inductive, since nothing in them says *)
(* where the call under way and the worker are while running_, worker_ and *)
(* the thread disagree for a moment.  QuietInv says it.                    *)

Active == wpc \in {"start", "wait", "call", "stopping"}

\* At most one call is under way; what each of its points knows of running_,
\* worker_ and the thread; a live thread has an owner and runs for the present
\* schedule, which has not fired yet if it fires once.
QuietInv ==
  Quiet =>
    /\ ~terminated
    /\ \A t, u \in Callers : pc[t] # "idle" /\ pc[u] # "idle" => t = u
    /\ \A t \in Callers : pc[t] = "joining" => running
    /\ \A t \in Callers : pc[t] = "clearing" => ~joinable /\ ~Active
    /\ \A t \in Callers : pc[t] \in {"stopped", "gone"} => ~running
    /\ pc[Owner] = "fields" => running /\ ~joinable /\ ~Active /\ fired = 0
    /\ pc[Owner] = "spawned" => running /\ ~joinable
    /\ ~running => ~joinable /\ ~Active
    /\ Active => joinable \/ pc[Owner] = "spawned"
    /\ wpc \in {"wait", "call", "stopping"} => wcb = cb
    /\ schedule = "once" => fired <= 1 /\ (Active => fired = 0)

\* The flags, which the first-order prover handles, apart from the rest.
Flags ==
  /\ running \in BOOLEAN /\ stopFlag \in BOOLEAN /\ joinable \in BOOLEAN
  /\ terminated \in BOOLEAN /\ early \in BOOLEAN /\ overlap \in BOOLEAN

Places ==
  /\ cb \in Callbacks \cup {NoCallback}
  /\ schedule \in Schedules
  /\ wpc \in {"none", "start", "wait", "call", "stopping", "ended"}
  /\ wcb \in Callbacks \cup {NoCallback}
  /\ pc \in [Callers -> {"idle", "joining", "clearing", "stopped", "fields", "spawned", "gone"}]
  /\ wants \in {"stop", "start", "destroy"}
  /\ fired \in 0..MaxFired

LEMMA FlagsKept == Flags /\ [Next]_vars => Flags'
<1> SUFFICES ASSUME Flags, [Next]_vars PROVE Flags'
  OBVIOUS
<1> USE DEF Flags, flags, fields, thread, history
<1>1. CASE WorkerStep
  BY <1>1, Zenon DEF WorkerStep, Copies, WaitIsStopped, WaitElapses, CallReturns, CallbackStops, CallbackStopEnds
<1>2. CASE OwnerStep
  BY <1>2, Zenon DEF OwnerStep, SetFields, Spawns, Assigns, Destroyed
<1>3. ASSUME NEW t \in Callers, StopChecks(t) PROVE Flags'
  BY <1>3, Zenon DEF StopChecks
<1>4. ASSUME NEW t \in Callers, CallStep(t) PROVE Flags'
  BY <1>4, Zenon DEF CallStep, Joins, Clears, StopReturns
<1>5. CASE UNCHANGED vars
  BY <1>5 DEF vars
<1> QED BY <1>1, <1>2, <1>3, <1>4, <1>5, Zenon DEF Next, OwnerCalls, OtherStops, Callers

LEMMA PlacesKept == Places /\ [Next]_vars => Places'
<1> SUFFICES ASSUME Places, [Next]_vars PROVE Places'
  OBVIOUS
<1> USE TimerAssumption DEF Places, Callers, Goto, flags, fields, thread, history
<1>1. CASE WorkerStep
  BY <1>1 DEF WorkerStep, Copies, WaitIsStopped, WaitElapses, CallReturns, CallbackStops, CallbackStopEnds, AfterCall
<1>2. CASE OwnerStep
  BY <1>2 DEF OwnerStep, SetFields, Spawns, Assigns, Destroyed
<1>3. CASE OwnerCalls
  BY <1>3 DEF OwnerCalls, StopChecks
<1>4. ASSUME NEW t \in Callers, CallStep(t) \/ OtherStops(t) PROVE Places'
  BY <1>4 DEF CallStep, Joins, Clears, StopReturns, OtherStops, StopChecks
<1>5. CASE UNCHANGED vars
  BY <1>5 DEF vars
<1> QED BY <1>1, <1>2, <1>3, <1>4, <1>5 DEF Next

\* Every variable keeps its type.
THEOREM TypeCorrect == Spec => []TypeOK
<1>1. Init => Flags
  BY Zenon DEF Init, Flags
<1>2. Init => Places
  BY TimerAssumption DEF Init, Places, Schedules
<1>3. Flags /\ Places => TypeOK
  BY DEF Flags, Places, TypeOK
<1> QED BY <1>1, <1>2, <1>3, FlagsKept, PlacesKept, PTL DEF Spec

-----------------------------------------------------------------------------
LEMMA QuietInductive ==
  ASSUME TypeOK, QuietInv, [Next]_vars
  PROVE  QuietInv'
<1> SUFFICES ASSUME Quiet' PROVE QuietInv'
  BY DEF QuietInv
<1> USE TimerAssumption DEF TypeOK, QuietInv, Quiet, Active, Callers, Goto, flags, fields, thread, history
<1>1. ASSUME NEW t \in Callers, StopChecks(t) PROVE QuietInv'
  <2>1. ~early /\ ~overlap /\ \A u \in Callers \ {t} : pc[u] = "idle"
    BY <1>1, Zenon DEF StopChecks
  <2>2. /\ pc[t] = "idle" /\ ~terminated
        /\ IF running THEN pc' = [pc EXCEPT ![t] = "joining"] ELSE pc' = [pc EXCEPT ![t] = "stopped"]
        /\ UNCHANGED <<running, cb, schedule, joinable, wpc, wcb, fired, terminated>>
    BY <1>1, Zenon DEF StopChecks
  <2>3. /\ \A u \in Callers : u # t => pc'[u] = "idle"
        /\ pc'[t] = IF running THEN "joining" ELSE "stopped"
    BY <2>1, <2>2
  <2> QED BY <2>1, <2>2, <2>3
<1>2. ASSUME NEW t \in Callers, Joins(t) PROVE QuietInv'
  BY <1>2 DEF Joins
<1>3. ASSUME NEW t \in Callers, Clears(t) PROVE QuietInv'
  BY <1>3 DEF Clears
<1>4. ASSUME NEW t \in Callers, StopReturns(t) PROVE QuietInv'
  BY <1>4 DEF StopReturns
<1>5. ASSUME NEW f \in Callbacks, NEW s \in Schedules, SetFields(f, s) PROVE QuietInv'
  BY <1>5 DEF SetFields
<1>6. CASE Spawns
  <2>1. ~Active /\ pc[Owner] = "fields" /\ running /\ ~joinable /\ ~terminated /\ fired = 0
    BY <1>6 DEF Spawns
  <2>2. /\ wpc' = "start" /\ pc' = [pc EXCEPT ![Owner] = "spawned"]
        /\ UNCHANGED <<running, stopFlag, cb, schedule, joinable, wants, fired, terminated, early, overlap>>
    BY <1>6, <2>1 DEF Spawns
  <2>3. pc'[Owner] = "spawned" /\ \A u \in Callers : u # Owner => pc'[u] = "idle"
    BY <2>1, <2>2
  <2> QED BY <2>1, <2>2, <2>3
<1>7. CASE Assigns
  BY <1>7 DEF Assigns
<1>8. CASE Destroyed
  BY <1>8 DEF Destroyed
<1>9. CASE Copies
  BY <1>9 DEF Copies
<1>10. CASE WaitIsStopped \/ WaitElapses
  BY <1>10 DEF WaitIsStopped, WaitElapses
<1>11. CASE CallReturns
  BY <1>11 DEF CallReturns, AfterCall
<1>12. CASE CallbackStops \/ CallbackStopEnds
  BY <1>12 DEF CallbackStops, CallbackStopEnds, AfterCall
<1>13. CASE UNCHANGED vars
  BY <1>13 DEF vars
<1> QED
  BY <1>1, <1>2, <1>3, <1>4, <1>5, <1>6, <1>7, <1>8, <1>9, <1>10, <1>11, <1>12, <1>13
     DEF Next, WorkerStep, OwnerStep, OwnerCalls, CallStep, OtherStops

LEMMA QuietInvariant == Spec => []QuietInv
<1>1. Init => QuietInv
  BY TimerAssumption DEF Init, QuietInv, Active, Callers
<1>2. TypeOK /\ QuietInv /\ [Next]_vars => QuietInv'
  BY QuietInductive
<1> QED BY <1>1, <1>2, TypeCorrect, PTL DEF Spec

-----------------------------------------------------------------------------
\* With no early or overlapping stop, a timer that does not say it runs has no
\* thread when its owner is outside its calls, and std::terminate is never
\* reached through worker_.
THEOREM StopJoins == Spec => []StoppedIsJoined
<1>1. TypeOK /\ QuietInv => StoppedIsJoined
  <2> SUFFICES ASSUME TypeOK, QuietInv, Quiet
               PROVE  ~terminated /\ (~running => ~joinable /\ wpc \in {"none", "ended"})
    BY Zenon DEF StoppedIsJoined
  <2> QED BY TimerAssumption DEF TypeOK, QuietInv, Active
<1> QED BY <1>1, QuietInvariant, TypeCorrect, PTL

\* What is called is what was started last, a one-shot timer once only.
THEOREM LatestFires == Spec => []FiresTheLatest
<1>1. TypeOK /\ QuietInv => FiresTheLatest
  BY TimerAssumption DEF TypeOK, QuietInv, FiresTheLatest, Active
<1> QED BY <1>1, QuietInvariant, TypeCorrect, PTL

-----------------------------------------------------------------------------
(* ConfigFile.  Between the calls that ask for the time of the last write  *)
(* the remembered time is that of the file exactly when nobody changed it; *)
(* while a call is about to ask, its contents are still those it read or   *)
(* wrote.                                                                  *)

ConfigFlags == watched \in BOOLEAN /\ edited \in BOOLEAN /\ raced \in BOOLEAN

ConfigTypes ==
  /\ ConfigFlags
  /\ sections \in Config!Versions /\ origin \in Config!Versions \cup {Config!Broken}
  /\ file \in Config!Versions \cup {Config!Broken, Config!Missing}
  /\ mtime \in Nat /\ lastWrite \in Nat
  /\ op \in {"none", "parse", "stampLoad", "truncate", "write", "stampSave"}

TimeKnown ==
  ~ raced /\ watched /\ op \in {"none", "parse", "truncate"} =>
    IF edited THEN mtime > lastWrite ELSE mtime = lastWrite /\ file = origin

ContentsKnown == ~ raced /\ op \in {"stampLoad", "stampSave"} => ~ edited /\ file = origin

ConfigInv == ConfigTypes /\ TimeKnown /\ ContentsKnown

LEMMA Contents ==
  /\ 0 \in Config!Versions /\ 1 \in Config!Versions \cup {Config!Broken}
  /\ Config!Missing \notin Config!Versions \cup {Config!Broken}
BY LibraryAssumption DEF Config!Versions, Config!Broken, Config!Missing

LEMMA ConfigStarts == Config!Init => ConfigInv
<1> SUFFICES ASSUME Config!Init PROVE ConfigInv
  OBVIOUS
<1>1. ~ watched /\ op = "none"
  BY Zenon DEF Config!Init
<1>2. ConfigFlags
  BY Zenon DEF Config!Init, ConfigFlags
<1>3. ConfigTypes
  BY <1>2, Contents DEF Config!Init, ConfigTypes
<1> QED BY <1>1, <1>3 DEF ConfigInv, TimeKnown, ContentsKnown

LEMMA ConfigStep == ConfigInv /\ Config!Next => ConfigInv'
<1> SUFFICES ASSUME ConfigInv, Config!Next PROVE ConfigInv'
  OBVIOUS
<1> USE Contents DEF ConfigInv, ConfigTypes, TimeKnown, ContentsKnown
<1>0. ConfigFlags'
  BY Zenon DEF ConfigFlags, Config!Next, Config!Load, Config!CheckReload, Config!ParseFails, Config!Parse, Config!StampLoad,
       Config!Save, Config!OpenFails, Config!Truncate, Config!SaveWrites, Config!StampSave, Config!Set, Config!Edit, Config!Crash
<1>1. CASE Config!Load
  BY <1>1, <1>0 DEF Config!Load
<1>2. CASE Config!CheckReload
  BY <1>2, <1>0 DEF Config!CheckReload
<1>3. CASE Config!ParseFails
  BY <1>3, <1>0 DEF Config!ParseFails
<1>4. CASE Config!Parse
  BY <1>4, <1>0 DEF Config!Parse
<1>5. CASE Config!StampLoad
  BY <1>5, <1>0 DEF Config!StampLoad
<1>6. CASE Config!Save
  BY <1>6, <1>0 DEF Config!Save
<1>7. CASE Config!OpenFails
  BY <1>7, <1>0 DEF Config!OpenFails
<1>8. CASE Config!Truncate
  <2>1. op' = "write" /\ UNCHANGED <<sections, watched, lastWrite>> /\ origin' = Config!Broken /\ Config!Write(Config!Broken)
    BY <1>8, Zenon DEF Config!Truncate
  <2> QED BY <1>0, <2>1 DEF Config!Write
<1>9. CASE Config!SaveWrites
  <2>1. /\ op' = "stampSave" /\ ~ edited' /\ UNCHANGED <<sections, watched, lastWrite>>
        /\ \E content \in {sections, Config!Broken} : Config!Write(content) /\ origin' = content
    BY <1>9, Zenon DEF Config!SaveWrites
  <2> QED BY <1>0, <2>1 DEF Config!Write
<1>10. CASE Config!StampSave
  BY <1>10, <1>0 DEF Config!StampSave
<1>11. CASE Config!Set
  BY <1>11, <1>0 DEF Config!Set
<1>12. CASE Config!Edit
  <2>1. /\ edited' /\ (~ raced' => ~ raced /\ op \notin {"stampLoad", "stampSave"} /\ mtime' # mtime)
        /\ UNCHANGED <<sections, watched, lastWrite, op, origin>>
        /\ \E content \in Config!Versions \cup {Config!Missing, Config!Broken} : Config!Write(content)
    BY <1>12, Zenon DEF Config!Edit
  <2>2. mtime' \in Nat /\ mtime' >= mtime /\ file' \in Config!Versions \cup {Config!Broken, Config!Missing}
    BY <2>1 DEF Config!Write
  <2>3. ~ raced' /\ watched /\ op \in {"none", "parse", "truncate"} => mtime' > lastWrite
    BY <2>1, <2>2
  <2> QED BY <1>0, <2>1, <2>2, <2>3
<1>13. CASE Config!Crash
  BY <1>13, <1>0 DEF Config!Crash
<1> QED
  BY <1>1, <1>2, <1>3, <1>4, <1>5, <1>6, <1>7, <1>8, <1>9, <1>10, <1>11, <1>12, <1>13 DEF Config!Next

(* check_reload() reloads exactly what someone else changed since the last *)
(* load or save, unless the clock or the order of the calls hid it, and    *)
(* what does not parse replaces nothing in memory.                         *)
THEOREM ReloadsWhatChanged == MCSpec => []ChangesSeen
<1>1. MCInit => ConfigInv
  BY ConfigStarts DEF MCInit
<1>2. ConfigInv /\ [MCNext]_all => ConfigInv'
  <2> SUFFICES ASSUME ConfigInv, [MCNext]_all PROVE ConfigInv'
    OBVIOUS
  <2>1. CASE ConfigNext
    BY <2>1, ConfigStep DEF ConfigNext
  <2>2. CASE UNCHANGED configVars
    BY <2>2 DEF configVars, ConfigInv, ConfigTypes, ConfigFlags, TimeKnown, ContentsKnown
  <2> QED BY <2>1, <2>2 DEF MCNext, ObserverNext, TimerNext, SplitterNext, WindowNext, all, utilities
<1>3. ConfigInv => ChangesSeen
  BY DEF ConfigInv, ConfigTypes, TimeKnown, ChangesSeen, Config!ChangesSeen, Config!HasChanged
<1> QED BY <1>1, <1>2, <1>3, PTL DEF MCSpec

-----------------------------------------------------------------------------
(* Broadcast.  The list is in the order of its ids, and so is what an      *)
(* emission has still to call, all of it after what it has called; an      *)
(* observer that stayed was called or is still to be called.  The ids of   *)
(* connections are theirs alone.                                           *)

Emissions ==
  [key : Keys, rest : Seq(Observers!Observer), seen : Seq(Observers!Ids),
   start : SUBSET Observers!Ids, steady : SUBSET Observers!Ids]

ObserverTypes ==
  /\ class \in Observers!Classes
  /\ slots \in Seq(Observers!Observer) /\ nextId \in 0..MaxIds
  /\ calls \in [Threads -> Seq(Emissions)]
  /\ conn \in [Scoped -> 0..MaxIds] /\ scoped \subseteq Observers!Ids

Rising(s) == \A i, j \in DOMAIN s : i < j => s[i].id < s[j].id

ListInOrder == Rising(slots) /\ \A i \in DOMAIN slots : slots[i].id <= nextId

OneConnection ==
  /\ class # "signal" => scoped = {}
  /\ \A id \in scoped : id <= nextId /\ (id \in Observers!IdsOf(slots) <=> \E c \in Scoped : conn[c] = id)
  /\ \A c \in Scoped : conn[c] <= nextId
  /\ \A c, d \in Scoped : conn[c] = conn[d] /\ conn[c] # 0 => c = d

Wanted(cl, e, k) == cl = "signal" \/ e.key = k \/ (cl = "hooks" /\ e.key = AnyKey)
Heard(cl, c) == {c.rest[j].id : j \in {h \in DOMAIN c.rest : Wanted(cl, c.rest[h], c.key)}}
Called(c) == {c.seen[i] : i \in DOMAIN c.seen}

InOrder(c) ==
  /\ Rising(c.rest)
  /\ \A i, j \in DOMAIN c.seen : i < j => c.seen[i] < c.seen[j]
  /\ \A i \in DOMAIN c.seen, j \in DOMAIN c.rest : c.seen[i] < c.rest[j].id

EmissionHeld(cl, c) ==
  /\ InOrder(c)
  /\ Called(c) \cup Heard(cl, c) \subseteq c.start
  /\ c.steady \subseteq Called(c) \cup Heard(cl, c)

ObserverInv ==
  /\ ObserverTypes /\ ListInOrder /\ OneConnection
  /\ \A t \in Threads : \A i \in DOMAIN calls[t] : EmissionHeld(class, calls[t][i])

\* What is kept of a list in order is in order, and what is not in S is gone.
LEMMA OnlyRises ==
  ASSUME NEW s \in Seq(Observers!Observer), Rising(s), NEW S
  PROVE  /\ Observers!Only(s, S) \in Seq(Observers!Observer) /\ Rising(Observers!Only(s, S))
         /\ \A i \in DOMAIN Observers!Only(s, S) : Observers!Only(s, S)[i] \in S
                                                   /\ \E a \in DOMAIN s : Observers!Only(s, S)[i] = s[a]
         /\ \A a \in DOMAIN s : s[a] \in S => \E i \in DOMAIN Observers!Only(s, S) : Observers!Only(s, S)[i] = s[a]
<1> DEFINE K == Sifted(s, S)
<1> HIDE DEF K
<1>1. /\ K \in Seq(Observers!Observer)
      /\ \A i \in DOMAIN K : K[i] \in S /\ \E a \in DOMAIN s : K[i] = s[a]
      /\ \A a \in DOMAIN s : s[a] \in S => \E i \in DOMAIN K : K[i] = s[a]
      /\ \A i, j \in DOMAIN K : i < j => \E a, b \in DOMAIN s : a < b /\ K[i] = s[a] /\ K[j] = s[b]
  BY SiftedOrder DEF K
<1>2. Rising(K)
  <2> SUFFICES ASSUME NEW i \in DOMAIN K, NEW j \in DOMAIN K, i < j PROVE K[i].id < K[j].id
    BY DEF Rising
  <2>1. PICK a \in DOMAIN s, b \in DOMAIN s : a < b /\ K[i] = s[a] /\ K[j] = s[b]
    BY <1>1
  <2> QED BY <2>1 DEF Rising
<1>3. Observers!Only(s, S) = K
  BY DEF Observers!Only, K, Sifted
<1> QED BY <1>1, <1>2, <1>3

\* An emission begins with those of the list that want it, all still to be called.
LEMMA EmissionBegins ==
  ASSUME ObserverTypes, ListInOrder, NEW k \in Keys
  PROVE  Observers!Emission(k) \in Emissions /\ EmissionHeld(class, Observers!Emission(k))
<1> DEFINE S == {e \in Observers!Observer : class = "hooks" \/ Wanted(class, e, k)}
           R == Observers!Only(slots, S)
           H == {slots[i].id : i \in {j \in DOMAIN slots : Wanted(class, slots[j], k)}}
           c == Observers!Emission(k)
<1>0. \A e : Observers!Wants(e, k) = Wanted(class, e, k)
  BY DEF Observers!Wants, Wanted
<1>1. c = [key |-> k, rest |-> R, seen |-> <<>>, start |-> H, steady |-> H]
  BY <1>0 DEF Observers!Emission, Observers!Copied
<1>2. slots \in Seq(Observers!Observer) /\ Rising(slots)
  BY DEF ObserverTypes, ListInOrder
<1>3. \A i \in DOMAIN slots : slots[i] \in Observers!Observer
  BY <1>2
<1>5. \A e \in Observers!Observer : Wanted(class, e, k) => e \in S
  OBVIOUS
<1> HIDE DEF S
<1>4. /\ R \in Seq(Observers!Observer) /\ Rising(R)
      /\ \A i \in DOMAIN R : R[i] \in S /\ \E a \in DOMAIN slots : R[i] = slots[a]
      /\ \A a \in DOMAIN slots : slots[a] \in S => \E i \in DOMAIN R : R[i] = slots[a]
  BY <1>2, OnlyRises
<1>6. \A e \in Observers!Observer : e.id \in Observers!Ids
  BY DEF Observers!Observer
<1> HIDE DEF R, c
<1>7. {R[j].id : j \in {h \in DOMAIN R : Wanted(class, R[h], k)}} = H
  BY <1>3, <1>4, <1>5
<1>8. H \subseteq Observers!Ids
  BY <1>3, <1>6
<1> HIDE DEF H
<1>9. c \in Emissions
  BY <1>1, <1>4, <1>8 DEF Emissions
<1>10. Called(c) = {} /\ Heard(class, c) = H /\ c.start = H /\ c.steady = H
  BY <1>1, <1>7 DEF Called, Heard
<1>11. InOrder(c)
  BY <1>1, <1>4 DEF InOrder
<1> QED BY <1>9, <1>10, <1>11 DEF EmissionHeld, c

\* The next observer comes after all that were called.
LEMMA NextIsCalled ==
  ASSUME NEW cl, NEW c \in Emissions, EmissionHeld(cl, c), c.rest # <<>>, NEW d,
         d = [c EXCEPT !.rest = Tail(@),
                       !.seen = IF Wanted(cl, Head(c.rest), c.key) THEN Append(@, Head(c.rest).id) ELSE @]
  PROVE  d \in Emissions /\ EmissionHeld(cl, d)
<1> DEFINE e == Head(c.rest)
           r == c.rest
           s == c.seen
           m == Len(r)
           n == Len(s)
<1>1. r \in Seq(Observers!Observer) /\ s \in Seq(Observers!Ids) /\ r # <<>>
  BY DEF Emissions
<1>2. /\ m \in Nat /\ m # 0 /\ DOMAIN r = 1..m /\ e = r[1]
      /\ \A j \in 1..m : r[j] \in Observers!Observer
      /\ n \in Nat /\ DOMAIN s = 1..n /\ \A i \in 1..n : s[i] \in Observers!Ids
  BY <1>1
<1>3. /\ e \in Observers!Observer /\ e.id \in Observers!Ids /\ e.id \in Nat
      /\ \A i \in 1..n : s[i] \in Nat
      /\ \A j \in 1..m : r[j].id \in Nat
  <2>1. e \in Observers!Observer
    BY <1>2
  <2>2. \A o \in Observers!Observer : o.id \in Observers!Ids
    BY DEF Observers!Observer
  <2>3. \A i \in Observers!Ids : i \in Nat
    BY DEF Observers!Ids
  <2> QED BY <1>2, <2>1, <2>2, <2>3
<1>4. /\ d.key = c.key /\ d.start = c.start /\ d.steady = c.steady /\ d.rest = Tail(r)
      /\ d.seen = IF Wanted(cl, e, c.key) THEN Append(s, e.id) ELSE s
      /\ d = [key |-> c.key, rest |-> d.rest, seen |-> d.seen, start |-> c.start, steady |-> c.steady]
      /\ c.key \in Keys /\ c.start \subseteq Observers!Ids /\ c.steady \subseteq Observers!Ids
  BY DEF Emissions
<1> HIDE DEF e, r, s
<1>5. /\ d.rest \in Seq(Observers!Observer) /\ DOMAIN d.rest = 1..(m - 1)
      /\ \A j \in 1..(m - 1) : d.rest[j] = r[j + 1] /\ j + 1 \in 1..m
  <2>1. Tail(r) \in Seq(Observers!Observer) /\ Len(Tail(r)) = m - 1 /\ \A j \in 1..Len(Tail(r)) : Tail(r)[j] = r[j + 1]
    BY <1>1, HeadTailProperties
  <2>2. DOMAIN Tail(r) = 1..(m - 1)
    BY <2>1
  <2>3. d.rest = Tail(r) /\ m \in Nat
    BY <1>2, <1>4
  <2> HIDE DEF m
  <2>4. \A j \in 1..(m - 1) : Tail(r)[j] = r[j + 1] /\ j + 1 \in 1..m
    BY <2>1, <2>3
  <2> QED BY <2>1, <2>2, <2>3, <2>4
<1>6. d.seen \in Seq(Observers!Ids)
  <2>1. Append(s, e.id) \in Seq(Observers!Ids)
    BY <1>1, <1>3, AppendProperties
  <2> QED BY <1>1, <1>4, <2>1
<1>7. d \in Emissions
  BY <1>4, <1>5, <1>6 DEF Emissions
<1> HIDE DEF m, n
<1>8. /\ \A i, j \in 1..m : i < j => r[i].id < r[j].id
      /\ \A i, j \in 1..n : i < j => s[i] < s[j]
      /\ \A i \in 1..n, j \in 1..m : s[i] < r[j].id
  BY <1>2 DEF EmissionHeld, InOrder, Rising, r, s
<1>9. /\ \A j \in 1..(m - 1) : e.id < d.rest[j].id
      /\ \A i \in 1..n : s[i] < e.id /\ \A j \in 1..(m - 1) : s[i] < d.rest[j].id
      /\ \A i, j \in 1..(m - 1) : i < j => d.rest[i].id < d.rest[j].id
  <2>1. \A j \in 1..(m - 1) : e.id < d.rest[j].id
    <3> SUFFICES ASSUME NEW j \in 1..(m - 1) PROVE e.id < d.rest[j].id
      OBVIOUS
    <3>1. 1 \in 1..m /\ j + 1 \in 1..m /\ 1 < j + 1
      BY <1>2
    <3> QED BY <1>2, <1>5, <1>8, <3>1
  <2>2. \A i \in 1..n : s[i] < e.id /\ \A j \in 1..(m - 1) : s[i] < d.rest[j].id
    <3> SUFFICES ASSUME NEW i \in 1..n PROVE s[i] < e.id /\ \A j \in 1..(m - 1) : s[i] < d.rest[j].id
      OBVIOUS
    <3>1. 1 \in 1..m
      BY <1>2
    <3>2. s[i] < e.id
      BY <1>2, <1>8, <3>1
    <3>3. ASSUME NEW j \in 1..(m - 1) PROVE s[i] < d.rest[j].id
      BY <1>5, <1>8
    <3> QED BY <3>2, <3>3
  <2>3. ASSUME NEW i \in 1..(m - 1), NEW j \in 1..(m - 1), i < j PROVE d.rest[i].id < d.rest[j].id
    <3>1. i + 1 \in 1..m /\ j + 1 \in 1..m /\ i + 1 < j + 1
      BY <1>2, <2>3
    <3> QED BY <1>5, <1>8, <3>1
  <2> QED BY <2>1, <2>2, <2>3
<1>10. Rising(d.rest)
  BY <1>5, <1>9 DEF Rising
<1>11. Heard(cl, c) = Heard(cl, d) \cup (IF Wanted(cl, e, c.key) THEN {e.id} ELSE {})
  <2>1. \A j \in 1..m : j = 1 \/ (j - 1 \in 1..(m - 1) /\ d.rest[j - 1] = r[j])
    BY <1>2, <1>5
  <2>2. \A j \in 1..(m - 1) : \E i \in 1..m : d.rest[j] = r[i]
    BY <1>5
  <2>3. Heard(cl, c) = {r[j].id : j \in {h \in 1..m : Wanted(cl, r[h], c.key)}}
    BY <1>2 DEF Heard, r
  <2>4. Heard(cl, d) = {d.rest[j].id : j \in {h \in 1..(m - 1) : Wanted(cl, d.rest[h], c.key)}}
    BY <1>4, <1>5 DEF Heard
  <2>5. 1 \in 1..m /\ r[1] = e
    BY <1>2
  <2>6. ASSUME NEW x \in Heard(cl, c) PROVE x \in Heard(cl, d) \/ (Wanted(cl, e, c.key) /\ x = e.id)
    <3>1. PICK j \in 1..m : x = r[j].id /\ Wanted(cl, r[j], c.key)
      BY <2>3
    <3> QED BY <2>1, <2>4, <2>5, <3>1
  <2>7. ASSUME NEW x \in Heard(cl, d) PROVE x \in Heard(cl, c)
    <3>1. PICK j \in 1..(m - 1) : x = d.rest[j].id /\ Wanted(cl, d.rest[j], c.key)
      BY <2>4
    <3>2. PICK i \in 1..m : d.rest[j] = r[i]
      BY <2>2
    <3> QED BY <2>3, <3>1, <3>2
  <2>8. Wanted(cl, e, c.key) => e.id \in Heard(cl, c)
    BY <2>3, <2>5
  <2> QED BY <2>6, <2>7, <2>8
<1>12. CASE Wanted(cl, e, c.key)
  <2>1. d.seen = Append(s, e.id)
    BY <1>4, <1>12
  <2>2. DOMAIN d.seen = 1..(n + 1) /\ d.seen[n + 1] = e.id /\ \A i \in 1..n : d.seen[i] = s[i]
    BY <1>1, <1>3, <2>1 DEF n
  <2>3. \A i \in 1..(n + 1) : i \in 1..n \/ i = n + 1
    BY <1>2
  <2>4. InOrder(d)
    <3>1. ASSUME NEW i \in 1..(n + 1), NEW j \in 1..(n + 1), i < j PROVE d.seen[i] < d.seen[j]
      <4>1. i \in 1..n
        BY <1>2, <3>1
      <4>2. CASE j \in 1..n
        BY <1>8, <2>2, <3>1, <4>1, <4>2
      <4>3. CASE j = n + 1
        BY <1>9, <2>2, <4>1, <4>3
      <4> QED BY <2>3, <4>2, <4>3
    <3>2. \A i \in DOMAIN d.seen, j \in DOMAIN d.rest : d.seen[i] < d.rest[j].id
      BY <1>5, <1>9, <2>2, <2>3
    <3> QED BY <1>10, <2>2, <3>1, <3>2 DEF InOrder
  <2>5. Called(d) = Called(c) \cup {e.id}
    <3>1. Called(c) = {s[i] : i \in 1..n}
      BY <1>2 DEF Called, s
    <3>2. n + 1 \in 1..(n + 1) /\ \A i \in 1..n : i \in 1..(n + 1)
      BY <1>2
    <3> QED BY <2>2, <2>3, <3>1, <3>2 DEF Called
  <2> QED BY <1>4, <1>7, <1>11, <1>12, <2>4, <2>5 DEF EmissionHeld
<1>13. CASE ~ Wanted(cl, e, c.key)
  <2>1. d.seen = s
    BY <1>4, <1>13
  <2>2. InOrder(d)
    BY <1>2, <1>5, <1>8, <1>9, <1>10, <2>1 DEF InOrder
  <2>3. Called(d) = Called(c)
    BY <2>1 DEF Called, s
  <2> QED BY <1>4, <1>7, <1>11, <1>13, <2>2, <2>3 DEF EmissionHeld
<1> QED BY <1>12, <1>13

CallsHeld ==
  /\ calls \in [Threads -> Seq(Emissions)]
  /\ \A t \in Threads : \A i \in DOMAIN calls[t] : EmissionHeld(class, calls[t][i])

\* When the list changes, fewer are known to have stayed.
LEMMA CallsFollow ==
  ASSUME CallsHeld, NEW s, Observers!ChangeTo(s)
  PROVE  CallsHeld' /\ slots' = s /\ class' = class
<1> DEFINE I == Observers!IdsOf(s)
<1>1. /\ calls' = [t \in Threads |-> [i \in DOMAIN calls[t] |-> [calls[t][i] EXCEPT !.steady = @ \cap I]]]
      /\ slots' = s /\ class' = class
  BY DEF Observers!ChangeTo
<1> HIDE DEF I
<1>2. ASSUME NEW c \in Emissions, EmissionHeld(class, c), NEW d, d = [c EXCEPT !.steady = @ \cap I]
      PROVE  d \in Emissions /\ EmissionHeld(class, d)
  <2>1. d \in Emissions /\ d.key = c.key /\ d.rest = c.rest /\ d.seen = c.seen /\ d.start = c.start /\ d.steady \subseteq c.steady
    BY <1>2 DEF Emissions
  <2>2. InOrder(d) /\ Called(d) = Called(c) /\ Heard(class, d) = Heard(class, c)
    BY <1>2, <2>1 DEF EmissionHeld, InOrder, Called, Heard
  <2> QED BY <1>2, <2>1, <2>2 DEF EmissionHeld
<1>3. ASSUME NEW t \in Threads
      PROVE  calls'[t] \in Seq(Emissions) /\ \A i \in DOMAIN calls'[t] : EmissionHeld(class, calls'[t][i])
  <2> DEFINE n == Len(calls[t])
  <2>1. calls[t] \in Seq(Emissions) /\ n \in Nat /\ DOMAIN calls[t] = 1..n
    BY DEF CallsHeld
  <2>2. calls'[t] = [i \in 1..n |-> [calls[t][i] EXCEPT !.steady = @ \cap I]]
    BY <1>1, <2>1
  <2> HIDE DEF n
  <2>3. ASSUME NEW i \in 1..n PROVE calls'[t][i] \in Emissions /\ EmissionHeld(class, calls'[t][i])
    <3>1. calls[t][i] \in Emissions /\ EmissionHeld(class, calls[t][i])
      BY <2>1 DEF CallsHeld
    <3>2. calls'[t][i] = [calls[t][i] EXCEPT !.steady = @ \cap I]
      BY <2>2
    <3> QED BY <1>2, <3>1, <3>2
  <2>4. DOMAIN calls'[t] = 1..n
    BY <2>2
  <2>5. calls'[t] = [i \in 1..n |-> calls'[t][i]]
    BY <2>2
  <2>6. calls'[t] \in Seq(Emissions)
    BY <2>1, <2>3, <2>5, IsASeq
  <2> QED BY <2>3, <2>4, <2>6
<1>4. calls' \in [Threads -> Seq(Emissions)]
  <2>1. calls' = [t \in Threads |-> calls'[t]]
    BY <1>1
  <2> QED BY <1>3, <2>1
<1> QED BY <1>1, <1>3, <1>4 DEF CallsHeld

LEMMA CallSteps ==
  ASSUME CallsHeld, ObserverTypes, ListInOrder, NEW t \in Threads,
         Observers!Step(t) \/ \E k \in Keys : Observers!Emit(t, k)
  PROVE  CallsHeld' /\ UNCHANGED <<class, slots, nextId, conn, scoped>>
<1>1. UNCHANGED <<class, slots, nextId, conn, scoped>>
  BY DEF Observers!Step, Observers!Deliver, Observers!EmitReturns, Observers!Emit
<1> SUFFICES \E new \in Seq(Emissions) : /\ calls' = [calls EXCEPT ![t] = new]
                                         /\ \A i \in DOMAIN new : EmissionHeld(class, new[i])
  <2> SUFFICES ASSUME NEW new \in Seq(Emissions), calls' = [calls EXCEPT ![t] = new],
                      \A i \in DOMAIN new : EmissionHeld(class, new[i])
               PROVE  CallsHeld'
    BY <1>1
  <2>1. \A u \in Threads : calls'[u] = IF u = t THEN new ELSE calls[u]
    BY DEF CallsHeld
  <2>2. calls' \in [Threads -> Seq(Emissions)]
    BY DEF CallsHeld
  <2> QED BY <1>1, <2>1, <2>2 DEF CallsHeld
<1> DEFINE old == calls[t]
<1>2. old \in Seq(Emissions) /\ \A i \in DOMAIN old : EmissionHeld(class, old[i])
  BY DEF CallsHeld
<1>3. ASSUME NEW k \in Keys, Observers!Emit(t, k)
      PROVE  \E new \in Seq(Emissions) : /\ calls' = [calls EXCEPT ![t] = new]
                                         /\ \A i \in DOMAIN new : EmissionHeld(class, new[i])
  <2> DEFINE e == Observers!Emission(k)
             new == <<e>> \o old
  <2>1. calls' = [calls EXCEPT ![t] = new]
    BY <1>3 DEF Observers!Emit
  <2>2. e \in Emissions /\ EmissionHeld(class, e)
    BY EmissionBegins
  <2> HIDE DEF e, old
  <2>3. new \in Seq(Emissions) /\ new[1] = e /\ \A i \in DOMAIN new : i = 1 \/ (i - 1 \in DOMAIN old /\ new[i] = old[i - 1])
    BY <1>2, <2>2
  <2> HIDE DEF new
  <2>4. \A i \in DOMAIN new : EmissionHeld(class, new[i])
    BY <1>2, <2>2, <2>3
  <2> QED BY <2>1, <2>3, <2>4
<1>4. CASE Observers!EmitReturns(t)
  <2>1. calls' = [calls EXCEPT ![t] = Tail(old)] /\ old # <<>>
    BY <1>4 DEF Observers!EmitReturns
  <2> HIDE DEF old
  <2>2. Tail(old) \in Seq(Emissions) /\ \A i \in DOMAIN Tail(old) : i + 1 \in DOMAIN old /\ Tail(old)[i] = old[i + 1]
    BY <1>2, <2>1
  <2> QED BY <1>2, <2>1, <2>2
<1>5. CASE Observers!Deliver(t)
  <2> DEFINE c == old[1]
             d == [c EXCEPT !.rest = Tail(@),
                            !.seen = IF Wanted(class, Head(c.rest), c.key) THEN Append(@, Head(c.rest).id) ELSE @]
             new == [old EXCEPT ![1] = d]
  <2>1. old # <<>> /\ c.rest # <<>>
    BY <1>5 DEF Observers!Deliver
  <2>2. 1 \in DOMAIN old /\ c \in Emissions /\ EmissionHeld(class, c)
    BY <1>2, <2>1
  <2>3. \A e : Observers!Wants(e, c.key) = Wanted(class, e, c.key)
    BY DEF Observers!Wants, Wanted
  <2>4. calls' = [calls EXCEPT ![t] = new]
    BY <1>5, <2>2, <2>3 DEF Observers!Deliver, CallsHeld
  <2> HIDE DEF old, c
  <2>5. d \in Emissions /\ EmissionHeld(class, d)
    BY <2>1, <2>2, NextIsCalled
  <2> HIDE DEF d
  <2>6. new \in Seq(Emissions) /\ DOMAIN new = DOMAIN old /\ \A i \in DOMAIN old : new[i] = IF i = 1 THEN d ELSE old[i]
    BY <1>2, <2>2, <2>5
  <2> HIDE DEF new
  <2> QED BY <1>2, <2>4, <2>5, <2>6
<1> QED BY <1>3, <1>4, <1>5 DEF Observers!Step

\* A new observer has an id above all others.
LEMMA ListGrows ==
  ASSUME ObserverInv, NEW k \in Keys \cup {AnyKey}, Observers!Connect(k)
  PROVE  /\ slots' \in Seq(Observers!Observer) /\ nextId' = nextId + 1 /\ nextId' \in 0..MaxIds
         /\ ListInOrder' /\ CallsHeld' /\ class' = class
         /\ Observers!IdsOf(slots') = Observers!IdsOf(slots) \cup {nextId + 1}
         /\ nextId + 1 \in Observers!Ids /\ nextId + 1 \notin Observers!IdsOf(slots)
<1> DEFINE e == [id |-> nextId + 1, key |-> k]
           n == Len(slots)
<1>1. /\ nextId \in Nat /\ nextId + 1 \in Observers!Ids /\ nextId' = nextId + 1 /\ nextId' \in 0..MaxIds
      /\ slots \in Seq(Observers!Observer) /\ CallsHeld
  BY LibraryAssumption DEF ObserverInv, ObserverTypes, CallsHeld, Observers!Connect, Observers!Ids
<1>2. CallsHeld' /\ slots' = Append(slots, e) /\ class' = class
  <2>1. Observers!ChangeTo(Append(slots, e))
    BY DEF Observers!Connect
  <2> QED BY <1>1, <2>1, CallsFollow
<1>3. e \in Observers!Observer /\ e.id = nextId + 1
  BY <1>1 DEF Observers!Observer
<1> HIDE DEF e
<1>4. /\ slots' \in Seq(Observers!Observer) /\ n \in Nat /\ DOMAIN slots = 1..n /\ DOMAIN slots' = 1..(n + 1)
      /\ slots'[n + 1] = e /\ \A i \in 1..n : slots'[i] = slots[i] /\ slots[i] \in Observers!Observer
  BY <1>1, <1>2, <1>3
<1> HIDE DEF n
<1>5. \A i \in 1..(n + 1) : i \in 1..n \/ i = n + 1
  BY <1>4
<1>6. \A i \in 1..n : slots[i].id \in Nat /\ slots[i].id <= nextId
  <2>1. \A o \in Observers!Observer : o.id \in Nat
    BY DEF Observers!Observer, Observers!Ids
  <2> QED BY <1>4, <2>1 DEF ObserverInv, ListInOrder
<1>7. Rising(slots')
  <2> SUFFICES ASSUME NEW i \in 1..(n + 1), NEW j \in 1..(n + 1), i < j PROVE slots'[i].id < slots'[j].id
    BY <1>4 DEF Rising
  <2>1. i \in 1..n
    BY <1>4
  <2>2. CASE j \in 1..n
    BY <1>4, <2>1, <2>2 DEF ObserverInv, ListInOrder, Rising
  <2>3. CASE j = n + 1
    BY <1>1, <1>3, <1>4, <1>6, <2>1, <2>3
  <2> QED BY <1>5, <2>2, <2>3
<1>8. \A i \in DOMAIN slots' : slots'[i].id <= nextId'
  BY <1>1, <1>3, <1>4, <1>5, <1>6
<1>9. Observers!IdsOf(slots') = Observers!IdsOf(slots) \cup {nextId + 1}
  <2>1. n + 1 \in 1..(n + 1) /\ \A i \in 1..n : i \in 1..(n + 1)
    BY <1>4
  <2> QED BY <1>3, <1>4, <1>5, <2>1 DEF Observers!IdsOf
<1>10. nextId + 1 \notin Observers!IdsOf(slots)
  BY <1>1, <1>4, <1>6 DEF Observers!IdsOf
<1> QED BY <1>1, <1>2, <1>4, <1>7, <1>8, <1>9, <1>10 DEF ListInOrder

\* What stays of the list is in order.
LEMMA ListShrinks ==
  ASSUME ObserverInv, NEW S, Observers!ChangeTo(Observers!Only(slots, S)), nextId' = nextId
  PROVE  /\ slots' \in Seq(Observers!Observer) /\ ListInOrder' /\ CallsHeld' /\ class' = class
         /\ \A id : id \in Observers!IdsOf(slots') <=> \E a \in DOMAIN slots : slots[a] \in S /\ slots[a].id = id
<1> DEFINE K == Observers!Only(slots, S)
<1>1. slots \in Seq(Observers!Observer) /\ CallsHeld /\ Rising(slots) /\ \A a \in DOMAIN slots : slots[a].id <= nextId
  BY DEF ObserverInv, ObserverTypes, ListInOrder, CallsHeld
<1>2. CallsHeld' /\ slots' = K /\ class' = class
  BY <1>1, CallsFollow
<1>3. /\ K \in Seq(Observers!Observer) /\ Rising(K)
      /\ \A i \in DOMAIN K : K[i] \in S /\ \E a \in DOMAIN slots : K[i] = slots[a]
      /\ \A a \in DOMAIN slots : slots[a] \in S => \E i \in DOMAIN K : K[i] = slots[a]
  BY <1>1, OnlyRises
<1> HIDE DEF K
<1>4. \A i \in DOMAIN K : K[i].id <= nextId
  BY <1>1, <1>3
<1>5. \A id : id \in Observers!IdsOf(K) <=> \E a \in DOMAIN slots : slots[a] \in S /\ slots[a].id = id
  BY <1>3 DEF Observers!IdsOf
<1> QED BY <1>2, <1>3, <1>4, <1>5 DEF ListInOrder

\* disconnect of one id.
LEMMA OneLeaves ==
  ASSUME ObserverInv, NEW x, Observers!ChangeTo(Observers!Without(x)), nextId' = nextId
  PROVE  /\ slots' \in Seq(Observers!Observer) /\ ListInOrder' /\ CallsHeld' /\ class' = class
         /\ Observers!IdsOf(slots') = Observers!IdsOf(slots) \ {x}
<1> DEFINE S == {e \in Observers!Observer : e.id # x}
<1>1. \A a \in DOMAIN slots : slots[a] \in Observers!Observer
  BY DEF ObserverInv, ObserverTypes
<1>2. \A a \in DOMAIN slots : slots[a] \in S <=> slots[a].id # x
  BY <1>1
<1>3. Observers!ChangeTo(Observers!Only(slots, S))
  BY DEF Observers!Without
<1> HIDE DEF S
<1>4. /\ slots' \in Seq(Observers!Observer) /\ ListInOrder' /\ CallsHeld' /\ class' = class
      /\ \A id : id \in Observers!IdsOf(slots') <=> \E a \in DOMAIN slots : slots[a] \in S /\ slots[a].id = id
  BY <1>3, ListShrinks
<1>5. \A id : id \in Observers!IdsOf(slots) <=> \E a \in DOMAIN slots : slots[a].id = id
  BY DEF Observers!IdsOf
<1> QED BY <1>2, <1>4, <1>5

LEMMA ObserversChange == ObserverInv /\ Observers!Change => ObserverInv'
<1> SUFFICES ASSUME ObserverInv, Observers!Change PROVE ObserverInv'
  OBVIOUS
<1> USE LibraryAssumption
<1>1. ASSUME slots' \in Seq(Observers!Observer), nextId' \in 0..MaxIds, ListInOrder', CallsHeld', class' = class,
             conn' \in [Scoped -> 0..MaxIds], scoped' \subseteq Observers!Ids, OneConnection'
      PROVE  ObserverInv'
  BY <1>1 DEF ObserverInv, ObserverTypes, CallsHeld
<1>2. /\ class \in Observers!Classes /\ nextId \in 0..MaxIds /\ slots \in Seq(Observers!Observer)
      /\ conn \in [Scoped -> 0..MaxIds] /\ scoped \subseteq Observers!Ids /\ OneConnection
  BY DEF ObserverInv, ObserverTypes
<1>3. \A id \in Observers!Ids : id \in Nat /\ id # 0
  BY DEF Observers!Ids
<1>4. ASSUME NEW k \in Keys \cup {AnyKey}, Observers!Add(k) PROVE ObserverInv'
  <2>1. Observers!Connect(k) /\ UNCHANGED <<conn, scoped>>
    BY <1>4 DEF Observers!Add
  <2>2. /\ slots' \in Seq(Observers!Observer) /\ nextId' = nextId + 1 /\ nextId' \in 0..MaxIds
        /\ ListInOrder' /\ CallsHeld' /\ class' = class
        /\ Observers!IdsOf(slots') = Observers!IdsOf(slots) \cup {nextId + 1}
    BY <2>1, ListGrows
  <2>3. OneConnection'
    BY <1>2, <1>3, <2>1, <2>2 DEF OneConnection
  <2> QED BY <1>1, <1>2, <2>1, <2>2, <2>3
<1>5. ASSUME NEW id \in Observers!Ids, Observers!Disconnect(id) PROVE ObserverInv'
  <2>1. Observers!ChangeTo(Observers!Without(id)) /\ scoped' = scoped \ {id} /\ nextId' = nextId /\ conn' = conn
    BY <1>5 DEF Observers!Disconnect
  <2>2. /\ slots' \in Seq(Observers!Observer) /\ ListInOrder' /\ CallsHeld' /\ class' = class
        /\ Observers!IdsOf(slots') = Observers!IdsOf(slots) \ {id}
    BY <2>1, OneLeaves
  <2>3. OneConnection'
    BY <1>2, <2>1, <2>2 DEF OneConnection
  <2> QED BY <1>1, <1>2, <2>1, <2>2, <2>3
<1>6. ASSUME NEW k \in Keys, Observers!RemoveNamed(k) PROVE ObserverInv'
  <2>1. class = "hooks" /\ nextId' = nextId /\ UNCHANGED <<conn, scoped>>
        /\ Observers!ChangeTo(Observers!Only(slots, {e \in Observers!Observer : e.key # k}))
    BY <1>6 DEF Observers!RemoveNamed
  <2>2. slots' \in Seq(Observers!Observer) /\ ListInOrder' /\ CallsHeld' /\ class' = class
    BY <2>1, ListShrinks
  <2>3. scoped = {}
    BY <1>2, <2>1 DEF OneConnection
  <2>4. OneConnection'
    BY <1>2, <2>1, <2>2, <2>3 DEF OneConnection
  <2> QED BY <1>1, <1>2, <2>1, <2>2, <2>4
<1>7. CASE Observers!Clear
  <2>1. Observers!ChangeTo(<<>>) /\ scoped' = {} /\ nextId' = nextId /\ conn' = conn
    BY <1>7 DEF Observers!Clear
  <2>2. CallsHeld' /\ slots' = <<>> /\ class' = class
    BY <2>1, CallsFollow DEF ObserverInv, ObserverTypes, CallsHeld
  <2>3. slots' \in Seq(Observers!Observer) /\ ListInOrder'
    BY <2>2 DEF ListInOrder, Rising
  <2>4. OneConnection'
    BY <1>2, <2>1, <2>2 DEF OneConnection
  <2> QED BY <1>1, <1>2, <2>1, <2>2, <2>3, <2>4
<1>8. ASSUME NEW c \in Scoped, Observers!ConnectScoped(c) PROVE ObserverInv'
  <2>1. /\ class = "signal" /\ conn[c] = 0 /\ Observers!Connect(AnyKey)
        /\ conn' = [conn EXCEPT ![c] = nextId + 1] /\ scoped' = scoped \cup {nextId + 1}
    BY <1>8 DEF Observers!ConnectScoped
  <2>2. /\ slots' \in Seq(Observers!Observer) /\ nextId' = nextId + 1 /\ nextId' \in 0..MaxIds
        /\ ListInOrder' /\ CallsHeld' /\ class' = class
        /\ Observers!IdsOf(slots') = Observers!IdsOf(slots) \cup {nextId + 1}
        /\ nextId + 1 \in Observers!Ids
    BY <2>1, ListGrows
  <2>3. \A d \in Scoped : conn'[d] = IF d = c THEN nextId + 1 ELSE conn[d]
    BY <1>2, <2>1
  <2>4. conn' \in [Scoped -> 0..MaxIds]
    BY <1>2, <2>1, <2>2
  <2>5. \A id \in scoped : id # nextId + 1 /\ id <= nextId
    BY <1>2, <1>3 DEF OneConnection
  <2>6. \A d \in Scoped : conn[d] \in Nat /\ conn[d] <= nextId
    BY <1>2 DEF OneConnection
  <2>7. OneConnection'
    <3>1. \A id \in scoped' : id <= nextId' /\ (id \in Observers!IdsOf(slots') <=> \E d \in Scoped : conn'[d] = id)
      <4>1. ASSUME NEW id \in scoped
            PROVE  id <= nextId' /\ (id \in Observers!IdsOf(slots') <=> \E d \in Scoped : conn'[d] = id)
        <5>1. id \in Observers!IdsOf(slots) <=> \E d \in Scoped : conn[d] = id
          BY <1>2 DEF OneConnection
        <5>2. (\E d \in Scoped : conn[d] = id) <=> \E d \in Scoped : conn'[d] = id
          BY <1>3, <1>2, <2>1, <2>3, <2>5
        <5> QED BY <1>2, <1>3, <2>2, <2>5, <5>1, <5>2
      <4>2. /\ nextId + 1 <= nextId' /\ nextId + 1 \in Observers!IdsOf(slots')
            /\ \E d \in Scoped : conn'[d] = nextId + 1
        BY <1>2, <2>2, <2>3
      <4> QED BY <2>1, <4>1, <4>2
    <3>2. \A d \in Scoped : conn'[d] <= nextId'
      BY <1>2, <2>2, <2>3, <2>6
    <3>3. \A d, e \in Scoped : conn'[d] = conn'[e] /\ conn'[d] # 0 => d = e
      <4>1. \A d, e \in Scoped : conn[d] = conn[e] /\ conn[d] # 0 => d = e
        BY <1>2 DEF OneConnection
      <4>2. \A d \in Scoped : conn[d] # nextId + 1
        BY <1>2, <2>6
      <4> QED BY <2>3, <4>1, <4>2
    <3> QED BY <2>1, <2>2, <3>1, <3>2, <3>3 DEF OneConnection
  <2> QED BY <1>1, <1>2, <2>1, <2>2, <2>4, <2>7
<1>9. ASSUME NEW c \in Scoped, Observers!Reset(c) PROVE ObserverInv'
  <2>1. /\ conn[c] # 0 /\ Observers!ChangeTo(Observers!Without(conn[c])) /\ nextId' = nextId /\ scoped' = scoped
        /\ conn' = [conn EXCEPT ![c] = 0]
    BY <1>9 DEF Observers!Reset
  <2>2. /\ slots' \in Seq(Observers!Observer) /\ ListInOrder' /\ CallsHeld' /\ class' = class
        /\ Observers!IdsOf(slots') = Observers!IdsOf(slots) \ {conn[c]}
    BY <2>1, OneLeaves
  <2>3. \A d \in Scoped : conn'[d] = IF d = c THEN 0 ELSE conn[d]
    BY <1>2, <2>1
  <2>4. conn' \in [Scoped -> 0..MaxIds]
    BY <1>2, <2>1
  <2>5. OneConnection'
    <3>1. ASSUME NEW id \in scoped
          PROVE  id <= nextId /\ (id \in Observers!IdsOf(slots') <=> \E d \in Scoped : conn'[d] = id)
      <4>1. id <= nextId /\ id # 0 /\ (id \in Observers!IdsOf(slots) <=> \E d \in Scoped : conn[d] = id)
        BY <1>2, <1>3 DEF OneConnection
      <4>2. (\E d \in Scoped : conn'[d] = id) <=> id # conn[c] /\ \E d \in Scoped : conn[d] = id
        BY <1>2, <2>1, <2>3, <4>1 DEF OneConnection
      <4> QED BY <2>2, <4>1, <4>2
    <3>2. \A d \in Scoped : conn'[d] <= nextId
      BY <1>2, <2>3 DEF OneConnection
    <3>3. \A d, e \in Scoped : conn'[d] = conn'[e] /\ conn'[d] # 0 => d = e
      BY <1>2, <2>3 DEF OneConnection
    <3> QED BY <1>2, <2>1, <2>2, <3>1, <3>2, <3>3 DEF OneConnection
  <2> QED BY <1>1, <1>2, <2>1, <2>2, <2>4, <2>5
<1>10. ASSUME NEW c \in Scoped, NEW d \in Scoped, Observers!Move(c, d) PROVE ObserverInv'
  <2>1. /\ conn[c] # 0 /\ c # d /\ Observers!ChangeTo(Observers!Without(conn[d])) /\ nextId' = nextId /\ scoped' = scoped
        /\ conn' = [conn EXCEPT ![d] = conn[c], ![c] = 0]
    BY <1>10 DEF Observers!Move
  <2>2. /\ slots' \in Seq(Observers!Observer) /\ ListInOrder' /\ CallsHeld' /\ class' = class
        /\ Observers!IdsOf(slots') = Observers!IdsOf(slots) \ {conn[d]}
    BY <2>1, OneLeaves
  <2>3. \A e \in Scoped : conn'[e] = IF e = c THEN 0 ELSE IF e = d THEN conn[c] ELSE conn[e]
    BY <1>2, <2>1
  <2>4. conn' \in [Scoped -> 0..MaxIds]
    BY <1>2, <2>1
  <2>5. OneConnection'
    <3>1. ASSUME NEW id \in scoped
          PROVE  id <= nextId /\ (id \in Observers!IdsOf(slots') <=> \E e \in Scoped : conn'[e] = id)
      <4>1. id <= nextId /\ id # 0 /\ (id \in Observers!IdsOf(slots) <=> \E e \in Scoped : conn[e] = id)
        BY <1>2, <1>3 DEF OneConnection
      <4>2. ASSUME NEW e \in Scoped, conn'[e] = id PROVE id # conn[d] /\ \E f \in Scoped : conn[f] = id
        BY <1>2, <2>1, <2>3, <4>1, <4>2 DEF OneConnection
      <4>3. ASSUME NEW e \in Scoped, conn[e] = id, id # conn[d] PROVE \E f \in Scoped : conn'[f] = id
        <5>1. CASE e = c
          BY <2>1, <2>3, <4>3, <5>1
        <5>2. CASE e # c
          BY <2>3, <4>3, <5>2
        <5> QED BY <5>1, <5>2
      <4> QED BY <2>2, <4>1, <4>2, <4>3
    <3>2. \A e \in Scoped : conn'[e] <= nextId
      BY <1>2, <2>3 DEF OneConnection
    <3>3. \A e, f \in Scoped : conn'[e] = conn'[f] /\ conn'[e] # 0 => e = f
      BY <1>2, <2>3 DEF OneConnection
    <3> QED BY <1>2, <2>1, <2>2, <3>1, <3>2, <3>3, ZenonT(60) DEF OneConnection
  <2> QED BY <1>1, <1>2, <2>1, <2>2, <2>4, <2>5
<1> QED BY <1>4, <1>5, <1>6, <1>7, <1>8, <1>9, <1>10 DEF Observers!Change

LEMMA ObserversStart == Observers!Init => ObserverInv
<1> SUFFICES ASSUME Observers!Init PROVE ObserverInv
  OBVIOUS
<1>1. class \in Observers!Classes /\ slots = <<>> /\ nextId = 0 /\ scoped = {}
      /\ calls = [t \in Threads |-> <<>>] /\ conn = [c \in Scoped |-> 0]
  BY DEF Observers!Init
<1>2. <<>> \in Seq(Observers!Observer) /\ <<>> \in Seq(Emissions)
  OBVIOUS
<1>3. ObserverTypes
  BY <1>1, <1>2, LibraryAssumption DEF ObserverTypes
<1>4. ListInOrder /\ OneConnection
  BY <1>1 DEF ListInOrder, OneConnection, Rising
<1> QED BY <1>1, <1>3, <1>4 DEF ObserverInv

LEMMA ObserversStep == ObserverInv /\ Observers!Next => ObserverInv'
<1> SUFFICES ASSUME ObserverInv, Observers!Next PROVE ObserverInv'
  OBVIOUS
<1>1. ASSUME NEW t \in Threads, Observers!Step(t) \/ \E k \in Keys : Observers!Emit(t, k) PROVE ObserverInv'
  <2>1. CallsHeld' /\ UNCHANGED <<class, slots, nextId, conn, scoped>>
    BY <1>1, CallSteps DEF ObserverInv, ObserverTypes, CallsHeld
  <2> QED BY <2>1 DEF ObserverInv, ObserverTypes, CallsHeld, ListInOrder, OneConnection
<1> QED BY <1>1, ObserversChange DEF Observers!Next

LEMMA HeldIsExact == ObserverInv => Observers!EmissionExact
<1> SUFFICES ASSUME ObserverInv PROVE Observers!EmissionExact
  OBVIOUS
<1>1. ASSUME NEW t \in Threads, NEW i \in DOMAIN calls[t]
      PROVE  LET c == calls[t][i] IN
               /\ \A j \in DOMAIN c.seen : \A h \in 1..(j - 1) : c.seen[h] < c.seen[j]
               /\ Observers!ToSet(c.seen) \subseteq c.start
               /\ c.rest = <<>> => c.steady \subseteq Observers!ToSet(c.seen)
  <2> DEFINE c == calls[t][i]
  <2>1. c \in Emissions /\ EmissionHeld(class, c)
    BY DEF ObserverInv, ObserverTypes
  <2> HIDE DEF c
  <2>2. Observers!ToSet(c.seen) = Called(c)
    BY DEF Observers!ToSet, Called
  <2>3. ASSUME NEW j \in DOMAIN c.seen, NEW h \in 1..(j - 1) PROVE c.seen[h] < c.seen[j]
    <3>1. c.seen \in Seq(Observers!Ids)
      BY <2>1 DEF Emissions
    <3>2. h \in DOMAIN c.seen /\ h < j
      BY <3>1
    <3> QED BY <2>1, <3>2 DEF EmissionHeld, InOrder
  <2>4. c.rest = <<>> => Heard(class, c) = {}
    BY DEF Heard
  <2>5. /\ Observers!ToSet(c.seen) \subseteq c.start
        /\ c.rest = <<>> => c.steady \subseteq Observers!ToSet(c.seen)
    BY <2>1, <2>2, <2>4 DEF EmissionHeld
  <2> QED BY <2>3, <2>5 DEF c
<1>2. \A id \in scoped : id \in Observers!IdsOf(slots) <=> \E c \in Scoped : conn[c] = id
  BY DEF ObserverInv, OneConnection
<1> QED BY <1>1, <1>2, Zenon DEF Observers!EmissionExact

(* Whatever changes the list meanwhile, an emission calls the observers    *)
(* that were there at its start, in their order and each at most once, and *)
(* those that stayed all of them; a slot that a ScopedConnection holds is  *)
(* there exactly as long as it does, unless someone else removed it.       *)
THEOREM EmissionsAreExact == MCSpec => []EmissionExact
<1>1. MCInit => ObserverInv
  BY ObserversStart DEF MCInit
<1>2. ObserverInv /\ [MCNext]_all => ObserverInv'
  <2> SUFFICES ASSUME ObserverInv, [MCNext]_all PROVE ObserverInv'
    OBVIOUS
  <2>1. CASE ObserverNext
    BY <2>1, ObserversStep DEF ObserverNext
  <2>2. CASE UNCHANGED observerVars
    BY <2>2 DEF observerVars, ObserverInv, ObserverTypes, ListInOrder, OneConnection
  <2> QED BY <2>1, <2>2 DEF MCNext, ConfigNext, TimerNext, SplitterNext, WindowNext, all, utilities
<1>3. ObserverInv => EmissionExact
  BY HeldIsExact DEF EmissionExact
<1> QED BY <1>1, <1>2, <1>3, PTL DEF MCSpec

-----------------------------------------------------------------------------
(* The chat window.  A request leaves its closures in the queue in one     *)
(* order, and while no two requests overlap these are all there are.       *)
Unsaid    == [job : Nat, kind : {"thought", "apology"}, number : Nat]
AllPieces == Window!Words \cup Unsaid
Bubbles   == [role : {"user", "assistant", "system"}, text : Seq(AllPieces)]
Events    == {"delta", "garbled", "thought", "tool", "answer"}
Endings   == {"streamed", "answered"}
Closures  ==
  [what : {"prefix", "thought"}, n : Nat, text : Seq(Unsaid), ok : BOOLEAN]
    \cup [what : (Events \ {"thought"}) \cup Endings \cup {"status", "idle"}, n : Nat, text : Seq(Window!Words), ok : BOOLEAN]
Requests  == [n : Nat, kind : {"none", "llm", "agent", "clear", "health"}, stream : BOOLEAN, got : Seq(Window!Words)]

Due == local \o queue

WindowTypes ==
  /\ conversations \in Seq(Seq(Window!Turns)) /\ current \in DOMAIN conversations
  /\ transcript \in Seq(Bubbles) /\ bubble \in Nat /\ pending \in Seq(Window!Words)
  /\ flushDue \in BOOLEAN /\ asking \in BOOLEAN /\ joining \in BOOLEAN /\ overlapped \in BOOLEAN
  /\ jobs \in Nat /\ heard \in Nat /\ job \in Requests
  /\ wstep \in {"none", "started", "asking", "returned", "exited"}
  /\ local \in Seq(Closures) /\ queue \in Seq(Closures)

Worked == wstep \in {"started", "asking"}

\* Where an answer is stored.
Stored(c, k) == c \in DOMAIN conversations /\ k \in DOMAIN conversations[c] /\ conversations[c][k].role = "assistant"

OfJob(x, n) == \A p \in DOMAIN x : x[p].job = n

\* A request ends once, and what ends it says nothing of another.
OnceInv ==
  /\ pending # <<>> => flushDue
  /\ Worked => asking \/ joining
  /\ job.n <= jobs /\ (wstep # "none" => job.n = jobs)
  /\ OfJob(job.got, job.n)
  /\ \A i \in DOMAIN Due : Due[i].n <= jobs
  /\ \A i \in DOMAIN Due : Due[i].what \in Endings =>
       /\ OfJob(Due[i].text, Due[i].n)
       /\ Worked => Due[i].n # job.n
       /\ \A j \in DOMAIN Due : j # i /\ Due[j].what \in Endings => Due[j].n # Due[i].n
  /\ \A c, k : Stored(c, k) =>
       LET x == conversations[c][k].text
       IN  /\ OfJob(x, x[1].job) /\ x[1].job <= jobs
           /\ Worked => x[1].job # job.n
           /\ \A i \in DOMAIN Due : Due[i].what \in Endings => Due[i].n # x[1].job
           /\ \A d, l : Stored(d, l) /\ <<d, l>> # <<c, k>> => conversations[d][l].text[1].job # x[1].job

\* In which order the closures of a request come, and where the worker is then.
Follows(a, b) ==
  IF a \in {"prefix"} \cup Events THEN b \in Events \cup Endings
  ELSE a # "idle" /\ b = "idle"

Chatting == job.kind \in {"llm", "agent"}

LeftAt(a) ==
  IF a \in {"prefix"} \cup Events THEN wstep = "asking" /\ Chatting
  ELSE IF a = "idle" THEN wstep \in {"exited", "none"} ELSE wstep = "returned"

ChainInv ==
  /\ \A i \in DOMAIN Due : i + 1 \in DOMAIN Due => Follows(Due[i].what, Due[i + 1].what)
  /\ Due # <<>> => LeftAt(Due[Len(Due)].what)
  /\ \A i \in DOMAIN Due : Due[i].n = jobs

\* What is said by bubbles, and by one.
Said(x) == Sifted(x, Window!Words)
Telling(t) == [i \in DOMAIN t |-> Window!Turn(t[i].role, Said(t[i].text))]
Spoken(t)  == Sifted(Telling(t), Window!Turns)

\* What the closures that have not run will add to the bubble.
Texts(q)  == [i \in DOMAIN q |-> IF q[i].what \in {"delta", "answer"} THEN q[i].text ELSE <<>>]
Coming(q) == Flat(Texts(q))

Open == bubble # 0

Speaking == IF Due = <<>> THEN wstep = "asking" /\ Chatting ELSE Due[1].what \in Events \cup Endings

\* The bubble is there from the prefix to the end; above it is the history.
BubbleInv ==
  /\ Open <=> Speaking
  /\ ~Open => pending = <<>> /\ Spoken(transcript) = conversations[current]
  /\ Open =>
       /\ bubble \in DOMAIN transcript /\ transcript[bubble].role = "assistant"
       /\ \A i \in DOMAIN transcript : i > bubble => transcript[i].role = "system"
       /\ Spoken(SubSeq(transcript, 1, bubble - 1)) = conversations[current]

Visible == IF Open THEN Said(transcript[bubble].text) ELSE <<>>
Sofar == Visible \o (pending \o Coming(Due))

Waiting == pending # <<>> \/ \E i \in DOMAIN Due : Due[i].what = "delta"

\* Shown, waiting and to come are what was got.
TextInv ==
  /\ Chatting /\ wstep = "asking" => Sofar = job.got /\ (~job.stream => job.got = <<>>)
  /\ Chatting /\ wstep = "started" => job.got = <<>>
  /\ \A i \in DOMAIN Due :
       /\ Due[i].what = "streamed" => Sofar = Due[i].text
       /\ Due[i].what = "answered" => Sofar = <<>>
  /\ Waiting => /\ \A i \in DOMAIN Due : Due[i].what # "answer"
                /\ wstep = "asking" => job.kind # "agent"
  /\ wstep = "asking" /\ job.kind = "llm" => \A i \in DOMAIN Due : Due[i].what # "answer"

Unanswered == (Chatting /\ Worked) \/ \E i \in DOMAIN Due : Due[i].what \in {"prefix"} \cup Events \cup Endings

\* The question is the last turn until its answer is behind it.
QuestionInv ==
  /\ Unanswered =>
       /\ conversations[current] # <<>>
       /\ LET turn == conversations[current][Len(conversations[current])]
          IN  turn.role = "user" /\ turn.text[1].job = jobs
  /\ \A c, k : Stored(c, k) =>
       /\ k > 1 /\ conversations[c][k - 1].role = "user"
       /\ conversations[c][k - 1].text[1].job = conversations[c][k].text[1].job

WindowInv ==
  /\ WindowTypes /\ OnceInv
  /\ ~overlapped => ChainInv /\ BubbleInv /\ TextInv /\ QuestionInv

LEMMA SaidFacts ==
  /\ \A x \in Seq(AllPieces) : Said(x) \in Seq(Window!Words)
  /\ \A x, y \in Seq(AllPieces) : Said(x \o y) = Said(x) \o Said(y)
  /\ \A x \in Seq(Window!Words) : x \in Seq(AllPieces) /\ Said(x) = x
  /\ \A x \in Seq(Unsaid) : x \in Seq(AllPieces) /\ Said(x) = <<>>
<1> DEFINE P == AllPieces
           W == Window!Words
           U == Unsaid
<1>1. W \subseteq P /\ U \subseteq P /\ P \cap W \subseteq W /\ U \cap W = {}
  BY DEF AllPieces, Unsaid, Window!Words
<1> HIDE DEF P, W, U
<1>2. ASSUME NEW x \in Seq(P) PROVE Sifted(x, W) \in Seq(W)
  <2>1. Sifted(x, W) \in Seq(P \cap W)
    BY SiftedHolds
  <2> QED BY <1>1, <2>1, SeqMonotonic
<1>3. ASSUME NEW x \in Seq(P), NEW y \in Seq(P) PROVE Sifted(x \o y, W) = Sifted(x, W) \o Sifted(y, W)
  BY SiftedConcat
<1>4. ASSUME NEW x \in Seq(W) PROVE x \in Seq(P) /\ Sifted(x, W) = x
  BY <1>1, SeqMonotonic, SiftedAll
<1>5. ASSUME NEW x \in Seq(U) PROVE x \in Seq(P) /\ Sifted(x, W) = <<>>
  BY <1>1, SeqMonotonic, SiftedNothing
<1> QED BY <1>2, <1>3, <1>4, <1>5 DEF Said, P, W, U

TurnOf(b) == Window!Turn(b.role, Said(b.text))

LEMMA TurnOfBubble ==
  ASSUME NEW b \in Bubbles
  PROVE  /\ Said(b.text) \in Seq(Window!Words)
         /\ TurnOf(b) \in Window!Turns <=> b.role # "system" /\ Said(b.text) # <<>>
<1>1. b.role \in {"user", "assistant", "system"} /\ b.text \in Seq(AllPieces)
  BY DEF Bubbles
<1>2. Said(b.text) \in Seq(Window!Words)
  BY <1>1, SaidFacts
<1> DEFINE x == Said(b.text)
           S == Seq(Window!Words)
<1> HIDE DEF x, S
<1>3. TurnOf(b) = [role |-> b.role, text |-> x]
  BY DEF TurnOf, Window!Turn, x
<1>4. Window!Turns = [role : {"user", "assistant"}, text : S \ {<<>>}]
  BY DEF Window!Turns, S
<1>5. TurnOf(b) \in Window!Turns <=> b.role \in {"user", "assistant"} /\ x \in S \ {<<>>}
  BY <1>3, <1>4
<1> QED BY <1>1, <1>2, <1>5 DEF x, S

LEMMA SpokenEmpty == Spoken(<<>>) = <<>>
<1>1. Telling(<<>>) = <<>>
  BY DEF Telling
<1> QED BY <1>1, SiftedEmpty DEF Spoken

\* The turns of all bubbles, spoken or not.
Tellings == {TurnOf(b) : b \in Bubbles}

LEMMA TellingFacts ==
  /\ \A t \in Seq(Bubbles) : Telling(t) \in Seq(Tellings)
  /\ \A t \in Seq(Bubbles), b \in Bubbles : Telling(Append(t, b)) = Append(Telling(t), TurnOf(b))
  /\ \A t, u \in Seq(Bubbles) : Telling(t \o u) = Telling(t) \o Telling(u)
<1>1. \A t : Telling(t) = [i \in DOMAIN t |-> TurnOf(t[i])]
  BY DEF Telling, TurnOf
<1> DEFINE T == Tellings
<1>2. \A b \in Bubbles : TurnOf(b) \in T
  BY DEF Tellings
<1> HIDE DEF T
<1> DEFINE B == Bubbles
<1> HIDE DEF B
<1>3. ASSUME NEW t \in Seq(B)
      PROVE  Telling(t) \in Seq(T) /\ Len(Telling(t)) = Len(t) /\ \A i \in 1..Len(t) : Telling(t)[i] = TurnOf(t[i])
  <2>1. Telling(t) = [i \in 1..Len(t) |-> TurnOf(t[i])] /\ Len(t) \in Nat /\ \A i \in 1..Len(t) : TurnOf(t[i]) \in T
    BY <1>1, <1>2 DEF B
  <2> QED BY <2>1
<1>4. ASSUME NEW t \in Seq(B), NEW b \in B PROVE Telling(Append(t, b)) = Append(Telling(t), TurnOf(b))
  <2> DEFINE u == Append(t, b)
             a == Telling(u)
             c == Append(Telling(t), TurnOf(b))
             n == Len(t)
  <2>1. u \in Seq(B) /\ n \in Nat /\ Len(u) = n + 1 /\ u[n + 1] = b /\ \A i \in 1..n : u[i] = t[i]
    OBVIOUS
  <2> HIDE DEF u
  <2>2. a \in Seq(T) /\ Len(a) = n + 1 /\ \A i \in 1..(n + 1) : a[i] = TurnOf(u[i])
    BY <1>3, <2>1
  <2>3. c \in Seq(T) /\ Len(c) = n + 1 /\ c[n + 1] = TurnOf(b) /\ \A i \in 1..n : c[i] = TurnOf(t[i])
    <3>1. TurnOf(b) \in T /\ Telling(t) \in Seq(T) /\ Len(Telling(t)) = n
      BY <1>2, <1>3 DEF B
    <3>2. \A i \in 1..n : Telling(t)[i] = TurnOf(t[i])
      BY <1>3
    <3> QED BY <3>1, <3>2, AppendProperties
  <2> HIDE DEF a, c, n
  <2>4. \A i \in 1..(n + 1) : a[i] = c[i]
    BY <2>1, <2>2, <2>3
  <2>5. a = c
    BY <2>2, <2>3, <2>4, SeqEqual
  <2> QED BY <2>5 DEF a, c, u
<1>5. ASSUME NEW t \in Seq(B), NEW u \in Seq(B) PROVE Telling(t \o u) = Telling(t) \o Telling(u)
  <2> DEFINE w == t \o u
             a == Telling(w)
             c == Telling(t) \o Telling(u)
             n == Len(t)
             m == Len(u)
  <2>1. /\ w \in Seq(B) /\ n \in Nat /\ m \in Nat /\ Len(w) = n + m
        /\ \A i \in 1..(n + m) : w[i] = IF i <= n THEN t[i] ELSE u[i - n]
    OBVIOUS
  <2> HIDE DEF w
  <2>2. a \in Seq(T) /\ Len(a) = n + m /\ \A i \in 1..(n + m) : a[i] = TurnOf(w[i])
    BY <1>3, <2>1
  <2>3. c \in Seq(T) /\ Len(c) = n + m /\ \A i \in 1..(n + m) : c[i] = IF i <= n THEN Telling(t)[i] ELSE Telling(u)[i - n]
    <3> DEFINE p == Telling(t)
               q == Telling(u)
    <3>1. p \in Seq(T) /\ Len(p) = n /\ q \in Seq(T) /\ Len(q) = m
      BY <1>3
    <3> HIDE DEF p, q, n, m
    <3>2. /\ p \o q \in Seq(T) /\ Len(p \o q) = n + m
          /\ \A i \in 1..(n + m) : (p \o q)[i] = IF i <= n THEN p[i] ELSE q[i - n]
      BY <3>1, ConcatProperties
    <3> QED BY <3>2 DEF p, q
  <2>4. (\A i \in 1..n : Telling(t)[i] = TurnOf(t[i])) /\ (\A i \in 1..m : Telling(u)[i] = TurnOf(u[i]))
    BY <1>3
  <2> HIDE DEF a, c, n, m
  <2>5. ASSUME NEW i \in 1..(n + m) PROVE a[i] = c[i]
    <3>1. CASE i <= n
      <4>1. i \in 1..n
        BY <2>1, <3>1
      <4>2. w[i] = t[i] /\ c[i] = Telling(t)[i] /\ Telling(t)[i] = TurnOf(t[i])
        BY <2>1, <2>3, <2>4, <3>1, <4>1
      <4> QED BY <2>2, <4>2
    <3>2. CASE ~(i <= n)
      <4>1. i - n \in 1..m
        BY <2>1, <3>2
      <4>2. w[i] = u[i - n] /\ c[i] = Telling(u)[i - n] /\ Telling(u)[i - n] = TurnOf(u[i - n])
        BY <2>1, <2>3, <2>4, <3>2, <4>1
      <4> QED BY <2>2, <4>2
    <3> QED BY <3>1, <3>2
  <2>6. a = c
    BY <2>2, <2>3, <2>5, SeqEqual
  <2> QED BY <2>6 DEF a, c, w
<1> QED BY <1>3, <1>4, <1>5 DEF T, B

LEMMA SpokenAppend ==
  ASSUME NEW t \in Seq(Bubbles), NEW b \in Bubbles
  PROVE  Spoken(Append(t, b)) = IF b.role # "system" /\ Said(b.text) # <<>> THEN Append(Spoken(t), TurnOf(b)) ELSE Spoken(t)
<1>1. Telling(t) \in Seq(Tellings) /\ TurnOf(b) \in Tellings
  BY TellingFacts DEF Tellings
<1>2. Telling(Append(t, b)) = Append(Telling(t), TurnOf(b))
  BY TellingFacts
<1> QED BY <1>1, <1>2, SiftedAppend, TurnOfBubble DEF Spoken

\* Below the bubble of an assistant there are lines of the system only.
LEMMA SpokenAt ==
  ASSUME NEW t \in Seq(Bubbles), NEW b \in DOMAIN t, t[b].role = "assistant",
         \A i \in DOMAIN t : i > b => t[i].role = "system"
  PROVE  LET above == Spoken(SubSeq(t, 1, b - 1))
         IN  Spoken(t) = IF Said(t[b].text) = <<>> THEN above
                         ELSE Append(above, Window!Turn("assistant", Said(t[b].text)))
<1> DEFINE n == Len(t)
           up == SubSeq(t, 1, b - 1)
           to == SubSeq(t, 1, b)
           down == SubSeq(t, b + 1, n)
           Lines == {c \in Bubbles : c.role = "system"}
<1>1. n \in Nat /\ b \in 1..n
  OBVIOUS
<1>2. to \o down = t /\ to = up \o <<t[b]>>
  <2>1. 1 \in 1..(Len(t) + 1) /\ b \in (1 - 1)..Len(t) /\ n \in b..Len(t) /\ SubSeq(t, 1, n) = t
    BY <1>1, SubSeqFull
  <2>2. 1 \in 1..Len(t) /\ b \in 1..Len(t)
    BY <1>1
  <2>3. to \o down = t
    BY <2>1, ConcatAdjacentSubSeq
  <2> QED BY <2>2, <2>3, SubSeqRecursiveSecond
<1>3. up \in Seq(Bubbles) /\ to \in Seq(Bubbles) /\ t[b] \in Bubbles
  BY <1>1
<1>4. down \in Seq(Lines)
  <2>1. \A i \in (b + 1)..n : t[i] \in Lines
    BY <1>1
  <2> HIDE DEF Lines
  <2> QED BY <1>1, <2>1, SubSeqProperties
<1>5. down \in Seq(Bubbles)
  BY <1>1
<1> HIDE DEF n, up, to, down
<1>6. to = Append(up, t[b])
  BY <1>2, <1>3, AppendIsConcat
<1>7. Sifted(Telling(down), Window!Turns) = <<>>
  <2> DEFINE M == {TurnOf(c) : c \in Lines}
  <2>1. Telling(down) \in Seq(M)
    <3>1. /\ \A i \in 1..Len(down) : TurnOf(down[i]) \in M
          /\ Len(down) \in Nat /\ DOMAIN down = 1..Len(down)
      <4> HIDE DEF Lines
      <4> QED BY <1>4
    <3> HIDE DEF M
    <3>2. Telling(down) = [i \in 1..Len(down) |-> TurnOf(down[i])]
      BY <3>1 DEF Telling, TurnOf
    <3> QED BY <3>1, <3>2
  <2>2. M \cap Window!Turns = {}
    BY TurnOfBubble
  <2> HIDE DEF M
  <2> QED BY <2>1, <2>2, SiftedNothing
<1>8. Spoken(t) = Spoken(to) \o <<>>
  <2>1. Telling(t) = Telling(to) \o Telling(down) /\ Telling(to) \in Seq(Tellings) /\ Telling(down) \in Seq(Tellings)
    BY <1>2, <1>3, <1>5, TellingFacts
  <2> DEFINE T == Tellings
             p == Telling(to)
             q == Telling(down)
  <2> HIDE DEF T, p, q
  <2>2. Sifted(p \o q, Window!Turns) = Sifted(p, Window!Turns) \o Sifted(q, Window!Turns)
    BY <2>1, SiftedConcat DEF T, p, q
  <2> QED BY <1>7, <2>1, <2>2 DEF Spoken, p, q
<1>9. Spoken(to) \o <<>> = Spoken(to)
  <2>1. Spoken(to) \in Seq(Tellings \cap Window!Turns)
    BY <1>3, TellingFacts, SiftedHolds DEF Spoken
  <2> QED BY <2>1, ConcatEmptySeq
<1>10. Spoken(to) = IF Said(t[b].text) # <<>> THEN Append(Spoken(up), TurnOf(t[b])) ELSE Spoken(up)
  BY <1>3, <1>6, SpokenAppend
<1> QED BY <1>8, <1>9, <1>10 DEF TurnOf, up

-----------------------------------------------------------------------------
(* What the steps do to the closures and to the transcript.                *)
LEMMA EnqueueDue ==
  ASSUME WindowTypes, NEW cs \in Seq(Closures), Window!Enqueue(cs)
  PROVE  Due \in Seq(Closures) /\ queue' \in Seq(Closures) /\ Due' = Due \o cs
<1> DEFINE C == Closures
<1>1. local \in Seq(C) /\ queue \in Seq(C) /\ cs \in Seq(C)
  BY DEF WindowTypes
<1> HIDE DEF C
<1>2. queue' = queue \o cs /\ local' = local
  BY DEF Window!Enqueue
<1> QED BY <1>1, <1>2, ConcatAssociative, ConcatProperties, SMTT(30) DEF Due, C

LEMMA DrainDue == ASSUME WindowTypes, Window!Drain PROVE Due' = Due
<1> DEFINE C == Closures
<1>1. local = <<>> /\ queue \in Seq(C) /\ local' = queue /\ queue' = <<>>
  BY DEF WindowTypes, Window!Drain, Window!Free
<1> HIDE DEF C
<1> QED BY <1>1, ConcatEmptySeq DEF Due

LEMMA RunDue ==
  ASSUME WindowTypes, local # <<>>, local' = Tail(local), queue' = queue
  PROVE  /\ Due \in Seq(Closures) /\ Due # <<>> /\ Due[1] = Head(local) /\ Due[1] \in Closures
         /\ local' \in Seq(Closures) /\ Due' = Tail(Due) /\ Due' \in Seq(Closures) /\ Due = <<Due[1]>> \o Due'
         /\ Len(Due) = Len(Due') + 1 /\ \A i \in DOMAIN Due' : Due'[i] = Due[i + 1]
<1> DEFINE C == Closures
<1>1. local \in Seq(C) /\ queue \in Seq(C)
  BY DEF WindowTypes
<1> HIDE DEF C
<1>2. Due = local \o queue /\ Due' = Tail(local) \o queue
  BY DEF Due
<1>3. Due \in Seq(C) /\ Due # <<>> /\ Due[1] = Head(local)
  BY <1>1, <1>2
<1>4. Tail(local) \in Seq(C) /\ Due' \in Seq(C) /\ Due' = Tail(Due)
  <2>1. Tail(local) \in Seq(C) /\ Len(Tail(local)) = Len(local) - 1 /\ \A i \in 1..Len(Tail(local)) : Tail(local)[i] = local[i + 1]
    BY <1>1, HeadTailProperties
  <2>2. Tail(Due) \in Seq(C) /\ Len(Tail(Due)) = Len(Due) - 1 /\ \A i \in 1..Len(Tail(Due)) : Tail(Due)[i] = Due[i + 1]
    BY <1>3, HeadTailProperties
  <2> DEFINE a == Tail(local)
             n == Len(a)
             m == Len(queue)
             d == Due
             e == a \o queue
             f == Tail(d)
  <2>3. /\ n \in Nat /\ m \in Nat /\ Len(local) = n + 1 /\ e \in Seq(C) /\ Len(e) = n + m
        /\ \A i \in 1..(n + m) : e[i] = IF i <= n THEN a[i] ELSE queue[i - n]
    <3>1. a \in Seq(C) /\ queue \in Seq(C)
      BY <1>1, <2>1
    <3>2. n \in Nat /\ m \in Nat /\ Len(local) = n + 1
      BY <1>1, <2>1
    <3> HIDE DEF a
    <3> QED BY <3>1, <3>2, ConcatProperties
  <2>4. /\ d \in Seq(C) /\ Len(d) = n + 1 + m
        /\ \A i \in 1..(n + 1 + m) : d[i] = IF i <= n + 1 THEN local[i] ELSE queue[i - (n + 1)]
    <3> HIDE DEF a, n
    <3> QED BY <1>1, <1>2, <2>3, ConcatProperties
  <2>5. f \in Seq(C) /\ Len(f) = n + m /\ \A i \in 1..(n + m) : f[i] = d[i + 1]
    BY <2>2, <2>3, <2>4
  <2>6. \A i \in 1..n : a[i] = local[i + 1]
    BY <2>1
  <2> HIDE DEF a, n, m, d, e, f
  <2>7. ASSUME NEW i \in 1..(n + m) PROVE e[i] = f[i]
    <3>1. i + 1 \in 1..(n + 1 + m) /\ (i <= n <=> i + 1 <= n + 1) /\ (i + 1) - (n + 1) = i - n /\ (i <= n => i \in 1..n)
      BY <2>3
    <3>2. f[i] = IF i <= n THEN local[i + 1] ELSE queue[i - n]
      BY <2>4, <2>5, <3>1
    <3> QED BY <2>3, <2>6, <3>1, <3>2
  <2>8. e = f
    BY <2>3, <2>5, <2>7, SeqEqual
  <2> QED BY <1>2, <2>1, <2>3, <2>8 DEF a, d, e, f
<1>5. Due = <<Due[1]>> \o Due'
  <2>1. 1 \in 1..Len(Due) /\ Len(Due) \in 1..Len(Due) /\ 1 + 1 = 2
    BY <1>3
  <2>2. SubSeq(Due, 1, Len(Due)) = <<Due[1]>> \o SubSeq(Due, 2, Len(Due))
    BY <1>3, <2>1, SubSeqRecursiveFirst
  <2> QED BY <1>3, <1>4, <2>2, SubSeqFull, TailIsSubSeq
<1>6. Due[1] \in C /\ Len(Due) = Len(Due') + 1 /\ \A i \in DOMAIN Due' : Due'[i] = Due[i + 1]
  <2> DEFINE d == Due
             f == Tail(d)
  <2>1. Due' = f /\ d \in Seq(C) /\ d # <<>> /\ Len(d) \in Nat \ {0}
    BY <1>3, <1>4
  <2>2. f \in Seq(C) /\ Len(f) = Len(d) - 1 /\ \A i \in 1..Len(f) : f[i] = d[i + 1]
    <3> HIDE DEF d
    <3> QED BY <2>1, HeadTailProperties
  <2> HIDE DEF d, f
  <2>3. d[1] \in C /\ Len(d) = Len(f) + 1 /\ DOMAIN f = 1..Len(f)
    BY <2>1, <2>2
  <2> QED BY <2>1, <2>2, <2>3 DEF d
<1> QED BY <1>3, <1>4, <1>5, <1>6 DEF C

Views == [t : Seq(Bubbles), b : Nat]

LEMMA ViewsKept ==
  ASSUME NEW v \in Views, NEW x \in Seq(AllPieces)
  PROVE  /\ Window!append_assistant_prefix(v) \in Views
         /\ Window!Prefixed(v) \in Views
         /\ Window!append_to_message(v, x) \in Views
         /\ Window!append_status_line(v, x) \in Views
<1> DEFINE B == Bubbles
           P == Seq(AllPieces)
<1>1. v.t \in Seq(B) /\ v.b \in Nat /\ v = [t |-> v.t, b |-> v.b] /\ x \in P /\ <<>> \in P
  BY DEF Views
<1>2. /\ \A r \in {"user", "assistant", "system"}, y \in P : Window!Bubble(r, y) \in B
      /\ \A c \in B : c.text \in P /\ c \in [role : {"user", "assistant", "system"}, text : P]
  BY DEF Bubbles, Window!Bubble
<1>3. Views = [t : Seq(B), b : Nat]
  BY DEF Views
<1>4. \A c \in B : [c EXCEPT !.text = @ \o x] \in B
  <2> SUFFICES ASSUME NEW c \in B PROVE [c EXCEPT !.text = @ \o x] \in B
    OBVIOUS
  <2>1. c.text \o x \in P
    BY <1>1, <1>2
  <2> HIDE DEF P
  <2> QED BY <2>1 DEF Bubbles, P
<1> HIDE DEF B, P
<1>5. Window!append_assistant_prefix(v) \in Views
  BY <1>1, <1>2, <1>3 DEF Window!append_assistant_prefix
<1>6. Window!append_status_line(v, x) \in Views
  <2>1. Append(v.t, Window!Bubble("system", x)) \in Seq(B)
    BY <1>1, <1>2
  <2> QED BY <1>1, <1>3, <2>1 DEF Window!append_status_line
<1>7. Window!append_to_message(v, x) \in Views
  <2>1. CASE v.b \in DOMAIN v.t
    <3> DEFINE c == [v.t[v.b] EXCEPT !.text = @ \o x]
               u == [v.t EXCEPT ![v.b] = c]
    <3>1. c \in B
      <4>1. v.t[v.b] \in B
        BY <1>1, <2>1
      <4> QED BY <1>4, <4>1
    <3>2. Window!append_to_message(v, x) = [v EXCEPT !.t = u]
      BY <2>1 DEF Window!append_to_message
    <3> HIDE DEF c
    <3>3. u \in Seq(B)
      BY <1>1, <2>1, <3>1, ExceptSeq
    <3> QED BY <1>1, <1>3, <3>2, <3>3
  <2>2. CASE v.b \notin DOMAIN v.t
    BY <2>2 DEF Window!append_to_message
  <2> QED BY <2>1, <2>2
<1> QED BY <1>5, <1>6, <1>7 DEF Window!Prefixed

LEMMA DeltaKept ==
  ASSUME NEW v \in Views, NEW x \in Seq(AllPieces)
  PROVE  Window!append_assistant_delta(v, x) \in Views
BY ViewsKept DEF Window!append_assistant_delta

\* A text that is appended to the bubble that is there.
LEMMA DeltaAppends ==
  ASSUME NEW v \in Views, v.b \in DOMAIN v.t, NEW x \in Seq(AllPieces)
  PROVE  LET w == Window!append_assistant_delta(v, x)
         IN  /\ w.b = v.b /\ w.t \in Seq(Bubbles) /\ DOMAIN w.t = DOMAIN v.t
             /\ w.t[v.b].role = v.t[v.b].role /\ w.t[v.b].text = v.t[v.b].text \o x
             /\ \A i \in DOMAIN v.t : i # v.b => w.t[i] = v.t[i]
             /\ SubSeq(w.t, 1, v.b - 1) = SubSeq(v.t, 1, v.b - 1)
<1> DEFINE w == Window!append_assistant_delta(v, x)
           B == Bubbles
           t == v.t
           b == v.b
           c == [t[b] EXCEPT !.text = @ \o x]
           u == [t EXCEPT ![b] = c]
<1>1. t \in Seq(B) /\ b \in 1..Len(t) /\ b # 0 /\ Len(t) \in Nat
  BY DEF Views
<1>2. w \in Views
  BY DeltaKept
<1>3. w = [v EXCEPT !.t = u]
  BY <1>1 DEF Window!append_assistant_delta, Window!Prefixed, Window!append_to_message
<1>4. w.b = b /\ w.t = u
  BY <1>3 DEF Views
<1>5. w.t \in Seq(B)
  BY <1>2 DEF Views
<1>6. t[b] \in B
  BY <1>1
<1>7. c.role = t[b].role /\ c.text = t[b].text \o x
  BY <1>6 DEF Bubbles
<1> HIDE DEF w, B, c
<1>8. DOMAIN u = DOMAIN t /\ u[b] = c /\ \A i \in DOMAIN t : i # b => u[i] = t[i]
  BY <1>1
<1> HIDE DEF u, t, b
<1>9. SubSeq(u, 1, b - 1) = SubSeq(t, 1, b - 1)
  <2> DEFINE p == SubSeq(u, 1, b - 1)
             q == SubSeq(t, 1, b - 1)
  <2>1. b - 1 \in Nat /\ \A i \in 1..(b - 1) : i \in DOMAIN t /\ u[i] = t[i] /\ u[i] \in B /\ t[i] \in B
    BY <1>1, <1>4, <1>5, <1>8
  <2>2. /\ p \in Seq(B) /\ Len(p) = b - 1 /\ \A i \in 1..(b - 1) : p[i] = u[i]
        /\ q \in Seq(B) /\ Len(q) = b - 1 /\ \A i \in 1..(b - 1) : q[i] = t[i]
    BY <2>1
  <2> HIDE DEF p, q
  <2>3. \A i \in 1..Len(p) : p[i] = q[i]
    BY <2>1, <2>2
  <2>4. p = q
    BY <2>2, <2>3, SeqEqual
  <2> QED BY <2>4 DEF p, q
<1> QED BY <1>4, <1>5, <1>7, <1>8, <1>9 DEF w, B, t, b, c, u

\* Opening a conversation shows its history.
LEMMA LoadedIs ==
  ASSUME NEW h \in Seq(Window!Turns), bubble \in Nat
  PROVE  /\ Window!Loaded(h) \in Views
         /\ bubble = 0 => Window!Loaded(h).b = 0 /\ Spoken(Window!Loaded(h).t) = h
<1> DEFINE m == Len(h)
           V == Views
           base == [t |-> <<>>, b |-> bubble]
           Shown(v, turn) ==
             IF turn.role = "user" THEN [v EXCEPT !.t = Append(@, Window!Bubble("user", turn.text))]
             ELSE [Window!append_assistant_delta(Window!append_assistant_prefix(v), turn.text) EXCEPT !.b = 0]
           Loads(f) == f = [i \in 0..m |-> IF i = 0 THEN base ELSE Shown(f[i - 1], h[i])]
           g == CHOOSE f : Loads(f)
<1>1. m \in Nat /\ \A i \in 1..m : h[i] \in Window!Turns
  OBVIOUS
<1>2. base \in V
  BY DEF Views
<1>3. ASSUME NEW turn \in Window!Turns
      PROVE  /\ turn.role \in {"user", "assistant"} /\ turn.text \in Seq(Window!Words) /\ turn.text # <<>>
             /\ turn.text \in Seq(AllPieces) /\ Said(turn.text) = turn.text
             /\ turn = Window!Turn(turn.role, turn.text)
             /\ Window!Bubble(turn.role, turn.text) \in Bubbles
  <2>1. turn.role \in {"user", "assistant"} /\ turn.text \in Seq(Window!Words) \ {<<>>} /\ turn = [role |-> turn.role, text |-> turn.text]
    <3> DEFINE S == Seq(Window!Words) \ {<<>>}
    <3> HIDE DEF S
    <3>1. turn \in [role : {"user", "assistant"}, text : S]
      BY DEF Window!Turns, S
    <3>2. turn.role \in {"user", "assistant"} /\ turn.text \in S /\ turn = [role |-> turn.role, text |-> turn.text]
      BY <3>1
    <3> QED BY <3>2 DEF S
  <2>2. turn.text \in Seq(AllPieces) /\ Said(turn.text) = turn.text
    BY <2>1, SaidFacts
  <2> DEFINE P == Seq(AllPieces)
  <2> HIDE DEF P
  <2>3. Window!Bubble(turn.role, turn.text) \in [role : {"user", "assistant", "system"}, text : P]
    BY <2>1, <2>2 DEF Window!Bubble, P
  <2> QED BY <2>1, <2>2, <2>3 DEF Window!Turn, Bubbles, P
<1>4. ASSUME NEW v \in V, NEW turn \in Window!Turns
      PROVE  /\ Shown(v, turn) \in V
             /\ Shown(v, turn) = [t |-> Append(v.t, Window!Bubble(turn.role, turn.text)),
                                  b |-> IF turn.role = "user" THEN v.b ELSE 0]
  <2> DEFINE B == Bubbles
             w == Window!append_assistant_prefix(v)
             new == Window!Bubble("assistant", <<>>)
             x == turn.text
  <2>1. v.t \in Seq(B) /\ v.b \in Nat /\ v = [t |-> v.t, b |-> v.b]
    BY DEF Views
  <2>2. Window!Bubble(turn.role, turn.text) \in B
    BY <1>3
  <2>3. w = [t |-> Append(v.t, new), b |-> Len(v.t) + 1]
    BY DEF Window!append_assistant_prefix
  <2>4. new \in B /\ new = [role |-> "assistant", text |-> <<>>]
    BY DEF Bubbles, Window!Bubble
  <2> HIDE DEF B
  <2>5. /\ Append(v.t, new) \in Seq(B) /\ Len(Append(v.t, new)) = Len(v.t) + 1 /\ Len(v.t) \in Nat
        /\ Append(v.t, new)[Len(v.t) + 1] = new
    BY <2>1, <2>4
  <2>6. [Append(v.t, new) EXCEPT ![Len(v.t) + 1] = Window!Bubble("assistant", x)] = Append(v.t, Window!Bubble("assistant", x))
    <3> DEFINE n == Len(v.t)
               k == Window!Bubble("assistant", x)
               l == [Append(v.t, new) EXCEPT ![n + 1] = k]
               r == Append(v.t, k)
    <3>1. k \in B
      <4> DEFINE P == Seq(AllPieces)
      <4>1. x \in P
        BY <1>3
      <4> HIDE DEF P
      <4>2. k \in [role : {"user", "assistant", "system"}, text : P]
        BY <4>1 DEF Window!Bubble
      <4> QED BY <4>2 DEF B, Bubbles, P
    <3> HIDE DEF k, new
    <3>2. l \in Seq(B) /\ Len(l) = n + 1 /\ \A j \in 1..(n + 1) : l[j] = IF j = n + 1 THEN k ELSE Append(v.t, new)[j]
      <4>1. n + 1 \in 1..Len(Append(v.t, new))
        BY <2>5
      <4> DEFINE a == Append(v.t, new)
                 e == n + 1
      <4>2. a \in Seq(B) /\ Len(a) = n + 1 /\ e \in 1..Len(a) /\ e = n + 1
        BY <2>5, <4>1
      <4> HIDE DEF a, e, n
      <4>3. LET u == [a EXCEPT ![e] = k]
            IN  u \in Seq(B) /\ Len(u) = Len(a) /\ \A j \in 1..Len(a) : u[j] = IF j = e THEN k ELSE a[j]
        BY <3>1, <4>2, ExceptSeq
      <4> QED BY <4>2, <4>3 DEF a, n
    <3>3. /\ r \in Seq(B) /\ Len(r) = n + 1 /\ r[n + 1] = k
          /\ \A j \in 1..n : r[j] = v.t[j] /\ Append(v.t, new)[j] = v.t[j]
      BY <2>1, <2>4, <3>1, AppendProperties
    <3> HIDE DEF l, r, n
    <3>4. n \in Nat
      BY <2>5 DEF n
    <3>5. \A j \in 1..(n + 1) : l[j] = r[j]
      <4>1. \A j \in 1..(n + 1) : j \in 1..n \/ j = n + 1
        BY <3>4
      <4>2. \A j \in 1..n : j # n + 1 /\ j \in 1..(n + 1)
        BY <3>4
      <4> QED BY <3>2, <3>3, <4>1, <4>2
    <3>6. l = r
      BY <3>2, <3>3, <3>5, SeqEqual
    <3> QED BY <3>6 DEF l, r, n, k
  <2>7. CASE turn.role = "user"
    <3>1. Append(v.t, Window!Bubble("user", x)) \in Seq(B)
      BY <2>1, <2>2, <2>7
    <3>2. Shown(v, turn) = [v EXCEPT !.t = Append(@, Window!Bubble("user", x))]
      BY <2>7
    <3>3. Shown(v, turn) = [t |-> Append(v.t, Window!Bubble("user", x)), b |-> v.b]
      BY <2>1, <3>2
    <3> QED BY <2>1, <2>7, <3>1, <3>3 DEF Views, B
  <2>8. CASE turn.role # "user"
    <3>1. turn.role = "assistant" /\ x \in Seq(Window!Words)
      BY <1>3, <2>8
    <3>2. w.b = Len(v.t) + 1 /\ w.t = Append(v.t, new) /\ w.b # 0 /\ w.b \in DOMAIN w.t /\ w.t[w.b] = new
      BY <2>3, <2>5
    <3>3. Window!append_assistant_delta(w, x) = [w EXCEPT !.t[w.b].text = @ \o x]
      BY <3>2 DEF Window!append_assistant_delta, Window!Prefixed, Window!append_to_message
    <3>4. [new EXCEPT !.text = @ \o x] = Window!Bubble("assistant", x)
      <4>1. <<>> \o x = x
        BY <3>1, ConcatEmptySeq
      <4> QED BY <2>4, <4>1 DEF Window!Bubble
    <3>5. [w EXCEPT !.t[w.b].text = @ \o x] = [t |-> [w.t EXCEPT ![w.b] = [new EXCEPT !.text = @ \o x]], b |-> w.b]
      <4>1. w = [t |-> w.t, b |-> w.b] /\ w.t[w.b] = new
        BY <2>3, <3>2
      <4> HIDE DEF w, new, x
      <4>2. [w EXCEPT !.t[w.b].text = @ \o x] = [w EXCEPT !.t = [w.t EXCEPT ![w.b] = [w.t[w.b] EXCEPT !.text = @ \o x]]]
        OBVIOUS
      <4> DEFINE u == [w.t EXCEPT ![w.b] = [new EXCEPT !.text = @ \o x]]
      <4>3. [w EXCEPT !.t[w.b].text = @ \o x] = [w EXCEPT !.t = u]
        BY <4>1, <4>2
      <4> HIDE DEF u
      <4>4. [w EXCEPT !.t = u] = [t |-> u, b |-> w.b]
        BY <4>1
      <4> QED BY <4>3, <4>4 DEF u
    <3> HIDE DEF w, new, x
    <3>6. Window!append_assistant_delta(w, x) = [t |-> Append(v.t, Window!Bubble("assistant", x)), b |-> w.b]
      BY <2>6, <3>2, <3>3, <3>4, <3>5
    <3>7. Shown(v, turn) = [Window!append_assistant_delta(w, x) EXCEPT !.b = 0]
      BY <2>8 DEF w, x
    <3>8. Shown(v, turn) = [t |-> Append(v.t, Window!Bubble("assistant", x)), b |-> 0]
      <4> DEFINE y == Window!append_assistant_delta(w, x)
                 u == Append(v.t, Window!Bubble("assistant", x))
      <4>1. y = [t |-> u, b |-> w.b] /\ Shown(v, turn) = [y EXCEPT !.b = 0]
        BY <3>6, <3>7
      <4> HIDE DEF y, u, Shown
      <4>2. Shown(v, turn) = [t |-> u, b |-> 0]
        BY <4>1
      <4> QED BY <4>2 DEF u
    <3>9. Append(v.t, Window!Bubble("assistant", x)) \in Seq(B)
      BY <2>1, <2>2, <3>1 DEF x
    <3> QED BY <2>8, <3>1, <3>8, <3>9 DEF Views, B, x
  <2> QED BY <2>7, <2>8
<1> DEFINE G == [p \in (1..m) \X V |-> Shown(p[2], h[p[1]])]
<1>5. G \in [(1..m) \X V -> V] /\ \A i \in 1..m, v \in V : G[<<i, v>>] = Shown(v, h[i])
  <2> HIDE DEF Shown, V
  <2> QED BY <1>1, <1>4
<1> HIDE DEF G, V, base, Shown
<1>6. PICK f : Iteration(f, G, V, base, m)
  BY <1>1, <1>2, <1>5, Iterates
<1>7. f \in [0..m -> V] /\ f[0] = base /\ \A i \in 1..m : f[i] = Shown(f[i - 1], h[i])
  <2>1. f \in [0..m -> V] /\ f[0] = base /\ \A i \in 1..m : f[i] = G[<<i, f[i - 1]>>]
    BY <1>6 DEF Iteration
  <2>2. \A i \in 1..m : i - 1 \in 0..m /\ f[i - 1] \in V
    BY <1>1, <2>1
  <2> QED BY <1>5, <2>1, <2>2
<1>8. Loads(f)
  <2>1. \A i \in 0..m : i = 0 \/ i \in 1..m
    BY <1>1
  <2>2. \A i \in 0..m : f[i] = IF i = 0 THEN base ELSE Shown(f[i - 1], h[i])
    BY <1>1, <1>7, <2>1
  <2> QED BY <1>7, <2>2
<1>9. Loads(g)
  <2> HIDE DEF Loads
  <2> QED BY <1>8
<1>10. Window!Loaded(h) = g[m]
  BY DEF Window!Loaded, base, Shown
<1> HIDE DEF g
<1>11. \A i \in 0..m : g[i] = IF i = 0 THEN base ELSE Shown(g[i - 1], h[i])
  BY <1>9
<1> DEFINE Holds(n) == g[n] \in V /\ (bubble = 0 => g[n].b = 0 /\ Spoken(g[n].t) = SubSeq(h, 1, n))
           Good == {n \in Nat : n <= m => Holds(n)}
<1>12. 0 \in Good
  <2>1. g[0] = base
    BY <1>1, <1>11
  <2>2. SubSeq(h, 1, 0) = <<>>
    BY SubSeqEmpty
  <2>3. base.t = <<>> /\ base.b = bubble
    BY DEF base
  <2> QED BY <1>2, <2>1, <2>2, <2>3, SpokenEmpty
<1>13. ASSUME NEW n \in Good PROVE n + 1 \in Good
  <2> SUFFICES ASSUME n + 1 <= m PROVE Holds(n + 1)
    OBVIOUS
  <2>1. n \in Nat /\ n + 1 \in 1..m /\ n + 1 \in 0..m /\ n + 1 # 0 /\ (n + 1) - 1 = n /\ Holds(n)
    BY <1>1
  <2> DEFINE v == g[n]
             turn == h[n + 1]
  <2>2. g[n + 1] = Shown(v, turn)
    BY <1>11, <2>1
  <2>3. v \in V /\ turn \in Window!Turns
    BY <1>1, <2>1
  <2> DEFINE k == Window!Bubble(turn.role, turn.text)
  <2>4. g[n + 1] \in V /\ g[n + 1].t = Append(v.t, k) /\ g[n + 1].b = IF turn.role = "user" THEN v.b ELSE 0
    BY <1>4, <2>2, <2>3, SMTT(30)
  <2>5. k \in Bubbles /\ v.t \in Seq(Bubbles) /\ k.role # "system" /\ Said(k.text) = turn.text /\ turn.text # <<>> /\ TurnOf(k) = turn
    <3>1. k.role = turn.role /\ k.text = turn.text
      BY DEF Window!Bubble
    <3>2. v.t \in Seq(Bubbles)
      BY <2>3 DEF V, Views
    <3> QED BY <1>3, <2>3, <3>1, <3>2 DEF TurnOf
  <2>6. Spoken(g[n + 1].t) = Append(Spoken(v.t), turn)
    <3> HIDE DEF k
    <3> QED BY <2>4, <2>5, SpokenAppend
  <2>7. SubSeq(h, 1, n + 1) = Append(SubSeq(h, 1, n), turn)
    <3> DEFINE T == Window!Turns
    <3>1. 1 \in 1..Len(h) /\ n + 1 \in 1..Len(h) /\ SubSeq(h, 1, n) \in Seq(T) /\ turn \in T /\ h \in Seq(T)
      BY <1>1, <2>1
    <3> HIDE DEF T
    <3>2. SubSeq(h, 1, n + 1) = SubSeq(h, 1, n) \o <<turn>>
      BY <2>1, <3>1, SubSeqRecursiveSecond
    <3> QED BY <3>1, <3>2, AppendIsConcat
  <2> QED BY <2>1, <2>4, <2>6, <2>7
<1> HIDE DEF Good, Holds
<1>14. Good = Nat
  <2>1. Good \in SUBSET Nat
    BY DEF Good
  <2> QED BY <1>12, <1>13, <2>1, Induction
<1>15. Holds(m)
  <2>1. m \in Good /\ m <= m
    BY <1>1, <1>14
  <2> QED BY <2>1 DEF Good
<1>16. SubSeq(h, 1, m) = h
  BY SubSeqFull
<1> QED BY <1>10, <1>15, <1>16 DEF Holds, V

-----------------------------------------------------------------------------
(* The types, action by action.                                            *)
LEMMA ClosureTyped ==
  ASSUME NEW c \in Closures
  PROVE  /\ c.what \in {"prefix", "thought", "status", "idle"} \cup (Events \ {"thought"}) \cup Endings
         /\ c.n \in Nat /\ c.ok \in BOOLEAN /\ c.text \in Seq(AllPieces)
         /\ c.what \in {"prefix", "thought"} => c.text \in Seq(Unsaid)
         /\ c.what \notin {"prefix", "thought"} => c.text \in Seq(Window!Words)
<1> DEFINE U == Seq(Unsaid)
           W == Seq(Window!Words)
           K == (Events \ {"thought"}) \cup Endings \cup {"status", "idle"}
<1>1. "prefix" \notin K /\ "thought" \notin K
  BY DEF Events, Endings
<1> HIDE DEF U, W, K
<1>2. \/ c \in [what : {"prefix", "thought"}, n : Nat, text : U, ok : BOOLEAN]
      \/ c \in [what : K, n : Nat, text : W, ok : BOOLEAN]
  BY DEF Closures, U, W, K
<1>3. /\ c.n \in Nat /\ c.ok \in BOOLEAN
      /\ (c.what \in {"prefix", "thought"} /\ c.text \in U) \/ (c.what \in K /\ c.text \in W)
  BY <1>2
<1>4. \A x : (x \in U \/ x \in W) => x \in Seq(AllPieces)
  BY SaidFacts DEF U, W
<1>5. (c.what \in {"prefix", "thought"} => c.text \in U) /\ (c.what \notin {"prefix", "thought"} => c.text \in W)
  BY <1>1, <1>3
<1> QED BY <1>3, <1>4, <1>5 DEF U, W, K

LEMMA ClosureIs ==
  ASSUME NEW c \in Closures, Window!Closure(c)
  PROVE  /\ c.what = "prefix" =>
              Window!Show(Window!append_assistant_prefix(Window!View)) /\ UNCHANGED <<pending, flushDue>> /\ Window!Quietly
         /\ c.what = "delta" => Window!Deferred(c)
         /\ c.what \in {"thought", "answer"} =>
              Window!Show(Window!append_assistant_delta(Window!View, c.text)) /\ UNCHANGED <<pending, flushDue>> /\ Window!Quietly
         /\ c.what \in {"tool", "garbled"} =>
              Window!Show(Window!append_status_line(Window!View, c.text)) /\ UNCHANGED <<pending, flushDue>> /\ Window!Quietly
         /\ c.what = "streamed" => Window!Streamed(c)
         /\ c.what = "answered" => Window!Answered(c)
         /\ c.what = "status" => UNCHANGED <<transcript, bubble, pending, flushDue>> /\ Window!Quietly
         /\ c.what = "idle" =>
              /\ IF asking THEN Window!set_busy_false ELSE UNCHANGED <<busy, asking, joining>>
              /\ UNCHANGED <<conversations, transcript, bubble, pending, flushDue>>
BY DEF Window!Closure

LEMMA PieceTyped ==
  /\ \A n, k \in Nat, kind \in {"question", "delta", "answer", "garbled", "tool"} :
        <<Window!Piece(n, kind, k)>> \in Seq(Window!Words)
  /\ \A n, k \in Nat : <<Window!Piece(n, "thought", k)>> \in Seq(Unsaid)
  /\ \A n \in Nat : Window!Apology(n) \in Seq(Unsaid)
<1>1. \A n, k \in Nat, kind \in {"question", "delta", "answer", "garbled", "tool"} : Window!Piece(n, kind, k) \in Window!Words
  BY DEF Window!Piece, Window!Words
<1>2. \A n, k \in Nat, kind \in {"thought", "apology"} : Window!Piece(n, kind, k) \in Unsaid
  BY DEF Window!Piece, Unsaid
<1> DEFINE W == Window!Words
           U == Unsaid
<1> HIDE DEF W, U
<1>3. (\A x \in W : <<x>> \in Seq(W)) /\ (\A x \in U : <<x>> \in Seq(U))
  OBVIOUS
<1> QED BY <1>1, <1>2, <1>3 DEF W, U, Window!Apology

LEMMA TurnTyped ==
  ASSUME NEW role \in {"user", "assistant"}, NEW x \in Seq(Window!Words), x # <<>>
  PROVE  /\ Window!Turn(role, x) \in Window!Turns
         /\ Window!Turn(role, x).role = role /\ Window!Turn(role, x).text = x
<1> DEFINE S == Seq(Window!Words)
<1>1. x \in S \ {<<>>}
  OBVIOUS
<1> HIDE DEF S
<1> QED BY <1>1 DEF Window!Turn, Window!Turns, S

LEMMA BubbleTyped ==
  ASSUME NEW role \in {"user", "assistant", "system"}, NEW x \in Seq(AllPieces)
  PROVE  /\ Window!Bubble(role, x) \in Bubbles
         /\ Window!Bubble(role, x).role = role /\ Window!Bubble(role, x).text = x
<1> DEFINE S == Seq(AllPieces)
<1>1. x \in S
  OBVIOUS
<1> HIDE DEF S
<1> QED BY <1>1 DEF Window!Bubble, Bubbles, S

\* One history is replaced by another.
LEMMA HistoryReplaced ==
  ASSUME conversations \in Seq(Seq(Window!Turns)), current \in DOMAIN conversations, NEW h \in Seq(Window!Turns)
  PROVE  LET new == [conversations EXCEPT ![current] = h]
         IN  /\ new \in Seq(Seq(Window!Turns)) /\ DOMAIN new = DOMAIN conversations
             /\ new[current] = h /\ \A c \in DOMAIN conversations : c # current => new[c] = conversations[c]
<1> DEFINE H == Seq(Window!Turns)
           new == [conversations EXCEPT ![current] = h]
<1>1. conversations \in Seq(H) /\ h \in H
  OBVIOUS
<1> HIDE DEF H
<1>2. new \in Seq(H)
  BY <1>1, ExceptSeq
<1> QED BY <1>1, <1>2 DEF H

LEMMA HistoryLonger ==
  ASSUME conversations \in Seq(Seq(Window!Turns)), current \in DOMAIN conversations, NEW turn \in Window!Turns
  PROVE  LET new == [conversations EXCEPT ![current] = Append(@, turn)]
         IN  /\ new \in Seq(Seq(Window!Turns)) /\ DOMAIN new = DOMAIN conversations
             /\ conversations[current] \in Seq(Window!Turns)
             /\ new[current] = Append(conversations[current], turn)
             /\ \A c \in DOMAIN conversations : c # current => new[c] = conversations[c]
<1> DEFINE H == Seq(Window!Turns)
           h == Append(conversations[current], turn)
<1>1. conversations[current] \in H
  <2>1. conversations \in Seq(H)
    OBVIOUS
  <2> HIDE DEF H
  <2> QED BY <2>1
<1>2. h \in H
  BY <1>1
<1>3. [conversations EXCEPT ![current] = Append(@, turn)] = [conversations EXCEPT ![current] = h]
  OBVIOUS
<1> HIDE DEF h, H
<1>4. LET new == [conversations EXCEPT ![current] = h]
      IN  /\ new \in Seq(H) /\ DOMAIN new = DOMAIN conversations
          /\ new[current] = h /\ \A c \in DOMAIN conversations : c # current => new[c] = conversations[c]
  BY <1>2, HistoryReplaced DEF H
<1> QED BY <1>1, <1>3, <1>4 DEF h, H

\* What a closure makes of the transcript and the history.
LEMMA RunTypes ==
  ASSUME WindowTypes, local # <<>>, Window!Closure(Head(local))
  PROVE  /\ conversations' \in Seq(Seq(Window!Turns)) /\ DOMAIN conversations' = DOMAIN conversations
         /\ transcript' \in Seq(Bubbles) /\ bubble' \in Nat /\ pending' \in Seq(Window!Words)
         /\ flushDue' \in BOOLEAN /\ asking' \in BOOLEAN /\ joining' \in BOOLEAN
<1> DEFINE c == Head(local)
           v == Window!View
           G == /\ conversations' \in Seq(Seq(Window!Turns)) /\ DOMAIN conversations' = DOMAIN conversations
                /\ transcript' \in Seq(Bubbles) /\ bubble' \in Nat /\ pending' \in Seq(Window!Words)
                /\ flushDue' \in BOOLEAN /\ asking' \in BOOLEAN /\ joining' \in BOOLEAN
<1>1. /\ conversations \in Seq(Seq(Window!Turns)) /\ current \in DOMAIN conversations
      /\ transcript \in Seq(Bubbles) /\ bubble \in Nat /\ pending \in Seq(Window!Words)
      /\ flushDue \in BOOLEAN /\ asking \in BOOLEAN /\ joining \in BOOLEAN /\ local \in Seq(Closures)
  BY DEF WindowTypes
<1>2. c \in Closures /\ Window!Closure(c)
  <2> DEFINE C == Closures
  <2>1. local \in Seq(C)
    BY <1>1
  <2> HIDE DEF C
  <2>2. Head(local) \in C
    BY <2>1, HeadTailProperties
  <2> QED BY <2>2 DEF C
<1>3. v \in Views
  BY <1>1 DEF Views, Window!View
<1>4. pending \in Seq(AllPieces)
  BY <1>1, SaidFacts
<1> HIDE DEF c
<1>5. c.text \in Seq(AllPieces) /\ c.n \in Nat /\ c.ok \in BOOLEAN
  BY <1>2, ClosureTyped
<1>6. ASSUME NEW w \in Views, Window!Show(w) PROVE transcript' \in Seq(Bubbles) /\ bubble' \in Nat
  BY <1>6 DEF Views, Window!Show
<1>7. \A w \in Views : w.t \in Seq(Bubbles)
  BY DEF Views
<1>8. ASSUME NEW w \in Views PROVE Window!Apologised(w, c) \in Views
  <2>1. Window!Apology(c.n) \in Seq(AllPieces)
    BY <1>5, PieceTyped, SaidFacts
  <2>2. Window!append_assistant_delta(w, Window!Apology(c.n)) \in Views
    BY <2>1, DeltaKept
  <2> QED BY <2>1, <2>2, ViewsKept DEF Window!Apologised
<1>9. ASSUME Window!Quietly, UNCHANGED <<pending, flushDue>>, transcript' \in Seq(Bubbles), bubble' \in Nat PROVE G
  BY <1>1, <1>9 DEF Window!Quietly
<1>10. ASSUME NEW x \in Seq(Window!Words), x # <<>>,
              conversations' = [conversations EXCEPT ![current] = Append(@, Window!Turn("assistant", x))]
       PROVE  conversations' \in Seq(Seq(Window!Turns)) /\ DOMAIN conversations' = DOMAIN conversations
  <2>1. Window!Turn("assistant", x) \in Window!Turns
    BY <1>10, TurnTyped
  <2> QED BY <1>1, <1>10, <2>1, HistoryLonger
<1>11. CASE c.what = "prefix"
  <2>1. Window!append_assistant_prefix(v) \in Views
    BY <1>3, <1>5, ViewsKept
  <2>2. Window!Show(Window!append_assistant_prefix(v)) /\ UNCHANGED <<pending, flushDue>> /\ Window!Quietly
    BY <1>2, <1>11, ClosureIs
  <2> QED BY <1>6, <1>9, <2>1, <2>2
<1>12. CASE c.what = "delta"
  <2>1. Window!Show(Window!Prefixed(v)) /\ pending' = pending \o c.text /\ flushDue' = TRUE /\ Window!Quietly
    BY <1>2, <1>12, ClosureIs DEF Window!Deferred
  <2>2. Window!Prefixed(v) \in Views
    BY <1>3, <1>5, ViewsKept
  <2>3. c.text \in Seq(Window!Words)
    BY <1>2, <1>12, ClosureTyped
  <2>4. pending' \in Seq(Window!Words)
    BY <1>1, <2>1, <2>3, ConcatProperties
  <2> QED BY <1>1, <1>6, <2>1, <2>2, <2>4 DEF Window!Quietly
<1>13. CASE c.what \in {"thought", "answer"}
  <2>1. Window!append_assistant_delta(v, c.text) \in Views
    BY <1>3, <1>5, DeltaKept
  <2>2. Window!Show(Window!append_assistant_delta(v, c.text)) /\ UNCHANGED <<pending, flushDue>> /\ Window!Quietly
    BY <1>2, <1>13, ClosureIs
  <2> QED BY <1>6, <1>9, <2>1, <2>2
<1>14. CASE c.what \in {"tool", "garbled"}
  <2>1. Window!append_status_line(v, c.text) \in Views
    BY <1>3, <1>5, ViewsKept
  <2>2. Window!Show(Window!append_status_line(v, c.text)) /\ UNCHANGED <<pending, flushDue>> /\ Window!Quietly
    BY <1>2, <1>14, ClosureIs
  <2> QED BY <1>6, <1>9, <2>1, <2>2
<1>15. CASE c.what = "streamed"
  <2> DEFINE w == Window!flush_assistant_delta(v)
  <2>1. w \in Views
    BY <1>3, <1>4, DeltaKept DEF Window!flush_assistant_delta
  <2>2. /\ pending' = <<>> /\ flushDue' = FALSE /\ bubble' = 0 /\ Window!set_busy_false
        /\ IF c.text # <<>>
             THEN /\ conversations' = [conversations EXCEPT ![current] = Append(@, Window!Turn("assistant", c.text))]
                  /\ transcript' = w.t
             ELSE /\ transcript' = Window!Apologised(w, c).t
                  /\ UNCHANGED conversations
    BY <1>2, <1>15, ClosureIs DEF Window!Streamed
  <2>3. c.text \in Seq(Window!Words)
    BY <1>2, <1>15, ClosureTyped
  <2>4. transcript' \in Seq(Bubbles)
    BY <1>7, <1>8, <2>1, <2>2
  <2>5. conversations' \in Seq(Seq(Window!Turns)) /\ DOMAIN conversations' = DOMAIN conversations
    BY <1>1, <1>10, <2>2, <2>3
  <2>6. <<>> \in Seq(Window!Words)
    OBVIOUS
  <2> QED BY <1>1, <2>2, <2>4, <2>5, <2>6 DEF Window!set_busy_false
<1>16. CASE c.what = "answered"
  <2>1. /\ transcript' = IF c.text # <<>> THEN Window!append_assistant_delta(v, c.text).t ELSE Window!Apologised(v, c).t
        /\ conversations' = IF c.text # <<>> THEN [conversations EXCEPT ![current] = Append(@, Window!Turn("assistant", c.text))]
                                             ELSE conversations
        /\ bubble' = 0 /\ Window!set_busy_false /\ UNCHANGED <<pending, flushDue>>
    BY <1>2, <1>16, ClosureIs DEF Window!Answered
  <2>2. c.text \in Seq(Window!Words)
    BY <1>2, <1>16, ClosureTyped
  <2>3. Window!append_assistant_delta(v, c.text) \in Views
    BY <1>3, <1>5, DeltaKept
  <2>4. transcript' \in Seq(Bubbles)
    BY <1>3, <1>7, <1>8, <2>1, <2>3
  <2>5. conversations' \in Seq(Seq(Window!Turns)) /\ DOMAIN conversations' = DOMAIN conversations
    BY <1>1, <1>10, <2>1, <2>2
  <2> QED BY <1>1, <2>1, <2>4, <2>5 DEF Window!set_busy_false
<1>17. CASE c.what = "status"
  <2>1. UNCHANGED <<transcript, bubble, pending, flushDue>> /\ Window!Quietly
    BY <1>2, <1>17, ClosureIs
  <2> QED BY <1>1, <1>9, <2>1
<1>18. CASE c.what = "idle"
  <2>1. /\ IF asking THEN Window!set_busy_false ELSE UNCHANGED <<busy, asking, joining>>
        /\ UNCHANGED <<conversations, transcript, bubble, pending, flushDue>>
    BY <1>2, <1>18, ClosureIs
  <2> QED BY <1>1, <2>1 DEF Window!set_busy_false
<1> QED BY <1>2, <1>11, <1>12, <1>13, <1>14, <1>15, <1>16, <1>17, <1>18, ClosureTyped DEF Events, Endings

\* What a step of the worker leaves alone, and what it puts behind the rest.
Apart == <<conversations, current, transcript, bubble, pending, flushDue, asking, joining, local, jobs, overlapped>>

Puts(c) == c \in Closures /\ c.n = job.n /\ Due' = Append(Due, c)

\* The names of closures that carry words, or nothing.
Carriers == (Events \ {"thought"}) \cup Endings \cup {"status", "idle"}

LEMMA DoTyped ==
  ASSUME NEW n \in Nat, NEW what, NEW x, NEW b \in BOOLEAN,
         \/ what \in Carriers /\ x \in Seq(Window!Words)
         \/ what \in {"prefix", "thought"} /\ x \in Seq(Unsaid)
  PROVE  LET c == [Window!Do(what, n, x) EXCEPT !.ok = b]
         IN  c \in Closures /\ c.what = what /\ c.n = n /\ c.text = x
<1> DEFINE U == Seq(Unsaid)
           W == Seq(Window!Words)
           c == [Window!Do(what, n, x) EXCEPT !.ok = b]
<1>1. Closures = [what : {"prefix", "thought"}, n : Nat, text : U, ok : BOOLEAN] \cup [what : Carriers, n : Nat, text : W, ok : BOOLEAN]
  BY DEF Closures, Carriers
<1>2. (what \in Carriers /\ x \in W) \/ (what \in {"prefix", "thought"} /\ x \in U)
  OBVIOUS
<1>3. c = [what |-> what, n |-> n, text |-> x, ok |-> b]
  BY DEF Window!Do
<1> HIDE DEF U, W, c
<1> QED BY <1>1, <1>2, <1>3 DEF c

LEMMA DoTypedTrue ==
  ASSUME NEW n \in Nat, NEW what, NEW x,
         \/ what \in Carriers /\ x \in Seq(Window!Words)
         \/ what \in {"prefix", "thought"} /\ x \in Seq(Unsaid)
  PROVE  LET c == Window!Do(what, n, x)
         IN  c \in Closures /\ c.what = what /\ c.n = n /\ c.text = x
<1> DEFINE U == Seq(Unsaid)
           W == Seq(Window!Words)
           c == Window!Do(what, n, x)
<1>1. Closures = [what : {"prefix", "thought"}, n : Nat, text : U, ok : BOOLEAN] \cup [what : Carriers, n : Nat, text : W, ok : BOOLEAN]
  BY DEF Closures, Carriers
<1>2. (what \in Carriers /\ x \in W) \/ (what \in {"prefix", "thought"} /\ x \in U)
  OBVIOUS
<1>3. c = [what |-> what, n |-> n, text |-> x, ok |-> TRUE]
  BY DEF Window!Do
<1> HIDE DEF U, W, c
<1> QED BY <1>1, <1>2, <1>3 DEF c

LEMMA PutsOne ==
  ASSUME WindowTypes, NEW c \in Closures, c.n = job.n, Window!Enqueue(<<c>>)
  PROVE  Puts(c) /\ queue' \in Seq(Closures)
<1> DEFINE C == Closures
<1>1. <<c>> \in Seq(C)
  OBVIOUS
<1>2. Due \in Seq(C) /\ queue' \in Seq(C) /\ Due' = Due \o <<c>>
  BY <1>1, EnqueueDue
<1> HIDE DEF C
<1>3. Append(Due, c) = Due \o <<c>>
  BY <1>2, AppendIsConcat DEF C
<1> QED BY <1>2, <1>3 DEF Puts, C

LEMMA BeginDoes ==
  ASSUME WindowTypes, Window!Begin
  PROVE  /\ UNCHANGED Apart /\ queue' \in Seq(Closures)
         /\ wstep = "started" /\ wstep' = "asking" /\ UNCHANGED <<job, heard>>
         /\ IF Chatting THEN \E c : Puts(c) /\ c.what = "prefix" ELSE Due' = Due
<1>1. job.n \in Nat /\ queue \in Seq(Closures)
  BY DEF WindowTypes, Requests
<1>2. /\ wstep = "started" /\ wstep' = "asking" /\ UNCHANGED <<job, heard>>
      /\ Window!Enqueue(IF Chatting THEN <<Window!Do("prefix", job.n, <<>>)>> ELSE <<>>)
  BY DEF Window!Begin, Window!Keep, Window!Chats, Chatting
<1>3. UNCHANGED Apart
  BY <1>2 DEF Window!Enqueue, Window!ui, Apart
<1>4. CASE Chatting
  <2> DEFINE e == <<>>
             c == Window!Do("prefix", job.n, e)
  <2>1. e \in Seq(Unsaid)
    OBVIOUS
  <2> HIDE DEF e
  <2>2. c \in Closures /\ c.what = "prefix" /\ c.n = job.n
    <3>1. "prefix" \in {"prefix", "thought"}
      OBVIOUS
    <3> QED BY <1>1, <2>1, <3>1, DoTypedTrue
  <2>3. Puts(c) /\ queue' \in Seq(Closures)
    BY <1>2, <1>4, <2>2, PutsOne DEF e
  <2> QED BY <1>2, <1>3, <1>4, <2>2, <2>3
<1>5. CASE ~Chatting
  <2>1. <<>> \in Seq(Closures) /\ Window!Enqueue(<<>>)
    BY <1>2, <1>5
  <2>2. Due \in Seq(Closures) /\ queue' \in Seq(Closures) /\ Due' = Due \o <<>>
    BY <2>1, EnqueueDue
  <2> QED BY <1>2, <1>3, <1>5, <2>2, ConcatEmptySeq
<1> QED BY <1>4, <1>5

LEMMA HearDoes ==
  ASSUME WindowTypes, NEW kind \in {"delta", "garbled", "thought", "tool", "answer"}, Window!HearEvent(kind)
  PROVE  /\ UNCHANGED Apart /\ queue' \in Seq(Closures)
         /\ wstep = "asking" /\ wstep' = "asking" /\ Chatting /\ job.stream /\ heard' \in Nat
         /\ kind \in IF job.kind = "llm" THEN {"delta", "garbled"} ELSE {"thought", "tool", "answer"}
         /\ \E c : /\ Puts(c) /\ c.what = kind /\ OfJob(c.text, job.n)
                   /\ job' = [job EXCEPT !.got = IF kind \in {"delta", "answer"} THEN @ \o c.text ELSE @]
<1> DEFINE x == <<Window!Piece(job.n, kind, heard + 1)>>
           c == Window!Do(kind, job.n, x)
<1>1. job.n \in Nat /\ heard + 1 \in Nat
  BY DEF WindowTypes, Requests
<1>2. /\ wstep = "asking" /\ wstep' = wstep /\ Chatting /\ job.stream
      /\ kind \in IF job.kind = "llm" THEN {"delta", "garbled"} ELSE {"thought", "tool", "answer"}
      /\ heard' = heard + 1 /\ Window!Enqueue(<<c>>)
      /\ job' = [job EXCEPT !.got = IF kind \in {"delta", "answer"} THEN @ \o x ELSE @]
  BY DEF Window!HearEvent, Window!Chats, Chatting
<1>3. UNCHANGED Apart
  BY <1>2 DEF Window!Enqueue, Window!ui, Apart
<1>4. IF kind = "thought" THEN x \in Seq(Unsaid) ELSE x \in Seq(Window!Words)
  BY <1>1, PieceTyped
<1>5. OfJob(x, job.n)
  BY DEF OfJob, Window!Piece
<1>6. c \in Closures /\ c.what = kind /\ c.n = job.n /\ c.text = x
  <2> HIDE DEF x
  <2>1. kind # "thought" => kind \in Carriers
    BY DEF Carriers, Events
  <2> QED BY <1>1, <1>4, <2>1, DoTypedTrue
<1> HIDE DEF x, c
<1>7. Puts(c) /\ queue' \in Seq(Closures)
  BY <1>2, <1>6, PutsOne
<1> QED BY <1>1, <1>2, <1>3, <1>5, <1>6, <1>7

LEMMA FinishDoesEnd ==
  ASSUME WindowTypes, Window!Answers \/ Window!Replies \/ \E ok \in BOOLEAN : Window!StreamEnds(ok)
  PROVE  /\ UNCHANGED Apart /\ queue' \in Seq(Closures)
         /\ wstep = "asking" /\ wstep' = "returned" /\ UNCHANGED <<job, heard>>
         /\ \E c : /\ Puts(c)
                   /\ IF ~Chatting THEN c.what = "status"
                      ELSE IF job.stream THEN c.what = "streamed" /\ c.text = job.got
                      ELSE c.what = "answered" /\ OfJob(c.text, job.n)
<1>1. job.n \in Nat /\ job.got \in Seq(Window!Words) /\ job.stream \in BOOLEAN
  BY DEF WindowTypes, Requests
<1>2. <<Window!Piece(job.n, "answer", 1)>> \in Seq(Window!Words) /\ <<>> \in Seq(Window!Words)
  BY <1>1, PieceTyped
<1>3. OfJob(<<Window!Piece(job.n, "answer", 1)>>, job.n) /\ OfJob(<<>>, job.n)
  BY DEF OfJob, Window!Piece
<1>4. \E x \in Seq(Window!Words), ok \in BOOLEAN :
        Window!Finish(x, ok) /\ (Chatting => IF job.stream THEN x = job.got ELSE OfJob(x, job.n))
  <2>1. CASE Window!Answers
    BY <1>2, <1>3, <2>1 DEF Window!Answers, Window!Chats, Chatting
  <2>2. CASE Window!Replies
    BY <1>2, <2>2 DEF Window!Replies, Window!Chats, Chatting
  <2>3. CASE \E ok \in BOOLEAN : Window!StreamEnds(ok)
    BY <1>1, <2>3 DEF Window!StreamEnds, Window!Chats, Chatting
  <2> QED BY <2>1, <2>2, <2>3
<1>5. PICK x \in Seq(Window!Words), ok \in BOOLEAN :
        Window!Finish(x, ok) /\ (Chatting => IF job.stream THEN x = job.got ELSE OfJob(x, job.n))
  BY <1>4
<1> DEFINE what == IF ~Chatting THEN "status" ELSE IF job.stream THEN "streamed" ELSE "answered"
           c == [Window!Do(what, job.n, x) EXCEPT !.ok = ok]
<1>6. wstep = "asking" /\ wstep' = "returned" /\ UNCHANGED <<job, heard>> /\ Window!Enqueue(<<c>>)
  BY <1>5 DEF Window!Finish, Window!Keep, Window!Chats, Chatting
<1>7. UNCHANGED Apart
  BY <1>6 DEF Window!Enqueue, Window!ui, Apart
<1>8. what \in Carriers
  BY DEF Carriers, Endings
<1> HIDE DEF what
<1>9. c \in Closures /\ c.what = what /\ c.n = job.n /\ c.text = x
  BY <1>1, <1>8, DoTyped
<1> HIDE DEF c
<1>10. Puts(c) /\ queue' \in Seq(Closures)
  BY <1>6, <1>9, PutsOne
<1> QED BY <1>5, <1>6, <1>7, <1>9, <1>10 DEF what

LEMMA LeaveDoes ==
  ASSUME WindowTypes, Window!LeaveThread
  PROVE  /\ UNCHANGED Apart /\ queue' \in Seq(Closures)
         /\ wstep = "returned" /\ wstep' = "exited" /\ UNCHANGED <<job, heard>>
         /\ \E c : Puts(c) /\ c.what = "idle"
<1> DEFINE e == <<>>
           c == Window!Do("idle", job.n, e)
<1>1. job.n \in Nat
  BY DEF WindowTypes, Requests
<1>2. wstep = "returned" /\ wstep' = "exited" /\ UNCHANGED <<job, heard>> /\ Window!Enqueue(<<c>>)
  BY DEF Window!LeaveThread, Window!Keep
<1>3. UNCHANGED Apart
  BY <1>2 DEF Window!Enqueue, Window!ui, Apart
<1>4. e \in Seq(Window!Words)
  OBVIOUS
<1> HIDE DEF e
<1>5. c \in Closures /\ c.what = "idle" /\ c.n = job.n
  <2>1. "idle" \in Carriers
    BY DEF Carriers
  <2> QED BY <1>1, <1>4, <2>1, DoTypedTrue
<1> HIDE DEF c
<1>6. Puts(c) /\ queue' \in Seq(Closures)
  BY <1>2, <1>5, PutsOne
<1> QED BY <1>2, <1>3, <1>5, <1>6

\* A request begins when the window is in no callback and no other is under way.
Starts ==
  /\ local = <<>> /\ ~joining /\ ~asking /\ wstep \in {"none", "exited"}
  /\ UNCHANGED <<current, bubble, pending, flushDue, joining, local, queue, heard>>
  /\ jobs' = jobs + 1 /\ asking' = TRUE /\ wstep' = "started"
  /\ job' \in Requests /\ job'.n = jobs + 1 /\ job'.got = <<>>
  /\ overlapped' \in BOOLEAN /\ overlapped' = (overlapped \/ queue # <<>>)

Asks(x) ==
  /\ x \in Seq(Window!Words) /\ x # <<>> /\ x[1].job = jobs + 1
  /\ transcript' = Append(transcript, Window!Bubble("user", x))
  /\ conversations' = [conversations EXCEPT ![current] = Append(@, Window!Turn("user", x))]

Wipes == transcript' = <<>> /\ conversations' = [conversations EXCEPT ![current] = <<>>]

LEMMA StartDoes ==
  ASSUME WindowTypes, Window!on_send \/ Window!on_clear \/ Window!on_health_check
  PROVE  /\ Starts
         /\ \/ \E x : Asks(x)
            \/ Wipes /\ ~Chatting'
            \/ UNCHANGED <<transcript, conversations>> /\ ~Chatting'
<1>1. jobs \in Nat /\ overlapped \in BOOLEAN /\ asking \in BOOLEAN
  BY DEF WindowTypes
<1>2. ASSUME NEW kind \in {"llm", "agent", "clear", "health"}, NEW stream \in BOOLEAN
      PROVE  LET j == Window!Job(kind, stream)
             IN  j \in Requests /\ j.n = jobs + 1 /\ j.kind = kind /\ j.got = <<>>
  <2> DEFINE W == Seq(Window!Words)
             e == <<>>
             r == Window!NoJob
             m == jobs + 1
             j == [r EXCEPT !.n = m, !.kind = kind, !.stream = stream]
  <2>1. e \in W /\ m \in Nat
    BY <1>1
  <2>2. r = [n |-> 0, kind |-> "none", stream |-> FALSE, got |-> e]
    BY DEF Window!NoJob
  <2>3. Requests = [n : Nat, kind : {"none", "llm", "agent", "clear", "health"}, stream : BOOLEAN, got : W]
    BY DEF Requests
  <2>4. Window!Job(kind, stream) = j
    BY DEF Window!Job
  <2> HIDE DEF W, e, m
  <2>5. r \in Requests /\ r.got = e
    BY <2>1, <2>2, <2>3
  <2> HIDE DEF r
  <2>6. j \in Requests /\ j.n = m /\ j.kind = kind /\ j.got = e
    BY <2>1, <2>3, <2>5
  <2> HIDE DEF j
  <2> QED BY <2>4, <2>6 DEF e, m
<1>3. ASSUME Window!Free, ~asking, UNCHANGED <<current, bubble, pending, flushDue>>,
             NEW kind \in {"llm", "agent", "clear", "health"}, NEW stream \in BOOLEAN,
             Window!start_worker(Window!Job(kind, stream))
      PROVE  Starts /\ (kind \in {"clear", "health"} => ~Chatting')
  <2>1. /\ job' = Window!Job(kind, stream)
        /\ wstep \in {"none", "exited"} /\ jobs' = jobs + 1 /\ asking' = TRUE /\ wstep' = "started"
        /\ overlapped' = (overlapped \/ (asking \/ queue # <<>>))
        /\ UNCHANGED <<queue, local, joining, heard>>
    BY <1>3 DEF Window!start_worker, Window!Underway
  <2>2. job' \in Requests /\ job'.n = jobs + 1 /\ job'.got = <<>> /\ job'.kind = kind
    BY <1>2, <2>1
  <2> QED BY <1>1, <1>3, <2>1, <2>2 DEF Starts, Chatting, Window!Free
<1>4. CASE Window!on_send
  <2> DEFINE x == <<Window!Piece(jobs + 1, "question", 0)>>
  <2>1. x \in Seq(Window!Words) /\ x # <<>> /\ x[1].job = jobs + 1
    <3>1. jobs + 1 \in Nat /\ 0 \in Nat /\ "question" \in {"question", "delta", "answer", "garbled", "tool"}
      BY <1>1
    <3>2. x \in Seq(Window!Words)
      BY <3>1, PieceTyped
    <3>3. x[1] = Window!Piece(jobs + 1, "question", 0) /\ x # <<>>
      OBVIOUS
    <3> QED BY <3>2, <3>3 DEF Window!Piece
  <2>2. Asks(x)
    BY <1>4, <2>1 DEF Window!on_send, Asks
  <2>3. PICK kind \in {"llm", "agent"}, stream \in BOOLEAN : Window!start_worker(Window!Job(kind, stream))
    BY <1>4 DEF Window!on_send
  <2>4. Window!Free /\ ~asking /\ UNCHANGED <<current, bubble, pending, flushDue>>
    BY <1>4 DEF Window!on_send
  <2> HIDE DEF x
  <2> QED BY <1>3, <2>2, <2>3, <2>4
<1>5. CASE Window!on_clear
  <2>1. /\ Window!Free /\ ~asking /\ UNCHANGED <<current, bubble, pending, flushDue>> /\ Wipes
        /\ Window!start_worker(Window!Job("clear", FALSE))
    BY <1>5 DEF Window!on_clear, Wipes
  <2> QED BY <1>3, <2>1
<1>6. CASE Window!on_health_check
  <2>1. /\ Window!Free /\ ~asking /\ UNCHANGED <<current, bubble, pending, flushDue, transcript, conversations>>
        /\ Window!start_worker(Window!Job("health", FALSE))
    BY <1>6 DEF Window!on_health_check, Window!ui
  <2> QED BY <1>3, <2>1
<1> QED BY <1>4, <1>5, <1>6

\* A conversation is opened when the window is in no callback.
OpensOne ==
  /\ local = <<>> /\ ~joining
  /\ UNCHANGED <<pending, flushDue, asking, job, wstep, queue, local, joining, jobs, heard>>
  /\ overlapped' \in BOOLEAN /\ overlapped' = (overlapped \/ (asking \/ queue # <<>>))

LEMMA OpenDoes ==
  ASSUME WindowTypes,
         Window!on_new_conversation \/ \E c \in DOMAIN conversations : Window!on_select_conversation(c)
  PROVE  /\ OpensOne
         /\ \/ /\ conversations' = Append(conversations, <<>>) /\ current' = Len(conversations) + 1
               /\ transcript' = <<>> /\ bubble' = bubble
            \/ /\ conversations' = conversations /\ current' \in DOMAIN conversations
               /\ Window!Show(Window!Loaded(conversations[current']))
<1>1. overlapped \in BOOLEAN /\ asking \in BOOLEAN
  BY DEF WindowTypes
<1>2. Window!Opens => OpensOne
  BY <1>1 DEF Window!Opens, OpensOne, Window!Free, Window!Underway
<1>3. CASE Window!on_new_conversation
  BY <1>2, <1>3 DEF Window!on_new_conversation
<1>4. CASE \E c \in DOMAIN conversations : Window!on_select_conversation(c)
  <2>1. PICK c \in DOMAIN conversations : Window!on_select_conversation(c)
    BY <1>4
  <2>2. Window!Opens /\ current' = c /\ Window!Show(Window!Loaded(conversations[c])) /\ UNCHANGED conversations
    BY <2>1 DEF Window!on_select_conversation
  <2> QED BY <1>2, <2>1, <2>2
<1> QED BY <1>3, <1>4

-----------------------------------------------------------------------------
(* A request ends once.                                                    *)
\* Steps that neither end a request nor store what one said.
LEMMA OnceKept ==
  ASSUME OnceInv, jobs \in Nat, jobs' \in Nat, jobs <= jobs', job.n \in Nat, job'.n \in Nat,
         \A i \in DOMAIN Due : Due[i].n \in Nat,
         \A c, k : Stored(c, k) => conversations[c][k].text[1].job \in Nat,
         pending' # <<>> => flushDue',
         Worked' => asking' \/ joining',
         job'.n <= jobs' /\ (wstep' # "none" => job'.n = jobs'), OfJob(job'.got, job'.n),
         Worked' => (Worked /\ job'.n = job.n) \/ job'.n = jobs + 1,
         NEW shift \in Nat,
         \A i \in DOMAIN Due' : Due'[i].n <= jobs',
         \A i \in DOMAIN Due' : Due'[i].what \in Endings => i \in Nat /\ i + shift \in DOMAIN Due /\ Due'[i] = Due[i + shift],
         \A c, k : Stored(c, k)' => Stored(c, k) /\ conversations'[c][k] = conversations[c][k]
  PROVE  OnceInv'
<1> DEFINE Ends(i) == i \in DOMAIN Due /\ Due[i].what \in Endings
           Ended(i) == i \in DOMAIN Due' /\ Due'[i].what \in Endings
           N(c, k) == conversations[c][k].text[1].job
           X(c, k) == conversations[c][k].text
<1>1. /\ \A i : Ends(i) => /\ OfJob(Due[i].text, Due[i].n) /\ Due[i].n <= jobs /\ Due[i].n \in Nat
                           /\ Worked => Due[i].n # job.n
      /\ \A i, j : Ends(i) /\ Ends(j) /\ j # i => Due[j].n # Due[i].n
  BY DEF OnceInv
<1>2. /\ \A c, k : Stored(c, k) => /\ OfJob(X(c, k), N(c, k)) /\ N(c, k) <= jobs /\ N(c, k) \in Nat
                                   /\ Worked => N(c, k) # job.n
                                   /\ \A i : Ends(i) => Due[i].n # N(c, k)
      /\ \A c, k, d, l : Stored(c, k) /\ Stored(d, l) /\ <<d, l>> # <<c, k>> => N(d, l) # N(c, k)
  BY DEF OnceInv
<1>3. \A i : Ended(i) => i \in Nat /\ Ends(i + shift) /\ Due'[i] = Due[i + shift]
  OBVIOUS
<1>4. ASSUME NEW n \in Nat, n <= jobs, Worked => n # job.n PROVE Worked' => n # job'.n
  BY <1>4
<1>5. \A i : Ended(i) => OfJob(Due'[i].text, Due'[i].n) /\ (Worked' => Due'[i].n # job'.n)
  BY <1>1, <1>3, <1>4
<1>6. \A i, j : Ended(i) /\ Ended(j) /\ j # i => Due'[j].n # Due'[i].n
  <2> SUFFICES ASSUME NEW i, NEW j, Ended(i), Ended(j), j # i PROVE Due'[j].n # Due'[i].n
    OBVIOUS
  <2>1. i \in Nat /\ j \in Nat /\ Ends(i + shift) /\ Ends(j + shift) /\ Due'[i] = Due[i + shift] /\ Due'[j] = Due[j + shift]
    BY <1>3
  <2>2. i + shift # j + shift
    BY <2>1
  <2> HIDE DEF Ends
  <2> QED BY <1>1, <2>1, <2>2
<1>7. ASSUME NEW c, NEW k, Stored(c, k)'
      PROVE  LET x == conversations'[c][k].text
             IN  /\ OfJob(x, x[1].job) /\ x[1].job <= jobs'
                 /\ Worked' => x[1].job # job'.n
                 /\ \A i \in DOMAIN Due' : Due'[i].what \in Endings => Due'[i].n # x[1].job
                 /\ \A d, l : Stored(d, l)' /\ <<d, l>> # <<c, k>> => conversations'[d][l].text[1].job # x[1].job
  <2>1. Stored(c, k) /\ conversations'[c][k].text = X(c, k) /\ conversations'[c][k].text[1].job = N(c, k)
    BY <1>7
  <2>2. OfJob(X(c, k), N(c, k)) /\ N(c, k) <= jobs /\ N(c, k) \in Nat /\ (Worked => N(c, k) # job.n)
    BY <1>2, <2>1
  <2>3. Worked' => N(c, k) # job'.n
    BY <1>4, <2>2
  <2>4. \A i : Ended(i) => Due'[i].n # N(c, k)
    BY <1>2, <1>3, <2>1
  <2>5. \A d, l : Stored(d, l)' /\ <<d, l>> # <<c, k>> => conversations'[d][l].text[1].job # N(c, k)
    BY <1>2, <2>1
  <2>6. N(c, k) <= jobs'
    BY <2>2
  <2> HIDE DEF N, X
  <2> QED BY <2>1, <2>2, <2>3, <2>4, <2>5, <2>6
<1>8. \A i \in DOMAIN Due' : Due'[i].what \in Endings =>
       /\ OfJob(Due'[i].text, Due'[i].n)
       /\ Worked' => Due'[i].n # job'.n
       /\ \A j \in DOMAIN Due' : j # i /\ Due'[j].what \in Endings => Due'[j].n # Due'[i].n
  BY <1>5, <1>6
<1> QED BY <1>7, <1>8 DEF OnceInv

LEMMA TurnIs ==
  ASSUME NEW turn \in Window!Turns
  PROVE  /\ turn.role \in {"user", "assistant"} /\ turn.text \in Seq(Window!Words) /\ turn.text # <<>>
         /\ turn = Window!Turn(turn.role, turn.text)
         /\ turn.text[1].job \in Nat
<1> DEFINE W == Window!Words
           S == Seq(W) \ {<<>>}
<1> HIDE DEF S
<1>1. turn \in [role : {"user", "assistant"}, text : S]
  BY DEF Window!Turns, S
<1>2. turn.role \in {"user", "assistant"} /\ turn.text \in S /\ turn = [role |-> turn.role, text |-> turn.text]
  BY <1>1
<1>3. turn.text \in Seq(W) /\ turn.text # <<>>
  BY <1>2 DEF S
<1>4. turn.text[1] \in W
  <2> DEFINE x == turn.text
  <2> HIDE DEF W, x
  <2> QED BY <1>3 DEF x
<1>5. \A w \in W : w.job \in Nat
  BY DEF Window!Words
<1> HIDE DEF W
<1> QED BY <1>2, <1>3, <1>4, <1>5 DEF Window!Turn, W

LEMMA Typed ==
  ASSUME WindowTypes
  PROVE  /\ jobs \in Nat /\ job.n \in Nat /\ job.got \in Seq(Window!Words) /\ job.stream \in BOOLEAN
         /\ Due \in Seq(Closures) /\ Len(Due) \in Nat /\ DOMAIN Due = 1..Len(Due) /\ (Due = <<>> <=> Len(Due) = 0)
         /\ \A i \in DOMAIN Due : Due[i] \in Closures /\ Due[i].n \in Nat
         /\ \A c \in DOMAIN conversations :
              /\ conversations[c] \in Seq(Window!Turns) /\ Len(conversations[c]) \in Nat
              /\ DOMAIN conversations[c] = 1..Len(conversations[c])
              /\ \A k \in DOMAIN conversations[c] : conversations[c][k] \in Window!Turns
         /\ \A c, k : Stored(c, k) => conversations[c][k].text[1].job \in Nat
<1> DEFINE C == Closures
           T == Window!Turns
<1>1. local \in Seq(C) /\ queue \in Seq(C) /\ conversations \in Seq(Seq(T)) /\ jobs \in Nat /\ job \in Requests
  BY DEF WindowTypes
<1>2. job.n \in Nat /\ job.got \in Seq(Window!Words) /\ job.stream \in BOOLEAN
  BY <1>1 DEF Requests
<1>3. \A c \in C : c.n \in Nat
  BY ClosureTyped
<1> HIDE DEF C, T
<1>4. Due \in Seq(C)
  BY <1>1, ConcatProperties DEF Due
<1>5. \A c \in DOMAIN conversations : conversations[c] \in Seq(T)
  <2> DEFINE H == Seq(T)
  <2>1. conversations \in Seq(H)
    BY <1>1
  <2> HIDE DEF H
  <2>2. \A c \in DOMAIN conversations : conversations[c] \in H
    BY <2>1
  <2> QED BY <2>2 DEF H
<1>6. /\ Len(Due) \in Nat /\ DOMAIN Due = 1..Len(Due) /\ (Due = <<>> <=> Len(Due) = 0)
      /\ \A i \in DOMAIN Due : Due[i] \in C
  BY <1>4
<1>7. ASSUME NEW c \in DOMAIN conversations
      PROVE  /\ Len(conversations[c]) \in Nat /\ DOMAIN conversations[c] = 1..Len(conversations[c])
             /\ \A k \in DOMAIN conversations[c] : conversations[c][k] \in T
  BY <1>5
<1>8. ASSUME NEW c, NEW k, Stored(c, k) PROVE conversations[c][k].text[1].job \in Nat
  <2>1. conversations[c][k] \in T
    BY <1>7, <1>8 DEF Stored
  <2> QED BY <2>1, TurnIs DEF T
<1> QED BY <1>1, <1>2, <1>3, <1>4, <1>5, <1>6, <1>7, <1>8 DEF C, T

\* One closure more.
LEMMA PutsFacts ==
  ASSUME WindowTypes, NEW c, Puts(c)
  PROVE  /\ Due' \in Seq(Closures) /\ Len(Due') = Len(Due) + 1 /\ DOMAIN Due' = 1..(Len(Due) + 1)
         /\ Due'[Len(Due) + 1] = c /\ \A i \in 1..Len(Due) : Due'[i] = Due[i]
<1> DEFINE C == Closures
           d == Due
<1>1. d \in Seq(C) /\ c \in C /\ Due' = Append(d, c) /\ Len(d) \in Nat
  BY Typed DEF Puts
<1> HIDE DEF C, d
<1>2. /\ Append(d, c) \in Seq(C) /\ Len(Append(d, c)) = Len(d) + 1 /\ Append(d, c)[Len(d) + 1] = c
      /\ \A i \in 1..Len(d) : Append(d, c)[i] = d[i]
  BY <1>1, AppendProperties
<1>3. DOMAIN Append(d, c) = 1..(Len(d) + 1)
  BY <1>1, <1>2
<1> QED BY <1>1, <1>2, <1>3 DEF C, d

\* A history with an answer in it stays as it is, up to what comes behind it.
Kept == \A c, k : Stored(c, k)' => Stored(c, k) /\ \A l \in DOMAIN conversations[c] : conversations'[c][l] = conversations[c][l]

LEMMA KeptAtStart ==
  ASSUME WindowTypes, (\E x : Asks(x)) \/ Wipes \/ UNCHANGED <<transcript, conversations>>
  PROVE  Kept
<1> SUFFICES ASSUME NEW c, NEW k, Stored(c, k)'
             PROVE  Stored(c, k) /\ \A l \in DOMAIN conversations[c] : conversations'[c][l] = conversations[c][l]
  BY DEF Kept
<1>1. CASE UNCHANGED <<transcript, conversations>>
  BY <1>1 DEF Stored
<1>2. CASE Wipes
  <2>1. DOMAIN conversations' = DOMAIN conversations /\ \A d \in DOMAIN conversations : conversations'[d] = IF d = current THEN <<>> ELSE conversations[d]
    BY <1>2 DEF Wipes, WindowTypes
  <2> QED BY <2>1 DEF Stored
<1>3. CASE \E x : Asks(x)
  <2>1. PICK x : Asks(x)
    BY <1>3
  <2> DEFINE turn == Window!Turn("user", x)
  <2>2. turn \in Window!Turns /\ turn.role = "user" /\ conversations' = [conversations EXCEPT ![current] = Append(@, turn)]
    BY <2>1, TurnTyped DEF Asks
  <2> HIDE DEF turn
  <2>3. /\ DOMAIN conversations' = DOMAIN conversations /\ conversations[current] \in Seq(Window!Turns)
        /\ conversations'[current] = Append(conversations[current], turn)
        /\ \A d \in DOMAIN conversations : d # current => conversations'[d] = conversations[d]
    BY <2>2, HistoryLonger DEF WindowTypes
  <2> DEFINE h == conversations[current]
             T == Window!Turns
  <2>4. /\ \A l \in DOMAIN Append(h, turn) : l \in DOMAIN h \/ Append(h, turn)[l] = turn
        /\ \A l \in DOMAIN h : Append(h, turn)[l] = h[l]
    <3>1. h \in Seq(T) /\ turn \in T
      BY <2>2, <2>3
    <3> HIDE DEF h, T
    <3> QED BY <3>1
  <2> QED BY <2>2, <2>3, <2>4 DEF Stored
<1> QED BY <1>1, <1>2, <1>3

LEMMA KeptAtOpen ==
  ASSUME WindowTypes,
         \/ conversations' = Append(conversations, <<>>)
         \/ conversations' = conversations
  PROVE  Kept
<1> SUFFICES ASSUME NEW c, NEW k, Stored(c, k)'
             PROVE  Stored(c, k) /\ \A l \in DOMAIN conversations[c] : conversations'[c][l] = conversations[c][l]
  BY DEF Kept
<1>1. CASE conversations' = conversations
  BY <1>1 DEF Stored
<1>2. CASE conversations' = Append(conversations, <<>>)
  <2> DEFINE H == Seq(Window!Turns)
             e == <<>>
             m == Len(conversations)
  <2>1. conversations \in Seq(H) /\ e \in H /\ DOMAIN e = {}
    BY DEF WindowTypes
  <2> HIDE DEF H, e
  <2>2. m \in Nat /\ DOMAIN conversations = 1..m /\ DOMAIN Append(conversations, e) = 1..(m + 1)
    BY <2>1
  <2>3. /\ \A d \in 1..m : Append(conversations, e)[d] = conversations[d]
        /\ Append(conversations, e)[m + 1] = e
    BY <2>1, AppendProperties
  <2>4. \A d \in 1..(m + 1) : d \in 1..m \/ d = m + 1
    BY <2>2
  <2>5. conversations' = Append(conversations, e)
    BY <1>2 DEF e
  <2> QED BY <2>1, <2>2, <2>3, <2>4, <2>5 DEF Stored
<1> QED BY <1>1, <1>2

LEMMA OnceStart ==
  ASSUME WindowTypes, OnceInv, Starts, (\E x : Asks(x)) \/ Wipes \/ UNCHANGED <<transcript, conversations>>
  PROVE  OnceInv'
<1>1. Due' = Due /\ jobs' = jobs + 1 /\ job'.n = jobs + 1 /\ job'.got = <<>> /\ asking' = TRUE /\ pending' = pending /\ flushDue' = flushDue
  BY DEF Starts, Due
<1>2. \A c, k : Stored(c, k)' => Stored(c, k) /\ conversations'[c][k] = conversations[c][k]
  BY KeptAtStart DEF Kept, Stored
<1>3. OfJob(<<>>, jobs + 1)
  BY DEF OfJob
<1>4. \A i \in DOMAIN Due : i \in Nat /\ i + 0 = i /\ Due[i].n <= jobs + 1
  BY Typed DEF OnceInv
<1>5. jobs <= jobs + 1 /\ jobs + 1 \in Nat /\ jobs + 1 <= jobs + 1
  BY Typed
<1>6. pending # <<>> => flushDue
  BY DEF OnceInv
<1> QED BY <1>1, <1>2, <1>3, <1>4, <1>5, <1>6, OnceKept, Typed

LEMMA OnceOpen ==
  ASSUME WindowTypes, OnceInv, OpensOne,
         \/ conversations' = Append(conversations, <<>>)
         \/ conversations' = conversations
  PROVE  OnceInv'
<1>1. /\ Due' = Due /\ jobs' = jobs /\ job' = job /\ asking' = asking /\ joining' = joining
      /\ wstep' = wstep /\ pending' = pending /\ flushDue' = flushDue
  BY DEF OpensOne, Due
<1>2. \A c, k : Stored(c, k)' => Stored(c, k) /\ conversations'[c][k] = conversations[c][k]
  BY KeptAtOpen DEF Kept, Stored
<1>3. \A i \in DOMAIN Due : i \in Nat /\ i + 0 = i
  BY Typed
<1>4. /\ pending # <<>> => flushDue
      /\ Worked => asking \/ joining
      /\ job.n <= jobs /\ (wstep # "none" => job.n = jobs) /\ OfJob(job.got, job.n)
      /\ \A i \in DOMAIN Due : Due[i].n <= jobs
  BY DEF OnceInv
<1>5. Worked' = Worked
  BY <1>1 DEF Worked
<1>6. jobs <= jobs
  BY Typed
<1> QED BY <1>1, <1>2, <1>3, <1>4, <1>5, <1>6, OnceKept, Typed

\* A closure that ends no request is put behind the rest.
LEMMA OncePuts ==
  ASSUME WindowTypes, OnceInv, UNCHANGED Apart, NEW c, Puts(c), c.what \notin Endings,
         wstep # "none", wstep' # "none", Worked' => Worked,
         job'.n = job.n, OfJob(job'.got, job.n)
  PROVE  OnceInv'
<1>1. /\ jobs' = jobs /\ asking' = asking /\ joining' = joining /\ pending' = pending /\ flushDue' = flushDue
      /\ conversations' = conversations
  BY DEF Apart
<1>2. \A k, d : Stored(d, k)' => Stored(d, k) /\ conversations'[d][k] = conversations[d][k]
  BY <1>1 DEF Stored
<1>3. /\ pending # <<>> => flushDue
      /\ Worked => asking \/ joining
      /\ job.n = jobs /\ \A i \in DOMAIN Due : Due[i].n <= jobs
  BY DEF OnceInv
<1>4. /\ Len(Due) \in Nat /\ DOMAIN Due = 1..Len(Due) /\ jobs \in Nat /\ jobs <= jobs
      /\ DOMAIN Due' = 1..(Len(Due) + 1) /\ Due'[Len(Due) + 1] = c /\ c.n = job.n
      /\ \A i \in 1..Len(Due) : Due'[i] = Due[i]
  BY PutsFacts, Typed DEF Puts
<1>5. \A i \in DOMAIN Due' : i \in DOMAIN Due \/ i = Len(Due) + 1
  BY <1>4
<1>6. \A i \in DOMAIN Due' : Due'[i].n <= jobs'
  BY <1>1, <1>3, <1>4, <1>5
<1>7. \A i \in DOMAIN Due' : Due'[i].what \in Endings => i \in Nat /\ i + 0 \in DOMAIN Due /\ Due'[i] = Due[i + 0]
  BY <1>4, <1>5
<1> QED BY <1>1, <1>2, <1>3, <1>4, <1>6, <1>7, OnceKept, Typed

\* The closure that ends the request the worker was at.
LEMMA OnceEnds ==
  ASSUME WindowTypes, OnceInv, UNCHANGED Apart, NEW c, Puts(c), OfJob(c.text, job.n),
         wstep = "asking", wstep' = "returned", job' = job
  PROVE  OnceInv'
<1>1. /\ jobs' = jobs /\ asking' = asking /\ joining' = joining /\ pending' = pending /\ flushDue' = flushDue
      /\ conversations' = conversations
  BY DEF Apart
<1>2. \A k, d : Stored(d, k)' = Stored(d, k)
  BY <1>1 DEF Stored
<1>3. Worked /\ ~Worked'
  BY DEF Worked
<1>4. /\ Len(Due) \in Nat /\ DOMAIN Due = 1..Len(Due)
      /\ DOMAIN Due' = 1..(Len(Due) + 1) /\ Due'[Len(Due) + 1] = c /\ c.n = job.n
      /\ \A i \in 1..Len(Due) : Due'[i] = Due[i]
  BY PutsFacts, Typed DEF Puts
<1>5. \A i \in DOMAIN Due' : i \in DOMAIN Due \/ i = Len(Due) + 1
  BY <1>4
<1>6. /\ \A i \in DOMAIN Due : Due'[i] = Due[i]
      /\ job.n = jobs /\ (pending # <<>> => flushDue) /\ OfJob(job.got, job.n)
      /\ \A i \in DOMAIN Due : Due[i].n <= jobs
      /\ \A i \in DOMAIN Due : Due[i].what \in Endings =>
           /\ OfJob(Due[i].text, Due[i].n) /\ Due[i].n # job.n
           /\ \A j \in DOMAIN Due : j # i /\ Due[j].what \in Endings => Due[j].n # Due[i].n
  BY <1>3, <1>4 DEF OnceInv
<1>7. job.n <= jobs
  BY <1>6, Typed
<1>8. \A i \in DOMAIN Due' : Due'[i].n <= jobs
  BY <1>4, <1>5, <1>6, <1>7
<1>9. \A i \in DOMAIN Due' : Due'[i].what \in Endings =>
           /\ OfJob(Due'[i].text, Due'[i].n)
           /\ \A j \in DOMAIN Due' : j # i /\ Due'[j].what \in Endings => Due'[j].n # Due'[i].n
  BY <1>4, <1>5, <1>6
<1>10. \A k, d : Stored(d, k) =>
       LET x == conversations[d][k].text
       IN  /\ OfJob(x, x[1].job) /\ x[1].job <= jobs
           /\ x[1].job # job.n
           /\ \A i \in DOMAIN Due : Due[i].what \in Endings => Due[i].n # x[1].job
           /\ \A e, l : Stored(e, l) /\ <<e, l>> # <<d, k>> => conversations[e][l].text[1].job # x[1].job
  BY <1>3 DEF OnceInv
<1>11. \A k, d : Stored(d, k) => \A i \in DOMAIN Due' : Due'[i].what \in Endings => Due'[i].n # conversations[d][k].text[1].job
  BY <1>4, <1>5, <1>6, <1>10
<1> QED BY <1>1, <1>2, <1>3, <1>6, <1>7, <1>8, <1>9, <1>10, <1>11 DEF OnceInv

LEMMA RunDoes ==
  ASSUME WindowTypes, Window!RunClosure
  PROVE  /\ ~joining /\ local # <<>> /\ Window!Closure(Head(local))
         /\ UNCHANGED <<current, job, wstep, queue, jobs, heard, overlapped>>
         /\ Due # <<>> /\ Window!Closure(Due[1]) /\ Due[1] \in Closures /\ local' \in Seq(Closures)
         /\ Due' \in Seq(Closures) /\ Due = <<Due[1]>> \o Due' /\ Len(Due) = Len(Due') + 1
         /\ Len(Due') \in Nat /\ DOMAIN Due' = 1..Len(Due') /\ (Due' = <<>> <=> Len(Due') = 0)
         /\ \A i \in DOMAIN Due' : i \in Nat /\ i + 1 \in DOMAIN Due /\ Due'[i] = Due[i + 1]
<1>1. /\ ~joining /\ local # <<>> /\ Window!Closure(Head(local)) /\ local' = Tail(local)
      /\ UNCHANGED <<current, job, wstep, queue, jobs, heard, overlapped>>
  BY DEF Window!RunClosure
<1>2. /\ Due # <<>> /\ Due[1] = Head(local) /\ Due[1] \in Closures
      /\ local' \in Seq(Closures) /\ Due' \in Seq(Closures) /\ Due = <<Due[1]>> \o Due'
      /\ Len(Due) = Len(Due') + 1 /\ \A i \in DOMAIN Due' : Due'[i] = Due[i + 1]
  BY <1>1, RunDue
<1>3. Len(Due') \in Nat /\ DOMAIN Due' = 1..Len(Due') /\ (Due' = <<>> <=> Len(Due') = 0)
  <2> DEFINE d == Due'
             C == Closures
  <2>1. d \in Seq(C)
    BY <1>2
  <2> HIDE DEF d, C
  <2>2. Len(d) \in Nat /\ DOMAIN d = 1..Len(d) /\ (d = <<>> <=> Len(d) = 0)
    BY <2>1
  <2> QED BY <2>2 DEF d
<1>4. \A i \in DOMAIN Due' : i \in Nat /\ i + 1 \in DOMAIN Due
  BY <1>2, <1>3, Typed
<1> QED BY <1>1, <1>2, <1>3, <1>4

\* The end of a request: the answer, if there is one, is stored.
LEMMA EndDoes ==
  ASSUME NEW c \in Closures, Window!Closure(c), c.what \in Endings, pending # <<>> => flushDue
  PROVE  /\ bubble' = 0 /\ asking' = FALSE /\ joining' = (wstep # "none")
         /\ pending' # <<>> => flushDue'
         /\ c.what = "streamed" => pending' = <<>>
         /\ c.what = "answered" => pending' = pending
         /\ conversations' = IF c.text # <<>> THEN [conversations EXCEPT ![current] = Append(@, Window!Turn("assistant", c.text))]
                             ELSE conversations
<1>1. CASE c.what = "streamed"
  BY <1>1, ClosureIs DEF Window!Streamed, Window!set_busy_false
<1>2. CASE c.what = "answered"
  BY <1>2, ClosureIs DEF Window!Answered, Window!set_busy_false
<1> QED BY <1>1, <1>2 DEF Endings

\* A closure that ends nothing leaves the history alone.
LEMMA OtherDoes ==
  ASSUME NEW c \in Closures, Window!Closure(c), c.what \notin Endings, pending # <<>> => flushDue
  PROVE  /\ conversations' = conversations
         /\ pending' # <<>> => flushDue'
         /\ UNCHANGED <<asking, joining>> \/ joining' = (wstep # "none")
<1>1. c.what \in {"prefix", "thought", "status", "idle", "delta", "garbled", "tool", "answer"}
  BY ClosureTyped DEF Events, Endings
<1>2. CASE c.what \in {"prefix", "thought", "status", "garbled", "tool", "answer"}
  BY <1>2, ClosureIs DEF Window!Quietly
<1>3. CASE c.what = "delta"
  BY <1>3, ClosureIs DEF Window!Deferred, Window!Quietly
<1>4. CASE c.what = "idle"
  BY <1>4, ClosureIs DEF Window!set_busy_false
<1> QED BY <1>1, <1>2, <1>3, <1>4

LEMMA OnceRun ==
  ASSUME WindowTypes, OnceInv, Window!RunClosure
  PROVE  OnceInv'
<1> DEFINE c == Due[1]
<1>1. /\ ~joining /\ UNCHANGED <<current, job, wstep, queue, jobs, heard, overlapped>>
      /\ Window!Closure(c) /\ c \in Closures /\ 1 \in DOMAIN Due
      /\ \A i \in DOMAIN Due' : i \in Nat /\ i + 1 \in DOMAIN Due /\ Due'[i] = Due[i + 1] /\ i + 1 # 1
  <2>1. Len(Due) # 0 /\ 1 \in DOMAIN Due
    BY RunDoes, Typed
  <2>2. \A i \in Nat : i \in DOMAIN Due' => i + 1 # 1
    BY RunDoes
  <2> QED BY RunDoes, <2>1, <2>2
<1>2. /\ pending # <<>> => flushDue
      /\ Worked => asking \/ joining
      /\ job.n <= jobs /\ (wstep # "none" => job.n = jobs) /\ OfJob(job.got, job.n)
      /\ \A i \in DOMAIN Due : Due[i].n <= jobs
  BY DEF OnceInv
<1>3. Worked' => Worked
  BY <1>1 DEF Worked
<1>4. Worked => wstep # "none"
  BY DEF Worked
<1>5. jobs <= jobs
  BY Typed
<1>6. \A i \in DOMAIN Due' : Due'[i].n <= jobs
  BY <1>1, <1>2
<1>7. CASE c.what \notin Endings
  <2>1. /\ conversations' = conversations /\ (pending' # <<>> => flushDue')
        /\ UNCHANGED <<asking, joining>> \/ joining' = (wstep # "none")
    BY <1>1, <1>2, <1>7, OtherDoes
  <2>2. \A k, d : Stored(d, k)' => Stored(d, k) /\ conversations'[d][k] = conversations[d][k]
    BY <2>1 DEF Stored
  <2>3. Worked' => asking' \/ joining'
    <3>1. joining' \in BOOLEAN
      BY RunDoes, RunTypes
    <3> QED BY <1>2, <1>3, <1>4, <2>1, <3>1
  <2> HIDE DEF c
  <2> QED BY <1>1, <1>2, <1>3, <1>5, <1>6, <2>1, <2>2, <2>3, OnceKept, Typed
<1>8. CASE c.what \in Endings
  <2>1. /\ asking' = FALSE /\ joining' = (wstep # "none") /\ (pending' # <<>> => flushDue')
        /\ conversations' = IF c.text # <<>> THEN [conversations EXCEPT ![current] = Append(@, Window!Turn("assistant", c.text))]
                            ELSE conversations
    BY <1>1, <1>2, <1>8, EndDoes
  <2>2. Worked' => asking' \/ joining'
    BY <1>3, <1>4, <2>1
  <2>3. CASE c.text = <<>>
    <3>1. conversations' = conversations
      BY <2>1, <2>3
    <3>2. \A k, d : Stored(d, k)' => Stored(d, k) /\ conversations'[d][k] = conversations[d][k]
      BY <3>1 DEF Stored
    <3> HIDE DEF c
    <3> QED BY <1>1, <1>2, <1>3, <1>5, <1>6, <2>1, <2>2, <3>2, OnceKept, Typed
  <2>4. CASE c.text # <<>>
    <3> DEFINE turn == Window!Turn("assistant", c.text)
               m == Len(conversations[current])
    <3>1. c.text \in Seq(Window!Words)
      BY <1>1, <1>8, ClosureTyped DEF Endings
    <3>2. turn \in Window!Turns /\ turn.text = c.text
      BY <2>4, <3>1, TurnTyped
    <3>3. OfJob(c.text, c.n) /\ c.text[1].job = c.n /\ c.n <= jobs /\ (Worked => c.n # job.n)
      <4>1. OfJob(c.text, c.n) /\ (Worked => c.n # job.n) /\ c.n <= jobs
        BY <1>1, <1>8 DEF OnceInv
      <4> DEFINE x == c.text
                 W == Window!Words
      <4>2. 1 \in DOMAIN x
        <5> HIDE DEF x, W
        <5>1. x \in Seq(W) /\ x # <<>>
          BY <2>4, <3>1 DEF x, W
        <5> QED BY <5>1
      <4> QED BY <4>1, <4>2 DEF OfJob
    <3>4. \A i \in DOMAIN Due : Due[i].what \in Endings /\ i # 1 => Due[i].n # c.n
      BY <1>1, <1>8 DEF OnceInv
    <3>5. \A k, d : Stored(d, k) => conversations[d][k].text[1].job # c.n
      BY <1>1, <1>8 DEF OnceInv
    <3> HIDE DEF c, turn
    <3>6. \A d, k : Stored(d, k)' =>
             \/ Stored(d, k) /\ conversations'[d][k] = conversations[d][k] /\ <<d, k>> # <<current, m + 1>>
             \/ <<d, k>> = <<current, m + 1>> /\ conversations'[d][k] = turn
      <4>1. conversations' = [conversations EXCEPT ![current] = Append(@, turn)]
        BY <2>1, <2>4 DEF turn
      <4>2. /\ DOMAIN conversations' = DOMAIN conversations /\ conversations[current] \in Seq(Window!Turns)
            /\ conversations'[current] = Append(conversations[current], turn)
            /\ \A d \in DOMAIN conversations : d # current => conversations'[d] = conversations[d]
        BY <3>2, <4>1, HistoryLonger DEF WindowTypes
      <4> DEFINE h == conversations[current]
                 T == Window!Turns
      <4>3. \A l \in DOMAIN Append(h, turn) : (l \in DOMAIN h /\ l # m + 1 /\ Append(h, turn)[l] = h[l]) \/ (l = m + 1 /\ Append(h, turn)[l] = turn)
        <5>1. h \in Seq(T) /\ turn \in T
          BY <3>2, <4>2
        <5> HIDE DEF h, T
        <5> QED BY <5>1 DEF h
      <4> HIDE DEF m
      <4> QED BY <4>2, <4>3 DEF Stored
    <3> HIDE DEF m
    <3> DEFINE N(d, k) == conversations[d][k].text[1].job
               X(d, k) == conversations[d][k].text
               Ends(i) == i \in DOMAIN Due /\ Due[i].what \in Endings
    <3>7. /\ \A d, k : Stored(d, k) => /\ OfJob(X(d, k), N(d, k)) /\ N(d, k) <= jobs /\ N(d, k) # c.n
                                       /\ Worked => N(d, k) # job.n
                                       /\ \A i : Ends(i) => Due[i].n # N(d, k)
          /\ \A d, k, e, l : Stored(d, k) /\ Stored(e, l) /\ <<e, l>> # <<d, k>> => N(e, l) # N(d, k)
      BY <3>5 DEF OnceInv
    <3>8. turn.text[1].job = c.n /\ OfJob(turn.text, c.n)
      BY <3>2, <3>3
    <3>9. ASSUME NEW d, NEW k, Stored(d, k)'
          PROVE  LET x == conversations'[d][k].text
                 IN  /\ OfJob(x, x[1].job) /\ x[1].job <= jobs
                     /\ Worked' => x[1].job # job'.n
                     /\ \A i \in DOMAIN Due' : Due'[i].what \in Endings => Due'[i].n # x[1].job
                     /\ \A e, l : Stored(e, l)' /\ <<e, l>> # <<d, k>> => conversations'[e][l].text[1].job # x[1].job
      <4>1. CASE Stored(d, k) /\ conversations'[d][k] = conversations[d][k] /\ <<d, k>> # <<current, m + 1>>
        <5>1. /\ OfJob(X(d, k), N(d, k)) /\ N(d, k) <= jobs /\ N(d, k) # c.n /\ (Worked => N(d, k) # job.n)
              /\ \A i : Ends(i) => Due[i].n # N(d, k)
          BY <3>7, <4>1
        <5>2. \A e, l : Stored(e, l)' /\ <<e, l>> # <<d, k>> => conversations'[e][l].text[1].job # N(d, k)
          BY <3>6, <3>7, <3>8, <4>1, <5>1
        <5>3. conversations'[d][k].text = X(d, k) /\ conversations'[d][k].text[1].job = N(d, k)
          BY <4>1
        <5>4. \A i \in DOMAIN Due' : Due'[i].what \in Endings => Due'[i].n # N(d, k)
          BY <1>1, <5>1
        <5> HIDE DEF N, X
        <5> QED BY <1>1, <1>3, <5>1, <5>2, <5>3, <5>4
      <4>2. CASE <<d, k>> = <<current, m + 1>> /\ conversations'[d][k] = turn
        <5>1. \A i \in DOMAIN Due' : Due'[i].what \in Endings => Due'[i].n # c.n
          BY <1>1, <3>4
        <5>2. \A e, l : Stored(e, l)' /\ <<e, l>> # <<d, k>> => conversations'[e][l].text[1].job # c.n
          BY <3>5, <3>6, <4>2
        <5> QED BY <1>1, <1>3, <3>3, <3>8, <4>2, <5>1, <5>2
      <4> QED BY <3>6, <3>9, <4>1, <4>2
    <3>10. \A i \in DOMAIN Due' : Due'[i].what \in Endings =>
             /\ OfJob(Due'[i].text, Due'[i].n)
             /\ Worked' => Due'[i].n # job'.n
             /\ \A j \in DOMAIN Due' : j # i /\ Due'[j].what \in Endings => Due'[j].n # Due'[i].n
      <4>1. \A i, j \in DOMAIN Due' : i # j => i + 1 # j + 1
        BY <1>1
      <4>2. /\ \A i : Ends(i) => OfJob(Due[i].text, Due[i].n) /\ (Worked => Due[i].n # job.n)
            /\ \A i, j : Ends(i) /\ Ends(j) /\ j # i => Due[j].n # Due[i].n
        BY DEF OnceInv
      <4>3. \A i \in DOMAIN Due' : Due'[i].what \in Endings => Ends(i + 1) /\ Due'[i] = Due[i + 1]
        BY <1>1
      <4> HIDE DEF Ends
      <4> QED BY <1>1, <1>3, <4>1, <4>2, <4>3
    <3>11. /\ job'.n <= jobs' /\ (wstep' # "none" => job'.n = jobs') /\ OfJob(job'.got, job'.n)
           /\ \A i \in DOMAIN Due' : Due'[i].n <= jobs'
      BY <1>1, <1>2, <1>6
    <3>12. jobs' = jobs /\ (pending' # <<>> => flushDue')
      BY <1>1, <2>1
    <3> HIDE DEF Ends, N, X
    <3> QED BY <2>2, <3>9, <3>10, <3>11, <3>12 DEF OnceInv
  <2> QED BY <2>3, <2>4
<1> QED BY <1>7, <1>8

\* What the timer and the join leave alone.
LEMMA FlushDoes ==
  ASSUME WindowTypes, Window!Flush
  PROVE  /\ UNCHANGED <<conversations, current, asking, job, wstep, queue, local, joining, jobs, heard, overlapped>>
         /\ Due' = Due /\ pending' = <<>> /\ flushDue' = FALSE
         /\ Window!Show(Window!flush_assistant_delta(Window!View))
BY DEF Window!Flush, Due

LEMMA JoinedDoes ==
  ASSUME WindowTypes, Window!Joined
  PROVE  /\ UNCHANGED <<conversations, current, transcript, bubble, pending, flushDue, asking, queue, local, jobs, heard, overlapped>>
         /\ Due' = Due /\ joining' = FALSE /\ wstep = "exited" /\ wstep' = "none"
         /\ job' \in Requests /\ job'.n = 0 /\ job'.got = <<>>
<1> DEFINE W == Seq(Window!Words)
           e == <<>>
<1>1. e \in W
  OBVIOUS
<1>2. /\ UNCHANGED <<conversations, current, transcript, bubble, pending, flushDue, asking, queue, local, jobs, heard, overlapped>>
      /\ Due' = Due /\ joining' = FALSE /\ wstep = "exited" /\ wstep' = "none"
      /\ job' = [n |-> 0, kind |-> "none", stream |-> FALSE, got |-> e]
  BY DEF Window!Joined, Window!NoJob, Window!ui, Due
<1>3. Requests = [n : Nat, kind : {"none", "llm", "agent", "clear", "health"}, stream : BOOLEAN, got : W]
  BY DEF Requests
<1> HIDE DEF W, e
<1>4. job' \in Requests /\ job'.n = 0 /\ job'.got = e
  BY <1>1, <1>2, <1>3
<1> QED BY <1>2, <1>4 DEF e

LEMMA OnceFlush == ASSUME WindowTypes, OnceInv, Window!Flush PROVE OnceInv'
<1>1. /\ UNCHANGED <<conversations, current, asking, job, wstep, queue, local, joining, jobs, heard, overlapped>>
      /\ Due' = Due /\ pending' = <<>>
  BY FlushDoes
<1> QED BY <1>1 DEF OnceInv, Worked, Stored

LEMMA OnceJoined == ASSUME WindowTypes, OnceInv, Window!Joined PROVE OnceInv'
<1>1. /\ UNCHANGED <<conversations, current, transcript, bubble, pending, flushDue, asking, queue, local, jobs, heard, overlapped>>
      /\ Due' = Due /\ joining' = FALSE /\ wstep = "exited" /\ wstep' = "none"
      /\ job' \in Requests /\ job'.n = 0 /\ job'.got = <<>>
  BY JoinedDoes
<1>2. ~Worked' /\ OfJob(<<>>, 0) /\ 0 <= jobs
  BY <1>1, Typed DEF Worked, OfJob
<1> QED BY <1>1, <1>2 DEF OnceInv, Stored

-----------------------------------------------------------------------------
(* The types.                                                              *)
LEMMA TypesStart ==
  ASSUME WindowTypes, Starts, (\E x : Asks(x)) \/ Wipes \/ UNCHANGED <<transcript, conversations>>
  PROVE  WindowTypes'
<1>1. /\ jobs' \in Nat /\ asking' \in BOOLEAN /\ wstep' \in {"none", "started", "asking", "returned", "exited"}
      /\ overlapped' \in BOOLEAN /\ job' \in Requests
      /\ UNCHANGED <<current, bubble, pending, flushDue, joining, local, queue, heard>>
  BY Typed DEF Starts
<1>2. /\ conversations' \in Seq(Seq(Window!Turns)) /\ DOMAIN conversations' = DOMAIN conversations
      /\ transcript' \in Seq(Bubbles)
  <2>1. CASE UNCHANGED <<transcript, conversations>>
    BY <2>1 DEF WindowTypes
  <2>2. CASE Wipes
    <3>1. <<>> \in Seq(Window!Turns) /\ <<>> \in Seq(Bubbles)
      OBVIOUS
    <3>2. conversations' = [conversations EXCEPT ![current] = <<>>] /\ transcript' = <<>>
      BY <2>2 DEF Wipes
    <3>3. conversations' \in Seq(Seq(Window!Turns)) /\ DOMAIN conversations' = DOMAIN conversations
      BY <3>1, <3>2, HistoryReplaced DEF WindowTypes
    <3> QED BY <3>1, <3>2, <3>3
  <2>3. CASE \E x : Asks(x)
    <3>1. PICK x : Asks(x)
      BY <2>3
    <3> DEFINE turn == Window!Turn("user", x)
               b == Window!Bubble("user", x)
    <3>2. /\ turn \in Window!Turns /\ conversations' = [conversations EXCEPT ![current] = Append(@, turn)]
          /\ b \in Bubbles /\ transcript' = Append(transcript, b)
      BY <3>1, SaidFacts, TurnTyped, BubbleTyped DEF Asks
    <3> HIDE DEF turn, b
    <3>3. conversations' \in Seq(Seq(Window!Turns)) /\ DOMAIN conversations' = DOMAIN conversations
      BY <3>2, HistoryLonger DEF WindowTypes
    <3> DEFINE B == Bubbles
    <3>4. transcript \in Seq(B) /\ b \in B
      BY <3>2 DEF WindowTypes
    <3> HIDE DEF B
    <3>5. Append(transcript, b) \in Seq(B)
      BY <3>4
    <3> QED BY <3>2, <3>3, <3>5 DEF B
  <2> QED BY <2>1, <2>2, <2>3
<1> QED BY <1>1, <1>2 DEF WindowTypes

LEMMA TypesOpen ==
  ASSUME WindowTypes, OpensOne,
         \/ /\ conversations' = Append(conversations, <<>>) /\ current' = Len(conversations) + 1
            /\ transcript' = <<>> /\ bubble' = bubble
         \/ /\ conversations' = conversations /\ current' \in DOMAIN conversations
            /\ Window!Show(Window!Loaded(conversations[current']))
  PROVE  WindowTypes'
<1>1. overlapped' \in BOOLEAN /\ UNCHANGED <<pending, flushDue, asking, job, wstep, queue, local, joining, jobs, heard>>
  BY DEF OpensOne
<1>2. /\ conversations' \in Seq(Seq(Window!Turns)) /\ current' \in DOMAIN conversations'
      /\ transcript' \in Seq(Bubbles) /\ bubble' \in Nat
  <2>1. CASE /\ conversations' = Append(conversations, <<>>) /\ current' = Len(conversations) + 1
             /\ transcript' = <<>> /\ bubble' = bubble
    <3> DEFINE H == Seq(Window!Turns)
               e == <<>>
    <3>1. conversations \in Seq(H) /\ e \in H /\ e \in Seq(Bubbles)
      BY DEF WindowTypes
    <3> HIDE DEF H, e
    <3>2. Append(conversations, e) \in Seq(H) /\ Len(conversations) + 1 \in DOMAIN Append(conversations, e)
      BY <3>1
    <3> QED BY <2>1, <3>1, <3>2 DEF H, e, WindowTypes
  <2>2. CASE /\ conversations' = conversations /\ current' \in DOMAIN conversations
             /\ Window!Show(Window!Loaded(conversations[current']))
    <3> DEFINE h == conversations[current']
    <3>1. h \in Seq(Window!Turns) /\ bubble \in Nat
      BY <2>2, Typed DEF WindowTypes
    <3> HIDE DEF h
    <3>2. Window!Loaded(h) \in Views
      BY <3>1, LoadedIs
    <3>3. Window!Loaded(h).t \in Seq(Bubbles) /\ Window!Loaded(h).b \in Nat
      BY <3>2 DEF Views
    <3> QED BY <2>2, <3>3 DEF Window!Show, h, WindowTypes
  <2> QED BY <2>1, <2>2
<1> QED BY <1>1, <1>2 DEF WindowTypes

LEMMA TypesRun == ASSUME WindowTypes, Window!RunClosure PROVE WindowTypes'
<1>1. /\ conversations' \in Seq(Seq(Window!Turns)) /\ DOMAIN conversations' = DOMAIN conversations
      /\ transcript' \in Seq(Bubbles) /\ bubble' \in Nat /\ pending' \in Seq(Window!Words)
      /\ flushDue' \in BOOLEAN /\ asking' \in BOOLEAN /\ joining' \in BOOLEAN
  BY RunDoes, RunTypes
<1>2. /\ UNCHANGED <<current, job, wstep, queue, jobs, heard, overlapped>> /\ local' \in Seq(Closures)
  BY RunDoes
<1> QED BY <1>1, <1>2 DEF WindowTypes

LEMMA TypesFlush == ASSUME WindowTypes, Window!Flush PROVE WindowTypes'
<1>1. /\ UNCHANGED <<conversations, current, asking, job, wstep, queue, local, joining, jobs, heard, overlapped>>
      /\ pending' = <<>> /\ flushDue' = FALSE
      /\ Window!Show(Window!flush_assistant_delta(Window!View))
  BY FlushDoes
<1>2. Window!View \in Views /\ pending \in Seq(AllPieces)
  BY SaidFacts DEF WindowTypes, Window!View, Views
<1>3. Window!flush_assistant_delta(Window!View) \in Views
  BY <1>2, DeltaKept DEF Window!flush_assistant_delta
<1>4. transcript' \in Seq(Bubbles) /\ bubble' \in Nat
  BY <1>1, <1>3 DEF Window!Show, Views
<1>5. pending' \in Seq(Window!Words) /\ flushDue' \in BOOLEAN
  <2>1. <<>> \in Seq(Window!Words)
    OBVIOUS
  <2> QED BY <1>1, <2>1
<1> QED BY <1>1, <1>4, <1>5 DEF WindowTypes

LEMMA TypesJoined == ASSUME WindowTypes, Window!Joined PROVE WindowTypes'
BY JoinedDoes DEF WindowTypes

LEMMA TypesDrain == ASSUME WindowTypes, Window!Drain PROVE WindowTypes'
<1>1. /\ local' = queue /\ queue' = <<>>
      /\ UNCHANGED <<conversations, current, transcript, bubble, pending, flushDue, asking, job, wstep, joining, jobs, heard, overlapped>>
  BY DEF Window!Drain, Window!ui
<1>2. queue' \in Seq(Closures)
  BY <1>1
<1> QED BY <1>1, <1>2 DEF WindowTypes

LEMMA TypesApart ==
  ASSUME WindowTypes, UNCHANGED Apart, queue' \in Seq(Closures), job' \in Requests, heard' \in Nat,
         wstep' \in {"none", "started", "asking", "returned", "exited"}
  PROVE  WindowTypes'
BY DEF WindowTypes, Apart

-----------------------------------------------------------------------------
(* What the closures that have not run will add.                           *)
Part(c) == IF c.what \in {"delta", "answer"} THEN c.text ELSE <<>>

LEMMA PartTyped == ASSUME NEW c \in Closures PROVE Part(c) \in Seq(Window!Words)
<1>1. <<>> \in Seq(Window!Words)
  OBVIOUS
<1> QED BY <1>1, ClosureTyped DEF Part

LEMMA TextsTyped ==
  ASSUME NEW q \in Seq(Closures)
  PROVE  /\ Texts(q) \in Seq(Seq(Window!Words)) /\ Len(Texts(q)) = Len(q)
         /\ \A i \in 1..Len(q) : Texts(q)[i] = Part(q[i])
<1> DEFINE C == Closures
           W == Seq(Window!Words)
<1>1. q \in Seq(C) /\ \A c \in C : Part(c) \in W
  BY PartTyped
<1> HIDE DEF C, W
<1>2. Texts(q) = [i \in 1..Len(q) |-> Part(q[i])] /\ Len(q) \in Nat
  BY <1>1 DEF Texts, Part
<1>3. \A i \in 1..Len(q) : Part(q[i]) \in W
  BY <1>1
<1>4. [i \in 1..Len(q) |-> Part(q[i])] \in Seq(W)
  BY <1>2, <1>3
<1> QED BY <1>2, <1>4 DEF W

LEMMA ComingLast ==
  ASSUME NEW q \in Seq(Closures), NEW c \in Closures
  PROVE  Coming(q) \in Seq(Window!Words) /\ Coming(Append(q, c)) = Coming(q) \o Part(c)
<1> DEFINE C == Closures
           W == Window!Words
           H == Seq(W)
           n == Len(q)
           r == Append(q, c)
<1>1. q \in Seq(C) /\ c \in C /\ n \in Nat
  OBVIOUS
<1>2. \A s \in Seq(C) : Texts(s) \in Seq(H) /\ Len(Texts(s)) = Len(s) /\ \A i \in 1..Len(s) : Texts(s)[i] = Part(s[i])
  BY TextsTyped
<1>3. Part(c) \in H
  BY PartTyped
<1> HIDE DEF C, H, n, r
<1>4. r \in Seq(C) /\ Len(r) = n + 1 /\ r[n + 1] = c /\ \A i \in 1..n : r[i] = q[i]
  BY <1>1, AppendProperties DEF n, r
<1>5. Texts(r) = Append(Texts(q), Part(c))
  <2> DEFINE a == Texts(q)
             b == Append(a, Part(c))
             d == Texts(r)
  <2>1. a \in Seq(H) /\ Len(a) = n /\ \A i \in 1..n : a[i] = Part(q[i])
    BY <1>1, <1>2 DEF n
  <2>2. d \in Seq(H) /\ Len(d) = n + 1 /\ \A i \in 1..(n + 1) : d[i] = Part(r[i])
    BY <1>2, <1>4
  <2> HIDE DEF a, d
  <2>3. b \in Seq(H) /\ Len(b) = n + 1 /\ b[n + 1] = Part(c) /\ \A i \in 1..n : b[i] = a[i]
    BY <1>3, <2>1, AppendProperties
  <2> HIDE DEF b
  <2>4. \A i \in 1..(n + 1) : d[i] = b[i]
    BY <1>1, <1>4, <2>1, <2>2, <2>3
  <2>5. d = b
    BY <2>2, <2>3, <2>4, SeqEqual
  <2> QED BY <2>5 DEF a, b, d
<1>6. Texts(q) \in Seq(H)
  BY <1>1, <1>2
<1>7. Flat(Texts(q)) \in H /\ Flat(Append(Texts(q), Part(c))) = Flat(Texts(q)) \o Part(c)
  <2> DEFINE a == Texts(q)
             b == Part(c)
  <2>1. a \in Seq(Seq(W)) /\ b \in Seq(W)
    BY <1>3, <1>6 DEF H
  <2> HIDE DEF a, b, W
  <2>2. Flat(a) \in Seq(W) /\ Flat(Append(a, b)) = Flat(a) \o b
    BY <2>1, FlatAppend
  <2> QED BY <2>2 DEF a, b, H
<1> QED BY <1>5, <1>7 DEF Coming, r, H

LEMMA ComingFirst ==
  ASSUME NEW q \in Seq(Closures), NEW c \in Closures
  PROVE  Coming(<<c>> \o q) = Part(c) \o Coming(q)
<1> DEFINE C == Closures
           W == Window!Words
           H == Seq(W)
           n == Len(q)
           o == <<c>>
           r == o \o q
           p == Part(c)
           a == Texts(q)
           d == Texts(r)
           s == <<p>>
           b == s \o a
<1>1. q \in Seq(C) /\ n \in Nat /\ o \in Seq(C) /\ Len(o) = 1 /\ o[1] = c
  OBVIOUS
<1>2. \A u \in Seq(C) : Texts(u) \in Seq(H) /\ Len(Texts(u)) = Len(u) /\ \A i \in 1..Len(u) : Texts(u)[i] = Part(u[i])
  BY TextsTyped
<1>3. p \in H
  BY PartTyped
<1> HIDE DEF C, H, o, p
<1>4. r \in Seq(C) /\ Len(r) = 1 + n /\ \A i \in 1..(1 + n) : r[i] = IF i <= 1 THEN o[i] ELSE q[i - 1]
  <2>1. /\ o \o q \in Seq(C) /\ Len(o \o q) = Len(o) + Len(q)
        /\ \A i \in 1..(Len(o) + Len(q)) : (o \o q)[i] = IF i <= Len(o) THEN o[i] ELSE q[i - Len(o)]
    BY <1>1, ConcatProperties
  <2> QED BY <1>1, <2>1
<1>5. a \in Seq(H) /\ Len(a) = n /\ \A i \in 1..n : a[i] = Part(q[i])
  BY <1>1, <1>2
<1> HIDE DEF r, n
<1>6. d \in Seq(H) /\ Len(d) = 1 + n /\ \A i \in 1..(1 + n) : d[i] = Part(r[i])
  BY <1>2, <1>4
<1>7. s \in Seq(H) /\ Len(s) = 1 /\ s[1] = p
  BY <1>3
<1> HIDE DEF a, d, s
<1>8. b \in Seq(H) /\ Len(b) = 1 + n /\ \A i \in 1..(1 + n) : b[i] = IF i <= 1 THEN s[i] ELSE a[i - 1]
  <2>1. /\ s \o a \in Seq(H) /\ Len(s \o a) = Len(s) + Len(a)
        /\ \A i \in 1..(Len(s) + Len(a)) : (s \o a)[i] = IF i <= Len(s) THEN s[i] ELSE a[i - Len(s)]
    BY <1>5, <1>7, ConcatProperties
  <2> QED BY <1>1, <1>5, <1>7, <2>1
<1> HIDE DEF b
<1>9. ASSUME NEW i \in 1..(1 + n) PROVE d[i] = b[i]
  <2>1. CASE i = 1
    <3>1. r[i] = c /\ b[i] = p
      BY <1>1, <1>4, <1>7, <1>8, <2>1
    <3> QED BY <1>6, <3>1 DEF p
  <2>2. CASE i # 1
    <3>1. ~(i <= 1) /\ i - 1 \in 1..n
      BY <1>1, <2>2
    <3> QED BY <1>4, <1>5, <1>6, <1>8, <3>1
  <2> QED BY <2>1, <2>2
<1>10. d = b
  BY <1>6, <1>8, <1>9, SeqEqual
<1>11. Flat(<<p>> \o a) = p \o Flat(a)
  <2>1. a \in Seq(Seq(W)) /\ p \in Seq(W)
    BY <1>3, <1>5 DEF H
  <2> HIDE DEF W
  <2> QED BY <2>1, FlatFirst
<1> QED BY <1>10, <1>11 DEF Coming, a, b, d, r, s, p, o

LEMMA ComingNothing == Coming(<<>>) = <<>>
<1>1. Texts(<<>>) = <<>>
  BY DEF Texts
<1> QED BY <1>1, FlatEmpty DEF Coming

-----------------------------------------------------------------------------
(* The order of the closures, while no requests overlap.                   *)
Goes == {"prefix"} \cup Events
Talks == Events \cup Endings

LEMMA ChainEnds ==
  ASSUME WindowTypes, ChainInv
  PROVE  /\ \A i \in DOMAIN Due : Due[i].what \notin Goes =>
              /\ wstep \in {"returned", "exited", "none"}
              /\ i + 1 \in DOMAIN Due => Due[i + 1].what = "idle" /\ i + 1 = Len(Due)
         /\ wstep = "asking" => \A i \in DOMAIN Due : Due[i].what \in Goes
         /\ wstep = "asking" /\ Due # <<>> => Chatting
         /\ wstep = "started" => Due = <<>>
<1>1. Len(Due) \in Nat /\ DOMAIN Due = 1..Len(Due) /\ (Due = <<>> <=> Len(Due) = 0)
  BY Typed
<1>2. /\ \A i \in DOMAIN Due : i + 1 \in DOMAIN Due => Follows(Due[i].what, Due[i + 1].what)
      /\ Due # <<>> => LeftAt(Due[Len(Due)].what)
  BY DEF ChainInv
<1>3. \A a : LeftAt(a) => IF a \in Goes THEN wstep = "asking" /\ Chatting ELSE wstep \in {"returned", "exited", "none"}
  BY DEF LeftAt, Goes
<1>4. \A a, b : Follows(a, b) => IF a \in Goes THEN b \in Talks ELSE a # "idle" /\ b = "idle"
  BY DEF Follows, Goes, Talks
<1>5. "idle" \notin Goes
  BY DEF Goes, Events
<1>6. ASSUME NEW i \in DOMAIN Due, Due[i].what \notin Goes
      PROVE  /\ wstep \in {"returned", "exited", "none"}
             /\ i + 1 \in DOMAIN Due => Due[i + 1].what = "idle" /\ i + 1 = Len(Due)
  <2>1. CASE i + 1 \in DOMAIN Due
    <3>1. Due[i + 1].what = "idle"
      BY <1>2, <1>4, <1>6, <2>1
    <3>2. (i + 1) + 1 \notin DOMAIN Due
      BY <1>2, <1>4, <1>5, <2>1, <3>1
    <3>3. i + 1 = Len(Due)
      BY <1>1, <2>1, <3>2
    <3> QED BY <1>1, <1>2, <1>3, <1>5, <2>1, <3>1, <3>3
  <2>2. CASE i + 1 \notin DOMAIN Due
    <3>1. i = Len(Due)
      BY <1>1, <2>2
    <3>2. Due # <<>>
      BY <1>1
    <3>3. LeftAt(Due[i].what)
      BY <1>2, <3>1, <3>2
    <3> QED BY <1>3, <1>6, <2>2, <3>3
  <2> QED BY <2>1, <2>2
<1>7. Due # <<>> => Len(Due) \in DOMAIN Due
  BY <1>1
<1> QED BY <1>2, <1>3, <1>6, <1>7

LEMMA ChainPuts ==
  ASSUME WindowTypes, OnceInv, ChainInv, UNCHANGED Apart, NEW c, Puts(c), wstep # "none",
         Due # <<>> => Follows(Due[Len(Due)].what, c.what),
         LeftAt(c.what)'
  PROVE  /\ ChainInv' /\ Due' # <<>>
         /\ Due'[1] = IF Due = <<>> THEN c ELSE Due[1]
<1>1. /\ Len(Due) \in Nat /\ DOMAIN Due = 1..Len(Due) /\ (Due = <<>> <=> Len(Due) = 0)
      /\ Len(Due') = Len(Due) + 1 /\ DOMAIN Due' = 1..(Len(Due) + 1)
      /\ Due'[Len(Due) + 1] = c /\ \A i \in 1..Len(Due) : Due'[i] = Due[i]
  BY Typed, PutsFacts
<1>2. /\ \A i \in DOMAIN Due : i + 1 \in DOMAIN Due => Follows(Due[i].what, Due[i + 1].what)
      /\ \A i \in DOMAIN Due : Due[i].n = jobs
  BY DEF ChainInv
<1>3. c.n = jobs /\ jobs' = jobs
  BY DEF Puts, OnceInv, Apart
<1>4. ASSUME NEW i \in DOMAIN Due', i + 1 \in DOMAIN Due' PROVE Follows(Due'[i].what, Due'[i + 1].what)
  <2>1. i \in 1..Len(Due)
    BY <1>1, <1>4
  <2>2. CASE i + 1 \in DOMAIN Due
    BY <1>1, <1>2, <2>1, <2>2
  <2>3. CASE i + 1 \notin DOMAIN Due
    <3>1. i = Len(Due) /\ Due # <<>>
      BY <1>1, <2>1, <2>3
    <3> QED BY <1>1, <2>1, <3>1
  <2> QED BY <2>2, <2>3
<1>5. \A i \in DOMAIN Due' : Due'[i].n = jobs'
  <2>1. \A i \in DOMAIN Due' : i \in DOMAIN Due \/ i = Len(Due) + 1
    BY <1>1
  <2> QED BY <1>1, <1>2, <1>3, <2>1
<1>6. LeftAt(Due[Len(Due)].what)'
  BY <1>1
<1>7. Due' # <<>> /\ Due'[1] = IF Due = <<>> THEN c ELSE Due[1]
  <2>1. Due' # <<>>
    BY <1>1
  <2>2. Due # <<>> => 1 \in 1..Len(Due)
    BY <1>1
  <2> QED BY <1>1, <2>1, <2>2
<1>8. ChainInv'
  BY <1>4, <1>5, <1>6 DEF ChainInv
<1> QED BY <1>7, <1>8

\* What the worker was at, by the last closure it left.
LEMMA LastLeft ==
  ASSUME WindowTypes, ChainInv, Due # <<>>
  PROVE  /\ wstep = "asking" => Due[Len(Due)].what \in Goes
         /\ wstep = "returned" => Due[Len(Due)].what \notin Goes \cup {"idle"}
BY DEF ChainInv, LeftAt, Goes

LEMMA ChainBegin ==
  ASSUME WindowTypes, OnceInv, ChainInv, Window!Begin
  PROVE  ChainInv' /\ Due = <<>> /\ ~Speaking /\ ~Speaking'
<1>1. /\ UNCHANGED Apart /\ wstep = "started" /\ wstep' = "asking" /\ job' = job
      /\ IF Chatting THEN \E c : Puts(c) /\ c.what = "prefix" ELSE Due' = Due
  BY BeginDoes
<1>2. Due = <<>> /\ ~Speaking
  BY <1>1, ChainEnds DEF Speaking
<1>3. Chatting' <=> Chatting
  BY <1>1 DEF Chatting
<1>4. CASE Chatting
  <2>1. PICK c : Puts(c) /\ c.what = "prefix"
    BY <1>1, <1>4
  <2>2. LeftAt(c.what)'
    BY <1>1, <1>3, <1>4, <2>1 DEF LeftAt
  <2>3. ChainInv' /\ Due' # <<>> /\ Due'[1] = c
    BY <1>1, <1>2, <2>1, <2>2, ChainPuts
  <2>4. ~Speaking'
    BY <2>1, <2>3 DEF Speaking, Events, Endings
  <2> QED BY <1>2, <2>3, <2>4
<1>5. CASE ~Chatting
  <2>1. Due' = <<>> /\ ~Chatting'
    BY <1>1, <1>2, <1>3, <1>5
  <2>2. DOMAIN Due' = {}
    BY <2>1
  <2> QED BY <1>2, <2>1, <2>2 DEF ChainInv, Speaking
<1> QED BY <1>4, <1>5

LEMMA ChainHear ==
  ASSUME WindowTypes, OnceInv, ChainInv, NEW c, UNCHANGED Apart, Puts(c), c.what \in Events,
         wstep = "asking", wstep' = "asking", Chatting, Chatting'
  PROVE  ChainInv' /\ (Speaking' <=> Speaking)
<1>1. LeftAt(c.what)'
  BY DEF LeftAt
<1>2. Due # <<>> => Follows(Due[Len(Due)].what, c.what)
  BY LastLeft DEF Follows, Goes
<1>3. ChainInv' /\ Due' # <<>> /\ Due'[1] = IF Due = <<>> THEN c ELSE Due[1]
  BY <1>1, <1>2, ChainPuts
<1> QED BY <1>3 DEF Speaking

LEMMA ChainFinish ==
  ASSUME WindowTypes, OnceInv, ChainInv, NEW c, UNCHANGED Apart, Puts(c),
         (c.what \in Endings /\ Chatting) \/ (c.what = "status" /\ ~Chatting),
         wstep = "asking", wstep' = "returned"
  PROVE  ChainInv' /\ (Speaking' <=> Speaking)
<1>1. LeftAt(c.what)'
  BY DEF LeftAt, Events, Endings
<1>2. Due # <<>> => Follows(Due[Len(Due)].what, c.what)
  <2>1. Due # <<>> => Chatting /\ Due[Len(Due)].what \in Goes
    BY LastLeft, ChainEnds
  <2> QED BY <2>1 DEF Follows, Goes
<1>3. ChainInv' /\ Due' # <<>> /\ Due'[1] = IF Due = <<>> THEN c ELSE Due[1]
  BY <1>1, <1>2, ChainPuts
<1>4. "status" \notin Events \cup Endings
  BY DEF Events, Endings
<1> QED BY <1>3, <1>4 DEF Speaking

LEMMA ChainLeave ==
  ASSUME WindowTypes, OnceInv, ChainInv, NEW c, UNCHANGED Apart, Puts(c), c.what = "idle",
         wstep = "returned", wstep' = "exited"
  PROVE  ChainInv' /\ (Speaking' <=> Speaking)
<1>1. LeftAt(c.what)'
  BY DEF LeftAt, Events
<1>2. Due # <<>> => Follows(Due[Len(Due)].what, c.what)
  BY LastLeft DEF Follows, Goes
<1>3. ChainInv' /\ Due' # <<>> /\ Due'[1] = IF Due = <<>> THEN c ELSE Due[1]
  BY <1>1, <1>2, ChainPuts
<1>4. "idle" \notin Events \cup Endings
  BY DEF Events, Endings
<1> QED BY <1>3, <1>4 DEF Speaking

\* The first closure is run: it is behind the rest of its request or before it.
LEMMA ChainRun ==
  ASSUME WindowTypes, ChainInv, Window!RunClosure
  PROVE  /\ ChainInv' /\ (Speaking' <=> Due[1].what \in Goes)
         /\ Due[1].what \notin Goes => wstep # "asking" /\ wstep # "started" /\ \A i \in DOMAIN Due' : Due'[i].what = "idle"
         /\ Due[1].what = "idle" => Due' = <<>>
<1>1. /\ UNCHANGED <<current, job, wstep, jobs>> /\ Due # <<>>
      /\ Len(Due) = Len(Due') + 1 /\ Len(Due') \in Nat /\ DOMAIN Due' = 1..Len(Due') /\ (Due' = <<>> <=> Len(Due') = 0)
      /\ \A i \in DOMAIN Due' : i \in Nat /\ i + 1 \in DOMAIN Due /\ Due'[i] = Due[i + 1]
  BY RunDoes
<1>2. /\ \A i \in DOMAIN Due : i + 1 \in DOMAIN Due => Follows(Due[i].what, Due[i + 1].what)
      /\ LeftAt(Due[Len(Due)].what)
      /\ \A i \in DOMAIN Due : Due[i].n = jobs
  BY <1>1 DEF ChainInv
<1>3. 1 \in DOMAIN Due /\ DOMAIN Due = 1..Len(Due)
  BY <1>1, Typed
<1>4. ChainInv'
  <2>1. ASSUME NEW i \in DOMAIN Due', i + 1 \in DOMAIN Due' PROVE Follows(Due'[i].what, Due'[i + 1].what)
    BY <1>1, <1>2, <2>1
  <2>2. Due' # <<>> => Len(Due') \in DOMAIN Due' /\ Due'[Len(Due')] = Due[Len(Due)]
    BY <1>1
  <2>3. \A a : LeftAt(a)' <=> LeftAt(a)
    BY <1>1 DEF LeftAt, Chatting
  <2>4. Due' # <<>> => LeftAt(Due[Len(Due)].what)'
    BY <1>2, <2>2, <2>3
  <2>5. \A i \in DOMAIN Due' : Due'[i].n = jobs'
    BY <1>1, <1>2
  <2> QED BY <2>1, <2>4, <2>5 DEF ChainInv
<1>5. CASE Due' = <<>>
  <2>1. LeftAt(Due[1].what)
    BY <1>1, <1>2, <1>5
  <2>2. Speaking' <=> wstep = "asking" /\ Chatting
    BY <1>1, <1>5 DEF Speaking, Chatting
  <2>3. DOMAIN Due' = {}
    BY <1>5
  <2> QED BY <1>4, <1>5, <2>1, <2>2, <2>3 DEF LeftAt, Goes
<1>6. CASE Due' # <<>>
  <2>1. 1 \in DOMAIN Due' /\ Due'[1] = Due[1 + 1] /\ 1 + 1 \in DOMAIN Due
    BY <1>1, <1>6
  <2>2. Follows(Due[1].what, Due'[1].what)
    BY <1>2, <1>3, <2>1
  <2>3. Speaking' <=> Due'[1].what \in Events \cup Endings
    BY <1>6 DEF Speaking
  <2>4. "idle" \notin Events \cup Endings
    BY DEF Events, Endings
  <2>5. Speaking' <=> Due[1].what \in Goes
    BY <2>2, <2>3, <2>4 DEF Follows, Goes
  <2>6. Due[1].what \notin Goes => Due[1].what # "idle" /\ wstep \in {"returned", "exited", "none"} /\ 2 = Len(Due) /\ Due'[1].what = "idle"
    BY <1>3, <2>1, <2>2, ChainEnds DEF Follows, Goes
  <2>7. Due[1].what \notin Goes => \A i \in DOMAIN Due' : i = 1
    BY <1>1, <2>6
  <2>8. "idle" \notin Goes
    BY DEF Goes, Events
  <2> QED BY <1>4, <2>5, <2>6, <2>7, <2>8
<1> QED BY <1>5, <1>6

-----------------------------------------------------------------------------
(* The steps of the worker, while no requests overlap.                     *)
Ordered == ChainInv /\ BubbleInv /\ TextInv /\ QuestionInv

LEMMA SofarTyped ==
  ASSUME WindowTypes, BubbleInv
  PROVE  Visible \in Seq(Window!Words) /\ pending \in Seq(Window!Words) /\ Coming(Due) \in Seq(Window!Words) /\ Sofar \in Seq(Window!Words)
<1> DEFINE W == Window!Words
           S == Seq(W)
<1>1. <<>> \in S
  OBVIOUS
<1>2. Open => transcript[bubble] \in Bubbles
  <2> DEFINE B == Bubbles
  <2>1. transcript \in Seq(B)
    BY DEF WindowTypes
  <2> HIDE DEF B
  <2>2. Open => transcript[bubble] \in B
    BY <2>1 DEF BubbleInv
  <2> QED BY <2>2 DEF B
<1>3. Open => Said(transcript[bubble].text) \in S
  BY <1>2, TurnOfBubble
<1>4. Visible \in S
  BY <1>1, <1>3 DEF Visible
<1>5. pending \in S
  BY DEF WindowTypes
<1>6. Coming(Due) \in S
  <2>1. Due \in Seq(Closures)
    BY Typed
  <2>2. Texts(Due) \in Seq(Seq(W))
    BY <2>1, TextsTyped
  <2> DEFINE a == Texts(Due)
  <2> HIDE DEF W, a
  <2>3. Flat(a) \in Seq(W)
    <3>1. a \in Seq(Seq(W)) /\ <<>> \in Seq(W)
      BY <2>2 DEF a
    <3> QED BY <3>1, FlatAppend
  <2> QED BY <2>3 DEF Coming, a
<1> HIDE DEF W
<1>7. pending \o Coming(Due) \in S
  BY <1>5, <1>6, ConcatProperties
<1>8. Sofar \in S
  BY <1>4, <1>7, ConcatProperties DEF Sofar
<1> QED BY <1>4, <1>5, <1>6, <1>8 DEF W

LEMMA BubbleApart ==
  ASSUME BubbleInv, UNCHANGED Apart, Speaking' <=> Speaking
  PROVE  BubbleInv' /\ (Open' <=> Open) /\ Visible' = Visible
<1>1. UNCHANGED <<conversations, current, transcript, bubble, pending>>
  BY DEF Apart
<1> QED BY <1>1 DEF BubbleInv, Open, Visible

LEMMA SofarPuts ==
  ASSUME WindowTypes, BubbleInv, UNCHANGED Apart, Speaking' <=> Speaking, NEW c, Puts(c)
  PROVE  Sofar' = Sofar \o Part(c)
<1> DEFINE S == Seq(Window!Words)
           p == pending
           d == Coming(Due)
           x == Part(c)
           h == Visible
<1>1. Due \in Seq(Closures) /\ c \in Closures /\ Due' = Append(Due, c)
  BY Typed DEF Puts
<1>2. Coming(Due') = d \o x
  BY <1>1, ComingLast
<1>3. x \in S /\ p \in S /\ d \in S /\ h \in S
  BY <1>1, PartTyped, SofarTyped
<1>4. Visible' = h /\ pending' = p /\ Coming(Due)' = Coming(Due')
  BY BubbleApart DEF Apart
<1>5. Sofar' = h \o (p \o (d \o x)) /\ Sofar = h \o (p \o d)
  BY <1>2, <1>4 DEF Sofar
<1> DEFINE W == Window!Words
<1> HIDE DEF p, d, x, h
<1>6. h \o (p \o (d \o x)) = (h \o (p \o d)) \o x
  <2> HIDE DEF W
  <2>1. x \in Seq(W) /\ p \in Seq(W) /\ d \in Seq(W) /\ h \in Seq(W)
    BY <1>3 DEF W
  <2>2. p \o (d \o x) = (p \o d) \o x
    BY <2>1, ConcatAssociative, SMTT(30)
  <2> DEFINE y == p \o d
  <2>3. y \in Seq(W)
    BY <2>1, ConcatProperties
  <2> HIDE DEF y
  <2>4. h \o (y \o x) = (h \o y) \o x
    BY <2>1, <2>3, ConcatAssociative, SMTT(30)
  <2> QED BY <2>2, <2>4 DEF y
<1> QED BY <1>5, <1>6 DEF x

LEMMA SofarSame ==
  ASSUME WindowTypes, BubbleInv, UNCHANGED Apart, Speaking' <=> Speaking, NEW c, Puts(c), c.what \notin {"delta", "answer"}
  PROVE  Sofar' = Sofar
<1>1. Part(c) = <<>>
  BY DEF Part
<1>2. Sofar' = Sofar \o <<>>
  BY <1>1, SofarPuts
<1>3. Sofar \in Seq(Window!Words)
  BY SofarTyped
<1> QED BY <1>2, <1>3, ConcatEmptySeq

LEMMA QuestionApart ==
  ASSUME QuestionInv, UNCHANGED Apart, Unanswered' => Unanswered
  PROVE  QuestionInv'
<1>1. UNCHANGED <<conversations, current, jobs>>
  BY DEF Apart
<1>2. \A c, k : Stored(c, k)' <=> Stored(c, k)
  BY <1>1 DEF Stored
<1> QED BY <1>1, <1>2 DEF QuestionInv

\* What is in the queue when one closure more is.
LEMMA PutsWhat ==
  ASSUME WindowTypes, NEW c, Puts(c)
  PROVE  /\ \A i \in DOMAIN Due' : (i \in DOMAIN Due /\ Due'[i] = Due[i]) \/ Due'[i] = c
         /\ \A i \in DOMAIN Due : i \in DOMAIN Due' /\ Due'[i] = Due[i]
<1>1. /\ Len(Due) \in Nat /\ DOMAIN Due = 1..Len(Due)
      /\ DOMAIN Due' = 1..(Len(Due) + 1) /\ Due'[Len(Due) + 1] = c /\ \A i \in 1..Len(Due) : Due'[i] = Due[i]
  BY Typed, PutsFacts
<1>2. \A i \in DOMAIN Due' : i \in DOMAIN Due \/ i = Len(Due) + 1
  BY <1>1
<1> QED BY <1>1, <1>2

LEMMA OrderedBegin ==
  ASSUME WindowTypes, OnceInv, Ordered, Window!Begin
  PROVE  Ordered'
<1>1. /\ UNCHANGED Apart /\ wstep = "started" /\ wstep' = "asking" /\ job' = job
      /\ IF Chatting THEN \E c : Puts(c) /\ c.what = "prefix" ELSE Due' = Due
  BY BeginDoes
<1>2. ChainInv' /\ Due = <<>> /\ ~Speaking /\ ~Speaking' /\ BubbleInv
  BY ChainBegin DEF Ordered
<1>3. BubbleInv' /\ (Open' <=> Open)
  BY <1>1, <1>2, BubbleApart
<1>4. Chatting' <=> Chatting
  BY <1>1 DEF Chatting
<1>5. ~Open /\ pending = <<>> /\ pending' = <<>> /\ DOMAIN Due = {}
  BY <1>1, <1>2 DEF BubbleInv, Apart
<1>6. CASE Chatting
  <2>1. PICK c : Puts(c) /\ c.what = "prefix"
    BY <1>1, <1>6
  <2>2. \A i \in DOMAIN Due' : Due'[i] = c
    BY <1>5, <2>1, PutsWhat
  <2>3. Sofar' = Sofar
    BY <1>1, <1>2, <2>1, SofarSame
  <2>4. Sofar = <<>>
    BY <1>2, <1>5, ComingNothing, ConcatEmptySeq DEF Sofar, Visible
  <2>5. job.got = <<>>
    BY <1>1, <1>6 DEF Ordered, TextInv
  <2>6. TextInv'
    BY <1>1, <1>5, <2>1, <2>2, <2>3, <2>4, <2>5 DEF TextInv, Waiting
  <2>7. Unanswered
    BY <1>1, <1>6 DEF Unanswered, Worked
  <2>8. QuestionInv'
    BY <1>1, <2>7, QuestionApart DEF Ordered
  <2> QED BY <1>2, <1>3, <2>6, <2>8 DEF Ordered
<1>7. CASE ~Chatting
  <2>1. DOMAIN Due' = {} /\ ~Chatting'
    BY <1>1, <1>4, <1>5, <1>7
  <2>2. TextInv'
    BY <1>5, <2>1 DEF TextInv, Waiting, Chatting
  <2>3. ~Unanswered'
    BY <2>1 DEF Unanswered
  <2>4. QuestionInv'
    BY <1>1, <2>3, QuestionApart DEF Ordered
  <2> QED BY <1>2, <1>3, <2>2, <2>4 DEF Ordered
<1> QED BY <1>6, <1>7

LEMMA OrderedHear ==
  ASSUME WindowTypes, OnceInv, Ordered, NEW kind \in {"delta", "garbled", "thought", "tool", "answer"}, Window!HearEvent(kind)
  PROVE  Ordered'
<1>1. /\ UNCHANGED Apart /\ wstep = "asking" /\ wstep' = "asking" /\ Chatting /\ job.stream
      /\ kind \in IF job.kind = "llm" THEN {"delta", "garbled"} ELSE {"thought", "tool", "answer"}
  BY HearDoes
<1>2. PICK c : /\ Puts(c) /\ c.what = kind
               /\ job' = [job EXCEPT !.got = IF kind \in {"delta", "answer"} THEN @ \o c.text ELSE @]
  BY HearDoes
<1>3. job \in Requests
  BY DEF WindowTypes
<1>4. /\ job'.kind = job.kind /\ job'.stream = job.stream /\ job'.n = job.n
      /\ job'.got = IF kind \in {"delta", "answer"} THEN job.got \o c.text ELSE job.got
  <2> DEFINE g == IF kind \in {"delta", "answer"} THEN job.got \o c.text ELSE job.got
  <2>1. job' = [job EXCEPT !.got = g]
    BY <1>2
  <2> HIDE DEF g
  <2>2. job'.kind = job.kind /\ job'.stream = job.stream /\ job'.n = job.n /\ job'.got = g
    BY <1>3, <2>1 DEF Requests
  <2> QED BY <2>2 DEF g
<1>5. Chatting'
  BY <1>1, <1>4 DEF Chatting
<1>6. kind \in Events
  BY DEF Events
<1>7. ChainInv' /\ (Speaking' <=> Speaking)
  BY <1>1, <1>2, <1>5, <1>6, ChainHear DEF Ordered
<1>8. BubbleInv'
  BY <1>1, <1>7, BubbleApart DEF Ordered
<1>9. Sofar' = Sofar \o Part(c) /\ Sofar \in Seq(Window!Words)
  BY <1>1, <1>2, <1>7, SofarPuts, SofarTyped DEF Ordered
<1>10. Sofar = job.got
  BY <1>1 DEF Ordered, TextInv
<1>11. Sofar' = job'.got
  BY <1>2, <1>4, <1>9, <1>10, ConcatEmptySeq DEF Part
<1>12. \A i \in DOMAIN Due : Due[i].what \in Goes
  BY <1>1, ChainEnds DEF Ordered
<1>13. /\ \A i \in DOMAIN Due' : (i \in DOMAIN Due /\ Due'[i] = Due[i]) \/ Due'[i] = c
       /\ pending' = pending
  BY <1>1, <1>2, PutsWhat DEF Apart
<1>14. "streamed" \notin Goes /\ "answered" \notin Goes /\ kind \in Goes
  BY <1>6 DEF Goes, Events
<1>15. \A i \in DOMAIN Due' : Due'[i].what # "streamed" /\ Due'[i].what # "answered"
  BY <1>2, <1>12, <1>13, <1>14
<1>16. /\ Waiting => (\A i \in DOMAIN Due : Due[i].what # "answer") /\ job.kind # "agent"
       /\ job.kind = "llm" => \A i \in DOMAIN Due : Due[i].what # "answer"
  BY <1>1 DEF Ordered, TextInv
<1>17. Waiting' => Waiting \/ kind = "delta"
  BY <1>2, <1>13 DEF Waiting
<1>18. Waiting' => job.kind = "llm"
  BY <1>1, <1>16, <1>17 DEF Chatting
<1>19. job.kind = "llm" => \A i \in DOMAIN Due' : Due'[i].what # "answer"
  BY <1>1, <1>2, <1>13, <1>16
<1>20. TextInv'
  BY <1>1, <1>4, <1>11, <1>15, <1>18, <1>19 DEF TextInv
<1>21. Unanswered
  BY <1>1 DEF Unanswered, Worked
<1>22. QuestionInv'
  BY <1>1, <1>21, QuestionApart DEF Ordered
<1> QED BY <1>7, <1>8, <1>20, <1>22 DEF Ordered

LEMMA OrderedFinish ==
  ASSUME WindowTypes, OnceInv, Ordered, NEW c, UNCHANGED Apart, Puts(c), wstep = "asking", wstep' = "returned", job' = job,
         IF ~Chatting THEN c.what = "status"
         ELSE IF job.stream THEN c.what = "streamed" /\ c.text = job.got ELSE c.what = "answered"
  PROVE  Ordered'
<1>1. (c.what \in Endings /\ Chatting) \/ (c.what = "status" /\ ~Chatting)
  BY DEF Endings
<1>2. ChainInv' /\ (Speaking' <=> Speaking)
  BY <1>1, ChainFinish DEF Ordered
<1>3. BubbleInv'
  BY <1>2, BubbleApart DEF Ordered
<1>4. c.what \notin {"delta", "answer"}
  BY <1>1 DEF Endings
<1>5. Sofar' = Sofar
  BY <1>2, <1>4, SofarSame DEF Ordered
<1>6. Chatting => Sofar = job.got /\ (~job.stream => job.got = <<>>)
  BY DEF Ordered, TextInv
<1>7. \A i \in DOMAIN Due : Due[i].what \in Goes
  BY ChainEnds DEF Ordered
<1>8. /\ \A i \in DOMAIN Due' : (i \in DOMAIN Due /\ Due'[i] = Due[i]) \/ Due'[i] = c
      /\ pending' = pending
  BY PutsWhat DEF Apart
<1>9. "streamed" \notin Goes /\ "answered" \notin Goes
  BY DEF Goes, Events
<1>10. \A i \in DOMAIN Due' : /\ Due'[i].what = "streamed" => Sofar' = Due'[i].text
                              /\ Due'[i].what = "answered" => Sofar' = <<>>
  BY <1>5, <1>6, <1>7, <1>8, <1>9
<1>11. Waiting' => Waiting
  BY <1>4, <1>8 DEF Waiting
<1>12. (\A i \in DOMAIN Due : Due[i].what # "answer") => \A i \in DOMAIN Due' : Due'[i].what # "answer"
  BY <1>4, <1>8
<1>13. TextInv'
  BY <1>10, <1>11, <1>12 DEF Ordered, TextInv
<1>14. Unanswered' => Unanswered
  <2>1. Chatting => Unanswered
    BY DEF Unanswered, Worked
  <2>2. CASE ~Chatting
    <3>1. ~Worked' /\ "status" \notin {"prefix"} \cup Events \cup Endings
      BY DEF Worked, Events, Endings
    <3> QED BY <1>8, <2>2, <3>1 DEF Unanswered
  <2> QED BY <2>1, <2>2
<1>15. QuestionInv'
  BY <1>14, QuestionApart DEF Ordered
<1> QED BY <1>2, <1>3, <1>13, <1>15 DEF Ordered

LEMMA OrderedLeave ==
  ASSUME WindowTypes, OnceInv, Ordered, NEW c, UNCHANGED Apart, Puts(c), c.what = "idle",
         wstep = "returned", wstep' = "exited", job' = job
  PROVE  Ordered'
<1>1. ChainInv' /\ (Speaking' <=> Speaking)
  BY ChainLeave DEF Ordered
<1>2. BubbleInv'
  BY <1>1, BubbleApart DEF Ordered
<1>3. Sofar' = Sofar
  BY <1>1, SofarSame DEF Ordered
<1>4. /\ \A i \in DOMAIN Due' : (i \in DOMAIN Due /\ Due'[i] = Due[i]) \/ Due'[i] = c
      /\ pending' = pending
  BY PutsWhat DEF Apart
<1>5. Waiting' => Waiting
  BY <1>4 DEF Waiting
<1>6. TextInv'
  BY <1>3, <1>4, <1>5 DEF Ordered, TextInv
<1>7. ~Worked' /\ "idle" \notin {"prefix"} \cup Events \cup Endings
  BY DEF Worked, Events, Endings
<1>8. Unanswered' => Unanswered
  BY <1>4, <1>7 DEF Unanswered
<1>9. QuestionInv'
  BY <1>8, QuestionApart DEF Ordered
<1> QED BY <1>1, <1>2, <1>6, <1>9 DEF Ordered

-----------------------------------------------------------------------------
(* The steps of the window but for the closures, while no requests overlap. *)
LEMMA QuestionsKept ==
  ASSUME WindowTypes, QuestionInv, Kept
  PROVE  \A c, k : Stored(c, k)' =>
            /\ k > 1 /\ conversations'[c][k - 1].role = "user"
            /\ conversations'[c][k - 1].text[1].job = conversations'[c][k].text[1].job
<1> SUFFICES ASSUME NEW c, NEW k, Stored(c, k)'
             PROVE  /\ k > 1 /\ conversations'[c][k - 1].role = "user"
                    /\ conversations'[c][k - 1].text[1].job = conversations'[c][k].text[1].job
  OBVIOUS
<1>1. Stored(c, k) /\ \A l \in DOMAIN conversations[c] : conversations'[c][l] = conversations[c][l]
  BY DEF Kept
<1>2. /\ k > 1 /\ conversations[c][k - 1].role = "user"
      /\ conversations[c][k - 1].text[1].job = conversations[c][k].text[1].job
  BY <1>1 DEF QuestionInv
<1>3. k \in DOMAIN conversations[c] /\ k - 1 \in DOMAIN conversations[c]
  BY <1>1, <1>2, Typed DEF Stored
<1> QED BY <1>1, <1>2, <1>3

LEMMA OrderedStart ==
  ASSUME WindowTypes, OnceInv, Ordered, Starts, queue = <<>>,
         \/ \E x : Asks(x)
         \/ Wipes /\ ~Chatting'
         \/ UNCHANGED <<transcript, conversations>> /\ ~Chatting'
  PROVE  Ordered'
<1>1. /\ UNCHANGED <<current, bubble, pending>> /\ jobs' = jobs + 1 /\ wstep' = "started" /\ job'.got = <<>>
      /\ wstep \in {"none", "exited"}
  BY DEF Starts
<1>2. Due = <<>> /\ Due' = <<>>
  BY DEF Starts, Due
<1>3. DOMAIN Due' = {} /\ ~Speaking /\ ~Speaking'
  BY <1>1, <1>2 DEF Speaking
<1>4. ChainInv'
  BY <1>2, <1>3 DEF ChainInv
<1>5. ~Open /\ ~Open' /\ pending = <<>> /\ pending' = <<>> /\ Spoken(transcript) = conversations[current]
  BY <1>1, <1>3 DEF Ordered, BubbleInv, Open
<1>6. TextInv'
  BY <1>1, <1>3, <1>5 DEF TextInv, Waiting
<1>7. Kept
  BY KeptAtStart
<1>8. \A c, k : Stored(c, k)' =>
            /\ k > 1 /\ conversations'[c][k - 1].role = "user"
            /\ conversations'[c][k - 1].text[1].job = conversations'[c][k].text[1].job
  BY <1>7, QuestionsKept DEF Ordered
<1>9. CASE \E x : Asks(x)
  <2>1. PICK x : Asks(x)
    BY <1>9
  <2> DEFINE turn == Window!Turn("user", x)
             b == Window!Bubble("user", x)
             h == conversations[current]
             T == Window!Turns
  <2>2. /\ x \in Seq(Window!Words) /\ x # <<>> /\ x[1].job = jobs + 1
        /\ transcript' = Append(transcript, b) /\ conversations' = [conversations EXCEPT ![current] = Append(@, turn)]
    BY <2>1 DEF Asks
  <2>3. turn \in T /\ turn.role = "user" /\ turn.text = x /\ b \in Bubbles /\ b.role = "user" /\ b.text = x /\ Said(x) = x
    BY <2>2, TurnTyped, BubbleTyped, SaidFacts
  <2>4. TurnOf(b) = turn
    BY <2>3 DEF TurnOf
  <2> HIDE DEF turn, b
  <2>5. conversations'[current] = Append(h, turn) /\ h \in Seq(T)
    BY <2>2, <2>3, HistoryLonger DEF WindowTypes
  <2>6. Spoken(transcript') = Append(h, turn)
    BY <1>5, <2>2, <2>3, <2>4, SpokenAppend DEF WindowTypes
  <2>7. BubbleInv'
    BY <1>1, <1>3, <1>5, <2>5, <2>6 DEF BubbleInv
  <2>8. Append(h, turn) # <<>> /\ Append(h, turn)[Len(Append(h, turn))] = turn
    <3> HIDE DEF h, T
    <3> QED BY <2>3, <2>5
  <2>9. QuestionInv'
    <3> HIDE DEF h
    <3>1. conversations'[current'] = Append(h, turn) /\ turn.role = "user" /\ turn.text[1].job = jobs'
      BY <1>1, <2>2, <2>3, <2>5 DEF h
    <3> QED BY <1>8, <2>8, <3>1 DEF QuestionInv
  <2> QED BY <1>4, <1>6, <2>7, <2>9 DEF Ordered
<1>10. CASE Wipes /\ ~Chatting'
  <2>1. transcript' = <<>> /\ conversations'[current] = <<>>
    BY <1>10 DEF Wipes, WindowTypes
  <2>2. BubbleInv'
    BY <1>1, <1>3, <1>5, <2>1, SpokenEmpty DEF BubbleInv
  <2>3. QuestionInv'
    BY <1>3, <1>8, <1>10 DEF QuestionInv, Unanswered
  <2> QED BY <1>4, <1>6, <2>2, <2>3 DEF Ordered
<1>11. CASE UNCHANGED <<transcript, conversations>> /\ ~Chatting'
  <2>1. BubbleInv'
    BY <1>1, <1>3, <1>5, <1>11 DEF BubbleInv
  <2>2. QuestionInv'
    BY <1>3, <1>8, <1>11 DEF QuestionInv, Unanswered
  <2> QED BY <1>4, <1>6, <2>1, <2>2 DEF Ordered
<1> QED BY <1>9, <1>10, <1>11

LEMMA OrderedOpen ==
  ASSUME WindowTypes, OnceInv, Ordered, OpensOne, ~asking, queue = <<>>,
         \/ /\ conversations' = Append(conversations, <<>>) /\ current' = Len(conversations) + 1
            /\ transcript' = <<>> /\ bubble' = bubble
         \/ /\ conversations' = conversations /\ current' \in DOMAIN conversations
            /\ Window!Show(Window!Loaded(conversations[current']))
  PROVE  Ordered'
<1>1. UNCHANGED <<pending, job, wstep, jobs>> /\ ~joining
  BY DEF OpensOne
<1>2. ~Worked /\ ~Worked'
  BY <1>1 DEF OnceInv, Worked
<1>3. Due = <<>> /\ Due' = <<>>
  BY DEF OpensOne, Due
<1>4. DOMAIN Due' = {} /\ ~Speaking /\ ~Speaking' /\ wstep' # "asking" /\ wstep' # "started"
  BY <1>1, <1>2, <1>3 DEF Speaking, Worked
<1>5. ChainInv'
  BY <1>3, <1>4 DEF ChainInv
<1>6. ~Open /\ bubble = 0 /\ pending = <<>> /\ pending' = <<>>
  BY <1>1, <1>4 DEF Ordered, BubbleInv, Open
<1>7. TextInv'
  BY <1>4, <1>6 DEF TextInv, Waiting
<1>8. Kept
  BY KeptAtOpen
<1>9. QuestionInv'
  <2>1. ~Unanswered'
    BY <1>2, <1>4 DEF Unanswered
  <2> QED BY <1>8, <2>1, QuestionsKept DEF Ordered, QuestionInv
<1>10. bubble' = 0 /\ Spoken(transcript') = conversations'[current']
  <2>1. CASE /\ conversations' = Append(conversations, <<>>) /\ current' = Len(conversations) + 1
             /\ transcript' = <<>> /\ bubble' = bubble
    <3> DEFINE H == Seq(Window!Turns)
               e == <<>>
    <3>1. conversations \in Seq(H) /\ e \in H
      BY DEF WindowTypes
    <3> HIDE DEF H, e
    <3>2. Append(conversations, e)[Len(conversations) + 1] = e
      BY <3>1
    <3> QED BY <1>6, <2>1, <3>2, SpokenEmpty DEF e
  <2>2. CASE /\ conversations' = conversations /\ current' \in DOMAIN conversations
             /\ Window!Show(Window!Loaded(conversations[current']))
    <3> DEFINE h == conversations[current']
    <3>1. h \in Seq(Window!Turns) /\ bubble \in Nat
      BY <2>2, Typed DEF WindowTypes
    <3> HIDE DEF h
    <3>2. Window!Loaded(h).b = 0 /\ Spoken(Window!Loaded(h).t) = h
      BY <1>6, <3>1, LoadedIs
    <3> QED BY <2>2, <3>2 DEF Window!Show, h
  <2> QED BY <2>1, <2>2
<1>11. BubbleInv'
  BY <1>4, <1>6, <1>10 DEF BubbleInv, Open
<1> QED BY <1>5, <1>7, <1>9, <1>11 DEF Ordered

LEMMA OrderedJoined ==
  ASSUME WindowTypes, Ordered, Window!Joined
  PROVE  Ordered'
<1>1. /\ UNCHANGED <<conversations, current, transcript, bubble, pending, jobs>>
      /\ Due' = Due /\ wstep = "exited" /\ wstep' = "none"
  BY JoinedDoes
<1>2. \A a : LeftAt(a) => LeftAt(a)'
  BY <1>1 DEF LeftAt
<1>3. ChainInv'
  BY <1>1, <1>2 DEF Ordered, ChainInv
<1>4. Speaking' <=> Speaking
  BY <1>1 DEF Speaking
<1>5. BubbleInv' /\ Sofar' = Sofar
  BY <1>1, <1>4 DEF Ordered, BubbleInv, Open, Sofar, Visible
<1>6. Waiting' <=> Waiting
  BY <1>1 DEF Waiting
<1>7. TextInv'
  BY <1>1, <1>5, <1>6 DEF Ordered, TextInv
<1>8. Unanswered' => Unanswered
  BY <1>1 DEF Unanswered, Worked
<1>9. QuestionInv'
  BY <1>1, <1>8 DEF Ordered, QuestionInv, Stored
<1> QED BY <1>3, <1>5, <1>7, <1>9 DEF Ordered

LEMMA OrderedDrain ==
  ASSUME WindowTypes, Ordered, Window!Drain
  PROVE  Ordered'
<1>1. UNCHANGED <<conversations, current, transcript, bubble, pending, flushDue, job, wstep, jobs>> /\ Due' = Due
  BY DrainDue DEF Window!Drain, Window!ui
<1>2. ChainInv' /\ (Speaking' <=> Speaking)
  BY <1>1 DEF Ordered, ChainInv, LeftAt, Chatting, Speaking
<1>3. BubbleInv' /\ Sofar' = Sofar
  BY <1>1, <1>2 DEF Ordered, BubbleInv, Open, Sofar, Visible
<1>4. TextInv'
  BY <1>1, <1>3 DEF Ordered, TextInv, Waiting, Chatting
<1>5. QuestionInv'
  BY <1>1 DEF Ordered, QuestionInv, Stored, Unanswered, Chatting, Worked
<1> QED BY <1>2, <1>3, <1>4, <1>5 DEF Ordered

-----------------------------------------------------------------------------
(* A transcript with the bubble of an answer: above it the history h, in   *)
(* it the words y, below it lines of the system.                           *)
AtBubble(v, h, y) ==
  /\ v \in Views /\ v.b \in DOMAIN v.t /\ v.t[v.b].role = "assistant"
  /\ \A i \in DOMAIN v.t : i > v.b => v.t[i].role = "system"
  /\ Spoken(SubSeq(v.t, 1, v.b - 1)) = h /\ Said(v.t[v.b].text) = y

LEMMA ViewIs ==
  ASSUME WindowTypes
  PROVE  /\ Window!View \in Views /\ Window!View.t = transcript /\ Window!View.b = bubble
         /\ pending \in Seq(AllPieces) /\ Said(pending) = pending
BY SaidFacts DEF WindowTypes, Window!View, Views

LEMMA BubbleOfView ==
  ASSUME NEW v \in Views, v.b \in DOMAIN v.t
  PROVE  /\ v.t \in Seq(Bubbles) /\ v.b \in Nat /\ v.b # 0 /\ v.b \in 1..Len(v.t) /\ Len(v.t) \in Nat /\ DOMAIN v.t = 1..Len(v.t)
         /\ v.t[v.b] \in Bubbles /\ v.t[v.b].text \in Seq(AllPieces)
<1> DEFINE B == Bubbles
           t == v.t
           b == v.b
<1>1. t \in Seq(B) /\ b \in DOMAIN t
  BY DEF Views
<1>2. \A c \in B : c.text \in Seq(AllPieces)
  BY DEF Bubbles
<1> HIDE DEF B, t, b
<1>3. t \in Seq(B) /\ b \in Nat /\ b # 0 /\ b \in 1..Len(t) /\ Len(t) \in Nat /\ DOMAIN t = 1..Len(t) /\ t[b] \in B
  BY <1>1
<1> QED BY <1>2, <1>3 DEF B, t, b

LEMMA AtStart ==
  ASSUME WindowTypes, BubbleInv, Open
  PROVE  AtBubble(Window!View, conversations[current], Visible)
BY ViewIs DEF AtBubble, BubbleInv, Visible

LEMMA AtPrefix ==
  ASSUME NEW v \in Views
  PROVE  AtBubble(Window!append_assistant_prefix(v), Spoken(v.t), <<>>)
<1> DEFINE B == Bubbles
           e == <<>>
           c == Window!Bubble("assistant", e)
           n == Len(v.t)
           t == Append(v.t, c)
           w == Window!append_assistant_prefix(v)
<1>1. w \in Views
  <2>1. <<>> \in Seq(AllPieces)
    OBVIOUS
  <2> QED BY <2>1, ViewsKept
<1>2. w.t = t /\ w.b = n + 1
  BY DEF Window!append_assistant_prefix
<1>3. c \in B /\ c.role = "assistant" /\ c.text = e
  <2>1. e \in Seq(AllPieces)
    OBVIOUS
  <2> HIDE DEF e
  <2> QED BY <2>1, BubbleTyped
<1>4. v.t \in Seq(B)
  BY DEF Views
<1>5. Said(e) = e
  BY SiftedEmpty DEF Said
<1> HIDE DEF B, c, e, w
<1>6. /\ n \in Nat /\ DOMAIN t = 1..(n + 1) /\ t[n + 1] = c /\ \A i \in 1..n : t[i] = v.t[i] /\ v.t[i] \in B
      /\ \A i \in DOMAIN t : ~(i > n + 1)
  BY <1>3, <1>4
<1>7. SubSeq(t, 1, n) = v.t
  <2> DEFINE s == SubSeq(t, 1, n)
             u == v.t
  <2>1. s \in Seq(B) /\ Len(s) = n /\ \A i \in 1..n : s[i] = t[i]
    <3> HIDE DEF t
    <3> QED BY <1>6
  <2> HIDE DEF s
  <2>2. \A i \in 1..Len(s) : s[i] = u[i]
    BY <1>6, <2>1
  <2>3. s = u
    BY <1>4, <2>1, <2>2, SeqEqual
  <2> QED BY <2>3 DEF s
<1>8. (n + 1) - 1 = n /\ n + 1 \in 1..(n + 1)
  BY <1>6
<1> HIDE DEF n, t
<1> QED BY <1>1, <1>2, <1>3, <1>5, <1>6, <1>7, <1>8 DEF AtBubble, e, w

LEMMA AtDelta ==
  ASSUME NEW v, NEW h, NEW y, AtBubble(v, h, y), NEW x \in Seq(AllPieces)
  PROVE  AtBubble(Window!append_assistant_delta(v, x), h, y \o Said(x)) /\ Window!append_assistant_delta(v, x).b = v.b
<1> DEFINE w == Window!append_assistant_delta(v, x)
<1>1. v \in Views /\ v.b \in DOMAIN v.t
  BY DEF AtBubble
<1>2. /\ w.b = v.b /\ DOMAIN w.t = DOMAIN v.t
      /\ w.t[v.b].role = v.t[v.b].role /\ w.t[v.b].text = v.t[v.b].text \o x
      /\ \A i \in DOMAIN v.t : i # v.b => w.t[i] = v.t[i]
      /\ SubSeq(w.t, 1, v.b - 1) = SubSeq(v.t, 1, v.b - 1)
  BY <1>1, DeltaAppends
<1>3. w \in Views
  BY <1>1, DeltaKept
<1>4. Said(v.t[v.b].text \o x) = Said(v.t[v.b].text) \o Said(x)
  BY <1>1, BubbleOfView, SaidFacts
<1>5. \A i \in DOMAIN v.t : i > v.b => i # v.b
  BY <1>1, BubbleOfView
<1> HIDE DEF w
<1> QED BY <1>1, <1>2, <1>3, <1>4, <1>5 DEF AtBubble, w

LEMMA AtLine ==
  ASSUME NEW v, NEW h, NEW y, AtBubble(v, h, y), NEW x \in Seq(AllPieces)
  PROVE  AtBubble(Window!append_status_line(v, x), h, y) /\ Window!append_status_line(v, x).b = v.b
<1> DEFINE B == Bubbles
           c == Window!Bubble("system", x)
           b == v.b
           s == v.t
           n == Len(s)
           t == Append(s, c)
           w == Window!append_status_line(v, x)
<1>1. v \in Views /\ b \in DOMAIN s
  BY DEF AtBubble
<1>2. w \in Views
  BY <1>1, ViewsKept
<1>3. w.t = t /\ w.b = b
  BY <1>1 DEF Window!append_status_line, Views
<1>4. c \in B /\ c.role = "system"
  BY BubbleTyped
<1>5. s \in Seq(B) /\ b \in 1..n /\ n \in Nat
  BY <1>1, BubbleOfView
<1> HIDE DEF B, c, w
<1>6. /\ DOMAIN t = 1..(n + 1) /\ t[n + 1] = c /\ \A i \in 1..n : t[i] = s[i]
      /\ \A i \in 1..(n + 1) : i \in 1..n \/ i = n + 1
  BY <1>4, <1>5
<1>7. SubSeq(t, 1, b - 1) = SubSeq(s, 1, b - 1)
  <2> DEFINE p == SubSeq(t, 1, b - 1)
             q == SubSeq(s, 1, b - 1)
  <2>1. b - 1 \in Nat /\ \A i \in 1..(b - 1) : i \in 1..n /\ t[i] = s[i] /\ t[i] \in B /\ s[i] \in B
    BY <1>5, <1>6
  <2> HIDE DEF t
  <2>2. /\ p \in Seq(B) /\ Len(p) = b - 1 /\ \A i \in 1..(b - 1) : p[i] = t[i]
        /\ q \in Seq(B) /\ Len(q) = b - 1 /\ \A i \in 1..(b - 1) : q[i] = s[i]
    BY <2>1
  <2> HIDE DEF p, q
  <2>3. \A i \in 1..Len(p) : p[i] = q[i]
    BY <2>1, <2>2
  <2>4. p = q
    BY <2>2, <2>3, SeqEqual
  <2> QED BY <2>4 DEF p, q
<1>8. /\ s[b].role = "assistant" /\ Said(s[b].text) = y /\ Spoken(SubSeq(s, 1, b - 1)) = h
      /\ \A i \in 1..n : i > b => s[i].role = "system"
  BY <1>1, <1>5, BubbleOfView DEF AtBubble
<1>9. b \in DOMAIN t
  BY <1>5, <1>6
<1> HIDE DEF b, s, n, t
<1>10. /\ w.b \in DOMAIN w.t /\ w.t[w.b].role = "assistant"
       /\ \A i \in DOMAIN w.t : i > w.b => w.t[i].role = "system"
       /\ Spoken(SubSeq(w.t, 1, w.b - 1)) = h /\ Said(w.t[w.b].text) = y
  BY <1>3, <1>4, <1>5, <1>6, <1>7, <1>8, <1>9
<1> QED BY <1>2, <1>3, <1>10 DEF AtBubble, w, b

LEMMA AtEnd ==
  ASSUME NEW v, NEW h, NEW y, AtBubble(v, h, y)
  PROVE  Spoken(v.t) = IF y = <<>> THEN h ELSE Append(h, Window!Turn("assistant", y))
<1> DEFINE t == v.t
           b == v.b
<1>1. /\ t \in Seq(Bubbles) /\ b \in DOMAIN t /\ t[b].role = "assistant"
      /\ \A i \in DOMAIN t : i > b => t[i].role = "system"
      /\ Spoken(SubSeq(t, 1, b - 1)) = h /\ Said(t[b].text) = y
  BY BubbleOfView DEF AtBubble
<1> HIDE DEF t, b
<1> QED BY <1>1, SpokenAt DEF t

\* A transcript that is shown, while the answer goes on.
LEMMA AtShown ==
  ASSUME NEW v, NEW y, AtBubble(v, conversations[current], y), Window!Show(v), Speaking',
         UNCHANGED <<conversations, current>>
  PROVE  BubbleInv' /\ Visible' = y
<1>1. transcript' = v.t /\ bubble' = v.b /\ v.b # 0
  BY BubbleOfView DEF Window!Show, AtBubble
<1>2. Open'
  BY <1>1 DEF Open
<1> QED BY <1>1, <1>2 DEF AtBubble, BubbleInv, Visible

LEMMA OrderedFlush ==
  ASSUME WindowTypes, Ordered, Window!Flush
  PROVE  Ordered'
<1>1. /\ UNCHANGED <<conversations, current, job, wstep, jobs>>
      /\ Due' = Due /\ pending' = <<>>
      /\ Window!Show(Window!flush_assistant_delta(Window!View))
  BY FlushDoes
<1>2. ChainInv' /\ (Speaking' <=> Speaking) /\ BubbleInv
  BY <1>1 DEF Ordered, ChainInv, LeftAt, Chatting, Speaking
<1>3. BubbleInv' /\ Sofar' = Sofar
  <2>1. CASE pending = <<>>
    <3>1. transcript' = transcript /\ bubble' = bubble /\ pending' = pending
      BY <1>1, <2>1, ViewIs DEF Window!flush_assistant_delta, Window!Show
    <3> QED BY <1>1, <1>2, <3>1 DEF BubbleInv, Open, Sofar, Visible
  <2>2. CASE pending # <<>>
    <3> DEFINE v == Window!append_assistant_delta(Window!View, pending)
    <3>1. Open /\ Window!Show(v)
      BY <1>1, <1>2, <2>2 DEF BubbleInv, Window!flush_assistant_delta
    <3>2. AtBubble(Window!View, conversations[current], Visible)
      BY <1>2, <3>1, AtStart
    <3>3. AtBubble(v, conversations[current], Visible \o pending)
      BY <3>2, ViewIs, AtDelta
    <3> HIDE DEF v
    <3>4. BubbleInv' /\ Visible' = Visible \o pending
      BY <1>1, <1>2, <3>1, <3>3, AtShown DEF BubbleInv
    <3> DEFINE W == Window!Words
               h == Visible
               p == pending
               d == Coming(Due)
    <3>5. h \in Seq(W) /\ p \in Seq(W) /\ d \in Seq(W)
      BY <1>2, SofarTyped
    <3>6. Sofar' = (h \o p) \o (<<>> \o d) /\ Sofar = h \o (p \o d)
      BY <1>1, <3>4 DEF Sofar
    <3> HIDE DEF W, h, p, d
    <3>7. <<>> \o d = d /\ (h \o p) \o d = h \o (p \o d)
      BY <3>5, ConcatAssociative, ConcatEmptySeq
    <3> QED BY <3>4, <3>6, <3>7
  <2> QED BY <2>1, <2>2
<1>4. Waiting' => Waiting
  BY <1>1 DEF Waiting
<1>5. TextInv'
  BY <1>1, <1>3, <1>4 DEF Ordered, TextInv, Chatting
<1>6. QuestionInv'
  BY <1>1 DEF Ordered, QuestionInv, Stored, Unanswered, Chatting, Worked
<1> QED BY <1>2, <1>3, <1>5, <1>6 DEF Ordered

-----------------------------------------------------------------------------
(* The closures, while no requests overlap.                                *)
LEMMA JoinsVisible ==
  ASSUME NEW W, NEW h \in Seq(W), NEW q \in Seq(W), NEW d \in Seq(W)
  PROVE  h \o (<<>> \o (q \o d)) = (h \o q) \o (<<>> \o d)
<1>1. (h \o q) \o d = h \o (q \o d)
  BY ConcatAssociative, SMTT(30)
<1>2. q \o d \in Seq(W)
  BY ConcatProperties
<1>3. \A x \in Seq(W) : <<>> \o x = x
  BY ConcatEmptySeq
<1> QED BY <1>1, <1>2, <1>3

LEMMA JoinsNothing ==
  ASSUME NEW W, NEW h \in Seq(W), NEW p \in Seq(W), NEW d \in Seq(W)
  PROVE  h \o (p \o (<<>> \o d)) = h \o (p \o d) /\ h \o <<>> = h
<1>1. \A x \in Seq(W) : <<>> \o x = x /\ x \o <<>> = x
  BY ConcatEmptySeq
<1> QED BY <1>1

LEMMA RunSofar ==
  ASSUME WindowTypes, BubbleInv, Window!RunClosure
  PROVE  /\ Due[1] \in Closures /\ Due # <<>> /\ Window!Closure(Due[1])
         /\ UNCHANGED <<current, job, wstep, jobs>>
         /\ Visible \in Seq(Window!Words) /\ pending \in Seq(Window!Words)
         /\ Part(Due[1]) \in Seq(Window!Words) /\ Coming(Due') \in Seq(Window!Words)
         /\ Sofar = Visible \o (pending \o (Part(Due[1]) \o Coming(Due')))
         /\ Coming(Due)' = Coming(Due')
<1> DEFINE c == Due[1]
<1>1. /\ c \in Closures /\ Due # <<>> /\ Window!Closure(c) /\ UNCHANGED <<current, job, wstep, jobs>>
      /\ Due' \in Seq(Closures) /\ Due = <<c>> \o Due'
  BY RunDoes
<1> HIDE DEF c
<1>2. Coming(<<c>> \o Due') = Part(c) \o Coming(Due')
  BY <1>1, ComingFirst
<1>3. Coming(Due) = Part(c) \o Coming(Due')
  BY <1>1, <1>2
<1>4. Coming(Due') \in Seq(Window!Words) /\ Part(c) \in Seq(Window!Words)
  BY <1>1, ComingLast, PartTyped
<1>5. Visible \in Seq(Window!Words) /\ pending \in Seq(Window!Words)
  BY SofarTyped
<1>6. Coming(Due)' = Coming(Due')
  OBVIOUS
<1> QED BY <1>1, <1>3, <1>4, <1>5, <1>6 DEF Sofar, c

\* A closure that is not the last of a request: the answer goes on.
LEMMA RunGoing ==
  ASSUME WindowTypes, Ordered, Window!RunClosure, Due[1].what \in Goes
  PROVE  BubbleInv' /\ Sofar' = Sofar /\ (pending' # <<>> => pending # <<>> \/ Due[1].what = "delta")
<1> DEFINE c == Due[1]
           W == Window!Words
           h == Visible
           p == pending
           q == Part(c)
           d == Coming(Due')
           v == Window!View
<1>1. /\ c \in Closures /\ Due # <<>> /\ Window!Closure(c)
      /\ UNCHANGED <<current, job, wstep, jobs>>
      /\ h \in Seq(W) /\ p \in Seq(W) /\ q \in Seq(W) /\ d \in Seq(W)
      /\ Sofar = h \o (p \o (q \o d)) /\ Coming(Due)' = d /\ BubbleInv
  BY RunSofar DEF Ordered
<1>2. Speaking'
  BY ChainRun DEF Ordered
<1>3. Sofar' = Visible' \o (pending' \o d)
  BY <1>1 DEF Sofar
<1>4. /\ h \o (p \o (q \o d)) = h \o ((p \o q) \o d)
      /\ p = <<>> => h \o (p \o (q \o d)) = (h \o q) \o (p \o d)
      /\ q = <<>> => h \o (p \o (q \o d)) = h \o (p \o d) /\ h \o q = h
  <2>1. h \in Seq(W) /\ p \in Seq(W) /\ q \in Seq(W) /\ d \in Seq(W)
    BY <1>1
  <2> HIDE DEF W, h, p, q, d
  <2>2. h \o (p \o (q \o d)) = h \o ((p \o q) \o d)
    <3>1. p \o (q \o d) = (p \o q) \o d
      BY <2>1, ConcatAssociative, SMTT(30)
    <3> QED BY <3>1
  <2>3. h \o (<<>> \o (q \o d)) = (h \o q) \o (<<>> \o d)
    BY <2>1, JoinsVisible, SMTT(30)
  <2>4. h \o (p \o (<<>> \o d)) = h \o (p \o d) /\ h \o <<>> = h
    BY <2>1, JoinsNothing
  <2> QED BY <2>2, <2>3, <2>4
<1>5. v \in Views /\ v.t = transcript /\ v.b = bubble
  BY ViewIs
<1>6. c.text \in Seq(AllPieces)
  BY <1>1, ClosureTyped
<1>7. CASE c.what = "prefix"
  <2>1. Window!Show(Window!append_assistant_prefix(v)) /\ pending' = p /\ conversations' = conversations
    BY <1>1, <1>7, ClosureIs DEF Window!Quietly
  <2>2. ~Open /\ p = <<>> /\ Spoken(transcript) = conversations[current]
    <3>1. ~Speaking
      BY <1>1, <1>7 DEF Speaking, Events, Endings
    <3> QED BY <1>1, <3>1 DEF BubbleInv
  <2>3. AtBubble(Window!append_assistant_prefix(v), conversations[current], <<>>)
    <3>1. AtBubble(Window!append_assistant_prefix(v), Spoken(v.t), <<>>)
      BY <1>5, AtPrefix
    <3> QED BY <1>5, <2>2, <3>1
  <2>4. BubbleInv' /\ Visible' = <<>>
    BY <1>1, <1>2, <2>1, <2>3, AtShown
  <2>5. q = <<>> /\ h = <<>>
    BY <1>7, <2>2 DEF Part, Visible
  <2> HIDE DEF c, h, p, q, d
  <2>6. Sofar' = Sofar
    BY <1>1, <1>3, <1>4, <2>1, <2>4, <2>5
  <2> QED BY <2>1, <2>4, <2>6 DEF p
<1>8. CASE c.what \in Events
  <2>1. Open
    <3>1. Speaking
      BY <1>1, <1>8 DEF Speaking
    <3> QED BY <1>1, <3>1 DEF BubbleInv
  <2>2. AtBubble(v, conversations[current], h)
    BY <1>1, <2>1, AtStart
  <2>3. CASE c.what = "delta"
    <3>1. Window!Show(v) /\ pending' = p \o q /\ conversations' = conversations
      <4>1. Window!Prefixed(v) = v
        BY <1>5, <2>1 DEF Window!Prefixed, Open
      <4>2. Window!Deferred(c)
        BY <1>1, <2>3, ClosureIs
      <4> QED BY <2>3, <4>1, <4>2 DEF Window!Deferred, Window!Quietly, Part
    <3>2. BubbleInv' /\ Visible' = h
      BY <1>1, <1>2, <2>2, <3>1, AtShown
    <3> HIDE DEF c, h, p, q, d
    <3>3. Sofar' = Sofar
      BY <1>1, <1>3, <1>4, <3>1, <3>2
    <3> QED BY <2>3, <3>2, <3>3 DEF c
  <2>4. CASE c.what \in {"thought", "answer"}
    <3> DEFINE w == Window!append_assistant_delta(v, c.text)
    <3>1. Window!Show(w) /\ pending' = p /\ conversations' = conversations
      BY <1>1, <2>4, ClosureIs DEF Window!Quietly
    <3>2. AtBubble(w, conversations[current], h \o Said(c.text))
      BY <1>6, <2>2, AtDelta
    <3>3. Said(c.text) = q
      BY <1>1, <2>4, ClosureTyped, SaidFacts DEF Part
    <3> HIDE DEF w
    <3>4. BubbleInv' /\ Visible' = h \o q
      BY <1>1, <1>2, <3>1, <3>2, <3>3, AtShown
    <3>5. c.what = "answer" => p = <<>>
      <4>1. 1 \in DOMAIN Due
        BY <1>1, Typed
      <4> QED BY <4>1 DEF Ordered, TextInv, Waiting
    <3>6. c.what = "thought" => q = <<>>
      BY DEF Part
    <3> HIDE DEF c, h, p, q, d
    <3>7. Sofar' = Sofar
      BY <1>1, <1>3, <1>4, <2>4, <3>1, <3>4, <3>5, <3>6
    <3> QED BY <3>1, <3>4, <3>7 DEF p
  <2>5. CASE c.what \in {"tool", "garbled"}
    <3> DEFINE w == Window!append_status_line(v, c.text)
    <3>1. Window!Show(w) /\ pending' = p /\ conversations' = conversations
      BY <1>1, <2>5, ClosureIs DEF Window!Quietly
    <3>2. AtBubble(w, conversations[current], h)
      BY <1>6, <2>2, AtLine
    <3> HIDE DEF w
    <3>3. BubbleInv' /\ Visible' = h
      BY <1>1, <1>2, <3>1, <3>2, AtShown
    <3>4. q = <<>>
      BY <2>5 DEF Part
    <3> HIDE DEF c, h, p, q, d
    <3>5. Sofar' = Sofar
      BY <1>1, <1>3, <1>4, <3>1, <3>3, <3>4
    <3> QED BY <3>1, <3>3, <3>5 DEF p
  <2> QED BY <1>8, <2>3, <2>4, <2>5 DEF Events
<1> QED BY <1>7, <1>8 DEF Goes

\* The apology is a bubble of the assistant in which nothing is said.
LEMMA ApologisedIs ==
  ASSUME NEW v, NEW h, AtBubble(v, h, <<>>), NEW c \in Closures
  PROVE  Spoken(Window!Apologised(v, c).t) = h
<1> DEFINE x == Window!Apology(c.n)
           w == Window!append_assistant_delta(v, x)
           u == Window!append_status_line(w, x)
<1>1. x \in Seq(AllPieces) /\ Said(x) = <<>>
  <2>1. x \in Seq(Unsaid)
    BY ClosureTyped, PieceTyped
  <2> QED BY <2>1, SaidFacts
<1>2. AtBubble(w, h, <<>>)
  <2>1. AtBubble(w, h, <<>> \o Said(x))
    BY <1>1, AtDelta
  <2>2. <<>> \o Said(x) = <<>>
    BY <1>1
  <2> QED BY <2>1, <2>2
<1>3. AtBubble(u, h, <<>>)
  BY <1>1, <1>2, AtLine
<1>4. Window!Apologised(v, c) = IF c.ok THEN w ELSE u
  BY DEF Window!Apologised
<1> HIDE DEF w, u
<1>5. Spoken(w.t) = h /\ Spoken(u.t) = h
  BY <1>2, <1>3, AtEnd
<1> QED BY <1>4, <1>5

\* What is shown and waits, when the closure that ends the request is run.
LEMMA EndSofar ==
  ASSUME WindowTypes, Ordered, Window!RunClosure, Due[1].what \in Endings
  PROVE  /\ Visible \o pending = IF Due[1].what = "streamed" THEN Due[1].text ELSE <<>>
         /\ Visible \in Seq(Window!Words) /\ pending \in Seq(Window!Words)
<1> DEFINE c == Due[1]
           W == Window!Words
           h == Visible
           p == pending
           d == Coming(Due')
           e == <<>>
<1>1. /\ c \in Closures /\ Due # <<>> /\ h \in Seq(W) /\ p \in Seq(W)
      /\ Sofar = h \o (p \o (Part(c) \o d))
  BY RunSofar DEF Ordered
<1>2. Part(c) = <<>> /\ c.what \notin Goes
  BY DEF Endings, Part, Goes, Events
<1>3. d = <<>>
  <2>1. /\ Due' \in Seq(Closures) /\ Len(Due) = Len(Due') + 1 /\ Len(Due') \in Nat /\ DOMAIN Due' = 1..Len(Due')
        /\ (Due' = <<>> <=> Len(Due') = 0)
        /\ \A i \in DOMAIN Due' : i + 1 \in DOMAIN Due
    BY RunDoes
  <2>2. CASE Due' = <<>>
    BY <2>2, ComingNothing
  <2>3. CASE Due' # <<>>
    <3>1. 1 \in DOMAIN Due' /\ 1 \in DOMAIN Due /\ 1 + 1 \in DOMAIN Due
      BY <1>1, <2>1, <2>3, Typed
    <3>2. 1 + 1 = Len(Due)
      BY <1>2, <3>1, ChainEnds DEF Ordered
    <3>3. Len(Due') = 1 /\ Due'[1].what = "idle"
      BY <1>2, <2>1, <3>1, <3>2, ChainRun DEF Ordered
    <3> DEFINE C == Closures
               q == Due'
               x == q[1]
               o == <<x>>
    <3>4. q \in Seq(C) /\ Len(q) = 1 /\ x.what = "idle"
      BY <2>1, <3>3
    <3>5. \A y \in C : Coming(<<y>> \o <<>>) = Part(y) \o Coming(<<>>)
      <4>1. <<>> \in Seq(C)
        OBVIOUS
      <4> QED BY <4>1, ComingFirst
    <3> HIDE DEF C, q
    <3>6. x \in C /\ q = <<x>> \o <<>>
      <4>1. x \in C
        <5>1. 1 \in 1..Len(q)
          BY <3>4
        <5> QED BY <3>4, <5>1, ElementOfSeq
      <4>2. o \in Seq(C) /\ Len(o) = 1 /\ o[1] = x /\ o \o <<>> = o
        BY <4>1, ConcatEmptySeq
      <4>3. \A i \in 1..Len(q) : q[i] = o[i]
        BY <3>4, <4>2
      <4> HIDE DEF o
      <4>4. q = o
        BY <3>4, <4>2, <4>3, SeqEqual
      <4> QED BY <4>1, <4>2, <4>4 DEF o
    <3> HIDE DEF x
    <3>7. Coming(q) = Part(x) \o Coming(<<>>)
      BY <3>5, <3>6
    <3>8. Part(x) = <<>>
      BY <3>4 DEF Part
    <3> QED BY <3>7, <3>8, ComingNothing DEF q
  <2> QED BY <2>2, <2>3
<1> HIDE DEF h, p, d
<1>4. Sofar = h \o p
  <2>1. <<>> \o <<>> = <<>> /\ p \o <<>> = p
    BY <1>1, ConcatEmptySeq
  <2> QED BY <1>1, <1>2, <1>3, <2>1
<1>5. 1 \in DOMAIN Due
  BY <1>1, Typed
<1>6. c.what = "streamed" => Sofar = c.text
  BY <1>5 DEF Ordered, TextInv
<1>7. c.what = "answered" => Sofar = <<>>
  BY <1>5 DEF Ordered, TextInv
<1>8. c.what = "streamed" \/ c.what = "answered"
  BY DEF Endings
<1> QED BY <1>1, <1>4, <1>6, <1>7, <1>8 DEF h, p

\* What a request ends with is what is then spoken.
LEMMA RunEnding ==
  ASSUME WindowTypes, Ordered, Window!RunClosure, Due[1].what \in Endings
  PROVE  BubbleInv' /\ pending' = <<>>
<1> DEFINE c == Due[1]
           W == Window!Words
           h == Visible
           p == pending
           H == conversations[current]
           v == Window!View
           turn == Window!Turn("assistant", c.text)
<1>1. /\ c \in Closures /\ Due # <<>> /\ Window!Closure(c) /\ UNCHANGED <<current, job, wstep, jobs>> /\ BubbleInv
      /\ c.text \in Seq(W) /\ c.text \in Seq(AllPieces)
  <2>1. /\ c \in Closures /\ Due # <<>> /\ Window!Closure(c) /\ UNCHANGED <<current, job, wstep, jobs>> /\ BubbleInv
    BY RunSofar DEF Ordered
  <2>2. c.what \notin {"prefix", "thought"}
    BY DEF Endings
  <2> QED BY <2>1, <2>2, ClosureTyped
<1>2. /\ h \o p = IF c.what = "streamed" THEN c.text ELSE <<>>
      /\ h \in Seq(W) /\ p \in Seq(W)
  BY EndSofar
<1>3. ~Speaking'
  <2>1. c.what \notin Goes
    BY DEF Endings, Goes, Events
  <2> QED BY <2>1, ChainRun DEF Ordered
<1>4. Open
  <2>1. Speaking
    BY <1>1 DEF Speaking
  <2> QED BY <1>1, <2>1 DEF BubbleInv
<1>5. AtBubble(v, H, h)
  BY <1>1, <1>4, AtStart
<1>6. c.text # <<>> => [conversations EXCEPT ![current] = Append(@, turn)][current] = Append(H, turn)
  BY <1>1, TurnTyped, HistoryLonger DEF WindowTypes
<1>7. CASE c.what = "streamed"
  <2> DEFINE u == Window!flush_assistant_delta(v)
  <2>1. /\ pending' = <<>> /\ bubble' = 0
        /\ IF c.text # <<>> THEN conversations' = [conversations EXCEPT ![current] = Append(@, turn)] /\ transcript' = u.t
           ELSE transcript' = Window!Apologised(u, c).t /\ conversations' = conversations
    BY <1>1, <1>7, ClosureIs DEF Window!Streamed
  <2>2. AtBubble(u, H, c.text)
    <3>1. CASE p = <<>>
      <4>1. u = v /\ h = c.text
        <5>1. h \o <<>> = h
          BY <1>2, ConcatEmptySeq
        <5>2. h \o p = c.text
          BY <1>2, <1>7
        <5> HIDE DEF h
        <5> QED BY <3>1, <5>1, <5>2 DEF Window!flush_assistant_delta
      <4> QED BY <1>5, <4>1
    <3>2. CASE p # <<>>
      <4>1. u = Window!append_assistant_delta(v, p)
        BY <3>2 DEF Window!flush_assistant_delta
      <4>2. AtBubble(Window!append_assistant_delta(v, p), H, h \o p)
        <5>1. p \in Seq(AllPieces) /\ Said(p) = p
          BY ViewIs
        <5> HIDE DEF h, v, H, p
        <5>2. AtBubble(Window!append_assistant_delta(v, p), H, h \o Said(p))
          BY <1>5, <5>1, AtDelta
        <5> QED BY <5>1, <5>2
      <4> HIDE DEF u
      <4> QED BY <1>2, <1>7, <4>1, <4>2
    <3> QED BY <3>1, <3>2
  <2> HIDE DEF u
  <2>3. CASE c.text # <<>>
    <3>1. Spoken(u.t) = Append(H, turn)
      BY <2>2, <2>3, AtEnd
    <3>2. Spoken(transcript') = conversations'[current']
      <4> HIDE DEF turn
      <4> QED BY <1>1, <1>6, <2>1, <2>3, <3>1
    <3> QED BY <1>3, <2>1, <3>2 DEF BubbleInv, Open
  <2>4. CASE c.text = <<>>
    <3>1. Spoken(transcript') = H
      BY <1>1, <2>1, <2>2, <2>4, ApologisedIs
    <3> QED BY <1>1, <1>3, <2>1, <2>4, <3>1 DEF BubbleInv, Open
  <2> QED BY <2>3, <2>4
<1>8. CASE c.what = "answered"
  <2> DEFINE u == Window!append_assistant_delta(v, c.text)
  <2>1. h = <<>> /\ p = <<>>
    <3>1. h \o p = <<>>
      BY <1>2, <1>8
    <3> HIDE DEF h, p, W
    <3> QED BY <1>2, <3>1
  <2>2. /\ pending' = <<>> /\ bubble' = 0
        /\ transcript' = IF c.text # <<>> THEN u.t ELSE Window!Apologised(v, c).t
        /\ conversations' = IF c.text # <<>> THEN [conversations EXCEPT ![current] = Append(@, turn)] ELSE conversations
    BY <1>1, <1>8, <2>1, ClosureIs DEF Window!Answered
  <2>3. CASE c.text # <<>>
    <3>1. AtBubble(u, H, c.text)
      <4>1. AtBubble(u, H, h \o Said(c.text))
        BY <1>1, <1>5, AtDelta
      <4>2. Said(c.text) = c.text
        BY <1>1, SaidFacts
      <4>3. <<>> \o c.text = c.text
        BY <1>1, ConcatEmptySeq
      <4> HIDE DEF h, u
      <4> QED BY <2>1, <4>1, <4>2, <4>3
    <3> HIDE DEF u
    <3>2. Spoken(u.t) = Append(H, turn)
      BY <2>3, <3>1, AtEnd
    <3>3. Spoken(transcript') = conversations'[current']
      <4> HIDE DEF turn
      <4> QED BY <1>1, <1>6, <2>2, <2>3, <3>2
    <3> QED BY <1>3, <2>2, <3>3 DEF BubbleInv, Open
  <2>4. CASE c.text = <<>>
    <3>1. Spoken(transcript') = H
      BY <1>1, <1>5, <2>1, <2>2, <2>4, ApologisedIs
    <3> QED BY <1>1, <1>3, <2>2, <2>4, <3>1 DEF BubbleInv, Open
  <2> QED BY <2>3, <2>4
<1> QED BY <1>7, <1>8 DEF Endings

\* The answer is stored behind its question.
LEMMA EndQuestion ==
  ASSUME WindowTypes, OnceInv, Ordered, Window!RunClosure, Due[1].what \in Endings
  PROVE  QuestionInv'
<1> DEFINE c == Due[1]
           H == conversations[current]
           m == Len(H)
           turn == Window!Turn("assistant", c.text)
           T == Window!Turns
<1>1. /\ c \in Closures /\ Due # <<>> /\ Window!Closure(c) /\ UNCHANGED <<current, job, wstep, jobs>> /\ 1 \in DOMAIN Due
  BY RunSofar, Typed DEF Ordered
<1>2. ~Unanswered'
  <2>1. c.what \notin Goes
    BY DEF Endings, Goes, Events
  <2>2. wstep # "asking" /\ wstep # "started" /\ \A i \in DOMAIN Due' : Due'[i].what = "idle"
    BY <2>1, ChainRun DEF Ordered
  <2>3. "idle" \notin {"prefix"} \cup Events \cup Endings
    BY DEF Events, Endings
  <2> QED BY <1>1, <2>2, <2>3 DEF Unanswered, Worked
<1>3. \A d, k : Stored(d, k) =>
        /\ k > 1 /\ conversations[d][k - 1].role = "user"
        /\ conversations[d][k - 1].text[1].job = conversations[d][k].text[1].job
  BY DEF Ordered, QuestionInv
<1>4. conversations' = IF c.text # <<>> THEN [conversations EXCEPT ![current] = Append(@, turn)] ELSE conversations
  BY <1>1, EndDoes DEF OnceInv
<1>5. CASE c.text = <<>>
  BY <1>2, <1>3, <1>4, <1>5 DEF QuestionInv, Stored
<1>6. CASE c.text # <<>>
  <2>1. c.text \in Seq(Window!Words)
    BY <1>1, ClosureTyped DEF Endings
  <2>2. turn \in T /\ turn.text = c.text /\ turn.role = "assistant"
    BY <1>6, <2>1, TurnTyped
  <2>3. c.text[1].job = jobs
    <3>1. OfJob(c.text, c.n) /\ c.n = jobs
      BY <1>1 DEF OnceInv, Ordered, ChainInv
    <3> DEFINE x == c.text
               W == Window!Words
    <3>2. x \in Seq(W) /\ x # <<>>
      BY <1>6, <2>1
    <3> HIDE DEF x, W
    <3>3. 1 \in DOMAIN x
      BY <3>2
    <3> QED BY <3>1, <3>3 DEF OfJob, x
  <2>4. H # <<>> /\ H[m].role = "user" /\ H[m].text[1].job = jobs
    <3>1. Unanswered
      BY <1>1 DEF Unanswered
    <3> QED BY <3>1 DEF Ordered, QuestionInv
  <2> HIDE DEF turn
  <2>5. /\ DOMAIN conversations' = DOMAIN conversations /\ H \in Seq(T)
        /\ conversations'[current] = Append(H, turn) /\ current \in DOMAIN conversations
        /\ \A d \in DOMAIN conversations : d # current => conversations'[d] = conversations[d]
    BY <1>4, <1>6, <2>2, HistoryLonger DEF WindowTypes
  <2>6. /\ m \in Nat /\ m + 1 > 1 /\ (m + 1) - 1 = m /\ DOMAIN H = 1..m /\ m \in DOMAIN H
        /\ DOMAIN Append(H, turn) = 1..(m + 1) /\ Append(H, turn)[m + 1] = turn
        /\ \A l \in 1..m : Append(H, turn)[l] = H[l]
    <3> HIDE DEF H, T
    <3> QED BY <2>2, <2>4, <2>5
  <2>7. \A l \in 1..(m + 1) : l \in 1..m \/ l = m + 1
    BY <2>6
  <2>8. ASSUME NEW d, NEW k, Stored(d, k)'
        PROVE  /\ k > 1 /\ conversations'[d][k - 1].role = "user"
               /\ conversations'[d][k - 1].text[1].job = conversations'[d][k].text[1].job
    <3>1. d \in DOMAIN conversations /\ k \in DOMAIN conversations'[d] /\ conversations'[d][k].role = "assistant"
      BY <2>5, <2>8 DEF Stored
    <3>2. CASE d # current
      BY <1>3, <2>5, <3>1, <3>2 DEF Stored
    <3> DEFINE G == Append(H, turn)
    <3>3. CASE d = current /\ k = m + 1
      <4>1. conversations'[d] = G
        BY <2>5, <3>3
      <4>2. G[k] = turn /\ k - 1 = m /\ G[m] = H[m] /\ k > 1
        BY <2>6, <3>3
      <4> HIDE DEF G, H
      <4> QED BY <2>2, <2>3, <2>4, <4>1, <4>2
    <3>4. CASE d = current /\ k # m + 1
      <4>1. conversations'[d] = G /\ conversations[d] = H
        BY <2>5, <3>4
      <4>2. k \in 1..m /\ G[k] = H[k]
        <5>1. k \in 1..(m + 1)
          BY <2>6, <3>1, <4>1
        <5> QED BY <2>6, <2>7, <3>4, <5>1
      <4>3. Stored(d, k)
        BY <2>6, <3>1, <4>1, <4>2 DEF Stored
      <4>4. k > 1 /\ H[k - 1].role = "user" /\ H[k - 1].text[1].job = H[k].text[1].job
        BY <1>3, <4>1, <4>3
      <4>5. k - 1 \in 1..m
        BY <2>6, <4>2, <4>4
      <4>6. G[k - 1] = H[k - 1]
        BY <2>6, <4>5
      <4> HIDE DEF G, H
      <4> QED BY <4>1, <4>2, <4>4, <4>6
    <3> QED BY <3>2, <3>3, <3>4
  <2> QED BY <1>2, <2>8 DEF QuestionInv
<1> QED BY <1>5, <1>6

LEMMA OrderedRun ==
  ASSUME WindowTypes, OnceInv, Ordered, Window!RunClosure
  PROVE  Ordered'
<1> DEFINE c == Due[1]
<1>1. /\ c \in Closures /\ Due # <<>> /\ Window!Closure(c) /\ UNCHANGED <<current, job, wstep, jobs>> /\ 1 \in DOMAIN Due
  BY RunSofar, Typed DEF Ordered
<1>2. /\ ChainInv' /\ (Speaking' <=> c.what \in Goes)
      /\ c.what \notin Goes => wstep # "asking" /\ wstep # "started" /\ \A i \in DOMAIN Due' : Due'[i].what = "idle"
  BY ChainRun DEF Ordered
<1>3. \A i \in DOMAIN Due' : i + 1 \in DOMAIN Due /\ Due'[i] = Due[i + 1]
  BY RunDoes
<1>4. /\ c.what \in Goes \cup Endings \cup {"status", "idle"}
      /\ c.what \in Goes => c.what \notin Endings
  BY <1>1, ClosureTyped DEF Goes, Events, Endings
<1>5. c.what \notin Endings => conversations' = conversations
  BY <1>1, OtherDoes DEF OnceInv
<1>6. BubbleInv'
  <2>1. CASE c.what \in Goes
    BY <2>1, RunGoing
  <2>2. CASE c.what \in Endings
    BY <2>2, RunEnding
  <2>3. CASE c.what \in {"status", "idle"}
    <3>1. c.what \notin Events \cup Endings /\ c.what \notin Goes
      BY <2>3 DEF Goes, Events, Endings
    <3>2. ~Speaking /\ ~Speaking'
      BY <1>1, <1>2, <3>1 DEF Speaking
    <3>3. UNCHANGED <<transcript, bubble, pending, conversations>>
      BY <1>1, <2>3, ClosureIs DEF Window!Quietly
    <3> QED BY <1>1, <3>2, <3>3 DEF Ordered, BubbleInv, Open
  <2> QED BY <1>4, <2>1, <2>2, <2>3
<1>7. TextInv'
  <2>1. CASE c.what \in Goes
    <3>1. Sofar' = Sofar /\ (pending' # <<>> => pending # <<>> \/ c.what = "delta")
      BY <2>1, RunGoing
    <3>2. Waiting' => Waiting
      BY <1>1, <1>3, <3>1 DEF Waiting
    <3>3. TextInv /\ (Chatting' <=> Chatting)
      BY <1>1 DEF Ordered, Chatting
    <3> HIDE DEF c
    <3> QED BY <1>1, <1>3, <3>1, <3>2, <3>3 DEF TextInv
  <2>2. CASE c.what \notin Goes
    BY <1>1, <1>2, <2>2 DEF TextInv
  <2> QED BY <2>1, <2>2
<1>8. QuestionInv'
  <2>1. CASE c.what \in Endings
    BY <2>1, EndQuestion
  <2>2. CASE c.what \notin Endings
    <3>1. Unanswered' => Unanswered
      BY <1>1, <1>3 DEF Unanswered, Chatting, Worked
    <3> QED BY <1>1, <1>5, <2>2, <3>1 DEF Ordered, QuestionInv, Stored
  <2> QED BY <2>1, <2>2
<1> QED BY <1>2, <1>6, <1>7, <1>8 DEF Ordered

-----------------------------------------------------------------------------
(* The steps together.                                                     *)
LEMMA OfJobLonger ==
  ASSUME NEW n, NEW x \in Seq(Window!Words), NEW y \in Seq(Window!Words), OfJob(x, n), OfJob(y, n)
  PROVE  OfJob(x \o y, n)
<1> DEFINE W == Window!Words
           z == x \o y
<1> HIDE DEF W
<1>1. /\ x \in Seq(W) /\ y \in Seq(W)
  BY DEF W
<1>2. /\ DOMAIN z = 1..(Len(x) + Len(y)) /\ Len(x) \in Nat /\ Len(y) \in Nat
      /\ DOMAIN x = 1..Len(x) /\ DOMAIN y = 1..Len(y)
      /\ \A i \in 1..(Len(x) + Len(y)) : z[i] = IF i <= Len(x) THEN x[i] ELSE y[i - Len(x)]
  BY <1>1
<1> HIDE DEF z
<1>3. ASSUME NEW i \in DOMAIN z PROVE z[i].job = n
  <2>1. CASE i <= Len(x)
    <3>1. i \in DOMAIN x /\ z[i] = x[i]
      BY <1>2, <2>1
    <3> QED BY <3>1 DEF OfJob
  <2>2. CASE ~(i <= Len(x))
    <3>1. i - Len(x) \in DOMAIN y /\ z[i] = y[i - Len(x)]
      BY <1>2, <2>2
    <3> QED BY <3>1 DEF OfJob
  <2> QED BY <2>1, <2>2
<1>4. OfJob(z, n)
  BY <1>3 DEF OfJob
<1> QED BY <1>4 DEF z

WindowHolds == WindowTypes /\ OnceInv /\ (~overlapped => Ordered)

LEMMA HoldsIs == WindowInv <=> WindowHolds
BY DEF WindowInv, WindowHolds, Ordered

LEMMA HoldsBegin == ASSUME WindowHolds, Window!Begin PROVE WindowHolds'
<1>1. WindowTypes /\ OnceInv /\ (~overlapped => Ordered)
  BY DEF WindowHolds
<1>2. /\ UNCHANGED Apart /\ queue' \in Seq(Closures)
      /\ wstep = "started" /\ wstep' = "asking" /\ UNCHANGED <<job, heard>>
      /\ IF Chatting THEN \E c : Puts(c) /\ c.what = "prefix" ELSE Due' = Due
  BY <1>1, BeginDoes
<1>3. WindowTypes'
  <2>1. job' \in Requests /\ heard' \in Nat /\ wstep' \in {"none", "started", "asking", "returned", "exited"}
    BY <1>1, <1>2 DEF WindowTypes
  <2> QED BY <1>1, <1>2, <2>1, TypesApart
<1>4. Worked /\ Worked'
  BY <1>2 DEF Worked
<1>5. OnceInv'
  <2>1. CASE Chatting
    <3>1. PICK c : Puts(c) /\ c.what = "prefix"
      BY <1>2, <2>1
    <3>2. c.what \notin Endings /\ job'.n = job.n /\ OfJob(job'.got, job.n)
      BY <1>1, <1>2, <3>1 DEF Endings, OnceInv
    <3> QED BY <1>1, <1>2, <1>4, <3>1, <3>2, OncePuts
  <2>2. CASE ~Chatting
    <3>1. /\ Due' = Due
          /\ UNCHANGED <<conversations, pending, flushDue, asking, joining, jobs, job>>
      BY <1>2, <2>2 DEF Apart
    <3> QED BY <1>1, <1>2, <1>4, <3>1 DEF OnceInv, Stored
  <2> QED BY <2>1, <2>2
<1>6. ~overlapped' => Ordered'
  BY <1>1, <1>2, OrderedBegin DEF Apart
<1> QED BY <1>3, <1>5, <1>6 DEF WindowHolds

LEMMA HoldsHear ==
  ASSUME WindowHolds, NEW kind \in {"delta", "garbled", "thought", "tool", "answer"}, Window!HearEvent(kind)
  PROVE  WindowHolds'
<1>1. WindowTypes /\ OnceInv /\ (~overlapped => Ordered)
  BY DEF WindowHolds
<1>2. /\ UNCHANGED Apart /\ queue' \in Seq(Closures) /\ heard' \in Nat
      /\ wstep = "asking" /\ wstep' = "asking"
  BY <1>1, HearDoes
<1>3. PICK c : /\ Puts(c) /\ c.what = kind /\ OfJob(c.text, job.n)
               /\ job' = [job EXCEPT !.got = IF kind \in {"delta", "answer"} THEN @ \o c.text ELSE @]
  BY <1>1, HearDoes
<1> DEFINE W == Seq(Window!Words)
           g == IF kind \in {"delta", "answer"} THEN job.got \o c.text ELSE job.got
<1>4. job \in Requests /\ job.got \in W /\ OfJob(job.got, job.n) /\ Requests = [n : Nat, kind : {"none", "llm", "agent", "clear", "health"}, stream : BOOLEAN, got : W]
  BY <1>1, Typed DEF WindowTypes, OnceInv, Requests
<1>5. kind \in {"delta", "answer"} => c.text \in W
  BY <1>3, ClosureTyped DEF Puts
<1>6. g \in W /\ OfJob(g, job.n)
  <2>1. CASE kind \in {"delta", "answer"}
    <3> DEFINE X == Window!Words
               x == job.got
               y == c.text
    <3>1. x \in Seq(X) /\ y \in Seq(X)
      BY <1>4, <1>5, <2>1
    <3>2. OfJob(x \o y, job.n)
      BY <1>3, <1>4, <3>1, OfJobLonger
    <3> HIDE DEF X, x, y
    <3>3. x \o y \in Seq(X)
      BY <3>1, ConcatProperties
    <3> QED BY <2>1, <3>2, <3>3 DEF X, x, y
  <2>2. CASE kind \notin {"delta", "answer"}
    BY <1>4, <2>2
  <2> QED BY <2>1, <2>2
<1>7. job' = [job EXCEPT !.got = g]
  BY <1>3
<1> HIDE DEF W, g
<1>8. job' \in Requests /\ job'.n = job.n /\ job'.got = g
  BY <1>4, <1>6, <1>7
<1>9. WindowTypes'
  <2>1. wstep' \in {"none", "started", "asking", "returned", "exited"}
    BY <1>2
  <2> QED BY <1>1, <1>2, <1>8, <2>1, TypesApart
<1>10. Worked /\ c.what \notin Endings
  BY <1>2, <1>3 DEF Worked, Endings
<1>11. OnceInv'
  BY <1>1, <1>2, <1>3, <1>6, <1>8, <1>10, OncePuts
<1>12. ~overlapped' => Ordered'
  BY <1>1, <1>2, OrderedHear DEF Apart
<1> QED BY <1>9, <1>11, <1>12 DEF WindowHolds

LEMMA HoldsFinish ==
  ASSUME WindowHolds, Window!Answers \/ Window!Replies \/ \E ok \in BOOLEAN : Window!StreamEnds(ok)
  PROVE  WindowHolds'
<1>1. WindowTypes /\ OnceInv /\ (~overlapped => Ordered)
  BY DEF WindowHolds
<1>2. /\ UNCHANGED Apart /\ queue' \in Seq(Closures)
      /\ wstep = "asking" /\ wstep' = "returned" /\ UNCHANGED <<job, heard>>
  BY <1>1, FinishDoesEnd
<1>3. PICK c : /\ Puts(c)
               /\ IF ~Chatting THEN c.what = "status"
                  ELSE IF job.stream THEN c.what = "streamed" /\ c.text = job.got
                  ELSE c.what = "answered" /\ OfJob(c.text, job.n)
  BY <1>1, FinishDoesEnd
<1>4. WindowTypes'
  <2>1. job' \in Requests /\ heard' \in Nat /\ wstep' \in {"none", "started", "asking", "returned", "exited"}
    BY <1>1, <1>2 DEF WindowTypes
  <2> QED BY <1>1, <1>2, <2>1, TypesApart
<1>5. OfJob(job.got, job.n) /\ ~Worked' /\ job' = job
  BY <1>1, <1>2 DEF OnceInv, Worked
<1>6. OnceInv'
  <2>1. CASE Chatting
    <3>1. OfJob(c.text, job.n)
      BY <1>3, <1>5, <2>1
    <3> QED BY <1>1, <1>2, <1>3, <1>5, <3>1, OnceEnds
  <2>2. CASE ~Chatting
    <3>1. c.what \notin Endings /\ job'.n = job.n /\ OfJob(job'.got, job.n)
      BY <1>3, <1>5, <2>2 DEF Endings
    <3> QED BY <1>1, <1>2, <1>3, <1>5, <3>1, OncePuts
  <2> QED BY <2>1, <2>2
<1>7. ~overlapped' => Ordered'
  BY <1>1, <1>2, <1>3, <1>5, OrderedFinish DEF Apart
<1> QED BY <1>4, <1>6, <1>7 DEF WindowHolds

LEMMA HoldsLeave == ASSUME WindowHolds, Window!LeaveThread PROVE WindowHolds'
<1>1. WindowTypes /\ OnceInv /\ (~overlapped => Ordered)
  BY DEF WindowHolds
<1>2. /\ UNCHANGED Apart /\ queue' \in Seq(Closures)
      /\ wstep = "returned" /\ wstep' = "exited" /\ UNCHANGED <<job, heard>>
  BY <1>1, LeaveDoes
<1>3. PICK c : Puts(c) /\ c.what = "idle"
  BY <1>1, LeaveDoes
<1>4. WindowTypes'
  <2>1. job' \in Requests /\ heard' \in Nat /\ wstep' \in {"none", "started", "asking", "returned", "exited"}
    BY <1>1, <1>2 DEF WindowTypes
  <2> QED BY <1>1, <1>2, <2>1, TypesApart
<1>5. ~Worked' /\ job' = job /\ c.what \notin Endings /\ OfJob(job'.got, job.n)
  BY <1>1, <1>2, <1>3 DEF Worked, Endings, OnceInv
<1>6. OnceInv'
  BY <1>1, <1>2, <1>3, <1>5, OncePuts
<1>7. ~overlapped' => Ordered'
  BY <1>1, <1>2, <1>3, <1>5, OrderedLeave DEF Apart
<1> QED BY <1>4, <1>6, <1>7 DEF WindowHolds

LEMMA HoldsStart ==
  ASSUME WindowHolds, Window!on_send \/ Window!on_clear \/ Window!on_health_check
  PROVE  WindowHolds'
<1>1. WindowTypes /\ OnceInv /\ (~overlapped => Ordered)
  BY DEF WindowHolds
<1>2. /\ Starts
      /\ \/ \E x : Asks(x)
         \/ Wipes /\ ~Chatting'
         \/ UNCHANGED <<transcript, conversations>> /\ ~Chatting'
  BY <1>1, StartDoes
<1>3. WindowTypes' /\ OnceInv'
  BY <1>1, <1>2, TypesStart, OnceStart
<1>4. ~overlapped' => ~overlapped /\ queue = <<>>
  BY <1>2 DEF Starts
<1>5. ~overlapped' => Ordered'
  BY <1>1, <1>2, <1>4, OrderedStart
<1> QED BY <1>3, <1>5 DEF WindowHolds

LEMMA HoldsOpen ==
  ASSUME WindowHolds,
         Window!on_new_conversation \/ \E c \in DOMAIN conversations : Window!on_select_conversation(c)
  PROVE  WindowHolds'
<1>1. WindowTypes /\ OnceInv /\ (~overlapped => Ordered)
  BY DEF WindowHolds
<1>2. /\ OpensOne
      /\ \/ /\ conversations' = Append(conversations, <<>>) /\ current' = Len(conversations) + 1
            /\ transcript' = <<>> /\ bubble' = bubble
         \/ /\ conversations' = conversations /\ current' \in DOMAIN conversations
            /\ Window!Show(Window!Loaded(conversations[current']))
  BY <1>1, OpenDoes
<1>3. WindowTypes' /\ OnceInv'
  BY <1>1, <1>2, TypesOpen, OnceOpen
<1>4. ~overlapped' => ~overlapped /\ ~asking /\ queue = <<>>
  BY <1>2 DEF OpensOne
<1>5. ~overlapped' => Ordered'
  BY <1>1, <1>2, <1>4, OrderedOpen
<1> QED BY <1>3, <1>5 DEF WindowHolds

LEMMA WindowStep == ASSUME WindowInv, [Window!Next]_windowVars PROVE WindowInv'
<1> SUFFICES WindowHolds'
  BY DEF WindowInv, WindowHolds, Ordered
<1>1. WindowHolds
  BY HoldsIs
<1>2. WindowTypes /\ OnceInv /\ (~overlapped => Ordered)
  BY <1>1 DEF WindowHolds
<1>3. CASE Window!on_send \/ Window!on_clear \/ Window!on_health_check
  BY <1>1, <1>3, HoldsStart
<1>4. CASE Window!on_new_conversation \/ \E c \in DOMAIN conversations : Window!on_select_conversation(c)
  BY <1>1, <1>4, HoldsOpen
<1>5. CASE Window!Worker
  <2>1. CASE Window!Begin
    BY <1>1, <2>1, HoldsBegin
  <2>2. CASE \E kind \in {"delta", "garbled", "thought", "tool", "answer"} : Window!HearEvent(kind)
    BY <1>1, <2>2, HoldsHear
  <2>3. CASE Window!Answers \/ Window!Replies \/ \E ok \in BOOLEAN : Window!StreamEnds(ok)
    BY <1>1, <2>3, HoldsFinish
  <2>4. CASE Window!LeaveThread
    BY <1>1, <2>4, HoldsLeave
  <2> QED BY <1>5, <2>1, <2>2, <2>3, <2>4 DEF Window!Worker
<1>6. CASE Window!Drain
  <2>1. OnceInv'
    <3>1. /\ UNCHANGED <<conversations, pending, flushDue, asking, joining, jobs, job, wstep>> /\ Due' = Due
      BY <1>2, <1>6, DrainDue DEF Window!Drain, Window!ui
    <3> QED BY <1>2, <3>1 DEF OnceInv, Worked, Stored
  <2>2. overlapped' = overlapped
    BY <1>6 DEF Window!Drain
  <2> QED BY <1>2, <1>6, <2>1, <2>2, TypesDrain, OrderedDrain DEF WindowHolds
<1>7. CASE Window!RunClosure
  <2>1. overlapped' = overlapped
    BY <1>7 DEF Window!RunClosure
  <2> QED BY <1>2, <1>7, <2>1, TypesRun, OnceRun, OrderedRun DEF WindowHolds
<1>8. CASE Window!Joined
  <2>1. overlapped' = overlapped
    BY <1>8 DEF Window!Joined
  <2> QED BY <1>2, <1>8, <2>1, TypesJoined, OnceJoined, OrderedJoined DEF WindowHolds
<1>9. CASE Window!Flush
  <2>1. overlapped' = overlapped
    BY <1>9 DEF Window!Flush
  <2> QED BY <1>2, <1>9, <2>1, TypesFlush, OnceFlush, OrderedFlush DEF WindowHolds
<1>10. CASE Window!on_stop \/ UNCHANGED windowVars
  <2>1. UNCHANGED <<conversations, current, transcript, bubble, pending, flushDue, asking, job, wstep,
                    queue, local, joining, jobs, heard, overlapped>>
    BY <1>10 DEF Window!on_stop, Window!ui, windowVars
  <2>2. Due' = Due /\ (Worked' <=> Worked) /\ (Chatting' <=> Chatting) /\ \A c, k : Stored(c, k)' <=> Stored(c, k)
    BY <2>1 DEF Due, Worked, Chatting, Stored
  <2>3. WindowTypes'
    BY <1>2, <2>1 DEF WindowTypes
  <2>4. OnceInv'
    BY <1>2, <2>1, <2>2 DEF OnceInv
  <2>5. ASSUME Ordered PROVE Ordered'
    <3>1. ChainInv' /\ (Speaking' <=> Speaking)
      BY <2>1, <2>2, <2>5 DEF Ordered, ChainInv, LeftAt, Speaking
    <3>2. BubbleInv' /\ Sofar' = Sofar /\ (Waiting' <=> Waiting) /\ (Unanswered' <=> Unanswered)
      BY <2>1, <2>2, <2>5, <3>1 DEF Ordered, BubbleInv, Open, Sofar, Visible, Waiting, Unanswered
    <3>3. TextInv' /\ QuestionInv'
      BY <2>1, <2>2, <2>5, <3>2 DEF Ordered, TextInv, QuestionInv
    <3> QED BY <3>1, <3>2, <3>3 DEF Ordered
  <2> QED BY <1>2, <2>1, <2>3, <2>4, <2>5 DEF WindowHolds
<1> QED BY <1>3, <1>4, <1>5, <1>6, <1>7, <1>8, <1>9, <1>10 DEF Window!Next

LEMMA WindowStarts == ASSUME Window!Init PROVE WindowInv
<1> DEFINE e == <<>>
           T == Window!Turns
           H == Seq(T)
           one == <<e>>
<1>1. /\ conversations = one /\ current = 1 /\ transcript = e
      /\ bubble = 0 /\ pending = e /\ flushDue = FALSE
      /\ asking = FALSE /\ cancel = FALSE /\ wstep = "none"
      /\ queue = e /\ local = e /\ joining = FALSE
      /\ jobs = 0 /\ opened = 0 /\ heard = 0 /\ overlapped = FALSE
  BY DEF Window!Init
<1>2. job = [n |-> 0, kind |-> "none", stream |-> FALSE, got |-> e]
  BY DEF Window!Init, Window!NoJob
<1>3. e \in H /\ e \in Seq(Bubbles) /\ e \in Seq(Window!Words) /\ e \in Seq(Closures) /\ DOMAIN e = {} /\ e \o e = e
  OBVIOUS
<1>4. job \in Requests /\ job.n = 0 /\ job.got = e /\ job.kind = "none"
  <2> DEFINE W == Seq(Window!Words)
  <2>1. Requests = [n : Nat, kind : {"none", "llm", "agent", "clear", "health"}, stream : BOOLEAN, got : W] /\ e \in W
    BY <1>3 DEF Requests
  <2> HIDE DEF W, e
  <2> QED BY <1>2, <2>1
<1> HIDE DEF H, e
<1>5. one \in Seq(H) /\ 1 \in DOMAIN one /\ one[1] = e /\ \A c \in DOMAIN one : one[c] = e
  BY <1>3
<1> HIDE DEF one
<1>6. WindowTypes
  <2>1. conversations \in Seq(H) /\ current \in DOMAIN conversations
    BY <1>1, <1>5
  <2> QED BY <1>1, <1>3, <1>4, <2>1 DEF WindowTypes, H, T
<1>7. Due = e /\ DOMAIN Due = {}
  BY <1>1, <1>3 DEF Due
<1>8. \A c, k : ~Stored(c, k)
  BY <1>1, <1>3, <1>5 DEF Stored
<1>9. ~Worked /\ ~Chatting
  BY <1>1, <1>4 DEF Worked, Chatting
<1>10. OnceInv
  <2>1. OfJob(job.got, job.n)
    BY <1>3, <1>4 DEF OfJob
  <2> QED BY <1>1, <1>4, <1>7, <1>8, <1>9, <2>1 DEF OnceInv
<1>11. ChainInv
  BY <1>7 DEF ChainInv, e
<1>12. ~Speaking /\ ~Open /\ pending = <<>>
  BY <1>1, <1>7 DEF Speaking, Open, e
<1>13. BubbleInv
  <2>1. Spoken(transcript) = conversations[current]
    BY <1>1, <1>5, SpokenEmpty DEF e
  <2> QED BY <1>12, <2>1 DEF BubbleInv
<1>14. TextInv
  BY <1>7, <1>9, <1>12 DEF TextInv, Waiting
<1>15. QuestionInv
  BY <1>7, <1>8, <1>9 DEF QuestionInv, Unanswered
<1> QED BY <1>6, <1>10, <1>11, <1>13, <1>14, <1>15 DEF WindowInv

LEMMA WindowShows == ASSUME WindowInv PROVE Window!RepliesInPlace
<1> DEFINE turns == {<<c, i>> : c \in DOMAIN conversations, i \in 1..MaxJobs * 2}
           replies == {t \in turns : t[2] \in DOMAIN conversations[t[1]] /\ conversations[t[1]][t[2]].role = "assistant"}
           At(t) == conversations[t[1]][t[2]]
<1>1. WindowTypes /\ OnceInv /\ (~overlapped => Ordered)
  BY DEF WindowInv, Ordered
<1>2. \A t \in replies : t = <<t[1], t[2]>> /\ Stored(t[1], t[2])
  BY DEF Stored
<1>3. \A t : Window!JobOf(At(t)) = At(t).text[1].job
  BY DEF Window!JobOf
<1>4. pending # <<>> => flushDue
  BY <1>1 DEF OnceInv
<1>5. \A t, u \in replies : t # u => Window!JobOf(At(t)) # Window!JobOf(At(u))
  <2> SUFFICES ASSUME NEW t \in replies, NEW u \in replies, t # u PROVE At(t).text[1].job # At(u).text[1].job
    BY <1>3
  <2>1. Stored(t[1], t[2]) /\ Stored(u[1], u[2]) /\ <<t[1], t[2]>> # <<u[1], u[2]>>
    BY <1>2
  <2> QED BY <1>1, <2>1 DEF OnceInv
<1>6. ASSUME ~overlapped, NEW t \in replies
      PROVE  /\ t[2] > 1 /\ conversations[t[1]][t[2] - 1].role = "user"
             /\ Window!JobOf(conversations[t[1]][t[2] - 1]) = Window!JobOf(At(t))
             /\ \A k \in DOMAIN At(t).text : At(t).text[k].job = Window!JobOf(At(t))
  <2>1. Stored(t[1], t[2])
    BY <1>2
  <2>2. /\ t[2] > 1 /\ conversations[t[1]][t[2] - 1].role = "user"
        /\ conversations[t[1]][t[2] - 1].text[1].job = At(t).text[1].job
    BY <1>1, <1>6, <2>1 DEF Ordered, QuestionInv
  <2>3. OfJob(At(t).text, At(t).text[1].job)
    BY <1>1, <2>1 DEF OnceInv
  <2> DEFINE x == At(t).text
  <2>4. \A k \in DOMAIN x : x[k].job = x[1].job
    BY <2>3 DEF OfJob
  <2>5. Window!JobOf(At(t)) = x[1].job
    BY DEF Window!JobOf
  <2>6. Window!JobOf(conversations[t[1]][t[2] - 1]) = conversations[t[1]][t[2] - 1].text[1].job
    BY DEF Window!JobOf
  <2> HIDE DEF At
  <2> QED BY <2>2, <2>4, <2>5, <2>6
<1>7. ASSUME ~overlapped, Window!Settled PROVE Window!Spoken = conversations[current]
  <2>1. Due = <<>> /\ ~asking /\ ~joining
    BY <1>7 DEF Window!Settled, Due
  <2>2. ~Speaking
    BY <1>1, <2>1 DEF Speaking, OnceInv, Worked
  <2>3. Spoken(transcript) = conversations[current]
    BY <1>1, <1>7, <2>2 DEF Ordered, BubbleInv
  <2>4. \A b : Window!Said(b) = Said(b.text)
    BY DEF Window!Said, Said, Window!Only, Sifted
  <2>5. [i \in DOMAIN transcript |-> Window!Turn(transcript[i].role, Window!Said(transcript[i]))] = Telling(transcript)
    BY <2>4 DEF Telling
  <2>6. Window!Spoken = Spoken(transcript)
    <3>1. \A s, S : Window!Only(s, S) = Sifted(s, S)
      BY DEF Window!Only, Sifted
    <3> QED BY <2>5, <3>1 DEF Window!Spoken, Spoken
  <2> QED BY <2>3, <2>6
<1> HIDE DEF replies, At
<1>8. /\ pending # <<>> => flushDue
      /\ \A t, u \in replies : t # u => Window!JobOf(At(t)) # Window!JobOf(At(u))
      /\ ~overlapped =>
           /\ \A t \in replies :
                /\ t[2] > 1 /\ conversations[t[1]][t[2] - 1].role = "user"
                /\ Window!JobOf(conversations[t[1]][t[2] - 1]) = Window!JobOf(At(t))
                /\ \A k \in DOMAIN At(t).text : At(t).text[k].job = Window!JobOf(At(t))
           /\ Window!Settled => Window!Spoken = conversations[current]
  BY <1>4, <1>5, <1>6, <1>7
<1> QED BY <1>8 DEF Window!RepliesInPlace, replies, At, turns

(* Whatever is stopped, fails or is opened meanwhile, no reply is stored   *)
(* twice and no text that has arrived waits without a timer; and as long   *)
(* as the user waits for the end of a request, every reply is right behind *)
(* its question and the window, when it has settled, shows the history of  *)
(* the open conversation, all of it and nothing else.                      *)
THEOREM RepliesStayInPlace == MCSpec => []RepliesInPlace
<1> DEFINE I == choice = "window" => WindowInv
<1>1. MCInit => I
  BY WindowStarts DEF MCInit
<1>2. I /\ [MCNext]_all => I'
  <2> SUFFICES ASSUME I, [MCNext]_all, choice' = "window" PROVE WindowInv'
    OBVIOUS
  <2>1. choice = "window"
    BY DEF MCNext, ObserverNext, TimerNext, ConfigNext, SplitterNext, WindowNext, all
  <2>2. Window!Next \/ UNCHANGED windowVars
    BY DEF MCNext, ObserverNext, TimerNext, ConfigNext, SplitterNext, WindowNext, all
  <2> QED BY <2>1, <2>2, WindowStep
<1>3. I => RepliesInPlace
  BY WindowShows DEF RepliesInPlace
<1> HIDE DEF I
<1> QED BY <1>1, <1>2, <1>3, PTL DEF MCSpec

-----------------------------------------------------------------------------
(* The text splitters, for texts of any length and every size.  ChunksFit  *)
(* is about what the splitters compute; each function has a lemma, by      *)
(* induction over what it goes through, that no letter is lost or moved    *)
(* (Written) and how long its pieces are.                                     *)

Strings == Seq(Splitter!Character)
Written(s) == Sifted(s, Splitter!AnyLetter)

LEMMA LettersAreKept == \A s : Splitter!Letters(s) = Written(s)
BY DEF Splitter!Letters, Written, Sifted

LEMMA KeptConcat ==
  ASSUME NEW s \in Strings, NEW t \in Strings
  PROVE  /\ Written(s) \in Strings /\ Written(t) \in Strings /\ s \o t \in Strings
         /\ Written(s \o t) = Written(s) \o Written(t)
<1> DEFINE V == Splitter!Character
<1>1. Written(s) \in Seq(V \cap Splitter!AnyLetter) /\ Written(t) \in Seq(V \cap Splitter!AnyLetter)
  <2> HIDE DEF V
  <2> QED BY SiftedHolds DEF Strings, V, Written
<1>2. s \o t \in Strings /\ Written(s \o t) = Written(s) \o Written(t)
  <2> HIDE DEF V
  <2> QED BY SiftedConcat DEF Strings, V, Written
<1> QED BY <1>1, <1>2 DEF Strings

LEMMA KeptEmpty == <<>> \in Strings /\ Written(<<>>) = <<>>
BY SiftedEmpty DEF Strings, Written

\* Nothing is left of a separator.
LEMMA KeptSeparator ==
  /\ \A sep \in {<<Splitter!Newline, Splitter!Newline>>, <<Splitter!Stop>>, <<Splitter!Space>>} :
       sep \in Strings /\ sep # <<>> /\ Written(sep) = <<>> /\ Len(sep) \in {1, 2}
  /\ Len(<<Splitter!Space>>) = 1
<1> DEFINE T == {Splitter!Newline, Splitter!Stop, Splitter!Space}
<1>1. T \cap Splitter!AnyLetter = {} /\ T \subseteq Splitter!Character
  BY DEF Splitter!AnyLetter, Splitter!Letter, Splitter!Newline, Splitter!Stop, Splitter!Space, Splitter!Character
<1>2. Splitter!Newline \in T /\ Splitter!Stop \in T /\ Splitter!Space \in T
  OBVIOUS
<1> HIDE DEF T
<1>3. ASSUME NEW s \in Seq(T) PROVE s \in Strings /\ Written(s) = <<>>
  BY <1>1, SiftedNothing DEF Strings, Written
<1>4. <<Splitter!Newline, Splitter!Newline>> \in Seq(T) /\ <<Splitter!Stop>> \in Seq(T) /\ <<Splitter!Space>> \in Seq(T)
  BY <1>2
<1>5. \A x, y : <<x, y>> # <<>> /\ <<x>> # <<>> /\ Len(<<x, y>>) = 2 /\ Len(<<x>>) = 1
  OBVIOUS
<1> QED BY <1>3, <1>4, <1>5

-----------------------------------------------------------------------------
(* Flattening and joining texts.                                           *)

LEMMA FlatOne == ASSUME NEW T, NEW x \in Seq(T) PROVE Flat(<<x>>) = x
<1>1. <<>> \in Seq(Seq(T)) /\ Append(<<>>, x) = <<x>>
  OBVIOUS
<1>2. Flat(<<x>>) = Flat(<<>>) \o x
  BY <1>1, FlatAppend
<1> QED BY <1>2, FlatEmpty

LEMMA FlatTyped == ASSUME NEW T, NEW s \in Seq(Seq(T)) PROVE Flat(s) \in Seq(T)
<1>1. <<>> \in Seq(T)
  OBVIOUS
<1> QED BY <1>1, FlatAppend

LEMMA FlatConcat ==
  ASSUME NEW T, NEW a \in Seq(Seq(T)), NEW b \in Seq(Seq(T))
  PROVE  Flat(a \o b) = Flat(a) \o Flat(b)
<1> DEFINE U == Seq(T)
           G == {s \in Seq(U) : Flat(a \o s) = Flat(a) \o Flat(s)}
<1>1. <<>> \in G
  <2>1. Flat(a) \in Seq(T) /\ Flat(<<>>) = <<>>
    BY FlatAppend, FlatEmpty
  <2>2. a \o <<>> = a
    <3> HIDE DEF U
    <3> QED BY DEF U
  <2> QED BY <2>1, <2>2
<1>2. ASSUME NEW s \in Seq(U), NEW e \in U, s \in G PROVE Append(s, e) \in G
  <2>1. a \o Append(s, e) = Append(a \o s, e) /\ a \o s \in Seq(U) /\ Append(s, e) \in Seq(U)
    <3>1. a \in Seq(U)
      OBVIOUS
    <3> HIDE DEF U
    <3> QED BY <1>2, <3>1, AppendToConcat
  <2>2. Flat(Append(a \o s, e)) = Flat(a \o s) \o e /\ Flat(Append(s, e)) = Flat(s) \o e /\ Flat(a) \in Seq(T) /\ Flat(s) \in Seq(T)
    BY <2>1, <1>2, FlatAppend
  <2>3. Flat(a \o s) = Flat(a) \o Flat(s)
    BY <1>2
  <2>4. (Flat(a) \o Flat(s)) \o e = Flat(a) \o (Flat(s) \o e)
    <3>1. e \in Seq(T) /\ Flat(a) \in Seq(T) /\ Flat(s) \in Seq(T)
      BY <1>2, <2>2
    <3> QED BY <3>1, ConcatAssociative, SMTT(30)
  <2> QED BY <2>1, <2>2, <2>3, <2>4
<1> HIDE DEF G
<1>3. \A s \in Seq(U) : s \in G
  <2> HIDE DEF U
  <2> QED BY <1>1, <1>2, SequencesGrow
<1>4. b \in G
  BY <1>3
<1> QED BY <1>4 DEF G

\* Sequences of texts that keep what the texts keep, one for one.
LEMMA KeptAlike ==
  ASSUME NEW x \in Seq(Seq(Strings)), NEW p \in Seq(Strings), Len(x) = Len(p),
         \A k \in DOMAIN p : Written(Flat(x[k])) = Written(p[k])
  PROVE  Flat(x) \in Seq(Strings) /\ Written(Flat(Flat(x))) = Written(Flat(p))
<1> DEFINE U == Seq(Strings)
           m == Len(p)
           Holds(n) == Written(Flat(Flat(SubSeq(x, 1, n)))) = Written(Flat(SubSeq(p, 1, n)))
           Good == {n \in Nat : n <= m => Holds(n)}
<1>1. m \in Nat /\ DOMAIN p = 1..m
  OBVIOUS
<1>2. 0 \in Good
  <2>1. SubSeq(x, 1, 0) = <<>> /\ SubSeq(p, 1, 0) = <<>>
    BY Prefixes
  <2> QED BY <2>1, FlatEmpty
<1>3. ASSUME NEW n \in Good PROVE n + 1 \in Good
  <2> SUFFICES ASSUME n + 1 <= m PROVE Holds(n + 1)
    OBVIOUS
  <2> DEFINE a == SubSeq(x, 1, n)
             q == SubSeq(p, 1, n)
  <2>1. n \in Nat /\ n \in 0..m /\ n + 1 \in 1..m /\ Holds(n)
    BY <1>1
  <2>2. x[n + 1] \in U /\ SubSeq(x, 1, n + 1) = Append(a, x[n + 1]) /\ a \in Seq(U)
    BY <2>1, Prefixes
  <2>3. p[n + 1] \in Strings /\ SubSeq(p, 1, n + 1) = Append(q, p[n + 1]) /\ q \in Seq(Strings)
    BY <2>1, Prefixes
  <2> HIDE DEF a, q
  <2>4. Flat(Append(a, x[n + 1])) = Flat(a) \o x[n + 1] /\ Flat(a) \in U
    BY <2>2, FlatAppend
  <2>5. Flat(Flat(a) \o x[n + 1]) = Flat(Flat(a)) \o Flat(x[n + 1])
    BY <2>2, <2>4, FlatConcat DEF Strings
  <2>6. Flat(Flat(a)) \in Strings /\ Flat(x[n + 1]) \in Strings
    BY <2>2, <2>4, FlatTyped DEF Strings
  <2>7. Flat(Append(q, p[n + 1])) = Flat(q) \o p[n + 1] /\ Flat(q) \in Strings
    BY <2>3, FlatAppend DEF Strings
  <2>8. Written(Flat(Flat(a)) \o Flat(x[n + 1])) = Written(Flat(Flat(a))) \o Written(Flat(x[n + 1]))
    BY <2>6, KeptConcat
  <2>9. Written(Flat(q) \o p[n + 1]) = Written(Flat(q)) \o Written(p[n + 1])
    BY <2>3, <2>7, KeptConcat
  <2>10. Written(Flat(x[n + 1])) = Written(p[n + 1]) /\ Written(Flat(Flat(a))) = Written(Flat(q))
    BY <1>1, <2>1 DEF a, q
  <2> QED BY <2>2, <2>3, <2>4, <2>5, <2>7, <2>8, <2>9, <2>10
<1> HIDE DEF Good
<1>4. Good = Nat
  <2>1. Good \in SUBSET Nat
    BY DEF Good
  <2> QED BY <1>2, <1>3, <2>1, Induction
<1>5. Holds(m)
  BY <1>1, <1>4 DEF Good
<1>6. SubSeq(x, 1, m) = x /\ SubSeq(p, 1, m) = p
  BY Prefixes
<1>7. Flat(x) \in Seq(Strings)
  <2>1. x \in Seq(U) /\ <<>> \in U
    OBVIOUS
  <2> QED BY <2>1, FlatAppend
<1> QED BY <1>5, <1>6, <1>7

-----------------------------------------------------------------------------
(* Cutting at a separator.                                                 *)

Clear(p, sep) == \A i \in DOMAIN p : ~Splitter!OccursAt(p, sep, i)

\* The letters before start are in the parts, none of which has the separator.
Cuts(s, sep) ==
  {c \in [parts : Seq(Strings), start : 1..(Len(s) + 1)] :
     /\ Written(Flat(c.parts)) = Written(SubSeq(s, 1, c.start - 1))
     /\ \A k \in DOMAIN c.parts : Clear(c.parts[k], sep)}

LEMMA TextSlice ==
  ASSUME NEW s \in Strings, NEW a \in 1..(Len(s) + 1), NEW b \in (a - 1)..Len(s)
  PROVE  /\ SubSeq(s, a, b) \in Strings /\ Len(SubSeq(s, a, b)) = b - a + 1
         /\ \A i \in 1..(b - a + 1) : SubSeq(s, a, b)[i] = s[a + i - 1]
         /\ SubSeq(s, 1, b) = SubSeq(s, 1, a - 1) \o SubSeq(s, a, b)
<1> DEFINE V == Splitter!Character
<1>1. s \in Seq(V) /\ Len(s) \in Nat /\ a \in Int /\ b \in Int
  BY DEF Strings
<1> HIDE DEF V
<1>2. \A i \in a..b : s[i] \in V
  BY <1>1
<1>3. /\ SubSeq(s, a, b) \in Seq(V) /\ Len(SubSeq(s, a, b)) = IF a <= b THEN b - a + 1 ELSE 0
      /\ \A i \in 1..(b - a + 1) : SubSeq(s, a, b)[i] = s[a + i - 1]
  BY <1>1, <1>2, SubSeqProperties
<1>4. 1 \in 1..(Len(s) + 1) /\ a - 1 \in (1 - 1)..Len(s) /\ b \in (a - 1)..Len(s) /\ (a - 1) + 1 = a
  BY <1>1
<1>5. SubSeq(s, 1, b) = SubSeq(s, 1, a - 1) \o SubSeq(s, a, b)
  BY <1>1, <1>4, ConcatAdjacentSubSeq
<1> QED BY <1>1, <1>3, <1>5 DEF Strings, V

\* Where a separator stands in a slice, it stands in the text.
LEMMA OccursInSlice ==
  ASSUME NEW s \in Strings, NEW sep \in Strings, sep # <<>>,
         NEW a \in 1..(Len(s) + 1), NEW b \in (a - 1)..Len(s), NEW i \in DOMAIN SubSeq(s, a, b),
         Splitter!OccursAt(SubSeq(s, a, b), sep, i)
  PROVE  a + i - 1 \in a..b /\ Splitter!OccursAt(s, sep, a + i - 1)
<1> DEFINE p == SubSeq(s, a, b)
           l == Len(sep)
           V == Splitter!Character
<1>1. Len(p) = b - a + 1 /\ p \in Strings /\ a \in Nat /\ b \in Int /\ l \in Nat \ {0} /\ Len(s) \in Nat
  BY TextSlice DEF Strings
<1>2. i \in 1..(b - a + 1) /\ i + l - 1 <= b - a + 1 /\ SubSeq(p, i, i + l - 1) = sep
  BY <1>1 DEF Splitter!OccursAt, Strings
<1>3. a \in 1..Len(s) /\ b \in 1..Len(s) /\ i + l - 1 \in 1..(b - a + 1)
  BY <1>1, <1>2
<1>4. SubSeq(p, i, i + l - 1) = SubSeq(s, a + i - 1, a + (i + l - 1) - 1)
  <2> HIDE DEF l
  <2> QED BY <1>2, <1>3, SubSeqOfSubSeq DEF Strings
<1> HIDE DEF p, l
<1>5. a + (i + l - 1) - 1 = (a + i - 1) + l - 1 /\ (a + i - 1) + l - 1 <= Len(s)
  BY <1>1, <1>2, <1>3
<1>6. SubSeq(s, a + i - 1, (a + i - 1) + l - 1) = sep
  BY <1>2, <1>4, <1>5
<1>7. a + i - 1 \in a..b
  BY <1>1, <1>2
<1> QED BY <1>5, <1>6, <1>7 DEF Splitter!OccursAt, l

LEMMA IsCut ==
  ASSUME NEW s, NEW sep, NEW e \in Seq(Strings), NEW t \in 1..(Len(s) + 1),
         Written(Flat(e)) = Written(SubSeq(s, 1, t - 1)), \A k \in DOMAIN e : Clear(e[k], sep)
  PROVE  [parts |-> e, start |-> t] \in Cuts(s, sep)
BY DEF Cuts

LEMMA CutsFurther ==
  ASSUME NEW s \in Strings, NEW sep \in Strings, sep # <<>>, Written(sep) = <<>>, NEW c \in Cuts(s, sep)
  PROVE  /\ Splitter!CutNext(c, s, sep) \in Cuts(s, sep)
         /\ Splitter!CutNext(c, s, sep).start > c.start \/ Splitter!CutNext(c, s, sep).start = Len(s) + 1
<1> DEFINE m == Len(s)
           l == Len(sep)
           a == c.start
           found == Splitter!Found(s, sep, a)
           next == Splitter!Min(found)
           d == Splitter!CutNext(c, s, sep)
<1>1. m \in Nat /\ l \in Nat \ {0} /\ a \in 1..(m + 1) /\ c.parts \in Seq(Strings)
  BY DEF Strings, Cuts
<1>2. Written(Flat(c.parts)) = Written(SubSeq(s, 1, a - 1)) /\ \A k \in DOMAIN c.parts : Clear(c.parts[k], sep)
  BY DEF Cuts
<1>3. CASE a > m
  <2>1. d = c /\ a = m + 1
    BY <1>1, <1>3 DEF Splitter!CutNext
  <2> QED BY <2>1
<1>4. ASSUME NEW b \in (a - 1)..m, \A i \in a..b : ~Splitter!OccursAt(s, sep, i)
      PROVE  LET e == Append(c.parts, SubSeq(s, a, b))
             IN  /\ e \in Seq(Strings) /\ Written(Flat(e)) = Written(SubSeq(s, 1, b)) /\ SubSeq(s, 1, b) \in Strings
                 /\ \A k \in DOMAIN e : Clear(e[k], sep)
  <2> DEFINE q == SubSeq(s, a, b)
             e == Append(c.parts, q)
             z == SubSeq(s, 1, a - 1)
  <2>1. q \in Strings /\ SubSeq(s, 1, b) = z \o q /\ Len(q) = b - a + 1
    BY <1>1, <1>4, TextSlice
  <2>2. z \in Strings
    <3>1. 1 \in 1..(m + 1) /\ a - 1 \in (1 - 1)..m
      BY <1>1
    <3> QED BY <3>1, TextSlice
  <2>3. Clear(q, sep)
    BY <1>4, OccursInSlice, <1>1 DEF Clear
  <2> HIDE DEF q, z
  <2>4. e \in Seq(Strings) /\ Len(e) = Len(c.parts) + 1 /\ e[Len(c.parts) + 1] = q
        /\ \A k \in 1..Len(c.parts) : e[k] = c.parts[k]
    BY <1>1, <2>1
  <2>5. \A k \in DOMAIN e : k = Len(c.parts) + 1 \/ k \in DOMAIN c.parts
    BY <1>1, <2>4
  <2>6. Flat(e) = Flat(c.parts) \o q /\ Flat(c.parts) \in Strings
    BY <1>1, <2>1, FlatAppend DEF Strings
  <2>7. Written(Flat(e)) = Written(z \o q)
    <3>1. Written(Flat(c.parts) \o q) = Written(Flat(c.parts)) \o Written(q) /\ Written(z \o q) = Written(z) \o Written(q)
      BY <2>1, <2>2, <2>6, KeptConcat
    <3> QED BY <1>2, <2>6, <3>1 DEF z
  <2>8. z \o q \in Strings
    BY <2>1, <2>2, KeptConcat
  <2>9. \A k \in DOMAIN e : Clear(e[k], sep)
    <3> HIDE DEF e
    <3> QED BY <1>1, <1>2, <2>3, <2>4, <2>5
  <2> QED BY <2>1, <2>4, <2>7, <2>8, <2>9 DEF q
<1>5. CASE a <= m /\ found = {}
  <2> DEFINE e == Append(c.parts, SubSeq(s, a, m))
  <2>1. d = [parts |-> e, start |-> m + 1]
    BY <1>1, <1>5 DEF Splitter!CutNext
  <2>2. m \in (a - 1)..m /\ \A i \in a..m : ~Splitter!OccursAt(s, sep, i)
    BY <1>1, <1>5 DEF Splitter!Found
  <2>3. (m + 1) - 1 = m /\ m + 1 \in 1..(m + 1)
    BY <1>1
  <2>4. /\ e \in Seq(Strings) /\ Written(Flat(e)) = Written(SubSeq(s, 1, m))
        /\ \A k \in DOMAIN e : Clear(e[k], sep)
    BY <1>4, <2>2
  <2> HIDE DEF e, d
  <2>5. d \in Cuts(s, sep)
    BY <2>1, <2>3, <2>4, IsCut
  <2> QED BY <2>1, <2>5 DEF d
<1>6. CASE a <= m /\ found # {}
  <2>1. next \in found /\ \A k \in found : next <= k
    <3>1. found \in SUBSET Nat
      BY <1>1 DEF Splitter!Found
    <3> HIDE DEF found
    <3>2. \E i \in found : \A k \in found : i <= k
      BY <1>6, <3>1, Least
    <3> QED BY <3>2 DEF Splitter!Min
  <2>2. d = [parts |-> Append(c.parts, SubSeq(s, a, next - 1)), start |-> next + l]
    BY <1>1, <1>6 DEF Splitter!CutNext
  <2>3. next \in a..m /\ Splitter!OccursAt(s, sep, next)
    BY <2>1 DEF Splitter!Found
  <2>4. next - 1 \in (a - 1)..m /\ \A i \in a..(next - 1) : ~Splitter!OccursAt(s, sep, i)
    <3> SUFFICES ASSUME NEW i \in a..(next - 1), Splitter!OccursAt(s, sep, i) PROVE FALSE
      BY <1>1, <2>3
    <3>1. i \in found /\ i < next
      BY <1>1, <2>3 DEF Splitter!Found
    <3> HIDE DEF found, next
    <3> QED BY <1>1, <2>1, <2>3, <3>1
  <2> HIDE DEF next, found, d
  <2>5. next + l - 1 <= m /\ SubSeq(s, next, next + l - 1) = sep
    BY <2>3 DEF Splitter!OccursAt
  <2>6. next + l \in 1..(m + 1) /\ next + l > a /\ (next + l) - 1 = next + l - 1
    BY <1>1, <2>3, <2>5
  <2>7. SubSeq(s, 1, next + l - 1) = SubSeq(s, 1, next - 1) \o sep
    <3>1. next \in 1..(m + 1) /\ next + l - 1 \in (next - 1)..m
      BY <1>1, <2>3, <2>5
    <3> QED BY <2>5, <3>1, TextSlice
  <2> DEFINE e == Append(c.parts, SubSeq(s, a, next - 1))
             y == SubSeq(s, 1, next - 1)
  <2>8. /\ e \in Seq(Strings) /\ Written(Flat(e)) = Written(y) /\ y \in Strings
        /\ \A k \in DOMAIN e : Clear(e[k], sep)
    BY <1>4, <2>4
  <2> HIDE DEF e, y
  <2>9. Written(y \o sep) = Written(y)
    <3>1. Written(y \o sep) = Written(y) \o Written(sep) /\ Written(y) \in Strings
      BY <2>8, KeptConcat
    <3>2. Written(y) \o <<>> = Written(y)
      BY <3>1 DEF Strings
    <3> QED BY <3>1, <3>2
  <2>10. d = [parts |-> e, start |-> next + l]
    BY <2>2 DEF e
  <2>11. Written(Flat(e)) = Written(SubSeq(s, 1, (next + l) - 1))
    BY <2>6, <2>7, <2>8, <2>9 DEF y
  <2>12. d \in Cuts(s, sep)
    BY <2>6, <2>8, <2>10, <2>11, IsCut
  <2> QED BY <2>6, <2>10, <2>12 DEF d
<1> HIDE DEF d
<1> QED BY <1>1, <1>3, <1>5, <1>6 DEF d

LEMMA PartsAre ==
  ASSUME NEW s \in Strings, NEW sep \in Strings, sep # <<>>, Written(sep) = <<>>
  PROVE  /\ Splitter!Parts(s, sep) \in Seq(Strings) /\ Written(Flat(Splitter!Parts(s, sep))) = Written(s)
         /\ \A k \in DOMAIN Splitter!Parts(s, sep) : Clear(Splitter!Parts(s, sep)[k], sep)
<1> DEFINE m == Len(s)
           V == Cuts(s, sep)
           base == [parts |-> <<>>, start |-> 1]
           Step(c) == Splitter!CutNext(c, s, sep)
           Proceeds(f) == f = [n \in 0..m |-> IF n = 0 THEN base ELSE Step(f[n - 1])]
           g == CHOOSE f : Proceeds(f)
           G == [p \in (1..m) \X V |-> Step(p[2])]
<1>1. m \in Nat
  BY DEF Strings
<1>2. base \in V
  <2>1. SubSeq(s, 1, 1 - 1) = <<>>
    BY SubSeqEmpty
  <2>2. 1 \in 1..(Len(s) + 1) /\ <<>> \in Seq(Strings)
    BY <1>1
  <2>3. Written(Flat(<<>>)) = Written(SubSeq(s, 1, 1 - 1))
    BY <2>1, FlatEmpty
  <2>4. \A k \in DOMAIN <<>> : Clear(<<>>[k], sep)
    <3>1. DOMAIN <<>> = {}
      OBVIOUS
    <3> QED BY <3>1
  <2> QED BY <2>2, <2>3, <2>4, IsCut
<1>3. \A c \in V : Step(c) \in V /\ (Step(c).start > c.start \/ Step(c).start = m + 1)
  BY CutsFurther
<1>4. base.start = 1 /\ \A c \in V : c.start \in 1..(m + 1)
  BY DEF Cuts
<1> HIDE DEF base, V, Step
<1>5. G \in [(1..m) \X V -> V] /\ \A i \in 1..m, v \in V : G[<<i, v>>] = Step(v)
  BY <1>3
<1> HIDE DEF G
<1>6. PICK f : Iteration(f, G, V, base, m)
  BY <1>1, <1>2, <1>5, Iterates
<1>7. f \in [0..m -> V] /\ f[0] = base /\ \A i \in 1..m : f[i] = Step(f[i - 1])
  <2>1. f \in [0..m -> V] /\ f[0] = base /\ \A i \in 1..m : f[i] = G[<<i, f[i - 1]>>]
    BY <1>6 DEF Iteration
  <2>2. \A i \in 1..m : i - 1 \in 0..m /\ f[i - 1] \in V
    BY <1>1, <2>1
  <2> QED BY <1>5, <2>1, <2>2
<1>8. Proceeds(f)
  <2>1. \A i \in 0..m : i = 0 \/ i \in 1..m
    BY <1>1
  <2>2. \A i \in 0..m : f[i] = IF i = 0 THEN base ELSE Step(f[i - 1])
    BY <1>1, <1>7, <2>1
  <2> QED BY <1>7, <2>2
<1>9. Proceeds(g)
  <2> HIDE DEF Proceeds
  <2> QED BY <1>8
<1>10. Splitter!Parts(s, sep) = g[m].parts
  BY DEF Splitter!Parts, base, Step
<1> HIDE DEF g
<1>11. \A i \in 0..m : g[i] = IF i = 0 THEN base ELSE Step(g[i - 1])
  BY <1>9
<1> DEFINE Holds(n) == g[n] \in V /\ (g[n].start > n \/ g[n].start = m + 1)
           Good == {n \in Nat : n <= m => Holds(n)}
<1>12. 0 \in Good
  BY <1>1, <1>2, <1>4, <1>11
<1>13. ASSUME NEW n \in Good PROVE n + 1 \in Good
  <2> SUFFICES ASSUME n + 1 <= m PROVE Holds(n + 1)
    OBVIOUS
  <2>1. n \in Nat /\ n + 1 \in 0..m /\ n + 1 # 0 /\ (n + 1) - 1 = n /\ Holds(n)
    BY <1>1
  <2>2. g[n + 1] = Step(g[n])
    BY <1>11, <2>1
  <2>3. g[n + 1] \in V /\ (g[n + 1].start > g[n].start \/ g[n + 1].start = m + 1)
    BY <1>3, <2>1, <2>2
  <2>4. g[n].start \in 1..(m + 1) /\ g[n + 1].start \in 1..(m + 1)
    BY <1>4, <2>1, <2>3
  <2> QED BY <1>1, <2>1, <2>3, <2>4
<1> HIDE DEF Good
<1>14. Good = Nat
  <2>1. Good \in SUBSET Nat
    BY DEF Good
  <2> QED BY <1>12, <1>13, <2>1, Induction
<1>15. g[m] \in V /\ g[m].start = m + 1
  <2>1. Holds(m)
    BY <1>1, <1>14 DEF Good
  <2>2. g[m].start \in 1..(m + 1)
    BY <1>4, <2>1
  <2> QED BY <1>1, <2>1, <2>2
<1>16. SubSeq(s, 1, (m + 1) - 1) = s
  <2>1. SubSeq(s, 1, m) = s
    BY SubSeqFull DEF Strings
  <2> QED BY <1>1, <2>1
<1> QED BY <1>10, <1>15, <1>16 DEF Cuts, V

-----------------------------------------------------------------------------
(* Joining parts.                                                          *)

Merges == [out : Seq(Strings), current : Strings]

\* What a chunk can be: nothing, short enough, or a part.
Fitting(t, parts, n, glue) == t = <<>> \/ Len(t) <= n + Len(glue) - 1 \/ \E k \in DOMAIN parts : t = parts[k]

KeptBy(acc) == Written(Flat(acc.out)) \o Written(acc.current)

LEMMA JoinsFurther ==
  ASSUME NEW acc \in Merges, NEW part \in Strings, NEW n \in Nat, NEW glue \in Strings, Written(glue) = <<>>
  PROVE  /\ Splitter!MergeNext(acc, part, n, glue) \in Merges
         /\ KeptBy(Splitter!MergeNext(acc, part, n, glue)) = KeptBy(acc) \o Written(part)
         /\ LET next == Splitter!MergeNext(acc, part, n, glue)
            IN  /\ next.current \in {part, acc.current \o glue \o part}
                /\ next.current # part => Len(next.current) <= n + Len(glue) - 1
                /\ next.out \in {acc.out, Append(acc.out, acc.current)}
<1> DEFINE next == Splitter!MergeNext(acc, part, n, glue)
           o == acc.out
           c == acc.current
           V == Splitter!Character
<1>1. o \in Seq(Strings) /\ c \in Strings /\ acc = [out |-> o, current |-> c]
  BY DEF Merges
<1>2. Flat(o) \in Strings
  BY <1>1, FlatTyped DEF Strings
<1>3. /\ Written(Flat(o)) \in Strings /\ Written(c) \in Strings /\ Written(part) \in Strings /\ KeptBy(acc) = Written(Flat(o)) \o Written(c)
  BY <1>1, <1>2, KeptConcat DEF KeptBy
<1>4. CASE c = <<>>
  <2>1. next = [out |-> o, current |-> part]
    BY <1>4 DEF Splitter!MergeNext
  <2>2. KeptBy(acc) = Written(Flat(o))
    <3>1. Written(c) = <<>>
      BY <1>4, KeptEmpty
    <3> QED BY <1>3, <3>1 DEF Strings
  <2>3. KeptBy(next) = Written(Flat(o)) \o Written(part)
    BY <2>1 DEF KeptBy
  <2> QED BY <1>1, <2>1, <2>2, <2>3 DEF Merges
<1>5. CASE c # <<>> /\ Splitter!Fits(c, part, n)
  <2> DEFINE t == c \o glue \o part
  <2>1. next = [out |-> o, current |-> t]
    BY <1>5 DEF Splitter!MergeNext
  <2>2. c \o glue \in Strings /\ t \in Strings /\ Written(c \o glue) = Written(c) \o Written(glue) /\ Written(t) = Written(c \o glue) \o Written(part)
    BY <1>1, KeptConcat
  <2>3. Written(c) \o Written(glue) = Written(c)
    BY <1>3 DEF Strings
  <2>4. Written(Flat(o)) \o (Written(c) \o Written(part)) = (Written(Flat(o)) \o Written(c)) \o Written(part)
    <3>1. Written(Flat(o)) \in Seq(V) /\ Written(c) \in Seq(V) /\ Written(part) \in Seq(V)
      BY <1>3 DEF Strings
    <3> DEFINE x == Written(Flat(o))
               y == Written(c)
               z == Written(part)
    <3>2. x \in Seq(V) /\ y \in Seq(V) /\ z \in Seq(V)
      BY <3>1
    <3> HIDE DEF V, x, y, z
    <3>3. x \o (y \o z) = (x \o y) \o z
      BY <3>2, ConcatAssociative, SMTT(30)
    <3> QED BY <3>3 DEF x, y, z
  <2>5. Len(t) <= n + Len(glue) - 1
    <3>1. Len(c \o glue) = Len(c) + Len(glue) /\ Len(t) = Len(c \o glue) + Len(part)
      BY <1>1, <2>2 DEF Strings
    <3>2. Len(c) \in Nat /\ Len(glue) \in Nat /\ Len(part) \in Nat
      BY <1>1 DEF Strings
    <3> QED BY <1>5, <3>1, <3>2 DEF Splitter!Fits
  <2>6. KeptBy(next) = Written(Flat(o)) \o Written(t)
    BY <2>1 DEF KeptBy
  <2> HIDE DEF t
  <2>7. next \in Merges /\ next.current = t /\ next.out = o
    BY <1>1, <2>1, <2>2 DEF Merges
  <2> QED BY <1>3, <2>2, <2>3, <2>4, <2>5, <2>6, <2>7 DEF t
<1>6. CASE c # <<>> /\ ~Splitter!Fits(c, part, n)
  <2> DEFINE q == Append(o, c)
  <2>1. next = [out |-> q, current |-> part]
    BY <1>6 DEF Splitter!MergeNext
  <2>2. q \in Seq(Strings)
    BY <1>1
  <2>3. Flat(q) = Flat(o) \o c
    BY <1>1, FlatAppend DEF Strings
  <2>4. Written(Flat(q)) = Written(Flat(o)) \o Written(c)
    BY <1>1, <1>2, <2>3, KeptConcat
  <2>5. KeptBy(next) = Written(Flat(q)) \o Written(part)
    BY <2>1 DEF KeptBy
  <2> HIDE DEF q
  <2>6. next \in Merges /\ next.current = part /\ next.out = q
    BY <2>1, <2>2 DEF Merges
  <2> QED BY <1>3, <2>4, <2>5, <2>6 DEF q
<1> QED BY <1>4, <1>5, <1>6

LEMMA MergeKeeps ==
  ASSUME NEW parts \in Seq(Strings), NEW n \in Nat, NEW glue \in Strings, Written(glue) = <<>>
  PROVE  /\ Splitter!Merge(parts, n, glue) \in Seq(Strings)
         /\ Written(Flat(Splitter!Merge(parts, n, glue))) = Written(Flat(parts))
         /\ \A k \in DOMAIN Splitter!Merge(parts, n, glue) : Fitting(Splitter!Merge(parts, n, glue)[k], parts, n, glue)
<1> DEFINE m == Len(parts)
           base == [out |-> <<>>, current |-> <<>>]
           Step(a, p) == Splitter!MergeNext(a, p, n, glue)
           Proceeds(f) == f = [k \in 0..m |-> IF k = 0 THEN base ELSE Step(f[k - 1], parts[k])]
           g == CHOOSE f : Proceeds(f)
           G == [p \in (1..m) \X Merges |-> Step(p[2], parts[p[1]])]
           Fit(t) == Fitting(t, parts, n, glue)
<1>1. m \in Nat /\ \A k \in 1..m : parts[k] \in Strings
  OBVIOUS
<1>2. base \in Merges /\ base.out = <<>> /\ base.current = <<>>
  <2>1. <<>> \in Seq(Strings) /\ <<>> \in Strings
    BY KeptEmpty
  <2> QED BY <2>1 DEF Merges
<1>3. \A a \in Merges, p \in Strings :
        /\ Step(a, p) \in Merges /\ KeptBy(Step(a, p)) = KeptBy(a) \o Written(p)
        /\ Step(a, p).current = p \/ Len(Step(a, p).current) <= n + Len(glue) - 1
        /\ Step(a, p).out \in {a.out, Append(a.out, a.current)}
  BY JoinsFurther
<1> HIDE DEF base, Step
<1>4. G \in [(1..m) \X Merges -> Merges] /\ \A i \in 1..m, v \in Merges : G[<<i, v>>] = Step(v, parts[i])
  BY <1>1, <1>3
<1> HIDE DEF G
<1>5. PICK f : Iteration(f, G, Merges, base, m)
  BY <1>1, <1>2, <1>4, Iterates
<1>6. f \in [0..m -> Merges] /\ f[0] = base /\ \A i \in 1..m : f[i] = Step(f[i - 1], parts[i])
  <2>1. f \in [0..m -> Merges] /\ f[0] = base /\ \A i \in 1..m : f[i] = G[<<i, f[i - 1]>>]
    BY <1>5 DEF Iteration
  <2>2. \A i \in 1..m : i - 1 \in 0..m /\ f[i - 1] \in Merges
    BY <1>1, <2>1
  <2> QED BY <1>4, <2>1, <2>2
<1>7. Proceeds(f)
  <2>1. \A i \in 0..m : i = 0 \/ i \in 1..m
    BY <1>1
  <2>2. \A i \in 0..m : f[i] = IF i = 0 THEN base ELSE Step(f[i - 1], parts[i])
    BY <1>1, <1>6, <2>1
  <2> QED BY <1>6, <2>2
<1>8. Proceeds(g)
  <2> HIDE DEF Proceeds
  <2> QED BY <1>7
<1> DEFINE final == Splitter!Merged(parts, n, glue)
           r == Splitter!Merge(parts, n, glue)
<1>9. final = g[m] /\ r = IF final.current = <<>> THEN final.out ELSE Append(final.out, final.current)
  BY DEF Splitter!Merged, Splitter!Merge, base, Step
<1> HIDE DEF g, final, r
<1>10. \A i \in 0..m : g[i] = IF i = 0 THEN base ELSE Step(g[i - 1], parts[i])
  BY <1>8
<1> DEFINE Holds(k) == /\ g[k] \in Merges /\ KeptBy(g[k]) = Written(Flat(SubSeq(parts, 1, k)))
                       /\ Fit(g[k].current) /\ \A i \in DOMAIN g[k].out : Fit(g[k].out[i])
           Good == {k \in Nat : k <= m => Holds(k)}
<1>11. 0 \in Good
  <2>1. g[0] = base
    BY <1>1, <1>10
  <2>2. KeptBy(base) = <<>> /\ Written(Flat(SubSeq(parts, 1, 0))) = <<>>
    <3>1. SubSeq(parts, 1, 0) = <<>> /\ <<>> \o <<>> = <<>>
      BY SubSeqEmpty
    <3> QED BY <1>2, <3>1, FlatEmpty, KeptEmpty DEF KeptBy
  <2>3. Fit(base.current) /\ \A i \in DOMAIN base.out : Fit(base.out[i])
    BY <1>2 DEF Fitting
  <2> QED BY <1>2, <2>1, <2>2, <2>3
<1>12. ASSUME NEW k \in Good PROVE k + 1 \in Good
  <2> SUFFICES ASSUME k + 1 <= m PROVE Holds(k + 1)
    OBVIOUS
  <2> DEFINE a == g[k]
             p == parts[k + 1]
             d == g[k + 1]
             q == SubSeq(parts, 1, k)
  <2>1. k \in Nat /\ k + 1 \in 0..m /\ k + 1 \in 1..m /\ k + 1 # 0 /\ (k + 1) - 1 = k /\ Holds(k)
    BY <1>1
  <2>2. d = Step(a, p) /\ p \in Strings /\ a \in Merges
    BY <1>1, <1>10, <2>1
  <2>3. /\ d \in Merges /\ KeptBy(d) = KeptBy(a) \o Written(p)
        /\ d.current = p \/ Len(d.current) <= n + Len(glue) - 1
        /\ d.out \in {a.out, Append(a.out, a.current)}
    BY <1>3, <2>2
  <2>4. SubSeq(parts, 1, k + 1) = Append(q, p) /\ q \in Seq(Strings)
    BY <2>1, Prefixes
  <2>5. KeptBy(a) = Written(Flat(q)) /\ Fit(a.current) /\ \A i \in DOMAIN a.out : Fit(a.out[i])
    BY <2>1
  <2> HIDE DEF q
  <2>6. Flat(Append(q, p)) = Flat(q) \o p /\ Flat(q) \in Strings
    BY <2>2, <2>4, FlatAppend DEF Strings
  <2>7. KeptBy(d) = Written(Flat(SubSeq(parts, 1, k + 1)))
    <3>1. Written(Flat(q) \o p) = Written(Flat(q)) \o Written(p)
      BY <2>2, <2>6, KeptConcat
    <3> QED BY <2>3, <2>4, <2>5, <2>6, <3>1
  <2>8. Fit(d.current)
    BY <2>1, <2>3 DEF Fitting
  <2>9. \A i \in DOMAIN d.out : Fit(d.out[i])
    <3> DEFINE o == a.out
               c == a.current
    <3>1. o \in Seq(Strings) /\ c \in Strings
      BY <2>2 DEF Merges
    <3>2. \A i \in DOMAIN o : Fit(o[i])
      BY <2>5
    <3>3. Fit(c)
      BY <2>5
    <3> HIDE DEF o, c, Fit
    <3>4. \A i \in DOMAIN Append(o, c) : Fit(Append(o, c)[i])
      <4>1. DOMAIN Append(o, c) = 1..(Len(o) + 1) /\ DOMAIN o = 1..Len(o) /\ Len(o) \in Nat
            /\ Append(o, c)[Len(o) + 1] = c /\ \A i \in 1..Len(o) : Append(o, c)[i] = o[i]
        BY <3>1
      <4>2. \A i \in 1..(Len(o) + 1) : i \in 1..Len(o) \/ i = Len(o) + 1
        BY <4>1
      <4> QED BY <3>2, <3>3, <4>1, <4>2
    <3> QED BY <2>3, <3>2, <3>4 DEF o, c
  <2> QED BY <2>3, <2>7, <2>8, <2>9
<1> HIDE DEF Good
<1>13. Good = Nat
  <2>1. Good \in SUBSET Nat
    BY DEF Good
  <2> QED BY <1>11, <1>12, <2>1, Induction
<1>14. final \in Merges /\ KeptBy(final) = Written(Flat(parts)) /\ Fit(final.current) /\ \A i \in DOMAIN final.out : Fit(final.out[i])
  <2>1. Holds(m)
    BY <1>1, <1>13 DEF Good
  <2>2. SubSeq(parts, 1, m) = parts
    BY Prefixes
  <2> QED BY <1>9, <2>1, <2>2
<1> DEFINE o == final.out
           c == final.current
<1>15. o \in Seq(Strings) /\ c \in Strings /\ Written(Flat(o)) \o Written(c) = Written(Flat(parts))
  BY <1>14 DEF Merges, KeptBy
<1>16. Flat(o) \in Strings
  BY <1>15, FlatTyped DEF Strings
<1>17. CASE c = <<>>
  <2>1. r = o
    BY <1>9, <1>17
  <2>2. Written(Flat(o)) \o Written(c) = Written(Flat(o))
    <3>1. Written(Flat(o)) \in Strings /\ Written(c) = <<>>
      BY <1>16, <1>17, KeptConcat, KeptEmpty
    <3> QED BY <3>1 DEF Strings
  <2> QED BY <1>14, <1>15, <2>1, <2>2 DEF r
<1>18. CASE c # <<>>
  <2>1. r = Append(o, c)
    BY <1>9, <1>18
  <2>2. Flat(Append(o, c)) = Flat(o) \o c
    BY <1>15, FlatAppend DEF Strings
  <2>3. Written(Flat(o) \o c) = Written(Flat(o)) \o Written(c)
    BY <1>15, <1>16, KeptConcat
  <2>4. Fit(c) /\ \A i \in DOMAIN o : Fit(o[i])
    BY <1>14
  <2> HIDE DEF o, c, Fit
  <2>5. Append(o, c) \in Seq(Strings) /\ \A i \in DOMAIN Append(o, c) : Fit(Append(o, c)[i])
    <3>1. DOMAIN Append(o, c) = 1..(Len(o) + 1) /\ DOMAIN o = 1..Len(o) /\ Len(o) \in Nat
          /\ Append(o, c)[Len(o) + 1] = c /\ \A i \in 1..Len(o) : Append(o, c)[i] = o[i]
      BY <1>15
    <3>2. \A i \in 1..(Len(o) + 1) : i \in 1..Len(o) \/ i = Len(o) + 1
      BY <3>1
    <3> QED BY <1>15, <2>4, <3>1, <3>2
  <2> QED BY <1>15, <2>1, <2>2, <2>3, <2>5 DEF r, Fit
<1> QED BY <1>17, <1>18

-----------------------------------------------------------------------------
(* What is still too long.                                                 *)

LEMMA SplitLongKeeps ==
  ASSUME NEW parts \in Seq(Strings), NEW n \in Nat, NEW made,
         \A k \in DOMAIN parts : made[k] \in Seq(Strings) /\ Written(Flat(made[k])) = Written(parts[k])
  PROVE  /\ Splitter!SplitLong(parts, made, n) \in Seq(Strings)
         /\ Written(Flat(Splitter!SplitLong(parts, made, n))) = Written(Flat(parts))
         /\ \A P \in SUBSET Strings : (\A k \in DOMAIN parts : made[k] \in Seq(P)) /\ {t \in Strings : Len(t) <= n} \subseteq P
              => Splitter!SplitLong(parts, made, n) \in Seq(P)
<1> DEFINE x == [k \in DOMAIN parts |-> IF Len(parts[k]) <= n THEN <<parts[k]>> ELSE made[k]]
<1>1. Splitter!SplitLong(parts, made, n) = Flat(x)
  BY DEF Splitter!SplitLong, Splitter!FlattenSeq, Flat
<1>2. DOMAIN x = DOMAIN parts /\ DOMAIN parts = 1..Len(parts) /\ Len(parts) \in Nat /\ \A k \in DOMAIN parts : parts[k] \in Strings
  OBVIOUS
<1>3. \A k \in DOMAIN parts : x[k] \in Seq(Strings) /\ Written(Flat(x[k])) = Written(parts[k])
  <2> TAKE k \in DOMAIN parts
  <2>1. CASE Len(parts[k]) <= n
    <3>1. x[k] = <<parts[k]>> /\ parts[k] \in Strings
      BY <1>2, <2>1
    <3>2. Flat(<<parts[k]>>) = parts[k]
      BY <3>1, FlatOne DEF Strings
    <3> QED BY <3>1, <3>2
  <2>2. CASE ~(Len(parts[k]) <= n)
    BY <2>2
  <2> QED BY <2>1, <2>2
<1>4. ASSUME NEW P, \A k \in DOMAIN parts : x[k] \in Seq(P)
      PROVE  x \in Seq(Seq(P)) /\ Len(x) = Len(parts)
  <2> DEFINE U == Seq(P)
  <2>1. x \in [1..Len(parts) -> U]
    BY <1>2, <1>4
  <2> HIDE DEF U, x
  <2>2. x \in Seq(U) /\ Len(x) = Len(parts)
    BY <1>2, <2>1
  <2> QED BY <2>2 DEF U
<1>5. Flat(x) \in Seq(Strings) /\ Written(Flat(Flat(x))) = Written(Flat(parts))
  <2>1. x \in Seq(Seq(Strings)) /\ Len(x) = Len(parts)
    BY <1>3, <1>4
  <2> HIDE DEF x
  <2> QED BY <1>3, <2>1, KeptAlike
<1>6. ASSUME NEW P \in SUBSET Strings, \A k \in DOMAIN parts : made[k] \in Seq(P), {t \in Strings : Len(t) <= n} \subseteq P
      PROVE  Flat(x) \in Seq(P)
  <2>1. \A k \in DOMAIN parts : x[k] \in Seq(P)
    <3> TAKE k \in DOMAIN parts
    <3>1. CASE Len(parts[k]) <= n
      <4>1. parts[k] \in {t \in Strings : Len(t) <= n}
        BY <1>2, <3>1
      <4>2. x[k] = <<parts[k]>> /\ parts[k] \in P
        BY <1>6, <3>1, <4>1
      <4> HIDE DEF x
      <4> DEFINE e == parts[k]
      <4>3. e \in P
        BY <4>2
      <4> HIDE DEF e
      <4>4. <<e>> \in Seq(P)
        BY <4>3
      <4> QED BY <4>2, <4>4 DEF e
    <3>2. CASE ~(Len(parts[k]) <= n)
      BY <1>6, <3>2
    <3> QED BY <3>1, <3>2
  <2>2. x \in Seq(Seq(P))
    BY <1>4, <2>1
  <2> HIDE DEF x
  <2> QED BY <2>2, FlatTyped
<1> QED BY <1>1, <1>5, <1>6

LEMMA SplitByKeeps ==
  ASSUME NEW parts \in Seq(Strings), NEW n \in Nat,
         NEW sep \in {<<Splitter!Newline, Splitter!Newline>>, <<Splitter!Stop>>, <<>>}
  PROVE  /\ Splitter!SplitBy(parts, sep, n) \in Seq(Strings)
         /\ Written(Flat(Splitter!SplitBy(parts, sep, n))) = Written(Flat(parts))
<1>1. CASE sep = <<>>
  BY <1>1 DEF Splitter!SplitBy
<1>2. CASE sep # <<>>
  <2> DEFINE glue == <<Splitter!Space>>
             made == [k \in DOMAIN parts |-> Splitter!Merge(Splitter!Parts(parts[k], sep), n, glue)]
  <2>1. sep \in Strings /\ Written(sep) = <<>> /\ glue \in Strings /\ Written(glue) = <<>>
    BY <1>2, KeptSeparator
  <2> HIDE DEF glue
  <2>2. ASSUME NEW k \in DOMAIN parts
        PROVE  made[k] \in Seq(Strings) /\ Written(Flat(made[k])) = Written(parts[k])
    <3>1. parts[k] \in Strings
      OBVIOUS
    <3> DEFINE p == Splitter!Parts(parts[k], sep)
    <3>2. p \in Seq(Strings) /\ Written(Flat(p)) = Written(parts[k])
      BY <1>2, <2>1, <3>1, PartsAre
    <3>3. Splitter!Merge(p, n, glue) \in Seq(Strings) /\ Written(Flat(Splitter!Merge(p, n, glue))) = Written(Flat(p))
      BY <2>1, <3>2, MergeKeeps
    <3> QED BY <3>2, <3>3
  <2>3. Splitter!SplitBy(parts, sep, n) = Splitter!SplitLong(parts, made, n)
    BY <1>2 DEF Splitter!SplitBy, glue
  <2> HIDE DEF made
  <2> QED BY <2>2, <2>3, SplitLongKeeps
<1> QED BY <1>1, <1>2

\* The length n divides into pieces, the last of which may be shorter.
LEMMA PiecesAre ==
  ASSUME NEW s \in Strings, NEW n \in Nat \ {0}
  PROVE  Splitter!Pieces(s, n) \in Seq({t \in Strings : Len(t) <= n}) /\ Flat(Splitter!Pieces(s, n)) = s
<1> DEFINE l == Len(s)
           m == (l + n - 1) \div n
           End(k) == IF k * n < l THEN k * n ELSE l
           piece(k) == SubSeq(s, (k - 1) * n + 1, End(k))
           r == Splitter!Pieces(s, n)
           Short == {t \in Strings : Len(t) <= n}
<1>1. l \in Nat
  BY DEF Strings
<1>2. m \in Nat /\ m * n >= l /\ m * n < l + n
  <2>1. l + n - 1 \in Nat
    BY <1>1
  <2>2. m \in Nat /\ m * n <= l + n - 1 /\ l + n - 1 < m * n + n
    BY <2>1
  <2>3. m * n \in Nat
    BY <2>2
  <2> HIDE DEF m
  <2> QED BY <1>1, <2>2, <2>3
<1> HIDE DEF m
<1>3. \A k \in Nat : k * n \in Nat /\ (k + 1) * n = k * n + n
  OBVIOUS
<1>4. ASSUME NEW k \in Nat, k < m PROVE k * n < l
  <2>1. (k + 1) * n <= m * n
    <3>1. PICK j \in Nat : m = (k + 1) + j
      <4>1. m - (k + 1) \in Nat /\ m = (k + 1) + (m - (k + 1))
        BY <1>2, <1>4
      <4> QED BY <4>1
    <3>2. m * n = (k + 1) * n + j * n /\ j * n \in Nat /\ (k + 1) * n \in Nat
      BY <3>1
    <3> QED BY <3>2
  <2>2. k * n \in Nat /\ (k + 1) * n = k * n + n /\ m * n \in Nat
    BY <1>2, <1>3
  <2> QED BY <1>1, <1>2, <2>1, <2>2
<1>5. r = [k \in 1..m |-> piece(k)]
  BY DEF Splitter!Pieces, m
<1>6. ASSUME NEW k \in Nat, k < m
      PROVE  /\ k * n + 1 \in 1..(l + 1) /\ End(k + 1) \in (k * n)..l /\ End(k + 1) - k * n <= n
             /\ End(k) = k * n
  <2> DEFINE a == k * n
             b == (k + 1) * n
  <2>1. a \in Nat /\ b = a + n /\ a < l
    BY <1>3, <1>4, <1>6
  <2> HIDE DEF a, b
  <2>2. End(k + 1) = (IF b < l THEN b ELSE l) /\ End(k) = IF a < l THEN a ELSE l
    BY DEF a, b
  <2> HIDE DEF End
  <2>3. a + 1 \in 1..(l + 1) /\ End(k + 1) \in a..l /\ End(k + 1) - a <= n /\ End(k) = a
    BY <1>1, <2>1, <2>2
  <2> QED BY <2>3 DEF a
<1> HIDE DEF End, l
<1>7. ASSUME NEW k \in Nat, k < m
      PROVE  piece(k + 1) \in Short /\ SubSeq(s, 1, End(k + 1)) = SubSeq(s, 1, End(k)) \o piece(k + 1)
             /\ SubSeq(s, 1, End(k)) \in Strings
  <2> DEFINE a == k * n + 1
             b == End(k + 1)
  <2>1. a \in 1..(Len(s) + 1) /\ b \in (a - 1)..Len(s) /\ b - a + 1 <= n /\ End(k) = a - 1
    <3>1. k * n \in Nat
      BY <1>3
    <3> QED BY <1>1, <1>6, <1>7, <3>1 DEF l
  <2>2. piece(k + 1) = SubSeq(s, a, b)
    <3>1. (k + 1) - 1 = k
      OBVIOUS
    <3> QED BY <3>1
  <2>3. 1 \in 1..(Len(s) + 1) /\ a - 1 \in (1 - 1)..Len(s)
    BY <1>1, <2>1 DEF l
  <2> HIDE DEF a, b, piece
  <2>4. /\ SubSeq(s, a, b) \in Strings /\ Len(SubSeq(s, a, b)) = b - a + 1
        /\ SubSeq(s, 1, b) = SubSeq(s, 1, a - 1) \o SubSeq(s, a, b)
    BY <2>1, TextSlice
  <2>5. SubSeq(s, 1, a - 1) \in Strings
    BY <2>3, TextSlice
  <2> QED BY <2>1, <2>2, <2>4, <2>5 DEF b
<1>8. r \in Seq(Short) /\ Len(r) = m /\ \A k \in 1..m : r[k] = piece(k)
  <2>1. \A k \in 1..m : k - 1 \in Nat /\ k - 1 < m /\ (k - 1) + 1 = k
    BY <1>2
  <2> HIDE DEF piece, Short, r
  <2>2. \A k \in 1..m : piece(k) \in Short
    <3> TAKE k \in 1..m
    <3> DEFINE j == k - 1
    <3>1. j \in Nat /\ j < m /\ j + 1 = k
      BY <2>1
    <3> HIDE DEF j
    <3>2. piece(j + 1) \in Short
      BY <1>7, <3>1
    <3> QED BY <3>1, <3>2
  <2>3. r \in [1..m -> Short]
    BY <1>5, <2>2
  <2> QED BY <1>2, <1>5, <2>3
<1>9. r \in Seq(Strings)
  <2> HIDE DEF r
  <2> QED BY <1>8
<1> DEFINE Holds(k) == Flat(SubSeq(r, 1, k)) = SubSeq(s, 1, End(k))
           Good == {k \in Nat : k <= m => Holds(k)}
<1> HIDE DEF r, piece
<1>10. 0 \in Good
  <2>1. SubSeq(r, 1, 0) = <<>>
    BY SubSeqEmpty
  <2>2. End(0) = 0
    <3>1. 0 * n = 0
      OBVIOUS
    <3> QED BY <1>1, <3>1 DEF End
  <2>3. SubSeq(s, 1, 0) = <<>>
    BY SubSeqEmpty
  <2> QED BY <2>1, <2>2, <2>3, FlatEmpty
<1>11. ASSUME NEW k \in Good PROVE k + 1 \in Good
  <2> SUFFICES ASSUME k + 1 <= m PROVE Holds(k + 1)
    OBVIOUS
  <2>1. k \in Nat /\ k < m /\ k + 1 \in 1..m /\ Holds(k)
    BY <1>2
  <2>2. SubSeq(r, 1, k + 1) = Append(SubSeq(r, 1, k), r[k + 1]) /\ r[k + 1] \in Strings /\ SubSeq(r, 1, k) \in Seq(Strings)
    <3>1. k \in 0..Len(r) /\ k + 1 <= Len(r)
      BY <1>2, <1>8, <2>1
    <3> QED BY <1>9, <2>1, <3>1, Prefixes
  <2>3. Flat(Append(SubSeq(r, 1, k), r[k + 1])) = Flat(SubSeq(r, 1, k)) \o r[k + 1]
    BY <2>2, FlatAppend DEF Strings
  <2>4. r[k + 1] = piece(k + 1) /\ SubSeq(s, 1, End(k + 1)) = SubSeq(s, 1, End(k)) \o piece(k + 1)
    BY <1>7, <1>8, <2>1
  <2> QED BY <2>1, <2>2, <2>3, <2>4
<1> HIDE DEF Good
<1>12. Good = Nat
  <2>1. Good \in SUBSET Nat
    BY DEF Good
  <2> QED BY <1>10, <1>11, <2>1, Induction
<1>13. Holds(m) /\ SubSeq(r, 1, m) = r /\ End(m) = l /\ SubSeq(s, 1, l) = s
  <2>1. Holds(m)
    BY <1>2, <1>12 DEF Good
  <2>2. SubSeq(r, 1, m) = r
    BY <1>8, <1>9, Prefixes
  <2>3. End(m) = l
    <3>1. m * n \in Nat
      BY <1>2, <1>3
    <3> QED BY <1>1, <1>2, <3>1 DEF End
  <2>4. SubSeq(s, 1, l) = s
    BY SubSeqFull DEF Strings, l
  <2> QED BY <2>1, <2>2, <2>3, <2>4
<1> QED BY <1>8, <1>13 DEF r

-----------------------------------------------------------------------------
(* What the splitters return.                                              *)

LEMMA SplitSingleKeeps ==
  ASSUME NEW s \in Strings, NEW n \in Nat \ {0}
  PROVE  /\ Written(Flat(Splitter!SplitSingle(s, n))) = Written(s)
         /\ Splitter!SplitSingle(s, n) \in Seq({t \in Strings : Len(t) <= n})
<1> DEFINE x == <<s>>
           sep(i) == Splitter!Separators[i]
           a == Splitter!SplitBy(x, sep(1), n)
           b == Splitter!SplitBy(a, sep(2), n)
           c == Splitter!SplitBy(b, sep(3), n)
           made == [k \in DOMAIN c |-> Splitter!Pieces(c[k], n)]
           P == {t \in Strings : Len(t) <= n}
<1>1. x \in Seq(Strings) /\ Flat(x) = s
  BY FlatOne DEF Strings
<1>2. Splitter!SplitSingle(s, n) = Splitter!SplitLong(c, made, n)
  BY DEF Splitter!SplitSingle
<1>3. /\ sep(1) \in {<<Splitter!Newline, Splitter!Newline>>, <<Splitter!Stop>>, <<>>}
      /\ sep(2) \in {<<Splitter!Newline, Splitter!Newline>>, <<Splitter!Stop>>, <<>>}
      /\ sep(3) \in {<<Splitter!Newline, Splitter!Newline>>, <<Splitter!Stop>>, <<>>}
  BY DEF Splitter!Separators
<1> HIDE DEF x, sep
<1>4. a \in Seq(Strings) /\ Written(Flat(a)) = Written(s)
  BY <1>1, <1>3, SplitByKeeps
<1> HIDE DEF a
<1>5. b \in Seq(Strings) /\ Written(Flat(b)) = Written(s)
  BY <1>3, <1>4, SplitByKeeps
<1> HIDE DEF b
<1>6. c \in Seq(Strings) /\ Written(Flat(c)) = Written(s)
  BY <1>3, <1>5, SplitByKeeps
<1> HIDE DEF c
<1>7. ASSUME NEW k \in DOMAIN c
      PROVE  made[k] \in Seq(P) /\ made[k] \in Seq(Strings) /\ Written(Flat(made[k])) = Written(c[k])
  <2>1. c[k] \in Strings /\ made[k] = Splitter!Pieces(c[k], n)
    BY <1>6
  <2>2. Splitter!Pieces(c[k], n) \in Seq(P) /\ Flat(Splitter!Pieces(c[k], n)) = c[k]
    BY <2>1, PiecesAre
  <2>3. \A z \in Seq(P) : z \in Seq(Strings)
    OBVIOUS
  <2> HIDE DEF P
  <2> QED BY <2>1, <2>2, <2>3
<1> HIDE DEF made
<1>8. P \in SUBSET Strings /\ {t \in Strings : Len(t) <= n} \subseteq P
  OBVIOUS
<1> HIDE DEF P
<1>9. /\ Written(Flat(Splitter!SplitLong(c, made, n))) = Written(Flat(c))
      /\ Splitter!SplitLong(c, made, n) \in Seq(P)
  BY <1>6, <1>7, <1>8, SplitLongKeeps
<1> QED BY <1>2, <1>6, <1>9 DEF P

LEMMA CharacterSplitKeeps ==
  ASSUME NEW s \in Strings, NEW n \in Nat \ {0}
  PROVE  LET sep == Splitter!Separators[1]
             r == Splitter!CharacterSplit(s, n)
         IN  /\ Written(Flat(r)) = Written(s) /\ r \in Seq(Strings)
             /\ \A k \in DOMAIN r : Len(r[k]) <= n + Len(sep) - 1 \/ Clear(r[k], sep)
<1> DEFINE sep == Splitter!Separators[1]
           p == Splitter!Parts(s, sep)
           r == Splitter!CharacterSplit(s, n)
<1>1. sep \in Strings /\ sep # <<>> /\ Written(sep) = <<>> /\ Len(sep) \in {1, 2}
  <2>1. sep = <<Splitter!Newline, Splitter!Newline>>
    BY DEF Splitter!Separators
  <2> QED BY <2>1, KeptSeparator
<1>2. r = Splitter!Merge(p, n, sep)
  BY DEF Splitter!CharacterSplit
<1> HIDE DEF sep
<1>3. p \in Seq(Strings) /\ Written(Flat(p)) = Written(s) /\ \A k \in DOMAIN p : Clear(p[k], sep)
  BY <1>1, PartsAre
<1> HIDE DEF p, r
<1>4. r \in Seq(Strings) /\ Written(Flat(r)) = Written(Flat(p)) /\ \A k \in DOMAIN r : Fitting(r[k], p, n, sep)
  BY <1>1, <1>2, <1>3, MergeKeeps
<1>5. ASSUME NEW k \in DOMAIN r PROVE Len(r[k]) <= n + Len(sep) - 1 \/ Clear(r[k], sep)
  <2>1. CASE r[k] = <<>>
    <3>1. Len(r[k]) = 0
      BY <2>1
    <3> QED BY <1>1, <3>1
  <2>2. CASE r[k] # <<>>
    BY <1>3, <1>4, <2>2 DEF Fitting
  <2> QED BY <2>1, <2>2
<1> QED BY <1>3, <1>4, <1>5 DEF sep, r

LEMMA OverlappedAre ==
  ASSUME NEW n \in Nat, NEW o \in Nat, NEW w \in Seq({t \in Strings : Len(t) <= n})
  PROVE  /\ DOMAIN Splitter!Overlapped(w, o) = DOMAIN w
         /\ \A k \in DOMAIN w : Len(w[k]) <= n /\ Len(Splitter!Overlapped(w, o)[k]) <= n + o
<1>1. Splitter!Overlapped(w, o) =
        [k \in DOMAIN w |->
           IF k > 1 /\ Len(w[k - 1]) > o THEN SubSeq(w[k - 1], Len(w[k - 1]) - o + 1, Len(w[k - 1])) \o w[k] ELSE w[k]]
  BY DEF Splitter!Overlapped
<1>2. DOMAIN w = 1..Len(w) /\ Len(w) \in Nat /\ \A k \in DOMAIN w : w[k] \in Strings /\ Len(w[k]) <= n /\ Len(w[k]) \in Nat
  BY DEF Strings
<1>3. ASSUME NEW k \in DOMAIN w PROVE Len(Splitter!Overlapped(w, o)[k]) <= n + o
  <2> DEFINE x == w[k - 1]
             e == SubSeq(x, Len(x) - o + 1, Len(x))
  <2>1. CASE k > 1 /\ Len(x) > o
    <3>1. k - 1 \in DOMAIN w
      BY <1>2, <2>1
    <3>2. x \in Strings /\ Len(x) \in Nat
      BY <1>2, <3>1
    <3>3. Splitter!Overlapped(w, o)[k] = e \o w[k]
      BY <1>1, <2>1
    <3> HIDE DEF x
    <3>4. Len(x) - o + 1 \in 1..(Len(x) + 1) /\ Len(x) \in ((Len(x) - o + 1) - 1)..Len(x)
          /\ Len(x) - (Len(x) - o + 1) + 1 = o
      BY <2>1, <3>2
    <3>5. e \in Strings /\ Len(e) = o
      BY <3>2, <3>4, TextSlice
    <3> HIDE DEF e
    <3> DEFINE z == w[k]
    <3>6. z \in Strings
      BY <1>2
    <3> HIDE DEF z
    <3>7. Len(e \o z) = Len(e) + Len(z)
      BY <3>5, <3>6, ConcatProperties DEF Strings
    <3> QED BY <1>2, <3>3, <3>5, <3>7 DEF z
  <2>2. CASE ~(k > 1 /\ Len(x) > o)
    <3>1. Splitter!Overlapped(w, o)[k] = w[k]
      BY <1>1, <2>2
    <3> QED BY <1>2, <3>1
  <2> QED BY <2>1, <2>2
<1> QED BY <1>1, <1>2, <1>3

-----------------------------------------------------------------------------
(* split_text.                                                             *)

SplitInv ==
  /\ splitter \in {"character", "recursive"}
  /\ text \in Strings /\ size \in Nat \ {0} /\ chunkOverlap \in Nat
  /\ ChunksFit

LEMMA TextStarts ==
  ASSUME NEW p \in Splitter!Patterns
  PROVE  Splitter!Text(p) \in Strings
<1> USE LibraryAssumption
<1>1. PICK n \in 0..MaxText : p \in [1..n -> {"letter", "newline", "stop", "space"}]
  BY DEF Splitter!Patterns
<1> DEFINE V == Splitter!Character
<1>2. ASSUME NEW i \in 1..n
      PROVE  (IF p[i] = "letter" THEN Splitter!Letter(i) ELSE <<p[i], 0>>) \in V
  <2>1. CASE p[i] = "letter"
    <3>1. i \in 1..MaxText
      BY <1>1
    <3>2. Splitter!Letter(i) \in Splitter!AnyLetter
      BY <3>1 DEF Splitter!AnyLetter
    <3> QED BY <2>1, <3>2 DEF Splitter!Character
  <2>2. CASE p[i] # "letter"
    <3>1. p[i] \in {"newline", "stop", "space"}
      BY <1>1, <2>2
    <3>2. <<p[i], 0>> \in {Splitter!Newline, Splitter!Stop, Splitter!Space}
      BY <3>1 DEF Splitter!Newline, Splitter!Stop, Splitter!Space
    <3> QED BY <2>2, <3>2 DEF Splitter!Character
  <2> QED BY <2>1, <2>2
<1> HIDE DEF V
<1>3. DOMAIN p = 1..n
  BY <1>1
<1>4. Splitter!Text(p) = [i \in 1..n |-> IF p[i] = "letter" THEN Splitter!Letter(i) ELSE <<p[i], 0>>]
  BY <1>3 DEF Splitter!Text
<1>5. Splitter!Text(p) \in [1..n -> V]
  BY <1>2, <1>4
<1>6. Splitter!Text(p) \in Seq(V)
  BY <1>1, <1>5
<1> QED BY <1>6 DEF V, Strings

LEMMA SplitStarts == MCInit => SplitInv
<1> SUFFICES ASSUME MCInit PROVE SplitInv
  OBVIOUS
<1> USE LibraryAssumption
<1>1. ~split /\ splitter \in {"character", "recursive"}
  BY DEF MCInit, Splitter!Init
<1>2. CASE choice = "splitter"
  <2>1. PICK p \in Splitter!Patterns : text = Splitter!Text(p)
    BY <1>2 DEF MCInit, Splitter!Init
  <2>2. text \in Strings
    BY <2>1, TextStarts
  <2>3. size \in Nat \ {0} /\ chunkOverlap \in Nat
    BY <1>2 DEF MCInit, Splitter!Init
  <2> QED BY <1>1, <2>2, <2>3 DEF SplitInv, ChunksFit, Splitter!ChunksFit
<1>3. CASE choice # "splitter"
  <2>1. text = <<>> /\ size = 1 /\ chunkOverlap = 0
    BY <1>3 DEF MCInit
  <2> QED BY <1>1, <2>1, KeptEmpty DEF SplitInv, ChunksFit, Splitter!ChunksFit
<1> QED BY <1>2, <1>3

LEMMA SplitFits == ASSUME SplitInv, Splitter!SplitText PROVE ChunksFit'
<1> DEFINE n == size
           w == whole'
           P == {t \in Strings : Len(t) <= n}
           sep == Splitter!Separators[1]
<1>1. text \in Strings /\ n \in Nat \ {0} /\ chunkOverlap \in Nat /\ splitter \in {"character", "recursive"}
  BY DEF SplitInv
<1>2. /\ w = IF text = <<>> THEN <<>>
              ELSE IF splitter = "character" THEN Splitter!CharacterSplit(text, n) ELSE Splitter!SplitSingle(text, n)
      /\ chunks' = IF splitter = "recursive" /\ chunkOverlap > 0 THEN Splitter!Overlapped(w, chunkOverlap) ELSE w
      /\ splitter' = splitter /\ text' = text /\ size' = size /\ chunkOverlap' = chunkOverlap
  BY DEF Splitter!SplitText
<1>3. Written(Flat(w)) = Written(text)
  <2>1. CASE text = <<>>
    BY <1>2, <2>1, FlatEmpty
  <2>2. CASE text # <<>> /\ splitter = "character"
    BY <1>1, <1>2, <2>2, CharacterSplitKeeps
  <2>3. CASE text # <<>> /\ splitter # "character"
    BY <1>1, <1>2, <2>3, SplitSingleKeeps
  <2> QED BY <2>1, <2>2, <2>3
<1>4. Splitter!Letters(Splitter!FlattenSeq(w)) = Splitter!Letters(text)
  <2>1. Splitter!FlattenSeq(w) = Flat(w)
    BY DEF Splitter!FlattenSeq, Flat
  <2> QED BY <1>3, <2>1, LettersAreKept
<1>5. ASSUME splitter = "recursive"
      PROVE  \A k \in DOMAIN chunks' : Len(w[k]) <= n /\ Len(chunks'[k]) <= n + chunkOverlap
  <2>1. w \in Seq(P)
    <3>1. CASE text = <<>>
      <4>1. w = <<>>
        BY <1>2, <3>1
      <4> HIDE DEF P
      <4> QED BY <4>1
    <3>2. CASE text # <<>>
      <4>1. w = Splitter!SplitSingle(text, n)
        BY <1>2, <1>5, <3>2
      <4> QED BY <1>1, <4>1, SplitSingleKeeps
    <3> QED BY <3>1, <3>2
  <2> HIDE DEF w
  <2>2. CASE chunkOverlap > 0
    <3>1. chunks' = Splitter!Overlapped(w, chunkOverlap)
      BY <1>2, <1>5, <2>2
    <3> QED BY <1>1, <2>1, <3>1, OverlappedAre
  <2>3. CASE ~(chunkOverlap > 0)
    <3>1. chunks' = w
      BY <1>2, <2>3
    <3>2. \A k \in DOMAIN w : Len(w[k]) <= n /\ Len(w[k]) \in Nat
      BY <2>1 DEF Strings
    <3> QED BY <1>1, <3>1, <3>2
  <2> QED BY <2>2, <2>3
<1>6. ASSUME splitter # "recursive", NEW k \in DOMAIN chunks'
      PROVE  Len(chunks'[k]) <= n + Len(sep) - 1 \/ \A i \in DOMAIN chunks'[k] : ~Splitter!OccursAt(chunks'[k], sep, i)
  <2>1. chunks' = w
    BY <1>2, <1>6
  <2>2. CASE text = <<>>
    BY <1>2, <1>6, <2>1, <2>2
  <2>3. CASE text # <<>> /\ splitter = "character"
    <3>1. chunks' = Splitter!CharacterSplit(text, n)
      BY <1>2, <2>1, <2>3
    <3> QED BY <1>1, <1>6, <3>1, CharacterSplitKeeps DEF Clear
  <2> QED BY <1>1, <1>6, <2>2, <2>3
<1> HIDE DEF w, sep
<1> QED BY <1>2, <1>4, <1>5, <1>6 DEF ChunksFit, Splitter!ChunksFit, w, sep

LEMMA SplitStep == SplitInv /\ [MCNext]_all => SplitInv'
<1> SUFFICES ASSUME SplitInv, [MCNext]_all PROVE SplitInv'
  OBVIOUS
<1>1. CASE Splitter!SplitText
  <2>1. splitter' = splitter /\ text' = text /\ size' = size /\ chunkOverlap' = chunkOverlap
    BY <1>1 DEF Splitter!SplitText
  <2> QED BY <1>1, <2>1, SplitFits DEF SplitInv
<1>2. CASE UNCHANGED splitterVars
  BY <1>2 DEF SplitInv, splitterVars, ChunksFit, Splitter!ChunksFit
<1> QED BY <1>1, <1>2 DEF MCNext, ObserverNext, TimerNext, ConfigNext, SplitterNext, WindowNext, all, utilities, Splitter!Next

(* The splitters lose, repeat and swap no letter of a text; the recursive  *)
(* one's chunks are at most size long, and overlap more where they overlap *)
(* (RecursiveCharacterTextSplitter::split_text); CharacterTextSplitter's   *)
(* exceed the size by less than a separator, unless one has none in it.    *)
THEOREM ChunksAreExact == MCSpec => []ChunksFit
<1>1. MCInit => SplitInv
  BY SplitStarts
<1>2. SplitInv /\ [MCNext]_all => SplitInv'
  BY SplitStep
<1>3. SplitInv => ChunksFit
  BY DEF SplitInv
<1> QED BY <1>1, <1>2, <1>3, PTL DEF MCSpec
=============================================================================

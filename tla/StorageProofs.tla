---------------------------- MODULE StorageProofs ----------------------------
(***************************************************************************)
(* What the memories keep, for every number of objects, sessions, threads, *)
(* ids and documents: the window of the short-term memory, the log of each *)
(* session in LongTermMemory, the agreement of memory and table in         *)
(* SqliteVectorStore, with the transaction that all threads share, and     *)
(* what the searches return of a store to which threads add.               *)
(***************************************************************************)
EXTENDS MCStorage, SequenceFacts, FiniteSetTheorems

-----------------------------------------------------------------------------
(* The short-term memories.  The window is the end of the buffer, for      *)
(* every k, every set of threads and every interleaving of their           *)
(* exchanges.                                                              *)

(* What WindowMemory keeps of a history: its last 2k messages.             *)
LastKept(h) == IF Len(h) > Kept THEN SubSeq(h, Len(h) - Kept + 1, Len(h)) ELSE h

LEMMA KeptNat == Kept \in Nat
  BY WindowAssumption DEF Kept

(* add() keeps a history of messages a history of messages.                *)
LEMMA LastKeptType ==
  ASSUME NEW h \in Seq(Message)
  PROVE  /\ LastKept(h) \in Seq(Message)
         /\ Len(LastKept(h)) = IF Len(h) > Kept THEN Kept ELSE Len(h)
         /\ \A i \in 1 .. Len(LastKept(h)) : LastKept(h)[i] = h[Len(h) - Len(LastKept(h)) + i]
<1>1. CASE Len(h) > Kept
  <2>1. \A i \in (Len(h) - Kept + 1) .. Len(h) : h[i] \in Message
    BY <1>1, KeptNat, LenProperties, ElementOfSeq
  <2>2. Len(h) \in Nat /\ Len(h) - Kept + 1 \in Int /\ Len(h) \in Int
    BY KeptNat, LenProperties
  <2>3. /\ LastKept(h) \in Seq(Message)
        /\ Len(LastKept(h)) = IF Len(h) - Kept + 1 <= Len(h) THEN Len(h) - (Len(h) - Kept + 1) + 1 ELSE 0
        /\ \A i \in 1 .. Len(h) - (Len(h) - Kept + 1) + 1 : LastKept(h)[i] = h[Len(h) - Kept + 1 + i - 1]
    BY <1>1, <2>1, <2>2, SubSeqProperties DEF LastKept
  <2>4. Len(LastKept(h)) = Kept
    BY <2>2, <2>3, KeptNat
  <2>5. ASSUME NEW i \in 1 .. Kept PROVE LastKept(h)[i] = h[Len(h) - Kept + i]
    <3>1. i \in 1 .. Len(h) - (Len(h) - Kept + 1) + 1 /\ Len(h) - Kept + 1 + i - 1 = Len(h) - Kept + i
      BY <2>2, KeptNat
    <3> QED  BY <2>3, <3>1
  <2> QED
    BY <1>1, <2>3, <2>4, <2>5
<1>2. CASE ~(Len(h) > Kept)
  BY <1>2, KeptNat, LenProperties DEF LastKept
<1> QED  BY <1>1, <1>2

(* Evicting from the kept part after an append is the same as keeping the  *)
(* end of the whole history after that append.                             *)
LEMMA EvictAppend ==
  ASSUME NEW h \in Seq(Message), NEW m \in Message
  PROVE  Evict(Append(LastKept(h), m)) = LastKept(Append(h, m))
<1> DEFINE w == LastKept(h)
           a == Append(w, m)
           b == Append(h, m)
<1>1. /\ w \in Seq(Message)
      /\ Len(w) = IF Len(h) > Kept THEN Kept ELSE Len(h)
      /\ \A i \in 1 .. Len(w) : w[i] = h[Len(h) - Len(w) + i]
  BY LastKeptType
<1>2. /\ a \in Seq(Message) /\ Len(a) = Len(w) + 1
      /\ \A i \in 1 .. Len(a) : a[i] = IF i <= Len(w) THEN w[i] ELSE m
  BY <1>1, AppendProperties
<1>3. /\ b \in Seq(Message) /\ Len(b) = Len(h) + 1
      /\ \A i \in 1 .. Len(b) : b[i] = IF i <= Len(h) THEN h[i] ELSE m
  BY AppendProperties
<1>4. Evict(a) = LastKept(a)
  BY DEF Evict, LastKept
<1>5. /\ LastKept(a) \in Seq(Message)
      /\ Len(LastKept(a)) = IF Len(a) > Kept THEN Kept ELSE Len(a)
      /\ \A i \in 1 .. Len(LastKept(a)) : LastKept(a)[i] = a[Len(a) - Len(LastKept(a)) + i]
  BY <1>2, LastKeptType
<1>6. /\ LastKept(b) \in Seq(Message)
      /\ Len(LastKept(b)) = IF Len(b) > Kept THEN Kept ELSE Len(b)
      /\ \A i \in 1 .. Len(LastKept(b)) : LastKept(b)[i] = b[Len(b) - Len(LastKept(b)) + i]
  BY <1>3, LastKeptType
<1>7. Len(h) \in Nat /\ Kept \in Nat
  BY KeptNat, LenProperties
<1>8. Len(LastKept(a)) = Len(LastKept(b))
  BY <1>1, <1>2, <1>3, <1>5, <1>6, <1>7
<1>9. ASSUME NEW i \in 1 .. Len(LastKept(a))
      PROVE  LastKept(a)[i] = LastKept(b)[i]
  <2>1. i \in Nat /\ Len(LastKept(a)) \in Nat /\ Len(w) \in Nat
    BY <1>1, <1>2, <1>5, <1>7
  <2>2. LastKept(a)[i] = a[Len(a) - Len(LastKept(a)) + i]
    BY <1>5
  <2>3. LastKept(b)[i] = b[Len(b) - Len(LastKept(b)) + i]
    BY <1>6, <1>8
  <2>4. CASE i = Len(LastKept(a))
    <3>1. /\ Len(a) - Len(LastKept(a)) + i = Len(a) /\ Len(a) \in 1 .. Len(a)
          /\ ~(Len(a) <= Len(w))
      BY <1>2, <2>1, <2>4
    <3>2. /\ Len(b) - Len(LastKept(b)) + i = Len(b) /\ Len(b) \in 1 .. Len(b)
          /\ ~(Len(b) <= Len(h))
      BY <1>3, <1>7, <1>8, <2>1, <2>4
    <3>3. a[Len(a)] = m /\ b[Len(b)] = m
      BY <1>2, <1>3, <3>1, <3>2
    <3> QED  BY <2>2, <2>3, <3>1, <3>2, <3>3
  <2>5. CASE i < Len(LastKept(a))
    <3> DEFINE j == Len(a) - Len(LastKept(a)) + i
               l == Len(b) - Len(LastKept(b)) + i
    <3>1. Len(a) = Len(w) + 1 /\ Len(b) = Len(h) + 1 /\ Len(LastKept(a)) <= Len(a)
          /\ Len(w) <= Len(h) /\ Len(LastKept(a)) = Len(LastKept(b))
      BY <1>1, <1>2, <1>3, <1>5, <1>7, <1>8
    <3> HIDE DEF w, a, b
    <3>2. j \in 1 .. Len(w) /\ l \in 1 .. Len(h) /\ l = Len(h) - Len(w) + j
      BY <1>7, <2>1, <2>5, <3>1
    <3> HIDE DEF j, l
    <3>3. j \in 1 .. Len(a) /\ j <= Len(w) /\ l \in 1 .. Len(b) /\ l <= Len(h)
      BY <1>7, <2>1, <3>1, <3>2
    <3>4. a[j] = w[j] /\ b[l] = h[l] /\ w[j] = h[l]
      BY <1>1, <1>2, <1>3, <3>2, <3>3
    <3> QED  BY <2>2, <2>3, <3>4 DEF j, l
  <2> QED  BY <2>1, <2>4, <2>5
<1>10. LastKept(a) = LastKept(b)
  BY <1>5, <1>6, <1>8, <1>9, SeqEqual
<1> QED  BY <1>4, <1>10

(* Every thread's exchange leaves both histories sequences of messages.    *)
THEOREM TypeCorrect == Spec => []TypeOK
<1>1. Init => TypeOK
  <2> SUFFICES ASSUME Init PROVE TypeOK
    OBVIOUS
  <2>1. mixed \in BOOLEAN
    BY DEF Init
  <2>2. buffer \in Seq(Message) /\ window \in Seq(Message)
    BY EmptySeq DEF Init
  <2>3. half \in [Threads -> Texts \cup {NoExchange}]
    BY DEF Init
  <2> QED  BY <2>1, <2>2, <2>3 DEF TypeOK
<1>2. TypeOK /\ [Next]_vars => TypeOK'
  <2> SUFFICES ASSUME TypeOK, [Next]_vars PROVE TypeOK'
    OBVIOUS
  <2>1. ASSUME NEW m \in Message, Add(m)
        PROVE  buffer' \in Seq(Message) /\ window' \in Seq(Message)
    <3>1. Append(buffer, m) \in Seq(Message) /\ Append(window, m) \in Seq(Message)
      BY AppendProperties DEF TypeOK
    <3>2. Evict(Append(window, m)) = LastKept(Append(window, m))
      BY DEF Evict, LastKept
    <3> QED  BY <2>1, <3>1, <3>2, LastKeptType DEF Add
  <2>2. ASSUME NEW t \in Threads, NEW x \in Texts, AddQuestion(t, x) PROVE TypeOK'
    <3>1. (mixed \/ Open) \in BOOLEAN
      OBVIOUS
    <3>2. mixed' \in BOOLEAN
      BY <2>2, <3>1 DEF AddQuestion
    <3> QED  BY <2>1, <2>2, <3>2 DEF AddQuestion, TypeOK, Message
  <2>3. ASSUME NEW t \in Threads, AddAnswer(t) PROVE TypeOK'
    BY <2>1, <2>3 DEF AddAnswer, TypeOK, Message
  <2>4. ASSUME NEW t \in Threads, Clear(t) PROVE TypeOK'
    <3>1. Open \in BOOLEAN
      BY DEF Open
    <3>2. mixed' \in BOOLEAN
      BY <2>4, <3>1 DEF Clear
    <3> QED  BY <2>4, <3>2 DEF Clear, TypeOK
  <2>5. CASE UNCHANGED vars
    BY <2>5 DEF vars, TypeOK
  <2> QED  BY <2>2, <2>3, <2>4, <2>5 DEF Next
<1> QED  BY <1>1, <1>2, PTL DEF Spec

(* WindowMemory holds the last 2k messages that BufferMemory holds, or all *)
(* of them: the eviction in add() loses nothing and keeps nothing more.    *)
THEOREM WindowKeepsTheEnd == Spec => []WindowIsSuffix
<1>1. Init => WindowIsSuffix
  BY KeptNat DEF Init, WindowIsSuffix
<1>2. TypeOK /\ WindowIsSuffix /\ [Next]_vars => WindowIsSuffix'
  <2> SUFFICES ASSUME TypeOK, WindowIsSuffix, [Next]_vars PROVE WindowIsSuffix'
    OBVIOUS
  <2>1. ASSUME NEW m \in Message, Add(m) PROVE WindowIsSuffix'
    <3>1. window = LastKept(buffer) /\ buffer \in Seq(Message)
      BY DEF WindowIsSuffix, LastKept, TypeOK
    <3>2. window' = LastKept(buffer')
      BY <2>1, <3>1, EvictAppend DEF Add
    <3> QED  BY <3>2 DEF WindowIsSuffix, LastKept, Kept
  <2>2. ASSUME NEW t \in Threads, NEW x \in Texts, AddQuestion(t, x) PROVE WindowIsSuffix'
    BY <2>1, <2>2 DEF AddQuestion, Message
  <2>3. ASSUME NEW t \in Threads, AddAnswer(t) PROVE WindowIsSuffix'
    BY <2>1, <2>3 DEF AddAnswer, Message, TypeOK
  <2>4. ASSUME NEW t \in Threads, Clear(t) PROVE WindowIsSuffix'
    BY <2>4, KeptNat DEF Clear, WindowIsSuffix, Kept
  <2>5. CASE UNCHANGED vars
    BY <2>5 DEF vars, WindowIsSuffix, Kept
  <2> QED  BY <2>2, <2>3, <2>4, <2>5 DEF Next
<1> QED  BY <1>1, <1>2, TypeCorrect, PTL DEF Spec

-----------------------------------------------------------------------------
(* Whole exchanges.                                                        *)

(* A history of questions, each followed by its answer.                    *)
Paired(h) ==
  \A i \in DOMAIN h :
    IF i % 2 = 1 THEN h[i].role = "user"
    ELSE h[i] = [role |-> "assistant", text |-> h[i - 1].text]

(* While exchanges do not overlap, the buffer is paired, and it ends with  *)
(* a question exactly when one thread is between its two calls of add().   *)
OneOpen == \A t, u \in Threads : half[t] # NoExchange /\ half[u] # NoExchange => t = u
LastAsked ==
  IF Open
    THEN /\ Len(buffer) % 2 = 1
         /\ \A t \in Threads : half[t] # NoExchange => buffer[Len(buffer)].text = half[t]
    ELSE Len(buffer) % 2 = 0
ExchangeInv == ~mixed => OneOpen /\ Paired(buffer) /\ LastAsked

LEMMA Parity ==
  ASSUME NEW n \in Nat
  PROVE  /\ n % 2 = 0 <=> (n + 1) % 2 = 1
         /\ n % 2 = 0 \/ n % 2 = 1
OBVIOUS

LEMMA EvenDifference ==
  ASSUME NEW n \in Nat, NEW k \in Nat, n % 2 = 0
  PROVE  (n - (k + k)) % 2 = 0
OBVIOUS

LEMMA EvenSum ==
  ASSUME NEW n \in Nat, NEW i \in Nat, n % 2 = 0
  PROVE  (n + i) % 2 = i % 2
OBVIOUS

(* A question after an answer, or its answer after a question, leaves a    *)
(* history paired.                                                         *)
LEMMA PairedAppend ==
  ASSUME NEW h \in Seq(Message), NEW m \in Message, Paired(h),
         IF Len(h) % 2 = 0 THEN m.role = "user"
         ELSE m = [role |-> "assistant", text |-> h[Len(h)].text]
  PROVE  Paired(Append(h, m))
<1> DEFINE b == Append(h, m)
<1>1. /\ Len(h) \in Nat /\ DOMAIN h = 1 .. Len(h) /\ DOMAIN b = 1 .. Len(h) + 1
      /\ \A i \in 1 .. Len(h) : b[i] = h[i]
      /\ b[Len(h) + 1] = m
  BY AppendProperties, LenProperties
<1> HIDE DEF b
<1>2. ASSUME NEW i \in 1 .. Len(h) + 1
      PROVE  IF i % 2 = 1 THEN b[i].role = "user"
             ELSE b[i] = [role |-> "assistant", text |-> b[i - 1].text]
  <2>1. CASE i = Len(h) + 1
    <3>1. CASE Len(h) % 2 = 0
      BY <1>1, <2>1, <3>1, Parity
    <3>2. CASE Len(h) % 2 = 1
      <4>1. Len(h) \in 1 .. Len(h) /\ i - 1 = Len(h) /\ i % 2 # 1
        BY <1>1, <2>1, <3>2, Parity
      <4> QED  BY <1>1, <2>1, <3>2, <4>1
    <3> QED  BY <1>1, <3>1, <3>2, Parity
  <2>2. CASE i # Len(h) + 1
    <3>1. i \in 1 .. Len(h) /\ b[i] = h[i]
      BY <1>1, <2>2
    <3>2. CASE i % 2 = 1
      BY <1>1, <3>1, <3>2 DEF Paired
    <3>3. CASE i % 2 # 1
      <4>1. i - 1 \in 1 .. Len(h)
        BY <1>1, <3>1, <3>3
      <4>2. b[i - 1] = h[i - 1] /\ h[i] = [role |-> "assistant", text |-> h[i - 1].text]
        BY <1>1, <3>1, <3>3, <4>1 DEF Paired
      <4> QED  BY <3>1, <3>3, <4>2
    <3> QED  BY <3>2, <3>3
  <2> QED  BY <2>1, <2>2
<1> QED  BY <1>1, <1>2 DEF Paired, b

LEMMA ExchangeInductive == TypeOK /\ ExchangeInv /\ [Next]_vars => ExchangeInv'
<1> SUFFICES ASSUME TypeOK, ExchangeInv, [Next]_vars, ~mixed'
             PROVE  OneOpen' /\ Paired(buffer)' /\ LastAsked'
  BY DEF ExchangeInv
<1>0. buffer \in Seq(Message) /\ Len(buffer) \in Nat
  BY LenProperties DEF TypeOK
<1>1. ASSUME NEW t \in Threads, NEW x \in Texts, AddQuestion(t, x)
      PROVE  OneOpen' /\ Paired(buffer)' /\ LastAsked'
  <2> DEFINE m == [role |-> "user", text |-> x]
  <2>1. ~mixed /\ ~Open /\ buffer' = Append(buffer, m) /\ half' = [half EXCEPT ![t] = x]
    BY <1>1 DEF AddQuestion, Add
  <2>2. Paired(buffer) /\ Len(buffer) % 2 = 0 /\ m \in Message
    BY <2>1 DEF ExchangeInv, LastAsked, Message
  <2>3. Paired(buffer')
    BY <1>0, <2>1, <2>2, PairedAppend
  <2>4. /\ half'[t] = x /\ x # NoExchange
        /\ \A u \in Threads \ {t} : half'[u] = NoExchange
    BY <2>1, WindowAssumption DEF Open, TypeOK
  <2>5. Len(buffer') = Len(buffer) + 1 /\ buffer'[Len(buffer')].text = x
    BY <1>0, <2>1, <2>2, AppendProperties
  <2>6. Len(buffer') % 2 = 1
    BY <1>0, <2>2, <2>5, Parity
  <2> QED  BY <2>3, <2>4, <2>5, <2>6 DEF OneOpen, LastAsked, Open, Paired
<1>2. ASSUME NEW t \in Threads, AddAnswer(t)
      PROVE  OneOpen' /\ Paired(buffer)' /\ LastAsked'
  <2> DEFINE m == [role |-> "assistant", text |-> half[t]]
  <2>1. /\ ~mixed /\ half[t] # NoExchange /\ Open
        /\ buffer' = Append(buffer, m) /\ half' = [half EXCEPT ![t] = NoExchange]
    BY <1>2 DEF AddAnswer, Add, Open
  <2>2. /\ Paired(buffer) /\ Len(buffer) % 2 = 1 /\ OneOpen
        /\ buffer[Len(buffer)].text = half[t] /\ m \in Message
    BY <2>1 DEF ExchangeInv, LastAsked, Message, TypeOK
  <2>3. Paired(buffer')
    BY <1>0, <2>1, <2>2, PairedAppend
  <2>4. \A u \in Threads : half'[u] = NoExchange
    BY <2>1, <2>2 DEF OneOpen, TypeOK
  <2>5. Len(buffer') = Len(buffer) + 1
    BY <1>0, <2>1, <2>2, AppendProperties
  <2>6. Len(buffer') % 2 = 0
    BY <1>0, <2>2, <2>5, Parity
  <2> QED  BY <2>3, <2>4, <2>6 DEF OneOpen, LastAsked, Open, Paired
<1>3. ASSUME NEW t \in Threads, Clear(t)
      PROVE  OneOpen' /\ Paired(buffer)' /\ LastAsked'
  <2>1. ~Open /\ buffer' = <<>> /\ half' = half
    BY <1>3 DEF Clear
  <2>2. Len(buffer') = 0 /\ DOMAIN buffer' = {} /\ 0 % 2 = 0
    BY <2>1, EmptySeq
  <2> QED  BY <2>1, <2>2 DEF OneOpen, LastAsked, Open, Paired
<1>4. CASE UNCHANGED vars
  BY <1>4 DEF vars, ExchangeInv, OneOpen, LastAsked, Open, Paired
<1> QED  BY <1>1, <1>2, <1>3, <1>4 DEF Next

(* The window starts at an odd place of the buffer, so what WindowMemory   *)
(* gives out between exchanges that did not overlap are whole exchanges,   *)
(* for every k.                                                            *)
THEOREM WindowOfWholeExchanges == Spec => []WholeExchanges
<1>1. Init => ExchangeInv
  <2> SUFFICES ASSUME Init PROVE OneOpen /\ Paired(buffer) /\ LastAsked
    BY DEF ExchangeInv
  <2>1. Len(buffer) = 0 /\ DOMAIN buffer = {} /\ 0 % 2 = 0
    BY EmptySeq DEF Init
  <2> QED  BY <2>1 DEF Init, OneOpen, Paired, LastAsked, Open
<1>2. TypeOK /\ WindowIsSuffix /\ ExchangeInv => WholeExchanges
  <2> SUFFICES ASSUME TypeOK, WindowIsSuffix, ExchangeInv, ~Open, ~mixed, NEW i \in DOMAIN window
               PROVE  IF i % 2 = 1 THEN window[i].role = "user"
                      ELSE window[i] = [role |-> "assistant", text |-> window[i - 1].text]
    BY DEF WholeExchanges
  <2>1. /\ buffer \in Seq(Message) /\ window = LastKept(buffer)
        /\ Paired(buffer) /\ Len(buffer) % 2 = 0
    BY DEF TypeOK, WindowIsSuffix, LastKept, ExchangeInv, LastAsked
  <2> DEFINE d == Len(buffer) - Len(window)
  <2>2. /\ window \in Seq(Message) /\ Len(window) \in Nat /\ Len(buffer) \in Nat
        /\ DOMAIN window = 1 .. Len(window) /\ DOMAIN buffer = 1 .. Len(buffer)
        /\ Len(window) = IF Len(buffer) > Kept THEN Kept ELSE Len(buffer)
        /\ \A j \in 1 .. Len(window) : window[j] = buffer[d + j]
    BY <2>1, LastKeptType, LenProperties
  <2>3. d \in Nat /\ d % 2 = 0
    <3>1. K \in Nat /\ Kept = K + K
      BY WindowAssumption DEF Kept
    <3>2. CASE Len(buffer) > Kept
      <4>1. d = Len(buffer) - (K + K) /\ d \in Nat
        BY <2>2, <3>1, <3>2
      <4> HIDE DEF d
      <4> QED  BY <2>1, <2>2, <3>1, <4>1, EvenDifference
    <3>3. CASE ~(Len(buffer) > Kept)
      <4>1. d = 0
        BY <2>2, <3>3
      <4> QED  BY <4>1
    <3> QED  BY <3>2, <3>3
  <2> HIDE DEF d
  <2>4. d + i \in 1 .. Len(buffer) /\ i \in 1 .. Len(window) /\ window[i] = buffer[d + i]
    BY <2>2, <2>3 DEF d
  <2>5. (d + i) % 2 = i % 2
    <3>1. i \in Nat
      BY <2>2, <2>4
    <3> QED  BY <2>3, <3>1, EvenSum
  <2>6. CASE i % 2 = 1
    <3>1. buffer[d + i].role = "user"
      BY <2>1, <2>2, <2>4, <2>5, <2>6 DEF Paired
    <3> QED  BY <2>4, <2>6, <3>1
  <2>7. CASE i % 2 # 1
    <3>1. i - 1 \in 1 .. Len(window) /\ d + (i - 1) = d + i - 1
      <4>1. i \in Nat /\ i # 1
        BY <2>2, <2>4, <2>7
      <4> QED  BY <2>2, <2>3, <2>4, <4>1
    <3>2. window[i - 1] = buffer[d + i - 1]
      BY <2>2, <3>1
    <3>3. window[i] = [role |-> "assistant", text |-> buffer[d + i - 1].text]
      <4>1. d + i \in DOMAIN buffer /\ (d + i) % 2 # 1
        BY <2>2, <2>4, <2>5, <2>7
      <4>2. i \in Int
        BY <2>2, <2>4
      <4>3. buffer[d + i] = [role |-> "assistant", text |-> buffer[d + i - 1].text]
        BY <2>1, <2>3, <4>1, <4>2 DEF Paired
      <4> QED  BY <2>4, <4>3
    <3> QED  BY <2>7, <3>2, <3>3
  <2> QED  BY <2>6, <2>7
<1> QED  BY <1>1, <1>2, ExchangeInductive, TypeCorrect, WindowKeepsTheEnd, PTL DEF Spec

-----------------------------------------------------------------------------
(* What each of the three instances keeps, and what the facts say of it.   *)

LEMMA OnlyIsSifted ==
  ASSUME NEW s, NEW S
  PROVE  Long!Only(s, S) = Sifted(s, S) /\ Sqlite!Only(s, S) = Sifted(s, S) /\ Own!Only(s, S) = Sifted(s, S)
BY DEF Long!Only, Sqlite!Only, Own!Only, Sifted

LEMMA OnlyEmpty == ASSUME NEW S PROVE Long!Only(<<>>, S) = <<>>
BY OnlyIsSifted, SiftedEmpty

LEMMA OnlyAppend ==
  ASSUME NEW T, NEW s \in Seq(T), NEW e \in T, NEW S
  PROVE  Long!Only(Append(s, e), S) = IF e \in S THEN Append(Long!Only(s, S), e) ELSE Long!Only(s, S)
BY OnlyIsSifted, SiftedAppend

LEMMA OnlyHolds ==
  ASSUME NEW T, NEW s \in Seq(T), NEW S
  PROVE  Long!Only(s, S) \in Seq(T \cap S)
BY OnlyIsSifted, SiftedHolds

LEMMA OnlyTwice ==
  ASSUME NEW T, NEW s \in Seq(T), NEW S, NEW U
  PROVE  Long!Only(Long!Only(s, S), U) = Long!Only(s, S \cap U)
<1>1. Sifted(Sifted(s, S), U) = Sifted(s, S \cap U)
  BY SiftedTwice
<1> QED BY <1>1, OnlyIsSifted

-----------------------------------------------------------------------------
(* LongTermMemory.                                                         *)

LongTypes ==
  /\ backend \in Backends /\ users \subseteq Objects
  /\ store \in Seq(Long!Line \cup {Long!Garbage})
  /\ torn \in BOOLEAN /\ exists \in BOOLEAN
  /\ session \in [Objects -> Sessions \cup {None}]
  /\ cache \in [Objects -> Seq(Long!Line)]
  /\ dirty \in [Objects -> BOOLEAN]
  /\ writer \in Objects \cup {None} /\ adding \in Msgs \cup {None}
  /\ log \in [Sessions -> Seq(Long!Line)] /\ damaged \subseteq Sessions /\ blind \subseteq Objects

(* Lines are torn, and unreadable, in the json backend only; the lock is   *)
(* that of an open object of the other.                                    *)
LongShape ==
  /\ torn => backend = "json" /\ store # <<>>
  /\ writer # None => backend = "sqlite" /\ session[writer] \in Sessions /\ adding \in Msgs
  /\ \A o \in Objects : IF session[o] = None THEN cache[o] = <<>> /\ o \notin blind ELSE o \in users

(* A cache that is trusted holds messages of the object's session, and all *)
(* of them when no other object writes to the file and nothing failed that *)
(* the object did; it is empty if the file could not be read at first.     *)
CacheHeld(o) ==
  backend = "json" /\ session[o] # None /\ ~dirty[o] =>
    /\ \A i \in DOMAIN cache[o] : cache[o][i].session = session[o]
    /\ o \in blind => cache[o] = <<>>
    /\ users = {o} /\ o \notin blind /\ session[o] \notin damaged => cache[o] = Long!Load(session[o])

LongInv == LongTypes /\ LongShape /\ (\A o \in Objects : CacheHeld(o)) /\ Long!Durable

LEMMA Lines ==
  ASSUME NEW s \in Sessions
  PROVE  /\ Long!Garbage \notin Long!Of(s) /\ Long!Of(s) \subseteq Long!Line
         /\ \A t \in Sessions, m \in Msgs : /\ [session |-> t, msg |-> m] \in Long!Line
                                            /\ [session |-> t, msg |-> m] \in Long!Of(s) <=> t = s
         /\ Long!Garbage.session = None /\ \A l \in Long!Line : l.session \in Sessions
<1>1. Long!Garbage.session = None
  BY DEF Long!Garbage
<1>2. \A l \in Long!Line : l.session \in Sessions
  BY DEF Long!Line
<1>3. Long!Garbage \notin Long!Line
  BY <1>1, <1>2, StorageAssumption
<1>4. \A t \in Sessions, m \in Msgs : [session |-> t, msg |-> m] \in Long!Line
  BY DEF Long!Line
<1> QED BY <1>1, <1>2, <1>3, <1>4 DEF Long!Of

\* What messages() finds holds messages of the session.
LEMMA LoadsItsOwn ==
  ASSUME LongTypes, NEW s \in Sessions
  PROVE  /\ Long!Load(s) \in Seq(Long!Line)
         /\ \A i \in DOMAIN Long!Load(s) : Long!Load(s)[i].session = s
<1> DEFINE A == (Long!Line \cup {Long!Garbage}) \cap Long!Of(s)
<1>1. Long!Load(s) \in Seq(A)
  BY OnlyHolds DEF LongTypes, Long!Load
<1>2. \A l \in A : l \in Long!Line /\ l.session = s
  BY Lines DEF Long!Of
<1> HIDE DEF A
<1> QED BY <1>1, <1>2

\* An append adds its line to one session, unless the last line was torn: then
\* what that line held is lost, and the other sessions keep theirs.
LEMMA LoadAppended ==
  ASSUME LongTypes, LongShape, NEW l \in Long!Line \cup {Long!Garbage}, NEW s \in Sessions
  PROVE  /\ Long!Appended(l) \in Seq(Long!Line \cup {Long!Garbage}) /\ Long!Appended(l) # <<>>
         /\ ~torn => Long!Only(Long!Appended(l), Long!Of(s)) =
                       IF l \in Long!Of(s) THEN Append(Long!Load(s), l) ELSE Long!Load(s)
         /\ torn /\ s \notin Long!TornSession => Long!Only(Long!Appended(l), Long!Of(s)) = Long!Load(s)
<1> DEFINE A == Long!Line \cup {Long!Garbage}
           front == Long!Front(store)
           last == Long!Last(store)
<1>1. store \in Seq(A) /\ l \in A /\ Long!Garbage \in A
  BY DEF LongTypes
<1>2. torn => front \in Seq(A) /\ last \in A /\ store = Append(front, last)
  BY <1>1 DEF LongShape, Long!Front, Long!Last
<1> HIDE DEF A, front, last
<1>3. Long!Appended(l) = IF torn THEN Append(front, Long!Garbage) ELSE Append(store, l)
  BY DEF Long!Appended, front
<1>4. Long!Appended(l) \in Seq(A) /\ Long!Appended(l) # <<>>
  BY <1>1, <1>2, <1>3
<1>5. ~torn => Long!Only(Long!Appended(l), Long!Of(s)) =
                 IF l \in Long!Of(s) THEN Append(Long!Load(s), l) ELSE Long!Load(s)
  BY <1>1, <1>3, OnlyAppend DEF Long!Load
<1>6. ASSUME torn, s \notin Long!TornSession
      PROVE  Long!Only(Long!Appended(l), Long!Of(s)) = Long!Load(s)
  <2>1. last.session # s
    BY <1>6, StorageAssumption DEF Long!TornSession, last
  <2>2. last \notin Long!Of(s)
    BY <2>1 DEF Long!Of
  <2>3. Long!Load(s) = Long!Only(front, Long!Of(s))
    <3>1. front \in Seq(A) /\ last \in A
      BY <1>2, <1>6
    <3>2. Long!Only(Append(front, last), Long!Of(s)) = Long!Only(front, Long!Of(s))
      BY <3>1, <2>2, OnlyAppend
    <3> QED BY <1>2, <1>6, <3>2 DEF Long!Load
  <2>4. Long!Only(Append(front, Long!Garbage), Long!Of(s)) = Long!Only(front, Long!Of(s))
    BY <1>1, <1>2, <1>6, Lines, OnlyAppend
  <2> QED BY <1>3, <1>6, <2>3, <2>4
<1> QED BY <1>4, <1>5, <1>6 DEF A

LEMMA LongStarts == Long!Init => LongInv
<1> SUFFICES ASSUME Long!Init PROVE LongInv
  OBVIOUS
<1>1. LongTypes
  <2>1. <<>> \in Seq(Long!Line) /\ <<>> \in Seq(Long!Line \cup {Long!Garbage})
    OBVIOUS
  <2>2. cache \in [Objects -> Seq(Long!Line)] /\ log \in [Sessions -> Seq(Long!Line)]
    BY <2>1 DEF Long!Init
  <2> QED BY <2>1, <2>2 DEF Long!Init, LongTypes
<1>2. LongShape /\ \A o \in Objects : CacheHeld(o)
  BY DEF Long!Init, LongShape, CacheHeld
<1>3. Long!Durable
  BY OnlyEmpty DEF Long!Init, Long!Durable, Long!Load
<1> QED BY <1>1, <1>2, <1>3 DEF LongInv

\* The operations that leave the file and the log alone.
LEMMA LongSessionSteps ==
  ASSUME LongInv, NEW o \in Objects, NEW s \in Sessions, UNCHANGED <<backend, users>>,
         \/ Long!Open(o, s) \/ Long!OpenBlind(o, s) \/ Long!SetSessionId(o, s) \/ Long!SwitchSession(o, s)
         \/ Long!Messages(o) \/ Long!MessagesUnread(o)
  PROVE  LongInv'
<1> USE DEF LongInv, Long!fileVars, Long!lockVars, Long!logVars, Long!cacheVars
<1>1. /\ UNCHANGED <<store, torn, exists, writer, adding, log, damaged, backend, users>>
      /\ \A p \in Objects \ {o} : /\ session'[p] = session[p] /\ cache'[p] = cache[p] /\ dirty'[p] = dirty[p]
                                /\ (p \in blind' <=> p \in blind)
  <2>1. CASE Long!Open(o, s)
    BY <2>1 DEF Long!Open, LongTypes
  <2>2. CASE Long!SetSessionId(o, s)
    BY <2>2 DEF Long!SetSessionId, LongTypes
  <2>3. CASE Long!SwitchSession(o, s)
    BY <2>3 DEF Long!SwitchSession, LongTypes
  <2>4. CASE Long!Messages(o)
    BY <2>4 DEF Long!Messages, LongTypes
  <2>5. CASE Long!OpenBlind(o, s)
    BY <2>5 DEF Long!OpenBlind, LongTypes
  <2>6. CASE Long!MessagesUnread(o)
    BY <2>6 DEF Long!MessagesUnread, LongTypes
  <2> QED BY <2>1, <2>2, <2>3, <2>4, <2>5, <2>6
<1>2. LongTypes' /\ (session[o] = None => o # writer) /\ session'[o] \in Sessions /\ o \in users /\ (writer = o => session' = session)
  <2>1. CASE Long!Open(o, s)
    BY <2>1, LoadsItsOwn, StorageAssumption DEF Long!Open, LongTypes, LongShape
  <2>2. CASE Long!SetSessionId(o, s)
    BY <2>2, StorageAssumption DEF Long!SetSessionId, Long!Opened, LongTypes, LongShape
  <2>3. CASE Long!SwitchSession(o, s)
    BY <2>3, StorageAssumption DEF Long!SwitchSession, Long!Opened, LongTypes, LongShape
  <2>4. CASE Long!Messages(o)
    <3>1. session[o] \in Sessions
      BY <2>4 DEF Long!Messages, Long!Opened, LongTypes
    <3> QED BY <2>4, <3>1, LoadsItsOwn, StorageAssumption DEF Long!Messages, Long!Opened, LongTypes, LongShape
  <2>5. CASE Long!OpenBlind(o, s)
    BY <2>5, StorageAssumption DEF Long!OpenBlind, LongTypes, LongShape
  <2>6. CASE Long!MessagesUnread(o)
    <3>1. <<>> \in Seq(Long!Line)
      OBVIOUS
    <3>2. cache' = [cache EXCEPT ![o] = <<>>] /\ cache' \in [Objects -> Seq(Long!Line)]
      BY <2>6, <3>1 DEF Long!MessagesUnread, LongTypes
    <3> QED BY <2>6, <3>2, StorageAssumption DEF Long!MessagesUnread, Long!Opened, LongTypes, LongShape
  <2> QED BY <2>1, <2>2, <2>3, <2>4, <2>5, <2>6
<1>3. LongShape'
  <2>1. \A p \in Objects \ {o} : IF session'[p] = None THEN cache'[p] = <<>> /\ p \notin blind' ELSE p \in users'
    BY <1>1 DEF LongShape
  <2>2. session'[o] # None /\ o \in users'
    BY <1>1, <1>2, StorageAssumption
  <2>3. /\ torn' => backend' = "json" /\ store' # <<>>
        /\ writer' # None => backend' = "sqlite" /\ session'[writer] \in Sessions /\ adding' \in Msgs
    BY <1>1, <1>2, StorageAssumption DEF LongShape, LongTypes
  <2> QED BY <1>1, <2>1, <2>2, <2>3 DEF LongShape
<1>4. CacheHeld(o)'
  <2>1. CASE Long!Open(o, s)
    <3>1. backend = "json" => session'[o] = s /\ cache'[o] = Long!Load(s) /\ blind' = blind
      BY <2>1 DEF Long!Open, LongTypes
    <3>2. o \notin blind
      BY <2>1 DEF Long!Open, LongShape
    <3> QED BY <1>1, <3>1, <3>2, LoadsItsOwn DEF CacheHeld, Long!Load
  <2>2. CASE Long!SetSessionId(o, s)
    BY <1>1, <2>2 DEF Long!SetSessionId, LongTypes, CacheHeld
  <2>3. CASE Long!SwitchSession(o, s)
    BY <1>1, <2>3 DEF Long!SwitchSession, CacheHeld
  <2>4. CASE Long!Messages(o)
    <3>1. session' = session /\ session[o] \in Sessions /\ cache'[o] = Long!Load(session[o]) /\ o \notin blind'
      BY <2>4 DEF Long!Messages, Long!Opened, LongTypes
    <3> QED BY <1>1, <3>1, LoadsItsOwn DEF CacheHeld, Long!Load
  <2>5. CASE Long!OpenBlind(o, s)
    <3>1. cache[o] = <<>> /\ cache' = cache /\ o \in blind'
      BY <2>5 DEF Long!OpenBlind, LongShape
    <3> QED BY <3>1 DEF CacheHeld
  <2>6. CASE Long!MessagesUnread(o)
    BY <2>6 DEF Long!MessagesUnread, CacheHeld
  <2> QED BY <2>1, <2>2, <2>3, <2>4, <2>5, <2>6
<1>5. ASSUME NEW p \in Objects \ {o} PROVE CacheHeld(p)'
  <2>1. session'[p] = session[p] /\ cache'[p] = cache[p] /\ dirty'[p] = dirty[p] /\ (p \in blind' <=> p \in blind)
    BY <1>1
  <2>2. CacheHeld(p) /\ UNCHANGED <<store, damaged, backend, users>>
    BY <1>1
  <2> QED BY <2>1, <2>2 DEF CacheHeld, Long!Load
<1>6. Long!Durable'
  BY <1>1 DEF Long!Durable, Long!Load
<1> QED BY <1>2, <1>3, <1>4, <1>5, <1>6

\* add() of the json backend: the object's cache is not trusted any more.
LEMMA LongAddJson ==
  ASSUME LongInv, NEW o \in Objects, NEW m \in Msgs, UNCHANGED <<backend, users>>,
         Long!AddJson(o, m) \/ Long!AddJsonLost(o, m) \/ Long!AddJsonThrows(o, m)
  PROVE  LongInv'
<1> DEFINE l == [session |-> session[o], msg |-> m]
<1> USE DEF LongInv, Long!lockVars
<1>1. /\ backend = "json" /\ session[o] \in Sessions /\ o \in users /\ writer = None
      /\ UNCHANGED <<session, writer, adding, backend, users, blind>>
      /\ cache' = [cache EXCEPT ![o] = Append(@, l)] /\ dirty' = [dirty EXCEPT ![o] = TRUE] /\ exists' \in BOOLEAN
  BY DEF Long!AddJson, Long!AddJsonLost, Long!AddJsonThrows, Long!fileVars, Long!Opened, LongTypes, LongShape
<1>2. l \in Long!Line /\ \A s \in Sessions : l \in Long!Of(s) <=> s = session[o]
  BY <1>1, Lines
<1> HIDE DEF l
<1>3. /\ store' \in Seq(Long!Line \cup {Long!Garbage}) /\ torn' \in BOOLEAN /\ (torn' => store' # <<>>)
      /\ log' \in [Sessions -> Seq(Long!Line)] /\ damaged' \subseteq Sessions /\ damaged \subseteq damaged' /\ Long!Durable'
  <2>1. Long!TornSession \subseteq Sessions
    <3>1. torn => Long!Last(store) \in Long!Line \cup {Long!Garbage}
      BY DEF LongTypes, LongShape, Long!Last
    <3> QED BY <1>1, <3>1, Lines DEF Long!TornSession
  <2>2. CASE Long!AddJsonThrows(o, m)
    BY <2>2 DEF Long!AddJsonThrows, Long!logVars, LongTypes, LongShape, Long!Durable, Long!Load
  <2>3. CASE Long!AddJson(o, m)
    <3>1. /\ store' = Long!Appended(l) /\ torn' = FALSE
          /\ log' = [log EXCEPT ![session[o]] = Append(@, l)]
          /\ damaged' = damaged \cup (IF torn THEN Long!TornSession \cup {session[o]} ELSE {})
      BY <2>3 DEF Long!AddJson, Long!Recorded, Long!Damage, l
    <3>3. store' \in Seq(Long!Line \cup {Long!Garbage}) /\ log' \in [Sessions -> Seq(Long!Line)] /\ damaged' \subseteq Sessions
      BY <1>1, <1>2, <2>1, <3>1, LoadAppended DEF LongTypes
    <3>4. ASSUME NEW s \in Sessions \ damaged' PROVE Long!Only(store', Long!Of(s)) = log'[s]
      <4>1. Long!Load(s) = log[s]
        BY <3>1 DEF Long!Durable
      <4>2. CASE torn
        <5>1. s \notin Long!TornSession /\ s # session[o]
          BY <3>1, <4>2
        <5> QED BY <1>1, <1>2, <3>1, <4>1, <4>2, <5>1, LoadAppended DEF LongTypes
      <4>3. CASE ~torn
        <5>1. log'[s] = IF s = session[o] THEN Append(log[s], l) ELSE log[s]
          BY <1>1, <3>1 DEF LongTypes
        <5>2. Long!Only(store', Long!Of(s)) = IF l \in Long!Of(s) THEN Append(Long!Load(s), l) ELSE Long!Load(s)
          BY <1>2, <3>1, <4>3, LoadAppended
        <5> QED BY <1>2, <4>1, <5>1, <5>2
      <4> QED BY <4>2, <4>3
    <3> QED BY <3>1, <3>3, <3>4 DEF Long!Durable, Long!Load
  <2>4. CASE Long!AddJsonLost(o, m)
    <3>1. /\ log' = [log EXCEPT ![session[o]] = Append(@, l)]
          /\ \/ UNCHANGED <<store, torn>> /\ damaged' = damaged \cup {session[o]}
             \/ /\ torn' = TRUE /\ store' = Long!Appended(Long!Garbage)
                /\ damaged' = damaged \cup (Long!TornSession \cup {session[o]})
             \/ torn' = TRUE /\ ~torn /\ store' = Long!Appended(l) /\ damaged' = damaged
      BY <2>4 DEF Long!AddJsonLost, Long!Recorded, Long!Damage, Long!fileVars, l
    <3>2. log' \in [Sessions -> Seq(Long!Line)] /\ damaged' \subseteq Sessions /\ damaged \subseteq damaged'
      BY <1>1, <1>2, <2>1, <3>1 DEF LongTypes
    <3>3. store' \in Seq(Long!Line \cup {Long!Garbage}) /\ torn' \in BOOLEAN /\ (torn' => store' # <<>>)
      <4>1. CASE UNCHANGED <<store, torn>>
        BY <4>1 DEF LongTypes, LongShape
      <4>2. CASE torn' = TRUE /\ (store' = Long!Appended(Long!Garbage) \/ store' = Long!Appended(l))
        <5>1. \A k \in {Long!Garbage, l} : /\ Long!Appended(k) \in Seq(Long!Line \cup {Long!Garbage})
                                          /\ Long!Appended(k) # <<>>
          BY <1>1, <1>2, LoadAppended
        <5> QED BY <4>2, <5>1
      <4> QED BY <3>1, <4>1, <4>2
    <3>4. ASSUME NEW s \in Sessions \ damaged' PROVE Long!Only(store', Long!Of(s)) = log'[s]
      <4>1. Long!Load(s) = log[s] /\ log'[s] = IF s = session[o] THEN Append(log[s], l) ELSE log[s]
        BY <1>1, <3>1, <3>2 DEF Long!Durable, LongTypes
      <4>2. CASE UNCHANGED <<store, torn>> /\ damaged' = damaged \cup {session[o]}
        BY <4>1, <4>2 DEF Long!Load
      <4>3. CASE store' = Long!Appended(Long!Garbage) /\ damaged' = damaged \cup (Long!TornSession \cup {session[o]})
        <5>1. Long!Garbage \notin Long!Of(s) /\ torn \in BOOLEAN
          BY Lines DEF LongTypes
        <5>2. s # session[o] /\ s \notin Long!TornSession
          BY <4>3
        <5> QED BY <4>1, <4>3, <5>1, <5>2, LoadAppended
      <4>4. CASE ~torn /\ store' = Long!Appended(l)
        <5>1. Long!Only(store', Long!Of(s)) = IF l \in Long!Of(s) THEN Append(Long!Load(s), l) ELSE Long!Load(s)
          BY <1>2, <4>4, LoadAppended
        <5> QED BY <1>2, <4>1, <5>1
      <4> QED BY <3>1, <4>2, <4>3, <4>4
    <3> QED BY <3>2, <3>3, <3>4 DEF Long!Durable, Long!Load
  <2> QED BY <2>2, <2>3, <2>4
<1>4. LongTypes' /\ LongShape'
  <2>1. LongTypes'
    BY <1>1, <1>2, <1>3 DEF LongTypes
  <2>2. \A p \in Objects : session[p] = None => p # o /\ cache'[p] = cache[p]
    BY <1>1, StorageAssumption DEF LongTypes
  <2> QED BY <1>1, <1>3, <2>1, <2>2 DEF LongShape
<1>5. ASSUME NEW p \in Objects PROVE CacheHeld(p)'
  <2>1. CASE p = o
    BY <1>1, <2>1 DEF CacheHeld, LongTypes
  <2>2. CASE p # o
    <3>1. cache'[p] = cache[p] /\ dirty'[p] = dirty[p] /\ session'[p] = session[p] /\ users' # {p}
      BY <1>1, <2>2 DEF LongTypes
    <3> QED BY <1>1, <3>1 DEF CacheHeld
  <2> QED BY <2>1, <2>2
<1> QED BY <1>3, <1>4, <1>5

\* The statement of an add() of the sqlite backend, which holds the lock until
\* it commits, and one that meets the lock of another.
LEMMA LongAddSqlite ==
  ASSUME LongInv, UNCHANGED <<backend, users>>,
         \/ Long!AddSqliteEnds \/ Long!AddSqliteUndone
         \/ \E o \in Objects, m \in Msgs : Long!AddSqlite(o, m) \/ Long!AddSqliteBusy(o, m)
  PROVE  LongInv'
<1> USE DEF LongInv, Long!fileVars, Long!lockVars, Long!cacheVars, Long!logVars
<1>1. CASE \E o \in Objects, m \in Msgs : Long!AddSqlite(o, m)
  <2>1. PICK o \in Objects, m \in Msgs : Long!AddSqlite(o, m)
    BY <1>1
  <2>2. /\ UNCHANGED <<store, torn, exists, session, cache, dirty, log, damaged, blind, backend, users>>
        /\ backend = "sqlite" /\ session[o] \in Sessions /\ writer' = o /\ adding' = m
    BY <2>1 DEF Long!AddSqlite, Long!Opened, LongTypes
  <2>3. LongTypes' /\ LongShape'
    BY <2>2 DEF LongTypes, LongShape
  <2> QED BY <2>2, <2>3 DEF CacheHeld, Long!Durable, Long!Load
<1>2. CASE \E o \in Objects, m \in Msgs : Long!AddSqliteBusy(o, m)
  <2>1. PICK o \in Objects, m \in Msgs : Long!AddSqliteBusy(o, m)
    BY <1>2
  <2> DEFINE l == [session |-> session[o], msg |-> m]
  <2>2. /\ UNCHANGED <<store, torn, exists, session, cache, dirty, writer, adding, blind, backend, users>>
        /\ backend = "sqlite" /\ session[o] \in Sessions /\ damaged' = damaged \cup {session[o]}
        /\ log' = [log EXCEPT ![session[o]] = Append(@, l)] /\ l \in Long!Line
    BY <2>1, Lines DEF Long!AddSqliteBusy, Long!Opened, Long!Recorded, Long!Damage, LongTypes
  <2> HIDE DEF l
  <2>3. LongTypes' /\ LongShape'
    BY <2>2 DEF LongTypes, LongShape
  <2>4. Long!Durable'
    BY <2>2 DEF Long!Durable, Long!Load, LongTypes
  <2> QED BY <2>2, <2>3, <2>4 DEF CacheHeld, Long!Load
<1>3. CASE Long!AddSqliteEnds
  <2> DEFINE s == session[writer]
             l == [session |-> s, msg |-> adding]
  <2>1. /\ backend = "sqlite" /\ s \in Sessions /\ l \in Long!Line /\ ~torn
        /\ store' = Append(store, l) /\ log' = [log EXCEPT ![s] = Append(@, l)]
        /\ writer' = None /\ adding' = None
        /\ UNCHANGED <<torn, exists, session, cache, dirty, damaged, blind, backend, users>>
    BY <1>3, Lines DEF Long!AddSqliteEnds, Long!Recorded, LongShape
  <2>2. \A t \in Sessions : l \in Long!Of(t) <=> t = s
    <3>1. adding \in Msgs
      BY <1>3 DEF Long!AddSqliteEnds, LongShape
    <3> QED BY <2>1, <3>1, Lines
  <2> HIDE DEF l, s
  <2>3. LongTypes' /\ LongShape'
    BY <2>1 DEF LongTypes, LongShape
  <2>4. ASSUME NEW t \in Sessions \ damaged' PROVE Long!Only(store', Long!Of(t)) = log'[t]
    <3>1. Long!Load(t) = log[t] /\ log'[t] = IF t = s THEN Append(log[t], l) ELSE log[t]
      BY <2>1 DEF Long!Durable, LongTypes
    <3>2. store' = Long!Appended(l)
      BY <2>1 DEF Long!Appended
    <3>3. Long!Only(store', Long!Of(t)) = IF l \in Long!Of(t) THEN Append(Long!Load(t), l) ELSE Long!Load(t)
      BY <2>1, <3>2, LoadAppended
    <3> QED BY <2>2, <3>1, <3>3
  <2> QED BY <2>1, <2>3, <2>4 DEF CacheHeld, Long!Durable, Long!Load
<1>4. CASE Long!AddSqliteUndone
  <2> DEFINE s == session[writer]
             l == [session |-> s, msg |-> adding]
  <2>1. /\ backend = "sqlite" /\ s \in Sessions /\ l \in Long!Line
        /\ log' = [log EXCEPT ![s] = Append(@, l)] /\ damaged' = damaged \cup {s}
        /\ writer' = None /\ adding' = None
        /\ UNCHANGED <<store, torn, exists, session, cache, dirty, blind, backend, users>>
    BY <1>4, Lines DEF Long!AddSqliteUndone, Long!Recorded, Long!Damage, LongShape
  <2> HIDE DEF l, s
  <2>2. LongTypes' /\ LongShape'
    BY <2>1 DEF LongTypes, LongShape
  <2>3. Long!Durable'
    BY <2>1 DEF Long!Durable, Long!Load, LongTypes
  <2> QED BY <2>1, <2>2, <2>3 DEF CacheHeld
<1> QED BY <1>1, <1>2, <1>3, <1>4

\* DELETE ... WHERE session_id leaves the rows of the other sessions.
LEMMA RowsDeleted ==
  ASSUME LongTypes, LongShape, backend = "sqlite", NEW s \in Sessions, NEW t \in Sessions
  PROVE  /\ Long!Only(store, Long!Line \ Long!Of(s)) \in Seq(Long!Line)
         /\ Long!Only(Long!Only(store, Long!Line \ Long!Of(s)), Long!Of(t)) = IF t = s THEN <<>> ELSE Long!Load(t)
<1> DEFINE A == Long!Line \cup {Long!Garbage}
           Rest == Long!Line \ Long!Of(s)
<1>1. store \in Seq(A)
  BY DEF LongTypes
<1>2. Long!Only(store, Rest) \in Seq(A \cap Rest)
  BY <1>1, OnlyHolds
<1>3. A \cap Rest \subseteq Long!Line
  OBVIOUS
<1>4. Long!Only(Long!Only(store, Rest), Long!Of(t)) = Long!Only(store, Rest \cap Long!Of(t))
  BY <1>1, OnlyTwice
<1>5. CASE t = s
  <2>1. A \cap (Rest \cap Long!Of(t)) = {}
    BY <1>5
  <2>2. Long!Only(store, Rest \cap Long!Of(t)) = <<>>
    BY <1>1, <2>1, OnlyIsSifted, SiftedNothing
  <2> QED BY <1>2, <1>3, <1>4, <1>5, <2>2
<1>6. CASE t # s
  <2>1. Rest \cap Long!Of(t) = Long!Of(t)
    BY <1>6 DEF Long!Of
  <2>2. Long!Only(Long!Only(store, Rest), Long!Of(t)) = Long!Load(t)
    BY <1>4, <2>1 DEF Long!Load
  <2>3. Long!Only(store, Rest) \in Seq(Long!Line)
    <3> DEFINE kept == Long!Only(store, Rest)
    <3> HIDE DEF kept
    <3>1. kept \in Seq(A \cap Rest)
      BY <1>2 DEF kept
    <3>2. kept \in Seq(Long!Line)
      <4> HIDE DEF A, Rest
      <4> QED BY <1>3, <3>1
    <3> QED BY <3>2 DEF kept
  <2> QED BY <1>6, <2>2, <2>3
<1> QED BY <1>5, <1>6

LEMMA LongClear ==
  ASSUME LongInv, NEW o \in Objects, UNCHANGED <<backend, users>>, Long!Clear(o)
  PROVE  LongInv'
<1> USE DEF LongInv, Long!lockVars, Long!cacheVars, Long!Damage
<1> DEFINE s == session[o]
<1>1. /\ s \in Sessions /\ o \in users /\ log' = [log EXCEPT ![s] = <<>>]
      /\ UNCHANGED <<session, writer, adding, backend, users, blind>>
  BY DEF Long!Clear, Long!Opened, LongTypes, LongShape
<1> DEFINE Goal == /\ store' \in Seq(Long!Line \cup {Long!Garbage}) /\ torn' \in BOOLEAN /\ exists' \in BOOLEAN
                   /\ cache' \in [Objects -> Seq(Long!Line)] /\ dirty' \in [Objects -> BOOLEAN]
                   /\ damaged' \subseteq Sessions /\ (torn' => backend = "json" /\ store' # <<>>)
                   /\ \A p \in Objects : CacheHeld(p)' /\ (session[p] = None => cache'[p] = cache[p])
                   /\ \A t \in Sessions \ damaged' : Long!Only(store', Long!Of(t)) = log'[t]
<1>2. ASSUME backend = "json" PROVE Goal
  <2>1. /\ cache' = [cache EXCEPT ![o] = <<>>] /\ dirty' = [dirty EXCEPT ![o] = FALSE]
        /\ \/ /\ store' = <<>> /\ torn' = FALSE /\ exists' = TRUE
              /\ damaged' = damaged \cup {t \in Sessions \ {s} : Long!Load(t) # <<>>}
           \/ UNCHANGED <<store, torn, exists>> /\ damaged' = damaged \cup {s}
    BY <1>2 DEF Long!Clear, Long!ClearFile
  <2>2. <<>> \in Seq(Long!Line) /\ <<>> \in Seq(Long!Line \cup {Long!Garbage})
    OBVIOUS
  <2>3. \A t \in Sessions \ damaged' : Long!Only(store', Long!Of(t)) = log'[t]
    <3>1. CASE store' = <<>> /\ damaged' = damaged \cup {t \in Sessions \ {s} : Long!Load(t) # <<>>}
      BY <1>1, <3>1, OnlyEmpty DEF Long!Durable, LongTypes
    <3>2. CASE store' = store /\ damaged' = damaged \cup {s}
      BY <1>1, <3>2 DEF Long!Durable, Long!Load, LongTypes
    <3> QED BY <2>1, <3>1, <3>2
  <2>4. \A p \in Objects : CacheHeld(p)' /\ (session[p] = None => cache'[p] = cache[p])
    <3> SUFFICES ASSUME NEW p \in Objects PROVE CacheHeld(p)' /\ (session[p] = None => cache'[p] = cache[p])
      OBVIOUS
    <3>1. CASE p = o
      <4>1. cache'[o] = <<>> /\ session'[o] = s
        BY <1>1, <2>1 DEF LongTypes
      <4>2. s \in damaged' \/ Long!Only(store', Long!Of(s)) = <<>>
        BY <2>1, OnlyEmpty
      <4> QED BY <1>1, <3>1, <4>1, <4>2, StorageAssumption DEF CacheHeld, Long!Load
    <3>2. CASE p # o
      <4>1. cache'[p] = cache[p] /\ dirty'[p] = dirty[p] /\ session'[p] = session[p] /\ users' # {p}
        BY <1>1, <2>1, <3>2 DEF LongTypes
      <4> QED BY <1>1, <4>1 DEF CacheHeld
    <3> QED BY <3>1, <3>2
  <2>5. cache' \in [Objects -> Seq(Long!Line)] /\ dirty' \in [Objects -> BOOLEAN] /\ damaged' \subseteq Sessions
    BY <1>1, <2>1, <2>2 DEF LongTypes
  <2>6. store' \in Seq(Long!Line \cup {Long!Garbage}) /\ torn' \in BOOLEAN /\ exists' \in BOOLEAN /\ (torn' => store' # <<>>)
    <3>1. CASE store' = <<>> /\ torn' = FALSE /\ exists' = TRUE
      BY <2>2, <3>1
    <3>2. CASE UNCHANGED <<store, torn, exists>>
      BY <3>2 DEF LongTypes, LongShape
    <3> QED BY <2>1, <3>1, <3>2
  <2> QED BY <1>2, <2>3, <2>4, <2>5, <2>6
<1>3. ASSUME backend # "json" PROVE Goal
  <2>1. backend = "sqlite" /\ UNCHANGED <<torn, exists, cache, dirty>>
    BY <1>3, StorageAssumption DEF Long!Clear, Long!ClearRows, LongTypes
  <2>2. \/ /\ store' = Long!Only(store, Long!Line \ Long!Of(s)) /\ damaged' = damaged
        \/ store' = store /\ damaged' = damaged \cup {s}
    BY <1>3 DEF Long!Clear, Long!ClearRows
  <2>3. store' \in Seq(Long!Line \cup {Long!Garbage}) /\ damaged' \subseteq Sessions
    <3>1. Long!Only(store, Long!Line \ Long!Of(s)) \in Seq(Long!Line)
      BY <1>1, <2>1, RowsDeleted
    <3> QED BY <1>1, <2>2, <3>1 DEF LongTypes
  <2>4. ASSUME NEW t \in Sessions \ damaged' PROVE Long!Only(store', Long!Of(t)) = log'[t]
    <3>1. Long!Load(t) = log[t] /\ log'[t] = IF t = s THEN <<>> ELSE log[t]
      BY <1>1, <2>2 DEF Long!Durable, LongTypes
    <3>2. CASE store' = Long!Only(store, Long!Line \ Long!Of(s))
      BY <1>1, <2>1, <3>1, <3>2, RowsDeleted
    <3>3. CASE store' = store /\ damaged' = damaged \cup {s}
      BY <3>1, <3>3 DEF Long!Load
    <3> QED BY <2>2, <3>2, <3>3
  <2>5. \A p \in Objects : CacheHeld(p)' /\ (session[p] = None => cache'[p] = cache[p])
    BY <1>1, <1>3, <2>1 DEF CacheHeld
  <2>6. /\ torn' \in BOOLEAN /\ exists' \in BOOLEAN /\ (torn' => backend = "json" /\ store' # <<>>)
        /\ cache' \in [Objects -> Seq(Long!Line)] /\ dirty' \in [Objects -> BOOLEAN]
    BY <1>3, <2>1 DEF LongTypes, LongShape
  <2> QED BY <2>3, <2>4, <2>5, <2>6
<1>4. Goal
  BY <1>2, <1>3
<1> HIDE DEF Goal
<1>5. <<>> \in Seq(Long!Line)
  OBVIOUS
<1>6. log' \in [Sessions -> Seq(Long!Line)]
  BY <1>1, <1>5 DEF LongTypes
<1>7. LongTypes' /\ LongShape'
  BY <1>1, <1>4, <1>6 DEF Goal, LongTypes, LongShape
<1> QED BY <1>4, <1>7 DEF Goal, Long!Durable, Long!Load

\* The process dies, between two operations or inside an append.
LEMMA LongCrash ==
  ASSUME LongInv, UNCHANGED <<backend, users>>,
         Long!Crash \/ \E o \in Objects, m \in Msgs : Long!CrashInAppend(o, m)
  PROVE  LongInv'
<1> USE DEF LongInv
<1>1. /\ session' = [o \in Objects |-> None] /\ cache' = [o \in Objects |-> <<>>]
      /\ dirty' = [o \in Objects |-> FALSE] /\ writer' = None /\ adding' = None /\ blind' = {}
  BY DEF Long!Crash, Long!CrashInAppend, Long!Restarted
<1> DEFINE Goal == /\ store' \in Seq(Long!Line \cup {Long!Garbage}) /\ torn' \in BOOLEAN /\ exists' \in BOOLEAN
                   /\ (torn' => backend = "json" /\ store' # <<>>)
                   /\ log' \in [Sessions -> Seq(Long!Line)] /\ damaged' \subseteq Sessions
                   /\ \A t \in Sessions \ damaged' : Long!Only(store', Long!Of(t)) = log'[t]
<1>2. ASSUME Long!Crash PROVE Goal
  BY <1>2 DEF Long!Crash, Long!logVars, LongTypes, LongShape, Long!Durable, Long!Load
<1>3. ASSUME NEW o \in Objects, NEW m \in Msgs, Long!CrashInAppend(o, m) PROVE Goal
  <2> DEFINE l == [session |-> session[o], msg |-> m]
  <2>1. /\ backend = "json" /\ session[o] \in Sessions /\ torn' = TRUE /\ exists' = TRUE
        /\ damaged' = damaged \cup Long!TornSession
        /\ \/ store' = Long!Appended(Long!Garbage) /\ log' = log
           \/ ~torn /\ store' = Long!Appended(l) /\ log' = [log EXCEPT ![session[o]] = Append(@, l)]
    BY <1>3 DEF Long!CrashInAppend, Long!Opened, Long!Damage, Long!Recorded, LongTypes
  <2>2. l \in Long!Line /\ \A t \in Sessions : l \in Long!Of(t) <=> t = session[o]
    BY <2>1, Lines
  <2> HIDE DEF l
  <2>3. Long!TornSession \subseteq Sessions
    <3>1. torn => Long!Last(store) \in Long!Line \cup {Long!Garbage}
      BY DEF LongTypes, LongShape, Long!Last
    <3> QED BY <2>1, <3>1, Lines DEF Long!TornSession
  <2>4. store' \in Seq(Long!Line \cup {Long!Garbage}) /\ store' # <<>>
    BY <2>1, <2>2, LoadAppended
  <2>5. log' \in [Sessions -> Seq(Long!Line)] /\ damaged' \subseteq Sessions
    <3>1. log \in [Sessions -> Seq(Long!Line)] /\ damaged \subseteq Sessions
      BY DEF LongTypes
    <3>2. Append(log[session[o]], l) \in Seq(Long!Line)
      BY <2>1, <2>2, <3>1
    <3>3. damaged' \subseteq Sessions
      BY <2>1, <2>3, <3>1
    <3>4. log' \in [Sessions -> Seq(Long!Line)]
      BY <2>1, <3>1, <3>2
    <3> QED BY <3>3, <3>4
  <2>6. ASSUME NEW t \in Sessions \ damaged' PROVE Long!Only(store', Long!Of(t)) = log'[t]
    <3>1. Long!Load(t) = log[t] /\ t \notin Long!TornSession
      BY <2>1 DEF Long!Durable
    <3>2. CASE store' = Long!Appended(Long!Garbage) /\ log' = log
      <4>1. Long!Garbage \notin Long!Of(t) /\ torn \in BOOLEAN
        BY Lines DEF LongTypes
      <4> QED BY <3>1, <3>2, <4>1, LoadAppended
    <3>3. CASE ~torn /\ store' = Long!Appended(l) /\ log' = [log EXCEPT ![session[o]] = Append(@, l)]
      <4>1. log'[t] = IF t = session[o] THEN Append(log[t], l) ELSE log[t]
        BY <2>1, <3>3 DEF LongTypes
      <4>2. Long!Only(store', Long!Of(t)) = IF l \in Long!Of(t) THEN Append(Long!Load(t), l) ELSE Long!Load(t)
        BY <2>2, <3>3, LoadAppended
      <4> QED BY <2>2, <3>1, <4>1, <4>2
    <3> QED BY <2>1, <3>2, <3>3
  <2> QED BY <2>1, <2>4, <2>5, <2>6
<1>4. Goal
  BY <1>2, <1>3
<1> HIDE DEF Goal
<1>5. cache' \in [Objects -> Seq(Long!Line)]
  <2>1. <<>> \in Seq(Long!Line)
    OBVIOUS
  <2> QED BY <1>1, <2>1
<1>6. LongTypes' /\ LongShape'
  BY <1>1, <1>4, <1>5 DEF Goal, LongTypes, LongShape
<1>7. \A o \in Objects : CacheHeld(o)'
  BY <1>1 DEF CacheHeld
<1> QED BY <1>4, <1>6, <1>7 DEF Goal, Long!Durable, Long!Load

LEMMA LongStep ==
  ASSUME LongInv, Long!Next
  PROVE  LongInv'
<1>1. UNCHANGED <<backend, users>>
  BY DEF Long!Next
<1>2. CASE Long!AddSqliteEnds \/ Long!AddSqliteUndone
  BY <1>1, <1>2, LongAddSqlite
<1>3. CASE Long!Crash
  BY <1>1, <1>3, LongCrash
<1>4. ASSUME NEW o \in Objects, Long!Operation(o) PROVE LongInv'
  <2>1. CASE \E s \in Sessions : Long!Open(o, s) \/ Long!OpenBlind(o, s) \/ Long!SetSessionId(o, s) \/ Long!SwitchSession(o, s)
    BY <1>1, <2>1, LongSessionSteps
  <2>2. CASE \E m \in Msgs : Long!AddJson(o, m) \/ Long!AddJsonLost(o, m) \/ Long!AddJsonThrows(o, m)
    BY <1>1, <2>2, LongAddJson
  <2>3. CASE \E m \in Msgs : Long!AddSqlite(o, m) \/ Long!AddSqliteBusy(o, m)
    BY <1>1, <2>3, LongAddSqlite
  <2>4. CASE \E m \in Msgs : Long!CrashInAppend(o, m)
    BY <1>1, <2>4, LongCrash
  <2>5. CASE Long!Messages(o) \/ Long!MessagesUnread(o)
    <3>1. session[o] \in Sessions
      BY <2>5 DEF Long!Messages, Long!MessagesUnread, Long!Opened, LongInv, LongTypes
    <3> QED BY <1>1, <2>5, <3>1, LongSessionSteps
  <2>6. CASE Long!Clear(o)
    BY <1>1, <2>6, LongClear
  <2> QED BY <1>4, <2>1, <2>2, <2>3, <2>4, <2>5, <2>6 DEF Long!Operation
<1> QED BY <1>2, <1>3, <1>4 DEF Long!Next

\* LongInv as an invariant of the program's memories.
LEMMA LongHolds == MCSpec => [](choice = "long" => LongInv)
<1> DEFINE Inv == choice = "long" => LongInv
<1>1. MCInit => Inv
  BY LongStarts DEF MCInit
<1>2. ASSUME Inv, [MCNext]_<<choice, vars, longVars, sqliteVars, searchVars>> PROVE Inv'
  <2>1. CASE LongNext
    BY <1>2, <2>1, LongStep DEF LongNext
  <2>2. CASE UNCHANGED <<choice, longVars>>
    BY <1>2, <2>2 DEF longVars, liveVars, LongInv, LongTypes, LongShape, CacheHeld, Long!Load, Long!Durable
  <2> QED BY <1>2, <2>1, <2>2 DEF MCNext, ShortNext, SqliteNext, CallerNext, SearchNext
<1> HIDE DEF Inv
<1>3. MCSpec => []Inv
  BY <1>1, <1>2, PTL DEF MCSpec
<1> QED BY <1>3 DEF Inv

LEMMA EmptyPrefix == ASSUME NEW T, NEW s \in Seq(T) PROVE Long!IsPrefix(<<>>, s)
<1>1. Len(<<>>) = 0 /\ Len(s) \in Nat /\ SubSeq(<<>>, 1, 0) = <<>> /\ SubSeq(s, 1, 0) = <<>>
  OBVIOUS
<1> QED BY <1>1 DEF Long!IsPrefix

LEMMA WholePrefix == ASSUME NEW T, NEW s \in Seq(T) PROVE Long!IsPrefix(s, s)
BY DEF Long!IsPrefix

\* What a reader gets that stops after some rows.
LEMMA FirstPrefix ==
  ASSUME NEW T, NEW s \in Seq(T)
  PROVE  /\ s = SubSeq(s, 1, Len(s)) /\ Len(s) \in 0..Len(s)
         /\ \A n \in 0..Len(s) : /\ Long!IsPrefix(SubSeq(s, 1, n), s)
                                 /\ \A i \in DOMAIN SubSeq(s, 1, n) : i \in DOMAIN s /\ SubSeq(s, 1, n)[i] = s[i]
<1>1. ASSUME NEW n \in 0..Len(s)
      PROVE  /\ Len(SubSeq(s, 1, n)) = n /\ SubSeq(SubSeq(s, 1, n), 1, n) = SubSeq(s, 1, n)
             /\ DOMAIN SubSeq(s, 1, n) = 1..n /\ \A i \in 1..n : SubSeq(s, 1, n)[i] = s[i]
  OBVIOUS
<1> QED BY <1>1 DEF Long!IsPrefix

(* messages() returns a beginning of the log of the object's session, for  *)
(* a SELECT may end early and a file may not open, and the whole log if    *)
(* nothing fails: memory.h:44 "Retrieve all messages in chronological      *)
(* order."  Whatever fails, no message is another session's.               *)
THEOREM LongMemoryReadsLog == MCSpec => []ReadsLog
<1>1. ASSUME choice = "long" => LongInv PROVE ReadsLog
  <2> SUFFICES ASSUME LongInv PROVE Long!ReadsLog
    BY <1>1 DEF ReadsLog
  <2> USE DEF LongInv
  <2>1. ASSUME NEW o \in Objects, Long!Opened(o)
        PROVE  /\ session[o] \notin damaged /\ (backend = "sqlite" \/ users = {o}) =>
                    /\ \A list \in Long!Returns(o) : Long!IsPrefix(list, log[session[o]])
                    /\ o \notin blind => log[session[o]] \in Long!Returns(o)
               /\ \A list \in Long!Returns(o) : \A i \in DOMAIN list : list[i].session = session[o]
    <3> DEFINE s == session[o]
               load == Long!Load(s)
    <3>1. s \in Sessions /\ log[s] \in Seq(Long!Line)
      BY <2>1 DEF Long!Opened, LongTypes
    <3>2. /\ s \notin damaged => load = log[s]
          /\ load \in Seq(Long!Line) /\ \A i \in DOMAIN load : load[i].session = s
      BY <3>1, LoadsItsOwn DEF Long!Durable
    <3>3. CASE backend = "json" /\ ~dirty[o]
      <4>1. Long!Returns(o) = {cache[o]}
        BY <3>3 DEF Long!Returns
      <4>2. /\ \A i \in DOMAIN cache[o] : cache[o][i].session = s
            /\ o \in blind => cache[o] = <<>>
            /\ users = {o} /\ o \notin blind /\ s \notin damaged => cache[o] = load
        BY <2>1, <3>3 DEF CacheHeld, Long!Opened
      <4> HIDE DEF s, load
      <4>3. backend # "sqlite"
        BY <3>3
      <4>4. s \notin damaged /\ users = {o} => Long!IsPrefix(cache[o], log[s]) /\ (o \notin blind => cache[o] = log[s])
        BY <3>1, <3>2, <4>2, EmptyPrefix, WholePrefix
      <4> QED BY <4>1, <4>2, <4>3, <4>4 DEF s
    <3>4. CASE backend = "json" /\ dirty[o]
      <4>1. Long!Returns(o) = {load, <<>>}
        BY <3>4 DEF Long!Returns
      <4> HIDE DEF load, s
      <4> QED BY <3>1, <3>2, <4>1, EmptyPrefix, WholePrefix DEF s
    <3>5. CASE backend # "json"
      <4>1. Long!Returns(o) = {SubSeq(load, 1, n) : n \in 0..Len(load)}
        BY <3>5 DEF Long!Returns
      <4> HIDE DEF load, s
      <4>2. \A n \in 0..Len(load) : /\ Long!IsPrefix(SubSeq(load, 1, n), load)
                                    /\ \A i \in DOMAIN SubSeq(load, 1, n) : SubSeq(load, 1, n)[i].session = s
        BY <3>2, FirstPrefix
      <4>3. load \in Long!Returns(o)
        BY <3>2, <4>1, FirstPrefix
      <4> QED BY <3>1, <3>2, <4>1, <4>2, <4>3 DEF s
    <3> QED BY <3>3, <3>4, <3>5, <3>1 DEF LongTypes
  <2> QED BY <2>1 DEF Long!ReadsLog, LongTypes
<1> QED BY <1>1, LongHolds, PTL

(* Over the sqlite backend an operation appends one message to the log of  *)
(* one session, empties one log, or does neither, whatever fails.          *)
THEOREM LongMemoryOneLog == MCSpec => SqliteOneLog
<1> DEFINE Inv == choice = "long" => LongInv
           OneLog == backend = "sqlite" => Long!SessionLog!Next \/ UNCHANGED store
<1>1. ASSUME Inv, [MCNext]_<<choice, vars, longVars, sqliteVars, searchVars>>, ~ OneLog PROVE FALSE
  <2>1. LongNext /\ backend = "sqlite" /\ store' # store /\ ~ Long!SessionLog!Next
    BY <1>1 DEF MCNext, ShortNext, SqliteNext, CallerNext, SearchNext, longVars, liveVars
  <2>2. LongInv /\ Long!Next
    BY <1>1, <2>1 DEF LongNext
  <2> USE DEF LongInv
  <2>3. \/ Long!AddSqliteEnds
        \/ \E o \in Objects : Long!Clear(o)
    <3>1. ~ (\E o \in Objects, s \in Sessions : Long!Open(o, s) \/ Long!OpenBlind(o, s) \/ Long!SetSessionId(o, s) \/ Long!SwitchSession(o, s))
      BY <2>1 DEF Long!Open, Long!OpenBlind, Long!SetSessionId, Long!SwitchSession, Long!fileVars
    <3>2. ~ (\E o \in Objects, m \in Msgs : Long!AddJson(o, m) \/ Long!AddJsonLost(o, m) \/ Long!AddJsonThrows(o, m))
      BY <2>1 DEF Long!AddJson, Long!AddJsonLost, Long!AddJsonThrows
    <3>3. ~ (\E o \in Objects, m \in Msgs : Long!AddSqlite(o, m) \/ Long!AddSqliteBusy(o, m))
      BY <2>1 DEF Long!AddSqlite, Long!AddSqliteBusy, Long!fileVars
    <3>4. ~ (\E o \in Objects : Long!Messages(o) \/ Long!MessagesUnread(o)) /\ ~ Long!AddSqliteUndone /\ ~ Long!Crash
      BY <2>1 DEF Long!Messages, Long!MessagesUnread, Long!AddSqliteUndone, Long!Crash, Long!fileVars
    <3>5. ~ (\E o \in Objects, m \in Msgs : Long!CrashInAppend(o, m))
      BY <2>1 DEF Long!CrashInAppend
    <3> QED BY <2>2, <3>1, <3>2, <3>3, <3>4, <3>5 DEF Long!Next, Long!Operation
  <2>4. CASE Long!AddSqliteEnds
    <3> DEFINE s == session[writer]
               l == [session |-> s, msg |-> adding]
    <3>1. s \in Sessions /\ adding \in Msgs /\ store' = Append(store, l) /\ ~torn
      BY <2>1, <2>2, <2>4 DEF Long!AddSqliteEnds, LongShape
    <3>2. l \in Long!Line /\ \A t \in Sessions : l \in Long!Of(t) <=> t = s
      BY <3>1, Lines
    <3> HIDE DEF l, s
    <3>3. \A t \in Sessions : Long!Only(store', Long!Of(t)) = IF t = s THEN Append(Long!Load(t), l) ELSE Long!Load(t)
      <4>1. store' = Long!Appended(l)
        BY <3>1 DEF Long!Appended
      <4> QED BY <2>2, <3>1, <3>2, <4>1, LoadAppended
    <3>4. Long!SessionLog!AddTo(s)
      BY <3>1, <3>2, <3>3 DEF Long!SessionLog!AddTo, Long!Load
    <3> QED BY <2>1, <3>1, <3>4 DEF Long!SessionLog!Next
  <2>5. ASSUME NEW o \in Objects, Long!Clear(o) PROVE FALSE
    <3> DEFINE s == session[o]
    <3>1. s \in Sessions /\ store' = Long!Only(store, Long!Line \ Long!Of(s))
      BY <2>1, <2>2, <2>5 DEF Long!Clear, Long!ClearRows, Long!Opened, LongTypes
    <3>2. \A t \in Sessions : Long!Only(store', Long!Of(t)) = IF t = s THEN <<>> ELSE Long!Load(t)
      BY <2>1, <2>2, <3>1, RowsDeleted
    <3> HIDE DEF s
    <3>3. Long!SessionLog!ClearOf(s)
      BY <3>1, <3>2 DEF Long!SessionLog!ClearOf, Long!Load
    <3> QED BY <2>1, <3>1, <3>3 DEF Long!SessionLog!Next
  <2> QED BY <2>3, <2>4, <2>5
<1>2. ASSUME Inv, [MCNext]_<<choice, vars, longVars, sqliteVars, searchVars>> PROVE [OneLog]_(Long!vars)
  BY <1>1, <1>2
<1> HIDE DEF Inv
<1>3. MCSpec => []Inv
  BY LongHolds DEF Inv
<1> QED BY <1>2, <1>3, PTL DEF MCSpec, SqliteOneLog, Long!SqliteOneLog

-----------------------------------------------------------------------------
(* Sequences of documents, as sets: their elements, no two with one id.    *)

Distinct(s) == \A i, j \in DOMAIN s : s[i].id = s[j].id => i = j

LEMMA Parts ==
  ASSUME NEW T, NEW s \in Seq(T), s # <<>>
  PROVE  /\ Head(s) \in T /\ Tail(s) \in Seq(T)
         /\ Sqlite!Elems(s) = {Head(s)} \cup Sqlite!Elems(Tail(s))
<1>1. /\ Head(s) \in T /\ Tail(s) \in Seq(T) /\ Len(s) \in Nat \ {0} /\ Len(Tail(s)) = Len(s) - 1
      /\ \A i \in 1..Len(Tail(s)) : Tail(s)[i] = s[i + 1]
  BY HeadTailProperties, EmptySeq
<1>2. DOMAIN s = 1..Len(s) /\ DOMAIN Tail(s) = 1..Len(Tail(s)) /\ Head(s) = s[1]
  BY <1>1
<1>3. ASSUME NEW i \in DOMAIN s PROVE s[i] = Head(s) \/ s[i] \in Sqlite!Elems(Tail(s))
  <2>1. i = 1 \/ (i - 1 \in DOMAIN Tail(s) /\ Tail(s)[i - 1] = s[i])
    <3>1. i \in Nat /\ (i = 1 \/ i - 1 \in 1..Len(Tail(s))) /\ (i - 1) + 1 = i
      BY <1>1, <1>2
    <3> QED BY <1>1, <1>2, <3>1
  <2> QED BY <1>2, <2>1 DEF Sqlite!Elems
<1>4. ASSUME NEW i \in DOMAIN Tail(s) PROVE Tail(s)[i] \in Sqlite!Elems(s)
  <2>1. i + 1 \in DOMAIN s /\ Tail(s)[i] = s[i + 1]
    BY <1>1, <1>2
  <2> QED BY <2>1 DEF Sqlite!Elems
<1>5. Head(s) \in Sqlite!Elems(s)
  BY <1>1, <1>2 DEF Sqlite!Elems
<1> QED BY <1>1, <1>3, <1>4, <1>5 DEF Sqlite!Elems

LEMMA Appends ==
  ASSUME NEW T, NEW s \in Seq(T), NEW e \in T
  PROVE  /\ Append(s, e) \in Seq(T) /\ Sqlite!Elems(Append(s, e)) = Sqlite!Elems(s) \cup {e}
         /\ Distinct(s) /\ (\A d \in Sqlite!Elems(s) : d.id # e.id) => Distinct(Append(s, e))
<1> DEFINE n == Len(s)
           t == Append(s, e)
<1>1. /\ n \in Nat /\ DOMAIN s = 1..n /\ DOMAIN t = 1..(n + 1) /\ t \in Seq(T)
      /\ t[n + 1] = e /\ \A i \in 1..n : t[i] = s[i]
  OBVIOUS
<1> HIDE DEF n, t
<1>2. \A i \in 1..(n + 1) : i \in 1..n \/ i = n + 1
  BY <1>1
<1>3. Sqlite!Elems(t) = Sqlite!Elems(s) \cup {e}
  <2>1. \A i \in DOMAIN t : t[i] \in Sqlite!Elems(s) \cup {e}
    BY <1>1, <1>2 DEF Sqlite!Elems
  <2>2. e \in Sqlite!Elems(t)
    BY <1>1 DEF Sqlite!Elems
  <2>3. \A i \in DOMAIN s : i \in DOMAIN t /\ t[i] = s[i]
    BY <1>1
  <2> QED BY <2>1, <2>2, <2>3 DEF Sqlite!Elems
<1>4. ASSUME Distinct(s), \A d \in Sqlite!Elems(s) : d.id # e.id PROVE Distinct(t)
  <2> SUFFICES ASSUME NEW i \in DOMAIN t, NEW j \in DOMAIN t, t[i].id = t[j].id PROVE i = j
    BY DEF Distinct
  <2>1. \A k \in 1..n : s[k].id # e.id
    BY <1>1, <1>4 DEF Sqlite!Elems
  <2>2. (i \in 1..n \/ i = n + 1) /\ (j \in 1..n \/ j = n + 1)
    BY <1>1, <1>2
  <2>3. i \in 1..n /\ j \in 1..n => s[i].id = s[j].id
    BY <1>1
  <2> QED BY <1>1, <1>4, <2>1, <2>2, <2>3 DEF Distinct
<1> QED BY <1>1, <1>3, <1>4 DEF t

LEMMA Joined ==
  ASSUME NEW T, NEW s \in Seq(T), NEW t \in Seq(T)
  PROVE  /\ s \o t \in Seq(T) /\ Sqlite!Elems(s \o t) = Sqlite!Elems(s) \cup Sqlite!Elems(t)
         /\ Distinct(s) /\ Distinct(t) /\ (\A d \in Sqlite!Elems(s), e \in Sqlite!Elems(t) : d.id # e.id) => Distinct(s \o t)
<1> DEFINE m == Len(s)
           n == Len(t)
           u == s \o t
<1>1. /\ m \in Nat /\ n \in Nat /\ DOMAIN s = 1..m /\ DOMAIN t = 1..n /\ DOMAIN u = 1..(m + n) /\ u \in Seq(T)
      /\ \A i \in 1..(m + n) : u[i] = IF i <= m THEN s[i] ELSE t[i - m]
  BY ConcatProperties, LenProperties
<1> HIDE DEF m, n, u
<1>2. \A i \in 1..(m + n) : \/ i \in 1..m /\ u[i] = s[i]
                            \/ i \notin 1..m /\ i - m \in 1..n /\ u[i] = t[i - m]
  BY <1>1
<1>3. \A i \in 1..m : i \in 1..(m + n) /\ u[i] = s[i]
  BY <1>1
<1>4. \A i \in 1..n : i + m \in 1..(m + n) /\ u[i + m] = t[i]
  BY <1>1
<1>5. Sqlite!Elems(u) = Sqlite!Elems(s) \cup Sqlite!Elems(t)
  <2>1. \A i \in DOMAIN u : u[i] \in Sqlite!Elems(s) \cup Sqlite!Elems(t)
    BY <1>1, <1>2 DEF Sqlite!Elems
  <2>2. \A i \in DOMAIN s : s[i] \in Sqlite!Elems(u)
    BY <1>1, <1>3 DEF Sqlite!Elems
  <2>3. \A i \in DOMAIN t : t[i] \in Sqlite!Elems(u)
    BY <1>1, <1>4 DEF Sqlite!Elems
  <2> QED BY <2>1, <2>2, <2>3 DEF Sqlite!Elems
<1>6. ASSUME Distinct(s), Distinct(t), \A d \in Sqlite!Elems(s), e \in Sqlite!Elems(t) : d.id # e.id PROVE Distinct(u)
  <2> SUFFICES ASSUME NEW i \in 1..(m + n), NEW j \in 1..(m + n), u[i].id = u[j].id PROVE i = j
    BY <1>1 DEF Distinct
  <2>1. \A k \in 1..m, l \in 1..n : s[k].id # t[l].id
    BY <1>1, <1>6 DEF Sqlite!Elems
  <2>2. CASE i \in 1..m /\ j \in 1..m
    BY <1>1, <1>3, <1>6, <2>2 DEF Distinct
  <2>3. CASE i \notin 1..m /\ j \notin 1..m
    <3>1. i - m \in 1..n /\ j - m \in 1..n /\ t[i - m].id = t[j - m].id
      BY <1>2, <2>3
    <3>2. i - m = j - m
      BY <1>1, <1>6, <3>1 DEF Distinct
    <3> QED BY <1>1, <3>2
  <2>4. CASE i \in 1..m /\ j \notin 1..m
    BY <1>2, <2>1, <2>4
  <2>5. CASE i \notin 1..m /\ j \in 1..m
    BY <1>2, <2>1, <2>5
  <2> QED BY <2>2, <2>3, <2>4, <2>5
<1> QED BY <1>1, <1>5, <1>6 DEF u

\* erase() keeps what is in S, each once.
LEMMA OnlyKeeps ==
  ASSUME NEW T, NEW s \in Seq(T), Distinct(s), NEW S
  PROVE  /\ Sqlite!Only(s, S) \in Seq(T) /\ Distinct(Sqlite!Only(s, S))
         /\ Sqlite!Elems(Sqlite!Only(s, S)) = Sqlite!Elems(s) \cap S
<1> DEFINE kept == Sifted(s, S)
<1> HIDE DEF kept
<1>1. /\ kept \in Seq(T)
      /\ \A i \in DOMAIN kept : kept[i] \in S /\ \E a \in DOMAIN s : kept[i] = s[a]
      /\ \A a \in DOMAIN s : s[a] \in S => \E i \in DOMAIN kept : kept[i] = s[a]
      /\ \A i, j \in DOMAIN kept : i < j => \E a, b \in DOMAIN s : a < b /\ kept[i] = s[a] /\ kept[j] = s[b]
  BY SiftedOrder DEF kept
<1>2. Distinct(kept)
  <2> SUFFICES ASSUME NEW i \in DOMAIN kept, NEW j \in DOMAIN kept, i < j PROVE kept[i].id # kept[j].id
    <3>1. \A i, j \in DOMAIN kept : i < j \/ j < i \/ i = j
      BY <1>1
    <3> QED BY <3>1 DEF Distinct
  <2>1. PICK a \in DOMAIN s, b \in DOMAIN s : a < b /\ kept[i] = s[a] /\ kept[j] = s[b]
    BY <1>1
  <2>2. a # b
    BY <2>1
  <2> QED BY <2>1, <2>2 DEF Distinct
<1>3. Sqlite!Elems(kept) = Sqlite!Elems(s) \cap S
  BY <1>1 DEF Sqlite!Elems
<1> QED BY <1>1, <1>2, <1>3, OnlyIsSifted DEF kept

\* An update replaces the document of its id.
LEMMA Replaced ==
  ASSUME NEW s \in Seq(Sqlite!Doc), Distinct(s), NEW k \in DOMAIN s, NEW v \in Vals
  PROVE  LET t == [s EXCEPT ![k].val = v] IN
         /\ t \in Seq(Sqlite!Doc) /\ Distinct(t)
         /\ Sqlite!Elems(t) = {d \in Sqlite!Elems(s) : d.id # s[k].id} \cup {[id |-> s[k].id, val |-> v]}
<1> DEFINE t == [s EXCEPT ![k].val = v]
           new == [id |-> s[k].id, val |-> v]
<1>1. s[k] \in Sqlite!Doc /\ [s[k] EXCEPT !.val = v] = new /\ new \in Sqlite!Doc
  <2>1. s[k] \in Sqlite!Doc
    OBVIOUS
  <2> QED BY <2>1 DEF Sqlite!Doc
<1>2. t = [s EXCEPT ![k] = new]
  BY <1>1
<1>3. new.id = s[k].id
  OBVIOUS
<1> HIDE DEF t, new
<1>4. t \in Seq(Sqlite!Doc) /\ DOMAIN t = DOMAIN s /\ \A i \in DOMAIN s : t[i] = IF i = k THEN new ELSE s[i]
  BY <1>1, <1>2
<1>5. Distinct(t)
  BY <1>3, <1>4 DEF Distinct
<1>6. Sqlite!Elems(t) = {d \in Sqlite!Elems(s) : d.id # s[k].id} \cup {new}
  <2>1. \A i \in DOMAIN s : i # k => s[i].id # s[k].id
    BY DEF Distinct
  <2> QED BY <1>4, <2>1 DEF Sqlite!Elems
<1> QED BY <1>4, <1>5, <1>6 DEF t, new

\* A restart loads each row once.
Listing(S) == CHOOSE s \in [1..Cardinality(S) -> S] : Sqlite!Elems(s) = S

LEMMA Loaded ==
  ASSUME NEW S, IsFiniteSet(S), \A d, e \in S : d.id = e.id => d = e
  PROVE  Listing(S) \in Seq(S) /\ Distinct(Listing(S)) /\ Sqlite!Elems(Listing(S)) = S
<1> DEFINE n == Cardinality(S)
           l == Listing(S)
<1>1. n \in Nat /\ ExistsBijection(1..n, S)
  BY FS_CardinalityType
<1>2. Cardinality(1..n) = n /\ IsFiniteSet(1..n)
  BY <1>1, FS_Interval
<1> HIDE DEF n
<1>3. \E s \in [1..n -> S] : Sqlite!Elems(s) = S
  <2>1. PICK f \in [1..n -> S] : \A d \in S : \E i \in 1..n : f[i] = d
    BY <1>1 DEF ExistsBijection, Bijection, Surjection
  <2>2. Sqlite!Elems(f) = S
    BY <2>1 DEF Sqlite!Elems
  <2> QED BY <2>2
<1>4. l \in [1..n -> S] /\ Sqlite!Elems(l) = S
  BY <1>3 DEF Listing, n
<1> HIDE DEF l
<1>5. l \in Surjection(1..n, S)
  BY <1>4 DEF Surjection, Sqlite!Elems
<1>6. l \in Injection(1..n, S)
  BY <1>2, <1>5, FS_SurjSameCardinalityImpliesInj DEF n
<1>7. \A i, j \in 1..n : l[i] = l[j] => i = j
  BY <1>4, <1>6 DEF Injection, IsInjective
<1>8. Distinct(l)
  BY <1>4, <1>7 DEF Distinct
<1>9. l \in Seq(S)
  BY <1>1, <1>4, SeqDef
<1> QED BY <1>4, <1>8, <1>9 DEF l, n

-----------------------------------------------------------------------------
(* SqliteVectorStore, with ids that gen_id() assigns.                      *)

SqlTypes ==
  /\ docs \in Seq(Sqlite!Doc) /\ mu \in Threads \cup {None}
  /\ db \in [Ids -> Vals \cup {None}] /\ disk \in [Ids -> Vals \cup {None}] /\ txn \in BOOLEAN
  /\ pc \in [Threads -> {"idle", "begin", "lock", "insert", "rollback", "delete", "update"}]
  /\ todo \in [Threads -> Seq(Ids)] /\ owns \in [Threads -> BOOLEAN] /\ batch \in [Threads -> SUBSET Ids]
  /\ added \subseteq Sqlite!Doc /\ touched \subseteq Ids /\ gone \subseteq Ids /\ failed \subseteq Ids
  /\ batches \subseteq SUBSET Ids /\ riding \subseteq Ids /\ lost \subseteq Ids /\ unowned \subseteq Ids
  /\ skipped \subseteq Ids /\ stuck \in BOOLEAN

Held == Sqlite!Elems(docs)                  \* the documents in memory
ToWrite(t) == Sqlite!Elems(todo[t])
Inserting(t) == pc[t] \in {"begin", "lock", "insert", "rollback"}
Rows(table) == {id \in Ids : table[id] # None}

(* Ids are assigned once: no two documents, and no two batches, share one. *)
IdsAssigned ==
  /\ \A i, j \in DOMAIN docs : docs[i].id = docs[j].id => i = j
  /\ \A d \in Held \cup added : d.id \in UNION batches
  /\ touched \cup gone \cup failed \cup Rows(db) \cup Rows(disk) \subseteq UNION batches
  /\ \A b, c \in batches : b = c \/ b \cap c = {}
  /\ IsFiniteSet(Rows(db)) /\ IsFiniteSet(Rows(disk))

(* What an operation under way has still to write is of its batch; nobody  *)
(* knows the ids of an add before it returns, and what is deleted is not   *)
(* in memory.                                                              *)
Works(t) ==
  /\ pc[t] = "idle" => todo[t] = <<>>
  /\ ToWrite(t) \subseteq batch[t]
  /\ pc[t] \in {"begin", "lock"} => ToWrite(t) = batch[t]
  /\ pc[t] \in {"delete", "update"} => batch[t] \subseteq touched
  /\ pc[t] = "update" => \E id \in Ids : todo[t] = <<id>>
  /\ pc[t] = "delete" => \A d \in Held : d.id \notin batch[t]
  /\ Inserting(t) =>
       /\ batch[t] \in batches
       /\ batch[t] \cap (touched \cup gone) = {} /\ \A d \in added : d.id \notin batch[t]
       /\ IF pc[t] = "rollback" THEN batch[t] \subseteq failed ELSE batch[t] \cap failed \subseteq skipped
       /\ \A id \in batch[t] : \E d \in Held : d.id = id
       /\ \A u \in Threads : Inserting(u) /\ u # t => batch[t] \cap batch[u] = {}

(* A row differs from memory only while the operation that will write it   *)
(* is under way, or after that failed.                                     *)
Excused(id) == id \in failed \cup lost
Present(d) == ~ Excused(d.id) /\ (\A t \in Threads : d.id \notin ToWrite(t)) => db[d.id] = d.val
Absent(id) ==
  /\ ~ Excused(id) /\ (\A d \in Held : d.id # id) /\ (\A t \in Threads : pc[t] = "delete" => id \notin ToWrite(t))
       => db[id] = None
  /\ id \notin lost \cup skipped /\ (\E t \in Threads : pc[t] = "delete" /\ id \in batch[t] /\ id \notin ToWrite(t))
       => db[id] = None
  /\ id \in gone \ (lost \cup skipped) => db[id] = None /\ \A d \in Held : d.id # id
Added(d) == d.id \notin touched \cup lost \cup skipped => db[d.id] = d.val

(* An open transaction holds the rows of its owner's batch, and what rides *)
(* on it; one that lost its owner with a COMMIT that failed, the latter.   *)
Owned(t) ==
  owns[t] => /\ \A id \in Ids : db[id] # disk[id] => id \in riding \cup batch[t]
             /\ \A id \in batch[t] \ (ToWrite(t) \cup skipped) : db[id] # None
Rides ==
  /\ ~stuck => riding \subseteq touched \cup unowned
  /\ stuck => \A id \in Ids : db[id] # disk[id] => id \in riding
Committed(b) ==
  b \cap (touched \cup unowned \cup skipped) = {} => (\A id \in b : disk[id] # None) \/ (\A id \in b : disk[id] = None)

SqlInv ==
  /\ SqlTypes /\ Sqlite!TransactionOwned /\ IdsAssigned /\ (\A t \in Threads : Works(t) /\ Owned(t))
  /\ (\A d \in Held : Present(d)) /\ (\A id \in Ids : Absent(id)) /\ (\A d \in added : Added(d))
  /\ Rides /\ \A b \in batches : Committed(b)

(* ... and with ids that the caller chooses, again and again, of one thread. *)
OwnTypes ==
  /\ docs \in Seq(Own!Doc) /\ mu \in {Caller, None}
  /\ db \in [{Again} -> Vals \cup {None}] /\ disk \in [{Again} -> Vals \cup {None}] /\ txn \in BOOLEAN
  /\ pc \in [{Caller} -> {"idle", "begin", "lock", "insert", "rollback", "delete", "update"}]
  /\ todo \in [{Caller} -> Seq({Again})] /\ owns \in [{Caller} -> BOOLEAN] /\ batch \in [{Caller} -> SUBSET {Again}]
  /\ failed \subseteq {Again} /\ touched \subseteq {Again} /\ stuck \in BOOLEAN

NewestHeld == docs # <<>> /\ db[Again] = docs[Len(docs)].val
SomeHeld == \E i \in DOMAIN docs : db[Again] = docs[i].val
CallersId ==
  /\ pc[Caller] = "idle" => IF docs = <<>> THEN db[Again] = None ELSE SomeHeld /\ (Again \notin touched => NewestHeld)
  /\ pc[Caller] \in {"begin", "lock"} => docs # <<>> /\ todo[Caller] # <<>>
  /\ pc[Caller] = "insert" => docs # <<>> /\ (todo[Caller] = <<>> => NewestHeld)
  /\ pc[Caller] = "delete" => docs = <<>> /\ (todo[Caller] = <<>> => db[Again] = None)
  /\ pc[Caller] = "update" => docs # <<>> /\ Again \in touched

OwnInv ==
  /\ OwnTypes /\ Own!TransactionOwned
  /\ pc[Caller] \in {"begin", "lock", "insert"} => batch[Caller] = {Again}
  /\ pc[Caller] = "update" => todo[Caller] # <<>>
  /\ pc[Caller] = "rollback" => Again \in failed
  /\ Again \notin failed => CallersId

LEMMA RowsStored ==
  ASSUME disk \in [Ids -> Vals \cup {None}], IsFiniteSet(Rows(disk))
  PROVE  /\ Sqlite!LoadAll \in Seq(Sqlite!Doc) /\ Distinct(Sqlite!LoadAll)
         /\ Sqlite!Elems(Sqlite!LoadAll) = Sqlite!Stored
         /\ \A d \in Sqlite!Stored : d \in Sqlite!Doc /\ disk[d.id] = d.val /\ d.id \in Rows(disk)
         /\ \A id \in Rows(disk) : \E d \in Sqlite!Stored : d.id = id
<1>1. \A d \in Sqlite!Stored : d \in Sqlite!Doc /\ disk[d.id] = d.val /\ d.id \in Ids /\ d.val \in Vals /\ d = [id |-> d.id, val |-> d.val]
  BY DEF Sqlite!Stored, Sqlite!Doc
<1>2. \A d \in Sqlite!Stored : d.id \in Rows(disk)
  BY <1>1, StorageAssumption DEF Rows
<1>3. ASSUME NEW d \in Sqlite!Stored, NEW e \in Sqlite!Stored, d.id = e.id PROVE d = e
  <2>1. d.val = e.val
    BY <1>1, <1>3
  <2> QED BY <1>1, <1>3, <2>1
<1>4. IsFiniteSet(Sqlite!Stored)
  <2> DEFINE f == [d \in Sqlite!Stored |-> d.id]
  <2>1. f \in Injection(Sqlite!Stored, Rows(disk))
    BY <1>2, <1>3 DEF Injection, IsInjective
  <2> HIDE DEF f
  <2> QED BY <2>1, FS_Injection
<1>5. ASSUME NEW id \in Rows(disk) PROVE \E d \in Sqlite!Stored : d.id = id
  <2>1. id \in Ids /\ disk[id] \in Vals
    BY DEF Rows
  <2> DEFINE d == [id |-> id, val |-> disk[id]]
  <2>2. d \in Sqlite!Doc /\ d.id = id /\ d.val = disk[id]
    BY <2>1 DEF Sqlite!Doc
  <2>3. d \in Sqlite!Stored
    BY <2>2 DEF Sqlite!Stored
  <2> QED BY <2>2, <2>3
<1>6. Sqlite!LoadAll \in Seq(Sqlite!Stored) /\ Distinct(Sqlite!LoadAll) /\ Sqlite!Elems(Sqlite!LoadAll) = Sqlite!Stored
  <2>1. Sqlite!LoadAll = Listing(Sqlite!Stored)
    <3>1. Sqlite!Cardinality(Sqlite!Stored) = Cardinality(Sqlite!Stored)
      BY Zenon DEF Sqlite!Cardinality, Cardinality
    <3> QED BY <3>1 DEF Sqlite!LoadAll, Listing
  <2> QED BY <1>3, <1>4, <2>1, Loaded
<1>7. Sqlite!LoadAll \in Seq(Sqlite!Doc)
  <2>1. Sqlite!Stored \subseteq Sqlite!Doc
    BY <1>1
  <2> QED BY <1>6, <2>1, SeqMonotonic
<1> QED BY <1>1, <1>2, <1>5, <1>6, <1>7

LEMMA SqlStarts == Sqlite!Init => SqlInv
<1> SUFFICES ASSUME Sqlite!Init PROVE SqlInv
  OBVIOUS
<1>1. /\ docs = <<>> /\ mu = None /\ txn = FALSE /\ db = [i \in Ids |-> None] /\ disk = db
      /\ added = {} /\ touched = {} /\ gone = {} /\ failed = {} /\ batches = {} /\ riding = {} /\ lost = {} /\ unowned = {}
      /\ skipped = {} /\ stuck = FALSE
      /\ \A t \in Threads : pc[t] = "idle" /\ todo[t] = <<>> /\ owns[t] = FALSE /\ batch[t] = {}
  BY DEF Sqlite!Init
<1>2. SqlTypes
  <2>1. <<>> \in Seq(Ids) /\ <<>> \in Seq(Sqlite!Doc)
    OBVIOUS
  <2>2. todo \in [Threads -> Seq(Ids)]
    BY <2>1 DEF Sqlite!Init
  <2> QED BY <1>1, <2>1, <2>2 DEF SqlTypes, Sqlite!Init
<1>3. Sqlite!TransactionOwned
  BY <1>1, StorageAssumption DEF Sqlite!TransactionOwned
<1>4. Held = {} /\ \A t \in Threads : ToWrite(t) = {}
  BY <1>1 DEF Held, ToWrite, Sqlite!Elems
<1>5. IdsAssigned
  <2>1. Rows(db) = {} /\ Rows(disk) = {} /\ DOMAIN docs = {}
    BY <1>1 DEF Rows
  <2> QED BY <1>1, <1>4, <2>1, FS_EmptySet DEF IdsAssigned
<1>6. \A t \in Threads : Works(t) /\ Owned(t)
  BY <1>1, <1>4 DEF Works, Owned, Inserting
<1>7. \A id \in Ids : Absent(id)
  BY <1>1 DEF Absent
<1>8. Rides
  BY <1>1 DEF Rides
<1> QED BY <1>1, <1>2, <1>3, <1>4, <1>5, <1>6, <1>7, <1>8 DEF SqlInv

\* Documents given to add_documents.
LEMMA Given ==
  ASSUME NEW new \in Sqlite!Batches
  PROVE  /\ new \in Seq(Sqlite!Doc) /\ [i \in DOMAIN new |-> new[i].id] \in Seq(Ids)
         /\ Sqlite!Elems([i \in DOMAIN new |-> new[i].id]) = {d.id : d \in Sqlite!Elems(new)}
<1>1. PICK n \in Nat : new \in [1..n -> Sqlite!Doc]
  BY StorageAssumption DEF Sqlite!Batches
<1>2. new \in Seq(Sqlite!Doc)
  BY <1>1, SeqDef
<1>3. [i \in DOMAIN new |-> new[i].id] \in [1..n -> Ids]
  BY <1>1 DEF Sqlite!Doc
<1>4. [i \in DOMAIN new |-> new[i].id] \in Seq(Ids)
  BY <1>3, SeqDef
<1> QED BY <1>2, <1>4 DEF Sqlite!Elems

LEMMA SqlAddMemory ==
  ASSUME SqlInv, NEW t \in Threads, NEW new \in Sqlite!Batches, Sqlite!AddMemory(t, new)
  PROVE  SqlInv'
<1> DEFINE ids == {d.id : d \in Sqlite!Elems(new)}
<1>1. /\ new \in Seq(Sqlite!Doc) /\ Distinct(new) /\ ids \in SUBSET Ids /\ ids \cap UNION batches = {}
      /\ docs' = docs \o new /\ batches' = batches \cup {ids}
      /\ pc[t] = "idle" /\ mu = None /\ pc' = [pc EXCEPT ![t] = "begin"]
      /\ batch' = [batch EXCEPT ![t] = ids] /\ todo' \in [Threads -> Seq(Ids)]
      /\ \A u \in Threads : ToWrite(u)' = IF u = t THEN ids ELSE ToWrite(u)
      /\ \A u \in Threads \ {t} : todo'[u] = todo[u]
      /\ UNCHANGED <<mu, db, disk, txn, owns, added, touched, gone, failed, riding, lost, unowned, skipped, stuck>>
  <2> DEFINE l == [i \in DOMAIN new |-> new[i].id]
  <2>1. new \in Seq(Sqlite!Doc) /\ l \in Seq(Ids) /\ Sqlite!Elems(l) = ids
    BY Given
  <2>2. /\ todo' = [todo EXCEPT ![t] = l] /\ batch' = [batch EXCEPT ![t] = Sqlite!Elems(l)]
        /\ \A i \in DOMAIN new : new[i].id \in Ids \ UNION batches
        /\ \A i, j \in DOMAIN new : new[i].id = new[j].id => i = j
    BY DEF Sqlite!AddMemory, Sqlite!Start, Sqlite!Fresh
  <2>3. \A d \in Sqlite!Elems(new) : d.id \in Ids \ UNION batches
    BY <2>2 DEF Sqlite!Elems
  <2> HIDE DEF l
  <2>4. \A u \in Threads : todo'[u] = IF u = t THEN l ELSE todo[u]
    BY <2>2 DEF SqlInv, SqlTypes
  <2>5. todo' \in [Threads -> Seq(Ids)] /\ batch'[t] = ids
    BY <2>1, <2>2 DEF SqlInv, SqlTypes
  <2>6. \A u \in Threads : ToWrite(u)' = IF u = t THEN ids ELSE ToWrite(u)
    BY <2>1, <2>4 DEF ToWrite, Sqlite!Elems
  <2>7. Distinct(new) /\ ids \in SUBSET Ids /\ ids \cap UNION batches = {}
    BY <2>2, <2>3 DEF Distinct
  <2> HIDE DEF ids
  <2> QED BY <2>1, <2>2, <2>4, <2>5, <2>6, <2>7
      DEF Sqlite!AddMemory, Sqlite!Start, Sqlite!Goto, Sqlite!tableVars, Sqlite!rideVars, Sqlite!errorVars
<1>2. /\ docs' \in Seq(Sqlite!Doc) /\ Distinct(docs') /\ Held' = Held \cup Sqlite!Elems(new)
  <2>1. docs \in Seq(Sqlite!Doc) /\ Distinct(docs) /\ \A d \in Held : d.id \in UNION batches
    BY DEF SqlInv, SqlTypes, IdsAssigned, Distinct
  <2>2. \A d \in Held, e \in Sqlite!Elems(new) : d.id # e.id
    BY <1>1, <2>1
  <2> QED BY <1>1, <2>1, <2>2, Joined DEF Held
<1>3. \A d \in Sqlite!Elems(new) : d.id \in ids
  OBVIOUS
<1>4. \A id \in ids : \E d \in Sqlite!Elems(new) : d.id = id
  OBVIOUS
<1> HIDE DEF ids
<1>5. SqlTypes'
  BY <1>1, <1>2 DEF SqlInv, SqlTypes
<1>6. Sqlite!TransactionOwned'
  BY <1>1 DEF SqlInv, SqlTypes, Sqlite!TransactionOwned
<1>7. IdsAssigned'
  BY <1>1, <1>2, <1>3 DEF SqlInv, IdsAssigned, Distinct, Rows
<1>8. Works(t)'
  BY <1>1, <1>2, <1>3, <1>4 DEF SqlInv, SqlTypes, IdsAssigned, Works, Inserting
<1>9. \A u \in Threads \ {t} : Works(u)'
  BY <1>1, <1>2, <1>3 DEF SqlInv, SqlTypes, IdsAssigned, Works, Inserting
<1>10. ASSUME NEW u \in Threads PROVE Owned(u)'
  <2>1. Owned(u) /\ (u # t => batch'[u] = batch[u]) /\ (owns[u] => u # t)
    BY <1>1 DEF SqlInv, SqlTypes, Sqlite!TransactionOwned
  <2>2. u # t => ToWrite(u)' = ToWrite(u)
    BY <1>1
  <2> QED BY <1>1, <2>1, <2>2 DEF Owned
<1>11. \A d \in Held' : Present(d)'
  <2>1. ToWrite(t) = {}
    BY <1>1 DEF SqlInv, Works, ToWrite, Sqlite!Elems
  <2>2. \A d \in Held : Present(d)
    BY DEF SqlInv
  <2>3. ASSUME NEW d \in Held PROVE Present(d)'
    <3>1. ASSUME NEW u \in Threads, d.id \notin ToWrite(u)' PROVE d.id \notin ToWrite(u)
      BY <1>1, <2>1, <3>1
    <3>2. Present(d) /\ UNCHANGED <<db, failed, lost>>
      BY <1>1, <2>2
    <3> QED BY <3>1, <3>2 DEF Present, Excused
  <2>4. ASSUME NEW d \in Sqlite!Elems(new) PROVE Present(d)'
    BY <1>1, <1>3, <2>4 DEF Present
  <2> QED BY <1>2, <2>3, <2>4
<1>12. ASSUME NEW id \in Ids PROVE Absent(id)'
  <2>1. Absent(id) /\ (id \in gone => id \in UNION batches)
    BY DEF SqlInv, IdsAssigned
  <2>2. \A u \in Threads : pc'[u] = "delete" => pc[u] = "delete" /\ ToWrite(u)' = ToWrite(u) /\ batch'[u] = batch[u]
    BY <1>1 DEF SqlInv, SqlTypes
  <2>3. \A u \in Threads : pc[u] = "delete" => pc'[u] = "delete" /\ ToWrite(u)' = ToWrite(u)
    BY <1>1 DEF SqlInv, SqlTypes
  <2>4. (\A d \in Held' : d.id # id) => \A d \in Held : d.id # id
    BY <1>2
  <2>5. id \in gone /\ (\A d \in Held : d.id # id) => \A d \in Held' : d.id # id
    BY <1>1, <1>2, <1>3, <2>1
  <2> QED BY <1>1, <2>1, <2>2, <2>3, <2>4, <2>5 DEF Absent, Excused
<1>13. (\A d \in added' : Added(d)') /\ Rides'
  BY <1>1 DEF SqlInv, Added, Rides
<1>14. \A b \in batches' : Committed(b)'
  <2>1. \A b \in batches : Committed(b)'
    BY <1>1 DEF SqlInv, Committed
  <2>2. \A id \in ids : disk[id] = None
    BY <1>1 DEF SqlInv, IdsAssigned, Rows
  <2> QED BY <1>1, <2>1, <2>2 DEF Committed
<1> QED BY <1>1, <1>5, <1>6, <1>7, <1>8, <1>9, <1>10, <1>11, <1>12, <1>13, <1>14 DEF SqlInv

\* What is in memory are documents, one per id.
LEMMA HeldDocs ==
  ASSUME SqlTypes, IdsAssigned
  PROVE  /\ docs \in Seq(Sqlite!Doc) /\ Distinct(docs)
         /\ \A d \in Held : d \in Sqlite!Doc /\ d.id \in Ids /\ d.val \in Vals
         /\ \A d, e \in Held : d.id = e.id => d = e
<1>1. docs \in Seq(Sqlite!Doc) /\ Distinct(docs)
  BY DEF SqlTypes, IdsAssigned, Distinct
<1>2. \A i \in DOMAIN docs : docs[i] \in Sqlite!Doc
  BY <1>1
<1>3. \A d \in Held : \E i \in DOMAIN docs : d = docs[i]
  BY DEF Held, Sqlite!Elems
<1>4. \A d \in Held : d \in Sqlite!Doc
  BY <1>2, <1>3
<1>5. \A d, e \in Held : d.id = e.id => d = e
  BY <1>1, <1>3 DEF Distinct
<1> QED BY <1>1, <1>4, <1>5 DEF Sqlite!Doc

LEMMA SqlBegins ==
  ASSUME SqlInv, NEW t \in Threads, Sqlite!Begin(t) \/ Sqlite!Lock(t)
  PROVE  SqlInv'
<1>1. /\ pc[t] \in {"begin", "lock"} /\ pc' \in [Threads -> {"idle", "begin", "lock", "insert", "rollback", "delete", "update"}]
      /\ pc'[t] \in {"lock", "insert"} /\ \A u \in Threads \ {t} : pc'[u] = pc[u]
      /\ UNCHANGED <<docs, db, disk, todo, batch, added, touched, gone, failed, batches, riding, lost, unowned, skipped, stuck>>
  BY DEF Sqlite!Begin, Sqlite!Lock, Sqlite!Goto, Sqlite!histVars, Sqlite!rideVars, Sqlite!errorVars, Sqlite!tableVars, SqlInv, SqlTypes, Inserting
<1>2. SqlTypes' /\ Sqlite!TransactionOwned'
  <2>1. CASE Sqlite!Begin(t)
    BY <1>1, <2>1 DEF Sqlite!Begin, Sqlite!Goto, SqlInv, SqlTypes, Sqlite!TransactionOwned
  <2>2. CASE Sqlite!Lock(t)
    BY <1>1, <2>2, StorageAssumption DEF Sqlite!Lock, Sqlite!Goto, Sqlite!tableVars, SqlInv, SqlTypes, Sqlite!TransactionOwned
  <2> QED BY <2>1, <2>2
<1>3. Held' = Held /\ (\A u \in Threads : ToWrite(u)' = ToWrite(u))
  BY <1>1 DEF Held, ToWrite, Sqlite!Elems
<1>4. \A u \in Threads : /\ Inserting(u)' <=> Inserting(u)
                         /\ pc'[u] \in {"begin", "lock"} => pc[u] \in {"begin", "lock"}
                         /\ pc'[u] = "rollback" <=> pc[u] = "rollback"
                         /\ pc'[u] \in {"idle", "delete", "update"} \/ pc[u] \in {"idle", "delete", "update"} => pc'[u] = pc[u]
  BY <1>1 DEF Inserting
<1>5. IdsAssigned'
  BY <1>1, <1>3 DEF SqlInv, IdsAssigned, Rows
<1>6. ASSUME NEW u \in Threads PROVE Works(u)'
  <2>1. Works(u) /\ todo'[u] = todo[u] /\ batch'[u] = batch[u]
    BY <1>1 DEF SqlInv
  <2> QED BY <1>1, <1>3, <1>4, <2>1 DEF Works
<1>7. Owned(t)'
  <2>1. ToWrite(t) = batch[t]
    BY <1>1 DEF SqlInv, Works
  <2>2. CASE Sqlite!Begin(t)
    <3>1. owns'[t] => db = disk
      BY <2>2 DEF Sqlite!Begin, SqlInv, SqlTypes, Sqlite!TransactionOwned
    <3>2. batch'[t] \ ToWrite(t)' = {}
      BY <1>1, <1>3, <2>1
    <3> QED BY <1>1, <3>1, <3>2 DEF Owned
  <2>3. CASE Sqlite!Lock(t)
    BY <1>1, <1>3, <2>3 DEF Sqlite!Lock, SqlInv, Owned
  <2> QED BY <2>2, <2>3
<1>8. \A u \in Threads \ {t} : Owned(u)'
  BY <1>1, <1>3 DEF Sqlite!Begin, Sqlite!Lock, SqlInv, SqlTypes, Owned
<1>9. \A d \in Held' : Present(d)'
  BY <1>1, <1>3 DEF SqlInv, Present, Excused
<1>10. \A id \in Ids : Absent(id)'
  BY <1>1, <1>3, <1>4 DEF SqlInv, Absent, Excused
<1>11. (\A d \in added' : Added(d)') /\ (\A b \in batches' : Committed(b)') /\ Rides'
  BY <1>1 DEF SqlInv, Added, Committed, Rides
<1> QED BY <1>1, <1>2, <1>5, <1>6, <1>7, <1>8, <1>9, <1>10, <1>11 DEF SqlInv

\* The rows of the table are found by id, of which there is one document.
LEMMA Lookup ==
  ASSUME docs \in Seq(Sqlite!Doc), Distinct(docs)
  PROVE  /\ \A d \in Held : /\ Sqlite!Positions(d.id) # {}
                            /\ \E i \in DOMAIN docs : /\ Sqlite!Positions(d.id) = {i} /\ docs[i] = d
                                                      /\ Sqlite!FirstOf(Sqlite!Positions(d.id)) = i
                                                      /\ Sqlite!LastOf(Sqlite!Positions(d.id)) = i
         /\ \A id : Sqlite!Positions(id) # {} <=> \E d \in Held : d.id = id
<1>1. ASSUME NEW d \in Held
      PROVE  \E i \in DOMAIN docs : /\ Sqlite!Positions(d.id) = {i} /\ docs[i] = d
                                    /\ Sqlite!FirstOf(Sqlite!Positions(d.id)) = i
                                    /\ Sqlite!LastOf(Sqlite!Positions(d.id)) = i
  <2>1. PICK i \in DOMAIN docs : docs[i] = d
    BY DEF Held, Sqlite!Elems
  <2>2. Sqlite!Positions(d.id) = {i}
    BY <2>1 DEF Sqlite!Positions, Distinct
  <2>3. i \in Nat
    BY <2>1
  <2>4. Sqlite!FirstOf({i}) = i /\ Sqlite!LastOf({i}) = i
    BY <2>3 DEF Sqlite!FirstOf, Sqlite!LastOf
  <2> QED BY <2>1, <2>2, <2>4
<1>2. \A id : Sqlite!Positions(id) # {} <=> \E d \in Held : d.id = id
  BY DEF Sqlite!Positions, Held, Sqlite!Elems
<1> QED BY <1>1, <1>2

\* A statement changes one row, and the committed table unless it belongs to
\* an open transaction.
LEMMA Written ==
  ASSUME SqlTypes, Sqlite!TransactionOwned, IdsAssigned, NEW id \in UNION batches, NEW v \in Vals \cup {None}, Sqlite!Write(id, v)
  PROVE  /\ id \in Ids /\ txn' = txn
         /\ db' \in [Ids -> Vals \cup {None}] /\ disk' \in [Ids -> Vals \cup {None}]
         /\ db'[id] = v /\ (\A x \in Ids \ {id} : db'[x] = db[x])
         /\ \A x \in Ids \ {id} : disk'[x] = disk[x]
         /\ (txn => disk' = disk) /\ (~txn => disk' = db')
         /\ Rows(db') \cup Rows(disk') \subseteq UNION batches
         /\ IsFiniteSet(Rows(db')) /\ IsFiniteSet(Rows(disk'))
<1>1. id \in Ids /\ db' = [db EXCEPT ![id] = v] /\ disk' = (IF txn THEN disk ELSE db') /\ txn' = txn
  BY DEF SqlTypes, Sqlite!Write
<1>2. db' \in [Ids -> Vals \cup {None}] /\ db'[id] = v /\ (\A x \in Ids \ {id} : db'[x] = db[x])
  BY <1>1 DEF SqlTypes
<1>3. /\ disk' \in [Ids -> Vals \cup {None}] /\ (txn => disk' = disk) /\ (~txn => disk' = db')
      /\ (\A x \in Ids \ {id} : disk'[x] = disk[x])
  BY <1>1, <1>2 DEF SqlTypes, Sqlite!TransactionOwned
<1>4. Rows(db') \in SUBSET (Rows(db) \cup {id})
  BY <1>1, <1>2 DEF Rows
<1>5. IsFiniteSet(Rows(db) \cup {id})
  BY FS_AddElement DEF IdsAssigned
<1>6. IsFiniteSet(Rows(db'))
  BY <1>4, <1>5, FS_Subset
<1>7. Rows(disk') = Rows(disk) \/ Rows(disk') = Rows(db')
  BY <1>3 DEF Rows
<1> QED BY <1>1, <1>2, <1>3, <1>4, <1>6, <1>7 DEF IdsAssigned

\* What a step of thread t does to the table and the histories for the row of
\* one id, whether its statement is carried out, fails or is not needed.
TableStep(t, id) ==
  /\ txn' = txn /\ stuck' = stuck
  /\ db' \in [Ids -> Vals \cup {None}] /\ disk' \in [Ids -> Vals \cup {None}]
  /\ \A x \in Ids \ {id} : db'[x] = db[x] /\ disk'[x] = disk[x]
  /\ (txn => disk' = disk) /\ (~txn => disk' = db')
  /\ Rows(db') \cup Rows(disk') \subseteq UNION batches
  /\ IsFiniteSet(Rows(db')) /\ IsFiniteSet(Rows(disk'))
  /\ riding \subseteq riding' /\ riding' \subseteq riding \cup {id}
  /\ (owns[t] => riding' = riding) /\ (txn /\ ~owns[t] => id \in riding' \/ db' = db)
  /\ failed \subseteq failed' /\ failed' \subseteq failed \cup {id}
  /\ skipped \subseteq skipped' /\ skipped' \subseteq skipped \cup {id}

LEMMA Tried ==
  ASSUME SqlInv, NEW t \in Threads, NEW id \in UNION batches,
         failed' \in {failed, failed \cup {id}}, skipped' \in {skipped, skipped \cup {id}}, stuck' = stuck,
         \/ /\ riding' = IF txn /\ ~owns[t] THEN riding \cup {id} ELSE riding
            /\ UNCHANGED <<db, disk, txn>> \/ \E v \in Vals \cup {None} : Sqlite!Write(id, v)
         \/ UNCHANGED <<db, disk, txn, riding>>
  PROVE  TableStep(t, id)
<1>1. SqlTypes /\ Sqlite!TransactionOwned /\ IdsAssigned
  BY DEF SqlInv
<1>2. CASE UNCHANGED <<db, disk, txn>>
  <2>1. Rows(db') = Rows(db) /\ Rows(disk') = Rows(disk)
    BY <1>2
  <2> QED BY <1>1, <1>2, <2>1 DEF SqlTypes, IdsAssigned, Sqlite!TransactionOwned, TableStep
<1>3. ASSUME NEW v \in Vals \cup {None}, Sqlite!Write(id, v), riding' = IF txn /\ ~owns[t] THEN riding \cup {id} ELSE riding
      PROVE  TableStep(t, id)
  <2>1. /\ txn' = txn
        /\ db' \in [Ids -> Vals \cup {None}] /\ disk' \in [Ids -> Vals \cup {None}]
        /\ \A x \in Ids \ {id} : db'[x] = db[x] /\ disk'[x] = disk[x]
        /\ (txn => disk' = disk) /\ (~txn => disk' = db')
        /\ Rows(db') \cup Rows(disk') \subseteq UNION batches
        /\ IsFiniteSet(Rows(db')) /\ IsFiniteSet(Rows(disk'))
    BY <1>1, <1>3, Written
  <2> QED BY <1>3, <2>1 DEF TableStep
<1> QED BY <1>2, <1>3

\* The transaction stays owned, and its rows are its owner's or ride on it.
LEMMA TableStepRides ==
  ASSUME SqlInv, NEW t \in Threads, NEW id \in Ids, TableStep(t, id), unowned \subseteq unowned', touched' = touched,
         id \in touched \/ owns[t] \/ id \in unowned'
  PROVE  Rides'
<1>1. ASSUME ~stuck PROVE riding' \subseteq touched' \cup unowned'
  BY <1>1 DEF SqlInv, Rides, TableStep
<1>2. ASSUME stuck, NEW x \in Ids, db'[x] # disk'[x] PROVE x \in riding'
  <2>1. txn /\ ~ owns[t] /\ disk' = disk
    BY <1>2 DEF SqlInv, Sqlite!TransactionOwned, TableStep
  <2>2. db[x] # disk[x] => x \in riding
    BY <1>2 DEF SqlInv, Rides
  <2> QED BY <1>2, <2>1, <2>2 DEF TableStep
<1> QED BY <1>1, <1>2 DEF Rides, TableStep

\* A step that writes row id, to what is in memory under it if it is not deleted.
LEMMA SqlInsertNext ==
  ASSUME SqlInv, NEW t \in Threads, Sqlite!InsertNext(t)
  PROVE  SqlInv'
<1> DEFINE id == Head(todo[t])
<1>1. /\ id \in Ids /\ todo'[t] \in Seq(Ids) /\ ToWrite(t) = {id} \cup ToWrite(t)'
      /\ todo' \in [Threads -> Seq(Ids)] /\ \A u \in Threads \ {t} : ToWrite(u)' = ToWrite(u) /\ todo'[u] = todo[u]
  <2>1. /\ todo[t] \in Seq(Ids) /\ todo[t] # <<>> /\ todo' = [todo EXCEPT ![t] = Tail(todo[t])]
        /\ todo \in [Threads -> Seq(Ids)]
    BY DEF Sqlite!InsertNext, SqlInv, SqlTypes
  <2>2. id \in Ids /\ Tail(todo[t]) \in Seq(Ids) /\ Sqlite!Elems(todo[t]) = {id} \cup Sqlite!Elems(Tail(todo[t]))
    BY <2>1, Parts
  <2> HIDE DEF id
  <2>3. todo'[t] = Tail(todo[t]) /\ \A u \in Threads \ {t} : todo'[u] = todo[u]
    BY <2>1
  <2>4. ToWrite(t)' = Sqlite!Elems(Tail(todo[t]))
    BY <2>3 DEF ToWrite, Sqlite!Elems
  <2>5. \A u \in Threads \ {t} : ToWrite(u)' = ToWrite(u)
    BY <2>3 DEF ToWrite, Sqlite!Elems
  <2>6. ToWrite(t) = Sqlite!Elems(todo[t])
    BY DEF ToWrite
  <2> QED BY <2>1, <2>2, <2>3, <2>4, <2>5, <2>6
<1>2. /\ pc[t] = "insert" /\ id \in batch[t] /\ batch[t] \in batches /\ id \notin touched \cup gone
      /\ \A d \in added : d.id # id
      /\ \E d \in Held : d.id = id
  BY <1>1 DEF Sqlite!InsertNext, SqlInv, Works, Inserting
<1>3. PICK d \in Held : d.id = id
  BY <1>2
<1>4. Sqlite!Positions(id) # {} /\ docs[Sqlite!LastOf(Sqlite!Positions(id))] = d /\ d.val \in Vals
  <2>1. docs \in Seq(Sqlite!Doc) /\ Distinct(docs) /\ d \in Sqlite!Doc
    BY HeldDocs DEF SqlInv
  <2> QED BY <1>3, <2>1, Lookup DEF Sqlite!Doc
<1>5. /\ \/ /\ Sqlite!Write(id, d.val) /\ failed' = failed /\ skipped' = skipped
            /\ riding' = IF txn /\ ~owns[t] THEN riding \cup {id} ELSE riding
         \/ failed' = failed \cup {id} /\ skipped' = skipped \cup {id} /\ UNCHANGED <<db, disk, txn, riding>>
      /\ unowned' = (IF owns[t] THEN unowned ELSE unowned \cup {id})
      /\ UNCHANGED <<docs, mu, pc, owns, batch, added, touched, gone, batches, lost, stuck>>
  BY <1>4 DEF Sqlite!InsertNext, Sqlite!Ride, Sqlite!Fails, Sqlite!tableVars, Sqlite!errorVars
<1> HIDE DEF id
<1>6. id \in UNION batches /\ (db'[id] = d.val \/ (id \in failed' /\ id \in skipped')) /\ d.val # None
  <2>1. id \in UNION batches /\ SqlTypes /\ Sqlite!TransactionOwned /\ IdsAssigned
    BY <1>2 DEF SqlInv
  <2>2. CASE Sqlite!Write(id, d.val)
    BY <1>4, <2>1, <2>2, Written, StorageAssumption
  <2>3. CASE id \in failed' /\ id \in skipped'
    BY <1>4, <2>1, <2>3, StorageAssumption
  <2> QED BY <1>5, <2>2, <2>3
<1>18. TableStep(t, id)
  <2>1. CASE Sqlite!Write(id, d.val) /\ failed' = failed /\ skipped' = skipped
    BY <1>4, <1>5, <1>6, <2>1, Tried
  <2>2. CASE failed' = failed \cup {id} /\ skipped' = skipped \cup {id} /\ UNCHANGED <<db, disk, txn, riding>>
    BY <1>5, <1>6, <2>2, Tried
  <2> QED BY <1>5, <2>1, <2>2
<1>19. failed' = failed \/ id \in skipped'
  BY <1>5
<1>7. Held' = Held
  BY <1>5 DEF Held, Sqlite!Elems
<1>8. SqlTypes'
  <2>1. riding' \subseteq Ids /\ failed' \subseteq Ids /\ skipped' \subseteq Ids /\ unowned' \subseteq Ids
    BY <1>1, <1>5, <1>18 DEF SqlInv, SqlTypes, TableStep
  <2> QED BY <1>1, <1>5, <1>18, <2>1 DEF SqlInv, SqlTypes, TableStep
<1>9. Sqlite!TransactionOwned'
  BY <1>5, <1>18 DEF SqlInv, Sqlite!TransactionOwned, TableStep
<1>10. IdsAssigned'
  BY <1>5, <1>6, <1>7, <1>18 DEF SqlInv, IdsAssigned, TableStep
<1>11. ASSUME NEW u \in Threads PROVE Works(u)'
  <2>1. Works(u) /\ (u # t /\ Inserting(u) => id \notin batch[u]) /\ ToWrite(u)' \subseteq ToWrite(u)
    BY <1>1, <1>2 DEF SqlInv, Works, Inserting
  <2>2. Inserting(u) => IF pc[u] = "rollback" THEN batch[u] \subseteq failed' ELSE batch[u] \cap failed' \subseteq skipped'
    BY <1>2, <1>18, <1>19, <2>1 DEF Works, TableStep
  <2>3. u = t => pc[u] = "insert"
    BY <1>2
  <2>4. pc[u] \in {"begin", "lock", "delete", "update", "idle"} => ToWrite(u)' = ToWrite(u) /\ todo'[u] = todo[u]
    BY <1>1, <2>3
  <2> QED BY <1>5, <1>7, <2>1, <2>2, <2>4 DEF Works, Inserting
<1>12. ASSUME NEW u \in Threads PROVE Owned(u)'
  <2>1. Owned(u) /\ (owns[u] => txn) /\ (owns[u] /\ u # t => ~ owns[t])
    BY DEF SqlInv, Sqlite!TransactionOwned
  <2> SUFFICES ASSUME owns[u] PROVE (\A x \in Ids : db'[x] # disk'[x] => x \in riding' \cup batch[u])
                                    /\ (\A x \in batch[u] \ (ToWrite(u)' \cup skipped') : db'[x] # None)
    BY <1>5 DEF Owned
  <2>2. ASSUME NEW x \in Ids, db'[x] # disk'[x] PROVE x \in riding' \cup batch[u]
    <3>1. disk' = disk /\ (db[x] # disk[x] => x \in riding' \cup batch[u])
      BY <1>18, <2>1 DEF Owned, TableStep
    <3>2. CASE x # id
      BY <1>18, <2>2, <3>1, <3>2 DEF TableStep
    <3>3. CASE x = id
      BY <1>2, <1>18, <2>1, <2>2, <3>1, <3>3 DEF TableStep
    <3> QED BY <3>2, <3>3
  <2>3. batch[u] \subseteq Ids
    BY DEF SqlInv, SqlTypes
  <2>4. \A x \in batch[u] \ ToWrite(u)' : x = id \/ x \notin ToWrite(u)
    BY <1>1
  <2>5. \A x \in batch[u] \ (ToWrite(u)' \cup skipped') : db'[x] # None
    BY <1>6, <1>18, <2>1, <2>3, <2>4 DEF Owned, TableStep
  <2> QED BY <2>2, <2>5
<1>13. ASSUME NEW e \in Held PROVE Present(e)'
  <2>1. e.id = id => e = d
    BY <1>3, HeldDocs DEF SqlInv
  <2>2. e.id \in Ids /\ Present(e)
    BY HeldDocs DEF SqlInv
  <2>3. e.id # id /\ (\A u \in Threads : e.id \notin ToWrite(u)') => \A u \in Threads : e.id \notin ToWrite(u)
    BY <1>1
  <2> QED BY <1>3, <1>5, <1>6, <1>18, <2>1, <2>2, <2>3 DEF Present, Excused, TableStep
<1>14. ASSUME NEW x \in Ids PROVE Absent(x)'
  <2>1. Absent(x) /\ (x # id => db'[x] = db[x]) /\ failed \subseteq failed' /\ skipped \subseteq skipped'
    BY <1>18 DEF SqlInv, TableStep
  <2>2. \A u \in Threads : pc[u] = "delete" => ToWrite(u)' = ToWrite(u) /\ id \notin batch[u]
    BY <1>1, <1>2 DEF SqlInv, Works
  <2>3. CASE x = id
    BY <1>2, <1>3, <1>5, <1>7, <2>2, <2>3 DEF Absent
  <2>4. CASE x # id
    BY <1>5, <1>7, <2>1, <2>2, <2>4 DEF Absent, Excused
  <2> QED BY <2>3, <2>4
<1>15. ASSUME NEW e \in added PROVE Added(e)'
  <2>1. e.id \in Ids /\ e.id # id /\ Added(e)
    BY <1>2 DEF SqlInv, SqlTypes, Sqlite!Doc
  <2> QED BY <1>5, <1>18, <2>1 DEF Added, TableStep
<1>16. Rides'
  BY <1>1, <1>5, <1>18, TableStepRides
<1>17. ASSUME NEW b \in batches PROVE Committed(b)'
  <2>1. Committed(b) /\ b \subseteq Ids /\ (~txn => ~ owns[t])
    BY DEF SqlInv, SqlTypes, Sqlite!TransactionOwned
  <2>2. CASE txn
    BY <1>5, <1>18, <2>1, <2>2 DEF Committed, TableStep
  <2>3. CASE ~txn
    BY <1>5, <1>18, <2>1, <2>3 DEF Committed, TableStep
  <2> QED BY <2>2, <2>3
<1> QED BY <1>5, <1>7, <1>8, <1>9, <1>10, <1>11, <1>12, <1>13, <1>14, <1>15, <1>16, <1>17 DEF SqlInv

LEMMA SqlPersistDelete ==
  ASSUME SqlInv, NEW t \in Threads, Sqlite!PersistDelete(t)
  PROVE  SqlInv'
<1> DEFINE id == Head(todo[t])
<1>1. /\ id \in Ids /\ todo'[t] \in Seq(Ids) /\ ToWrite(t) = {id} \cup ToWrite(t)'
      /\ todo' \in [Threads -> Seq(Ids)] /\ \A u \in Threads \ {t} : ToWrite(u)' = ToWrite(u) /\ todo'[u] = todo[u]
  <2>1. /\ todo[t] \in Seq(Ids) /\ todo[t] # <<>> /\ todo' = [todo EXCEPT ![t] = Tail(todo[t])]
        /\ todo \in [Threads -> Seq(Ids)]
    BY DEF Sqlite!PersistDelete, SqlInv, SqlTypes
  <2>2. id \in Ids /\ Tail(todo[t]) \in Seq(Ids) /\ Sqlite!Elems(todo[t]) = {id} \cup Sqlite!Elems(Tail(todo[t]))
    BY <2>1, Parts
  <2> HIDE DEF id
  <2>3. todo'[t] = Tail(todo[t]) /\ \A u \in Threads \ {t} : todo'[u] = todo[u]
    BY <2>1
  <2>4. ToWrite(t)' = Sqlite!Elems(Tail(todo[t]))
    BY <2>3 DEF ToWrite, Sqlite!Elems
  <2>5. \A u \in Threads \ {t} : ToWrite(u)' = ToWrite(u)
    BY <2>3 DEF ToWrite, Sqlite!Elems
  <2>6. ToWrite(t) = Sqlite!Elems(todo[t])
    BY DEF ToWrite
  <2> QED BY <2>1, <2>2, <2>3, <2>4, <2>5, <2>6
<1>2. /\ pc[t] = "delete" /\ id \in touched /\ id \in UNION batches /\ ~ owns[t]
      /\ \A d \in Held : d.id # id
  <2>1. pc[t] = "delete" /\ id \in batch[t]
    BY <1>1 DEF Sqlite!PersistDelete, SqlInv, Works
  <2>2. id \in touched /\ (\A d \in Held : d.id # id) /\ ~ owns[t]
    BY <2>1 DEF SqlInv, Works, Sqlite!TransactionOwned
  <2>3. touched \subseteq UNION batches
    BY DEF SqlInv, IdsAssigned
  <2> HIDE DEF id
  <2> QED BY <2>1, <2>2, <2>3
<1>3. /\ \/ /\ Sqlite!Write(id, None) /\ failed' = failed /\ skipped' = skipped
            /\ riding' = IF txn /\ ~owns[t] THEN riding \cup {id} ELSE riding
         \/ failed' = failed \cup {id} /\ skipped' = skipped \cup {id} /\ UNCHANGED <<db, disk, txn, riding>>
      /\ UNCHANGED <<docs, mu, pc, owns, batch, added, touched, gone, batches, lost, unowned, stuck>>
  BY DEF Sqlite!PersistDelete, Sqlite!Ride, Sqlite!Fails, Sqlite!tableVars, Sqlite!errorVars
<1> HIDE DEF id
<1>4. TableStep(t, id) /\ (db'[id] = None \/ (id \in failed' /\ id \in skipped'))
  <2>1. CASE Sqlite!Write(id, None) /\ failed' = failed /\ skipped' = skipped
    BY <1>2, <1>3, <2>1, Tried, Written DEF SqlInv
  <2>2. CASE failed' = failed \cup {id} /\ skipped' = skipped \cup {id} /\ UNCHANGED <<db, disk, txn, riding>>
    BY <1>2, <1>3, <2>2, Tried
  <2> QED BY <1>3, <2>1, <2>2
<1>5. Held' = Held
  BY <1>3 DEF Held, Sqlite!Elems
<1>6. SqlTypes' /\ Sqlite!TransactionOwned'
  <2>1. riding' \subseteq Ids /\ failed' \subseteq Ids /\ skipped' \subseteq Ids
    BY <1>1, <1>4 DEF SqlInv, SqlTypes, TableStep
  <2> QED BY <1>1, <1>2, <1>3, <1>4, <2>1 DEF SqlInv, SqlTypes, Sqlite!TransactionOwned, TableStep
<1>7. IdsAssigned'
  BY <1>2, <1>3, <1>4, <1>5 DEF SqlInv, IdsAssigned, TableStep
<1>8. ASSUME NEW u \in Threads PROVE Works(u)'
  <2>1. Works(u) /\ (Inserting(u) => id \notin batch[u]) /\ ToWrite(u)' \subseteq ToWrite(u)
    BY <1>1, <1>2 DEF SqlInv, Works, Inserting
  <2>2. Inserting(u) => IF pc[u] = "rollback" THEN batch[u] \subseteq failed' ELSE batch[u] \cap failed' \subseteq skipped'
    BY <1>4, <2>1 DEF Works, TableStep
  <2>3. pc[u] # "delete" => ToWrite(u)' = ToWrite(u) /\ todo'[u] = todo[u]
    BY <1>1, <1>2
  <2> QED BY <1>3, <1>5, <2>1, <2>2, <2>3 DEF Works, Inserting
<1>9. ASSUME NEW u \in Threads PROVE Owned(u)'
  <2>1. Owned(u) /\ (owns[u] => txn /\ u # t /\ id \notin batch[u]) /\ batch[u] \subseteq Ids
    BY <1>2 DEF SqlInv, SqlTypes, Sqlite!TransactionOwned, Works, Inserting
  <2> SUFFICES ASSUME owns[u] PROVE (\A x \in Ids : db'[x] # disk'[x] => x \in riding' \cup batch[u])
                                    /\ (\A x \in batch[u] \ (ToWrite(u)' \cup skipped') : db'[x] # None)
    BY <1>3 DEF Owned
  <2>2. disk' = disk /\ ToWrite(u)' = ToWrite(u) /\ (id \in riding' \/ db' = db)
    BY <1>1, <1>2, <1>4, <2>1 DEF TableStep
  <2>3. \A x \in Ids : db'[x] # disk'[x] => x \in riding' \cup batch[u]
    BY <1>4, <2>1, <2>2 DEF TableStep, Owned
  <2>4. \A x \in batch[u] : db'[x] = db[x]
    BY <1>4, <2>1 DEF TableStep
  <2> QED BY <1>4, <2>1, <2>2, <2>3, <2>4 DEF TableStep, Owned
<1>10. ASSUME NEW e \in Held PROVE Present(e)'
  <2>1. e.id # id /\ e.id \in Ids /\ Present(e)
    BY <1>2, HeldDocs DEF SqlInv
  <2>2. (\A u \in Threads : e.id \notin ToWrite(u)') => \A u \in Threads : e.id \notin ToWrite(u)
    BY <1>1, <2>1
  <2> QED BY <1>3, <1>4, <2>1, <2>2 DEF Present, Excused, TableStep
<1>11. ASSUME NEW x \in Ids PROVE Absent(x)'
  <2>1. Absent(x) /\ (x # id => db'[x] = db[x]) /\ failed \subseteq failed' /\ skipped \subseteq skipped'
    BY <1>4 DEF SqlInv, TableStep
  <2>2. x # id => \A u \in Threads : x \in ToWrite(u)' <=> x \in ToWrite(u)
    BY <1>1
  <2>3. CASE x = id
    BY <1>2, <1>3, <1>4, <1>5, <2>3 DEF Absent, Excused
  <2>4. CASE x # id
    BY <1>3, <1>5, <2>1, <2>2, <2>4 DEF Absent, Excused
  <2> QED BY <2>3, <2>4
<1>12. ASSUME NEW e \in added PROVE Added(e)'
  <2>1. e.id \in Ids /\ Added(e)
    BY DEF SqlInv, SqlTypes, Sqlite!Doc
  <2> QED BY <1>2, <1>3, <1>4, <2>1 DEF Added, TableStep
<1>13. Rides'
  BY <1>1, <1>2, <1>3, <1>4, TableStepRides
<1>14. ASSUME NEW b \in batches PROVE Committed(b)'
  <2>1. Committed(b) /\ b \subseteq Ids
    BY DEF SqlInv, SqlTypes
  <2> QED BY <1>2, <1>3, <1>4, <2>1 DEF Committed, TableStep
<1> QED BY <1>3, <1>5, <1>6, <1>7, <1>8, <1>9, <1>10, <1>11, <1>12, <1>13, <1>14 DEF SqlInv

\* The end of an operation: nothing is left to write.
LEMMA Finished ==
  ASSUME SqlTypes, NEW t \in Threads, Sqlite!Finish(t)
  PROVE  /\ todo' \in [Threads -> Seq(Ids)] /\ batch' \in [Threads -> SUBSET Ids]
         /\ pc' \in [Threads -> {"idle", "begin", "lock", "insert", "rollback", "delete", "update"}]
         /\ pc'[t] = "idle" /\ todo'[t] = <<>> /\ batch'[t] = {} /\ ToWrite(t)' = {}
         /\ \A u \in Threads \ {t} : pc'[u] = pc[u] /\ todo'[u] = todo[u] /\ batch'[u] = batch[u] /\ ToWrite(u)' = ToWrite(u)
<1>1. pc' = [pc EXCEPT ![t] = "idle"] /\ todo' = [todo EXCEPT ![t] = <<>>] /\ batch' = [batch EXCEPT ![t] = {}]
  BY DEF Sqlite!Finish, Sqlite!Goto
<1>2. <<>> \in Seq(Ids)
  OBVIOUS
<1>3. /\ todo' \in [Threads -> Seq(Ids)] /\ todo'[t] = <<>> /\ \A u \in Threads \ {t} : todo'[u] = todo[u]
  BY <1>1, <1>2 DEF SqlTypes
<1> QED BY <1>1, <1>3 DEF SqlTypes, ToWrite, Sqlite!Elems

LEMMA SqlPersistUpdate ==
  ASSUME SqlInv, NEW t \in Threads, Sqlite!PersistUpdate(t)
  PROVE  SqlInv'
<1> DEFINE id == Head(todo[t])
<1>1. id \in Ids /\ ToWrite(t) = {id} /\ id \in touched /\ id \in UNION batches /\ ~ owns[t] /\ pc[t] = "update"
  <2>1. pc[t] = "update" /\ batch[t] \subseteq touched /\ ToWrite(t) \subseteq batch[t] /\ ~ owns[t]
    BY DEF Sqlite!PersistUpdate, SqlInv, Works, Sqlite!TransactionOwned
  <2>2. PICK x \in Ids : todo[t] = <<x>>
    BY <2>1 DEF SqlInv, Works
  <2>3. id = x /\ ToWrite(t) = {id}
    BY <2>2 DEF ToWrite, Sqlite!Elems
  <2>4. touched \subseteq UNION batches
    BY DEF SqlInv, IdsAssigned
  <2> HIDE DEF id
  <2> QED BY <2>1, <2>2, <2>3, <2>4
<1>2. Sqlite!Finish(t) /\ UNCHANGED <<docs, mu, owns, added, touched, gone, batches, lost, unowned, stuck>>
  BY DEF Sqlite!PersistUpdate, Sqlite!Fails, Sqlite!errorVars
<1>3. /\ todo' \in [Threads -> Seq(Ids)] /\ batch' \in [Threads -> SUBSET Ids]
      /\ pc' \in [Threads -> {"idle", "begin", "lock", "insert", "rollback", "delete", "update"}]
      /\ pc'[t] = "idle" /\ todo'[t] = <<>> /\ batch'[t] = {} /\ ToWrite(t)' = {}
      /\ \A u \in Threads \ {t} : pc'[u] = pc[u] /\ todo'[u] = todo[u] /\ batch'[u] = batch[u] /\ ToWrite(u)' = ToWrite(u)
  BY <1>2, Finished DEF SqlInv
<1> DEFINE Rode == riding' = IF txn /\ ~owns[t] THEN riding \cup {id} ELSE riding
<1>4. \/ (\A d \in Held : d.id # id) /\ UNCHANGED <<db, disk, txn, failed, skipped>> /\ Rode
      \/ (\E d \in Held : d.id = id) /\ failed' = failed \cup {id} /\ UNCHANGED <<db, disk, txn, skipped>> /\ Rode
      \/ (\E d \in Held : d.id = id /\ Sqlite!Write(id, d.val)) /\ failed' = failed /\ skipped' = skipped /\ Rode
      \/ (\E d \in Held : d.id = id) /\ failed' = failed \cup {id} /\ skipped' = skipped \cup {id} /\ UNCHANGED <<db, disk, txn, riding>>
  <2>1. docs \in Seq(Sqlite!Doc) /\ Distinct(docs)
    BY HeldDocs DEF SqlInv
  <2>2. CASE Sqlite!Positions(id) = {}
    BY <2>1, <2>2, Lookup DEF Sqlite!PersistUpdate, Sqlite!tableVars, Sqlite!errorVars, Sqlite!Ride
  <2>3. CASE Sqlite!Positions(id) # {}
    <3>1. PICK d \in Held : d.id = id
      BY <2>1, <2>3, Lookup
    <3>2. docs[Sqlite!FirstOf(Sqlite!Positions(id))] = d
      BY <2>1, <3>1, Lookup
    <3> HIDE DEF id
    <3> QED BY <2>3, <3>1, <3>2 DEF Sqlite!PersistUpdate, Sqlite!tableVars, Sqlite!errorVars, Sqlite!Ride, Sqlite!Fails, id
  <2> QED BY <2>2, <2>3
<1> HIDE DEF id
<1> DEFINE Table ==
      /\ TableStep(t, id)
      /\ \A d \in Held : d.id = id => id \in failed' \/ db'[id] = d.val
      /\ db'[id] = db[id] \/ \E d \in Held : d.id = id
<1>5. Table
  <2>1. CASE UNCHANGED <<db, disk, txn>> /\ failed' \in {failed, failed \cup {id}} /\ skipped' \in {skipped, skipped \cup {id}}
             /\ (Rode \/ riding' = riding) /\ \A d \in Held : d.id = id => id \in failed'
    <3>1. TableStep(t, id)
      BY <1>1, <1>2, <2>1, Tried
    <3> QED BY <2>1, <3>1
  <2>2. ASSUME NEW d \in Held, d.id = id, Sqlite!Write(id, d.val), failed' = failed, skipped' = skipped, Rode
        PROVE  Table
    <3>1. d.val \in Vals \cup {None} /\ \A e \in Held : e.id = id => e = d
      BY <2>2, HeldDocs DEF SqlInv
    <3>2. TableStep(t, id)
      BY <1>1, <1>2, <2>2, <3>1, Tried
    <3>3. db'[id] = d.val
      BY <1>1, <2>2, <3>1, Written DEF SqlInv
    <3> QED BY <2>2, <3>1, <3>2, <3>3
  <2> HIDE DEF Table
  <2> QED BY <1>4, <2>1, <2>2
<1> HIDE DEF Rode
<1>6. Held' = Held
  BY <1>2 DEF Held, Sqlite!Elems
<1>7. SqlTypes' /\ Sqlite!TransactionOwned'
  <2>1. riding' \subseteq Ids /\ failed' \subseteq Ids /\ skipped' \subseteq Ids
    BY <1>1, <1>5 DEF SqlInv, SqlTypes, TableStep
  <2> QED BY <1>1, <1>2, <1>3, <1>5, <2>1 DEF SqlInv, SqlTypes, Sqlite!TransactionOwned, TableStep
<1>8. IdsAssigned'
  BY <1>1, <1>2, <1>5, <1>6 DEF SqlInv, IdsAssigned, TableStep
<1>9. ASSUME NEW u \in Threads PROVE Works(u)'
  <2>1. CASE u = t
    BY <1>3, <2>1 DEF Works, Inserting
  <2>2. CASE u # t
    <3>1. Works(u) /\ \A w \in Threads : Inserting(w)' <=> Inserting(w)
      BY <1>1, <1>3 DEF SqlInv, Inserting
    <3>2. Inserting(u) => IF pc[u] = "rollback" THEN batch[u] \subseteq failed' ELSE batch[u] \cap failed' \subseteq skipped'
      BY <1>1, <1>5, <3>1 DEF Works, TableStep
    <3>3. \A w \in Threads : Inserting(w) => batch'[w] = batch[w]
      BY <1>1, <1>3 DEF Inserting
    <3>4. /\ pc'[u] = pc[u] /\ todo'[u] = todo[u] /\ batch'[u] = batch[u] /\ ToWrite(u)' = ToWrite(u)
          /\ Inserting(u)' => Inserting(u)
      BY <1>3, <2>2, <3>1
    <3>5. Inserting(u)' => \A w \in Threads : Inserting(w)' /\ w # u => batch'[u] \cap batch'[w] = {}
      BY <3>1, <3>3, <3>4 DEF Works
    <3> QED BY <1>2, <1>6, <3>1, <3>2, <3>4, <3>5 DEF Works
  <2> QED BY <2>1, <2>2
<1>10. ASSUME NEW u \in Threads PROVE Owned(u)'
  <2>1. Owned(u) /\ (owns[u] => txn /\ u # t /\ id \notin batch[u]) /\ batch[u] \subseteq Ids
    BY <1>1 DEF SqlInv, SqlTypes, Sqlite!TransactionOwned, Works, Inserting
  <2> SUFFICES ASSUME owns[u] PROVE (\A x \in Ids : db'[x] # disk'[x] => x \in riding' \cup batch[u])
                                    /\ (\A x \in batch[u] \ (ToWrite(u)' \cup skipped') : db'[x] # None)
    BY <1>2, <1>3, <2>1 DEF Owned
  <2>2. disk' = disk /\ ToWrite(u)' = ToWrite(u) /\ (id \in riding' \/ db' = db)
    BY <1>1, <1>3, <1>5, <2>1 DEF TableStep
  <2>3. \A x \in Ids : db'[x] # disk'[x] => x \in riding' \cup batch[u]
    BY <1>5, <2>1, <2>2 DEF TableStep, Owned
  <2>4. \A x \in batch[u] : db'[x] = db[x]
    BY <1>5, <2>1 DEF TableStep
  <2> QED BY <1>5, <2>1, <2>2, <2>3, <2>4 DEF TableStep, Owned
<1>11. ASSUME NEW e \in Held PROVE Present(e)'
  <2>1. e.id \in Ids /\ Present(e)
    BY HeldDocs DEF SqlInv
  <2>2. e.id # id /\ (\A u \in Threads : e.id \notin ToWrite(u)') => \A u \in Threads : e.id \notin ToWrite(u)
    BY <1>1, <1>3
  <2> QED BY <1>2, <1>5, <2>1, <2>2 DEF Present, Excused, TableStep
<1>12. ASSUME NEW x \in Ids PROVE Absent(x)'
  <2>1. Absent(x)
    BY DEF SqlInv
  <2>2. \A u \in Threads : /\ pc'[u] = "delete" <=> pc[u] = "delete"
                           /\ pc[u] = "delete" => ToWrite(u)' = ToWrite(u) /\ batch'[u] = batch[u] /\ \A d \in Held : d.id \notin batch[u]
    BY <1>1, <1>3 DEF SqlInv, Works
  <2>3. /\ db'[x] = db[x] \/ (x = id /\ \E d \in Held : d.id = id)
        /\ failed \subseteq failed' /\ skipped \subseteq skipped'
    BY <1>5 DEF TableStep
  <2> QED BY <1>2, <1>6, <2>1, <2>2, <2>3 DEF Absent, Excused
<1>13. ASSUME NEW e \in added PROVE Added(e)'
  <2>1. e.id \in Ids /\ Added(e)
    BY DEF SqlInv, SqlTypes, Sqlite!Doc
  <2> QED BY <1>1, <1>2, <1>5, <2>1 DEF Added, TableStep
<1>14. Rides'
  BY <1>1, <1>2, <1>5, TableStepRides
<1>15. ASSUME NEW b \in batches PROVE Committed(b)'
  <2>1. Committed(b) /\ b \subseteq Ids
    BY DEF SqlInv, SqlTypes
  <2> QED BY <1>1, <1>2, <1>5, <2>1 DEF Committed, TableStep
<1> QED BY <1>2, <1>6, <1>7, <1>8, <1>9, <1>10, <1>11, <1>12, <1>13, <1>14, <1>15 DEF SqlInv

LEMMA SqlDeleteReturns ==
  ASSUME SqlInv, NEW t \in Threads, Sqlite!DeleteReturns(t)
  PROVE  SqlInv'
<1>1. /\ Sqlite!Finish(t) /\ pc[t] = "delete" /\ todo[t] = <<>> /\ gone' = gone \cup batch[t] /\ batch[t] \subseteq Ids
      /\ UNCHANGED <<docs, mu, db, disk, txn, owns, added, touched, failed, batches, riding, lost, unowned, skipped, stuck>>
  BY DEF Sqlite!DeleteReturns, Sqlite!tableVars, Sqlite!rideVars, Sqlite!errorVars, SqlInv, SqlTypes
<1>2. /\ todo' \in [Threads -> Seq(Ids)] /\ batch' \in [Threads -> SUBSET Ids]
      /\ pc' \in [Threads -> {"idle", "begin", "lock", "insert", "rollback", "delete", "update"}]
      /\ pc'[t] = "idle" /\ todo'[t] = <<>> /\ batch'[t] = {} /\ ToWrite(t)' = {}
      /\ \A u \in Threads \ {t} : pc'[u] = pc[u] /\ todo'[u] = todo[u] /\ batch'[u] = batch[u] /\ ToWrite(u)' = ToWrite(u)
  BY <1>1, Finished DEF SqlInv
<1>3. Held' = Held /\ ToWrite(t) = {} /\ ~ owns[t]
  BY <1>1 DEF Held, ToWrite, Sqlite!Elems, SqlInv, Sqlite!TransactionOwned
<1>4. batch[t] \subseteq touched /\ \A d \in Held : d.id \notin batch[t]
  BY <1>1 DEF SqlInv, Works
<1>5. SqlTypes' /\ Sqlite!TransactionOwned'
  BY <1>1, <1>2, <1>3 DEF SqlInv, SqlTypes, Sqlite!TransactionOwned
<1>6. IdsAssigned'
  BY <1>1, <1>3, <1>4 DEF SqlInv, IdsAssigned, Rows
<1>7. ASSUME NEW u \in Threads PROVE Works(u)'
  <2>1. CASE u = t
    BY <1>2, <2>1 DEF Works, Inserting
  <2>2. CASE u # t
    <3>1. Works(u) /\ \A w \in Threads : Inserting(w)' <=> Inserting(w)
      BY <1>1, <1>2 DEF SqlInv, Inserting
    <3>2. Inserting(u) => batch[u] \cap gone' = {}
      BY <1>1, <1>4, <3>1 DEF Works
    <3>3. \A w \in Threads : Inserting(w) => batch'[w] = batch[w]
      BY <1>1, <1>2 DEF Inserting
    <3>4. /\ pc'[u] = pc[u] /\ todo'[u] = todo[u] /\ batch'[u] = batch[u] /\ ToWrite(u)' = ToWrite(u)
          /\ Inserting(u)' => Inserting(u)
      BY <1>2, <2>2, <3>1
    <3>5. Inserting(u)' => \A w \in Threads : Inserting(w)' /\ w # u => batch'[u] \cap batch'[w] = {}
      BY <3>1, <3>3, <3>4 DEF Works
    <3> QED BY <1>1, <1>3, <3>1, <3>2, <3>4, <3>5 DEF Works
  <2> QED BY <2>1, <2>2
<1>8. \A u \in Threads : Owned(u)'
  BY <1>1, <1>2, <1>3 DEF SqlInv, Owned
<1>9. \A d \in Held' : Present(d)'
  <2>1. \A u \in Threads : ToWrite(u)' = ToWrite(u)
    BY <1>2, <1>3
  <2> QED BY <1>1, <1>3, <2>1 DEF SqlInv, Present, Excused
<1>10. ASSUME NEW x \in Ids PROVE Absent(x)'
  <2>1. Absent(x)
    BY DEF SqlInv
  <2>2. x \in batch[t] \ (lost \cup skipped) => db[x] = None
    BY <1>1, <1>3, <2>1 DEF Absent
  <2>3. \A u \in Threads : /\ pc'[u] = "delete" => pc[u] = "delete" /\ ToWrite(u)' = ToWrite(u) /\ batch'[u] = batch[u]
                           /\ x \in ToWrite(u)' <=> x \in ToWrite(u)
                           /\ pc[u] = "delete" => pc'[u] = "delete" \/ x \notin ToWrite(u)
    BY <1>2, <1>3
  <2> QED BY <1>1, <1>3, <1>4, <2>1, <2>2, <2>3 DEF Absent, Excused
<1>11. (\A d \in added' : Added(d)') /\ (\A b \in batches' : Committed(b)') /\ Rides'
  BY <1>1 DEF SqlInv, Added, Committed, Rides
<1> QED BY <1>5, <1>6, <1>7, <1>8, <1>9, <1>10, <1>11 DEF SqlInv

\* The start of a delete or an update.
LEMMA Started ==
  ASSUME SqlInv, NEW t \in Threads, NEW l \in {"delete", "update"}, NEW ids \in Seq(Ids), Sqlite!Start(t, l, ids)
  PROVE  /\ todo' \in [Threads -> Seq(Ids)] /\ batch' \in [Threads -> SUBSET Ids]
         /\ pc' \in [Threads -> {"idle", "begin", "lock", "insert", "rollback", "delete", "update"}]
         /\ pc[t] = "idle" /\ mu = None /\ ToWrite(t) = {} /\ ~ owns[t]
         /\ pc'[t] = l /\ todo'[t] = ids /\ batch'[t] = Sqlite!Elems(ids) /\ ToWrite(t)' = Sqlite!Elems(ids) /\ Sqlite!Elems(ids) \subseteq Ids
         /\ \A u \in Threads \ {t} : pc'[u] = pc[u] /\ todo'[u] = todo[u] /\ batch'[u] = batch[u] /\ ToWrite(u)' = ToWrite(u)
         /\ \A u \in Threads : Inserting(u)' <=> Inserting(u)
<1>1. /\ pc[t] = "idle" /\ mu = None
      /\ pc' = [pc EXCEPT ![t] = l] /\ todo' = [todo EXCEPT ![t] = ids] /\ batch' = [batch EXCEPT ![t] = Sqlite!Elems(ids)]
  BY DEF Sqlite!Start, Sqlite!Goto
<1>2. Sqlite!Elems(ids) \subseteq Ids
  BY DEF Sqlite!Elems
<1>3. SqlTypes /\ Works(t) /\ ~ owns[t]
  BY <1>1 DEF SqlInv, Sqlite!TransactionOwned
<1>4. ToWrite(t) = {}
  BY <1>1, <1>3 DEF Works, ToWrite, Sqlite!Elems
<1>5. todo' \in [Threads -> Seq(Ids)] /\ todo'[t] = ids /\ \A u \in Threads \ {t} : todo'[u] = todo[u]
  BY <1>1, <1>3 DEF SqlTypes
<1>6. ToWrite(t)' = Sqlite!Elems(ids) /\ \A u \in Threads \ {t} : ToWrite(u)' = ToWrite(u)
  BY <1>5 DEF ToWrite, Sqlite!Elems
<1> QED BY <1>1, <1>2, <1>3, <1>4, <1>5, <1>6 DEF SqlTypes, Inserting

\* The memory half of a delete or an update: what is held is of the same ids, less
\* what is deleted, and changes only under the ids that the operation will write.
LEMMA SqlMemoryStep ==
  ASSUME SqlInv, NEW t \in Threads, NEW l \in {"delete", "update"}, NEW ids \in Seq(Ids), Sqlite!Start(t, l, ids),
         Sqlite!Elems(ids) \subseteq {d.id : d \in added}, l = "update" => \E id \in Ids : ids = <<id>>,
         touched' = touched \cup Sqlite!Elems(ids),
         docs' \in Seq(Sqlite!Doc), Distinct(docs'),
         \A d \in Held' : d \in Held \/ (d.id \in Sqlite!Elems(ids) /\ \E e \in Held : e.id = d.id),
         \A d \in Held' : l = "delete" => d.id \notin Sqlite!Elems(ids),
         \A d \in Held : (\E e \in Held' : e.id = d.id) \/ (l = "delete" /\ d.id \in Sqlite!Elems(ids)),
         UNCHANGED <<mu, db, disk, txn, owns, added, gone, failed, batches, riding, lost, unowned, skipped, stuck>>
  PROVE  SqlInv'
<1> DEFINE E == Sqlite!Elems(ids)
<1>1. /\ todo' \in [Threads -> Seq(Ids)] /\ batch' \in [Threads -> SUBSET Ids]
      /\ pc' \in [Threads -> {"idle", "begin", "lock", "insert", "rollback", "delete", "update"}]
      /\ pc[t] = "idle" /\ mu = None /\ ToWrite(t) = {} /\ ~ owns[t]
      /\ pc'[t] = l /\ todo'[t] = ids /\ batch'[t] = E /\ ToWrite(t)' = E /\ E \subseteq Ids
      /\ \A u \in Threads \ {t} : pc'[u] = pc[u] /\ todo'[u] = todo[u] /\ batch'[u] = batch[u] /\ ToWrite(u)' = ToWrite(u)
      /\ \A u \in Threads : Inserting(u)' <=> Inserting(u)
  BY Started
<1>2. E \subseteq UNION batches
  BY DEF SqlInv, IdsAssigned
<1>3. \A u \in Threads : Inserting(u) => batch[u] \cap E = {}
  BY DEF SqlInv, Works
<1> HIDE DEF E
<1>4. /\ touched' = touched \cup E
      /\ \A d \in Held' : d \in Held \/ (d.id \in E /\ \E e \in Held : e.id = d.id)
      /\ l = "delete" => \A d \in Held' : d.id \notin E
      /\ \A d \in Held : (\E e \in Held' : e.id = d.id) \/ (l = "delete" /\ d.id \in E)
  BY DEF E
<1>5. SqlTypes'
  BY <1>1, <1>4 DEF SqlInv, SqlTypes
<1>6. Sqlite!TransactionOwned'
  BY <1>1, StorageAssumption DEF SqlInv, SqlTypes, Sqlite!TransactionOwned
<1>7. IdsAssigned'
  <2>1. Rows(db') = Rows(db) /\ Rows(disk') = Rows(disk)
    OBVIOUS
  <2>2. \A d \in Held' : d.id \in UNION batches
    BY <1>2, <1>4 DEF SqlInv, IdsAssigned
  <2>3. \A i, j \in DOMAIN docs' : docs'[i].id = docs'[j].id => i = j
    BY DEF Distinct
  <2> QED BY <1>2, <1>4, <2>1, <2>2, <2>3 DEF SqlInv, IdsAssigned
<1>8. Works(t)'
  <2>1. ~ Inserting(t)
    BY <1>1 DEF Inserting
  <2> QED BY <1>1, <1>4, <2>1 DEF Works
<1>9. ASSUME NEW u \in Threads \ {t} PROVE Works(u)'
  <2>1. Works(u) /\ pc'[u] = pc[u] /\ todo'[u] = todo[u] /\ batch'[u] = batch[u] /\ ToWrite(u)' = ToWrite(u)
    BY <1>1 DEF SqlInv
  <2>2. pc[u] = "delete" => \A d \in Held' : d.id \notin batch[u]
    BY <1>4, <2>1 DEF Works
  <2>3. Inserting(u) => /\ batch[u] \cap (touched' \cup gone) = {}
                        /\ \A id \in batch[u] : \E d \in Held' : d.id = id
                        /\ \A w \in Threads : Inserting(w)' /\ w # u => batch[u] \cap batch'[w] = {}
    <3> SUFFICES ASSUME Inserting(u) PROVE <2>3!2
      OBVIOUS
    <3>1. batch[u] \cap E = {}
      BY <1>3
    <3>2. batch[u] \cap (touched' \cup gone) = {}
      BY <1>4, <2>1, <3>1 DEF Works
    <3>3. \A id \in batch[u] : \E d \in Held' : d.id = id
      BY <1>4, <2>1, <3>1 DEF Works
    <3>4. \A w \in Threads : Inserting(w)' => Inserting(w) /\ batch'[w] = batch[w]
      BY <1>1 DEF Inserting
    <3>5. \A w \in Threads : Inserting(w) /\ w # u => batch[u] \cap batch[w] = {}
      BY <2>1 DEF Works
    <3> QED BY <3>2, <3>3, <3>4, <3>5
  <2>4. Inserting(u)' <=> Inserting(u)
    BY <1>1
  <2> QED BY <1>4, <2>1, <2>2, <2>3, <2>4 DEF Works
<1>10. ASSUME NEW u \in Threads PROVE Owned(u)'
  <2>1. Owned(u) /\ (owns[u] => u # t)
    BY <1>1 DEF SqlInv
  <2>2. u # t => batch'[u] = batch[u] /\ ToWrite(u)' = ToWrite(u)
    BY <1>1
  <2> QED BY <2>1, <2>2 DEF Owned
<1>11. ASSUME NEW d \in Held' PROVE Present(d)'
  <2>1. d.id \in E \/ (d \in Held /\ Present(d))
    BY <1>4 DEF SqlInv
  <2>2. d.id \notin E /\ (\A u \in Threads : d.id \notin ToWrite(u)') => \A u \in Threads : d.id \notin ToWrite(u)
    BY <1>1
  <2> QED BY <1>1, <2>1, <2>2 DEF Present, Excused
<1>12. ASSUME NEW x \in Ids PROVE Absent(x)'
  <2>1. Absent(x)
    BY DEF SqlInv
  <2>2. \A u \in Threads : pc[u] = "delete" => u # t /\ pc'[u] = "delete" /\ ToWrite(u)' = ToWrite(u) /\ batch'[u] = batch[u]
    BY <1>1
  <2>3. \A u \in Threads : pc'[u] = "delete" => (u = t /\ l = "delete") \/ pc[u] = "delete"
    BY <1>1
  <2>4. (\A d \in Held' : d.id # x) => (\A d \in Held : d.id # x) \/ (l = "delete" /\ x \in E)
    BY <1>4
  <2>5. (\A d \in Held : d.id # x) => \A d \in Held' : d.id # x
    BY <1>4
  <2>6. ~ Excused(x)' /\ (\A d \in Held' : d.id # x) /\ (\A u \in Threads : pc'[u] = "delete" => x \notin ToWrite(u)') => db'[x] = None
    BY <1>1, <2>1, <2>2, <2>4 DEF Absent, Excused
  <2>7. x \notin lost' \cup skipped' /\ (\E u \in Threads : pc'[u] = "delete" /\ x \in batch'[u] /\ x \notin ToWrite(u)') => db'[x] = None
    <3> SUFFICES ASSUME NEW u \in Threads, x \notin lost' \cup skipped', pc'[u] = "delete", x \in batch'[u], x \notin ToWrite(u)'
                 PROVE  db'[x] = None
      OBVIOUS
    <3>1. ~ (u = t /\ l = "delete")
      BY <1>1
    <3>2. pc[u] = "delete" /\ x \in batch[u] /\ x \notin ToWrite(u)
      BY <2>2, <2>3, <3>1
    <3> QED BY <2>1, <3>2 DEF Absent
  <2>8. x \in gone' \ (lost' \cup skipped') => db'[x] = None /\ \A d \in Held' : d.id # x
    BY <2>1, <2>5 DEF Absent
  <2> QED BY <2>6, <2>7, <2>8 DEF Absent
<1>13. (\A d \in added' : Added(d)') /\ (\A b \in batches' : Committed(b)') /\ Rides'
  BY <1>4 DEF SqlInv, Added, Committed, Rides
<1> QED BY <1>5, <1>6, <1>7, <1>8, <1>9, <1>10, <1>11, <1>12, <1>13 DEF SqlInv

LEMMA SqlDeleteMemory ==
  ASSUME SqlInv, NEW t \in Threads, NEW ids \in Sqlite!IdLists, Sqlite!DeleteMemory(t, ids)
  PROVE  SqlInv'
<1> DEFINE S == {d \in Sqlite!Doc : d.id \notin Sqlite!Elems(ids)}
<1>1. PICK n \in Nat : ids \in [1..n -> Ids]
  BY StorageAssumption DEF Sqlite!IdLists
<1>2. ids \in Seq(Ids)
  BY <1>1, SeqDef
<1>3. /\ Sqlite!Start(t, "delete", ids) /\ Sqlite!Elems(ids) \subseteq {d.id : d \in added}
      /\ docs' = Sqlite!Only(docs, S) /\ touched' = touched \cup Sqlite!Elems(ids)
      /\ UNCHANGED <<mu, db, disk, txn, owns, added, gone, failed, batches, riding, lost, unowned, skipped, stuck>>
  BY DEF Sqlite!DeleteMemory, Sqlite!Known, Sqlite!tableVars, Sqlite!rideVars, Sqlite!errorVars
<1>4. docs \in Seq(Sqlite!Doc) /\ Distinct(docs) /\ \A d \in Held : d \in Sqlite!Doc
  BY HeldDocs DEF SqlInv
<1>5. /\ Sqlite!Only(docs, S) \in Seq(Sqlite!Doc) /\ Distinct(Sqlite!Only(docs, S))
      /\ Sqlite!Elems(Sqlite!Only(docs, S)) = Held \cap S
  BY <1>4, OnlyKeeps DEF Held
<1>6. docs' \in Seq(Sqlite!Doc) /\ Distinct(docs') /\ Held' = Held \cap S
  BY <1>3, <1>5 DEF Held
<1>7. \A d \in Held : d \in Held' <=> d.id \notin Sqlite!Elems(ids)
  BY <1>4, <1>6
<1> QED BY <1>2, <1>3, <1>6, <1>7, SqlMemoryStep

LEMMA SqlUpdateMemory ==
  ASSUME SqlInv, NEW t \in Threads, NEW id \in Ids, NEW v \in Vals, Sqlite!UpdateMemory(t, id, v)
  PROVE  SqlInv'
<1>1. <<id>> \in Seq(Ids) /\ Sqlite!Elems(<<id>>) = {id}
  BY DEF Sqlite!Elems
<1>2. /\ Sqlite!Start(t, "update", <<id>>) /\ id \in {d.id : d \in added} /\ Sqlite!Positions(id) # {}
      /\ docs' = [docs EXCEPT ![Sqlite!FirstOf(Sqlite!Positions(id))].val = v] /\ touched' = touched \cup {id}
      /\ UNCHANGED <<mu, db, disk, txn, owns, added, gone, failed, batches, riding, lost, unowned, skipped, stuck>>
  BY DEF Sqlite!UpdateMemory, Sqlite!Known, Sqlite!tableVars, Sqlite!rideVars, Sqlite!errorVars
<1>3. docs \in Seq(Sqlite!Doc) /\ Distinct(docs)
  BY HeldDocs DEF SqlInv
<1>4. PICK d \in Held : d.id = id
  BY <1>2, <1>3, Lookup
<1>5. PICK i \in DOMAIN docs : docs[i] = d /\ Sqlite!FirstOf(Sqlite!Positions(id)) = i
  BY <1>3, <1>4, Lookup
<1> DEFINE new == [id |-> id, val |-> v]
<1>6. /\ docs' \in Seq(Sqlite!Doc) /\ Distinct(docs')
      /\ Sqlite!Elems(docs') = {e \in Held : e.id # id} \cup {new}
  <2> DEFINE changed == [docs EXCEPT ![i].val = v]
  <2>1. /\ changed \in Seq(Sqlite!Doc) /\ Distinct(changed)
        /\ Sqlite!Elems(changed) = {e \in Sqlite!Elems(docs) : e.id # docs[i].id} \cup {[id |-> docs[i].id, val |-> v]}
    BY <1>3, Replaced
  <2>2. docs' = changed /\ docs[i].id = id
    BY <1>2, <1>4, <1>5
  <2> HIDE DEF changed
  <2> QED BY <2>1, <2>2 DEF Held
<1>7. new.id = id
  OBVIOUS
<1> HIDE DEF new
<1>8. Held' = {e \in Held : e.id # id} \cup {new}
  BY <1>6 DEF Held, Sqlite!Elems
<1> QED BY <1>1, <1>2, <1>4, <1>6, <1>7, <1>8, SqlMemoryStep

\* What an open transaction has not touched is committed.
LEMMA Settled ==
  ASSUME SqlInv, NEW x \in Ids, x \notin riding, \A t \in Threads : owns[t] => x \notin batch[t]
  PROVE  db[x] = disk[x]
<1>1. ASSUME NEW t \in Threads, owns[t] PROVE db[x] = disk[x]
  BY <1>1 DEF SqlInv, Owned
<1>2. CASE stuck
  BY <1>2 DEF SqlInv, Rides
<1>3. CASE ~txn
  BY <1>3 DEF SqlInv, Sqlite!TransactionOwned
<1> QED BY <1>1, <1>2, <1>3 DEF SqlInv, Sqlite!TransactionOwned

\* The ends of an add.
LEMMA SqlInsertThrows ==
  ASSUME SqlInv, NEW t \in Threads, Sqlite!InsertThrows(t)
  PROVE  SqlInv'
<1>1. /\ pc[t] = "insert" /\ mu' = None /\ failed' = failed \cup batch[t] /\ pc' = [pc EXCEPT ![t] = "rollback"]
      /\ UNCHANGED <<docs, db, disk, txn, todo, owns, batch, added, touched, gone, batches, riding, lost, unowned, skipped, stuck>>
  BY DEF Sqlite!InsertThrows, Sqlite!Goto, Sqlite!tableVars, Sqlite!rideVars, Sqlite!errorVars
<1>2. /\ pc' \in [Threads -> {"idle", "begin", "lock", "insert", "rollback", "delete", "update"}]
      /\ pc'[t] = "rollback" /\ \A u \in Threads \ {t} : pc'[u] = pc[u]
  BY <1>1 DEF SqlInv, SqlTypes
<1>3. Held' = Held /\ \A u \in Threads : ToWrite(u)' = ToWrite(u) /\ (Inserting(u)' <=> Inserting(u))
  BY <1>1, <1>2 DEF Held, ToWrite, Sqlite!Elems, Inserting
<1>4. batch[t] \in batches /\ batch[t] \subseteq Ids /\ \A u \in Threads : Inserting(u) /\ u # t => batch[u] \cap batch[t] = {}
  BY <1>1 DEF SqlInv, SqlTypes, Works, Inserting
<1>5. SqlTypes'
  BY <1>1, <1>2, <1>4 DEF SqlInv, SqlTypes
<1>6. Sqlite!TransactionOwned'
  <2>1. mu = t /\ \A u \in Threads : pc'[u] # "insert"
    BY <1>1, <1>2 DEF SqlInv, Sqlite!TransactionOwned
  <2> QED BY <1>1, <1>2, <2>1, StorageAssumption DEF SqlInv, Sqlite!TransactionOwned
<1>7. IdsAssigned'
  BY <1>1, <1>3, <1>4 DEF SqlInv, IdsAssigned, Rows
<1>8. ASSUME NEW u \in Threads PROVE Works(u)'
  <2>1. Works(u) /\ todo'[u] = todo[u] /\ batch'[u] = batch[u]
    BY <1>1 DEF SqlInv
  <2>2. CASE u = t
    BY <1>1, <1>2, <1>3, <2>1, <2>2 DEF Works, Inserting
  <2>3. CASE u # t
    BY <1>1, <1>2, <1>3, <1>4, <2>1, <2>3 DEF Works
  <2> QED BY <2>2, <2>3
<1>9. \A u \in Threads : Owned(u)'
  BY <1>1, <1>3 DEF SqlInv, Owned
<1>10. \A d \in Held : Present(d)'
  BY <1>1, <1>3 DEF SqlInv, Present, Excused
<1>11. ASSUME NEW x \in Ids PROVE Absent(x)'
  <2>1. Absent(x) /\ \A u \in Threads : pc'[u] = "delete" <=> pc[u] = "delete"
    BY <1>1, <1>2 DEF SqlInv
  <2> QED BY <1>1, <1>3, <2>1 DEF Absent, Excused
<1>12. (\A d \in added' : Added(d)') /\ (\A b \in batches' : Committed(b)') /\ Rides'
  BY <1>1 DEF SqlInv, Added, Committed, Rides
<1> QED BY <1>3, <1>5, <1>6, <1>7, <1>8, <1>9, <1>10, <1>11, <1>12 DEF SqlInv

LEMMA SqlUndone ==
  ASSUME SqlInv, NEW t \in Threads, Sqlite!PrepareFails(t) \/ Sqlite!Rollback(t)
  PROVE  SqlInv'
<1>1. /\ Sqlite!Finish(t) /\ pc[t] \in {"begin", "rollback"} /\ failed' = failed \cup batch[t]
      /\ owns' = [owns EXCEPT ![t] = FALSE] /\ txn' = (txn /\ ~owns[t])
      /\ \/ owns[t] /\ db' = disk /\ lost' = lost \cup riding /\ riding' = {}
         \/ ~ owns[t] /\ UNCHANGED <<db, lost, riding>>
      /\ UNCHANGED <<docs, mu, disk, added, touched, gone, batches, unowned, skipped, stuck>>
  <2>1. CASE Sqlite!PrepareFails(t)
    <3>1. pc[t] = "begin" /\ owns[t] = FALSE /\ owns = [owns EXCEPT ![t] = FALSE]
      BY <2>1 DEF Sqlite!PrepareFails, SqlInv, SqlTypes, Sqlite!TransactionOwned
    <3> QED BY <2>1, <3>1 DEF Sqlite!PrepareFails, Sqlite!tableVars, Sqlite!rideVars, SqlInv, SqlTypes
  <2>2. CASE Sqlite!Rollback(t)
    <3>1. pc[t] = "rollback" /\ failed = failed \cup batch[t]
      BY <2>2 DEF Sqlite!Rollback, SqlInv, Works, Inserting
    <3> QED BY <2>2, <3>1 DEF Sqlite!Rollback, Sqlite!Undone, Sqlite!errorVars, SqlInv, SqlTypes
  <2> QED BY <2>1, <2>2
<1>2. /\ todo' \in [Threads -> Seq(Ids)] /\ batch' \in [Threads -> SUBSET Ids]
      /\ pc' \in [Threads -> {"idle", "begin", "lock", "insert", "rollback", "delete", "update"}]
      /\ pc'[t] = "idle" /\ todo'[t] = <<>> /\ batch'[t] = {} /\ ToWrite(t)' = {}
      /\ \A u \in Threads \ {t} : pc'[u] = pc[u] /\ todo'[u] = todo[u] /\ batch'[u] = batch[u] /\ ToWrite(u)' = ToWrite(u)
  BY <1>1, Finished DEF SqlInv
<1>3. /\ batch[t] \in batches /\ batch[t] \subseteq Ids
      /\ batch[t] \cap (touched \cup gone) = {} /\ ToWrite(t) \subseteq batch[t]
      /\ (\A d \in added : d.id \notin batch[t])
      /\ \A u \in Threads : Inserting(u) /\ u # t => batch[u] \cap batch[t] = {}
  BY <1>1 DEF SqlInv, SqlTypes, Works, Inserting
<1>4. Held' = Held
  BY <1>1 DEF Held, Sqlite!Elems
<1>5. (\A x \in Ids \ batch[t] : db'[x] = db[x] \/ x \in lost') /\ lost \subseteq lost'
  <2>1. CASE owns[t] /\ db' = disk /\ lost' = lost \cup riding
    <3>1. \A u \in Threads : owns[u] => u = t
      BY <2>1 DEF SqlInv, Sqlite!TransactionOwned
    <3> QED BY <2>1, <3>1, Settled
  <2>2. CASE UNCHANGED <<db, lost>>
    BY <2>2
  <2> QED BY <1>1, <2>1, <2>2
<1>6. SqlTypes'
  <2>1. owns' \in [Threads -> BOOLEAN] /\ txn' \in BOOLEAN
    BY <1>1 DEF SqlInv, SqlTypes
  <2>2. db' \in [Ids -> Vals \cup {None}] /\ lost' \subseteq Ids /\ riding' \subseteq Ids /\ failed' \subseteq Ids
    BY <1>1, <1>3 DEF SqlInv, SqlTypes
  <2> QED BY <1>1, <1>2, <2>1, <2>2 DEF SqlInv, SqlTypes
<1>7. Sqlite!TransactionOwned'
  <2>1. owns'[t] = FALSE /\ \A u \in Threads \ {t} : owns'[u] = owns[u]
    BY <1>1 DEF SqlInv, SqlTypes
  <2>2. mu # t /\ \A u \in Threads : pc'[u] = "insert" <=> pc[u] = "insert"
    BY <1>1, <1>2 DEF SqlInv, Sqlite!TransactionOwned
  <2>3. ~ txn' => db' = disk'
    BY <1>1 DEF SqlInv, Sqlite!TransactionOwned
  <2>4. txn' <=> stuck \/ \E u \in Threads : owns'[u]
    BY <1>1, <2>1 DEF SqlInv, Sqlite!TransactionOwned
  <2> QED BY <1>1, <1>2, <2>1, <2>2, <2>3, <2>4, StorageAssumption DEF SqlInv, Sqlite!TransactionOwned
<1>8. IdsAssigned'
  <2>1. (Rows(db') = Rows(disk) \/ Rows(db') = Rows(db)) /\ Rows(disk') = Rows(disk)
    BY <1>1
  <2> QED BY <1>1, <1>3, <1>4, <2>1 DEF SqlInv, IdsAssigned
<1>9. ASSUME NEW u \in Threads PROVE Works(u)'
  <2>1. CASE u = t
    BY <1>2, <2>1 DEF Works, Inserting
  <2>2. CASE u # t
    <3>1. Works(u) /\ \A w \in Threads : Inserting(w)' => Inserting(w) /\ batch'[w] = batch[w]
      BY <1>2 DEF SqlInv, Inserting
    <3>2. Inserting(u)' => IF pc[u] = "rollback" THEN batch[u] \subseteq failed' ELSE batch[u] \cap failed' \subseteq skipped
      BY <1>1, <1>3, <2>2, <3>1 DEF Works
    <3>3. /\ pc'[u] = pc[u] /\ todo'[u] = todo[u] /\ batch'[u] = batch[u] /\ ToWrite(u)' = ToWrite(u)
          /\ Inserting(u)' => Inserting(u)
      BY <1>2, <2>2, <3>1
    <3>4. Inserting(u)' => \A w \in Threads : Inserting(w)' /\ w # u => batch'[u] \cap batch'[w] = {}
      BY <3>1, <3>3 DEF Works
    <3> QED BY <1>1, <1>4, <3>1, <3>2, <3>3, <3>4 DEF Works
  <2> QED BY <2>1, <2>2
<1>10. ASSUME NEW u \in Threads PROVE Owned(u)'
  <2>1. Owned(u) /\ (owns[u] /\ owns[t] => u = t) /\ owns'[t] = FALSE /\ (u # t => owns'[u] = owns[u])
    BY <1>1 DEF SqlInv, SqlTypes, Sqlite!TransactionOwned
  <2> QED BY <1>1, <1>2, <2>1 DEF Owned
<1>11. ASSUME NEW d \in Held PROVE Present(d)'
  <2>1. d.id \in Ids /\ Present(d)
    BY HeldDocs DEF SqlInv
  <2>2. d.id \notin batch[t] /\ (\A u \in Threads : d.id \notin ToWrite(u)') => \A u \in Threads : d.id \notin ToWrite(u)
    BY <1>2, <1>3
  <2> QED BY <1>1, <1>5, <2>1, <2>2 DEF Present, Excused
<1>12. ASSUME NEW x \in Ids PROVE Absent(x)'
  <2>1. Absent(x)
    BY DEF SqlInv
  <2>2. \A u \in Threads : /\ pc'[u] = "delete" <=> pc[u] = "delete"
                           /\ pc[u] = "delete" => ToWrite(u)' = ToWrite(u) /\ batch'[u] = batch[u] /\ batch[u] \subseteq touched
    BY <1>1, <1>2 DEF SqlInv, Works
  <2> QED BY <1>1, <1>3, <1>4, <1>5, <2>1, <2>2 DEF Absent, Excused
<1>13. ASSUME NEW e \in added PROVE Added(e)'
  <2>1. e.id \in Ids /\ Added(e)
    BY DEF SqlInv, SqlTypes, Sqlite!Doc
  <2> QED BY <1>1, <1>3, <1>5, <2>1 DEF Added
<1>14. Rides' /\ \A b \in batches' : Committed(b)'
  BY <1>1 DEF SqlInv, Sqlite!TransactionOwned, Committed, Rides
<1> QED BY <1>1, <1>4, <1>6, <1>7, <1>8, <1>9, <1>10, <1>11, <1>12, <1>13, <1>14 DEF SqlInv

LEMMA SqlCommit ==
  ASSUME SqlInv, NEW t \in Threads, Sqlite!Commit(t)
  PROVE  SqlInv'
<1>1. /\ Sqlite!Finish(t) /\ pc[t] = "insert" /\ todo[t] = <<>> /\ mu' = None
      /\ owns' = [owns EXCEPT ![t] = FALSE]
      /\ \/ owns[t] /\ disk' = db /\ txn' = FALSE /\ riding' = {} /\ stuck' = stuck
         \/ ~ owns[t] /\ UNCHANGED <<disk, txn, riding, stuck>>
         \/ owns[t] /\ riding' = riding \cup batch[t] /\ stuck' = TRUE /\ UNCHANGED <<disk, txn>>
      /\ added' = added \cup {d \in Held : d.id \in batch[t]}
      /\ UNCHANGED <<docs, db, touched, gone, failed, batches, lost, unowned, skipped>>
  BY DEF Sqlite!Commit, Sqlite!errorVars, Held, SqlInv, SqlTypes
<1>2. /\ todo' \in [Threads -> Seq(Ids)] /\ batch' \in [Threads -> SUBSET Ids]
      /\ pc' \in [Threads -> {"idle", "begin", "lock", "insert", "rollback", "delete", "update"}]
      /\ pc'[t] = "idle" /\ todo'[t] = <<>> /\ batch'[t] = {} /\ ToWrite(t)' = {}
      /\ \A u \in Threads \ {t} : pc'[u] = pc[u] /\ todo'[u] = todo[u] /\ batch'[u] = batch[u] /\ ToWrite(u)' = ToWrite(u)
  BY <1>1, Finished DEF SqlInv
<1>3. /\ batch[t] \in batches /\ batch[t] \subseteq Ids
      /\ batch[t] \cap (touched \cup gone) = {} /\ batch[t] \cap failed \subseteq skipped
      /\ \A u \in Threads : Inserting(u) /\ u # t => batch[u] \cap batch[t] = {}
  BY <1>1 DEF SqlInv, SqlTypes, Works, Inserting
<1>4. Held' = Held /\ ToWrite(t) = {} /\ \A u \in Threads : ToWrite(u)' = ToWrite(u)
  <2>1. Held' = Held /\ ToWrite(t) = {}
    BY <1>1 DEF Held, ToWrite, Sqlite!Elems
  <2> QED BY <1>2, <2>1
<1>5. \A d \in Held : d \in Sqlite!Doc
  BY HeldDocs DEF SqlInv
<1>6. SqlTypes'
  <2>1. owns' \in [Threads -> BOOLEAN] /\ txn' \in BOOLEAN /\ stuck' \in BOOLEAN
    BY <1>1 DEF SqlInv, SqlTypes
  <2>2. disk' \in [Ids -> Vals \cup {None}] /\ riding' \subseteq Ids /\ added' \subseteq Sqlite!Doc
    BY <1>1, <1>3, <1>5 DEF SqlInv, SqlTypes
  <2> QED BY <1>1, <1>2, <2>1, <2>2 DEF SqlInv, SqlTypes
<1>7. Sqlite!TransactionOwned'
  <2>1. owns'[t] = FALSE /\ \A u \in Threads \ {t} : owns'[u] = owns[u]
    BY <1>1 DEF SqlInv, SqlTypes
  <2>2. mu = t /\ \A u \in Threads : pc'[u] # "insert"
    BY <1>1, <1>2 DEF SqlInv, Sqlite!TransactionOwned
  <2>3. ~ txn' => db' = disk'
    BY <1>1 DEF SqlInv, Sqlite!TransactionOwned
  <2>4. (txn' <=> stuck' \/ \E u \in Threads : owns'[u]) /\ \A u \in Threads : owns'[u] => ~ stuck'
    BY <1>1, <2>1 DEF SqlInv, Sqlite!TransactionOwned
  <2> QED BY <1>1, <1>2, <2>1, <2>2, <2>3, <2>4, StorageAssumption DEF SqlInv, Sqlite!TransactionOwned
<1>8. IdsAssigned'
  <2>1. (Rows(disk') = Rows(disk) \/ Rows(disk') = Rows(db)) /\ Rows(db') = Rows(db)
    BY <1>1
  <2> QED BY <1>1, <1>3, <1>4, <2>1 DEF SqlInv, IdsAssigned
<1>9. ASSUME NEW u \in Threads PROVE Works(u)'
  <2>1. CASE u = t
    BY <1>2, <2>1 DEF Works, Inserting
  <2>2. CASE u # t
    <3>1. Works(u) /\ \A w \in Threads : Inserting(w)' => Inserting(w) /\ batch'[w] = batch[w]
      BY <1>2 DEF SqlInv, Inserting
    <3>2. Inserting(u)' => \A d \in added' : d.id \notin batch[u]
      BY <1>1, <1>3, <2>2, <3>1 DEF Works
    <3>3. /\ pc'[u] = pc[u] /\ todo'[u] = todo[u] /\ batch'[u] = batch[u] /\ ToWrite(u)' = ToWrite(u)
          /\ Inserting(u)' => Inserting(u)
      BY <1>2, <2>2, <3>1
    <3>4. Inserting(u)' => \A w \in Threads : Inserting(w)' /\ w # u => batch'[u] \cap batch'[w] = {}
      BY <3>1, <3>3 DEF Works
    <3> QED BY <1>1, <1>4, <3>1, <3>2, <3>3, <3>4 DEF Works
  <2> QED BY <2>1, <2>2
<1>10. ASSUME NEW u \in Threads PROVE Owned(u)'
  <2>1. Owned(u) /\ (owns[u] /\ owns[t] => u = t) /\ owns'[t] = FALSE /\ (u # t => owns'[u] = owns[u])
    BY <1>1 DEF SqlInv, SqlTypes, Sqlite!TransactionOwned
  <2> QED BY <1>1, <1>2, <2>1 DEF Owned
<1>11. \A d \in Held : Present(d)'
  BY <1>1, <1>4 DEF SqlInv, Present, Excused
<1>12. ASSUME NEW x \in Ids PROVE Absent(x)'
  <2>1. Absent(x)
    BY DEF SqlInv
  <2>2. \A u \in Threads : /\ pc'[u] = "delete" <=> pc[u] = "delete"
                           /\ pc[u] = "delete" => batch'[u] = batch[u]
    BY <1>1, <1>2
  <2> QED BY <1>1, <1>4, <2>1, <2>2 DEF Absent, Excused
<1>13. ASSUME NEW e \in added' PROVE Added(e)'
  <2>1. CASE e \in added
    BY <1>1, <2>1 DEF SqlInv, Added
  <2>2. CASE e \in Held /\ e.id \in batch[t]
    <3>1. Present(e) /\ (e.id \in failed => e.id \in skipped)
      BY <1>3, <2>2 DEF SqlInv
    <3>2. ASSUME NEW u \in Threads, e.id \notin touched PROVE e.id \notin ToWrite(u)
      <4>1. Works(u) /\ pc[u] \in {"idle", "begin", "lock", "insert", "rollback", "delete", "update"}
        BY DEF SqlInv, SqlTypes
      <4>2. CASE u = t
        BY <1>4, <4>2
      <4>3. CASE u # t /\ Inserting(u)
        BY <1>3, <2>2, <4>1, <4>3 DEF Works
      <4>4. CASE pc[u] \in {"delete", "update"}
        BY <3>2, <4>1, <4>4 DEF Works
      <4>5. CASE pc[u] = "idle"
        BY <4>1, <4>5 DEF Works, ToWrite, Sqlite!Elems
      <4> QED BY <4>1, <4>2, <4>3, <4>4, <4>5 DEF Inserting
    <3> QED BY <1>1, <3>1, <3>2 DEF Present, Excused, Added
  <2> QED BY <1>1, <2>1, <2>2
<1>14. ASSUME NEW b \in batches PROVE Committed(b)'
  <2>1. Committed(b) /\ b \subseteq Ids /\ (b = batch[t] \/ b \cap batch[t] = {}) /\ (owns[t] => riding \subseteq touched \cup unowned)
    BY <1>3 DEF SqlInv, SqlTypes, IdsAssigned, Sqlite!TransactionOwned, Rides
  <2>2. CASE disk' = disk
    BY <1>1, <2>1, <2>2 DEF Committed
  <2>3. CASE owns[t] /\ disk' = db
    <3> SUFFICES ASSUME b \cap (touched \cup unowned \cup skipped) = {}
                 PROVE  (\A x \in b : db[x] # None) \/ (\A x \in b : db[x] = None)
      BY <1>1, <2>3 DEF Committed
    <3>1. CASE b = batch[t]
      BY <1>4, <2>3, <3>1 DEF SqlInv, Owned
    <3>2. CASE b \cap batch[t] = {}
      <4>1. \A u \in Threads : owns[u] => u = t
        BY <2>3 DEF SqlInv, Sqlite!TransactionOwned
      <4>2. \A x \in b : x \in Ids /\ x \notin riding /\ x \notin batch[t]
        BY <2>1, <2>3, <3>2
      <4>3. \A x \in b : db[x] = disk[x]
        BY <4>1, <4>2, Settled
      <4> QED BY <2>1, <4>3 DEF Committed
    <3> QED BY <2>1, <3>1, <3>2
  <2> QED BY <1>1, <2>2, <2>3
<1>15. Rides'
  BY <1>1 DEF SqlInv, Sqlite!TransactionOwned, Rides, Owned
<1> QED BY <1>1, <1>4, <1>6, <1>7, <1>8, <1>9, <1>10, <1>11, <1>12, <1>13, <1>14, <1>15 DEF SqlInv

\* A restart finds what is committed, and nothing under way.
LEMMA SqlCrash ==
  ASSUME SqlInv, Sqlite!Crash
  PROVE  SqlInv'
<1>1. /\ db' = disk /\ disk' = disk /\ txn' = FALSE /\ docs' = Sqlite!LoadAll /\ mu' = None
      /\ \A t \in Threads : pc'[t] = "idle" /\ todo'[t] = <<>> /\ owns'[t] = FALSE /\ batch'[t] = {}
      /\ failed' = {} /\ lost' = lost \cup riding /\ riding' = {} /\ stuck' = FALSE
      /\ UNCHANGED <<added, touched, gone, batches, unowned, skipped>>
  BY DEF Sqlite!Crash, Sqlite!Undone
<1>2. /\ Sqlite!LoadAll \in Seq(Sqlite!Doc) /\ Distinct(Sqlite!LoadAll)
      /\ Sqlite!Elems(Sqlite!LoadAll) = Sqlite!Stored
      /\ \A d \in Sqlite!Stored : d \in Sqlite!Doc /\ disk[d.id] = d.val /\ d.id \in Rows(disk)
      /\ \A id \in Rows(disk) : \E d \in Sqlite!Stored : d.id = id
  BY RowsStored DEF SqlInv, SqlTypes, IdsAssigned
<1> DEFINE S == Sqlite!Stored
<1>3. docs' \in Seq(Sqlite!Doc) /\ Distinct(docs') /\ Sqlite!Elems(docs') = S
  BY <1>1, <1>2
<1> HIDE DEF S
<1>4. /\ Held' = S
      /\ \A d \in S : d \in Sqlite!Doc /\ disk[d.id] = d.val /\ d.id \in Rows(disk)
      /\ \A id \in Rows(disk) : \E d \in S : d.id = id
  <2>1. Held' = Sqlite!Elems(docs')
    BY DEF Held, Sqlite!Elems
  <2> QED BY <1>2, <1>3, <2>1 DEF S
<1>5. SqlTypes'
  <2>1. <<>> \in Seq(Ids)
    OBVIOUS
  <2>2. todo' \in [Threads -> Seq(Ids)]
    BY <2>1 DEF Sqlite!Crash
  <2>3. pc' \in [Threads -> {"idle", "begin", "lock", "insert", "rollback", "delete", "update"}]
    BY DEF Sqlite!Crash
  <2>4. owns' \in [Threads -> BOOLEAN] /\ batch' \in [Threads -> SUBSET Ids]
    BY DEF Sqlite!Crash
  <2> QED BY <1>1, <1>3, <2>2, <2>3, <2>4 DEF SqlInv, SqlTypes
<1>6. Sqlite!TransactionOwned'
  BY <1>1, StorageAssumption DEF Sqlite!TransactionOwned
<1>7. IdsAssigned'
  <2>1. Rows(db') = Rows(disk) /\ Rows(disk') = Rows(disk)
    BY <1>1
  <2>2. \A i, j \in DOMAIN docs' : docs'[i].id = docs'[j].id => i = j
    BY <1>3 DEF Distinct
  <2>3. \A d \in Held' : d.id \in UNION batches
    BY <1>4 DEF SqlInv, IdsAssigned
  <2> QED BY <1>1, <2>1, <2>2, <2>3 DEF SqlInv, IdsAssigned
<1>8. \A t \in Threads : Works(t)' /\ Owned(t)'
  <2>1. \A t \in Threads : ToWrite(t)' = {}
    BY <1>1 DEF ToWrite, Sqlite!Elems
  <2> QED BY <1>1, <2>1 DEF Works, Owned, Inserting
<1>9. \A d \in Held' : Present(d)'
  BY <1>1, <1>4 DEF Present
<1>10. ASSUME NEW x \in Ids, x \notin lost', \A t \in Threads : owns[t] => x \notin batch[t]
       PROVE  disk[x] = db[x]
  BY <1>1, <1>10, Settled
<1>11. ASSUME NEW x \in Ids PROVE Absent(x)'
  <2>1. (\A d \in Held' : d.id # x) => db'[x] = None
    BY <1>1, <1>4 DEF Rows
  <2>2. ASSUME x \in gone' \ (lost' \cup skipped') PROVE db'[x] = None /\ \A d \in Held' : d.id # x
    <3>1. db[x] = None
      BY <1>1, <2>2 DEF SqlInv, Absent
    <3>2. \A t \in Threads : owns[t] => x \notin batch[t]
      BY <1>1, <2>2 DEF SqlInv, Sqlite!TransactionOwned, Works, Inserting
    <3>3. disk[x] = None
      BY <1>10, <2>2, <3>1, <3>2
    <3> QED BY <1>1, <1>4, <3>3 DEF Rows
  <2> QED BY <1>1, <2>1, <2>2 DEF Absent
<1>12. ASSUME NEW d \in added PROVE Added(d)'
  <2>1. d.id \in Ids /\ Added(d) /\ \A t \in Threads : owns[t] => d.id \notin batch[t]
    BY DEF SqlInv, SqlTypes, Sqlite!Doc, Sqlite!TransactionOwned, Works, Inserting
  <2> QED BY <1>1, <1>10, <2>1 DEF Added
<1>13. Rides' /\ \A b \in batches' : Committed(b)'
  BY <1>1 DEF SqlInv, Committed, Rides
<1> QED BY <1>1, <1>5, <1>6, <1>7, <1>8, <1>9, <1>11, <1>12, <1>13 DEF SqlInv

LEMMA SqlStep ==
  ASSUME SqlInv, Sqlite!Next
  PROVE  SqlInv'
<1>1. CASE Sqlite!Crash
  BY <1>1, SqlCrash
<1>2. ASSUME NEW t \in Threads, NEW new \in Sqlite!Batches, Sqlite!AddMemory(t, new) PROVE SqlInv'
  BY <1>2, SqlAddMemory
<1>3. ASSUME NEW t \in Threads, Sqlite!Begin(t) \/ Sqlite!Lock(t) PROVE SqlInv'
  BY <1>3, SqlBegins
<1>4. ASSUME NEW t \in Threads, Sqlite!InsertNext(t) PROVE SqlInv'
  BY <1>4, SqlInsertNext
<1>5. ASSUME NEW t \in Threads, Sqlite!InsertThrows(t) PROVE SqlInv'
  BY <1>5, SqlInsertThrows
<1>12. ASSUME NEW t \in Threads, Sqlite!PrepareFails(t) \/ Sqlite!Rollback(t) PROVE SqlInv'
  BY <1>12, SqlUndone
<1>6. ASSUME NEW t \in Threads, Sqlite!Commit(t) PROVE SqlInv'
  BY <1>6, SqlCommit
<1>7. ASSUME NEW t \in Threads, NEW ids \in Sqlite!IdLists, Sqlite!DeleteMemory(t, ids) PROVE SqlInv'
  BY <1>7, SqlDeleteMemory
<1>8. ASSUME NEW t \in Threads, Sqlite!PersistDelete(t) PROVE SqlInv'
  BY <1>8, SqlPersistDelete
<1>9. ASSUME NEW t \in Threads, Sqlite!DeleteReturns(t) PROVE SqlInv'
  BY <1>9, SqlDeleteReturns
<1>10. ASSUME NEW t \in Threads, NEW id \in Ids, NEW v \in Vals, Sqlite!UpdateMemory(t, id, v) PROVE SqlInv'
  BY <1>10, SqlUpdateMemory
<1>11. ASSUME NEW t \in Threads, Sqlite!PersistUpdate(t) PROVE SqlInv'
  BY <1>11, SqlPersistUpdate
<1> QED BY <1>1, <1>2, <1>3, <1>4, <1>5, <1>6, <1>7, <1>8, <1>9, <1>10, <1>11, <1>12 DEF Sqlite!Next

LEMMA SqlKept ==
  ASSUME SqlInv, UNCHANGED sqliteVars
  PROVE  SqlInv'
<1> USE DEF sqliteVars
<1>1. Held' = Held /\ \A t \in Threads : ToWrite(t)' = ToWrite(t) /\ (Inserting(t)' <=> Inserting(t))
  BY DEF Held, ToWrite, Sqlite!Elems, Inserting
<1>2. SqlTypes' /\ Sqlite!TransactionOwned'
  BY DEF SqlInv, SqlTypes, Sqlite!TransactionOwned
<1>3. IdsAssigned'
  BY <1>1 DEF SqlInv, IdsAssigned, Rows
<1>4. \A t \in Threads : Works(t)' /\ Owned(t)'
  BY <1>1 DEF SqlInv, Works, Owned
<1>5. \A d \in Held : Present(d)'
  BY <1>1 DEF SqlInv, Present, Excused
<1>6. \A id \in Ids : Absent(id)'
  BY <1>1 DEF SqlInv, Absent, Excused
<1>7. (\A d \in added' : Added(d)') /\ (\A b \in batches' : Committed(b)') /\ Rides'
  BY DEF SqlInv, Added, Committed, Rides
<1> QED BY <1>1, <1>2, <1>3, <1>4, <1>5, <1>6, <1>7 DEF SqlInv

\* SqlInv as an invariant of the program's memories.
LEMMA SqlHolds == MCSpec => [](choice = "sqlite" => SqlInv)
<1> DEFINE Inv == choice = "sqlite" => SqlInv
<1>1. MCInit => Inv
  BY SqlStarts DEF MCInit
<1>2. ASSUME Inv, [MCNext]_<<choice, vars, longVars, sqliteVars, searchVars>> PROVE Inv'
  <2>1. CASE SqliteNext
    BY <1>2, <2>1, SqlStep DEF SqliteNext
  <2>2. CASE choice # "sqlite" /\ choice' = choice
    BY <2>2
  <2>3. CASE choice' = choice /\ UNCHANGED sqliteVars
    BY <1>2, <2>3, SqlKept
  <2> QED BY <1>2, <2>1, <2>2, <2>3 DEF MCNext, ShortNext, LongNext, CallerNext, SearchNext
<1> HIDE DEF Inv
<1>3. MCSpec => []Inv
  BY <1>1, <1>2, PTL DEF MCSpec
<1> QED BY <1>3 DEF Inv

(* What was reported as stored is found again after every crash, and what  *)
(* was reported as deleted is not: the messages of the long-term memory    *)
(* and the documents of add_documents, whose batches are all there or not. *)
(* The code reports success also when a file does not open or a statement  *)
(* fails; what that was about is left out, and what was written inside a   *)
(* transaction that was undone, or that a failed COMMIT left open: nothing *)
(* else.                                                                   *)
THEOREM StoredStays == MCSpec => []Durable
<1>1. ASSUME choice = "long" => LongInv, choice = "sqlite" => SqlInv PROVE Durable
  <2>1. CASE choice = "long"
    BY <1>1, <2>1 DEF Durable, LongInv
  <2>2. CASE choice = "sqlite"
    <3>1. SqlInv
      BY <1>1, <2>2
    <3>2. Sqlite!Durable
      <4>1. \A id \in gone \ (lost \cup skipped) : id \in Ids
        BY <3>1 DEF SqlInv, SqlTypes
      <4> QED BY <3>1, <4>1 DEF SqlInv, Added, Absent, Sqlite!Durable
    <3>3. Sqlite!BatchAtomic
      BY <3>1 DEF SqlInv, Sqlite!TransactionOwned, Committed, Sqlite!BatchAtomic
    <3> QED BY <2>2, <3>2, <3>3 DEF Durable
  <2> QED BY <2>1, <2>2 DEF Durable
<1> QED BY <1>1, LongHolds, SqlHolds, PTL

-----------------------------------------------------------------------------
(* SqliteVectorStore, with an id that its only caller adds again.          *)

LEMMA OwnStarts == Own!Init => OwnInv
<1> SUFFICES ASSUME Own!Init PROVE OwnInv
  OBVIOUS
<1>1. /\ docs = <<>> /\ mu = None /\ txn = FALSE /\ db = [i \in {Again} |-> None] /\ disk = db
      /\ touched = {} /\ failed = {} /\ stuck = FALSE
      /\ pc[Caller] = "idle" /\ todo[Caller] = <<>> /\ owns[Caller] = FALSE
  BY DEF Own!Init
<1>2. OwnTypes
  <2>1. <<>> \in Seq({Again}) /\ <<>> \in Seq(Own!Doc)
    OBVIOUS
  <2>2. todo \in [{Caller} -> Seq({Again})]
    BY <2>1 DEF Own!Init
  <2> QED BY <1>1, <2>1, <2>2 DEF OwnTypes, Own!Init
<1>3. Own!TransactionOwned
  BY <1>1, StorageAssumption DEF Own!TransactionOwned
<1>4. CallersId
  BY <1>1 DEF CallersId
<1> QED BY <1>1, <1>2, <1>3, <1>4 DEF OwnInv

\* All documents are found by the one id.
LEMMA Everywhere ==
  ASSUME docs \in Seq(Own!Doc)
  PROVE  /\ Own!Positions(Again) = DOMAIN docs /\ (Own!Positions(Again) = {} <=> docs = <<>>)
         /\ docs # <<>> => /\ 1 \in DOMAIN docs /\ Own!FirstOf(Own!Positions(Again)) = 1 /\ docs[1].val \in Vals
                           /\ Len(docs) \in DOMAIN docs /\ Own!LastOf(Own!Positions(Again)) = Len(docs)
                           /\ docs[Len(docs)].val \in Vals
<1>1. ASSUME NEW i \in DOMAIN docs PROVE docs[i].id = Again /\ docs[i].val \in Vals
  <2>1. docs[i] \in Own!Doc
    OBVIOUS
  <2> QED BY <2>1 DEF Own!Doc
<1>2. Own!Positions(Again) = DOMAIN docs
  BY <1>1 DEF Own!Positions
<1>3. Len(docs) \in Nat /\ DOMAIN docs = 1..Len(docs) /\ (docs = <<>> <=> Len(docs) = 0)
  OBVIOUS
<1>4. ASSUME NEW n \in Nat, n # 0 PROVE Own!FirstOf(1..n) = 1 /\ Own!LastOf(1..n) = n /\ 1 \in 1..n /\ n \in 1..n
  BY <1>4 DEF Own!FirstOf, Own!LastOf
<1> QED BY <1>1, <1>2, <1>3, <1>4

\* A statement writes the one row, and the committed table unless there is
\* an open transaction.
LEMMA RowWritten ==
  ASSUME OwnTypes, Own!TransactionOwned, NEW v \in Vals \cup {None}, Own!Write(Again, v)
  PROVE  /\ db' \in [{Again} -> Vals \cup {None}] /\ disk' \in [{Again} -> Vals \cup {None}]
         /\ txn' = txn /\ db'[Again] = v /\ (~txn => db' = disk')
BY DEF OwnTypes, Own!TransactionOwned, Own!Write

LEMMA OwnAdds ==
  ASSUME OwnInv, (\E new \in Own!Batches : Own!AddMemory(Caller, new)) \/ Own!Begin(Caller) \/ Own!Lock(Caller)
  PROVE  OwnInv'
<1>1. ASSUME NEW new \in Own!Batches, Own!AddMemory(Caller, new) PROVE OwnInv'
  <2> DEFINE ids == [i \in DOMAIN new |-> new[i].id]
  <2>1. PICK n \in 1..MaxBatch : new \in [1..n -> Own!Doc]
    BY DEF Own!Batches
  <2>2. n \in Nat /\ n # 0
    BY <2>1, StorageAssumption
  <2>3. new \in Seq(Own!Doc) /\ Len(new) = n
    BY <2>1, <2>2, SeqDef
  <2>4. ids \in Seq({Again}) /\ ids # <<>> /\ Own!Elems(ids) = {Again}
    <3>1. ids \in [1..n -> {Again}]
      BY <2>1 DEF Own!Doc
    <3>2. ids \in Seq({Again})
      BY <2>2, <3>1, SeqDef
    <3> HIDE DEF ids
    <3> QED BY <2>2, <3>1, <3>2 DEF Own!Elems
  <2> HIDE DEF ids
  <2>5. /\ docs' = docs \o new /\ pc[Caller] = "idle" /\ mu = None /\ pc' = [pc EXCEPT ![Caller] = "begin"]
        /\ todo' = [todo EXCEPT ![Caller] = ids] /\ batch' = [batch EXCEPT ![Caller] = Own!Elems(ids)]
        /\ UNCHANGED <<mu, db, disk, txn, owns, touched, failed, stuck>>
    BY <1>1 DEF Own!AddMemory, Own!Start, Own!Goto, Own!tableVars, Own!rideVars, Own!errorVars, ids
  <2>6. docs' \in Seq(Own!Doc) /\ docs' # <<>>
    BY <2>2, <2>3, <2>5 DEF OwnInv, OwnTypes
  <2>7. /\ pc' \in [{Caller} -> {"idle", "begin", "lock", "insert", "rollback", "delete", "update"}] /\ pc'[Caller] = "begin"
        /\ todo' \in [{Caller} -> Seq({Again})] /\ todo'[Caller] # <<>>
        /\ batch' \in [{Caller} -> SUBSET {Again}] /\ batch'[Caller] = {Again}
    BY <2>4, <2>5 DEF OwnInv, OwnTypes
  <2>8. Own!TransactionOwned'
    BY <2>5, <2>7, StorageAssumption DEF OwnInv, Own!TransactionOwned
  <2> QED BY <2>5, <2>6, <2>7, <2>8 DEF OwnInv, OwnTypes, CallersId
<1>2. ASSUME Own!Begin(Caller) PROVE OwnInv'
  <2>1. /\ pc[Caller] = "begin" /\ pc' = [pc EXCEPT ![Caller] = "lock"] /\ txn' = TRUE /\ owns' = [owns EXCEPT ![Caller] = ~txn]
        /\ UNCHANGED <<docs, mu, db, disk, todo, batch, touched, failed, stuck>>
    BY <1>2 DEF Own!Begin, Own!Goto, Own!histVars, Own!errorVars
  <2>2. OwnTypes' /\ pc'[Caller] = "lock" /\ owns'[Caller] = ~txn
    BY <2>1 DEF OwnInv, OwnTypes
  <2>3. Own!TransactionOwned'
    BY <2>1, <2>2 DEF OwnInv, Own!TransactionOwned
  <2> QED BY <2>1, <2>2, <2>3 DEF OwnInv, CallersId
<1>3. ASSUME Own!Lock(Caller) PROVE OwnInv'
  <2>1. /\ pc[Caller] = "lock" /\ pc' = [pc EXCEPT ![Caller] = "insert"] /\ mu' = Caller
        /\ UNCHANGED <<docs, db, disk, txn, todo, owns, batch, touched, failed, stuck>>
    BY <1>3 DEF Own!Lock, Own!Goto, Own!histVars, Own!errorVars, Own!tableVars
  <2>2. OwnTypes' /\ pc'[Caller] = "insert"
    BY <2>1 DEF OwnInv, OwnTypes
  <2>3. Own!TransactionOwned'
    BY <2>1, <2>2 DEF OwnInv, Own!TransactionOwned
  <2> QED BY <2>1, <2>2, <2>3 DEF OwnInv, CallersId
<1> QED BY <1>1, <1>2, <1>3

LEMMA OwnInserts ==
  ASSUME OwnInv, Own!InsertNext(Caller) \/ Own!InsertThrows(Caller)
  PROVE  OwnInv'
<1>1. ASSUME Own!InsertNext(Caller) PROVE OwnInv'
  <2>1. /\ pc[Caller] = "insert" /\ todo[Caller] # <<>> /\ todo' = [todo EXCEPT ![Caller] = Tail(todo[Caller])]
        /\ UNCHANGED <<docs, mu, pc, owns, batch, touched, stuck>>
    BY <1>1 DEF Own!InsertNext, Own!Fails, Own!errorVars, OwnInv, OwnTypes
  <2>2. Head(todo[Caller]) = Again /\ Tail(todo[Caller]) \in Seq({Again})
    BY <2>1 DEF OwnInv, OwnTypes
  <2>3. todo' \in [{Caller} -> Seq({Again})]
    BY <2>1, <2>2 DEF OwnInv, OwnTypes
  <2>4. \/ docs = <<>> /\ UNCHANGED <<db, disk, txn, failed>>
        \/ docs # <<>> /\ Own!Write(Again, docs[Len(docs)].val) /\ docs[Len(docs)].val \in Vals /\ failed' = failed
        \/ failed' = failed \cup {Again} /\ UNCHANGED <<db, disk, txn>>
    BY <1>1, <2>2, Everywhere DEF Own!InsertNext, Own!Fails, Own!tableVars, OwnInv, OwnTypes
  <2>5. /\ db' \in [{Again} -> Vals \cup {None}] /\ disk' \in [{Again} -> Vals \cup {None}]
        /\ txn' = txn /\ (~txn => db' = disk') /\ failed' \subseteq {Again} /\ failed \subseteq failed'
        /\ Again \in failed' \/ docs = <<>> \/ db'[Again] = docs[Len(docs)].val
    <3>1. CASE UNCHANGED <<db, disk, txn>> /\ ((docs = <<>> /\ failed' = failed) \/ failed' = failed \cup {Again})
      BY <3>1 DEF OwnInv, OwnTypes, Own!TransactionOwned
    <3>2. CASE docs # <<>> /\ Own!Write(Again, docs[Len(docs)].val) /\ docs[Len(docs)].val \in Vals /\ failed' = failed
      BY <3>2, RowWritten DEF OwnInv, OwnTypes
    <3> QED BY <2>4, <3>1, <3>2
  <2>6. OwnTypes'
    BY <2>1, <2>3, <2>5 DEF OwnInv, OwnTypes
  <2>7. Own!TransactionOwned'
    BY <2>1, <2>5 DEF OwnInv, Own!TransactionOwned
  <2> QED BY <2>1, <2>5, <2>6, <2>7 DEF OwnInv, CallersId, NewestHeld
<1>2. ASSUME Own!InsertThrows(Caller) PROVE OwnInv'
  <2>1. /\ pc[Caller] = "insert" /\ pc' = [pc EXCEPT ![Caller] = "rollback"] /\ mu' = None /\ failed' = failed \cup batch[Caller]
        /\ UNCHANGED <<docs, db, disk, txn, todo, owns, batch, touched, stuck>>
    BY <1>2 DEF Own!InsertThrows, Own!Goto, Own!tableVars, Own!errorVars
  <2>2. OwnTypes' /\ pc'[Caller] = "rollback" /\ failed' = {Again}
    BY <2>1 DEF OwnInv, OwnTypes
  <2>3. Own!TransactionOwned'
    BY <2>1, <2>2, StorageAssumption DEF OwnInv, Own!TransactionOwned
  <2> QED BY <2>1, <2>2, <2>3 DEF OwnInv
<1> QED BY <1>1, <1>2

\* The ends of an add: the transaction is undone, committed, left to its owner,
\* or the COMMIT fails.
LEMMA OwnAddEnds ==
  ASSUME OwnInv, Own!PrepareFails(Caller) \/ Own!Rollback(Caller) \/ Own!Commit(Caller)
  PROVE  OwnInv'
<1> DEFINE Ended ==
      /\ pc' = [pc EXCEPT ![Caller] = "idle"] /\ todo' = [todo EXCEPT ![Caller] = <<>>] /\ batch' = [batch EXCEPT ![Caller] = {}]
      /\ mu' = None /\ owns' = [owns EXCEPT ![Caller] = FALSE]
      /\ \/ owns[Caller] /\ txn' = FALSE /\ stuck' = stuck /\ ((db' = disk /\ disk' = disk) \/ (db' = db /\ disk' = db))
         \/ ~ owns[Caller] /\ UNCHANGED <<db, disk, txn, stuck>>
         \/ owns[Caller] /\ stuck' = TRUE /\ UNCHANGED <<db, disk, txn>>
      /\ UNCHANGED <<docs, touched>>
<1>1. ASSUME Ended, failed' \subseteq {Again}
      PROVE  OwnTypes' /\ Own!TransactionOwned' /\ pc'[Caller] = "idle"
  <2>1. <<>> \in Seq({Again})
    OBVIOUS
  <2>2. OwnTypes' /\ pc'[Caller] = "idle" /\ owns'[Caller] = FALSE
    BY <1>1, <2>1 DEF OwnInv, OwnTypes
  <2>3. (txn' <=> stuck') /\ (~txn' => db' = disk')
    BY <1>1 DEF OwnInv, OwnTypes, Own!TransactionOwned
  <2> QED BY <1>1, <2>2, <2>3, StorageAssumption DEF Own!TransactionOwned
<1>2. ASSUME Own!PrepareFails(Caller) \/ Own!Rollback(Caller) PROVE OwnInv'
  <2>1. mu = None /\ (pc[Caller] = "begin" => owns[Caller] = FALSE /\ owns = [owns EXCEPT ![Caller] = FALSE])
    BY <1>2 DEF Own!PrepareFails, Own!Rollback, OwnInv, OwnTypes, Own!TransactionOwned
  <2>2. /\ Ended
        /\ \/ failed' = failed \cup batch[Caller] /\ pc[Caller] = "begin"
           \/ failed' = failed /\ pc[Caller] = "rollback"
    <3>1. CASE Own!PrepareFails(Caller)
      BY <2>1, <3>1 DEF Own!PrepareFails, Own!Finish, Own!Goto, Own!tableVars
    <3>2. CASE Own!Rollback(Caller)
      BY <2>1, <3>2 DEF Own!Rollback, Own!Finish, Own!Goto, Own!errorVars, OwnInv, OwnTypes
    <3> QED BY <1>2, <3>1, <3>2
  <2>3. failed' = {Again}
    BY <2>2 DEF OwnInv, OwnTypes
  <2> HIDE DEF Ended
  <2> QED BY <1>1, <2>2, <2>3 DEF OwnInv
<1>3. ASSUME Own!Commit(Caller) PROVE OwnInv'
  <2>1. Ended /\ pc[Caller] = "insert" /\ todo[Caller] = <<>> /\ db' = db /\ UNCHANGED <<docs, touched, failed>>
    BY <1>3 DEF Own!Commit, Own!Finish, Own!Goto, Own!errorVars, OwnInv, OwnTypes
  <2>2. failed' \subseteq {Again}
    BY <2>1 DEF OwnInv, OwnTypes
  <2>3. Again \notin failed => docs # <<>> /\ NewestHeld /\ SomeHeld
    <3>1. docs # <<>> => Len(docs) \in DOMAIN docs
      BY Everywhere DEF OwnInv, OwnTypes
    <3> QED BY <2>1, <3>1 DEF OwnInv, CallersId, NewestHeld, SomeHeld
  <2>4. OwnTypes' /\ Own!TransactionOwned' /\ pc'[Caller] = "idle"
    <3> HIDE DEF Ended
    <3> QED BY <1>1, <2>1, <2>2
  <2> QED BY <2>1, <2>3, <2>4 DEF OwnInv, CallersId, NewestHeld, SomeHeld
<1> QED BY <1>2, <1>3

LEMMA OwnDeletes ==
  ASSUME OwnInv, (\E ids \in Own!IdLists : Own!DeleteMemory(Caller, ids)) \/ Own!PersistDelete(Caller) \/ Own!DeleteReturns(Caller)
  PROVE  OwnInv'
<1>1. ASSUME NEW ids \in Own!IdLists, Own!DeleteMemory(Caller, ids) PROVE OwnInv'
  <2>1. PICK n \in 1..MaxBatch : ids \in [1..n -> {Again}]
    BY DEF Own!IdLists
  <2>2. n \in Nat /\ n # 0
    BY <2>1, StorageAssumption
  <2>3. ids \in Seq({Again}) /\ ids # <<>> /\ Own!Elems(ids) = {Again}
    <3>1. ids \in Seq({Again})
      BY <2>1, <2>2, SeqDef
    <3> QED BY <2>1, <2>2, <3>1 DEF Own!Elems
  <2> DEFINE S == {d \in Own!Doc : d.id \notin Own!Elems(ids)}
  <2>4. /\ docs' = Own!Only(docs, S) /\ pc[Caller] = "idle" /\ mu = None /\ pc' = [pc EXCEPT ![Caller] = "delete"]
        /\ todo' = [todo EXCEPT ![Caller] = ids] /\ batch' = [batch EXCEPT ![Caller] = Own!Elems(ids)]
        /\ touched' = touched \cup Own!Elems(ids)
        /\ UNCHANGED <<mu, db, disk, txn, owns, failed, stuck>>
    BY <1>1 DEF Own!DeleteMemory, Own!Start, Own!Goto, Own!tableVars, Own!rideVars, Own!errorVars
  <2>5. Own!Doc \cap S = {}
    BY <2>3 DEF Own!Doc
  <2> HIDE DEF S
  <2>6. docs' = <<>>
    <3>1. docs \in Seq(Own!Doc) /\ Len(docs) \in Nat
      BY DEF OwnInv, OwnTypes
    <3> QED BY <2>4, <2>5, <3>1, OnlyIsSifted, SiftedNothing
  <2>7. OwnTypes' /\ pc'[Caller] = "delete" /\ todo'[Caller] # <<>>
    <3>1. docs' \in Seq(Own!Doc)
      BY <2>6
    <3> QED BY <2>3, <2>4, <3>1 DEF OwnInv, OwnTypes
  <2>8. Own!TransactionOwned'
    BY <2>4, <2>7, StorageAssumption DEF OwnInv, Own!TransactionOwned
  <2> QED BY <2>4, <2>6, <2>7, <2>8 DEF OwnInv, CallersId
<1>2. ASSUME Own!PersistDelete(Caller) PROVE OwnInv'
  <2>1. /\ pc[Caller] = "delete" /\ todo[Caller] # <<>> /\ todo' = [todo EXCEPT ![Caller] = Tail(todo[Caller])]
        /\ \/ Own!Write(Head(todo[Caller]), None) /\ failed' = failed
           \/ failed' = failed \cup {Head(todo[Caller])} /\ UNCHANGED <<db, disk, txn>>
        /\ UNCHANGED <<docs, mu, pc, owns, batch, touched, stuck>>
    BY <1>2 DEF Own!PersistDelete, Own!Fails, Own!errorVars, Own!tableVars, OwnInv, OwnTypes
  <2>2. Head(todo[Caller]) = Again /\ Tail(todo[Caller]) \in Seq({Again})
    BY <2>1 DEF OwnInv, OwnTypes
  <2>3. todo' \in [{Caller} -> Seq({Again})]
    BY <2>1, <2>2 DEF OwnInv, OwnTypes
  <2>4. /\ db' \in [{Again} -> Vals \cup {None}] /\ disk' \in [{Again} -> Vals \cup {None}]
        /\ txn' = txn /\ (~txn => db' = disk') /\ failed' \subseteq {Again} /\ failed \subseteq failed'
        /\ Again \in failed' \/ db'[Again] = None
    <3>1. CASE Own!Write(Head(todo[Caller]), None) /\ failed' = failed
      BY <2>2, <3>1, RowWritten DEF OwnInv, OwnTypes
    <3>2. CASE failed' = failed \cup {Head(todo[Caller])} /\ UNCHANGED <<db, disk, txn>>
      BY <2>2, <3>2 DEF OwnInv, OwnTypes, Own!TransactionOwned
    <3> QED BY <2>1, <3>1, <3>2
  <2>5. OwnTypes'
    BY <2>1, <2>3, <2>4 DEF OwnInv, OwnTypes
  <2>6. Own!TransactionOwned'
    BY <2>1, <2>4 DEF OwnInv, Own!TransactionOwned
  <2> QED BY <2>1, <2>4, <2>5, <2>6 DEF OwnInv, CallersId
<1>3. ASSUME Own!DeleteReturns(Caller) PROVE OwnInv'
  <2>1. /\ pc[Caller] = "delete" /\ todo[Caller] = <<>>
        /\ pc' = [pc EXCEPT ![Caller] = "idle"] /\ todo' = [todo EXCEPT ![Caller] = <<>>] /\ batch' = [batch EXCEPT ![Caller] = {}]
        /\ UNCHANGED <<docs, mu, db, disk, txn, owns, touched, failed, stuck>>
    BY <1>3 DEF Own!DeleteReturns, Own!Finish, Own!Goto, Own!tableVars, Own!errorVars
  <2>2. <<>> \in Seq({Again})
    OBVIOUS
  <2>3. OwnTypes' /\ pc'[Caller] = "idle"
    BY <2>1, <2>2 DEF OwnInv, OwnTypes
  <2>4. Own!TransactionOwned'
    BY <2>1, <2>3 DEF OwnInv, Own!TransactionOwned
  <2> QED BY <2>1, <2>3, <2>4 DEF OwnInv, CallersId
<1> QED BY <1>1, <1>2, <1>3

LEMMA OwnUpdates ==
  ASSUME OwnInv, (\E v \in Vals : Own!UpdateMemory(Caller, Again, v)) \/ Own!PersistUpdate(Caller)
  PROVE  OwnInv'
<1>1. ASSUME NEW v \in Vals, Own!UpdateMemory(Caller, Again, v) PROVE OwnInv'
  <2>1. docs # <<>> /\ 1 \in DOMAIN docs /\ docs \in Seq(Own!Doc)
    BY <1>1, Everywhere DEF Own!UpdateMemory, OwnInv, OwnTypes
  <2>2. /\ docs' = [docs EXCEPT ![1].val = v] /\ pc[Caller] = "idle" /\ mu = None /\ pc' = [pc EXCEPT ![Caller] = "update"]
        /\ todo' = [todo EXCEPT ![Caller] = <<Again>>] /\ batch' = [batch EXCEPT ![Caller] = Own!Elems(<<Again>>)]
        /\ touched' = touched \cup {Again}
        /\ UNCHANGED <<mu, db, disk, txn, owns, failed, stuck>>
    BY <1>1, <2>1, Everywhere DEF Own!UpdateMemory, Own!Start, Own!Goto, Own!tableVars, Own!rideVars, Own!errorVars
  <2>3. docs' \in Seq(Own!Doc) /\ docs' # <<>>
    <3>1. docs[1] \in Own!Doc
      BY <2>1
    <3>2. [docs[1] EXCEPT !.val = v] \in Own!Doc
      BY <3>1 DEF Own!Doc
    <3> DEFINE new == [docs[1] EXCEPT !.val = v]
    <3>3. docs' = [docs EXCEPT ![1] = new]
      BY <2>2
    <3> HIDE DEF new
    <3> QED BY <2>1, <3>2, <3>3 DEF new
  <2>4. Own!Elems(<<Again>>) = {Again} /\ <<Again>> \in Seq({Again}) /\ <<Again>> # <<>>
    BY DEF Own!Elems
  <2>5. OwnTypes' /\ pc'[Caller] = "update" /\ todo'[Caller] # <<>> /\ Again \in touched'
    BY <2>2, <2>3, <2>4 DEF OwnInv, OwnTypes
  <2>6. Own!TransactionOwned'
    BY <2>2, <2>5, StorageAssumption DEF OwnInv, Own!TransactionOwned
  <2> QED BY <2>2, <2>3, <2>5, <2>6 DEF OwnInv, CallersId
<1>2. ASSUME Own!PersistUpdate(Caller) PROVE OwnInv'
  <2>1. /\ pc[Caller] = "update" /\ Head(todo[Caller]) = Again /\ todo[Caller] # <<>>
        /\ pc' = [pc EXCEPT ![Caller] = "idle"] /\ todo' = [todo EXCEPT ![Caller] = <<>>] /\ batch' = [batch EXCEPT ![Caller] = {}]
        /\ UNCHANGED <<docs, mu, owns, touched, stuck>>
    BY <1>2 DEF Own!PersistUpdate, Own!Finish, Own!Goto, Own!Fails, Own!errorVars, OwnInv, OwnTypes
  <2>2. \/ docs = <<>> /\ UNCHANGED <<db, disk, txn, failed>>
        \/ failed' = failed \cup {Again} /\ UNCHANGED <<db, disk, txn>>
        \/ docs # <<>> /\ docs[1].val \in Vals /\ Own!Write(Again, docs[1].val) /\ failed' = failed
    BY <1>2, <2>1, Everywhere DEF Own!PersistUpdate, Own!Fails, Own!errorVars, Own!tableVars, OwnInv, OwnTypes
  <2>3. /\ db' \in [{Again} -> Vals \cup {None}] /\ disk' \in [{Again} -> Vals \cup {None}]
        /\ txn' = txn /\ (~txn => db' = disk') /\ failed' \subseteq {Again} /\ failed \subseteq failed'
        /\ Again \notin failed' => docs = <<>> \/ db'[Again] = docs[1].val
    <3>1. CASE UNCHANGED <<db, disk, txn>> /\ ((docs = <<>> /\ failed' = failed) \/ failed' = failed \cup {Again})
      BY <3>1 DEF OwnInv, OwnTypes, Own!TransactionOwned
    <3>2. CASE docs # <<>> /\ docs[1].val \in Vals /\ Own!Write(Again, docs[1].val) /\ failed' = failed
      BY <3>2, RowWritten DEF OwnInv, OwnTypes
    <3> QED BY <2>2, <3>1, <3>2
  <2>4. OwnTypes' /\ pc'[Caller] = "idle"
    <3>1. <<>> \in Seq({Again})
      OBVIOUS
    <3> QED BY <2>1, <2>3, <3>1 DEF OwnInv, OwnTypes
  <2>5. Own!TransactionOwned'
    BY <2>1, <2>3, <2>4 DEF OwnInv, Own!TransactionOwned
  <2>6. Again \notin failed' => docs # <<>> /\ Again \in touched /\ SomeHeld'
    <3>1. docs # <<>> => 1 \in DOMAIN docs
      BY Everywhere DEF OwnInv, OwnTypes
    <3> QED BY <2>1, <2>3, <3>1 DEF OwnInv, CallersId, SomeHeld
  <2> QED BY <2>1, <2>4, <2>5, <2>6 DEF OwnInv, CallersId
<1> QED BY <1>1, <1>2

LEMMA OwnCrash ==
  ASSUME OwnInv, Own!Crash
  PROVE  OwnInv'
<1>1. /\ db' = disk /\ disk' = disk /\ txn' = FALSE /\ docs' = Own!LoadAll /\ mu' = None
      /\ pc'[Caller] = "idle" /\ todo'[Caller] = <<>> /\ owns'[Caller] = FALSE /\ batch'[Caller] = {}
      /\ failed' = {} /\ stuck' = FALSE /\ UNCHANGED touched
  BY DEF Own!Crash
<1> DEFINE row == [id |-> Again, val |-> disk[Again]]
<1>2. \A d \in Own!Stored : d = row /\ disk[Again] \in Vals
  BY DEF Own!Stored, Own!Doc
<1>3. disk[Again] # None => row \in Own!Stored
  <2> SUFFICES ASSUME disk[Again] # None PROVE row \in Own!Stored
    OBVIOUS
  <2>1. row \in Own!Doc
    BY DEF Own!Doc, OwnInv, OwnTypes
  <2> QED BY <2>1 DEF Own!Stored
<1>4. /\ Own!Stored \subseteq {row} /\ \A d \in Own!Stored : d \in Own!Doc /\ d.val = disk[Again]
      /\ Own!Stored = {} <=> disk[Again] = None
  <2>1. disk[Again] = None => Own!Stored = {}
    BY <1>2, StorageAssumption
  <2>2. \A d \in Own!Stored : d \in Own!Doc
    BY DEF Own!Stored
  <2> QED BY <1>2, <1>3, <2>1, <2>2
<1> HIDE DEF row
<1>5. Own!LoadAll \in Seq(Own!Stored) /\ Sqlite!Elems(Own!LoadAll) = Own!Stored
  <2>1. IsFiniteSet(Own!Stored)
    BY <1>4, FS_Singleton, FS_Subset
  <2>2. Own!LoadAll = Listing(Own!Stored)
    <3>1. Own!Cardinality(Own!Stored) = Cardinality(Own!Stored)
      BY Zenon DEF Own!Cardinality, Cardinality
    <3>2. \A s : Own!Elems(s) = Sqlite!Elems(s)
      BY DEF Own!Elems, Sqlite!Elems
    <3> QED BY <3>1, <3>2 DEF Own!LoadAll, Listing
  <2> QED BY <1>4, <2>1, <2>2, Loaded
<1> DEFINE S == Own!Stored
<1>6. docs' \in Seq(S) /\ \A d : d \in S <=> \E i \in DOMAIN docs' : docs'[i] = d
  BY <1>1, <1>5 DEF Sqlite!Elems
<1>7. S \subseteq Own!Doc /\ (\A d \in S : d.val = disk[Again]) /\ (S = {} <=> disk[Again] = None)
  BY <1>4
<1> HIDE DEF S
<1>8. docs' \in Seq(Own!Doc) /\ (docs' = <<>> <=> disk[Again] = None) /\ \A i \in DOMAIN docs' : docs'[i].val = disk[Again]
  <2>1. docs' \in Seq(Own!Doc)
    BY <1>6, <1>7, SeqMonotonic
  <2>2. docs' = <<>> <=> DOMAIN docs' = {}
    BY <2>1
  <2> QED BY <1>6, <1>7, <2>1, <2>2
<1>9. CallersId'
  <2>1. docs' # <<>> => Len(docs') \in DOMAIN docs'
    BY <1>8
  <2> QED BY <1>1, <1>8, <2>1 DEF CallersId, SomeHeld, NewestHeld
<1>10. OwnTypes'
  <2>1. <<>> \in Seq({Again})
    OBVIOUS
  <2>2. todo' \in [{Caller} -> Seq({Again})]
    BY <2>1 DEF Own!Crash
  <2>3. /\ pc' \in [{Caller} -> {"idle", "begin", "lock", "insert", "rollback", "delete", "update"}]
        /\ owns' \in [{Caller} -> BOOLEAN] /\ batch' \in [{Caller} -> SUBSET {Again}]
    BY DEF Own!Crash
  <2> QED BY <1>1, <1>8, <2>2, <2>3 DEF OwnInv, OwnTypes
<1>11. Own!TransactionOwned'
  BY <1>1, StorageAssumption DEF Own!TransactionOwned
<1> QED BY <1>1, <1>9, <1>10, <1>11 DEF OwnInv

\* OwnInv as an invariant of the program's memories.
LEMMA OwnHolds == MCSpec => [](choice = "caller" => OwnInv)
<1> DEFINE Inv == choice = "caller" => OwnInv
<1>1. MCInit => Inv
  <2>1. MCInit /\ choice = "caller" => Own!Init
    BY DEF MCInit
  <2> QED BY <2>1, OwnStarts
<1>2. ASSUME Inv, [MCNext]_<<choice, vars, longVars, sqliteVars, searchVars>> PROVE Inv'
  <2>1. CASE CallerNext
    <3> SUFFICES ASSUME OwnInv, Own!Next PROVE OwnInv'
      BY <1>2, <2>1 DEF CallerNext
    <3> QED BY OwnAdds, OwnInserts, OwnAddEnds, OwnDeletes, OwnUpdates, OwnCrash DEF Own!Next
  <2>2. CASE choice # "caller" /\ choice' = choice
    BY <2>2
  <2>3. CASE choice' = choice /\ UNCHANGED sqliteVars
    BY <1>2, <2>3 DEF sqliteVars, OwnInv, OwnTypes, Own!TransactionOwned, CallersId, NewestHeld, SomeHeld
  <2> QED BY <1>2, <2>1, <2>2, <2>3 DEF MCNext, ShortNext, LongNext, SqliteNext, SearchNext
<1> HIDE DEF Inv
<1>3. MCSpec => []Inv
  BY <1>1, <1>2, PTL DEF MCSpec
<1> QED BY <1>3 DEF Inv

(* When no operation is under way the table holds the documents that       *)
(* memory holds, each once, whatever threads did before and wherever it    *)
(* was restarted, but for the ids whose operation or statement failed or   *)
(* whose transaction was undone; with ids that the caller chooses, the     *)
(* table holds one of the documents of the id, the newest if none was      *)
(* updated.  And a transaction is that of one add_documents under way, or  *)
(* one whose COMMIT failed, which nobody ends.                             *)
THEOREM MemoryAndTableAgree == MCSpec => []StoreAgrees
<1>1. ASSUME choice = "sqlite" => SqlInv, choice = "caller" => OwnInv PROVE StoreAgrees
  <2>1. ASSUME SqlInv PROVE Sqlite!TransactionOwned /\ Sqlite!Agreement
    <3>1. Sqlite!TransactionOwned
      BY <2>1 DEF SqlInv
    <3>2. ASSUME Sqlite!Quiescent, NEW x \in Ids \ (failed \cup lost)
          PROVE  /\ {docs[i].val : i \in Sqlite!Positions(x)} = {db[x]} \ {None}
                 /\ Sqlite!Cardinality(Sqlite!Positions(x)) <= 1
      <4>1. \A t \in Threads : pc[t] = "idle" /\ ToWrite(t) = {}
        <5>1. \A t \in Threads : pc[t] = "idle" /\ todo[t] = <<>>
          BY <2>1, <3>2 DEF SqlInv, Works, Sqlite!Quiescent
        <5>2. Sqlite!Elems(<<>>) = {}
          BY DEF Sqlite!Elems
        <5> QED BY <5>1, <5>2 DEF ToWrite
      <4>2. Sqlite!Cardinality(Sqlite!Positions(x)) = Cardinality(Sqlite!Positions(x))
        BY Zenon DEF Sqlite!Cardinality, Cardinality
      <4>3. docs \in Seq(Sqlite!Doc) /\ Distinct(docs) /\ \A d \in Held : d.val \in Vals
        BY <2>1, HeldDocs DEF SqlInv
      <4>4. CASE \A d \in Held : d.id # x
        <5>1. Sqlite!Positions(x) = {}
          BY <4>3, <4>4, Lookup
        <5>2. db[x] = None
          BY <2>1, <3>2, <4>1, <4>4 DEF SqlInv, Absent, Excused
        <5> QED BY <4>2, <5>1, <5>2, FS_EmptySet
      <4>5. ASSUME NEW d \in Held, d.id = x
            PROVE  {docs[i].val : i \in Sqlite!Positions(x)} = {db[x]} \ {None} /\ Cardinality(Sqlite!Positions(x)) = 1
        <5>1. PICK i \in DOMAIN docs : Sqlite!Positions(x) = {i} /\ docs[i] = d
          BY <4>3, <4>5, Lookup
        <5>2. db[x] = d.val
          BY <2>1, <3>2, <4>1, <4>5 DEF SqlInv, Present, Excused
        <5>3. d.val # None
          BY <4>3, StorageAssumption
        <5>4. {docs[j].val : j \in Sqlite!Positions(x)} = {db[x]}
          BY <5>1, <5>2
        <5> QED BY <5>1, <5>2, <5>3, <5>4, FS_Singleton
      <4> QED BY <4>2, <4>4, <4>5
    <3> QED BY <3>1, <3>2 DEF Sqlite!Agreement
  <2>2. ASSUME OwnInv PROVE Own!TransactionOwned /\ Own!LastOneKept
    <3>1. Own!TransactionOwned
      BY <2>2 DEF OwnInv
    <3>2. Again \notin failed /\ Own!Quiescent =>
            IF docs = <<>> THEN db[Again] = None ELSE SomeHeld /\ (Again \notin touched => NewestHeld)
      BY <2>2 DEF OwnInv, CallersId, Own!Quiescent
    <3> QED BY <2>2, <3>1, <3>2, Everywhere DEF OwnInv, OwnTypes, SomeHeld, NewestHeld, Own!LastOneKept
  <2> QED BY <1>1, <2>1, <2>2 DEF StoreAgrees
<1> QED BY <1>1, SqlHolds, OwnHolds, PTL

-----------------------------------------------------------------------------
(* Types.  What the invariants above need not know: the histories and the  *)
(* counters, and the searches.                                             *)

LongRest == listed \subseteq Sessions /\ clears \in 0..MaxClears /\ mishaps \in 0..MaxMishaps

LEMMA LongRestStep ==
  ASSUME LongInv, LongRest, Long!Next
  PROVE  LongRest'
<1> USE StorageAssumption DEF LongRest, Long!Fails, Long!StatementFails
<1>1. CASE Long!AddSqliteEnds \/ Long!AddSqliteUndone
  BY <1>1 DEF Long!AddSqliteEnds, Long!AddSqliteUndone, Long!fileVars, Long!bounds
<1>2. CASE Long!Crash
  BY <1>2 DEF Long!Crash, Long!Restarted
<1>3. ASSUME NEW o \in Objects, Long!Operation(o) PROVE LongRest'
  <2>1. ASSUME NEW s \in Sessions, Long!Open(o, s) \/ Long!OpenBlind(o, s) \/ Long!SetSessionId(o, s) \/ Long!SwitchSession(o, s)
        PROVE  LongRest'
    BY <2>1 DEF Long!Open, Long!OpenBlind, Long!SetSessionId, Long!SwitchSession, Long!fileVars, Long!bounds
  <2>2. ASSUME NEW m \in Msgs, Long!AddJson(o, m) \/ Long!AddJsonLost(o, m) \/ Long!AddJsonThrows(o, m)
        PROVE  LongRest'
    BY <2>2 DEF Long!AddJson, Long!AddJsonLost, Long!AddJsonThrows, Long!fileVars, Long!bounds
  <2>3. ASSUME NEW m \in Msgs, Long!AddSqlite(o, m) \/ Long!AddSqliteBusy(o, m)
        PROVE  LongRest'
    BY <2>3 DEF Long!AddSqlite, Long!AddSqliteBusy, Long!fileVars, Long!bounds
  <2>4. ASSUME NEW m \in Msgs, Long!CrashInAppend(o, m) PROVE LongRest'
    BY <2>4 DEF Long!CrashInAppend, Long!Restarted
  <2>5. CASE Long!Messages(o) \/ Long!MessagesUnread(o)
    BY <2>5 DEF Long!Messages, Long!MessagesUnread, Long!fileVars, Long!bounds
  <2>6. CASE Long!Clear(o)
    BY <2>6 DEF Long!Clear, Long!ClearFile, Long!ClearRows
  <2> QED BY <1>3, <2>1, <2>2, <2>3, <2>4, <2>5, <2>6 DEF Long!Operation
<1> QED BY <1>1, <1>2, <1>3 DEF Long!Next

Faults == faults \in 0..MaxFaults

LEMMA SqlFaultsStep ==
  ASSUME Faults, Sqlite!Next
  PROVE  Faults'
<1> USE StorageAssumption DEF Faults, Sqlite!Fault, Sqlite!Fails, Sqlite!errorVars
<1>1. CASE Sqlite!Crash
  BY <1>1 DEF Sqlite!Crash
<1>2. ASSUME NEW t \in Threads, \/ Sqlite!PrepareFails(t) \/ Sqlite!InsertNext(t) \/ Sqlite!Commit(t)
                               \/ Sqlite!PersistDelete(t) \/ Sqlite!PersistUpdate(t)
      PROVE  Faults'
  BY <1>2 DEF Sqlite!PrepareFails, Sqlite!InsertNext, Sqlite!Commit, Sqlite!PersistDelete, Sqlite!PersistUpdate
<1>3. CASE UNCHANGED faults
  BY <1>3
<1> QED BY <1>1, <1>2, <1>3 DEF Sqlite!Next, Sqlite!AddMemory, Sqlite!Begin, Sqlite!Lock, Sqlite!InsertThrows, Sqlite!Rollback,
                                Sqlite!DeleteMemory, Sqlite!DeleteReturns, Sqlite!UpdateMemory

OwnRest ==
  /\ added \subseteq Own!Doc /\ gone \subseteq {Again} /\ batches \subseteq SUBSET {Again}
  /\ riding \subseteq {Again} /\ lost \subseteq {Again} /\ unowned \subseteq {Again} /\ skipped \subseteq {Again} /\ Faults

LEMMA OwnRestStep ==
  ASSUME OwnInv, OwnRest, Own!Next
  PROVE  OwnRest'
<1>1. /\ docs \in Seq(Own!Doc) /\ todo[Caller] \in Seq({Again}) /\ batch[Caller] \subseteq {Again}
      /\ batch \in [{Caller} -> SUBSET {Again}]
  BY DEF OwnInv, OwnTypes
<1>2. Own!Elems(docs) \subseteq Own!Doc /\ (todo[Caller] # <<>> => Head(todo[Caller]) = Again)
  BY <1>1 DEF Own!Elems
<1> USE StorageAssumption DEF OwnRest, Faults, Own!rideVars, Own!histVars, Own!errorVars, Own!Fault, Own!Fails
<1>3. ASSUME NEW new \in Own!Batches, Own!AddMemory(Caller, new) PROVE OwnRest'
  <2>1. new \in Seq(Own!Doc)
    BY <1>3 DEF Own!Batches
  <2>2. batch' = [batch EXCEPT ![Caller] = Own!Elems([i \in DOMAIN new |-> new[i].id])] /\ batches' = batches \cup {batch'[Caller]}
        /\ UNCHANGED <<added, gone, riding, lost, unowned, skipped, faults>>
    BY <1>3 DEF Own!AddMemory, Own!Start
  <2>3. \A i \in DOMAIN new : new[i].id = Again
    <3>1. \A d \in Own!Doc : d.id = Again
      BY DEF Own!Doc
    <3> QED BY <2>1, <3>1
  <2>4. Own!Elems([i \in DOMAIN new |-> new[i].id]) \subseteq {Again}
    BY <2>3 DEF Own!Elems
  <2> QED BY <1>1, <2>2, <2>4
<1>4. CASE Own!Begin(Caller) \/ Own!Lock(Caller)
  BY <1>4 DEF Own!Begin, Own!Lock
<1>5. CASE Own!InsertNext(Caller)
  BY <1>2, <1>5 DEF Own!InsertNext, Own!Ride
<1>6. CASE Own!PrepareFails(Caller) \/ Own!InsertThrows(Caller) \/ Own!Rollback(Caller)
  BY <1>6 DEF Own!PrepareFails, Own!InsertThrows, Own!Rollback, Own!Undone
<1>7. CASE Own!Commit(Caller)
  BY <1>1, <1>2, <1>7 DEF Own!Commit
<1>8. ASSUME NEW ids \in Own!IdLists, Own!DeleteMemory(Caller, ids) PROVE OwnRest'
  BY <1>8 DEF Own!DeleteMemory
<1>9. CASE Own!PersistDelete(Caller)
  BY <1>2, <1>9 DEF Own!PersistDelete, Own!Ride
<1>10. CASE Own!DeleteReturns(Caller)
  BY <1>1, <1>10 DEF Own!DeleteReturns
<1>11. ASSUME NEW v \in Vals, Own!UpdateMemory(Caller, Again, v) PROVE OwnRest'
  BY <1>11 DEF Own!UpdateMemory
<1>12. CASE Own!PersistUpdate(Caller)
  <2>1. todo[Caller] # <<>>
    BY <1>12 DEF OwnInv, Own!PersistUpdate
  <2> QED BY <1>2, <1>12, <2>1 DEF Own!PersistUpdate, Own!Ride
<1>13. CASE Own!Crash
  BY <1>13 DEF Own!Crash, Own!Undone
<1> QED BY <1>3, <1>4, <1>5, <1>6, <1>7, <1>8, <1>9, <1>10, <1>11, <1>12, <1>13 DEF Own!Next

(* The index of FAISS has a vector for each document of docs_, and for     *)
(* each that a thread has still to put there.                              *)
Found == [id : Nat, emb : Embeddings, tag : Tags]
Pending == {t \in Adders : indexing[t] # Nobody}

SearchTypes ==
  /\ index \in Seq(Embeddings) /\ found \in Seq(Found) /\ indexing \in [Adders -> Found \cup {Nobody}]
  /\ count = Len(found) /\ adds \in Nat /\ drifted \in BOOLEAN

SearchInv == SearchTypes /\ IsFiniteSet(Pending) /\ Len(found) + Cardinality(Pending) <= Len(index)

LEMMA SearchStarts == Searches!Init => SearchInv
<1> SUFFICES ASSUME Searches!Init PROVE SearchInv
  OBVIOUS
<1>1. Pending = {}
  BY DEF Pending, Searches!Init
<1>2. SearchTypes /\ Len(found) = 0 /\ Len(index) = 0
  <2>1. drifted \in BOOLEAN /\ found = <<>> /\ index = <<>> /\ count = 0 /\ adds = 0
        /\ indexing = [t \in Adders |-> Nobody]
    BY DEF Searches!Init
  <2> QED BY <2>1 DEF SearchTypes
<1> QED BY <1>1, <1>2, FS_EmptySet DEF SearchInv

LEMMA SearchIndexAdd ==
  ASSUME SearchInv, NEW t \in Adders, Searches!IndexAdd(t)
  PROVE  SearchInv'
<1>1. PICK e \in Embeddings, g \in Tags :
        /\ index' = Append(index, e)
        /\ indexing' = [indexing EXCEPT ![t] = [id |-> adds', emb |-> e, tag |-> g]]
  BY DEF Searches!IndexAdd
<1>2. adds' = adds + 1 /\ UNCHANGED <<found, count>> /\ indexing[t] = Nobody
  BY DEF Searches!IndexAdd
<1>3. drifted' \in BOOLEAN
  BY Zenon DEF Searches!IndexAdd
<1> DEFINE doc == [id |-> adds', emb |-> e, tag |-> g]
<1>4. doc \in Found
  BY <1>2 DEF SearchInv, SearchTypes, Found
<1> HIDE DEF doc
<1>5. SearchTypes'
  BY <1>1, <1>2, <1>3, <1>4 DEF SearchInv, SearchTypes, doc
<1>6. Len(index') = Len(index) + 1
  BY <1>1 DEF SearchInv, SearchTypes
<1>7. Pending' \subseteq Pending \cup {t}
  BY <1>1 DEF Pending, SearchInv, SearchTypes
<1>8. /\ IsFiniteSet(Pending \cup {t})
      /\ Cardinality(Pending \cup {t}) = IF t \in Pending THEN Cardinality(Pending) ELSE Cardinality(Pending) + 1
  BY FS_AddElement DEF SearchInv
<1>9. IsFiniteSet(Pending') /\ Cardinality(Pending') <= Cardinality(Pending \cup {t})
  BY <1>7, <1>8, FS_Subset
<1>10. Cardinality(Pending) \in Nat /\ Cardinality(Pending') \in Nat /\ Len(found) \in Nat /\ Len(index) \in Nat
  BY <1>9, FS_CardinalityType DEF SearchInv, SearchTypes
<1>11. Len(found') = Len(found)
  BY <1>2
<1> QED BY <1>5, <1>6, <1>8, <1>9, <1>10, <1>11 DEF SearchInv

LEMMA SearchDocsAdd ==
  ASSUME SearchInv, NEW t \in Adders, Searches!DocsAdd(t)
  PROVE  SearchInv'
<1>1. /\ indexing[t] # Nobody /\ found' = Append(found, indexing[t]) /\ count' = count + 1
      /\ indexing' = [indexing EXCEPT ![t] = Nobody] /\ UNCHANGED <<index, adds, drifted>>
  BY DEF Searches!DocsAdd
<1>2. SearchTypes' /\ Len(found') = Len(found) + 1
  BY <1>1 DEF SearchInv, SearchTypes
<1>3. Pending' = Pending \ {t} /\ t \in Pending
  BY <1>1 DEF Pending, SearchInv, SearchTypes
<1>4. IsFiniteSet(Pending') /\ Cardinality(Pending') = Cardinality(Pending) - 1
  BY <1>3, FS_RemoveElement DEF SearchInv
<1>5. Cardinality(Pending) \in Nat /\ Len(found) \in Nat /\ Len(index) \in Nat
  BY FS_CardinalityType DEF SearchInv, SearchTypes
<1> QED BY <1>1, <1>2, <1>4, <1>5 DEF SearchInv

LEMMA SearchDeletes ==
  ASSUME SearchInv, NEW i, Searches!DeleteDocuments(i)
  PROVE  SearchInv'
<1> DEFINE S == {d \in Searches!Range(found) : d.id # i}
<1>1. /\ found' = Searches!Only(found, S) /\ count' = Len(found') /\ drifted' = TRUE
      /\ UNCHANGED <<index, indexing, adds>>
  BY DEF Searches!DeleteDocuments
<1> HIDE DEF S
<1>2. found' = Sifted(found, S)
  BY <1>1 DEF Searches!Only, Sifted
<1>3. found \in Seq(Found)
  BY DEF SearchInv, SearchTypes
<1>4. found' \in Seq(Found \cap S) /\ Len(found') <= Len(found)
  BY <1>2, <1>3, SiftedHolds, SiftedShorter
<1>5. found' \in Seq(Found)
  BY <1>4
<1>6. SearchTypes'
  BY <1>1, <1>5 DEF SearchInv, SearchTypes
<1>7. Pending' = Pending
  BY <1>1 DEF Pending
<1>8. Cardinality(Pending) \in Nat /\ Len(found) \in Nat /\ Len(found') \in Nat /\ Len(index) \in Nat /\ Len(index') = Len(index)
  BY <1>1, <1>5, FS_CardinalityType DEF SearchInv, SearchTypes
<1> QED BY <1>4, <1>6, <1>7, <1>8 DEF SearchInv

\* What no single component says, for all of them.
Rest ==
  /\ choice = "long" => LongRest
  /\ choice = "sqlite" => Faults
  /\ choice = "caller" => OwnRest
  /\ choice = "retrieval" => SearchInv

LEMMA RestHolds == MCSpec => []Rest
<1> DEFINE Held0 == /\ choice = "long" => LongInv
                    /\ choice = "caller" => OwnInv
<1>1. MCInit => Rest
  <2> SUFFICES ASSUME MCInit PROVE Rest
    OBVIOUS
  <2> USE StorageAssumption
  <2>1. choice = "long" => LongRest
    BY DEF MCInit, Long!Init, LongRest
  <2>2. choice = "sqlite" => Faults
    BY DEF MCInit, Sqlite!Init, Faults
  <2>3. choice = "caller" => OwnRest
    <3>1. choice = "caller" => Own!Init
      BY DEF MCInit
    <3> QED BY <3>1 DEF Own!Init, OwnRest, Faults
  <2>4. choice = "retrieval" => SearchInv
    BY SearchStarts DEF MCInit
  <2> QED BY <2>1, <2>2, <2>3, <2>4 DEF Rest
<1>2. ASSUME Held0, Rest, [MCNext]_<<choice, vars, longVars, sqliteVars, searchVars>> PROVE Rest'
  <2>1. CASE LongNext
    BY <1>2, <2>1, LongRestStep DEF LongNext, Rest
  <2>2. CASE SqliteNext
    BY <1>2, <2>2, SqlFaultsStep DEF SqliteNext, Rest
  <2>3. CASE CallerNext
    BY <1>2, <2>3, OwnRestStep DEF CallerNext, Rest
  <2>4. CASE SearchNext
    <3> SUFFICES ASSUME SearchInv, Searches!Next PROVE SearchInv'
      BY <1>2, <2>4 DEF SearchNext, Rest
    <3> QED BY SearchIndexAdd, SearchDocsAdd, SearchDeletes DEF Searches!Next
  <2>5. CASE UNCHANGED <<choice, longVars, sqliteVars, searchVars>>
    BY <1>2, <2>5 DEF longVars, liveVars, sqliteVars, searchVars, Rest, LongRest, Faults, OwnRest, SearchInv, SearchTypes, Pending
  <2> QED BY <1>2, <2>1, <2>2, <2>3, <2>4, <2>5 DEF MCNext, ShortNext
<1>3. MCSpec => []Held0
  BY LongHolds, OwnHolds, PTL
<1> HIDE DEF Held0
<1> QED BY <1>1, <1>2, <1>3, PTL DEF MCSpec

(* Everything that is kept is what its operations say, whatever threads    *)
(* and processes did, and the index of FAISS is never behind docs_.        *)
THEOREM StorageTypes == MCSpec => []TypesOK
<1>1. MCSpec => Spec
  <2>1. MCInit => Init
    BY DEF MCInit
  <2>2. [MCNext]_<<choice, vars, longVars, sqliteVars, searchVars>> => [Next]_vars
    BY DEF MCNext, ShortNext, LongNext, SqliteNext, CallerNext, SearchNext
  <2> QED BY <2>1, <2>2, PTL DEF MCSpec, Spec
<1>2. MCSpec => []TypeOK
  BY <1>1, TypeCorrect, PTL
<1>3. ASSUME TypeOK, choice = "long" => LongInv, choice = "sqlite" => SqlInv, choice = "caller" => OwnInv, Rest
      PROVE  TypesOK
  <2>1. choice = "long" => Long!TypeOK
    BY <1>3 DEF LongInv, LongTypes, Rest, LongRest, Long!TypeOK
  <2>2. choice = "sqlite" => Sqlite!TypeOK
    BY <1>3 DEF SqlInv, SqlTypes, Rest, Faults, Sqlite!TypeOK
  <2>3. choice = "caller" => Own!TypeOK
    BY <1>3 DEF OwnInv, OwnTypes, Rest, OwnRest, Faults, Own!TypeOK
  <2>4. choice = "retrieval" => Searches!TypeOK
    <3> SUFFICES ASSUME SearchInv PROVE Searches!TypeOK
      BY <1>3 DEF Rest
    <3>1. Cardinality(Pending) \in Nat /\ Len(found) \in Nat /\ Len(index) \in Nat
      BY FS_CardinalityType DEF SearchInv, SearchTypes
    <3> QED BY <3>1 DEF SearchInv, SearchTypes, Searches!TypeOK
  <2> QED BY <1>3, <2>1, <2>2, <2>3, <2>4 DEF TypesOK
<1> QED BY <1>2, <1>3, LongHolds, SqlHolds, OwnHolds, RestHolds, PTL
-----------------------------------------------------------------------------
(* What the searches return.  First the sorting: there is an order of the  *)
(* scores, and the best of what is sorted by it are no worse than the rest. *)

LEMMA RankingExists ==
  ASSUME NEW n \in Nat, NEW s \in [1..n -> Int], \A i \in 1..n : s[i] <= 100
  PROVE  \E p \in [1..n -> 1..n] :
           /\ \A i, j \in 1..n : i # j => p[i] # p[j]
           /\ \A i, j \in 1..n : i < j => s[p[i]] >= s[p[j]]
<1> DEFINE At(k) == (n - k + 1)..n
           Ranks(p, D, k) == /\ p \in [At(k) -> D]
                             /\ \A i, j \in At(k) : i # j => p[i] # p[j]
                             /\ \A i, j \in At(k) : i < j => s[p[i]] >= s[p[j]]
           All(k) == \A D \in SUBSET (1..n) : Cardinality(D) = k => \E p : Ranks(p, D, k)
           Good == {k \in Nat : k <= n => All(k)}
<1>1. IsFiniteSet(1..n) /\ Cardinality(1..n) = n
  BY FS_Interval
<1>2. 0 \in Good
  <2>1. At(0) = {}
    OBVIOUS
  <2>2. \A D : Ranks([i \in At(0) |-> 0], D, 0)
    BY <2>1
  <2> QED BY <2>2
<1>3. ASSUME NEW k \in Good PROVE k + 1 \in Good
  <2> SUFFICES ASSUME k + 1 <= n PROVE All(k + 1)
    <3> HIDE DEF All
    <3> QED OBVIOUS
  <2>0. k \in Nat /\ All(k)
    <3> HIDE DEF All
    <3> QED OBVIOUS
  <2> SUFFICES ASSUME NEW D \in SUBSET (1..n), Cardinality(D) = k + 1
               PROVE  \E p : Ranks(p, D, k + 1)
    <3> HIDE DEF Ranks
    <3> QED OBVIOUS
  <2>1. IsFiniteSet(D) /\ \A d \in D : s[d] \in Int /\ s[d] <= 100
    BY <1>1, FS_Subset
  <2>2. D # {}
    BY <2>0, <2>1, FS_EmptySet
  <2>3. PICK m \in D : \A d \in D : s[m] >= s[d]
    <3> DEFINE X == {100 - s[d] : d \in D}
    <3>1. X \in SUBSET Nat /\ X # {}
      <4>1. \A d \in D : 100 - s[d] \in Nat
        BY <2>1
      <4>2. X \subseteq Nat
        BY <4>1
      <4>3. PICK d \in D : TRUE
        BY <2>2
      <4>4. 100 - s[d] \in X
        OBVIOUS
      <4> HIDE DEF X
      <4> QED BY <4>2, <4>4
    <3> HIDE DEF X
    <3>2. PICK x \in X : \A y \in X : x <= y
      BY <3>1, Least
    <3>3. PICK m \in D : x = 100 - s[m]
      BY <3>2 DEF X
    <3>4. \A d \in D : 100 - s[m] <= 100 - s[d]
      BY <3>2, <3>3 DEF X
    <3>5. \A d \in D : s[m] >= s[d]
      BY <2>1, <3>4
    <3> QED BY <3>5
  <2> DEFINE E == D \ {m}
  <2>4. E \in SUBSET (1..n) /\ Cardinality(E) = k
    <3>1. Cardinality(E) = (k + 1) - 1
      BY <2>1, FS_RemoveElement
    <3> QED BY <2>0, <3>1
  <2>5. PICK p : Ranks(p, E, k)
    <3> HIDE DEF Ranks, E
    <3> QED BY <2>0, <2>4
  <2> DEFINE r == [i \in At(k + 1) |-> IF i = n - k THEN m ELSE p[i]]
  <2>6. \A i \in At(k + 1) : i = n - k \/ (i \in At(k) /\ i > n - k /\ p[i] \in E)
    BY <2>0, <2>5
  <2>7. r \in [At(k + 1) -> D]
    BY <2>6
  <2>8. \A i, j \in At(k + 1) : i # j => r[i] # r[j]
    BY <2>5, <2>6
  <2>9. \A i, j \in At(k + 1) : i < j => s[r[i]] >= s[r[j]]
    <3> SUFFICES ASSUME NEW i \in At(k + 1), NEW j \in At(k + 1), i < j PROVE s[r[i]] >= s[r[j]]
      OBVIOUS
    <3>1. j # n - k /\ r[j] = p[j] /\ p[j] \in D /\ j \in At(k)
      BY <2>0, <2>6
    <3>2. CASE i = n - k
      BY <2>3, <3>1, <3>2
    <3>3. CASE i # n - k
      BY <2>5, <2>6, <3>1, <3>3
    <3> QED BY <3>2, <3>3
  <2> QED BY <2>7, <2>8, <2>9
<1> HIDE DEF Good
<1>4. Good = Nat
  <2>1. Good \in SUBSET Nat
    BY DEF Good
  <2> QED BY <1>2, <1>3, <2>1, Induction
<1>5. PICK p : Ranks(p, 1..n, n)
  <2>1. n <= n /\ (1..n) \in SUBSET (1..n)
    OBVIOUS
  <2>2. All(n)
    <3> HIDE DEF All
    <3> QED BY <1>4, <2>1 DEF Good
  <2> HIDE DEF Ranks
  <2> QED BY <1>1, <2>1, <2>2
<1>6. At(n) = 1..n
  OBVIOUS
<1> QED BY <1>5, <1>6

LEMMA RankingIs ==
  ASSUME NEW n \in Nat, NEW s \in [1..n -> Int], \A i \in 1..n : s[i] <= 100
  PROVE  LET p == Searches!Ranking(s)
         IN  /\ p \in [1..n -> 1..n]
             /\ \A i, j \in 1..n : i # j => p[i] # p[j]
             /\ \A x \in 1..n : \E i \in 1..n : p[i] = x
             /\ \A i, j \in 1..n : i < j => s[p[i]] >= s[p[j]]
<1> DEFINE Ranks(p) == /\ \A i, j \in 1..n : i # j => p[i] # p[j]
                       /\ \A i, j \in 1..n : i < j => s[p[i]] >= s[p[j]]
           p == Searches!Ranking(s)
<1>1. DOMAIN s = 1..n
  OBVIOUS
<1>2. p = CHOOSE f \in [1..n -> 1..n] : Ranks(f)
  BY <1>1 DEF Searches!Ranking
<1>3. \E f \in [1..n -> 1..n] : Ranks(f)
  BY RankingExists
<1> HIDE DEF Ranks, p
<1>4. p \in [1..n -> 1..n] /\ Ranks(p)
  BY <1>2, <1>3
<1>5. p \in Surjection(1..n, 1..n)
  <2>1. p \in Injection(1..n, 1..n)
    BY <1>4 DEF Ranks, Injection, IsInjective
  <2>2. IsFiniteSet(1..n)
    BY FS_Interval
  <2> QED BY <2>1, <2>2, FS_Injection
<1>6. \A x \in 1..n : \E i \in 1..n : p[i] = x
  BY <1>5 DEF Surjection
<1> QED BY <1>4, <1>6 DEF Ranks, p

\* r is the best k of hits.
Arranges(p, r, hits) ==
  /\ p \in [1..Len(hits) -> 1..Len(hits)]
  /\ \A i, j \in 1..Len(hits) : i # j => p[i] # p[j]
  /\ \A x \in 1..Len(hits) : \E i \in 1..Len(hits) : p[i] = x
  /\ \A i \in 1..Len(r) : r[i] = hits[p[i]]
  /\ \A i, j \in 1..Len(hits) : i < j => hits[p[i]].score >= hits[p[j]].score
Best(r, hits, k) == Len(r) = (IF k < Len(hits) THEN k ELSE Len(hits)) /\ \E p : Arranges(p, r, hits)

LEMMA FirstAre ==
  ASSUME NEW T, NEW s \in Seq(T), NEW k \in Nat
  PROVE  LET r == Searches!First(s, k)
         IN  /\ r \in Seq(T) /\ Len(r) = (IF k < Len(s) THEN k ELSE Len(s))
             /\ \A i \in 1..Len(r) : r[i] = s[i]
<1> DEFINE b == IF k < Len(s) THEN k ELSE Len(s)
<1>1. Len(s) \in Nat /\ b \in Nat /\ b <= Len(s) /\ \A i \in 1..b : s[i] \in T
  OBVIOUS
<1>2. Searches!First(s, k) = SubSeq(s, 1, b)
  BY DEF Searches!First
<1> HIDE DEF b
<1>3. /\ SubSeq(s, 1, b) \in Seq(T) /\ Len(SubSeq(s, 1, b)) = (IF 1 <= b THEN b - 1 + 1 ELSE 0)
      /\ \A i \in 1..(b - 1 + 1) : SubSeq(s, 1, b)[i] = s[1 + i - 1]
  BY <1>1, SubSeqProperties
<1>4. Len(SubSeq(s, 1, b)) = b /\ \A i \in 1..b : SubSeq(s, 1, b)[i] = s[i]
  BY <1>1, <1>3
<1> QED BY <1>2, <1>3, <1>4 DEF b

LEMMA BestAre ==
  ASSUME NEW T, NEW hits \in Seq(T), \A i \in DOMAIN hits : hits[i].score \in Int /\ hits[i].score <= 100, NEW k \in Nat
  PROVE  LET r == Searches!First(Searches!Sorted(hits), k)
         IN  r \in Seq(T) /\ Best(r, hits, k)
<1> DEFINE n == Len(hits)
           s == Searches!Scores(hits)
           p == Searches!Ranking(s)
           w == Searches!Sorted(hits)
           r == Searches!First(w, k)
<1>1. n \in Nat /\ DOMAIN hits = 1..n
  OBVIOUS
<1>2. s = [i \in 1..n |-> hits[i].score]
  BY <1>1 DEF Searches!Scores
<1>3. s \in [1..n -> Int] /\ \A i \in 1..n : s[i] <= 100 /\ s[i] = hits[i].score
  BY <1>1, <1>2
<1>4. w = [i \in 1..n |-> hits[p[i]]]
  BY <1>1 DEF Searches!Sorted
<1> HIDE DEF s
<1>5. /\ p \in [1..n -> 1..n] /\ \A i, j \in 1..n : i # j => p[i] # p[j]
      /\ \A x \in 1..n : \E i \in 1..n : p[i] = x
      /\ \A i, j \in 1..n : i < j => s[p[i]] >= s[p[j]]
  BY <1>1, <1>3, RankingIs
<1> HIDE DEF p, w
<1>6. w \in Seq(T) /\ Len(w) = n /\ \A i \in 1..n : w[i] = hits[p[i]]
  <2>1. \A i \in 1..n : hits[p[i]] \in T
    BY <1>1, <1>5
  <2>2. w \in [1..n -> T]
    BY <1>4, <2>1
  <2> QED BY <1>1, <1>4, <2>2
<1>7. r \in Seq(T) /\ Len(r) = (IF k < n THEN k ELSE n) /\ \A i \in 1..Len(r) : r[i] = w[i]
  BY <1>6, FirstAre
<1> HIDE DEF r
<1>8. \A i \in 1..Len(r) : r[i] = hits[p[i]]
  BY <1>1, <1>6, <1>7
<1>9. \A i, j \in 1..n : i < j => hits[p[i]].score >= hits[p[j]].score
  BY <1>3, <1>5
<1>10. Best(r, hits, k)
  <2>1. Arranges(p, r, hits)
    BY <1>5, <1>8, <1>9 DEF Arranges
  <2> QED BY <1>7, <2>1 DEF Best
<1> QED BY <1>7, <1>10 DEF r, w

-----------------------------------------------------------------------------
(* The documents and the index.                                            *)

\* While nothing drifted the vectors are those of the documents, and of the one
\* that a thread has still to put there.
InStep ==
  /\ \A t, u \in Pending : t = u
  /\ Len(index) = Len(found) + (IF Pending = {} THEN 0 ELSE 1)
  /\ \A i \in DOMAIN found : found[i].emb = index[i]
  /\ \A t \in Pending : indexing[t].emb = index[Len(index)]

RankInv ==
  /\ \A i \in DOMAIN found : found[i].id <= adds
  /\ \A i, j \in DOMAIN found : found[i].id = found[j].id => i = j
  /\ \A t \in Pending : indexing[t].id <= adds /\ \A i \in DOMAIN found : found[i].id # indexing[t].id
  /\ \A t, u \in Pending : indexing[t].id = indexing[u].id => t = u
  /\ ~drifted => InStep

LEMMA RankStarts == Searches!Init => RankInv
<1> SUFFICES ASSUME Searches!Init PROVE RankInv
  OBVIOUS
<1>1. Pending = {} /\ found = <<>> /\ index = <<>>
  BY DEF Pending, Searches!Init
<1>2. DOMAIN found = {} /\ Len(found) = 0 /\ Len(index) = 0
  BY <1>1
<1> QED BY <1>1, <1>2 DEF RankInv, InStep

LEMMA RankIndexAdd ==
  ASSUME SearchInv, RankInv, NEW t \in Adders, Searches!IndexAdd(t)
  PROVE  RankInv'
<1>1. PICK e \in Embeddings, g \in Tags :
        /\ index' = Append(index, e)
        /\ indexing' = [indexing EXCEPT ![t] = [id |-> adds', emb |-> e, tag |-> g]]
  BY DEF Searches!IndexAdd
<1>2. /\ adds' = adds + 1 /\ UNCHANGED <<found, count>> /\ indexing[t] = Nobody /\ t \notin Pending
      /\ adds \in Nat /\ index \in Seq(Embeddings) /\ found \in Seq(Found) /\ indexing \in [Adders -> Found \cup {Nobody}]
  BY DEF Searches!IndexAdd, SearchInv, SearchTypes, Pending
<1>3. Pending' \subseteq Pending \cup {t} /\ \A u \in Pending : indexing'[u] = indexing[u] /\ u \in Adders /\ indexing[u] \in Found
  BY <1>1, <1>2 DEF Pending
<1>4. indexing'[t].id = adds + 1 /\ indexing'[t].emb = e
  BY <1>1, <1>2
<1>5. \A i \in DOMAIN found : found[i].id \in Nat
  <2>1. \A i \in DOMAIN found : found[i] \in Found
    BY <1>2
  <2> QED BY <2>1 DEF Found
<1>6. \A u \in Pending : indexing[u].id \in Nat
  BY <1>3 DEF Found
<1>7. /\ \A i \in DOMAIN found' : found'[i].id <= adds'
      /\ \A i, j \in DOMAIN found' : found'[i].id = found'[j].id => i = j
  BY <1>2, <1>5 DEF RankInv
<1>8. ASSUME NEW u \in Pending'
      PROVE  indexing'[u].id <= adds' /\ \A i \in DOMAIN found' : found'[i].id # indexing'[u].id
  <2>1. CASE u = t
    BY <1>2, <1>4, <1>5, <2>1 DEF RankInv
  <2>2. CASE u # t
    BY <1>2, <1>3, <1>6, <1>8, <2>2 DEF RankInv
  <2> QED BY <2>1, <2>2
<1>9. \A u, v \in Pending' : indexing'[u].id = indexing'[v].id => u = v
  <2> SUFFICES ASSUME NEW u \in Pending', NEW v \in Pending', u # v PROVE indexing'[u].id # indexing'[v].id
    OBVIOUS
  <2>1. u \in Pending \cup {t} /\ v \in Pending \cup {t}
    BY <1>3
  <2>2. \A x \in Pending : indexing'[x].id \in Nat /\ indexing'[x].id <= adds
    BY <1>3, <1>6 DEF RankInv
  <2>3. CASE u \in Pending /\ v \in Pending
    BY <1>3, <2>3 DEF RankInv
  <2>4. CASE u = t \/ v = t
    BY <1>2, <1>4, <2>1, <2>2, <2>4
  <2> QED BY <2>1, <2>3, <2>4
<1>10. ~drifted' => InStep'
  <2> SUFFICES ASSUME ~drifted' PROVE InStep'
    OBVIOUS
  <2>1. ~drifted /\ Pending = {}
    <3>1. drifted' = (drifted \/ \E u \in Adders : indexing[u] # Nobody)
      BY DEF Searches!IndexAdd
    <3>2. ~drifted /\ \A u \in Adders : indexing[u] = Nobody
      BY <3>1, Zenon
    <3> QED BY <3>2 DEF Pending
  <2>2. Len(index) = Len(found) /\ \A i \in DOMAIN found : found[i].emb = index[i]
    BY <1>2, <2>1 DEF RankInv, InStep
  <2>3. Pending' \subseteq {t}
    BY <1>3, <2>1
  <2>4. t \in Pending'
    <3>1. Nobody \notin Found
      BY SearchAssumption DEF Found
    <3>2. indexing'[t] \in Found
      BY <1>1, <1>2 DEF Found
    <3> QED BY <3>1, <3>2 DEF Pending
  <2>5. Len(index') = Len(index) + 1 /\ index'[Len(index) + 1] = e /\ \A i \in 1..Len(index) : index'[i] = index[i]
    BY <1>1, <1>2
  <2>6. DOMAIN found = 1..Len(found) /\ Len(found) \in Nat
    BY <1>2
  <2> QED BY <1>2, <1>4, <2>2, <2>3, <2>4, <2>5, <2>6 DEF InStep
<1> QED BY <1>7, <1>8, <1>9, <1>10 DEF RankInv

LEMMA RankDocsAdd ==
  ASSUME SearchInv, RankInv, NEW t \in Adders, Searches!DocsAdd(t)
  PROVE  RankInv'
<1> DEFINE d == indexing[t]
           n == Len(found)
<1>1. /\ d # Nobody /\ found' = Append(found, d) /\ indexing' = [indexing EXCEPT ![t] = Nobody]
      /\ UNCHANGED <<index, adds, drifted>>
  BY DEF Searches!DocsAdd
<1>2. /\ found \in Seq(Found) /\ indexing \in [Adders -> Found \cup {Nobody}] /\ t \in Pending /\ n \in Nat
      /\ DOMAIN found = 1..n /\ Len(index) \in Nat
  BY <1>1 DEF SearchInv, SearchTypes, Pending
<1>3. Pending' = Pending \ {t} /\ \A u \in Pending' : indexing'[u] = indexing[u]
  BY <1>1, <1>2 DEF Pending
<1>4. d \in Found
  BY <1>1, <1>2
<1> HIDE DEF d
<1>5. Len(found') = n + 1 /\ DOMAIN found' = 1..(n + 1) /\ found'[n + 1] = d /\ \A i \in 1..n : found'[i] = found[i]
  BY <1>1, <1>2, <1>4
<1>6. \A i \in DOMAIN found' : i = n + 1 \/ i \in DOMAIN found
  BY <1>2, <1>5
<1>7. d.id <= adds /\ \A i \in DOMAIN found : found[i].id # d.id
  BY <1>2 DEF RankInv, d
<1>8. \A u \in Pending' : indexing'[u].id # d.id
  BY <1>2, <1>3 DEF RankInv, d
<1>9. /\ \A i \in DOMAIN found' : found'[i].id <= adds'
      /\ \A i, j \in DOMAIN found' : found'[i].id = found'[j].id => i = j
  BY <1>1, <1>2, <1>5, <1>6, <1>7 DEF RankInv
<1>10. \A u \in Pending' : indexing'[u].id <= adds' /\ \A i \in DOMAIN found' : found'[i].id # indexing'[u].id
  BY <1>1, <1>2, <1>3, <1>5, <1>6, <1>8 DEF RankInv
<1>11. \A u, v \in Pending' : indexing'[u].id = indexing'[v].id => u = v
  BY <1>3 DEF RankInv
<1>12. ~drifted' => InStep'
  <2> SUFFICES ASSUME ~drifted' PROVE InStep'
    OBVIOUS
  <2>1. InStep
    BY <1>1 DEF RankInv
  <2>2. Pending' = {}
    BY <1>2, <1>3, <2>1 DEF InStep
  <2>3. Len(index) = n + 1 /\ (\A i \in DOMAIN found : found[i].emb = index[i]) /\ d.emb = index[Len(index)]
    BY <1>2, <2>1 DEF InStep, d
  <2> QED BY <1>1, <1>2, <1>5, <1>6, <2>2, <2>3 DEF InStep
<1> QED BY <1>9, <1>10, <1>11, <1>12 DEF RankInv

LEMMA RankDeletes ==
  ASSUME SearchInv, RankInv, NEW i, Searches!DeleteDocuments(i)
  PROVE  RankInv'
<1> DEFINE S == {d \in Searches!Range(found) : d.id # i}
<1>1. /\ found' = Searches!Only(found, S) /\ drifted' = TRUE
      /\ UNCHANGED <<index, indexing, adds>>
  BY DEF Searches!DeleteDocuments
<1> HIDE DEF S
<1>2. found' = Sifted(found, S)
  BY <1>1 DEF Searches!Only, Sifted
<1>3. found \in Seq(Found)
  BY DEF SearchInv, SearchTypes
<1>4. /\ \A j \in DOMAIN found' : \E a \in DOMAIN found : found'[j] = found[a]
      /\ \A j, k \in DOMAIN found' : j < k => \E a, b \in DOMAIN found : a < b /\ found'[j] = found[a] /\ found'[k] = found[b]
      /\ found' \in Seq(Found)
  BY <1>2, <1>3, SiftedOrder
<1>5. \A j, k \in DOMAIN found' : found'[j].id = found'[k].id => j = k
  <2> SUFFICES ASSUME NEW j \in DOMAIN found', NEW k \in DOMAIN found', j < k PROVE found'[j].id # found'[k].id
    BY <1>4
  <2>1. PICK a \in DOMAIN found, b \in DOMAIN found : a < b /\ found'[j] = found[a] /\ found'[k] = found[b]
    BY <1>4
  <2>2. a # b
    BY <1>3, <2>1
  <2> QED BY <2>1, <2>2 DEF RankInv
<1>6. Pending' = Pending
  BY <1>1 DEF Pending
<1> QED BY <1>1, <1>4, <1>5, <1>6 DEF RankInv

LEMMA RankStep == ASSUME SearchInv, RankInv, Searches!Next PROVE RankInv'
BY RankIndexAdd, RankDocsAdd, RankDeletes DEF Searches!Next

-----------------------------------------------------------------------------
(* The searches.                                                           *)

Hits == [doc : Found, score : Int]

LEMMA Scoring ==
  ASSUME NEW q \in Embeddings, NEW e \in Embeddings
  PROVE  Searches!score(q, e) \in Int /\ Searches!score(q, e) <= 100
<1>1. q \in Int /\ e \in Int
  BY SearchAssumption
<1> QED BY <1>1 DEF Searches!score

\* What a search over found may return.
Proper(hits) ==
  /\ hits \in Seq(Hits)
  /\ \A i \in DOMAIN hits : hits[i].doc \in Searches!Range(found)
  /\ \A i, j \in DOMAIN hits : i < j => hits[i].score >= hits[j].score /\ hits[i].doc.id # hits[j].doc.id

LEMMA ProperRanked == ASSUME NEW hits, Proper(hits) PROVE Searches!Ranked(hits)
BY DEF Proper, Searches!Ranked, Searches!Docs

\* The documents that match, in their order.
Matching(filter) == {d \in Searches!Range(found) : Searches!Matches(d, filter)}
Scored(s, q) == [i \in DOMAIN s |-> Searches!Hit(s[i], Searches!score(q, s[i].emb))]

LEMMA MatchingAre ==
  ASSUME SearchInv, RankInv, NEW filter
  PROVE  LET s == Sifted(found, Matching(filter))
         IN  /\ s \in Seq(Found) /\ IsFiniteSet(Matching(filter)) /\ Cardinality(Matching(filter)) = Len(s)
             /\ \A i \in DOMAIN s : s[i] \in Matching(filter)
             /\ \A d \in Matching(filter) : \E i \in DOMAIN s : s[i] = d
             /\ \A i, j \in DOMAIN s : i # j => s[i].id # s[j].id
<1> DEFINE M == Matching(filter)
           s == Sifted(found, M)
<1>1. found \in Seq(Found)
  BY DEF SearchInv, SearchTypes
<1>2. \A d \in M : \E a \in DOMAIN found : found[a] = d
  BY DEF Matching, Searches!Range
<1> HIDE DEF M
<1>3. /\ s \in Seq(Found) /\ \A i \in DOMAIN s : s[i] \in M
      /\ \A a \in DOMAIN found : found[a] \in M => \E i \in DOMAIN s : s[i] = found[a]
      /\ \A i, j \in DOMAIN s : i < j => \E a, b \in DOMAIN found : a < b /\ s[i] = found[a] /\ s[j] = found[b]
  BY <1>1, SiftedOrder
<1> HIDE DEF s
<1>4. \A d \in M : \E i \in DOMAIN s : s[i] = d
  BY <1>2, <1>3
<1>5. \A i, j \in DOMAIN s : i < j => s[i].id # s[j].id
  <2> TAKE i, j \in DOMAIN s
  <2> HAVE i < j
  <2>1. PICK a \in DOMAIN found, b \in DOMAIN found : a < b /\ s[i] = found[a] /\ s[j] = found[b]
    BY <1>3
  <2>2. a # b
    BY <1>1, <2>1
  <2> QED BY <2>1, <2>2 DEF RankInv
<1>6. DOMAIN s = 1..Len(s) /\ Len(s) \in Nat
  BY <1>3
<1>7. \A i, j \in DOMAIN s : i # j => s[i].id # s[j].id
  BY <1>5, <1>6
<1>8. s \in Bijection(1..Len(s), M)
  <2>1. s \in [1..Len(s) -> M]
    BY <1>3, <1>6
  <2> QED BY <1>4, <1>6, <1>7, <2>1 DEF Bijection, Injection, Surjection, IsInjective
<1>9. ExistsBijection(1..Len(s), M)
  BY <1>8 DEF ExistsBijection
<1>10. IsFiniteSet(M) /\ Cardinality(M) = Len(s)
  BY <1>6, <1>9, FS_NatBijection, FS_CountingElements
<1> QED BY <1>3, <1>4, <1>7, <1>10 DEF M, s

LEMMA PlainIs ==
  ASSUME SearchInv, RankInv, NEW q \in Embeddings, NEW k \in Nat, NEW filter
  PROVE  LET plain == Searches!SearchInMemory(q, k, filter)
             M == Matching(filter)
         IN  /\ Proper(plain) /\ Searches!Honest(q, plain) /\ Searches!Docs(plain) \subseteq M
             /\ Len(plain) = (IF k < Cardinality(M) THEN k ELSE Cardinality(M))
             /\ \A d \in M \ Searches!Docs(plain), i \in DOMAIN plain : Searches!score(q, d.emb) <= plain[i].score
<1> DEFINE M == Matching(filter)
           s == Sifted(found, M)
           h == Scored(s, q)
           n == Len(s)
           plain == Searches!SearchInMemory(q, k, filter)
           best == Searches!First(Searches!Sorted(h), k)
<1>1. /\ s \in Seq(Found) /\ IsFiniteSet(M) /\ Cardinality(M) = n
      /\ \A i \in DOMAIN s : s[i] \in M
      /\ \A d \in M : \E i \in DOMAIN s : s[i] = d
      /\ \A i, j \in DOMAIN s : i # j => s[i].id # s[j].id
  BY MatchingAre
<1>2. plain = IF k <= 0 THEN <<>> ELSE best
  BY DEF Searches!SearchInMemory, Matching, Scored, Searches!Only, Sifted
<1>3. M \subseteq Searches!Range(found)
  BY DEF Matching
<1> HIDE DEF M, s
<1>4. n \in Nat /\ DOMAIN s = 1..n /\ \A i \in 1..n : s[i] \in Found /\ s[i].emb \in Embeddings
  <2>1. \A i \in 1..Len(s) : s[i] \in Found
    BY <1>1
  <2> QED BY <1>1, <2>1 DEF Found
<1>5. h = [i \in 1..n |-> [doc |-> s[i], score |-> Searches!score(q, s[i].emb)]]
  BY <1>4 DEF Scored, Searches!Hit
<1>6. \A i \in 1..n : Searches!score(q, s[i].emb) \in Int /\ Searches!score(q, s[i].emb) <= 100
  BY <1>4, Scoring
<1>7. /\ h \in Seq(Hits) /\ Len(h) = n
      /\ \A i \in 1..n : h[i].doc = s[i] /\ h[i].score = Searches!score(q, s[i].emb) /\ h[i].score \in Int /\ h[i].score <= 100
  <2>1. h \in [1..n -> Hits]
    BY <1>4, <1>5, <1>6 DEF Hits
  <2>2. \A i \in 1..n : h[i].doc = s[i] /\ h[i].score = Searches!score(q, s[i].emb)
    BY <1>5
  <2> HIDE DEF h
  <2>3. h \in Seq(Hits) /\ Len(h) = n
    BY <1>4, <1>5, <2>1
  <2> QED BY <1>6, <2>2, <2>3
<1> HIDE DEF h
<1>8. CASE k = 0
  <2>1. plain = <<>>
    BY <1>2, <1>8
  <2>2. Len(plain) = 0 /\ DOMAIN plain = {} /\ plain \in Seq(Hits)
    BY <2>1
  <2> HIDE DEF plain
  <2>3. Proper(plain) /\ Searches!Honest(q, plain) /\ Searches!Docs(plain) = {}
    BY <2>2 DEF Proper, Searches!Honest, Searches!Docs
  <2> QED BY <1>1, <1>4, <1>8, <2>2, <2>3 DEF plain, M
<1>9. CASE k # 0
  <2>1. best \in Seq(Hits) /\ Best(best, h, k) /\ plain = best
    BY <1>2, <1>7, <1>9, BestAre
  <2> HIDE DEF best, plain
  <2> DEFINE l == Len(plain)
  <2>2. PICK p : Arranges(p, plain, h)
    BY <2>1 DEF Best
  <2>3. /\ p \in [1..n -> 1..n] /\ \A i, j \in 1..n : i # j => p[i] # p[j]
        /\ \A x \in 1..n : \E i \in 1..n : p[i] = x
        /\ \A i \in 1..l : plain[i] = h[p[i]]
        /\ \A i, j \in 1..n : i < j => h[p[i]].score >= h[p[j]].score
    BY <1>7, <2>2 DEF Arranges
  <2>4. l = (IF k < n THEN k ELSE n) /\ l \in Nat /\ l <= n /\ DOMAIN plain = 1..l
    BY <1>4, <1>7, <2>1 DEF Best
  <2>5. \A i \in 1..l : p[i] \in 1..n /\ plain[i].doc = s[p[i]] /\ plain[i].score = Searches!score(q, s[p[i]].emb)
    <3> HIDE DEF l
    <3>1. \A i \in 1..l : i \in 1..n
      <4> HIDE DEF n
      <4> QED BY <1>4, <2>4
    <3>2. \A i \in 1..n : p[i] \in 1..n
      BY <2>3
    <3> QED BY <1>7, <2>3, <3>1, <3>2
  <2>6. \A i \in 1..l : plain[i].doc \in M
    BY <1>1, <1>4, <2>5
  <2>7. Proper(plain)
    <3>1. \A i, j \in 1..l : i < j => plain[i].score >= plain[j].score
      <4>1. \A i \in 1..l : i \in 1..n
        BY <1>4, <2>4
      <4> HIDE DEF l
      <4> QED BY <2>3, <4>1
    <3>2. \A i, j \in 1..l : i < j => plain[i].doc.id # plain[j].doc.id
      <4> SUFFICES ASSUME NEW i \in 1..l, NEW j \in 1..l, i < j PROVE plain[i].doc.id # plain[j].doc.id
        OBVIOUS
      <4>1. i \in 1..n /\ j \in 1..n /\ i # j
        BY <1>4, <2>4
      <4>2. p[i] \in DOMAIN s /\ p[j] \in DOMAIN s /\ p[i] # p[j]
        BY <1>4, <2>3, <4>1
      <4>3. s[p[i]].id # s[p[j]].id
        BY <1>1, <4>2
      <4> QED BY <2>5, <4>3
    <3> QED BY <1>3, <2>1, <2>4, <2>6, <3>1, <3>2 DEF Proper
  <2>8. Searches!Honest(q, plain)
    BY <2>4, <2>5 DEF Searches!Honest
  <2>9. Searches!Docs(plain) \subseteq M
    BY <2>4, <2>6 DEF Searches!Docs
  <2>10. ASSUME NEW d \in M \ Searches!Docs(plain), NEW i \in DOMAIN plain
         PROVE  Searches!score(q, d.emb) <= plain[i].score
    <3>1. PICK x \in 1..n : s[x] = d
      BY <1>1, <1>4
    <3>2. PICK j \in 1..n : p[j] = x
      BY <2>3
    <3>3. j \notin 1..l
      BY <2>4, <2>5, <3>1, <3>2 DEF Searches!Docs
    <3>4. i < j /\ i \in 1..n
      BY <2>4, <3>3
    <3>5. h[p[i]].score >= h[p[j]].score
      BY <2>3, <3>4
    <3>6. plain[i].score = h[p[i]].score /\ h[p[j]].score = Searches!score(q, d.emb) /\ plain[i].score \in Int /\ Searches!score(q, d.emb) \in Int
      BY <1>6, <1>7, <2>3, <2>4, <3>1, <3>2, <3>4
    <3> QED BY <3>5, <3>6
  <2> QED BY <1>1, <2>4, <2>7, <2>8, <2>9, <2>10 DEF M, plain
<1> QED BY <1>8, <1>9

\* What has the same scores is sorted alike.
LEMMA SameScores ==
  ASSUME NEW T, NEW g \in Seq(T), NEW U, NEW h \in Seq(U), Searches!Scores(g) = Searches!Scores(h), NEW k \in Nat,
         \A i \in DOMAIN g : g[i].score \in Int /\ g[i].score <= 100
  PROVE  Searches!Scores(Searches!First(Searches!Sorted(g), k)) = Searches!Scores(Searches!First(Searches!Sorted(h), k))
<1> DEFINE s == Searches!Scores(g)
           n == Len(g)
           p == Searches!Ranking(s)
           x == Searches!Sorted(g)
           y == Searches!Sorted(h)
<1>1. n \in Nat /\ DOMAIN g = 1..n /\ s = [i \in 1..n |-> g[i].score]
  BY DEF Searches!Scores
<1>2. DOMAIN s = 1..n
  BY <1>1
<1>3. Len(h) \in Nat /\ DOMAIN h = 1..Len(h) /\ s = [i \in 1..Len(h) |-> h[i].score]
  BY DEF Searches!Scores
<1> HIDE DEF s
<1>4. Len(h) = n /\ DOMAIN h = 1..n /\ \A i \in 1..n : g[i].score = s[i] /\ h[i].score = s[i]
  <2>1. 1..Len(h) = 1..n
    BY <1>2, <1>3
  <2>2. Len(h) = n
    <3> DEFINE e == Len(h)
    <3>1. e \in Nat /\ n \in Nat /\ 1..e = 1..n
      BY <1>1, <1>3, <2>1
    <3> HIDE DEF e, n
    <3>2. \A i \in Nat : i \in 1..e <=> i \in 1..n
      BY <3>1
    <3>3. e \in 1..e \/ e = 0
      BY <3>1
    <3>4. n \in 1..n \/ n = 0
      BY <3>1
    <3>5. e <= n /\ n <= e
      BY <3>1, <3>2, <3>3, <3>4
    <3> QED BY <3>1, <3>5 DEF e
  <2> QED BY <1>1, <1>3, <2>2
<1>5. x = [i \in 1..n |-> g[p[i]]] /\ y = [i \in 1..n |-> h[p[i]]]
  BY <1>1, <1>4 DEF Searches!Sorted, s
<1>6. p \in [1..n -> 1..n]
  <2>1. s \in [1..n -> Int] /\ \A i \in 1..n : s[i] <= 100
    BY <1>1, <1>2, <1>4
  <2> QED BY <1>1, <2>1, RankingIs
<1> HIDE DEF p, x, y
<1>7. x \in Seq(T) /\ Len(x) = n /\ y \in Seq(U) /\ Len(y) = n /\ \A i \in 1..n : x[i].score = y[i].score
  <2>1. x \in [1..n -> T] /\ y \in [1..n -> U]
    BY <1>1, <1>4, <1>5, <1>6
  <2>2. \A i \in 1..n : x[i].score = y[i].score
    <3>1. \A i \in 1..n : p[i] \in 1..n /\ x[i] = g[p[i]] /\ y[i] = h[p[i]]
      BY <1>5, <1>6
    <3>2. \A i \in 1..n : g[i].score = h[i].score
      BY <1>4
    <3> TAKE i \in 1..n
    <3> DEFINE z == p[i]
    <3>3. z \in 1..n /\ x[i] = g[z] /\ y[i] = h[z]
      BY <3>1
    <3> HIDE DEF z, n
    <3> QED BY <3>2, <3>3
  <2>3. n \in Nat
    BY <1>1
  <2> HIDE DEF n
  <2>4. x \in Seq(T) /\ Len(x) = n
    BY <2>1, <2>3
  <2>5. y \in Seq(U) /\ Len(y) = n
    BY <2>1, <2>3
  <2> QED BY <2>2, <2>4, <2>5
<1> DEFINE a == Searches!First(x, k)
           b == Searches!First(y, k)
<1>8. a \in Seq(T) /\ Len(a) = (IF k < n THEN k ELSE n) /\ \A i \in 1..Len(a) : a[i] = x[i]
  BY <1>7, FirstAre
<1>9. b \in Seq(U) /\ Len(b) = (IF k < n THEN k ELSE n) /\ \A i \in 1..Len(b) : b[i] = y[i]
  BY <1>7, FirstAre
<1> HIDE DEF a, b
<1>10. DOMAIN a = 1..Len(a) /\ DOMAIN b = 1..Len(a) /\ \A i \in 1..Len(a) : i \in 1..n
  BY <1>1, <1>8, <1>9
<1>11. \A i \in 1..Len(a) : a[i].score = b[i].score
  BY <1>7, <1>8, <1>9, <1>10
<1>12. Searches!Scores(a) = Searches!Scores(b)
  BY <1>10, <1>11 DEF Searches!Scores
<1> QED BY <1>12 DEF a, b, x, y

LEMMA FaissIs ==
  ASSUME SearchInv, RankInv, NEW q \in Embeddings, NEW k \in Nat, NEW filter
  PROVE  LET faiss == Searches!SearchFaiss(q, k, filter)
             plain == Searches!SearchInMemory(q, k, filter)
         IN  /\ Proper(faiss) /\ Searches!Docs(faiss) \subseteq Matching(filter) /\ Len(faiss) <= k
             /\ ~drifted => Searches!Honest(q, faiss)
             /\ ~drifted /\ Pending = {} /\ filter = {} => Searches!Scores(faiss) = Searches!Scores(plain)
<1> DEFINE m == Len(index)
           h == [l \in DOMAIN index |-> [label |-> l, score |-> Searches!score(q, index[l])]]
           L == [label : Nat, score : Int]
           near == Searches!First(Searches!Sorted(h), k)
           Here == {x \in Searches!Range(near) : x.label \in DOMAIN found /\ Searches!Matches(found[x.label], filter)}
           kept == Sifted(near, Here)
           hits == [i \in DOMAIN kept |-> Searches!Hit(found[kept[i].label], kept[i].score)]
           faiss == Searches!SearchFaiss(q, k, filter)
           plain == Searches!SearchInMemory(q, k, filter)
<1>1. faiss = IF k <= 0 THEN <<>> ELSE hits
  BY DEF Searches!SearchFaiss, Searches!Only, Sifted
<1>2. /\ index \in Seq(Embeddings) /\ found \in Seq(Found) /\ m \in Nat /\ DOMAIN index = 1..m
      /\ \A l \in 1..m : index[l] \in Embeddings
  BY DEF SearchInv, SearchTypes
<1>3. /\ h \in Seq(L) /\ Len(h) = m /\ DOMAIN h = 1..m
      /\ \A l \in 1..m : h[l].label = l /\ h[l].score = Searches!score(q, index[l]) /\ h[l].score \in Int /\ h[l].score <= 100
  <2>1. \A l \in 1..m : Searches!score(q, index[l]) \in Int /\ Searches!score(q, index[l]) <= 100
    BY <1>2, Scoring
  <2>2. h \in [1..m -> L]
    BY <1>2, <2>1
  <2>3. \A l \in 1..m : h[l].label = l /\ h[l].score = Searches!score(q, index[l])
    BY <1>2
  <2> HIDE DEF h, L
  <2>4. h \in Seq(L) /\ Len(h) = m /\ DOMAIN h = 1..m
    BY <1>2, <2>2
  <2> QED BY <2>1, <2>3, <2>4
<1> HIDE DEF L
<1>4. near \in Seq(L) /\ Best(near, h, k)
  <2> HIDE DEF h
  <2> QED BY <1>3, BestAre
<1>5. Len(near) <= k /\ Len(near) \in Nat /\ Len(near) <= m /\ DOMAIN near = 1..Len(near)
      /\ Len(near) = IF k < m THEN k ELSE m
  <2> HIDE DEF h, near
  <2> QED BY <1>2, <1>3, <1>4 DEF Best
<1>6. \A i, j \in DOMAIN near : i < j => near[i].score >= near[j].score /\ near[i].label # near[j].label
  <2> HIDE DEF h, near
  <2>1. PICK p : Arranges(p, near, h)
    BY <1>4 DEF Best
  <2>2. /\ p \in [1..m -> 1..m] /\ \A i, j \in 1..m : i # j => p[i] # p[j]
        /\ \A i \in 1..Len(near) : near[i] = h[p[i]]
        /\ \A i, j \in 1..m : i < j => h[p[i]].score >= h[p[j]].score
    BY <1>3, <2>1 DEF Arranges
  <2> SUFFICES ASSUME NEW i \in DOMAIN near, NEW j \in DOMAIN near, i < j
               PROVE  near[i].score >= near[j].score /\ near[i].label # near[j].label
    OBVIOUS
  <2>3. i \in 1..m /\ j \in 1..m /\ i # j /\ i \in 1..Len(near) /\ j \in 1..Len(near)
    BY <1>2, <1>5
  <2>4. near[i] = h[p[i]] /\ near[j] = h[p[j]] /\ p[i] \in 1..m /\ p[j] \in 1..m /\ p[i] # p[j]
    BY <2>2, <2>3
  <2> QED BY <1>3, <2>2, <2>3, <2>4
<1>7. \A i \in DOMAIN near : near[i].label \in 1..m /\ near[i].score = Searches!score(q, index[near[i].label])
  <2> HIDE DEF h, near
  <2>1. PICK p : Arranges(p, near, h)
    BY <1>4 DEF Best
  <2>2. p \in [1..m -> 1..m] /\ \A i \in 1..Len(near) : near[i] = h[p[i]]
    BY <1>3, <2>1 DEF Arranges
  <2> TAKE i \in DOMAIN near
  <2>3. i \in 1..m /\ i \in 1..Len(near)
    BY <1>2, <1>5
  <2>4. near[i] = h[p[i]] /\ p[i] \in 1..m
    BY <2>2, <2>3
  <2> QED BY <1>3, <2>4
<1>8. \A x \in Here : x.label \in DOMAIN found /\ Searches!Matches(found[x.label], filter)
  OBVIOUS
<1> DEFINE NearIsIndex == filter = {} /\ m = Len(found) => \A i \in DOMAIN near : near[i] \in Here
<1>9. NearIsIndex
  <2> SUFFICES ASSUME filter = {}, m = Len(found), NEW i \in DOMAIN near PROVE near[i] \in Here
    OBVIOUS
  <2>1. near[i] \in Searches!Range(near)
    BY DEF Searches!Range
  <2>2. near[i].label \in DOMAIN found
    <3> HIDE DEF near
    <3> QED BY <1>2, <1>7
  <2>3. Searches!Matches(found[near[i].label], filter)
    BY DEF Searches!Matches
  <2> QED BY <2>1, <2>2, <2>3
<1> HIDE DEF near, Here
<1>10. /\ kept \in Seq(L) /\ \A i \in DOMAIN kept : kept[i] \in Here /\ \E a \in DOMAIN near : kept[i] = near[a]
       /\ \A i, j \in DOMAIN kept : i < j => \E a, b \in DOMAIN near : a < b /\ kept[i] = near[a] /\ kept[j] = near[b]
  BY <1>4, SiftedOrder
<1>11. Len(kept) <= Len(near)
  BY <1>4, SiftedShorter
<1>12. (\A i \in DOMAIN near : near[i] \in Here) => kept = near
  BY <1>4, SiftedAll
<1> HIDE DEF kept
<1> DEFINE c == Len(kept)
<1>13. c \in Nat /\ DOMAIN kept = 1..c /\ c <= k
  BY <1>5, <1>10, <1>11
<1>14. \A i \in 1..c : kept[i].label \in DOMAIN found /\ Searches!Matches(found[kept[i].label], filter)
  BY <1>8, <1>10, <1>13
<1>15. \A i \in 1..c : kept[i].label \in 1..m /\ kept[i].score \in Int /\ kept[i].score = Searches!score(q, index[kept[i].label])
  <2> TAKE i \in 1..c
  <2>1. PICK a \in DOMAIN near : kept[i] = near[a]
    BY <1>10, <1>13
  <2> QED BY <1>2, <1>7, <2>1, Scoring
<1>16. /\ hits \in Seq(Hits) /\ Len(hits) = c /\ DOMAIN hits = 1..c
       /\ \A i \in 1..c : hits[i].doc = found[kept[i].label] /\ hits[i].score = kept[i].score
  <2>1. hits = [i \in 1..c |-> [doc |-> found[kept[i].label], score |-> kept[i].score]]
    BY <1>13 DEF Searches!Hit
  <2>2. \A i \in 1..c : found[kept[i].label] \in Found
    BY <1>2, <1>14
  <2> HIDE DEF hits, c
  <2>3. hits \in [1..c -> Hits]
    BY <1>15, <2>1, <2>2 DEF Hits
  <2>4. \A i \in 1..c : hits[i].doc = found[kept[i].label] /\ hits[i].score = kept[i].score
    BY <2>1
  <2>5. hits \in Seq(Hits) /\ Len(hits) = c /\ DOMAIN hits = 1..c
    BY <1>13, <2>1, <2>3
  <2> QED BY <2>4, <2>5
<1> HIDE DEF hits
<1>17. ASSUME NEW i \in 1..c, NEW j \in 1..c, i < j
       PROVE  hits[i].score >= hits[j].score /\ hits[i].doc.id # hits[j].doc.id
  <2>1. PICK a \in DOMAIN near, b \in DOMAIN near : a < b /\ kept[i] = near[a] /\ kept[j] = near[b]
    BY <1>10, <1>13, <1>17
  <2>2. kept[i].score >= kept[j].score /\ kept[i].label # kept[j].label
    BY <1>6, <2>1
  <2>3. found[kept[i].label].id # found[kept[j].label].id
    BY <1>14, <2>2 DEF RankInv
  <2> QED BY <1>16, <2>2, <2>3
<1>18. Proper(hits) /\ Searches!Docs(hits) \subseteq Matching(filter)
  <2>1. \A i \in 1..c : hits[i].doc \in Searches!Range(found) /\ hits[i].doc \in Matching(filter)
    BY <1>14, <1>16 DEF Searches!Range, Matching
  <2>2. Proper(hits)
    BY <1>16, <1>17, <2>1 DEF Proper
  <2>3. Searches!Docs(hits) \subseteq Matching(filter)
    BY <1>16, <2>1 DEF Searches!Docs
  <2> QED BY <2>2, <2>3
<1>19. ~drifted => Searches!Honest(q, hits)
  <2> SUFFICES ASSUME ~drifted, NEW i \in 1..c PROVE hits[i].score = Searches!score(q, hits[i].doc.emb)
    BY <1>16 DEF Searches!Honest
  <2>1. found[kept[i].label].emb = index[kept[i].label]
    BY <1>14 DEF RankInv, InStep
  <2> QED BY <1>15, <1>16, <2>1
<1>20. CASE k = 0
  <2>1. faiss = <<>> /\ plain = <<>>
    BY <1>1, <1>20 DEF Searches!SearchInMemory
  <2>2. Len(faiss) = 0 /\ DOMAIN faiss = {} /\ faiss \in Seq(Hits)
    BY <2>1
  <2> HIDE DEF faiss, plain
  <2>3. Proper(faiss) /\ Searches!Honest(q, faiss) /\ Searches!Docs(faiss) = {}
    BY <2>2 DEF Proper, Searches!Honest, Searches!Docs
  <2> QED BY <1>20, <2>1, <2>2, <2>3 DEF faiss, plain
<1>21. CASE k # 0
  <2>1. faiss = hits
    BY <1>1, <1>21
  <2>2. ASSUME ~drifted, Pending = {}, filter = {} PROVE Searches!Scores(hits) = Searches!Scores(plain)
    <3>1. m = Len(found) /\ \A i \in DOMAIN found : found[i].emb = index[i]
      BY <1>2, <2>2 DEF RankInv, InStep
    <3>2. kept = near
      BY <1>9, <1>12, <2>2, <3>1
    <3> DEFINE M == Matching(filter)
               s == Sifted(found, M)
               g == Scored(s, q)
    <3>3. s = found
      <4>1. \A i \in DOMAIN found : found[i] \in M
        BY <2>2 DEF Matching, Searches!Range, Searches!Matches
      <4> HIDE DEF M
      <4> QED BY <1>2, <4>1, SiftedAll
    <3>4. plain = Searches!First(Searches!Sorted(g), k)
      BY <1>21 DEF Searches!SearchInMemory, Matching, Scored, Searches!Only, Sifted
    <3> HIDE DEF s, M
    <3>5. g = [i \in 1..m |-> [doc |-> found[i], score |-> Searches!score(q, index[i])]]
      <4>1. DOMAIN s = 1..m
        BY <1>2, <3>1, <3>3
      <4>2. \A i \in 1..m : Searches!Hit(s[i], Searches!score(q, s[i].emb)) = [doc |-> found[i], score |-> Searches!score(q, index[i])]
        BY <3>1, <3>3, <4>1 DEF Searches!Hit
      <4> QED BY <4>1, <4>2 DEF Scored
    <3> HIDE DEF g
    <3>6. Searches!Scores(g) = Searches!Scores(h)
      <4>1. Searches!Scores(g) = [i \in 1..m |-> Searches!score(q, index[i])]
        BY <3>5 DEF Searches!Scores
      <4>2. Searches!Scores(h) = [i \in 1..m |-> Searches!score(q, index[i])]
        BY <1>2 DEF Searches!Scores
      <4> QED BY <4>1, <4>2
    <3>7. \A i \in 1..m : g[i].score = h[i].score /\ DOMAIN g = 1..m /\ g[i] \in Hits
      <4>1. \A i \in 1..m : found[i] \in Found
        BY <1>2, <3>1
      <4>2. \A i \in 1..m : h[i].score = Searches!score(q, index[i]) /\ h[i].score \in Int
        BY <1>3
      <4> HIDE DEF h
      <4> QED BY <3>5, <4>1, <4>2 DEF Hits
    <3>8. Searches!Scores(plain) = Searches!Scores(near)
      <4>1. g \in [1..m -> Hits]
        BY <3>5, <3>7
      <4>2. g \in Seq(Hits)
        BY <1>2, <4>1
      <4>3. \A i \in DOMAIN g : g[i].score \in Int /\ g[i].score <= 100
        BY <1>3, <3>5, <3>7
      <4> HIDE DEF h, plain
      <4>4. h \in Seq(L)
        BY <1>3
      <4> QED BY <3>4, <3>6, <4>2, <4>3, <4>4, SameScores DEF near
    <3>9. Searches!Scores(hits) = Searches!Scores(kept)
      BY <1>13, <1>16 DEF Searches!Scores
    <3> QED BY <3>2, <3>8, <3>9
  <2> QED BY <1>13, <1>16, <1>18, <1>19, <2>1, <2>2
<1> QED BY <1>20, <1>21

LEMMA DocsApart ==
  ASSUME RankInv, NEW d \in Searches!Range(found), NEW e \in Searches!Range(found), d.id = e.id
  PROVE  d = e
<1>1. PICK i \in DOMAIN found, j \in DOMAIN found : d = found[i] /\ e = found[j]
  BY DEF Searches!Range
<1> QED BY <1>1 DEF RankInv

\* The best hit of each document.
LEMMA MergeIs ==
  ASSUME RankInv, NEW hits \in Seq(Hits),
         \A i \in DOMAIN hits : hits[i].doc \in Searches!Range(found) /\ hits[i].score <= 100
  PROVE  LET M == Searches!Merge(hits)
         IN  /\ M \subseteq Searches!Range(hits) /\ IsFiniteSet(M)
             /\ \A x \in M, j \in DOMAIN hits : hits[j].doc = x.doc => hits[j].score <= x.score
             /\ \A x, y \in M : x # y => x.doc.id # y.doc.id
             /\ \A j \in DOMAIN hits : \E x \in M : x.doc = hits[j].doc
<1> DEFINE M == Searches!Merge(hits)
<1>1. M = {h \in Searches!Range(hits) : \A j \in DOMAIN hits : hits[j].doc.id = h.doc.id => hits[j].score <= h.score}
  BY DEF Searches!Merge
<1> HIDE DEF M
<1>2. \A i \in DOMAIN hits : hits[i] \in Hits /\ hits[i].score \in Int
  <2>1. \A i \in DOMAIN hits : hits[i] \in Hits
    OBVIOUS
  <2> QED BY <2>1 DEF Hits
<1>3. ASSUME NEW x \in Searches!Range(hits) PROVE \E i \in DOMAIN hits : x = hits[i]
  BY DEF Searches!Range
<1>4. IsFiniteSet(M)
  <2>1. IsFiniteSet(1..Len(hits)) /\ hits \in Surjection(1..Len(hits), Searches!Range(hits))
    <3>1. Len(hits) \in Nat /\ DOMAIN hits = 1..Len(hits) /\ hits \in [1..Len(hits) -> Hits]
      OBVIOUS
    <3>2. Searches!Range(hits) = {hits[i] : i \in 1..Len(hits)}
      BY <3>1 DEF Searches!Range
    <3>3. hits \in [1..Len(hits) -> Searches!Range(hits)]
      BY <3>1, <3>2
    <3> QED BY <3>1, <3>2, <3>3, FS_Interval DEF Surjection
  <2>2. IsFiniteSet(Searches!Range(hits))
    BY <2>1, FS_Surjection
  <2> QED BY <1>1, <2>2, FS_Subset
<1>5. \A x \in M, j \in DOMAIN hits : hits[j].doc = x.doc => hits[j].score <= x.score
  BY <1>1
<1>6. ASSUME NEW x \in M, NEW y \in M, x.doc.id = y.doc.id PROVE x = y
  <2>1. PICK i \in DOMAIN hits, j \in DOMAIN hits : x = hits[i] /\ y = hits[j]
    BY <1>1, <1>3
  <2>2. x.doc = y.doc
    BY <1>6, <2>1, DocsApart
  <2>3. x.score <= y.score /\ y.score <= x.score
    BY <1>1, <1>6, <2>1
  <2>4. x.score = y.score
    BY <1>2, <2>1, <2>3
  <2>5. x \in Hits /\ y \in Hits
    BY <1>2, <2>1
  <2> QED BY <2>2, <2>4, <2>5 DEF Hits
<1>7. ASSUME NEW j \in DOMAIN hits PROVE \E x \in M : x.doc = hits[j].doc
  <2> DEFINE D == {i \in DOMAIN hits : hits[i].doc.id = hits[j].doc.id}
             X == {100 - hits[i].score : i \in D}
  <2>1. \A i \in D : 100 - hits[i].score \in Nat
    BY <1>2
  <2>2. j \in D
    OBVIOUS
  <2>3. X \subseteq Nat
    BY <2>1
  <2>4. 100 - hits[j].score \in X
    BY <2>2
  <2> HIDE DEF X
  <2>5. PICK x \in X : \A y \in X : x <= y
    <3>1. X \in SUBSET Nat /\ X # {}
      BY <2>3, <2>4
    <3> QED BY <3>1, Least
  <2>6. PICK m \in D : x = 100 - hits[m].score
    BY <2>5 DEF X
  <2>7. \A i \in D : 100 - hits[m].score <= 100 - hits[i].score
    BY <2>5, <2>6 DEF X
  <2>8. \A i \in D : hits[i].score <= hits[m].score
    BY <1>2, <2>7
  <2>9. hits[m] \in Searches!Range(hits)
    BY DEF Searches!Range
  <2>10. hits[m] \in M
    BY <1>1, <2>8, <2>9
  <2>11. hits[m].doc = hits[j].doc
    BY DocsApart
  <2> QED BY <2>10, <2>11
<1>8. M \subseteq Searches!Range(hits)
  BY <1>1
<1> QED BY <1>4, <1>5, <1>6, <1>7, <1>8 DEF M

\* The members of a finite set, each once.
LEMMA Listed ==
  ASSUME NEW S, IsFiniteSet(S)
  PROVE  LET s == Searches!SetToSeq(S)
         IN  /\ s \in Seq(S) /\ \A i, j \in DOMAIN s : i # j => s[i] # s[j]
             /\ \A x \in S : \E i \in DOMAIN s : s[i] = x
<1> DEFINE n == Cardinality(S)
           Lists(f) == \A a, b \in DOMAIN f : f[a] = f[b] => a = b
           s == Searches!SetToSeq(S)
<1>1. n \in Nat
  BY FS_CardinalityType
<1>2. s = CHOOSE f \in [1..n -> S] : Lists(f)
  BY DEF Searches!SetToSeq, Searches!IsInjective, Searches!Cardinality, Cardinality
<1>3. \E f \in [1..n -> S] : Lists(f)
  <2>1. PICK k \in Nat : ExistsBijection(1..k, S)
    BY FS_NatBijection
  <2>2. k = n
    BY <2>1, FS_CountingElements
  <2>3. PICK f : f \in Bijection(1..n, S)
    BY <2>1, <2>2 DEF ExistsBijection
  <2> QED BY <2>3 DEF Bijection, Injection, IsInjective
<1> HIDE DEF s, Lists
<1>4. s \in [1..n -> S] /\ Lists(s)
  BY <1>2, <1>3
<1>5. DOMAIN s = 1..n
  BY <1>4
<1>6. s \in Surjection(1..n, S)
  <2>1. s \in Injection(1..n, S)
    BY <1>4 DEF Lists, Injection, IsInjective
  <2>2. IsFiniteSet(1..n) /\ Cardinality(1..n) = n
    BY <1>1, FS_Interval
  <2> QED BY <2>1, <2>2, FS_Injection
<1>7. \A x \in S : \E i \in 1..n : s[i] = x
  BY <1>6 DEF Surjection
<1>8. s \in Seq(S)
  BY <1>1, <1>4
<1> QED BY <1>4, <1>5, <1>7, <1>8 DEF s, Lists

LEMMA AppendToOne == ASSUME NEW T, NEW a \in T, NEW b \in T PROVE Append(<<a>>, b) = <<a, b>>
<1> DEFINE s == <<a>>
           u == <<a, b>>
<1>1. s \in Seq(T) /\ u \in Seq(T) /\ Len(s) = 1 /\ Len(u) = 2 /\ s[1] = a /\ u[1] = a /\ u[2] = b
  OBVIOUS
<1> HIDE DEF s, u
<1>2. Append(s, b) \in Seq(T) /\ Len(Append(s, b)) = 2 /\ Append(s, b)[1] = a /\ Append(s, b)[2] = b
  BY <1>1
<1>3. Append(s, b) = u
  BY <1>1, <1>2, SeqEqual
<1> QED BY <1>3 DEF s, u

LEMMA MultiIs ==
  ASSUME SearchInv, RankInv, NEW q \in Embeddings, NEW r \in Embeddings, NEW k \in Nat
  PROVE  LET multi == Searches!RetrieveMulti(<<q, r>>, k)
             each  == Searches!RetrieveVectors(q, k) \o Searches!RetrieveVectors(r, k)
         IN  /\ Searches!Ranked(multi) /\ Len(multi) <= k
             /\ \A i \in DOMAIN multi :
                  /\ multi[i] \in Searches!Range(each)
                  /\ \A j \in DOMAIN each : each[j].doc = multi[i].doc => each[j].score <= multi[i].score
             /\ \A j \in DOMAIN each : each[j].doc \in Searches!Docs(multi) \/ Len(multi) = k
<1> DEFINE V(x) == Searches!RetrieveVectors(x, k)
           each == V(q) \o V(r)
           M == Searches!Merge(each)
           w == Searches!SetToSeq(M)
           multi == Searches!RetrieveMulti(<<q, r>>, k)
<1>1. ASSUME NEW x \in Embeddings
      PROVE  /\ V(x) \in Seq(Hits)
             /\ \A i \in DOMAIN V(x) : V(x)[i].doc \in Searches!Range(found) /\ V(x)[i].score <= 100
  <2> DEFINE c == IF k > 0 THEN k ELSE 2
             h == Searches!SearchInMemory(x, c, {})
  <2>1. c \in Nat /\ V(x) = h
    BY DEF Searches!RetrieveVectors
  <2> HIDE DEF c
  <2>2. Proper(h) /\ Searches!Honest(x, h)
    BY <2>1, PlainIs
  <2> HIDE DEF h
  <2>3. h \in Seq(Hits) /\ \A i \in DOMAIN h : h[i] \in Hits /\ h[i].doc \in Searches!Range(found)
    BY <2>2 DEF Proper
  <2>4. \A i \in DOMAIN h : h[i].doc.emb \in Embeddings
    BY <2>3 DEF Hits, Found
  <2>5. \A i \in DOMAIN h : h[i].score <= 100
    BY <2>2, <2>4, Scoring DEF Searches!Honest
  <2> QED BY <2>1, <2>3, <2>5
<1> HIDE DEF V
<1>2. /\ each \in Seq(Hits)
      /\ \A i \in DOMAIN each : each[i].doc \in Searches!Range(found) /\ each[i].score <= 100
  <2> DEFINE a == V(q)
             b == V(r)
             G == {h \in Hits : h.doc \in Searches!Range(found) /\ h.score <= 100}
  <2>1. ASSUME NEW x \in Embeddings PROVE V(x) \in Seq(G)
    <3> DEFINE y == V(x)
    <3>1. y \in Seq(Hits) /\ \A i \in DOMAIN y : y[i].doc \in Searches!Range(found) /\ y[i].score <= 100
      BY <1>1
    <3> HIDE DEF y
    <3>2. \A i \in DOMAIN y : y[i] \in Hits
      BY <3>1
    <3>3. \A i \in DOMAIN y : y[i] \in G
      BY <3>1, <3>2
    <3> HIDE DEF G
    <3>4. y \in Seq(G)
      BY <3>1, <3>3
    <3> QED BY <3>4 DEF y
  <2>2. a \in Seq(G) /\ b \in Seq(G)
    BY <2>1
  <2>3. \A h \in G : h \in Hits /\ h.doc \in Searches!Range(found) /\ h.score <= 100
    OBVIOUS
  <2> HIDE DEF a, b, G
  <2>4. a \o b \in Seq(G)
    BY <2>2
  <2> DEFINE e == a \o b
  <2>5. e \in Seq(G)
    BY <2>4
  <2> HIDE DEF e
  <2>6. e \in Seq(Hits) /\ \A i \in DOMAIN e : e[i] \in G
    BY <2>3, <2>5
  <2> QED BY <2>3, <2>6 DEF e, a, b
<1>3. multi = Searches!First(Searches!Sorted(w), k)
  <2> DEFINE qs == <<q, r>>
             z == [i \in DOMAIN qs |-> V(qs[i])]
  <2>1. z = <<V(q), V(r)>>
    OBVIOUS
  <2>2. Searches!FlattenSeq(z) = Flat(z)
    BY DEF Searches!FlattenSeq, Flat
  <2>3. Flat(<<V(q), V(r)>>) = each
    <3> DEFINE a == V(q)
               b == V(r)
    <3>1. a \in Seq(Hits) /\ b \in Seq(Hits)
      BY <1>1
    <3> HIDE DEF a, b
    <3>2. Flat(<<a>>) = a
      <4>1. <<>> \in Seq(Seq(Hits)) /\ Append(<<>>, a) = <<a>>
        OBVIOUS
      <4>2. Flat(<<a>>) = Flat(<<>>) \o a
        BY <3>1, <4>1, FlatAppend
      <4> QED BY <3>1, <4>2, FlatEmpty
    <3>3. <<a>> \in Seq(Seq(Hits)) /\ Append(<<a>>, b) = <<a, b>>
      BY <3>1, AppendToOne
    <3>4. Flat(Append(<<a>>, b)) = Flat(<<a>>) \o b
      BY <3>1, <3>3, FlatAppend
    <3> QED BY <3>2, <3>3, <3>4 DEF a, b
  <2>4. multi = Searches!First(Searches!Sorted(Searches!SetToSeq(Searches!Merge(Searches!FlattenSeq(z)))), k)
    BY DEF Searches!RetrieveMulti, V
  <2> QED BY <2>1, <2>2, <2>3, <2>4
<1> HIDE DEF each
<1>4. /\ M \subseteq Searches!Range(each) /\ IsFiniteSet(M)
      /\ \A x \in M, j \in DOMAIN each : each[j].doc = x.doc => each[j].score <= x.score
      /\ \A x, y \in M : x # y => x.doc.id # y.doc.id
      /\ \A j \in DOMAIN each : \E x \in M : x.doc = each[j].doc
  BY <1>2, MergeIs
<1>5. \A x \in M : x \in Hits /\ x.score \in Int /\ x.score <= 100 /\ x.doc \in Searches!Range(found)
  <2> SUFFICES ASSUME NEW x \in M PROVE x \in Hits /\ x.score \in Int /\ x.score <= 100 /\ x.doc \in Searches!Range(found)
    OBVIOUS
  <2>1. PICK j \in DOMAIN each : x = each[j]
    BY <1>4 DEF Searches!Range
  <2>2. x \in Hits
    BY <1>2, <2>1
  <2> QED BY <1>2, <2>1, <2>2 DEF Hits
<1> HIDE DEF M
<1>6. w \in Seq(M) /\ (\A i, j \in DOMAIN w : i # j => w[i] # w[j]) /\ \A x \in M : \E i \in DOMAIN w : w[i] = x
  BY <1>4, Listed
<1> HIDE DEF w, multi
<1>7. \A i \in DOMAIN w : w[i] \in M /\ w[i].score \in Int /\ w[i].score <= 100
  <2>1. \A i \in DOMAIN w : w[i] \in M
    BY <1>6
  <2> QED BY <1>5, <2>1
<1>8. multi \in Seq(M) /\ Best(multi, w, k)
  BY <1>3, <1>6, <1>7, BestAre
<1> DEFINE n == Len(w)
           l == Len(multi)
<1>9. n \in Nat /\ DOMAIN w = 1..n /\ l \in Nat /\ DOMAIN multi = 1..l /\ l = (IF k < n THEN k ELSE n)
  BY <1>6, <1>8 DEF Best
<1>10. PICK p : Arranges(p, multi, w)
  BY <1>8 DEF Best
<1>11. /\ p \in [1..n -> 1..n] /\ \A i, j \in 1..n : i # j => p[i] # p[j]
       /\ \A x \in 1..n : \E i \in 1..n : p[i] = x
       /\ \A i \in 1..l : multi[i] = w[p[i]]
       /\ \A i, j \in 1..n : i < j => w[p[i]].score >= w[p[j]].score
  BY <1>10 DEF Arranges
<1> HIDE DEF n, l
<1>12. \A i \in 1..l : i \in 1..n /\ p[i] \in 1..n /\ multi[i] \in M
  <2>1. \A i \in 1..l : i \in 1..n
    BY <1>9
  <2>2. \A i \in 1..l : p[i] \in 1..n
    BY <1>11, <2>1
  <2>3. \A x \in 1..n : w[x] \in M
    BY <1>7, <1>9
  <2> QED BY <1>11, <2>1, <2>2, <2>3
<1>13. Searches!Ranked(multi)
  <2>1. ASSUME NEW i \in 1..l, NEW j \in 1..l, i < j
        PROVE  multi[i].score >= multi[j].score /\ multi[i].doc.id # multi[j].doc.id
    <3>1. multi[i] # multi[j]
      <4>1. i \in 1..n /\ j \in 1..n /\ i # j /\ p[i] \in DOMAIN w /\ p[j] \in DOMAIN w
        BY <1>9, <1>12, <2>1
      <4>2. p[i] # p[j]
        BY <1>11, <4>1
      <4>3. w[p[i]] # w[p[j]]
        BY <1>6, <4>1, <4>2
      <4> QED BY <1>11, <4>3
    <3> QED BY <1>4, <1>11, <1>12, <2>1, <3>1
  <2>2. \A i \in 1..l : multi[i].doc \in Searches!Range(found)
    BY <1>5, <1>12
  <2> QED BY <1>9, <2>1, <2>2 DEF Searches!Ranked, Searches!Docs
<1>14. ASSUME NEW j \in DOMAIN each, l # k PROVE each[j].doc \in Searches!Docs(multi)
  <2>1. l = n
    BY <1>9, <1>14
  <2>2. PICK x \in M : x.doc = each[j].doc
    BY <1>4
  <2>3. PICK a \in 1..n : w[a] = x
    BY <1>6, <1>9
  <2>4. PICK i \in 1..n : p[i] = a
    BY <1>11
  <2>5. multi[i] = x /\ i \in DOMAIN multi
    BY <1>9, <1>11, <2>1, <2>3, <2>4
  <2> QED BY <2>2, <2>5 DEF Searches!Docs
<1>15. l <= k
  BY <1>9
<1> QED BY <1>4, <1>9, <1>12, <1>13, <1>14, <1>15 DEF each, V, multi, l

LEMMA SearchesAreRanked == ASSUME SearchInv, RankInv PROVE Searches!SearchesRank
<1>1. ASSUME NEW q \in Embeddings, NEW k \in Nat, NEW filter
      PROVE  Searches!BestOf(q, k, filter)
  <2>1. \A S : Searches!Cardinality(S) = Cardinality(S)
    BY DEF Searches!Cardinality, Cardinality
  <2>2. \A hits : Proper(hits) => Searches!Ranked(hits)
    BY ProperRanked
  <2> QED BY <2>1, <2>2, PlainIs DEF Searches!BestOf, Matching
<1>2. ASSUME NEW q \in Embeddings, NEW k \in Nat, NEW filter
      PROVE  Searches!NearestOf(q, k, filter)
  <2>1. Pending = {} <=> \A t \in Adders : indexing[t] = Nobody
    BY DEF Pending
  <2>2. \A hits : Proper(hits) => Searches!Ranked(hits)
    BY ProperRanked
  <2> QED BY <2>1, <2>2, FaissIs DEF Searches!NearestOf, Matching
<1>3. ASSUME NEW q \in Embeddings, NEW r \in Embeddings, NEW k \in Nat
      PROVE  Searches!MergedOf(q, r, k)
  BY MultiIs DEF Searches!MergedOf
<1>4. \A k \in 0..3 : k \in Nat
  OBVIOUS
<1> QED BY <1>1, <1>2, <1>3, <1>4 DEF Searches!SearchesRank

LEMMA RankHolds == MCSpec => [](choice = "retrieval" => SearchInv /\ RankInv)
<1> DEFINE Sound == choice = "retrieval" => SearchInv
           InRank == choice = "retrieval" => RankInv
<1>1. MCInit => InRank
  BY RankStarts DEF MCInit
<1>2. ASSUME Sound, InRank, [MCNext]_<<choice, vars, longVars, sqliteVars, searchVars>> PROVE InRank'
  <2>1. CASE SearchNext
    <3> SUFFICES ASSUME SearchInv, RankInv, Searches!Next PROVE RankInv'
      BY <1>2, <2>1 DEF SearchNext
    <3> QED BY RankStep
  <2>2. CASE UNCHANGED <<choice, searchVars>>
    BY <1>2, <2>2 DEF searchVars, RankInv, InStep, Pending
  <2>3. CASE ShortNext \/ LongNext \/ SqliteNext \/ CallerNext
    BY <2>2, <2>3 DEF ShortNext, LongNext, SqliteNext, CallerNext
  <2> QED BY <1>2, <2>1, <2>2, <2>3 DEF MCNext
<1>3. MCSpec => []Sound
  <2>1. Rest => Sound
    BY DEF Rest
  <2> HIDE DEF Sound
  <2> QED BY <2>1, RestHolds, PTL
<1>4. Sound /\ InRank => (choice = "retrieval" => SearchInv /\ RankInv)
  OBVIOUS
<1> HIDE DEF Sound, InRank
<1> QED BY <1>1, <1>2, <1>3, <1>4, PTL DEF MCSpec

(* Every search, with any number of documents added, deleted or about to   *)
(* be added, returns the best that there are, and FAISS as good ones as    *)
(* the memory store until its labels may stand for others.                 *)
THEOREM SearchesAreExact == MCSpec => []SearchesRank
<1>1. (choice = "retrieval" => SearchInv /\ RankInv) => SearchesRank
  BY SearchesAreRanked DEF SearchesRank
<1> QED BY <1>1, RankHolds, PTL
=============================================================================

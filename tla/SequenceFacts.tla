--------------------------- MODULE SequenceFacts ---------------------------
(***************************************************************************)
(* What keeping some elements of a sequence preserves: facts that the      *)
(* proofs about the memories and about the observer lists share, with the  *)
(* induction over the naturals that they rest on.                          *)
(***************************************************************************)
EXTENDS Integers, TLAPS, WellFoundedInduction, SequenceTheorems

-----------------------------------------------------------------------------
(* Induction over the naturals, as a statement about sets of them.         *)

LEMMA Least ==
  ASSUME NEW S \in SUBSET Nat, S # {}
  PROVE  \E m \in S : \A k \in S : m <= k
<1> DEFINE R == OpToRel(<, Nat)
<1>1. \E x \in S : \A y \in S : ~ (<<y, x>> \in R)
  <2>1. IsWellFoundedOn(R, Nat)
    BY NatLessThanWellFounded
  <2> HIDE DEF R
  <2> QED BY <2>1, WFMin
<1>2. R = {ss \in Nat \X Nat : ss[1] < ss[2]}
  BY DEF OpToRel
<1> HIDE DEF R
<1>3. PICK x \in S : \A y \in S : ~ (<<y, x>> \in R)
  BY <1>1
<1>4. \A y \in S : ~ (y < x)
  BY <1>2, <1>3
<1> QED BY <1>4

LEMMA Induction ==
  ASSUME NEW S \in SUBSET Nat, 0 \in S, \A n \in S : n + 1 \in S
  PROVE  S = Nat
<1> SUFFICES ASSUME Nat \ S # {} PROVE FALSE
  OBVIOUS
<1> DEFINE Others == Nat \ S
<1>1. Others \in SUBSET Nat /\ Others # {}
  OBVIOUS
<1>2. PICK m \in Others : \A k \in Others : m <= k
  <2> HIDE DEF Others
  <2> QED BY <1>1, Least
<1>3. m # 0 /\ m - 1 \in Nat
  BY <1>2
<1>4. m - 1 \in S
  BY <1>2, <1>3
<1> QED BY <1>2, <1>3, <1>4

-----------------------------------------------------------------------------
(* The elements of s that are in S, in their order: what the erase of the  *)
(* stores, the queries by session and the copies of the observer lists are. *)

Sifted(s, S) ==
  LET kept[n \in 0..Len(s)] ==
        IF n = 0 THEN <<>> ELSE IF s[n] \in S THEN Append(kept[n - 1], s[n]) ELSE kept[n - 1]
  IN  kept[Len(s)]

\* f is what is kept of the first n elements, for every n up to m.
Round(s, S, f, n) ==
  IF n = 0 THEN <<>> ELSE IF s[n] \in S THEN Append(f[n - 1], s[n]) ELSE f[n - 1]
Rounds(s, S, f, m) == f = [n \in 0..m |-> Round(s, S, f, n)]

LEMMA RoundsExist ==
  ASSUME NEW s, NEW S, NEW m \in Nat
  PROVE  \E f : Rounds(s, S, f, m)
<1> DEFINE Good == {n \in Nat : \E f : Rounds(s, S, f, n)}
<1>1. 0 \in Good
  <2>1. Rounds(s, S, [n \in 0..0 |-> <<>>], 0)
    BY DEF Rounds, Round
  <2> QED BY <2>1
<1>2. ASSUME NEW n \in Good PROVE n + 1 \in Good
  <2>1. n \in Nat /\ \E f : Rounds(s, S, f, n)
    OBVIOUS
  <2> PICK f : Rounds(s, S, f, n)
    BY <2>1
  <2> DEFINE g == [i \in 0..(n + 1) |-> IF i <= n THEN f[i] ELSE Round(s, S, f, n + 1)]
  <2>2. \A i \in 0..n : f[i] = Round(s, S, f, i) /\ g[i] = f[i]
    <3>1. \A i \in 0..n : f[i] = Round(s, S, f, i)
      BY DEF Rounds
    <3>2. \A i \in 0..n : i \in 0..(n + 1) /\ i <= n
      BY <2>1
    <3> QED BY <3>1, <3>2
  <2>3. \A i \in 0..(n + 1) : Round(s, S, g, i) = Round(s, S, f, i)
    <3> SUFFICES ASSUME NEW i \in 0..(n + 1) PROVE Round(s, S, g, i) = Round(s, S, f, i)
      OBVIOUS
    <3>1. i = 0 \/ i - 1 \in 0..n
      OBVIOUS
    <3>2. i # 0 => g[i - 1] = f[i - 1]
      BY <2>2, <3>1
    <3> HIDE DEF g
    <3> QED BY <3>2 DEF Round
  <2>4. \A i \in 0..(n + 1) : g[i] = Round(s, S, g, i)
    <3> SUFFICES ASSUME NEW i \in 0..(n + 1) PROVE g[i] = Round(s, S, f, i)
      BY <2>3
    <3>1. CASE i \in 0..n
      BY <2>2, <3>1
    <3>2. CASE i = n + 1
      BY <3>2
    <3> QED BY <2>1, <3>1, <3>2
  <2>5. Rounds(s, S, g, n + 1)
    BY <2>4 DEF Rounds
  <2> HIDE DEF g
  <2>6. n + 1 \in Nat /\ \E h : Rounds(s, S, h, n + 1)
    BY <2>1, <2>5
  <2> QED BY <2>6
<1> HIDE DEF Good
<1>3. Good = Nat
  <2>1. Good \in SUBSET Nat
    BY DEF Good
  <2> QED BY <1>1, <1>2, <2>1, Induction
<1> QED BY <1>3 DEF Good

LEMMA NextRound ==
  ASSUME NEW s, NEW S, NEW f, NEW m \in Nat, Rounds(s, S, f, m), NEW i \in Nat, i + 1 <= m
  PROVE  f[i + 1] = IF s[i + 1] \in S THEN Append(f[i], s[i + 1]) ELSE f[i]
<1>1. i + 1 \in 0..m /\ i + 1 # 0 /\ (i + 1) - 1 = i
  OBVIOUS
<1>2. f[i + 1] = Round(s, S, f, i + 1)
  BY <1>1 DEF Rounds
<1> QED BY <1>1, <1>2 DEF Round

LEMMA SiftedRounds ==
  ASSUME NEW s, Len(s) \in Nat, NEW S
  PROVE  \E f : Rounds(s, S, f, Len(s)) /\ Sifted(s, S) = f[Len(s)]
<1> DEFINE f == CHOOSE g : Rounds(s, S, g, Len(s))
<1>1. Rounds(s, S, f, Len(s))
  BY RoundsExist
<1>2. Sifted(s, S) = f[Len(s)]
  BY DEF Sifted, Rounds, Round
<1> HIDE DEF f
<1> QED BY <1>1, <1>2

\* Two sequences with the same first n elements take the same n rounds.
LEMMA SameRounds ==
  ASSUME NEW s, NEW t, NEW S, NEW f, NEW g, NEW m \in Nat, NEW n \in 0..m,
         Rounds(s, S, f, m), Rounds(t, S, g, n), \A i \in 1..n : s[i] = t[i]
  PROVE  f[n] = g[n]
<1> DEFINE Same == {i \in Nat : i <= n => f[i] = g[i]}
<1>1. /\ \A i \in 0..m : f[i] = Round(s, S, f, i)
      /\ \A i \in 0..n : g[i] = Round(t, S, g, i)
  BY DEF Rounds
<1>2. 0 \in Same
  BY <1>1 DEF Round
<1>3. ASSUME NEW i \in Same PROVE i + 1 \in Same
  <2> SUFFICES ASSUME i + 1 <= n PROVE f[i + 1] = g[i + 1]
    OBVIOUS
  <2>1. i + 1 \in 0..m /\ i + 1 \in 1..n /\ (i + 1) - 1 = i /\ i <= n
    OBVIOUS
  <2>2. f[i] = g[i] /\ s[i + 1] = t[i + 1]
    BY <2>1
  <2>3. f[i + 1] = Round(s, S, f, i + 1) /\ g[i + 1] = Round(t, S, g, i + 1)
    BY <1>1, <2>1
  <2> QED BY <2>1, <2>2, <2>3 DEF Round
<1> HIDE DEF Same
<1>4. Same = Nat
  <2>1. Same \in SUBSET Nat
    BY DEF Same
  <2> QED BY <1>2, <1>3, <2>1, Induction
<1> QED BY <1>4 DEF Same

LEMMA SiftedEmpty == ASSUME NEW S PROVE Sifted(<<>>, S) = <<>>
<1>1. PICK f : Rounds(<<>>, S, f, Len(<<>>)) /\ Sifted(<<>>, S) = f[Len(<<>>)]
  BY SiftedRounds
<1> QED BY <1>1 DEF Rounds, Round

LEMMA SiftedAppend ==
  ASSUME NEW T, NEW s \in Seq(T), NEW e \in T, NEW S
  PROVE  Sifted(Append(s, e), S) = IF e \in S THEN Append(Sifted(s, S), e) ELSE Sifted(s, S)
<1> DEFINE t == Append(s, e)
           n == Len(s)
<1>1. t \in Seq(T) /\ n \in Nat /\ Len(t) = n + 1 /\ t[n + 1] = e /\ \A i \in 1..n : t[i] = s[i]
  OBVIOUS
<1> HIDE DEF t, n
<1>2. PICK f : Rounds(t, S, f, n + 1) /\ Sifted(t, S) = f[n + 1]
  BY <1>1, SiftedRounds
<1>3. PICK g : Rounds(s, S, g, n) /\ Sifted(s, S) = g[n]
  BY <1>1, SiftedRounds DEF n
<1>4. f[n] = g[n]
  BY <1>1, <1>2, <1>3, SameRounds
<1>5. f[n + 1] = IF t[n + 1] \in S THEN Append(f[n], t[n + 1]) ELSE f[n]
  BY <1>1, <1>2, NextRound
<1>6. Sifted(t, S) = IF e \in S THEN Append(Sifted(s, S), e) ELSE Sifted(s, S)
  BY <1>1, <1>2, <1>3, <1>4, <1>5
<1> QED BY <1>6 DEF t

\* All that is kept was there, and is in S.
LEMMA SiftedHolds ==
  ASSUME NEW T, NEW s \in Seq(T), NEW S
  PROVE  Sifted(s, S) \in Seq(T \cap S)
<1> DEFINE n == Len(s)
<1>1. n \in Nat /\ \A i \in 1..n : s[i] \in T
  OBVIOUS
<1>2. PICK f : Rounds(s, S, f, n) /\ Sifted(s, S) = f[n]
  BY <1>1, SiftedRounds
<1> HIDE DEF n
<1> DEFINE Good == {i \in Nat : i <= n => f[i] \in Seq(T \cap S)}
<1>3. 0 \in Good
  <2>1. f[0] = <<>> /\ <<>> \in Seq(T \cap S)
    BY <1>1, <1>2 DEF Rounds, Round
  <2>2. f[0] \in Seq(T \cap S)
    BY <2>1
  <2> QED BY <2>2
<1>4. ASSUME NEW i \in Good PROVE i + 1 \in Good
  <2> SUFFICES ASSUME i + 1 <= n PROVE f[i + 1] \in Seq(T \cap S)
    OBVIOUS
  <2>1. i \in Nat /\ i + 1 \in 0..n /\ i + 1 \in 1..n /\ i + 1 # 0 /\ (i + 1) - 1 = i /\ i <= n
    BY <1>1
  <2>2. f[i] \in Seq(T \cap S) /\ s[i + 1] \in T
    BY <1>1, <2>1
  <2>3. f[i + 1] = IF s[i + 1] \in S THEN Append(f[i], s[i + 1]) ELSE f[i]
    BY <1>1, <1>2, <2>1, NextRound
  <2> QED BY <2>2, <2>3
<1> HIDE DEF Good
<1>5. Good = Nat
  <2>1. Good \in SUBSET Nat
    BY DEF Good
  <2> QED BY <1>3, <1>4, <2>1, Induction
<1> QED BY <1>1, <1>2, <1>5 DEF Good

\* No more is kept than there was.
LEMMA SiftedShorter ==
  ASSUME NEW T, NEW s \in Seq(T), NEW S
  PROVE  Len(Sifted(s, S)) <= Len(s)
<1> DEFINE n == Len(s)
<1>1. n \in Nat /\ \A i \in 1..n : s[i] \in T
  OBVIOUS
<1>2. PICK f : Rounds(s, S, f, n) /\ Sifted(s, S) = f[n]
  BY <1>1, SiftedRounds
<1> HIDE DEF n
<1> DEFINE Good == {i \in Nat : i <= n => f[i] \in Seq(T) /\ Len(f[i]) <= i}
<1>3. 0 \in Good
  <2>1. f[0] = <<>> /\ <<>> \in Seq(T) /\ Len(<<>>) <= 0
    BY <1>1, <1>2 DEF Rounds, Round
  <2>2. f[0] \in Seq(T) /\ Len(f[0]) <= 0
    BY <2>1
  <2> QED BY <2>2
<1>4. ASSUME NEW i \in Good PROVE i + 1 \in Good
  <2> SUFFICES ASSUME i + 1 <= n PROVE f[i + 1] \in Seq(T) /\ Len(f[i + 1]) <= i + 1
    OBVIOUS
  <2>1. i \in Nat /\ i + 1 \in 1..n /\ i <= n
    BY <1>1
  <2>2. f[i] \in Seq(T) /\ Len(f[i]) <= i /\ s[i + 1] \in T
    BY <1>1, <2>1
  <2>3. f[i + 1] = IF s[i + 1] \in S THEN Append(f[i], s[i + 1]) ELSE f[i]
    BY <1>1, <1>2, <2>1, NextRound
  <2> QED BY <2>1, <2>2, <2>3
<1> HIDE DEF Good
<1>5. Good = Nat
  <2>1. Good \in SUBSET Nat
    BY DEF Good
  <2> QED BY <1>3, <1>4, <2>1, Induction
<1>6. n \in Good
  BY <1>1, <1>5
<1> QED BY <1>1, <1>2, <1>6 DEF Good, n

\* What is kept twice is in both sets.
LEMMA SiftedTwice ==
  ASSUME NEW T, NEW s \in Seq(T), NEW S, NEW U
  PROVE  Sifted(Sifted(s, S), U) = Sifted(s, S \cap U)
<1> DEFINE n == Len(s)
<1>1. n \in Nat /\ \A i \in 1..n : s[i] \in T
  OBVIOUS
<1>2. PICK f : Rounds(s, S, f, n) /\ Sifted(s, S) = f[n]
  BY <1>1, SiftedRounds
<1>3. PICK g : Rounds(s, S \cap U, g, n) /\ Sifted(s, S \cap U) = g[n]
  BY <1>1, SiftedRounds
<1> HIDE DEF n
<1> DEFINE Good == {i \in Nat : i <= n => f[i] \in Seq(T) /\ Sifted(f[i], U) = g[i]}
<1>4. 0 \in Good
  <2>1. f[0] = <<>> /\ g[0] = <<>> /\ <<>> \in Seq(T)
    BY <1>1, <1>2, <1>3 DEF Rounds, Round
  <2>2. f[0] \in Seq(T) /\ Sifted(f[0], U) = g[0]
    BY <2>1, SiftedEmpty
  <2> QED BY <2>2
<1>5. ASSUME NEW i \in Good PROVE i + 1 \in Good
  <2> SUFFICES ASSUME i + 1 <= n PROVE f[i + 1] \in Seq(T) /\ Sifted(f[i + 1], U) = g[i + 1]
    OBVIOUS
  <2>1. i \in Nat /\ i + 1 \in 0..n /\ i + 1 \in 1..n /\ i + 1 # 0 /\ (i + 1) - 1 = i /\ i <= n
    BY <1>1
  <2>2. f[i] \in Seq(T) /\ Sifted(f[i], U) = g[i] /\ s[i + 1] \in T
    BY <1>1, <2>1
  <2>3. /\ f[i + 1] = IF s[i + 1] \in S THEN Append(f[i], s[i + 1]) ELSE f[i]
        /\ g[i + 1] = IF s[i + 1] \in S \cap U THEN Append(g[i], s[i + 1]) ELSE g[i]
    BY <1>1, <1>2, <1>3, <2>1, NextRound
  <2>4. CASE s[i + 1] \in S
    <3> DEFINE x == f[i]
               y == s[i + 1]
    <3>1. x \in Seq(T) /\ y \in T /\ Append(x, y) \in Seq(T)
      BY <2>2
    <3>2. f[i + 1] = Append(x, y) /\ g[i + 1] = IF y \in U THEN Append(Sifted(x, U), y) ELSE Sifted(x, U)
      BY <2>2, <2>3, <2>4
    <3> HIDE DEF x, y
    <3>3. Sifted(Append(x, y), U) = IF y \in U THEN Append(Sifted(x, U), y) ELSE Sifted(x, U)
      BY <3>1, SiftedAppend
    <3> QED BY <3>1, <3>2, <3>3
  <2>5. CASE s[i + 1] \notin S
    BY <2>2, <2>3, <2>5
  <2> QED BY <2>4, <2>5
<1> HIDE DEF Good
<1>6. Good = Nat
  <2>1. Good \in SUBSET Nat
    BY DEF Good
  <2> QED BY <1>4, <1>5, <2>1, Induction
<1> QED BY <1>1, <1>2, <1>3, <1>6 DEF Good

\* Nothing is kept where nothing can be.
LEMMA SiftedNothing ==
  ASSUME NEW T, NEW s \in Seq(T), NEW S, T \cap S = {}
  PROVE  Sifted(s, S) = <<>>
<1>1. Sifted(s, S) \in Seq(T \cap S)
  BY SiftedHolds
<1> QED BY <1>1

\* Every element of S is kept, nothing else, and the order stays: of two that
\* are kept, the one that came first still does.
LEMMA SiftedOrder ==
  ASSUME NEW T, NEW s \in Seq(T), NEW S
  PROVE  /\ Sifted(s, S) \in Seq(T)
         /\ \A i \in DOMAIN Sifted(s, S) : Sifted(s, S)[i] \in S /\ \E a \in DOMAIN s : Sifted(s, S)[i] = s[a]
         /\ \A a \in DOMAIN s : s[a] \in S => \E i \in DOMAIN Sifted(s, S) : Sifted(s, S)[i] = s[a]
         /\ \A i, j \in DOMAIN Sifted(s, S) : i < j =>
              \E a, b \in DOMAIN s : a < b /\ Sifted(s, S)[i] = s[a] /\ Sifted(s, S)[j] = s[b]
<1> DEFINE n == Len(s)
<1>1. n \in Nat /\ DOMAIN s = 1..n /\ \A i \in 1..n : s[i] \in T
  OBVIOUS
<1>2. PICK f : Rounds(s, S, f, n) /\ Sifted(s, S) = f[n]
  BY <1>1, SiftedRounds
<1> HIDE DEF n
<1> DEFINE Sound(x, k) == \A i \in DOMAIN x : x[i] \in S /\ \E a \in 1..k : x[i] = s[a]
           Complete(x, k) == \A a \in 1..k : s[a] \in S => \E i \in DOMAIN x : x[i] = s[a]
           Ordered(x, k) == \A i, j \in DOMAIN x : i < j => \E a, b \in 1..k : a < b /\ x[i] = s[a] /\ x[j] = s[b]
           Good == {k \in Nat : k <= n => f[k] \in Seq(T) /\ Sound(f[k], k) /\ Complete(f[k], k) /\ Ordered(f[k], k)}
<1>3. 0 \in Good
  <2>1. f[0] = <<>> /\ <<>> \in Seq(T)
    BY <1>1, <1>2 DEF Rounds, Round
  <2>2. Sound(<<>>, 0) /\ Complete(<<>>, 0) /\ Ordered(<<>>, 0)
    OBVIOUS
  <2> HIDE DEF Sound, Complete, Ordered
  <2> QED BY <2>1, <2>2
<1>4. ASSUME NEW k \in Good PROVE k + 1 \in Good
  <2>1. k \in Nat /\ k + 1 \in Nat
    OBVIOUS
  <2> SUFFICES ASSUME k + 1 <= n
               PROVE  f[k + 1] \in Seq(T) /\ Sound(f[k + 1], k + 1) /\ Complete(f[k + 1], k + 1) /\ Ordered(f[k + 1], k + 1)
    BY <2>1
  <2> DEFINE x == f[k]
             e == s[k + 1]
             y == f[k + 1]
  <2>2. k <= n /\ k + 1 \in 1..n /\ e \in T
    BY <1>1, <2>1
  <2>3. x \in Seq(T) /\ Sound(x, k) /\ Complete(x, k) /\ Ordered(x, k)
    BY <2>2
  <2>4. y = IF e \in S THEN Append(x, e) ELSE x
    BY <1>1, <1>2, <2>1, <2>2, NextRound
  <2>5. /\ \A a \in 1..(k + 1) : a \in 1..k \/ a = k + 1
        /\ \A a \in 1..k : a \in 1..(k + 1) /\ a < k + 1
        /\ k + 1 \in 1..(k + 1) /\ s[k + 1] = e
    BY <2>1
  <2> HIDE DEF x, e, y, Good
  <2>6. CASE e \in S
    <3> DEFINE m == Len(x)
    <3>1. m \in Nat /\ DOMAIN x = 1..m /\ DOMAIN y = 1..(m + 1) /\ y \in Seq(T) /\ y[m + 1] = e
          /\ \A i \in 1..m : y[i] = x[i]
      BY <2>2, <2>3, <2>4, <2>6
    <3> HIDE DEF m
    <3>2. \A i \in DOMAIN y : i \in DOMAIN x \/ i = m + 1
      BY <3>1
    <3>3. \A i \in DOMAIN x : i \in DOMAIN y /\ y[i] = x[i] /\ i < m + 1
      BY <3>1
    <3>4. m + 1 \in DOMAIN y
      BY <3>1
    <3>5. Sound(y, k + 1)
      BY <2>3, <2>5, <2>6, <3>1, <3>2, <3>3
    <3>6. Complete(y, k + 1)
      BY <2>3, <2>5, <3>1, <3>3, <3>4
    <3>7. Ordered(y, k + 1)
      <4> SUFFICES ASSUME NEW i \in DOMAIN y, NEW j \in DOMAIN y, i < j
                   PROVE  \E a, b \in 1..(k + 1) : a < b /\ y[i] = s[a] /\ y[j] = s[b]
        OBVIOUS
      <4>1. i \in DOMAIN x
        BY <3>1
      <4>2. CASE j \in DOMAIN x
        BY <2>3, <2>5, <3>3, <4>1, <4>2
      <4>3. CASE j = m + 1
        <5>1. PICK a \in 1..k : x[i] = s[a]
          BY <2>3, <4>1
        <5> QED BY <2>5, <3>1, <3>3, <4>1, <4>3, <5>1
      <4> QED BY <3>2, <4>2, <4>3
    <3> QED BY <3>1, <3>5, <3>6, <3>7 DEF y
  <2>7. CASE e \notin S
    <3>1. y = x
      BY <2>4, <2>7
    <3>2. Sound(x, k + 1)
      BY <2>3, <2>5
    <3>3. Complete(x, k + 1)
      BY <2>3, <2>5, <2>7
    <3>4. Ordered(x, k + 1)
      BY <2>3, <2>5
    <3> QED BY <2>3, <3>1, <3>2, <3>3, <3>4 DEF y
  <2> QED BY <2>6, <2>7
<1> HIDE DEF Good
<1>5. Good = Nat
  <2>1. Good \in SUBSET Nat
    BY DEF Good
  <2> QED BY <1>3, <1>4, <2>1, Induction
<1>6. n \in Good /\ n <= n
  BY <1>1, <1>5
<1> HIDE DEF Sound, Complete, Ordered
<1>7. f[n] \in Seq(T) /\ Sound(f[n], n) /\ Complete(f[n], n) /\ Ordered(f[n], n)
  BY <1>6 DEF Good
<1> DEFINE K == Sifted(s, S)
<1> HIDE DEF K
<1>8. K \in Seq(T) /\ Sound(K, n) /\ Complete(K, n) /\ Ordered(K, n)
  BY <1>2, <1>7 DEF K
<1>9. \A i \in DOMAIN K : K[i] \in S /\ \E a \in DOMAIN s : K[i] = s[a]
  BY <1>1, <1>8 DEF Sound
<1>10. \A a \in DOMAIN s : s[a] \in S => \E i \in DOMAIN K : K[i] = s[a]
  BY <1>1, <1>8 DEF Complete
<1>11. \A i, j \in DOMAIN K : i < j => \E a, b \in DOMAIN s : a < b /\ K[i] = s[a] /\ K[j] = s[b]
  BY <1>1, <1>8 DEF Ordered
<1> QED BY <1>8, <1>9, <1>10, <1>11, Zenon DEF K

-----------------------------------------------------------------------------
(* Iteration of a function G, which is given the number of the round and   *)
(* the value so far: what the recursive functions below and elsewhere do.  *)

Iteration(f, G, V, b, m) ==
  f \in [0..m -> V] /\ f[0] = b /\ \A i \in 1..m : f[i] = G[<<i, f[i - 1]>>]

LEMMA Iterates ==
  ASSUME NEW V, NEW b \in V, NEW m \in Nat, NEW G \in [(1..m) \X V -> V]
  PROVE  \E f : Iteration(f, G, V, b, m)
<1> DEFINE Goes(f, n) == f[0] = b /\ \A i \in 1..n : f[i] = G[<<i, f[i - 1]>>]
           Good == {n \in Nat : n <= m => \E f \in [0..n -> V] : Goes(f, n)}
<1>1. 0 \in Good
  <2>1. [i \in 0..0 |-> b] \in [0..0 -> V] /\ Goes([i \in 0..0 |-> b], 0)
    OBVIOUS
  <2> QED BY <2>1
<1>2. ASSUME NEW n \in Good PROVE n + 1 \in Good
  <2>1. n \in Nat /\ n + 1 \in Nat
    OBVIOUS
  <2> SUFFICES ASSUME n + 1 <= m PROVE \E g \in [0..(n + 1) -> V] : Goes(g, n + 1)
    BY <2>1
  <2>2. PICK f \in [0..n -> V] : Goes(f, n)
    BY <2>1
  <2> DEFINE g == [i \in 0..(n + 1) |-> IF i <= n THEN f[i] ELSE G[<<n + 1, f[n]>>]]
  <2>3. G[<<n + 1, f[n]>>] \in V /\ \A i \in 0..n : f[i] \in V
    BY <2>1
  <2>4. g \in [0..(n + 1) -> V]
    BY <2>1, <2>3
  <2>5. g[n + 1] = G[<<n + 1, f[n]>>] /\ \A i \in 0..n : g[i] = f[i]
    BY <2>1
  <2> HIDE DEF g
  <2>6. Goes(g, n + 1)
    <3>1. g[0] = b
      BY <2>1, <2>2, <2>5
    <3>2. ASSUME NEW i \in 1..(n + 1) PROVE g[i] = G[<<i, g[i - 1]>>]
      <4>1. i - 1 \in 0..n /\ (i \in 1..n \/ i = n + 1) /\ (i \in 1..n => i \in 0..n)
        BY <2>1
      <4>2. g[i - 1] = f[i - 1]
        BY <2>5, <4>1
      <4>3. CASE i \in 1..n
        BY <2>2, <2>5, <4>1, <4>2, <4>3
      <4>4. CASE i = n + 1
        <5>1. i - 1 = n
          BY <2>1, <4>4
        <5> QED BY <2>5, <4>2, <4>4, <5>1
      <4> QED BY <4>1, <4>3, <4>4
    <3> QED BY <3>1, <3>2
  <2> QED BY <2>4, <2>6
<1> HIDE DEF Good
<1>3. Good = Nat
  <2>1. Good \in SUBSET Nat
    BY DEF Good
  <2> QED BY <1>1, <1>2, <2>1, Induction
<1>4. m \in Good /\ m <= m
  BY <1>3
<1>5. \E f \in [0..m -> V] : Goes(f, m)
  <2> HIDE DEF Goes
  <2> QED BY <1>4 DEF Good
<1> QED BY <1>5 DEF Iteration

\* The elements of a sequence of sequences, one after the other: FlattenSeq of
\* SequencesExt, of which every module that is instantiated has its own.
Flat(seqs) ==
  IF Len(seqs) = 0 THEN seqs ELSE
    LET flatten[i \in 1..Len(seqs)] == IF i = 1 THEN seqs[i] ELSE flatten[i - 1] \o seqs[i]
    IN  flatten[Len(seqs)]

\* f is the first elements flattened, for every number of them up to m.
Flattens(s, f, m) == f = [i \in 1..m |-> IF i = 1 THEN s[i] ELSE f[i - 1] \o s[i]]

LEMMA FlattenExists ==
  ASSUME NEW T, NEW s \in Seq(Seq(T))
  PROVE  \E f \in [1..Len(s) -> Seq(T)] : Flattens(s, f, Len(s))
<1> DEFINE m == Len(s)
           V == Seq(T)
           G == [p \in (1..m) \X V |-> IF p[1] = 1 THEN s[p[1]] ELSE p[2] \o s[p[1]]]
<1>1. m \in Nat /\ \A i \in 1..m : s[i] \in V
  OBVIOUS
<1>2. \A i \in 1..m, v \in V : G[<<i, v>>] = (IF i = 1 THEN s[i] ELSE v \o s[i]) /\ G[<<i, v>>] \in V
  <2> SUFFICES ASSUME NEW i \in 1..m, NEW v \in V
               PROVE  G[<<i, v>>] = (IF i = 1 THEN s[i] ELSE v \o s[i]) /\ G[<<i, v>>] \in V
    OBVIOUS
  <2>1. G[<<i, v>>] = IF i = 1 THEN s[i] ELSE v \o s[i]
    OBVIOUS
  <2>2. s[i] \in V /\ v \o s[i] \in V
    BY <1>1
  <2> HIDE DEF G
  <2> QED BY <2>1, <2>2
<1>3. G \in [(1..m) \X V -> V]
  <2>1. \A p \in (1..m) \X V : (IF p[1] = 1 THEN s[p[1]] ELSE p[2] \o s[p[1]]) \in V
    BY <1>1
  <2> QED BY <2>1
<1>4. <<>> \in V
  OBVIOUS
<1> HIDE DEF G, V, m
<1> DEFINE e == <<>>
<1>5. e \in V /\ e = <<>>
  BY <1>4
<1> HIDE DEF e
<1> PICK h : Iteration(h, G, V, e, m)
  BY <1>1, <1>3, <1>5, Iterates
<1>h. h \in [0..m -> V] /\ \A i \in 1..m : h[i] = G[<<i, h[i - 1]>>]
  BY DEF Iteration
<1> DEFINE f == [i \in 1..m |-> h[i]]
<1>6. \A i \in 1..m : h[i] = IF i = 1 THEN s[i] ELSE h[i - 1] \o s[i]
  <2> SUFFICES ASSUME NEW i \in 1..m PROVE h[i] = IF i = 1 THEN s[i] ELSE h[i - 1] \o s[i]
    OBVIOUS
  <2>1. i - 1 \in 0..m
    BY <1>1
  <2>2. h[i - 1] \in V
    BY <1>h, <2>1
  <2> QED BY <1>2, <1>h, <2>2
<1>7. f = [i \in 1..m |-> IF i = 1 THEN s[i] ELSE f[i - 1] \o s[i]]
  <2>1. \A i \in 1..m : i = 1 \/ i - 1 \in 1..m
    BY <1>1
  <2>2. \A i \in 1..m : f[i] = IF i = 1 THEN s[i] ELSE f[i - 1] \o s[i]
    BY <1>6, <2>1
  <2> QED BY <2>2
<1>8. f \in [1..m -> V]
  BY <1>1, <1>h
<1> HIDE DEF f
<1> QED BY <1>7, <1>8 DEF Flattens, m, V

LEMMA SameFlattens ==
  ASSUME NEW s, NEW t, NEW f, NEW g, NEW m \in Nat, NEW n \in 1..m,
         Flattens(s, f, m), Flattens(t, g, n), \A i \in 1..n : s[i] = t[i]
  PROVE  f[n] = g[n]
<1> DEFINE Same == {i \in Nat : i \in 1..n => f[i] = g[i]}
<1>1. /\ \A i \in 1..m : f[i] = IF i = 1 THEN s[i] ELSE f[i - 1] \o s[i]
      /\ \A i \in 1..n : g[i] = IF i = 1 THEN t[i] ELSE g[i - 1] \o t[i]
  BY DEF Flattens
<1>2. 0 \in Same
  OBVIOUS
<1>3. ASSUME NEW i \in Same PROVE i + 1 \in Same
  <2> SUFFICES ASSUME i + 1 \in 1..n PROVE f[i + 1] = g[i + 1]
    OBVIOUS
  <2>1. i + 1 \in 1..m /\ (i + 1) - 1 = i /\ (i + 1 = 1 \/ i \in 1..n) /\ s[i + 1] = t[i + 1]
    OBVIOUS
  <2>2. /\ f[i + 1] = IF i + 1 = 1 THEN s[i + 1] ELSE f[i] \o s[i + 1]
        /\ g[i + 1] = IF i + 1 = 1 THEN t[i + 1] ELSE g[i] \o t[i + 1]
    BY <1>1, <2>1
  <2>3. i \in 1..n => f[i] = g[i]
    OBVIOUS
  <2> QED BY <2>1, <2>2, <2>3
<1> HIDE DEF Same
<1>4. Same = Nat
  <2>1. Same \in SUBSET Nat
    BY DEF Same
  <2> QED BY <1>2, <1>3, <2>1, Induction
<1> QED BY <1>4 DEF Same

LEMMA FlatDef ==
  ASSUME NEW T, NEW s \in Seq(Seq(T)), s # <<>>
  PROVE  Flat(s) \in Seq(T) /\ \E f : Flattens(s, f, Len(s)) /\ Flat(s) = f[Len(s)]
<1> DEFINE g == CHOOSE h : Flattens(s, h, Len(s))
           n == Len(s)
<1>1. PICK f \in [1..n -> Seq(T)] : Flattens(s, f, n)
  BY FlattenExists
<1>2. Flattens(s, g, n)
  BY <1>1
<1>3. n \in Nat /\ n # 0 /\ n \in 1..n
  OBVIOUS
<1>4. Flat(s) = g[n]
  BY <1>3 DEF Flat, Flattens
<1> HIDE DEF g, n
<1>5. f[n] = g[n]
  BY <1>1, <1>2, <1>3, SameFlattens
<1>6. f[n] \in Seq(T)
  BY <1>3
<1> QED BY <1>2, <1>4, <1>5, <1>6 DEF n

LEMMA FlatEmpty == Flat(<<>>) = <<>>
BY DEF Flat

LEMMA FlatAppend ==
  ASSUME NEW T, NEW s \in Seq(Seq(T)), NEW x \in Seq(T)
  PROVE  Flat(s) \in Seq(T) /\ Flat(Append(s, x)) = Flat(s) \o x
<1> DEFINE t == Append(s, x)
           n == Len(s)
<1>1. t \in Seq(Seq(T)) /\ t # <<>> /\ n \in Nat /\ Len(t) = n + 1 /\ t[n + 1] = x /\ \A i \in 1..n : t[i] = s[i]
  <2> DEFINE V == Seq(T)
  <2>1. s \in Seq(V) /\ x \in V
    OBVIOUS
  <2> HIDE DEF V
  <2>2. t \in Seq(V) /\ t # <<>> /\ n \in Nat /\ Len(t) = n + 1 /\ t[n + 1] = x /\ \A i \in 1..n : t[i] = s[i]
    BY <2>1
  <2> QED BY <2>2 DEF V
<1> HIDE DEF t
<1>2. PICK f : Flattens(t, f, n + 1) /\ Flat(t) = f[n + 1]
  BY <1>1, FlatDef
<1>3. f[n + 1] = IF n + 1 = 1 THEN x ELSE f[n] \o x
  <2> HIDE DEF n
  <2>1. n + 1 \in 1..(n + 1) /\ (n + 1) - 1 = n
    BY <1>1
  <2>2. f[n + 1] = IF n + 1 = 1 THEN t[n + 1] ELSE f[(n + 1) - 1] \o t[n + 1]
    BY <2>1, <1>2 DEF Flattens
  <2> QED BY <1>1, <2>1, <2>2
<1>4. CASE s = <<>>
  <2>1. n = 0 /\ Flat(s) = <<>> /\ <<>> \o x = x
    BY <1>4, FlatEmpty
  <2> QED BY <1>2, <1>3, <2>1 DEF t
<1>5. CASE s # <<>>
  <2>1. n \in 1..n /\ n + 1 # 1 /\ n \in 1..(n + 1)
    BY <1>1, <1>5
  <2>2. PICK g : Flattens(s, g, n) /\ Flat(s) = g[n]
    BY <1>5, FlatDef
  <2> HIDE DEF n
  <2> DEFINE m == n + 1
  <2>3. m \in Nat /\ n \in 1..m /\ Flattens(t, f, m) /\ Flattens(s, g, n)
    BY <1>2, <2>1, <2>2
  <2>4. \A i \in 1..n : t[i] = s[i]
    BY <1>1
  <2> HIDE DEF m
  <2>6. f[n] = g[n]
    BY <2>3, <2>4, SameFlattens
  <2> QED BY <1>2, <1>3, <1>5, <2>1, <2>2, <2>6, FlatDef DEF t
<1> QED BY <1>4, <1>5

-----------------------------------------------------------------------------
(* Sequences put together from two.                                        *)

\* A set that has the empty sequence, and with a sequence all that are one
\* element longer, has them all.
LEMMA SequencesGrow ==
  ASSUME NEW T, NEW G, <<>> \in G, \A s \in Seq(T), e \in T : s \in G => Append(s, e) \in G
  PROVE  \A s \in Seq(T) : s \in G
<1> SUFFICES ASSUME NEW s \in Seq(T) PROVE s \in G
  OBVIOUS
<1> DEFINE m == Len(s)
           Good == {n \in Nat : n <= m => SubSeq(s, 1, n) \in G}
<1>1. m \in Nat /\ SubSeq(s, 1, m) = s
  BY SubSeqFull
<1>2. 0 \in Good
  <2>1. SubSeq(s, 1, 0) = <<>>
    BY SubSeqEmpty
  <2> QED BY <2>1
<1>3. ASSUME NEW n \in Good PROVE n + 1 \in Good
  <2> SUFFICES ASSUME n + 1 <= m PROVE SubSeq(s, 1, n + 1) \in G
    OBVIOUS
  <2>1. n \in Nat /\ n + 1 \in 1..Len(s) /\ SubSeq(s, 1, n) \in G
    BY <1>1
  <2>2. SubSeq(s, 1, n) \in Seq(T) /\ s[n + 1] \in T
    BY <2>1
  <2>3. SubSeq(s, 1, n + 1) = SubSeq(s, 1, n) \o <<s[n + 1]>>
    <3>1. 1 \in 1..Len(s) /\ n + 1 \in 1..Len(s) /\ (n + 1) - 1 = n
      BY <2>1
    <3> QED BY <3>1, SubSeqRecursiveSecond
  <2>4. SubSeq(s, 1, n + 1) = Append(SubSeq(s, 1, n), s[n + 1])
    BY <2>2, <2>3, AppendIsConcat
  <2> QED BY <2>1, <2>2, <2>4
<1> HIDE DEF Good
<1>4. Good = Nat
  <2>1. Good \in SUBSET Nat
    BY DEF Good
  <2> QED BY <1>2, <1>3, <2>1, Induction
<1>5. m \in Good /\ m <= m
  BY <1>1, <1>4
<1>6. SubSeq(s, 1, m) \in G
  BY <1>5 DEF Good
<1> QED BY <1>1, <1>6

LEMMA AppendToConcat ==
  ASSUME NEW T, NEW s \in Seq(T), NEW t \in Seq(T), NEW e \in T
  PROVE  s \o Append(t, e) = Append(s \o t, e)
<1>1. <<e>> \in Seq(T) /\ s \o t \in Seq(T)
  OBVIOUS
<1>2. Append(t, e) = t \o <<e>> /\ Append(s \o t, e) = (s \o t) \o <<e>>
  BY <1>1, AppendIsConcat
<1> QED BY <1>1, <1>2, ConcatAssociative, SMTT(30)

LEMMA SiftedConcat ==
  ASSUME NEW T, NEW s \in Seq(T), NEW t \in Seq(T), NEW S
  PROVE  Sifted(s \o t, S) = Sifted(s, S) \o Sifted(t, S)
<1> DEFINE G == {u \in Seq(T) : Sifted(s \o u, S) = Sifted(s, S) \o Sifted(u, S)}
<1> DEFINE V == T \cap S
<1>1. \A u \in Seq(T) : Sifted(u, S) \in Seq(V)
  BY SiftedHolds
<1> HIDE DEF V
<1>2. <<>> \in G
  <2>1. s \o <<>> = s /\ <<>> \in Seq(T) /\ Sifted(<<>>, S) = <<>>
    BY ConcatEmptySeq, SiftedEmpty
  <2>2. Sifted(s, S) \o <<>> = Sifted(s, S)
    BY <1>1, ConcatEmptySeq
  <2> QED BY <2>1, <2>2
<1>3. ASSUME NEW u \in Seq(T), NEW e \in T, u \in G PROVE Append(u, e) \in G
  <2>1. s \o Append(u, e) = Append(s \o u, e) /\ s \o u \in Seq(T) /\ Append(u, e) \in Seq(T)
    BY AppendToConcat
  <2>2. /\ Sifted(Append(s \o u, e), S) = IF e \in S THEN Append(Sifted(s \o u, S), e) ELSE Sifted(s \o u, S)
        /\ Sifted(Append(u, e), S) = IF e \in S THEN Append(Sifted(u, S), e) ELSE Sifted(u, S)
    BY <2>1, SiftedAppend
  <2>3. Sifted(s \o u, S) = Sifted(s, S) \o Sifted(u, S)
    BY <1>3
  <2>4. e \in S => Sifted(s, S) \o Append(Sifted(u, S), e) = Append(Sifted(s, S) \o Sifted(u, S), e)
    <3> SUFFICES ASSUME e \in S PROVE Sifted(s, S) \o Append(Sifted(u, S), e) = Append(Sifted(s, S) \o Sifted(u, S), e)
      OBVIOUS
    <3>1. Sifted(s, S) \in Seq(V) /\ Sifted(u, S) \in Seq(V) /\ e \in V
      BY <1>1 DEF V
    <3> QED BY <3>1, AppendToConcat
  <2> QED BY <2>1, <2>2, <2>3, <2>4
<1> HIDE DEF G
<1>4. \A u \in Seq(T) : u \in G
  BY <1>2, <1>3, SequencesGrow
<1> QED BY <1>4 DEF G

LEMMA SiftedAll ==
  ASSUME NEW T, NEW S, NEW s \in Seq(T), \A i \in DOMAIN s : s[i] \in S
  PROVE  Sifted(s, S) = s
<1> DEFINE G == {u \in Seq(T) : (\A i \in DOMAIN u : u[i] \in S) => Sifted(u, S) = u}
<1>1. <<>> \in G
  BY SiftedEmpty
<1>2. ASSUME NEW u \in Seq(T), NEW e \in T, u \in G PROVE Append(u, e) \in G
  <2>a. Append(u, e) \in Seq(T)
    OBVIOUS
  <2> SUFFICES ASSUME \A i \in DOMAIN Append(u, e) : Append(u, e)[i] \in S
               PROVE  Sifted(Append(u, e), S) = Append(u, e)
    BY <2>a
  <2>1. (\A i \in DOMAIN u : u[i] \in S) /\ e \in S
    BY AppendProperties
  <2>2. Sifted(u, S) = u
    BY <1>2, <2>1
  <2> QED BY <2>1, <2>2, SiftedAppend
<1> HIDE DEF G
<1>3. \A u \in Seq(T) : u \in G
  BY <1>1, <1>2, SequencesGrow
<1> QED BY <1>3 DEF G

\* Flattening begins with the first.
LEMMA FlatFirst ==
  ASSUME NEW T, NEW x \in Seq(T), NEW s \in Seq(Seq(T))
  PROVE  Flat(<<x>> \o s) = x \o Flat(s)
<1> DEFINE V == Seq(T)
           G == {u \in Seq(V) : Flat(<<x>> \o u) = x \o Flat(u)}
<1>1. x \in V /\ s \in Seq(V) /\ \A u \in Seq(V), e \in V : Flat(u) \in Seq(T) /\ Flat(Append(u, e)) = Flat(u) \o e
  BY FlatAppend
<1>2. <<>> \o x = x /\ x \o <<>> = x /\ \A a, b \in V : (x \o a) \o b = x \o (a \o b)
  BY ConcatEmptySeq, ConcatAssociative, SMTT(30)
<1>3. \A u \in Seq(V) : Flat(u) \in V
  <2> SUFFICES ASSUME NEW u \in Seq(V) PROVE Flat(u) \in V
    OBVIOUS
  <2> QED BY FlatAppend, <1>1
<1> HIDE DEF V
<1>4. <<>> \in G
  <2>1. <<>> \in Seq(V) /\ <<x>> \o <<>> = <<x>> /\ <<x>> = Append(<<>>, x)
    BY <1>1
  <2>2. Flat(<<x>>) = <<>> \o x
    BY <1>1, <2>1, FlatEmpty
  <2> QED BY <1>2, <2>1, <2>2, FlatEmpty
<1>5. ASSUME NEW u \in Seq(V), NEW e \in V, u \in G PROVE Append(u, e) \in G
  <2>1. <<x>> \in Seq(V) /\ Append(u, e) \in Seq(V) /\ <<x>> \o u \in Seq(V)
    BY <1>1
  <2>2. <<x>> \o Append(u, e) = Append(<<x>> \o u, e)
    BY <2>1, AppendToConcat
  <2>3. Flat(<<x>> \o Append(u, e)) = (x \o Flat(u)) \o e
    BY <1>1, <1>5, <2>1, <2>2
  <2>4. Flat(Append(u, e)) = Flat(u) \o e
    BY <1>1
  <2>5. (x \o Flat(u)) \o e = x \o (Flat(u) \o e)
    BY <1>1, <1>2, <1>3
  <2>6. Flat(<<x>> \o Append(u, e)) = x \o Flat(Append(u, e))
    BY <2>3, <2>4, <2>5
  <2> QED BY <2>1, <2>6
<1> HIDE DEF G
<1>6. \A u \in Seq(V) : u \in G
  BY <1>4, <1>5, SequencesGrow
<1> QED BY <1>1, <1>6 DEF G

\* The first elements of a sequence: none, all, and one more.
LEMMA Prefixes ==
  ASSUME NEW T, NEW s \in Seq(T)
  PROVE  /\ SubSeq(s, 1, 0) = <<>> /\ SubSeq(s, 1, Len(s)) = s
         /\ \A n \in 0..Len(s) : SubSeq(s, 1, n) \in Seq(T)
         /\ \A n \in Nat : n + 1 <= Len(s) =>
              s[n + 1] \in T /\ SubSeq(s, 1, n + 1) = Append(SubSeq(s, 1, n), s[n + 1])
<1>1. SubSeq(s, 1, 0) = <<>>
  BY SubSeqEmpty
<1>2. SubSeq(s, 1, Len(s)) = s
  BY SubSeqFull
<1>3. ASSUME NEW n \in 0..Len(s) PROVE SubSeq(s, 1, n) \in Seq(T)
  <2>1. \A i \in 1..n : s[i] \in T
    BY <1>3
  <2> QED BY <1>3, <2>1, SubSeqProperties
<1>4. ASSUME NEW n \in Nat, n + 1 <= Len(s)
      PROVE  s[n + 1] \in T /\ SubSeq(s, 1, n + 1) = Append(SubSeq(s, 1, n), s[n + 1])
  <2>1. n + 1 \in 1..Len(s) /\ 1 \in 1..Len(s) /\ n + 1 \in 1..Len(s) /\ (n + 1) - 1 = n
    BY <1>4
  <2>2. SubSeq(s, 1, n + 1) = SubSeq(s, 1, n) \o <<s[n + 1]>>
    BY <2>1, SubSeqRecursiveSecond
  <2>3. s[n + 1] \in T /\ SubSeq(s, 1, n) \in Seq(T)
    <3>1. n \in 0..Len(s)
      BY <1>4
    <3> QED BY <1>3, <2>1, <3>1
  <2> QED BY <2>2, <2>3
<1> QED BY <1>1, <1>2, <1>3, <1>4

\* Of places at most n there is a last.
LEMMA Greatest == ASSUME NEW n \in Nat, NEW I \in SUBSET (1..n), I # {} PROVE \E x \in I : \A y \in I : y <= x
<1> DEFINE Has(J) == \E x \in J : \A y \in J : y <= x
           Good == {m \in Nat : \A J \in SUBSET (1..m) : J # {} => Has(J)}
<1>1. 0 \in Good
  <2>1. 1..0 = {}
    OBVIOUS
  <2>2. \A J \in SUBSET (1..0) : J = {}
    BY <2>1
  <2> QED BY <2>2
<1>2. ASSUME NEW m \in Good PROVE m + 1 \in Good
  <2> SUFFICES ASSUME NEW J \in SUBSET (1..(m + 1)), J # {} PROVE Has(J)
    OBVIOUS
  <2>1. CASE m + 1 \in J
    BY <2>1
  <2>2. CASE m + 1 \notin J
    <3>1. J \in SUBSET (1..m)
      BY <2>2
    <3> QED BY <3>1
  <2> QED BY <2>1, <2>2
<1> HIDE DEF Good
<1>3. Good = Nat
  <2>1. Good \in SUBSET Nat
    BY DEF Good
  <2> QED BY <1>1, <1>2, <2>1, Induction
<1> QED BY <1>3 DEF Good

\* An element of S has its place among those kept, and all that is kept behind it comes later.
LEMMA SiftedLater ==
  ASSUME NEW T, NEW s \in Seq(T), NEW S
  PROVE  \A a \in DOMAIN s : s[a] \in S =>
           \E i \in DOMAIN Sifted(s, S) :
             /\ Sifted(s, S)[i] = s[a]
             /\ \A j \in DOMAIN Sifted(s, S) : j > i => \E b \in DOMAIN s : b > a /\ s[b] = Sifted(s, S)[j]
<1> DEFINE Placed(u, k) ==
             \A a \in DOMAIN u : u[a] \in S =>
               \E i \in DOMAIN k : k[i] = u[a] /\ \A j \in DOMAIN k : j > i => \E b \in DOMAIN u : b > a /\ u[b] = k[j]
           G == {u \in Seq(T) : Placed(u, Sifted(u, S))}
<1>1. <<>> \in G
  OBVIOUS
<1>2. ASSUME NEW u \in Seq(T), NEW e \in T, u \in G PROVE Append(u, e) \in G
  <2> DEFINE v == Append(u, e)
             k == Sifted(u, S)
             h == Sifted(v, S)
             n == Len(u)
             m == Len(k)
  <2>1. h = (IF e \in S THEN Append(k, e) ELSE k)
    BY SiftedAppend
  <2>2. k \in Seq(T)
    BY SiftedOrder
  <2>3. v \in Seq(T) /\ n \in Nat /\ DOMAIN u = 1..n /\ DOMAIN v = 1..(n + 1) /\ v[n + 1] = e /\ \A a \in 1..n : v[a] = u[a]
    OBVIOUS
  <2>4. Placed(u, k)
    BY <1>2
  <2> HIDE DEF v, k, h, G, n
  <2>5. m \in Nat /\ DOMAIN k = 1..m
    BY <2>2
  <2>6. Placed(v, h)
    <3>1. CASE e \in S
      <4>1. DOMAIN h = 1..(m + 1) /\ h[m + 1] = e /\ \A i \in 1..m : h[i] = k[i]
        BY <2>1, <2>2, <3>1
      <4> HIDE DEF m
      <4> SUFFICES ASSUME NEW a \in 1..(n + 1), v[a] \in S
                   PROVE  \E i \in 1..(m + 1) : h[i] = v[a] /\ \A j \in 1..(m + 1) : j > i => \E b \in 1..(n + 1) : b > a /\ v[b] = h[j]
        BY <2>3, <4>1
      <4>2. CASE a = n + 1
        <5>1. m + 1 \in 1..(m + 1) /\ h[m + 1] = v[a] /\ \A j \in 1..(m + 1) : ~(j > m + 1)
          BY <2>3, <2>5, <4>1, <4>2
        <5> QED BY <5>1
      <4>3. CASE a # n + 1
        <5>1. a \in 1..n /\ u[a] = v[a]
          BY <2>3, <4>3
        <5>2. PICK i \in DOMAIN k : k[i] = u[a] /\ \A j \in DOMAIN k : j > i => \E b \in 1..n : b > a /\ u[b] = k[j]
          BY <2>3, <2>4, <5>1
        <5>3. i \in 1..(m + 1) /\ h[i] = v[a]
          BY <2>5, <4>1, <5>1, <5>2
        <5>4. ASSUME NEW j \in 1..(m + 1), j > i PROVE \E b \in 1..(n + 1) : b > a /\ v[b] = h[j]
          <6>1. CASE j = m + 1
            <7>1. n + 1 \in 1..(n + 1) /\ n + 1 > a
              BY <2>3, <5>1
            <7> QED BY <2>3, <4>1, <6>1, <7>1
          <6>2. CASE j # m + 1
            <7>1. j \in 1..m /\ j \in DOMAIN k
              BY <2>5, <6>2
            <7>2. PICK b \in 1..n : b > a /\ u[b] = k[j]
              BY <5>2, <5>4, <7>1
            <7>3. b \in 1..(n + 1)
              BY <2>3
            <7> QED BY <2>3, <4>1, <7>1, <7>2, <7>3
          <6> QED BY <6>1, <6>2
        <5> QED BY <5>3, <5>4
      <4> QED BY <4>2, <4>3
    <3>2. CASE e \notin S
      <4>1. h = k
        BY <2>1, <3>2
      <4> SUFFICES ASSUME NEW a \in 1..(n + 1), v[a] \in S
                   PROVE  \E i \in DOMAIN k : k[i] = v[a] /\ \A j \in DOMAIN k : j > i => \E b \in 1..(n + 1) : b > a /\ v[b] = k[j]
        BY <2>3, <4>1
      <4>2. a \in 1..n /\ u[a] = v[a]
        BY <2>3, <3>2
      <4>3. PICK i \in DOMAIN k : k[i] = u[a] /\ \A j \in DOMAIN k : j > i => \E b \in 1..n : b > a /\ u[b] = k[j]
        BY <2>3, <2>4, <4>2
      <4>4. \A b \in 1..n : b \in 1..(n + 1) /\ v[b] = u[b]
        BY <2>3
      <4> QED BY <4>2, <4>3, <4>4
    <3> QED BY <3>1, <3>2
  <2> QED BY <2>3, <2>6 DEF G, v, h
<1> HIDE DEF G
<1>3. s \in G
  BY <1>1, <1>2, SequencesGrow
<1> QED BY <1>3 DEF G
=============================================================================

----------------------------- MODULE StepByStep -----------------------------
(***************************************************************************)
(* Induction over the natural numbers, and the functions it defines: what  *)
(* a recursive function of a model computes is proved by counting, because *)
(* the induction theorems of the library take an operator.  They follow    *)
(* from NatLessThanWellFounded and WFMin, which do not.                    *)
(***************************************************************************)
EXTENDS Integers, WellFoundedInduction, TLAPS

(* A set of numbers has a least one *)
LEMMA LeastMember ==
  ASSUME NEW S \in SUBSET Nat, S # {}
  PROVE  \E n \in S : \A m \in S : n <= m
<1>1. PICK n \in S : \A m \in S : <<m, n>> \notin OpToRel(<, Nat)
  BY NatLessThanWellFounded, WFMin
<1>2. \A m \in S : m \in Nat /\ n \in Nat /\ ~ (m < n)
  BY <1>1 DEF OpToRel
<1> QED
  BY <1>2

(* What holds of 0 and goes on holds of every number *)
LEMMA Counting ==
  ASSUME NEW S, 0 \in S, \A n \in Nat : n \in S => n + 1 \in S
  PROVE  Nat \subseteq S
<1> SUFFICES ASSUME Nat \ S # {}
             PROVE  FALSE
  OBVIOUS
<1>1. PICK n \in Nat \ S : \A m \in Nat \ S : n <= m
  BY LeastMember
<1>2. n # 0 /\ n - 1 \in Nat /\ ~ (n <= n - 1)
  BY <1>1
<1>3. n - 1 \in S
  BY <1>1, <1>2
<1> QED
  BY <1>1, <1>2, <1>3

(* A walk of N steps, each from the place the one before led to; there is one *)
Walks(g, b, N, F) == g[0] = b /\ \A i \in 1 .. N : g[i] = F[<<i, g[i - 1]>>]
LEMMA WalksExist ==
  ASSUME NEW V, NEW b \in V, NEW N \in Nat, NEW F \in [(1 .. N) \X V -> V]
  PROVE  \E g \in [0 .. N -> V] : Walks(g, b, N, F)
<1> DEFINE To(n, g) == g[0] = b /\ \A i \in 1 .. n : g[i] = F[<<i, g[i - 1]>>]
           D == {n \in Nat : n <= N => \E g \in [0 .. n -> V] : To(n, g)}
<1>1. 0 \in D
  <2>1. [i \in 0 .. 0 |-> b] \in [0 .. 0 -> V] /\ To(0, [i \in 0 .. 0 |-> b])
    OBVIOUS
  <2> QED
    BY <2>1
<1>2. ASSUME NEW n \in Nat, n \in D
      PROVE  n + 1 \in D
  <2> SUFFICES ASSUME n + 1 <= N
               PROVE  \E g \in [0 .. n + 1 -> V] : To(n + 1, g)
    OBVIOUS
  <2>1. PICK g \in [0 .. n -> V] : To(n, g)
    BY <1>2
  <2> DEFINE last == F[<<n + 1, g[n]>>]
             h == [i \in 0 .. n + 1 |-> IF i = n + 1 THEN last ELSE g[i]]
  <2>2. last \in V
    <3>1. n \in 0 .. n /\ n + 1 \in 1 .. N
      OBVIOUS
    <3> QED
      BY <3>1
  <2>3. h \in [0 .. n + 1 -> V]
    <3> HIDE DEF last
    <3> QED
      BY <2>2
  <2>4. h[0] = b
    BY <2>1
  <2>5. ASSUME NEW i \in 1 .. n + 1
        PROVE  h[i] = F[<<i, h[i - 1]>>]
    <3>1. i - 1 \in 0 .. n /\ i - 1 # n + 1 /\ h[i - 1] = g[i - 1]
      OBVIOUS
    <3>2. CASE i = n + 1
      <4>1. h[n + 1] = F[<<n + 1, g[n]>>] /\ i - 1 = n
        BY <3>2
      <4> HIDE DEF h, last
      <4> QED
        BY <3>1, <3>2, <4>1
    <3>3. CASE i # n + 1
      BY <2>1, <3>1, <3>3
    <3> QED
      BY <3>2, <3>3
  <2> HIDE DEF h, last
  <2> QED
    BY <2>3, <2>4, <2>5
<1>3. N \in D
  <2> HIDE DEF D
  <2> QED
    BY <1>1, <1>2, Counting
<1> QED
  BY <1>3 DEF Walks

(* Repeating one step for ever *)
LEMMA RepeatsExist ==
  ASSUME NEW V, NEW b \in V, NEW F \in [V -> V]
  PROVE  \E g \in [Nat -> V] : g[0] = b /\ \A i \in Nat : g[i + 1] = F[g[i]]
<1> DEFINE For(n, g) == /\ g \in [0 .. n -> V] /\ g[0] = b
                        /\ \A i \in 1 .. n : g[i] = F[g[i - 1]]
           to(n) == CHOOSE g : For(n, g)
           g == [n \in Nat |-> to(n)[n]]
<1>1. ASSUME NEW n \in Nat PROVE For(n, to(n))
  <2> DEFINE H == [p \in (1 .. n) \X V |-> F[p[2]]]
  <2>1. H \in [(1 .. n) \X V -> V]
    OBVIOUS
  <2>2. PICK h \in [0 .. n -> V] : Walks(h, b, n, H)
    <3> HIDE DEF H
    <3> QED
      BY <2>1, WalksExist
  <2>3. \A i \in 1 .. n : i - 1 \in 0 .. n
    OBVIOUS
  <2>4. \A i \in 1 .. n : H[<<i, h[i - 1]>>] = F[h[i - 1]]
    BY <2>2, <2>3
  <2>5. For(n, h)
    <3> HIDE DEF H
    <3> QED
      BY <2>2, <2>4 DEF Walks
  <2> HIDE DEF For
  <2> QED
    BY <2>5
<1>2. ASSUME NEW n \in Nat, NEW h, For(n, h), NEW k, For(n + 1, k)
      PROVE  \A i \in 0 .. n : h[i] = k[i]
  <2> DEFINE D == {i \in Nat : i <= n => h[i] = k[i]}
  <2>1. 0 \in D
    BY <1>2
  <2>2. ASSUME NEW i \in Nat, i \in D PROVE i + 1 \in D
    <3> SUFFICES ASSUME i + 1 <= n PROVE h[i + 1] = k[i + 1]
      OBVIOUS
    <3>1. i + 1 \in 1 .. n /\ i + 1 \in 1 .. n + 1 /\ (i + 1) - 1 = i /\ h[i] = k[i]
      BY <2>2
    <3> QED
      BY <1>2, <3>1
  <2>3. Nat \subseteq D
    <3> HIDE DEF D
    <3> QED
      BY <2>1, <2>2, Counting
  <2> QED
    BY <2>3
<1>3. ASSUME NEW n \in Nat
      PROVE  g[n] \in V /\ g[n] = to(n)[n] /\ g[n + 1] = F[g[n]]
  <2>1. For(n, to(n)) /\ For(n + 1, to(n + 1)) /\ n + 1 \in Nat
    <3>1. n + 1 \in Nat
      OBVIOUS
    <3> HIDE DEF For, to
    <3> QED
      BY <1>1, <3>1
  <2>2. to(n)[n] = to(n + 1)[n]
    <3> HIDE DEF to, For
    <3>1. n \in 0 .. n
      OBVIOUS
    <3> QED
      BY <1>2, <2>1, <3>1
  <2> HIDE DEF to
  <2>3. /\ n \in 0 .. n /\ n + 1 \in 1 .. n + 1 /\ (n + 1) - 1 = n
    OBVIOUS
  <2>4. to(n)[n] \in V /\ to(n + 1)[n + 1] = F[to(n + 1)[n]]
    BY <2>1, <2>3
  <2> QED
    BY <2>2, <2>4
<1>4. g[0] = b
  <2>1. For(0, to(0))
    BY <1>1
  <2> HIDE DEF to
  <2> QED
    BY <2>1
<1>5. g \in [Nat -> V]
  <2> HIDE DEF to
  <2> QED
    BY <1>3
<1> HIDE DEF g
<1> QED
  BY <1>3, <1>4, <1>5
=============================================================================

------------------------------- MODULE Counting -------------------------------
(***************************************************************************)
(* Induction over the numbers, said of a set, and the functions that are   *)
(* given by their first value and by each value from the one before: what  *)
(* the proofs about loops rest on.                                         *)
(***************************************************************************)
EXTENDS Integers, WellFoundedInduction, TLAPS

LEMMA Minimum ==
  ASSUME NEW S, S \subseteq Nat, S # {}
  PROVE  \E m \in S : \A n \in S : m <= n
<1> DEFINE R == {p \in Nat \X Nat : p[1] < p[2]}
<1>1. PICK m \in S : \A n \in S : ~ (<<n, m>> \in R)
  <2>1. IsWellFoundedOn(R, Nat)
    BY NatLessThanWellFounded DEF OpToRel
  <2> HIDE DEF R
  <2> QED
    BY <2>1, WFMin
<1>2. \A n \in S : ~ (n < m)
  BY <1>1
<1> QED
  BY <1>2

LEMMA Induction ==
  ASSUME NEW S, 0 \in S, \A n \in Nat : n \in S => n + 1 \in S
  PROVE  \A n \in Nat : n \in S
<1> SUFFICES ASSUME Nat \ S # {} PROVE FALSE
  OBVIOUS
<1>1. PICK m \in Nat \ S : \A n \in Nat \ S : m <= n
  BY Minimum
<1>2. m # 0 /\ m - 1 \in Nat /\ m - 1 \in S
  BY <1>1
<1> QED
  BY <1>1, <1>2

\* A function given by its first value and by each value from the one before.
Unrolls(f, a, F, n) == /\ f[0] = a
                       /\ \A k \in 1 .. n : f[k] = F[<<f[k - 1], k>>]

LEMMA Unrolling ==
  ASSUME NEW D, NEW n \in Nat, NEW a \in D, NEW F \in [D \X (1 .. n) -> D]
  PROVE  \E f \in [0 .. n -> D] : Unrolls(f, a, F, n)
<1> DEFINE S == {m \in Nat : m <= n => \E f \in [0 .. m -> D] : Unrolls(f, a, F, m)}
<1>1. 0 \in S
  <2>1. [k \in 0 .. 0 |-> a] \in [0 .. 0 -> D] /\ Unrolls([k \in 0 .. 0 |-> a], a, F, 0)
    BY DEF Unrolls
  <2> QED
    BY <2>1
<1>2. ASSUME NEW m \in Nat, m \in S PROVE m + 1 \in S
  <2> SUFFICES ASSUME m + 1 <= n PROVE \E g \in [0 .. m + 1 -> D] : Unrolls(g, a, F, m + 1)
    OBVIOUS
  <2>1. PICK f \in [0 .. m -> D] : Unrolls(f, a, F, m)
    BY <1>2
  <2> DEFINE g == [k \in 0 .. m + 1 |-> IF k = m + 1 THEN F[<<f[m], m + 1>>] ELSE f[k]]
  <2>2. f[m] \in D /\ m + 1 \in 1 .. n
    BY <2>1
  <2>3. <<f[m], m + 1>> \in D \X (1 .. n)
    BY <2>2
  <2>4. g \in [0 .. m + 1 -> D]
    BY <2>1, <2>3
  <2>5. Unrolls(g, a, F, m + 1)
    <3>1. g[0] = a
      BY <2>1 DEF Unrolls
    <3>2. ASSUME NEW k \in 1 .. m + 1 PROVE g[k] = F[<<g[k - 1], k>>]
      <4>1. CASE k = m + 1
        <5>1. g[k] = F[<<f[m], k>>] /\ k - 1 = m /\ g[m] = f[m]
          BY <4>1
        <5> QED
          BY <5>1
      <4>2. CASE k # m + 1
        <5>1. k \in 1 .. m /\ g[k] = f[k] /\ g[k - 1] = f[k - 1]
          BY <4>2
        <5> QED
          BY <5>1, <2>1 DEF Unrolls
      <4> QED
        BY <4>1, <4>2
    <3> HIDE DEF g
    <3> QED
      BY <3>1, <3>2 DEF Unrolls
  <2> HIDE DEF g
  <2> QED
    BY <2>4, <2>5
<1> HIDE DEF S
<1>3. n \in S
  BY <1>1, <1>2, Induction
<1> QED
  BY <1>3 DEF S

\* What a step keeps holds as far as the steps go.
LEMMA Staying ==
  ASSUME NEW D, NEW n \in Nat, NEW f, f[0] \in D,
         \A k \in 1 .. n : f[k - 1] \in D => f[k] \in D
  PROVE  \A k \in 0 .. n : f[k] \in D
<1> DEFINE S == {k \in Nat : k <= n => f[k] \in D}
<1>1. 0 \in S
  OBVIOUS
<1>2. ASSUME NEW k \in Nat, k \in S PROVE k + 1 \in S
  <2> SUFFICES ASSUME k + 1 <= n PROVE f[k + 1] \in D
    OBVIOUS
  <2>1. k + 1 \in 1 .. n /\ (k + 1) - 1 = k /\ f[k] \in D
    BY <1>2
  <2> QED
    BY <2>1
<1> HIDE DEF S
<1>3. \A k \in Nat : k \in S
  BY <1>1, <1>2, Induction
<1> QED
  BY <1>3 DEF S

LEMMA Maximum ==
  ASSUME NEW S, S \subseteq Nat, S # {}, NEW b \in Nat, \A n \in S : n <= b
  PROVE  \E m \in S : \A n \in S : n <= m
<1> DEFINE R == {b - n : n \in S}
<1>1. R \subseteq Nat /\ R # {}
  <2>1. \A n \in S : b - n \in Nat
    OBVIOUS
  <2> QED
    BY <2>1
<1>2. PICK r \in R : \A n \in R : r <= n
  <2> HIDE DEF R
  <2> QED
    BY <1>1, Minimum
<1>3. PICK m \in S : r = b - m
  BY <1>2
<1>4. ASSUME NEW n \in S PROVE n <= m
  <2>1. b - n \in R /\ n \in Nat /\ m \in Nat
    OBVIOUS
  <2> QED
    BY <1>2, <1>3, <2>1
<1> QED
  BY <1>3, <1>4
=============================================================================

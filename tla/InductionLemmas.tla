--------------------------- MODULE InductionLemmas ---------------------------
(***************************************************************************)
(* Induction and iteration over the naturals, stated with sets and         *)
(* functions where the library states them with operators.                 *)
(***************************************************************************)
EXTENDS FiniteSetTheorems, TLAPS

(* A nonempty set of naturals has a least element.                         *)
LEMMA LeastNatural ==
  ASSUME NEW T, T \subseteq Nat, T # {}
  PROVE  \E x \in T : \A y \in T : x <= y
<1> DEFINE R == OpToRel(<, Nat)
<1>1. IsWellFoundedOn(R, Nat)
  BY NatLessThanWellFounded
<1>2. \A x, y \in Nat : y < x => <<y, x>> \in R
  BY DEF OpToRel
<1> HIDE DEF R
<1>3. PICK x \in T : \A y \in T : ~(<<y, x>> \in R)
  BY <1>1, WFMin
<1>4. \A y \in T : ~(y < x)
  BY <1>2, <1>3
<1> QED BY <1>3, <1>4

(* Induction over the naturals, for a set instead of a predicate.          *)
LEMMA SetInduction ==
  ASSUME NEW S, 0 \in S, \A n \in Nat : n \in S => n + 1 \in S
  PROVE  Nat \subseteq S
<1> SUFFICES ASSUME Nat \ S # {} PROVE FALSE
  OBVIOUS
<1>1. PICK x \in Nat \ S : \A y \in Nat \ S : x <= y
  BY LeastNatural
<1>2. x - 1 \in Nat /\ ~(x <= x - 1)
  BY <1>1
<1>3. x - 1 \in S
  BY <1>1, <1>2
<1>4. (x - 1) + 1 = x
  BY <1>1
<1> QED BY <1>1, <1>2, <1>3, <1>4

(* g lists the results of applying the step F n times, starting from v.    *)
Iterates(g, v, F, n) == g[0] = v /\ \A i \in 1 .. n : g[i] = F[<<g[i - 1], i>>]

(* A step F on V can be iterated any number of times from v.               *)
LEMMA IterationExists ==
  ASSUME NEW V, NEW v \in V, NEW F \in [V \X Nat -> V], NEW n \in Nat
  PROVE  \E g \in [0 .. n -> V] : Iterates(g, v, F, n)
<1> DEFINE S == {k \in Nat : \E g \in [0 .. k -> V] : Iterates(g, v, F, k)}
<1>1. 0 \in S
  <2>1. Iterates([i \in 0 .. 0 |-> v], v, F, 0)
    BY DEF Iterates
  <2> QED BY <2>1
<1>2. ASSUME NEW k \in Nat, k \in S PROVE k + 1 \in S
  <2>1. PICK g \in [0 .. k -> V] : Iterates(g, v, F, k)
    BY <1>2
  <2> DEFINE h == [i \in 0 .. k + 1 |-> IF i <= k THEN g[i] ELSE F[<<g[k], k + 1>>]]
  <2>2. h \in [0 .. k + 1 -> V]
    OBVIOUS
  <2>3. h[0] = v
    BY <2>1 DEF Iterates
  <2>4. ASSUME NEW i \in 1 .. k + 1 PROVE h[i] = F[<<h[i - 1], i>>]
    <3>1. i - 1 \in 0 .. k /\ h[i - 1] = g[i - 1]
      OBVIOUS
    <3>2. CASE i <= k
      BY <2>1, <3>1, <3>2 DEF Iterates
    <3>3. CASE i = k + 1
      <4>1. h[k + 1] = F[<<g[k], k + 1>>]
        OBVIOUS
      <4>2. h[i - 1] = g[k]
        BY <3>1, <3>3
      <4> HIDE DEF h
      <4> QED BY <3>3, <4>1, <4>2
    <3> QED BY <3>2, <3>3
  <2>5. Iterates(h, v, F, k + 1)
    BY <2>3, <2>4 DEF Iterates
  <2> HIDE DEF h
  <2> QED BY <2>2, <2>5
<1>3. Nat \subseteq S
  <2> HIDE DEF S
  <2> QED BY <1>1, <1>2, SetInduction
<1> QED BY <1>3

(* A function leads from a member of W[0] to one of W[n], if each of its   *)
(* values is one step further than the value before.                       *)
LEMMA Reached ==
  ASSUME NEW W, NEW f, NEW n \in Nat, f[0] \in W[0],
         \A i \in 1 .. n : f[i - 1] \in W[i - 1] => f[i] \in W[i]
  PROVE  f[n] \in W[n]
<1> DEFINE T == {i \in Nat : i <= n => f[i] \in W[i]}
<1>1. 0 \in T
  OBVIOUS
<1>2. ASSUME NEW i \in Nat, i \in T PROVE i + 1 \in T
  <2>1. CASE i + 1 <= n
    <3>1. i + 1 \in 1 .. n /\ (i + 1) - 1 = i /\ i <= n
      BY <2>1
    <3> QED BY <1>2, <3>1
  <2>2. CASE ~ (i + 1 <= n)
    BY <2>2
  <2> QED BY <2>1, <2>2
<1>3. Nat \subseteq T
  <2> HIDE DEF T
  <2> QED BY <1>1, <1>2, SetInduction
<1> QED BY <1>3
=============================================================================

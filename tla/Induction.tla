------------------------------ MODULE Induction ------------------------------
(***************************************************************************)
(* Induction over the natural numbers, stated for sets instead of           *)
(* predicates so that the provers can use it, and what follows from it for   *)
(* least elements and for functions defined by recursion.  Nothing in here   *)
(* is about the program; the proofs of the components cite it.               *)
(***************************************************************************)
EXTENDS Integers, WellFoundedInduction, TLAPS

\* Every set of natural numbers that is not empty has a least element, since
\* < is well-founded.
LEMMA LeastNatural ==
  ASSUME NEW T, T \subseteq Nat, T # {}
  PROVE  \E x \in T : \A y \in T : x <= y
<1> DEFINE R == OpToRel(<, Nat)
<1>1. IsWellFoundedOn(R, Nat)
  BY NatLessThanWellFounded, Zenon
<1> HIDE DEF R
<1>2. PICK x \in T : \A y \in T : ~(<<y, x>> \in R)
  BY <1>1, WFMin
<1>3. \A y \in T : y < x => <<y, x>> \in R
  BY DEF R, OpToRel
<1>4. ASSUME NEW y \in T PROVE x <= y
  <2>1. x \in Nat /\ y \in Nat
    OBVIOUS
  <2>2. ~(y < x)
    BY <1>2, <1>3
  <2>3. QED BY <2>1, <2>2
<1>5. QED BY <1>4

\* A set that has m, and with each number below n the next, has all of m to n.
LEMMA IntervalInduction ==
  ASSUME NEW m \in Nat, NEW n \in Nat, NEW S,
         m \in S, \A i \in m..(n - 1) : i \in S => i + 1 \in S
  PROVE  \A i \in m..n : i \in S
<1> DEFINE T == {i \in m..n : i \notin S}
<1>1. SUFFICES ASSUME T # {} PROVE FALSE
  OBVIOUS
<1>2. T \subseteq Nat
  OBVIOUS
<1>3. PICK x \in T : \A y \in T : x <= y
  <2> HIDE DEF T
  <2>1. QED BY <1>1, <1>2, LeastNatural
<1>4. x \in m..n /\ x \notin S /\ x # m
  OBVIOUS
<1>5. x - 1 \in m..(n - 1) /\ x - 1 \notin T
  BY <1>3, <1>4
<1>6. x - 1 \in S
  BY <1>5
<1>7. (x - 1) + 1 = x
  BY <1>4
<1>8. QED BY <1>4, <1>5, <1>6, <1>7

\* g starts with v0, and every further value is step of the one before.
Computes(g, n, v0, step) ==
  g[0] = v0 /\ \A i \in 1..n : g[i] = step[<<g[i - 1], i>>]

\* Such a function exists: a recursive definition over 0..n has a value.
LEMMA Recursion ==
  ASSUME NEW V, NEW n \in Nat, NEW v0 \in V, NEW step \in [V \X (1..n) -> V]
  PROVE  \E g \in [0..n -> V] : Computes(g, n, v0, step)
<1> DEFINE S == {k \in 0..n : \E g \in [0..k -> V] : Computes(g, k, v0, step)}
<1>1. 0 \in S
  <2> DEFINE g == [i \in 0..0 |-> v0]
  <2>1. g \in [0..0 -> V] /\ g[0] = v0
    OBVIOUS
  <2>2. Computes(g, 0, v0, step)
    BY <2>1 DEF Computes
  <2>3. 0 \in 0..n
    OBVIOUS
  <2> HIDE DEF g
  <2>4. QED BY <2>1, <2>2, <2>3
<1>2. ASSUME NEW k \in 0..(n - 1), k \in S PROVE k + 1 \in S
  <2>1. PICK g \in [0..k -> V] : Computes(g, k, v0, step)
    BY <1>2
  <2> DEFINE h == [i \in 0..(k + 1) |-> IF i = k + 1 THEN step[<<g[k], k + 1>>] ELSE g[i]]
  <2>2. step[<<g[k], k + 1>>] \in V
    <3>1. <<g[k], k + 1>> \in V \X (1..n)
      OBVIOUS
    <3>2. QED BY <3>1
  <2>3. h \in [0..(k + 1) -> V]
    BY <2>2
  <2>4. h[0] = v0
    BY <2>1 DEF Computes
  <2>5. ASSUME NEW i \in 1..(k + 1) PROVE h[i] = step[<<h[i - 1], i>>]
    <3>1. CASE i = k + 1
      <4>1. k \in 0..(k + 1) /\ k # k + 1 /\ (k + 1) - 1 = k /\ k + 1 \in 0..(k + 1)
        OBVIOUS
      <4>2. h[k + 1] = step[<<g[k], k + 1>>] /\ h[k] = g[k]
        BY <4>1
      <4>3. QED BY <3>1, <4>1, <4>2
    <3>2. CASE i # k + 1
      <4>1. i \in 1..k /\ h[i] = g[i] /\ h[i - 1] = g[i - 1]
        BY <3>2
      <4>2. QED BY <2>1, <4>1 DEF Computes
    <3>3. QED BY <3>1, <3>2
  <2>6. Computes(h, k + 1, v0, step)
    BY <2>4, <2>5 DEF Computes
  <2> HIDE DEF h
  <2>7. k + 1 \in 0..n
    OBVIOUS
  <2>8. QED BY <2>3, <2>6, <2>7
<1> HIDE DEF S
<1>3. n \in S
  BY <1>1, <1>2, IntervalInduction
<1>4. QED BY <1>3 DEF S
=============================================================================

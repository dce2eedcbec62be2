-------------------------- MODULE RecursionLemmas --------------------------
(***************************************************************************)
(* That a value computed along a sequence, one element at a time, is       *)
(* defined, and that it is determined step by step.  The steps are those   *)
(* of a function st from the value so far and an element to the next value.*)
(***************************************************************************)
EXTENDS Integers, Sequences, SequenceTheorems, WellFoundedInduction, TLAPS

\* A set of natural numbers has a least element.
LEMMA Least ==
  ASSUME NEW T, T \subseteq Nat, T # {}
  PROVE  \E x \in T : \A y \in T : x <= y
<1> DEFINE R == OpToRel(<, Nat)
<1>1. IsWellFoundedOn(R, Nat)
  BY NatLessThanWellFounded
<1>2. R = {ss \in Nat \X Nat : ss[1] < ss[2]}
  BY Zenon DEF OpToRel
<1> HIDE DEF R
<1>3. PICK x \in T : \A y \in T : ~ (<<y, x>> \in R)
  BY <1>1, WFMin
<1>4. \A y \in T : ~ (y < x)
  BY <1>2, <1>3
<1> QED
  BY <1>4

\* What begins equal and stays equal from each step to the next is equal.
LEMMA StepByStep ==
  ASSUME NEW n \in Nat, NEW f, NEW g, f[0] = g[0],
         \A i \in 1..n : f[i - 1] = g[i - 1] => f[i] = g[i]
  PROVE  \A i \in 0..n : f[i] = g[i]
<1> DEFINE T == {i \in 0..n : f[i] # g[i]}
<1>1. SUFFICES ASSUME T # {} PROVE FALSE
  OBVIOUS
<1>2. PICK i \in T : \A j \in T : i <= j
  <2>1. T \subseteq Nat
    OBVIOUS
  <2> HIDE DEF T
  <2> QED
    BY <1>1, <2>1, Least
<1>3. i \in 1..n
  BY <1>2
<1>4. i - 1 \in 0..n /\ ~(i <= i - 1)
  BY <1>3
<1>5. f[i - 1] = g[i - 1]
  BY <1>2, <1>4
<1> QED
  BY <1>2, <1>3, <1>5

\* The values along the first n elements of s.
IsAlong(f, st, a, s, n) == f[0] = a /\ \A i \in 1..n : f[i] = st[<<f[i - 1], s[i]>>]

\* There are such values along a whole sequence.
LEMMA AlongExists ==
  ASSUME NEW A, NEW B, NEW st \in [A \X B -> A], NEW a \in A, NEW s \in Seq(B)
  PROVE  \E f \in [0..Len(s) -> A] : IsAlong(f, st, a, s, Len(s))
<1> DEFINE Has(n) == \E f \in [0..n -> A] : IsAlong(f, st, a, s, n)
           T == {n \in 0..Len(s) : ~Has(n)}
<1>1. Len(s) \in Nat /\ \A i \in 1..Len(s) : s[i] \in B
  BY ElementOfSeq
<1>2. SUFFICES ASSUME T # {} PROVE FALSE
  BY <1>1
<1>3. PICK n \in T : \A j \in T : n <= j
  <2>1. T \subseteq Nat
    OBVIOUS
  <2> HIDE DEF T
  <2> QED
    BY <1>2, <2>1, Least
<1>4. CASE n = 0
  <2>1. [i \in 0..0 |-> a] \in [0..0 -> A] /\ IsAlong([i \in 0..0 |-> a], st, a, s, 0)
    BY DEF IsAlong
  <2> QED
    BY <1>3, <1>4, <2>1
<1>5. CASE n # 0
  <2>1. n \in 1..Len(s) /\ n - 1 \in 0..Len(s) /\ ~(n <= n - 1)
    BY <1>1, <1>3, <1>5
  <2>2. Has(n - 1)
    BY <1>3, <2>1
  <2>3. PICK f \in [0..(n - 1) -> A] : IsAlong(f, st, a, s, n - 1)
    BY <2>2
  <2> DEFINE next == st[<<f[n - 1], s[n]>>]
             g == [i \in 0..n |-> IF i = n THEN next ELSE f[i]]
  <2>4. next \in A
    BY <1>1, <2>1
  <2>5. g \in [0..n -> A]
    BY <2>1, <2>4
  <2>6. IsAlong(g, st, a, s, n)
    <3>1. g[0] = a
      BY <2>1, <2>3 DEF IsAlong
    <3>2. ASSUME NEW i \in 1..n
          PROVE  g[i] = st[<<g[i - 1], s[i]>>]
      <4>1. i - 1 \in 0..(n - 1) /\ g[i - 1] = f[i - 1]
        BY <2>1
      <4>2. CASE i = n
        <5>1. g[i] = next
          BY <4>2
        <5>2. next = st[<<g[i - 1], s[i]>>]
          BY <4>1, <4>2
        <5> HIDE DEF next, g
        <5> QED
          BY <5>1, <5>2
      <4>3. CASE i # n
        <5>1. i \in 1..(n - 1) /\ g[i] = f[i]
          BY <2>1, <4>3
        <5> QED
          BY <2>3, <4>1, <5>1 DEF IsAlong
      <4> QED
        BY <4>2, <4>3
    <3> QED
      BY <3>1, <3>2 DEF IsAlong
  <2>7. Has(n)
    BY <2>5, <2>6
  <2> QED
    BY <1>3, <2>7
<1> QED
  BY <1>4, <1>5
=============================================================================

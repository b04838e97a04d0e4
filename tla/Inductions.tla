------------------------------ MODULE Inductions ------------------------------
(***************************************************************************)
(* Induction over the natural numbers, stated with sets so that first-     *)
(* order provers can use it: the library's induction theorems take an      *)
(* operator as a parameter.  It is derived from the well-foundedness of <. *)
(* The proofs about recursively defined functions of the models cite it:   *)
(* a walk along next hops, a filtered list.                                *)
(***************************************************************************)
EXTENDS Integers, TLAPS, WellFoundedInduction

\* A set of natural numbers has a least element.
LEMMA LeastNatural ==
  ASSUME NEW T, T \subseteq Nat, T # {}
  PROVE  \E x \in T : \A y \in T : x <= y
<1> DEFINE R == OpToRel(<, Nat)
<1>1. IsWellFoundedOn(R, Nat)
  BY NatLessThanWellFounded
<1>2. \A x, y \in Nat : <<y, x>> \in R <=> y < x
  BY DEF OpToRel
<1> HIDE DEF R
<1>3. PICK x \in T : \A y \in T : ~ (<<y, x>> \in R)
  BY <1>1, WFMin
<1>4. \A y \in T : x <= y
  <2> TAKE y \in T
  <2>1. x \in Nat /\ y \in Nat
    OBVIOUS
  <2>2. ~ (<<y, x>> \in R)
    BY <1>3
  <2>3. ~ (y < x)
    BY <1>2, <2>1, <2>2
  <2> QED
    BY <2>1, <2>3
<1> QED
  BY <1>4

\* What holds of 0 and is passed on from i to i + 1 holds up to n.
LEMMA BoundedInduction ==
  ASSUME NEW n \in Nat, NEW S, 0 \in S, \A i \in 0 .. n - 1 : i \in S => i + 1 \in S
  PROVE  0 .. n \subseteq S
<1> DEFINE T == (0 .. n) \ S
<1>1. SUFFICES ASSUME T # {} PROVE FALSE
  OBVIOUS
<1>2. PICK x \in T : \A y \in T : x <= y
  <2>1. T \subseteq Nat
    OBVIOUS
  <2> HIDE DEF T
  <2> QED
    BY <1>1, <2>1, LeastNatural
<1>3. x - 1 \in 0 .. n - 1 /\ x - 1 \notin T
  BY <1>2
<1>4. x - 1 \in S
  BY <1>3
<1> QED
  BY <1>2, <1>3, <1>4

\* f iterates the steps g from a: the value of f at i is made of that at i - 1.
Iterates(f, n, a, g) ==
  f = [i \in 0 .. n |-> IF i = 0 THEN a ELSE g[i][f[i - 1]]]

\* A function over 0 .. n that is defined by recursion exists.
LEMMA IterationExists ==
  ASSUME NEW V, NEW a \in V, NEW n \in Nat, NEW g \in [1 .. n -> [V -> V]]
  PROVE  \E f \in [0 .. n -> V] : Iterates(f, n, a, g)
<1> DEFINE Good(f, k) == /\ f \in [0 .. k -> V] /\ f[0] = a
                         /\ \A i \in 1 .. k : f[i] = g[i][f[i - 1]]
           S == {k \in 0 .. n : \E f \in [0 .. k -> V] : Good(f, k)}
<1>1. 0 \in S
  <2> DEFINE h == [i \in 0 .. 0 |-> a]
  <2>1. h \in [0 .. 0 -> V] /\ Good(h, 0)
    OBVIOUS
  <2>2. 0 \in 0 .. n
    OBVIOUS
  <2> HIDE DEF h
  <2> QED
    BY <2>1, <2>2
<1>2. ASSUME NEW k \in 0 .. n - 1, k \in S
      PROVE  k + 1 \in S
  <2>1. PICK f \in [0 .. k -> V] : Good(f, k)
    BY <1>2
  <2> DEFINE h == [i \in 0 .. k + 1 |-> IF i <= k THEN f[i] ELSE g[k + 1][f[k]]]
  <2>2. g[k + 1][f[k]] \in V
    <3>1. k + 1 \in 1 .. n /\ f[k] \in V
      BY <2>1
    <3> QED
      BY <3>1
  <2>3. h \in [0 .. k + 1 -> V] /\ h[0] = a
    BY <2>1, <2>2
  <2>4. ASSUME NEW i \in 1 .. k + 1
        PROVE  h[i] = g[i][h[i - 1]]
    <3>1. i - 1 \in 0 .. k /\ h[i - 1] = f[i - 1]
      OBVIOUS
    <3>2. CASE i <= k
      <4>1. i \in 1 .. k /\ h[i] = f[i]
        BY <3>2
      <4> QED
        BY <2>1, <3>1, <4>1
    <3>3. CASE i = k + 1
      <4>1. h[i] = g[k + 1][f[k]] /\ h[i - 1] = f[k]
        BY <3>1, <3>3
      <4> QED
        BY <3>3, <4>1
    <3> QED
      BY <3>2, <3>3
  <2>5. k + 1 \in 0 .. n
    OBVIOUS
  <2> HIDE DEF h
  <2> QED
    BY <2>3, <2>4, <2>5
<1> HIDE DEF S
<1>3. 0 .. n \subseteq S
  BY <1>1, <1>2, BoundedInduction
<1>4. PICK f \in [0 .. n -> V] : Good(f, n)
  BY <1>3 DEF S
<1>5. f = [i \in 0 .. n |-> IF i = 0 THEN a ELSE g[i][f[i - 1]]]
  <2> DEFINE h == [i \in 0 .. n |-> IF i = 0 THEN a ELSE g[i][f[i - 1]]]
  <2>1. \A i \in 0 .. n : f[i] = h[i]
    <3> TAKE i \in 0 .. n
    <3>1. CASE i = 0
      BY <1>4, <3>1
    <3>2. CASE i # 0
      <4>1. i \in 1 .. n
        BY <3>2
      <4> QED
        BY <1>4, <3>2, <4>1
    <3> QED
      BY <3>1, <3>2
  <2>2. h = [i \in 0 .. n |-> h[i]]
    OBVIOUS
  <2>3. f = [i \in 0 .. n |-> f[i]]
    OBVIOUS
  <2> HIDE DEF h
  <2>4. f = h
    BY <2>1, <2>2, <2>3
  <2> QED
    BY <2>4 DEF h
<1> QED
  BY <1>4, <1>5 DEF Iterates

=============================================================================

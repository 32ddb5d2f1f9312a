-------------------------- MODULE IterationTheorems --------------------------
(***************************************************************************)
(* Induction over the naturals, stated with sets so that the provers can   *)
(* use it, and what it says about a function that iterates another one:    *)
(* p[i] = g[p[i - 1]], the form of a walk along the alias table and of a   *)
(* breadth-first search against it.                                        *)
(***************************************************************************)
EXTENDS Naturals, WellFoundedInduction, TLAPS

\* Every set of natural numbers that is not empty has a least element.
LEMMA LeastNumber ==
  ASSUME NEW T, T \subseteq Nat, T # {}
  PROVE  \E x \in T : \A y \in T : x <= y
<1> DEFINE R == {ss \in Nat \X Nat : ss[1] < ss[2]}
<1>1. IsWellFoundedOn(R, Nat)
  BY NatLessThanWellFounded DEF OpToRel
<1>2. \E x \in T : \A y \in T : ~ (<<y, x>> \in R)
  <2> HIDE DEF R
  <2> QED BY <1>1, WFMin
<1>3. PICK x \in T : \A y \in T : ~ (<<y, x>> \in R)
  BY <1>2
<1>4. \A y \in T : ~ (y < x)
  BY <1>3
<1> QED BY <1>4

\* A set of naturals that holds 0 and, with every number, the next one below
\* a bound, holds everything up to the bound.
LEMMA InductionUpTo ==
  ASSUME NEW n \in Nat, NEW T, 0 \in T,
         \A i \in 0..n : i < n /\ i \in T => i + 1 \in T
  PROVE  0..n \subseteq T
<1> SUFFICES ASSUME NEW k \in 0..n, k \notin T PROVE FALSE
  OBVIOUS
<1> DEFINE U == {i \in 0..n : i \notin T}
<1>1. PICK m \in U : \A y \in U : m <= y
  <2>1. U \subseteq Nat /\ U # {}
    OBVIOUS
  <2> HIDE DEF U
  <2> QED BY <2>1, LeastNumber
<1>2. m # 0 /\ m - 1 \in 0..n /\ m - 1 < n
  OBVIOUS
<1>3. m - 1 \in T
  BY <1>1, <1>2
<1>4. (m - 1) + 1 \in T
  BY <1>2, <1>3
<1> QED BY <1>4

\* The recursive definition of the iterates of g from x0 has a solution, for
\* any number of steps.
Iterable(D) ==
  \A g \in [D -> D] : \A x0 \in D : \A n \in Nat :
    \E p \in [0..n -> D] : p[0] = x0 /\ \A i \in 1..n : p[i] = g[p[i - 1]]

\* Every set is iterable: by induction on the number of steps.
LEMMA IteratesExist == ASSUME NEW D PROVE Iterable(D)
<1> SUFFICES ASSUME NEW g \in [D -> D], NEW x0 \in D, NEW n \in Nat
             PROVE  \E p \in [0..n -> D] :
                       p[0] = x0 /\ \A i \in 1..n : p[i] = g[p[i - 1]]
  BY DEF Iterable
<1> DEFINE Solution(m) == \E p \in [0..m -> D] :
             /\ p[0] = x0
             /\ \A i \in 1..m : p[i] = g[p[i - 1]]
           T == {m \in 0..n : Solution(m)}
<1>1. 0 \in T
  <2> DEFINE p == [i \in 0..0 |-> x0]
  <2>1. p \in [0..0 -> D] /\ p[0] = x0 /\ \A i \in 1..0 : p[i] = g[p[i - 1]]
    OBVIOUS
  <2> HIDE DEF p
  <2>2. Solution(0)
    BY <2>1
  <2> HIDE DEF Solution
  <2> QED BY <2>2
<1>2. ASSUME NEW m \in 0..n, m < n, m \in T
      PROVE  m + 1 \in T
  <2>1. PICK q \in [0..m -> D] : q[0] = x0 /\ \A i \in 1..m : q[i] = g[q[i - 1]]
    BY <1>2
  <2> DEFINE p == [i \in 0..(m + 1) |-> IF i = 0 THEN x0 ELSE g[q[i - 1]]]
  <2>2. p \in [0..(m + 1) -> D]
    BY <2>1
  <2>3. \A i \in 0..m : p[i] = q[i]
    BY <2>1
  <2>4. \A i \in 1..(m + 1) : p[i] = g[p[i - 1]]
    <3> TAKE i \in 1..(m + 1)
    <3>1. i - 1 \in 0..m /\ p[i] = g[q[i - 1]]
      OBVIOUS
    <3> HIDE DEF p
    <3> QED BY <2>3, <3>1
  <2>5. p[0] = x0
    OBVIOUS
  <2> HIDE DEF p
  <2>6. Solution(m + 1)
    BY <2>2, <2>4, <2>5
  <2> HIDE DEF Solution
  <2> QED BY <1>2, <2>6
<1>3. n \in T
  <2> HIDE DEF T
  <2> QED BY <1>1, <1>2, InductionUpTo
<1> QED BY <1>3

=============================================================================

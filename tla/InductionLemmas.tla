--------------------------- MODULE InductionLemmas ---------------------------
(***************************************************************************)
(* Induction on the natural numbers for the proofs of the other modules,   *)
(* with the statement to prove given as the set of numbers it holds for.   *)
(***************************************************************************)
EXTENDS Integers, WellFoundedInduction, TLAPS

\* A set of natural numbers has a least element (for the orders in which ids
\* are given, or a queue is searched).
THEOREM LeastNatural ==
  ASSUME NEW T, T \subseteq Nat, T # {}
  PROVE  \E x \in T : \A y \in T : x <= y
<1>. DEFINE R == {ss \in Nat \X Nat : ss[1] < ss[2]}
<1>1. IsWellFoundedOn(R, Nat)
  BY NatLessThanWellFounded DEF OpToRel
<1>2. \E x \in T : \A y \in T : ~(<<y, x>> \in R)
  <2>. HIDE DEF R
  <2>. QED
    BY <1>1, WFMin
<1>3. PICK x \in T : \A y \in T : ~(<<y, x>> \in R)
  BY <1>2
<1>4. ASSUME NEW y \in T PROVE x <= y
  <2>1. x \in Nat /\ y \in Nat
    OBVIOUS
  <2>2. ~(<<y, x>> \in R)
    BY <1>3
  <2>3. ~(y < x)
    BY <2>1, <2>2
  <2>. QED
    BY <2>1, <2>3
<1>. QED
  BY <1>4

\* A set of natural numbers with an upper bound has a greatest element.
THEOREM GreatestNatural ==
  ASSUME NEW T, T \subseteq Nat, T # {}, NEW b \in Nat, \A x \in T : x <= b
  PROVE  \E x \in T : \A y \in T : y <= x
<1>. DEFINE U == {k \in Nat : \A y \in T : y <= k}
<1>1. U \subseteq Nat /\ b \in U
  OBVIOUS
<1>2. PICK u \in U : \A k \in U : u <= k
  <2>. HIDE DEF U
  <2>. QED
    BY <1>1, LeastNatural
<1>3. u \in T
  <2>1. SUFFICES ASSUME u \notin T PROVE FALSE
    OBVIOUS
  <2>2. PICK t \in T : TRUE
    OBVIOUS
  <2>3. \A y \in T : y <= u - 1
    BY <2>1, <1>2
  <2>4. u - 1 \in U
    BY <2>2, <2>3, <1>2
  <2>. QED
    BY <2>4, <1>2
<1>. QED
  BY <1>2, <1>3

\* Induction up to a bound (for what is computed by one step per message).
THEOREM BoundedInduction ==
  ASSUME NEW n \in Nat, NEW T, 0 \in T,
         \A k \in 0..(n - 1) : k \in T => k + 1 \in T
  PROVE  \A k \in 0..n : k \in T
<1>. DEFINE U == {k \in 0..n : k \notin T}
<1>1. SUFFICES ASSUME U # {} PROVE FALSE
  OBVIOUS
<1>2. PICK u \in U : \A k \in U : u <= k
  <2>1. U \subseteq Nat
    OBVIOUS
  <2>. HIDE DEF U
  <2>. QED
    BY <2>1, <1>1, LeastNatural
<1>3. u # 0 /\ u - 1 \in 0..(n - 1)
  BY <1>2
<1>4. u - 1 \notin U
  BY <1>2, <1>3
<1>. QED
  BY <1>2, <1>3, <1>4

\* A function by recursion up to a bound, with the step of the recursion given
\* as a function.
IsRecursion(f, n, S, a, F) ==
  f \in [0..n -> S] /\ f[0] = a /\ \A k \in 1..n : f[k] = F[k][f[k - 1]]

\* There is such a function (for what a run of steps comes to).
THEOREM BoundedRecursion ==
  ASSUME NEW n \in Nat, NEW S, NEW a \in S, NEW F \in [1..n -> [S -> S]]
  PROVE  \E f : IsRecursion(f, n, S, a, F)
<1>. DEFINE Begins(f, k) == /\ f \in [0..k -> S]
                            /\ f[0] = a
                            /\ \A i \in 1..k : f[i] = F[i][f[i - 1]]
            T == {k \in 0..n : \E f : Begins(f, k)}
<1>1. 0 \in T
  <2>1. Begins([i \in 0..0 |-> a], 0)
    OBVIOUS
  <2>. HIDE DEF Begins
  <2>. QED
    BY <2>1
<1>2. ASSUME NEW k \in 0..(n - 1), k \in T PROVE k + 1 \in T
  <2>1. PICK f : Begins(f, k)
    BY <1>2
  <2>. DEFINE next == F[k + 1][f[k]]
              g == [i \in 0..(k + 1) |-> IF i = k + 1 THEN next ELSE f[i]]
  <2>2. f[k] \in S /\ k + 1 \in 1..n
    BY <2>1
  <2>3. next \in S
    BY <2>2
  <2>. HIDE DEF next
  <2>4. g \in [0..(k + 1) -> S] /\ g[0] = a
    BY <2>1, <2>3
  <2>5. ASSUME NEW i \in 1..(k + 1) PROVE g[i] = F[i][g[i - 1]]
    <3>1. CASE i = k + 1
      <4>1. g[i] = next /\ g[i - 1] = f[k]
        BY <3>1
      <4>. QED
        BY <3>1, <4>1 DEF next
    <3>2. CASE i \in 1..k
      <4>1. g[i] = f[i] /\ g[i - 1] = f[i - 1]
        BY <3>2
      <4>. QED
        BY <3>2, <4>1, <2>1
    <3>. QED
      BY <3>1, <3>2
  <2>6. Begins(g, k + 1)
    <3>. HIDE DEF g
    <3>. QED
      BY <2>4, <2>5
  <2>. HIDE DEF Begins, g
  <2>. QED
    BY <2>2, <2>6
<1>3. n \in T
  <2>. HIDE DEF T
  <2>1. \A k \in 0..n : k \in T
    BY <1>1, <1>2, BoundedInduction
  <2>. QED
    BY <2>1
<1>. QED
  BY <1>3 DEF IsRecursion
=============================================================================

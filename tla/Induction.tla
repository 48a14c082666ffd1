----------------------------- MODULE Induction -----------------------------
(***************************************************************************)
(* Induction over the natural numbers in a form that first-order provers   *)
(* can use: a set of numbers instead of a predicate.  It follows from the  *)
(* well-foundedness of inclusion between finite sets.                      *)
(***************************************************************************)
EXTENDS Naturals, FiniteSetTheorems, TLAPS

(* A set of numbers that is not empty has a least element.                 *)
LEMMA LeastElement ==
  ASSUME NEW T, T \subseteq Nat, T # {}
  PROVE  \E x \in T : \A y \in T : x <= y
<1> DEFINE U == {1 .. n : n \in T}
<1>1. U \subseteq FiniteSubsetsOf(Nat) /\ U # {}
  <2>1. ASSUME NEW n \in T
        PROVE  1 .. n \in SUBSET Nat /\ IsFiniteSet(1 .. n)
    <3>1. n \in Int /\ 1 \in Int
      OBVIOUS
    <3> QED
      BY <3>1, FS_Interval
  <2> QED
    BY <2>1 DEF FiniteSubsetsOf
<1>2. PICK m \in U : \A v \in U : <<v, m>> \notin StrictSubsetOrdering(Nat)
  <2> HIDE DEF U
  <2> QED
    BY <1>1, FS_StrictSubsetOrderingWellFounded, WFMin
<1>3. PICK x \in T : m = 1 .. x
  OBVIOUS
<1>4. ASSUME NEW y \in T, y < x
      PROVE  FALSE
  <2>1. /\ 1 .. y \in SUBSET Nat /\ 1 .. x \in SUBSET Nat
        /\ 1 .. y \subseteq 1 .. x
     BY <1>4
  <2>2. x \in 1 .. x /\ x \notin 1 .. y
    BY <1>4
  <2>3. <<1 .. y, 1 .. x>> \in StrictSubsetOrdering(Nat)
    BY <2>1, <2>2 DEF StrictSubsetOrdering
  <2> QED
    BY <1>2, <1>3, <2>3
<1> QED
  BY <1>4

(* A set with 0 that has with each number the next one has all numbers.    *)
LEMMA SetInduction ==
  ASSUME NEW S, 0 \in S, \A n \in Nat : n \in S => n + 1 \in S
  PROVE  \A n \in Nat : n \in S
<1> SUFFICES ASSUME Nat \ S # {}
             PROVE  FALSE
  OBVIOUS
<1>1. PICK x \in Nat \ S : \A y \in Nat \ S : x <= y
  <2>1. Nat \ S \subseteq Nat
    OBVIOUS
  <2> QED
    BY <2>1, LeastElement
<1>2. x # 0 /\ x - 1 \in Nat /\ x - 1 + 1 = x /\ ~(x <= x - 1)
  BY <1>1
<1> QED
  BY <1>1, <1>2

(* f begins with b and goes from each number to the next by a step of G.   *)
Iterates(f, S, b, G) == /\ f \in [Nat -> S]
                        /\ f[0] = b
                        /\ \A n \in Nat : f[n + 1] = G[n][f[n]]

(* A value and a step for each number define a function on the numbers.    *)
LEMMA Recursion ==
  ASSUME NEW S, NEW b \in S, NEW G \in [Nat -> [S -> S]]
  PROVE  \E f : Iterates(f, S, b, G)
<1> DEFINE Upto(n, f) == /\ f \in [0..n -> S]
                         /\ f[0] = b
                         /\ \A k \in 0..n : k < n => f[k + 1] = G[k][f[k]]
           Some == {n \in Nat : \E f \in [0..n -> S] : Upto(n, f)}
           Same == {k \in Nat : \A n \in Nat, m \in Nat :
                      \A f \in [0..n -> S], g \in [0..m -> S] :
                        Upto(n, f) /\ Upto(m, g) /\ k <= n /\ k <= m => f[k] = g[k]}
<1>1. \A n \in Nat : n \in Some
  <2>1. 0 \in Some
    <3>1. Upto(0, [k \in 0..0 |-> b])
      OBVIOUS
    <3> QED
      BY <3>1
  <2>2. ASSUME NEW n \in Nat, n \in Some
        PROVE  n + 1 \in Some
    <3>1. PICK f \in [0..n -> S] : Upto(n, f)
      BY <2>2
    <3> DEFINE g == [k \in 0..(n + 1) |-> IF k = n + 1 THEN G[n][f[n]] ELSE f[k]]
    <3>2. g \in [0..(n + 1) -> S]
      OBVIOUS
    <3>3. g[0] = b
      BY <3>1
    <3>4. ASSUME NEW k \in 0..(n + 1), k < n + 1
          PROVE  g[k + 1] = G[k][g[k]]
      <4>1. k \in 0..n /\ g[k] = f[k]
        BY <3>4
      <4>2. CASE k = n
        BY <4>1, <4>2
      <4>3. CASE k < n
        BY <3>1, <4>1, <4>3
      <4> QED
        BY <4>1, <4>2, <4>3
    <3>5. Upto(n + 1, g)
      BY <3>2, <3>3, <3>4
    <3> HIDE DEF Upto, g
    <3> QED
      BY <3>2, <3>5
  <2> HIDE DEF Some
  <2> QED
    BY <2>1, <2>2, SetInduction
<1>2. \A k \in Nat : k \in Same
  <2>1. 0 \in Same
    OBVIOUS
  <2>2. ASSUME NEW k \in Nat, k \in Same
        PROVE  k + 1 \in Same
    <3> SUFFICES ASSUME NEW n \in Nat, NEW m \in Nat, NEW f \in [0..n -> S], NEW g \in [0..m -> S],
                        Upto(n, f), Upto(m, g), k + 1 <= n, k + 1 <= m
                 PROVE  f[k + 1] = g[k + 1]
      <4> HIDE DEF Upto
      <4> QED
        OBVIOUS
    <3>1. k <= n /\ k <= m /\ k < n /\ k < m /\ k \in 0..n /\ k \in 0..m
      OBVIOUS
    <3>2. f[k] = g[k]
      <4> HIDE DEF Upto
      <4> QED
        BY <2>2, <3>1
    <3> QED
      BY <3>1, <3>2
  <2> HIDE DEF Same
  <2> QED
    BY <2>1, <2>2, SetInduction
<1> DEFINE pick == [n \in Nat |-> CHOOSE f \in [0..n -> S] : Upto(n, f)]
           h == [n \in Nat |-> pick[n][n]]
<1>3. \A n \in Nat : pick[n] \in [0..n -> S] /\ Upto(n, pick[n])
  <2> HIDE DEF Upto
  <2> QED
    BY <1>1
<1>4. h \in [Nat -> S] /\ h[0] = b
  <2> HIDE DEF pick
  <2> QED
    BY <1>3
<1>5. ASSUME NEW n \in Nat
      PROVE  h[n + 1] = G[n][h[n]]
  <2>1. /\ pick[n] \in [0..n -> S] /\ Upto(n, pick[n])
        /\ pick[n + 1] \in [0..(n + 1) -> S] /\ Upto(n + 1, pick[n + 1])
    <3> HIDE DEF pick, Upto
    <3> QED
      BY <1>3
  <2>2. pick[n][n] = pick[n + 1][n]
    <3> HIDE DEF pick, Upto
    <3>1. n \in Same /\ n <= n /\ n <= n + 1 /\ n + 1 \in Nat
      <4> HIDE DEF Same
      <4> QED
        BY <1>2
    <3> QED
      BY <2>1, <3>1
  <2>3. pick[n + 1][n + 1] = G[n][pick[n + 1][n]]
    <3>1. n \in 0..(n + 1) /\ n < n + 1
      OBVIOUS
    <3> HIDE DEF pick
    <3> QED
      BY <2>1, <3>1
  <2> HIDE DEF pick
  <2> QED
    BY <2>2, <2>3
<1>6. Iterates(h, S, b, G)
  <2> HIDE DEF h
  <2> QED
    BY <1>4, <1>5 DEF Iterates
<1> HIDE DEF h
<1> QED
  BY <1>6
=============================================================================

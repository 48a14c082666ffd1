---------------------------- MODULE ArithProofs ----------------------------
(***************************************************************************)
(* Proofs about Arith, for integers of any width and doubles of any        *)
(* precision two bits smaller: the laws of rounding, and from them what    *)
(* casts, comparisons and divisions do.                                    *)
(***************************************************************************)
EXTENDS Arith, Induction

-----------------------------------------------------------------------------
(* Powers of two                                                           *)

(* The recursive function is the one its equation says.                    *)
LEMMA PowIs ==
  /\ Pow2 \in [Nat -> Nat]
  /\ Pow2[0] = 1
  /\ \A n \in Nat : Pow2[n + 1] = 2 * Pow2[n]
<1> DEFINE twice == [n \in Nat |-> [v \in Nat |-> 2 * v]]
           Fits(f) == f = [n \in Nat |-> IF n = 0 THEN 1 ELSE 2 * f[n - 1]]
<1>1. PICK f : Iterates(f, Nat, 1, twice)
  <2>1. 1 \in Nat /\ twice \in [Nat -> [Nat -> Nat]]
    OBVIOUS
  <2> HIDE DEF twice
  <2> QED
    BY <2>1, Recursion
<1>2. f \in [Nat -> Nat] /\ f[0] = 1 /\ \A n \in Nat : f[n + 1] = 2 * f[n]
  BY <1>1 DEF Iterates
<1>3. Fits(f)
  <2>1. \A n \in Nat : n # 0 => n - 1 \in Nat /\ n - 1 + 1 = n
    OBVIOUS
  <2>2. \A n \in Nat : n # 0 => f[n] = 2 * f[n - 1]
    BY <1>2, <2>1
  <2> QED
    BY <1>2, <2>2
<1>4. Pow2 = CHOOSE g : Fits(g)
  BY DEF Pow2
<1>5. Fits(Pow2)
  <2> HIDE DEF Fits
  <2> QED
    BY <1>3, <1>4
<1>6. Pow2 = [n \in Nat |-> IF n = 0 THEN 1 ELSE 2 * Pow2[n - 1]]
  BY <1>5
<1>7. Pow2[0] = 1
  BY <1>6
<1>8. \A n \in Nat : Pow2[n + 1] = 2 * Pow2[n]
  <2> SUFFICES ASSUME NEW n \in Nat
               PROVE  Pow2[n + 1] = 2 * Pow2[n]
    OBVIOUS
  <2>1. n + 1 \in Nat /\ n + 1 # 0 /\ n + 1 - 1 = n
    OBVIOUS
  <2> QED
    BY <1>6, <2>1
<1>9. Pow2 \in [Nat -> Nat]
  <2> DEFINE S == {n \in Nat : Pow2[n] \in Nat}
  <2>1. 0 \in S
    BY <1>7
  <2>2. ASSUME NEW n \in Nat, n \in S
        PROVE  n + 1 \in S
    BY <1>8, <2>2
  <2>3. \A n \in Nat : n \in S
    <3> HIDE DEF S
    <3> QED
      BY <2>1, <2>2, SetInduction
  <2>4. DOMAIN Pow2 = Nat /\ Pow2 = [n \in Nat |-> Pow2[n]]
    BY <1>6
  <2> QED
    BY <2>3, <2>4
<1> QED
  BY <1>7, <1>8, <1>9

(* No power of two is less than 1.                                         *)
LEMMA PowPositive == \A n \in Nat : Pow2[n] \in Nat /\ Pow2[n] >= 1
<1> DEFINE S == {n \in Nat : Pow2[n] >= 1}
<1>1. 0 \in S
  BY PowIs
<1>2. ASSUME NEW n \in Nat, n \in S
      PROVE  n + 1 \in S
  BY PowIs, <1>2
<1> HIDE DEF S
<1>3. \A n \in Nat : n \in S
  BY <1>1, <1>2, SetInduction
<1> QED
  BY <1>3, PowIs DEF S

(* The power of a sum is the product of the powers.                        *)
LEMMA PowSum == \A m, n \in Nat : Pow2[m + n] = Pow2[m] * Pow2[n]
<1> SUFFICES ASSUME NEW m \in Nat
             PROVE  \A n \in Nat : Pow2[m + n] = Pow2[m] * Pow2[n]
  OBVIOUS
<1> DEFINE S == {n \in Nat : Pow2[m + n] = Pow2[m] * Pow2[n]}
<1>1. 0 \in S
  BY PowIs
<1>2. ASSUME NEW n \in Nat, n \in S
      PROVE  n + 1 \in S
  <2>1. m + n \in Nat /\ m + (n + 1) = (m + n) + 1
    OBVIOUS
  <2>2. Pow2[m + (n + 1)] = 2 * Pow2[m + n]
    BY <2>1, PowIs
  <2>3. Pow2[n + 1] = 2 * Pow2[n] /\ Pow2[m] \in Nat /\ Pow2[n] \in Nat
    BY PowIs
  <2>4. \A a, b, c, d \in Int : d = a * b /\ c = 2 * b => 2 * d = a * c
    OBVIOUS
  <2> QED
    BY <1>2, <2>2, <2>3, <2>4
<1> HIDE DEF S
<1>3. \A n \in Nat : n \in S
  BY <1>1, <1>2, SetInduction
<1> QED
  BY <1>3 DEF S

(* Powers grow with their exponents.                                       *)
LEMMA PowMono == \A m, n \in Nat : m <= n => Pow2[m] <= Pow2[n]
<1> SUFFICES ASSUME NEW m \in Nat, NEW n \in Nat, m <= n
             PROVE  Pow2[m] <= Pow2[n]
  OBVIOUS
<1>1. PICK k \in Nat : n = m + k
  <2>1. n - m \in Nat /\ n = m + (n - m)
    OBVIOUS
  <2> QED
    BY <2>1
<1>2. Pow2[n] = Pow2[m] * Pow2[k] /\ Pow2[m] \in Nat /\ Pow2[k] \in Nat /\ Pow2[k] >= 1
  BY <1>1, PowSum, PowPositive
<1>3. \A a, b \in Nat : b >= 1 => a <= a * b
  OBVIOUS
<1> QED
  BY <1>2, <1>3

(* A number is less than its power.                                        *)
LEMMA PowExceeds == \A n \in Nat : n < Pow2[n]
<1> DEFINE S == {n \in Nat : n < Pow2[n]}
<1>1. 0 \in S
  BY PowIs
<1>2. ASSUME NEW n \in Nat, n \in S
      PROVE  n + 1 \in S
  BY PowIs, <1>2
<1> HIDE DEF S
<1>3. \A n \in Nat : n \in S
  BY <1>1, <1>2, SetInduction
<1> QED
  BY <1>3 DEF S

-----------------------------------------------------------------------------
(* Rounding                                                                *)

Top == Pow2[P + (2 * W + 2)]

(* e is the exponent of n, and k the multiple of its unit below n.         *)
Scaled(n, e, k) ==
  /\ Abs(n) < Pow2[P + e]
  /\ e > 0 => Abs(n) >= Pow2[P + e - 1]
  /\ k * Pow2[e] <= Abs(n)
  /\ Abs(n) < k * Pow2[e] + Pow2[e]

RoundsUp(n, e, k) ==
  LET rest == 2 * (Abs(n) - k * Pow2[e]) IN rest > Pow2[e] \/ (rest = Pow2[e] /\ k % 2 = 1)
Near(n, e, k) == IF RoundsUp(n, e, k) THEN k * Pow2[e] + Pow2[e] ELSE k * Pow2[e]

(* A product divided by one of its factors.                                *)
LEMMA DivideProduct == \A k \in Nat, u \in Nat \ {0} : (k * u) \div u = k
OBVIOUS

(* Every number below the limit has an exponent.                           *)
LEMMA HasExponent ==
  ASSUME NEW n \in Int, Abs(n) < Top
  PROVE  \E e \in 0..(2 * W + 2) : Abs(n) < Pow2[P + e] /\ (e > 0 => Abs(n) >= Pow2[P + e - 1])
<1> DEFINE T == {e \in Nat : Abs(n) < Pow2[P + e]}
<1>1. 2 * W + 2 \in T /\ T \subseteq Nat
  BY ArithAssumption DEF Top
<1>2. PICK e \in T : \A d \in T : e <= d
  <2> HIDE DEF T
  <2> QED
    BY <1>1, LeastElement
<1>3. e \in 0..(2 * W + 2) /\ Abs(n) < Pow2[P + e]
  BY <1>1, <1>2
<1>4. ASSUME e > 0
      PROVE  Abs(n) >= Pow2[P + e - 1]
  <2>1. e - 1 \in Nat /\ e - 1 \notin T /\ P + (e - 1) = P + e - 1
    BY <1>2, <1>4, ArithAssumption
  <2>2. ~(Abs(n) < Pow2[P + e - 1])
    BY <2>1
  <2>3. Abs(n) \in Int /\ Pow2[P + e - 1] \in Int
    BY <2>1, PowIs, ArithAssumption DEF Abs
  <2> QED
    BY <2>2, <2>3
<1> QED
  BY <1>3, <1>4

(* Exponents are unique.                                                   *)
LEMMA OneExponent ==
  ASSUME NEW n \in Int, NEW d \in Nat, NEW e \in Nat,
         Abs(n) < Pow2[P + d], d > 0 => Abs(n) >= Pow2[P + d - 1],
         Abs(n) < Pow2[P + e], e > 0 => Abs(n) >= Pow2[P + e - 1]
  PROVE  d = e
<1>1. ASSUME NEW a \in Nat, NEW b \in Nat, a < b,
             Abs(n) < Pow2[P + a], Abs(n) >= Pow2[P + b - 1]
      PROVE  FALSE
  <2>1. P + a \in Nat /\ P + b - 1 \in Nat /\ P + a <= P + b - 1
    BY <1>1, ArithAssumption
  <2>2. Pow2[P + a] <= Pow2[P + b - 1] /\ Pow2[P + a] \in Int /\ Pow2[P + b - 1] \in Int
    BY <2>1, PowMono, PowIs
  <2>3. Abs(n) \in Int
    BY DEF Abs
  <2> QED
    BY <1>1, <2>2, <2>3
<1>2. ~(d < e) /\ ~(e < d)
  BY <1>1
<1> QED
  BY <1>2

(* What Round computes, from any exponent and multiple that fit.           *)
LEMMA RoundFrom ==
  ASSUME NEW n \in Int, Abs(n) < Top, NEW e \in Nat, NEW k \in Nat, Scaled(n, e, k)
  PROVE  Round(n) = IF n < 0 THEN -Near(n, e, k) ELSE Near(n, e, k)
<1> DEFINE d == Exponent(n)
           unit == Pow2[d]
<1>1. /\ d \in 0..(2 * W + 2) /\ Abs(n) < Pow2[P + d]
      /\ d > 0 => Abs(n) >= Pow2[P + d - 1]
  BY HasExponent DEF Exponent
<1>2. d = e
  <2>1. d \in Nat
    BY <1>1, ArithAssumption
  <2> HIDE DEF d
  <2> QED
    BY <1>1, <2>1, OneExponent DEF Scaled
<1>3. unit = Pow2[e] /\ unit \in Nat \ {0} /\ Abs(n) \in Nat
  BY <1>2, PowPositive DEF Abs
<1>4. Abs(n) \div unit = k
  <2>1. \A a, q \in Nat, u \in Nat \ {0} : q * u <= a /\ a < q * u + u => a \div u = q
    OBVIOUS
  <2>2. k * unit <= Abs(n) /\ Abs(n) < k * unit + unit
    BY <1>3 DEF Scaled
  <2> HIDE DEF unit
  <2> QED
    BY <1>3, <2>1, <2>2
<1>5. (k * unit) \div unit = k
  BY <1>3, DivideProduct
<1>6. Exponent(n) = e /\ Abs(n) \div Pow2[e] = k /\ (k * Pow2[e]) \div Pow2[e] = k
  BY <1>2, <1>3, <1>4, <1>5
<1> QED
  BY <1>6 DEF Round, Near, RoundsUp

(* Every number below the limit fits an exponent and a multiple.           *)
LEMMA HasScale ==
  ASSUME NEW n \in Int, Abs(n) < Top
  PROVE  \E e, k \in Nat : Scaled(n, e, k)
<1>1. PICK e \in 0..(2 * W + 2) : Abs(n) < Pow2[P + e] /\ (e > 0 => Abs(n) >= Pow2[P + e - 1])
  BY HasExponent
<1>2. e \in Nat /\ Abs(n) \in Nat
  BY ArithAssumption DEF Abs
<1>3. Pow2[e] \in Nat \ {0}
  BY <1>2, PowPositive
<1>4. \A a \in Nat, u \in Nat \ {0} :
        a \div u \in Nat /\ (a \div u) * u <= a /\ a < (a \div u) * u + u
  OBVIOUS
<1>5. PICK k \in Nat : k * Pow2[e] <= Abs(n) /\ Abs(n) < k * Pow2[e] + Pow2[e]
  BY <1>2, <1>3, <1>4
<1> QED
  BY <1>1, <1>2, <1>5 DEF Scaled

(* What Scaled says of k, and what is rounded.                             *)
LEMMA ScaledBounds ==
  ASSUME NEW n \in Int, NEW e \in Nat, NEW k \in Nat, Scaled(n, e, k)
  PROVE  /\ k < Pow2[P]
         /\ e > 0 => k >= Pow2[P - 1] /\ k >= 1 /\ Pow2[e] >= 2
         /\ e = 0 => Near(n, e, k) = Abs(n)
         /\ Near(n, e, k) \in Nat
         /\ Near(n, e, k) >= k * Pow2[e] /\ Near(n, e, k) <= k * Pow2[e] + Pow2[e]
         /\ n # 0 => Near(n, e, k) >= 1
<1> DEFINE u == Pow2[e]
           a == Abs(n)
<1>1. u \in Nat /\ u >= 1 /\ a \in Nat /\ Pow2[P] \in Nat /\ Pow2[P - 1] \in Nat /\ Pow2[P - 1] >= 1
  BY PowPositive, ArithAssumption DEF Abs
<1>2. Pow2[P + e] = Pow2[P] * u
  BY PowSum, ArithAssumption
<1>3. e > 0 => Pow2[P + e - 1] = Pow2[P - 1] * u
  <2>1. P - 1 \in Nat /\ P + e - 1 = (P - 1) + e
    BY ArithAssumption
  <2> QED
    BY <2>1, PowSum
<1>4. k * u <= a /\ a < k * u + u /\ a < Pow2[P] * u /\ (e > 0 => a >= Pow2[P - 1] * u)
  BY <1>2, <1>3 DEF Scaled
<1>5. \A b, c, d \in Nat : c * d < b * d => c < b
  OBVIOUS
<1>6. k < Pow2[P]
  <2>1. k * u \in Nat /\ Pow2[P] * u \in Nat
    BY <1>1
  <2> HIDE DEF u, a
  <2>2. k * u < Pow2[P] * u
    BY <1>1, <1>4, <2>1
  <2> QED
    BY <1>1, <1>5, <2>2
<1>7. e > 0 => k >= Pow2[P - 1]
  <2> SUFFICES ASSUME e > 0
               PROVE  k >= Pow2[P - 1]
    OBVIOUS
  <2>1. k * u \in Nat /\ Pow2[P - 1] * u \in Nat /\ (k + 1) * u = k * u + u
    BY <1>1
  <2> HIDE DEF u, a
  <2>2. Pow2[P - 1] * u < (k + 1) * u
    BY <1>1, <1>4, <2>1
  <2>3. Pow2[P - 1] < k + 1
    BY <1>1, <1>5, <2>2
  <2> QED
    BY <1>1, <2>3
<1>8. e > 0 => u >= 2
  BY PowExceeds, PowPositive
<1>9. k * u \in Nat /\ (k >= 1 => k * u >= u)
  <2>1. \A b, c \in Nat : b * c \in Nat /\ (b >= 1 => b * c >= c)
    OBVIOUS
  <2> HIDE DEF u
  <2> QED
    BY <1>1, <2>1
<1>10. Near(n, e, k) \in {k * u, k * u + u}
  BY DEF Near
<1>11. e = 0 => Near(n, e, k) = a /\ k = a
  <2> SUFFICES ASSUME e = 0
               PROVE  Near(n, e, k) = a /\ k = a
    OBVIOUS
  <2>1. u = 1 /\ k * u = k
    BY PowIs
  <2>2. k = a
    BY <1>1, <1>4, <2>1
  <2> QED
    BY <1>1, <2>1, <2>2 DEF Near, RoundsUp
<1>12. n # 0 => a >= 1
  BY DEF Abs
<1> HIDE DEF u, a
<1>13. Near(n, e, k) \in Nat /\ Near(n, e, k) >= k * u /\ Near(n, e, k) <= k * u + u
  BY <1>1, <1>9, <1>10
<1>14. n # 0 => Near(n, e, k) >= 1
  <2>1. CASE e = 0
    BY <1>11, <1>12, <2>1
  <2>2. CASE e > 0
    BY <1>1, <1>7, <1>9, <1>13, <2>2
  <2> QED
    BY <2>1, <2>2
<1>15. (e > 0 => k >= Pow2[P - 1] /\ k >= 1 /\ u >= 2) /\ (e = 0 => Near(n, e, k) = a)
  BY <1>1, <1>7, <1>8, <1>11
<1> QED
  BY <1>6, <1>13, <1>14, <1>15 DEF u, a

(* A multiple of its unit is a double.                                     *)
LEMMA RoundMultiple ==
  ASSUME NEW n \in Int, Abs(n) < Top, NEW e \in Nat, NEW k \in Nat, Scaled(n, e, k),
         Abs(n) = k * Pow2[e]
  PROVE  Round(n) = n
<1>1. Pow2[e] \in Nat /\ Pow2[e] >= 1 /\ Abs(n) \in Nat
  BY PowPositive DEF Abs
<1>2. Abs(n) - k * Pow2[e] = 0
  BY <1>1
<1>3. ~RoundsUp(n, e, k)
  BY <1>1, <1>2 DEF RoundsUp
<1>4. Near(n, e, k) = Abs(n)
  BY <1>3 DEF Near
<1>5. Round(n) = IF n < 0 THEN -Abs(n) ELSE Abs(n)
  BY <1>4, RoundFrom
<1> QED
  BY <1>5 DEF Abs

(* The limit is far above 2^P, and above what W bits in halves need.       *)
LEMMA TopIsFar ==
  /\ Top \in Nat
  /\ 2 * Pow2[P] < Top
  /\ 16 * Pow2[W] < Top
  /\ Pow2[P + 1] = 2 * Pow2[P] /\ Pow2[P + 2] = 4 * Pow2[P]
  /\ Pow2[W + 1] = 2 * Pow2[W] /\ Pow2[W + 2] = 4 * Pow2[W] /\ Pow2[W + 3] = 8 * Pow2[W]
<1>1. W \in Nat /\ P \in Nat /\ P >= 2 /\ W >= 4
  BY ArithAssumption
<1>2. /\ Pow2[P + 1] = 2 * Pow2[P] /\ Pow2[P + 1 + 1] = 2 * Pow2[P + 1]
      /\ Pow2[W + 1] = 2 * Pow2[W] /\ Pow2[W + 1 + 1] = 2 * Pow2[W + 1]
      /\ Pow2[W + 2 + 1] = 2 * Pow2[W + 2]
      /\ Pow2[W + 3 + 1] = 2 * Pow2[W + 3]
  BY <1>1, PowIs
<1>3. P + 1 + 1 = P + 2 /\ W + 1 + 1 = W + 2 /\ W + 2 + 1 = W + 3 /\ W + 3 + 1 = W + 4
  BY <1>1
<1>4. P + 1 < P + (2 * W + 2) /\ W + 4 < P + (2 * W + 2)
  BY <1>1
<1>5. /\ Pow2[P + 2] <= Top /\ Pow2[W + 4] <= Top /\ Top \in Nat
      /\ Pow2[P] \in Nat /\ Pow2[W] \in Nat /\ Pow2[P] >= 1 /\ Pow2[W] >= 1
  BY <1>1, <1>4, PowMono, PowPositive DEF Top
<1>6. Pow2[W + 5] = 2 * Pow2[W + 4] /\ Pow2[W + 5] <= Top
  <2>1. W + 5 = (W + 4) + 1 /\ W + 5 <= P + (2 * W + 2)
    BY <1>1
  <2> QED
    BY <1>1, <2>1, PowIs, PowMono DEF Top
<1> QED
  BY <1>2, <1>3, <1>5, <1>6

(* Numbers up to 2^P are doubles.                                          *)
LEMMA RoundSmall ==
  ASSUME NEW n \in Int, Abs(n) <= Pow2[P]
  PROVE  Round(n) = n
<1>1. /\ P \in Nat /\ P - 1 \in Nat /\ P >= 2 /\ Abs(n) \in Nat
      /\ Pow2[0] = 1 /\ Pow2[1] = 2 /\ Pow2[P] = 2 * Pow2[P - 1]
      /\ Pow2[P] \in Nat /\ Pow2[P - 1] \in Nat /\ Pow2[P] >= 1
  <2>1. P - 1 \in Nat /\ P - 1 + 1 = P /\ 0 + 1 = 1
    BY ArithAssumption
  <2> QED
    BY <2>1, PowIs, PowPositive, ArithAssumption DEF Abs
<1>2. Abs(n) < Top
  BY <1>1, TopIsFar
<1>3. CASE Abs(n) < Pow2[P]
  <2>1. Scaled(n, 0, Abs(n)) /\ Abs(n) = Abs(n) * Pow2[0]
    BY <1>1, <1>3 DEF Scaled
  <2> QED
    BY <1>1, <1>2, <2>1, RoundMultiple
<1>4. CASE Abs(n) = Pow2[P]
  <2>1. P + 1 - 1 = P /\ Pow2[P + 1] = 2 * Pow2[P]
    BY <1>1, TopIsFar
  <2>2. Scaled(n, 1, Pow2[P - 1]) /\ Abs(n) = Pow2[P - 1] * Pow2[1]
    BY <1>1, <1>4, <2>1 DEF Scaled
  <2> QED
    BY <1>1, <1>2, <2>2, RoundMultiple
<1> QED
  BY <1>1, <1>3, <1>4

(* Integers up to 2^P are doubles: twice as many halves.                   *)
LEMMA RoundInteger ==
  ASSUME NEW m \in Int, Abs(m) <= Pow2[P]
  PROVE  Round(2 * m) = 2 * m
<1>1. /\ P \in Nat /\ P - 1 \in Nat /\ P >= 2 /\ Abs(m) \in Nat
      /\ 2 * m \in Int /\ Abs(2 * m) = 2 * Abs(m)
      /\ Pow2[1] = 2 /\ Pow2[2] = 4 /\ Pow2[P] = 2 * Pow2[P - 1]
      /\ Pow2[P] \in Nat /\ Pow2[P - 1] \in Nat /\ Pow2[P] >= 1
      /\ Pow2[P + 1] = 2 * Pow2[P] /\ Pow2[P + 2] = 4 * Pow2[P]
  <2>1. P - 1 \in Nat /\ P - 1 + 1 = P /\ 0 + 1 = 1 /\ 1 + 1 = 2
    BY ArithAssumption
  <2>2. Pow2[1] = 2 /\ Pow2[2] = 4 /\ Pow2[P] = 2 * Pow2[P - 1]
    BY <2>1, PowIs
  <2> QED
    BY <2>1, <2>2, TopIsFar, PowPositive, ArithAssumption DEF Abs
<1>2. Abs(2 * m) < Top
  BY <1>1, TopIsFar
<1>3. CASE Abs(m) < Pow2[P - 1]
  <2>1. Abs(2 * m) <= Pow2[P]
    BY <1>1, <1>3
  <2> QED
    BY <1>1, <2>1, RoundSmall
<1>4. CASE Abs(m) >= Pow2[P - 1] /\ Abs(m) < Pow2[P]
  <2>1. P + 1 - 1 = P
    BY <1>1
  <2>2. Scaled(2 * m, 1, Abs(m)) /\ Abs(2 * m) = Abs(m) * Pow2[1]
    BY <1>1, <1>4, <2>1 DEF Scaled
  <2> QED
    BY <1>1, <1>2, <2>2, RoundMultiple
<1>5. CASE Abs(m) = Pow2[P]
  <2>1. P + 2 - 1 = P + 1
    BY <1>1
  <2>2. Scaled(2 * m, 2, Pow2[P - 1]) /\ Abs(2 * m) = Pow2[P - 1] * Pow2[2]
    BY <1>1, <1>5, <2>1 DEF Scaled
  <2> QED
    BY <1>1, <1>2, <2>2, RoundMultiple
<1> QED
  BY <1>1, <1>3, <1>4, <1>5

(* Powers of two, and their negatives, are doubles.                        *)
LEMMA RoundPower ==
  ASSUME NEW j \in Nat, P <= j, Pow2[j] < Top, NEW n \in {Pow2[j], -Pow2[j]}
  PROVE  Round(n) = n
<1>1. PICK e \in Nat : e = j - P + 1
  BY ArithAssumption
<1>2. P - 1 \in Nat /\ P + e = j + 1 /\ P + e - 1 = j /\ j = (P - 1) + e
  BY <1>1, ArithAssumption
<1>3. Pow2[j] = Pow2[P - 1] * Pow2[e] /\ Pow2[j + 1] = 2 * Pow2[j]
  BY <1>2, PowSum, PowIs
<1>4. /\ Pow2[j] \in Nat /\ Pow2[j] >= 1 /\ Pow2[e] \in Nat /\ Pow2[e] >= 1
      /\ Pow2[P - 1] \in Nat
  BY <1>2, PowPositive
<1>5. n \in Int /\ Abs(n) = Pow2[j]
  BY <1>4 DEF Abs
<1>6. Scaled(n, e, Pow2[P - 1])
  <2>1. Pow2[j] < Pow2[j + 1] /\ Pow2[j] < Pow2[j] + Pow2[e] /\ Pow2[j] >= Pow2[j]
    BY <1>3, <1>4
  <2> QED
    BY <1>2, <1>3, <1>5, <2>1 DEF Scaled
<1> QED
  BY <1>3, <1>4, <1>5, <1>6, RoundMultiple

(* One integer below a power of two is rounded to it.                      *)
LEMMA RoundBelowPower ==
  ASSUME NEW j \in Nat, P + 2 <= j, Pow2[j] < Top
  PROVE  Round(Pow2[j] - 2) = Pow2[j]
<1> DEFINE n == Pow2[j] - 2
<1>1. PICK e \in Nat : e = j - P /\ e >= 2
  BY ArithAssumption
<1>2. P + e = j /\ P + e - 1 = j - 1 /\ j - 1 \in Nat /\ j - 1 + 1 = j /\ P - 1 \in Nat /\ P - 1 + 1 = P
  BY <1>1, ArithAssumption
<1>3. /\ Pow2[j] = Pow2[P] * Pow2[e] /\ Pow2[j] = 2 * Pow2[j - 1]
      /\ Pow2[P] = 2 * Pow2[P - 1] /\ Pow2[0] = 1
  BY <1>2, PowSum, PowIs, ArithAssumption
<1>4. /\ Pow2[j] \in Nat /\ Pow2[j - 1] \in Nat /\ Pow2[P] \in Nat /\ Pow2[P - 1] \in Nat
      /\ Pow2[e] \in Nat /\ Pow2[P - 1] >= 1 /\ Pow2[j - 1] >= 1
  BY <1>2, PowPositive, ArithAssumption
<1>5. Pow2[e] >= 4 /\ Pow2[j - 1] >= 2
  <2>1. Pow2[2] = 4 /\ Pow2[1] = 2
    <3>1. 0 + 1 = 1 /\ 1 + 1 = 2
      OBVIOUS
    <3> QED
      BY <3>1, PowIs
  <2>2. Pow2[2] <= Pow2[e] /\ Pow2[1] <= Pow2[j - 1]
    BY <1>1, <1>2, PowMono, ArithAssumption
  <2> QED
    BY <2>1, <2>2
<1>6. n \in Int /\ n >= 0 /\ Abs(n) = n
  BY <1>3, <1>4, <1>5 DEF Abs
<1> DEFINE k == Pow2[P] - 1
<1>7. k \in Nat /\ k % 2 = 1 /\ k * Pow2[e] = Pow2[j] - Pow2[e]
  <2>1. k \in Nat /\ k = 2 * (Pow2[P - 1] - 1) + 1 /\ Pow2[P - 1] - 1 \in Nat
    BY <1>3, <1>4
  <2>2. \A b \in Nat : (2 * b + 1) % 2 = 1
    OBVIOUS
  <2>3. \A b, c \in Nat : (b - 1) * c = b * c - c
    OBVIOUS
  <2> QED
    BY <1>3, <1>4, <2>1, <2>2, <2>3
<1> HIDE DEF k
<1>8. Scaled(n, e, k)
  <2>1. n < Pow2[j] /\ n >= Pow2[j - 1] /\ k * Pow2[e] <= n /\ n < k * Pow2[e] + Pow2[e]
    BY <1>3, <1>4, <1>5, <1>7
  <2> QED
    BY <1>2, <1>6, <2>1 DEF Scaled
<1>9. RoundsUp(n, e, k)
  <2>1. 2 * (n - k * Pow2[e]) = 2 * (Pow2[e] - 2)
    BY <1>4, <1>7
  <2>2. 2 * (Pow2[e] - 2) > Pow2[e] \/ 2 * (Pow2[e] - 2) = Pow2[e]
    BY <1>4, <1>5
  <2> QED
    BY <1>6, <1>7, <2>1, <2>2 DEF RoundsUp
<1>10. Near(n, e, k) = Pow2[j]
  <2>1. Near(n, e, k) = k * Pow2[e] + Pow2[e]
    BY <1>9 DEF Near
  <2> QED
    BY <1>4, <1>7, <2>1
<1>11. Abs(n) < Top
  BY <1>4, <1>6, TopIsFar
<1> QED
  BY <1>6, <1>7, <1>8, <1>10, <1>11, RoundFrom

(* A rounded number keeps its sign, at most doubles, and is odd only if it *)
(* is small.                                                               *)
LEMMA RoundIs ==
  ASSUME NEW n \in Int, Abs(n) < Top
  PROVE  /\ Round(n) \in Int
         /\ n > 0 => Round(n) > 0
         /\ n < 0 => Round(n) < 0
         /\ n = 0 => Round(n) = 0
         /\ Abs(Round(n)) <= 2 * Abs(n)
         /\ Round(n) % 2 = 1 => Abs(Round(n)) <= Pow2[P]
<1>1. PICK e \in Nat, k \in Nat : Scaled(n, e, k)
  BY HasScale
<1> DEFINE r == Near(n, e, k)
<1>2. Round(n) = IF n < 0 THEN -r ELSE r
  BY <1>1, RoundFrom
<1>3. r \in Nat /\ (n # 0 => r >= 1) /\ Abs(n) \in Nat /\ Abs(n) < Pow2[P + e]
  BY <1>1, ScaledBounds DEF Abs, Scaled
<1>4. n = 0 => r = 0
  <2> SUFFICES ASSUME n = 0
               PROVE  r = 0
    OBVIOUS
  <2>1. Abs(n) <= Pow2[P] /\ Round(n) = n
    BY PowPositive, RoundSmall, ArithAssumption DEF Abs
  <2> HIDE DEF r
  <2> QED
    BY <1>2, <2>1
<1>5. r <= 2 * Abs(n) /\ (r % 2 = 1 => r <= Pow2[P])
  <2>1. CASE e = 0
    <3>1. r = Abs(n) /\ P + e = P /\ Pow2[P] \in Nat
      BY <1>1, <2>1, ScaledBounds, PowIs, ArithAssumption
    <3> HIDE DEF r
    <3> QED
      BY <1>3, <3>1
  <2>2. CASE e > 0
    <3>1. PICK v \in Nat : Pow2[e] = 2 * v
      <4>1. e - 1 \in Nat /\ e - 1 + 1 = e
        BY <2>2
      <4> QED
        BY <4>1, PowIs
    <3>2. k >= 1 /\ k * Pow2[e] <= Abs(n) /\ r \in {k * Pow2[e], k * Pow2[e] + Pow2[e]}
      BY <1>1, <2>2, ScaledBounds DEF Scaled, Near
    <3> HIDE DEF r
    <3>3. k * (2 * v) = 2 * (k * v) /\ k * v \in Nat /\ v <= k * v
      <4>1. \A b, c \in Nat : b * (2 * c) = 2 * (b * c) /\ b * c \in Nat /\ (b >= 1 => c <= b * c)
        OBVIOUS
      <4> QED
        BY <3>2, <4>1
    <3>4. r \in {2 * (k * v), 2 * (k * v + v)}
      BY <3>1, <3>2, <3>3
    <3>5. r <= 2 * Abs(n)
      BY <1>3, <3>1, <3>2, <3>3, <3>4
    <3>6. r % 2 = 0
      <4>1. \A b \in Nat : (2 * b) % 2 = 0
        OBVIOUS
      <4> QED
        BY <3>3, <3>4, <4>1
    <3> QED
      BY <3>5, <3>6
  <2> QED
    BY <2>1, <2>2
<1> HIDE DEF r
<1>6. /\ Abs(Round(n)) = r
      /\ Round(n) % 2 = r % 2
      /\ Round(n) \in Int
  <2>1. \A b \in Int : (-b) % 2 = b % 2
    OBVIOUS
  <2> QED
    BY <1>2, <1>3, <2>1 DEF Abs
<1> QED
  BY <1>2, <1>3, <1>4, <1>5, <1>6

(* Rounding respects sizes.                                                *)
LEMMA NearMono ==
  ASSUME NEW m \in Int, NEW d \in Nat, NEW j \in Nat, Scaled(m, d, j),
         NEW n \in Int, NEW e \in Nat, NEW k \in Nat, Scaled(n, e, k),
         Abs(m) <= Abs(n)
  PROVE  Near(m, d, j) <= Near(n, e, k)
<1>1. Abs(m) \in Nat /\ Abs(n) \in Nat /\ Pow2[d] \in Nat /\ Pow2[d] >= 1 /\ Pow2[e] \in Nat /\ Pow2[e] >= 1
  BY PowPositive DEF Abs
<1>2. /\ Near(m, d, j) \in Nat /\ Near(m, d, j) <= j * Pow2[d] + Pow2[d]
      /\ Near(n, e, k) \in Nat /\ Near(n, e, k) >= k * Pow2[e]
      /\ j < Pow2[P]
      /\ e > 0 => k >= Pow2[P - 1]
  BY ScaledBounds
<1>3. j * Pow2[d] \in Nat /\ k * Pow2[e] \in Nat /\ (j + 1) * Pow2[d] = j * Pow2[d] + Pow2[d]
      /\ (k + 1) * Pow2[e] = k * Pow2[e] + Pow2[e]
  BY <1>1
<1>4. CASE d = e
  <2>1. \A b, c, u \in Nat : (b * u < c * u => b < c) /\ (b <= c => b * u <= c * u)
    OBVIOUS
  <2>2. j * Pow2[e] < (k + 1) * Pow2[e]
    BY <1>1, <1>3, <1>4 DEF Scaled
  <2>3. j < k + 1
    BY <1>1, <2>1, <2>2
  <2>4. CASE j < k
    <3>1. (j + 1) * Pow2[e] <= k * Pow2[e]
      BY <1>1, <2>1, <2>4
    <3> QED
      BY <1>1, <1>2, <1>3, <1>4, <3>1
  <2>5. CASE j = k
    <3>1. RoundsUp(m, d, j) => RoundsUp(n, e, k)
      <4>1. 2 * (Abs(m) - k * Pow2[e]) <= 2 * (Abs(n) - k * Pow2[e])
        BY <1>1, <1>3
      <4>2. 2 * (Abs(m) - k * Pow2[e]) \in Int /\ 2 * (Abs(n) - k * Pow2[e]) \in Int
        BY <1>1, <1>3
      <4> QED
        BY <1>1, <1>4, <2>5, <4>1, <4>2 DEF RoundsUp
    <3> QED
      BY <1>1, <1>3, <1>4, <2>5, <3>1 DEF Near
  <2> QED
    BY <2>3, <2>4, <2>5
<1>5. CASE d < e
  <2>1. P + d \in Nat /\ P + e - 1 \in Nat /\ P - 1 \in Nat /\ P + d <= P + e - 1 /\ P + e - 1 = (P - 1) + e
    BY <1>5, ArithAssumption
  <2>2. /\ Pow2[P + d] = Pow2[P] * Pow2[d]
        /\ Pow2[P + e - 1] = Pow2[P - 1] * Pow2[e]
        /\ Pow2[P + d] <= Pow2[P + e - 1]
        /\ Pow2[P] \in Nat /\ Pow2[P - 1] \in Nat /\ Pow2[P + d] \in Nat /\ Pow2[P + e - 1] \in Nat
    <3>1. P \in Nat
      BY ArithAssumption
    <3>2. Pow2[P + d] = Pow2[P] * Pow2[d] /\ Pow2[P + e - 1] = Pow2[P - 1] * Pow2[e]
      BY <2>1, <3>1, PowSum
    <3>3. Pow2[P + d] <= Pow2[P + e - 1]
      BY <2>1, PowMono
    <3> QED
      BY <2>1, <3>1, <3>2, <3>3, PowPositive
  <2>3. \A b, c, u \in Nat : b <= c => b * u <= c * u
    OBVIOUS
  <2>4. (j + 1) * Pow2[d] <= Pow2[P] * Pow2[d] /\ Pow2[P - 1] * Pow2[e] <= k * Pow2[e]
    BY <1>1, <1>2, <1>5, <2>2, <2>3
  <2> QED
    BY <1>1, <1>2, <1>3, <2>2, <2>4
<1>6. CASE e < d
  <2>1. P + e \in Nat /\ P + d - 1 \in Nat /\ P + e <= P + d - 1
    BY <1>6, ArithAssumption
  <2>2. Pow2[P + e] <= Pow2[P + d - 1] /\ Pow2[P + e] \in Nat /\ Pow2[P + d - 1] \in Nat
    BY <2>1, PowMono, PowIs
  <2>3. Abs(m) >= Pow2[P + d - 1] /\ Abs(n) < Pow2[P + e]
    BY <1>6 DEF Scaled
  <2> QED
    BY <1>1, <2>2, <2>3
<1> QED
  BY <1>4, <1>5, <1>6

(* Rounding is monotone.                                                   *)
LEMMA RoundMono ==
  ASSUME NEW m \in Int, NEW n \in Int, Abs(m) < Top, Abs(n) < Top, m <= n
  PROVE  Round(m) <= Round(n)
<1>1. PICK d \in Nat, j \in Nat : Scaled(m, d, j)
  BY HasScale
<1>2. PICK e \in Nat, k \in Nat : Scaled(n, e, k)
  BY HasScale
<1> DEFINE p == Near(m, d, j)
           q == Near(n, e, k)
<1>3. p \in Nat /\ q \in Nat
  BY <1>1, <1>2, ScaledBounds
<1>4. /\ Round(m) = IF m < 0 THEN -p ELSE p
      /\ Round(n) = IF n < 0 THEN -q ELSE q
  BY <1>1, <1>2, RoundFrom
<1>5. (Abs(m) <= Abs(n) => p <= q) /\ (Abs(n) <= Abs(m) => q <= p)
  BY <1>1, <1>2, NearMono
<1> HIDE DEF p, q
<1> QED
  BY <1>3, <1>4, <1>5 DEF Abs

-----------------------------------------------------------------------------
(* Words, integers and doubles                                             *)

(* A finite double in halves: odd only if it is small.                     *)
Half == {f \in Int : Abs(f) <= 8 * Pow2[W] /\ (f % 2 = 1 => Abs(f) <= Pow2[P])}

Number(v) ==
  \/ \E n \in Words : v = [type |-> "bits", n |-> n]
  \/ \E f \in Half \cup {Inf, NegInf, NaN} : v = [type |-> "float", n |-> f]

(* The inductive invariant: each slot holds a word or a double.            *)
Inv == Number(x) /\ Number(y)

(* The bounds of the integers.                                             *)
LEMMA BoundsAre ==
  /\ W \in Nat /\ W - 1 \in Nat /\ Pow2[W - 1] \in Nat /\ Pow2[W - 1] >= 8
  /\ Pow2[W] = 2 * Pow2[W - 1] /\ Pow2[P] \in Nat /\ Pow2[P] >= 4 /\ 2 * Pow2[P] <= Pow2[W - 1]
  /\ INT_MAX = Pow2[W - 1] - 1 /\ INT_MIN = -Pow2[W - 1] /\ UINT_MAX = Pow2[W] - 1
  /\ Words = {n \in Nat : n < Pow2[W]}
<1>1. W \in Nat /\ W - 1 \in Nat /\ W - 1 + 1 = W /\ P \in Nat /\ 2 <= P /\ P + 1 <= W - 1 /\ 3 <= W - 1
  BY ArithAssumption
<1>2. Pow2[2] = 4 /\ Pow2[3] = 8
  <2>1. 0 + 1 = 1 /\ 1 + 1 = 2 /\ 2 + 1 = 3
    OBVIOUS
  <2> QED
    BY <2>1, PowIs
<1>3. /\ Pow2[2] <= Pow2[P] /\ Pow2[3] <= Pow2[W - 1] /\ Pow2[P + 1] <= Pow2[W - 1]
      /\ Pow2[P + 1] = 2 * Pow2[P] /\ Pow2[W] = 2 * Pow2[W - 1]
      /\ Pow2[P] \in Nat /\ Pow2[W - 1] \in Nat
  <2>1. Pow2[2] <= Pow2[P] /\ Pow2[3] <= Pow2[W - 1] /\ Pow2[P + 1] <= Pow2[W - 1]
    BY <1>1, PowMono
  <2>2. Pow2[P + 1] = 2 * Pow2[P] /\ Pow2[W] = 2 * Pow2[W - 1]
    BY <1>1, PowIs
  <2> QED
    BY <1>1, <2>1, <2>2, PowPositive
<1>4. Words = {n \in Nat : n < Pow2[W]}
  BY <1>3 DEF Words
<1> QED
  BY <1>1, <1>2, <1>3, <1>4 DEF INT_MAX, INT_MIN, UINT_MAX

(* What Bits makes is a word, and of a word itself.                        *)
LEMMA BitsIs ==
  /\ \A n \in Int : Number(Bits(n))
  /\ \A n \in Words : Bits(n) = [type |-> "bits", n |-> n]
  /\ \A n \in Int : n < 0 /\ n + Pow2[W] \in Words
       => Bits(n) = [type |-> "bits", n |-> n + Pow2[W]]
<1>1. Pow2[W] \in Nat \ {0} /\ Words = {n \in Nat : n < Pow2[W]}
  BY BoundsAre
<1>2. \A a \in Int, u \in Nat \ {0} :
        /\ a % u \in Nat /\ a % u < u
        /\ a >= 0 /\ a < u => a % u = a
        /\ a < 0 /\ a + u >= 0 => a % u = a + u
  OBVIOUS
<1>3. \A n \in Int : n % Pow2[W] \in Words
  BY <1>1, <1>2
<1>4. \A n \in Words : n % Pow2[W] = n
  BY <1>1, <1>2
<1>5. \A n \in Int : n < 0 /\ n + Pow2[W] \in Words => n % Pow2[W] = n + Pow2[W]
  BY <1>1, <1>2
<1> QED
  BY <1>3, <1>4, <1>5 DEF Bits, Number

(* A word as a signed integer, and back.                                   *)
LEMMA SIntIs ==
  ASSUME NEW v, Number(v), v.type = "bits"
  PROVE  /\ v.n \in Words /\ v = [type |-> "bits", n |-> v.n]
         /\ SInt(v) \in Int /\ INT_MIN <= SInt(v) /\ SInt(v) <= INT_MAX
         /\ Abs(SInt(v)) <= Pow2[W]
         /\ Bits(SInt(v)) = v
<1>1. v.n \in Words /\ v = [type |-> "bits", n |-> v.n]
  BY DEF Number
<1>2. SInt(v) = IF v.n > INT_MAX THEN v.n - Pow2[W] ELSE v.n
  BY DEF SInt
<1>3. CASE v.n > INT_MAX
  <2>1. /\ SInt(v) = v.n - Pow2[W] /\ SInt(v) < 0 /\ SInt(v) \in Int /\ SInt(v) + Pow2[W] = v.n
        /\ INT_MIN <= SInt(v) /\ SInt(v) <= INT_MAX /\ Abs(SInt(v)) <= Pow2[W]
    BY <1>1, <1>2, <1>3, BoundsAre DEF Abs
  <2> QED
    BY <1>1, <2>1, BitsIs
<1>4. CASE ~(v.n > INT_MAX)
  <2>1. /\ SInt(v) = v.n /\ SInt(v) \in Int
        /\ INT_MIN <= SInt(v) /\ SInt(v) <= INT_MAX /\ Abs(SInt(v)) <= Pow2[W]
    BY <1>1, <1>2, <1>4, BoundsAre DEF Abs
  <2> QED
    BY <1>1, <2>1, BitsIs
<1> QED
  BY <1>3, <1>4

(* A rounded number is a double.                                           *)
LEMMA RoundIsHalf ==
  ASSUME NEW n \in Int, Abs(n) <= 4 * Pow2[W]
  PROVE  Abs(n) < Top /\ Round(n) \in Half
<1>1. Pow2[W] \in Nat /\ Abs(n) \in Nat
  BY PowIs, BoundsAre DEF Abs
<1>2. Abs(n) < Top
  BY <1>1, TopIsFar
<1>3. Round(n) \in Int /\ Abs(Round(n)) <= 2 * Abs(n) /\ (Round(n) % 2 = 1 => Abs(Round(n)) <= Pow2[P])
  BY <1>2, RoundIs
<1>4. Abs(Round(n)) \in Nat
  BY <1>3 DEF Abs
<1> QED
  BY <1>1, <1>2, <1>3, <1>4 DEF Half

(* An integer as a double.                                                 *)
LEMMA DoubleIs ==
  ASSUME NEW n \in Int, Abs(n) <= Pow2[W]
  PROVE  2 * n \in Int /\ Abs(2 * n) < Top /\ Double(n) \in Half /\ Number(Float(Double(n)))
<1>1. 2 * n \in Int /\ Abs(2 * n) <= 4 * Pow2[W]
  BY BoundsAre DEF Abs
<1>2. Double(n) \in Half /\ Abs(2 * n) < Top
  BY <1>1, RoundIsHalf DEF Double
<1> QED
  BY <1>1, <1>2 DEF Number, Float

(* What a double in a slot can be.                                         *)
LEMMA FloatIs ==
  ASSUME NEW v, Number(v), v.type = "float"
  PROVE  /\ v.n \in Half \cup {Inf, NegInf, NaN}
         /\ Finite(v.n) <=> v.n \in Half
<1>1. v.n \in Half \cup {Inf, NegInf, NaN}
  BY DEF Number
<1> QED
  BY <1>1, ArithAssumption DEF Finite, Half

-----------------------------------------------------------------------------
(* Division                                                                *)

(* C's division rounds towards 0, and the remainder belongs to it.         *)
LEMMA QuotientIs ==
  ASSUME NEW a \in Int, NEW b \in Int, b # 0
  PROVE  /\ Quotient(a, b) \in Int /\ Remainder(a, b) \in Int
         /\ Quotient(a, b) * b + Remainder(a, b) = a
         /\ Abs(Remainder(a, b)) < Abs(b)
         /\ Remainder(a, b) # 0 => (Remainder(a, b) < 0) = (a < 0)
         /\ Abs(Quotient(a, b)) <= Abs(a)
         /\ Abs(b) >= 2 => 2 * Abs(Quotient(a, b)) <= Abs(a)
         /\ Quotient(a, b) > 0 => (a < 0) = (b < 0)
<1> DEFINE A == Abs(a)
           B == Abs(b)
           q == A \div B
<1>1. A \in Nat /\ B \in Nat \ {0}
  BY DEF Abs
<1>2. q \in Nat /\ q * B <= A /\ A < q * B + B
  <2>1. \A c \in Nat, d \in Nat \ {0} :
          c \div d \in Nat /\ (c \div d) * d <= c /\ c < (c \div d) * d + d
    OBVIOUS
  <2> HIDE DEF A, B
  <2> QED
    BY <1>1, <2>1
<1>3. Quotient(a, b) = (IF (a < 0) = (b < 0) THEN q ELSE -q)
  BY DEF Quotient
<1> HIDE DEF q
<1>4. PICK m \in Nat : m = q * B
  BY <1>1, <1>2
<1>5. b * Quotient(a, b) = IF a < 0 THEN -m ELSE m
  <2>1. B = b \/ B = -b
    BY DEF Abs
  <2>2. \A c, d \in Int : d * c = c * d /\ (-d) * c = -(c * d) /\ d * (-c) = -(c * d) /\ (-d) * (-c) = c * d
    OBVIOUS
  <2>3. CASE b < 0
    <3>1. b = -B /\ b * q = -(q * B) /\ b * (-q) = q * B
      BY <1>1, <1>2, <2>2, <2>3 DEF Abs
    <3> QED
      BY <1>3, <1>4, <2>3, <3>1
  <2>4. CASE ~(b < 0)
    <3>1. b = B /\ b * q = q * B /\ b * (-q) = -(q * B)
      BY <1>1, <1>2, <2>2, <2>4 DEF Abs
    <3> QED
      BY <1>3, <1>4, <2>4, <3>1
  <2> QED
    BY <2>3, <2>4
<1>6. /\ Quotient(a, b) \in Int /\ Abs(Quotient(a, b)) = q
      /\ Quotient(a, b) > 0 => (a < 0) = (b < 0)
  BY <1>2, <1>3 DEF Abs
<1>7. Remainder(a, b) = a - (IF a < 0 THEN -m ELSE m)
  BY <1>5 DEF Remainder
<1>8. /\ Remainder(a, b) \in Int
      /\ Quotient(a, b) * b = b * Quotient(a, b)
      /\ Quotient(a, b) * b + Remainder(a, b) = a
  <2>1. \A c, d \in Int : c * d = d * c
    OBVIOUS
  <2>2. Quotient(a, b) * b = b * Quotient(a, b)
    BY <1>6, <2>1
  <2> QED
    BY <1>4, <1>5, <1>7, <2>2
<1>9. Abs(Remainder(a, b)) < B /\ (Remainder(a, b) # 0 => (Remainder(a, b) < 0) = (a < 0))
  BY <1>1, <1>2, <1>4, <1>7 DEF Abs
<1>10. q <= A /\ (B >= 2 => 2 * q <= A)
  <2>1. \A c \in Nat, d \in Nat \ {0} : c <= c * d /\ (d >= 2 => 2 * c <= c * d)
    OBVIOUS
  <2>2. q <= q * B /\ (B >= 2 => 2 * q <= q * B)
    BY <1>1, <1>2, <2>1
  <2> HIDE DEF A, B
  <2> QED
    BY <1>1, <1>2, <1>4, <2>2
<1> QED
  BY <1>6, <1>8, <1>9, <1>10

(* The number cut off behind the point, of a number of halves.             *)
LEMMA TruncatedIs ==
  ASSUME NEW f \in Int
  PROVE  /\ Truncated(f) \in Int
         /\ f >= 0 => 2 * Truncated(f) <= f /\ f < 2 * Truncated(f) + 2
         /\ f < 0 => f <= 2 * Truncated(f) /\ 2 * Truncated(f) < f + 2
         /\ \A n \in Int : f = 2 * n => Truncated(f) = n
<1> DEFINE t == Quotient(f, 2)
           r == Remainder(f, 2)
<1>1. Abs(2) = 2
  BY DEF Abs
<1>2. /\ t \in Int /\ r \in Int /\ t * 2 + r = f /\ Abs(r) < 2
      /\ r # 0 => (r < 0) = (f < 0)
  <2>1. 2 \in Int /\ 2 # 0
    OBVIOUS
  <2>2. /\ t \in Int /\ r \in Int /\ t * 2 + r = f /\ Abs(r) < Abs(2)
        /\ r # 0 => (r < 0) = (f < 0)
    BY <2>1, QuotientIs
  <2> QED
    BY <1>1, <2>2
<1>3. Truncated(f) = t
  BY DEF Truncated
<1> HIDE DEF t, r
<1> QED
  BY <1>2, <1>3 DEF Abs

-----------------------------------------------------------------------------
(* The invariant                                                           *)

(* A step that stores a number keeps the invariant.                        *)
LEMMA StoreKeepsInv ==
  ASSUME Inv, NEW v, Number(v), Store(v)
  PROVE  Inv'
BY DEF Inv, Number, Store

(* A step that ends the run keeps the invariant.                           *)
LEMMA EndKeepsInv ==
  ASSUME Inv, NEW how, EndAs(how)
  PROVE  Inv'
BY DEF Inv, Number, EndAs

(* The two operands of an operation on words.                              *)
LEMMA BitsPairIs ==
  ASSUME Inv, BitsPair
  PROVE  /\ x.type = "bits" /\ y.type = "bits"
         /\ x.n \in Nat /\ y.n \in Nat /\ SInt(x) \in Int /\ SInt(y) \in Int
         /\ (SInt(y) = 0 <=> y.n = 0)
<1>1. x.type = "bits" /\ y.type = "bits" /\ Number(x) /\ Number(y)
  BY DEF Inv, BitsPair, Running
<1>2. x.n \in Words /\ y.n \in Words /\ SInt(x) \in Int /\ SInt(y) \in Int
  BY <1>1, SIntIs
<1>3. x.n \in Nat /\ y.n \in Nat /\ y.n < Pow2[W]
  BY <1>2, BoundsAre
<1>4. SInt(y) = 0 <=> y.n = 0
  BY <1>3, BoundsAre DEF SInt
<1> QED
  BY <1>1, <1>2, <1>3, <1>4

(* Casts keep the invariant.                                               *)
LEMMA CastsKeepInv ==
  ASSUME Inv, CastI2F \/ CastU2F \/ CastF2I \/ CastF2U
  PROVE  Inv'
<1>1. Number(x)
  BY DEF Inv
<1>2. CASE CastI2F
  <2>1. x.type = "bits" /\ Store(Float(Double(SInt(x))))
    BY <1>2 DEF CastI2F, IsBits
  <2> QED
    BY <1>1, <2>1, SIntIs, DoubleIs, StoreKeepsInv
<1>3. CASE CastU2F
  <2>1. x.type = "bits" /\ Store(Float(Double(x.n)))
    BY <1>3 DEF CastU2F, IsBits
  <2>2. x.n \in Int /\ Abs(x.n) <= Pow2[W]
    BY <1>1, <2>1, SIntIs, BoundsAre DEF Abs
  <2> QED
    BY <2>1, <2>2, DoubleIs, StoreKeepsInv
<1>4. ASSUME x.type = "float", Finite(x.n), NEW n \in ToInt(x.n), Store(Bits(n))
      PROVE  Inv'
  <2>1. x.n \in Int
    BY <1>1, <1>4, FloatIs DEF Half
  <2>2. n \in Int
    BY <2>1, TruncatedIs, BoundsAre DEF ToInt
  <2> QED
    BY <1>4, <2>2, BitsIs, StoreKeepsInv
<1>5. CASE CastF2I
  <2>1. x.type = "float" /\ (EndAs("overflow") \/ (Finite(x.n) /\ \E n \in ToInt(x.n) : Store(Bits(n))))
    BY <1>5 DEF CastF2I, IsFloat, IntOverflow
  <2> QED
    BY <1>4, <2>1, EndKeepsInv
<1>6. CASE CastF2U
  <2>1. x.type = "float" /\ (EndAs("overflow") \/ (Finite(x.n) /\ \E n \in ToInt(x.n) : Store(Bits(n))))
    BY <1>6 DEF CastF2U, IsFloat, UIntOverflow
  <2> QED
    BY <1>4, <2>1, EndKeepsInv
<1> QED
  BY <1>2, <1>3, <1>5, <1>6

(* Operations on words keep the invariant.                                 *)
LEMMA WordsKeepInv ==
  ASSUME Inv, Add \/ Sub \/ Mul \/ BitOp \/ Shift
  PROVE  Inv'
<1>1. BitsPair /\ x.n \in Nat /\ y.n \in Nat /\ SInt(x) \in Int
  BY BitsPairIs DEF Add, Sub, Mul, BitOp, Shift
<1>2. ASSUME NEW n \in Int, Store(Bits(n))
      PROVE  Inv'
  BY <1>2, BitsIs, StoreKeepsInv
<1>3. CASE Add \/ Sub \/ Mul
  <2>1. x.n + y.n \in Int /\ x.n - y.n \in Int /\ x.n * y.n \in Int
    BY <1>1
  <2> QED
    BY <1>2, <1>3, <2>1 DEF Add, Sub, Mul
<1>4. CASE BitOp
  <2>1. PICK n \in Words : Store(Bits(n))
    BY <1>4 DEF BitOp
  <2>2. n \in Int
    BY BoundsAre
  <2> QED
    BY <1>2, <2>1, <2>2
<1>5. CASE Shift
  <2>1. PICK k \in IF y.n < W THEN {y.n} ELSE {y.n % W, W} :
          Store(Bits(x.n * Pow2[k])) \/ Store(Bits(x.n \div Pow2[k])) \/ Store(Bits(SInt(x) \div Pow2[k]))
    BY <1>5 DEF Shift
  <2>2. W \in Nat \ {0} /\ y.n % W \in Nat
    BY <1>1, ArithAssumption
  <2>3. k \in Nat
    BY <1>1, <2>1, <2>2
  <2>4. Pow2[k] \in Nat \ {0}
    BY <2>3, PowPositive
  <2>5. x.n * Pow2[k] \in Int /\ x.n \div Pow2[k] \in Int /\ SInt(x) \div Pow2[k] \in Int
    <3>1. \A a \in Int, u \in Nat \ {0} : a * u \in Int /\ a \div u \in Int
      OBVIOUS
    <3> QED
      BY <1>1, <2>4, <3>1
  <2> QED
    BY <1>2, <2>1, <2>5
<1> QED
  BY <1>3, <1>4, <1>5

(* Operations on one word, the flags and mov keep the invariant.           *)
LEMMA UnaryKeepsInv ==
  ASSUME Inv, Unary \/ Resolve \/ Mov
  PROVE  Inv'
<1>1. ASSUME NEW n \in Int, Store(Bits(n))
      PROVE  Inv'
  BY <1>1, BitsIs, StoreKeepsInv
<1>2. \A condition : Bool(condition) \in Int
  BY DEF Bool
<1>3. CASE Unary
  <2>1. x.type = "bits" /\ Number(x)
    BY <1>3 DEF Inv, Unary, IsBits
  <2>2. x.n \in Int /\ SInt(x) \in Int /\ Abs(SInt(x)) \in Int /\ UINT_MAX \in Int
    BY <2>1, SIntIs, BoundsAre DEF Abs
  <2>3. /\ x.n + 1 \in Int /\ x.n - 1 \in Int /\ -x.n \in Int /\ UINT_MAX - x.n \in Int
        /\ Bool(x.n = 0) \in Int
    BY <1>2, <2>2
  <2> QED
    BY <1>1, <1>3, <2>2, <2>3 DEF Unary
<1>4. CASE Resolve
  <2>1. PICK flag \in {Less, Equal, Greater, ~Equal, Less \/ Equal, Greater \/ Equal} :
          Store(Bits(Bool(flag)))
    BY <1>4 DEF Resolve
  <2> QED
    BY <1>1, <1>2, <2>1
<1>5. CASE Mov
  BY <1>5, StoreKeepsInv DEF Mov, Inv
<1> QED
  BY <1>3, <1>4, <1>5

(* Divisions keep the invariant.                                           *)
LEMMA DivisionsKeepInv ==
  ASSUME Inv, DivI \/ ModI \/ DivU \/ ModU
  PROVE  Inv'
<1>1. /\ BitsPair /\ x.n \in Nat /\ y.n \in Nat /\ SInt(x) \in Int /\ SInt(y) \in Int
      /\ (SInt(y) = 0 <=> y.n = 0)
  BY BitsPairIs DEF DivI, ModI, DivU, ModU
<1>2. ASSUME NEW n \in Int, Store(Bits(n))
      PROVE  Inv'
  BY <1>2, BitsIs, StoreKeepsInv
<1>3. CASE EndAs("trap")
  BY <1>3, EndKeepsInv
<1>4. CASE /\ y.n # 0
           /\ \/ Store(Bits(Quotient(SInt(x), SInt(y))))
              \/ Store(Bits(Remainder(SInt(x), SInt(y))))
  <2>1. Quotient(SInt(x), SInt(y)) \in Int /\ Remainder(SInt(x), SInt(y)) \in Int
    BY <1>1, <1>4, QuotientIs
  <2> QED
    BY <1>2, <1>4, <2>1
<1>5. CASE y.n # 0 /\ (Store(Bits(x.n \div y.n)) \/ Store(Bits(x.n % y.n)))
  <2>1. x.n \div y.n \in Int /\ x.n % y.n \in Int
    BY <1>1, <1>5
  <2> QED
    BY <1>2, <1>5, <2>1
<1> QED
  BY <1>3, <1>4, <1>5 DEF DivI, ModI, DivU, ModU, NoQuotient

(* At first the slots hold words and rounded numbers.                      *)
LEMMA Starts == Init => Inv
<1>1. ASSUME NEW v \in Values
      PROVE  Number(v)
  <2>1. CASE v \in {Bits(n) : n \in Words}
    BY <2>1, BitsIs, BoundsAre
  <2>2. ASSUME NEW n \in -(Pow2[W + 2])..(Pow2[W + 2])
        PROVE  n \in Int /\ Abs(n) <= 4 * Pow2[W]
    BY <2>2, TopIsFar, BoundsAre DEF Abs
  <2>3. Doubles \subseteq Half \cup {Inf, NegInf, NaN}
    BY <2>2, RoundIsHalf DEF Doubles
  <2>4. CASE v \in {Float(f) : f \in Doubles}
    BY <2>3, <2>4 DEF Number, Float
  <2> QED
    BY <2>1, <2>4 DEF Values
<1> QED
  BY <1>1 DEF Init, Inv

(* Every step keeps the invariant.                                         *)
LEMMA NextKeepsInv == ASSUME Inv, [Next]_vars PROVE Inv'
<1>1. CASE CmpI \/ CmpU \/ CmpF \/ UNCHANGED vars
  <2>1. UNCHANGED <<x, y>>
    BY <1>1 DEF CmpI, CmpU, CmpF, Compare, vars
  <2> QED
    BY <2>1 DEF Inv, Number
<1> QED
  BY <1>1, CastsKeepInv, WordsKeepInv, UnaryKeepsInv, DivisionsKeepInv DEF Next

(* The inductive invariant holds in every state.                           *)
THEOREM InvHolds == Spec => []Inv
BY Starts, NextKeepsInv, PTL DEF Spec

-----------------------------------------------------------------------------
(* Casts                                                                   *)

(* The bounds of the casts as doubles: INT_MAX and UINT_MAX are rounded up. *)
LEMMA LimitsAre ==
  /\ Double(INT_MAX) = Pow2[W]
  /\ Double(INT_MIN) = -Pow2[W]
  /\ Double(UINT_MAX) = Pow2[W + 1]
<1>1. /\ W \in Nat /\ W + 1 \in Nat /\ P <= W /\ P + 2 <= W /\ P + 2 <= W + 1
      /\ Pow2[W] < Top /\ Pow2[W + 1] < Top
  <2>1. W \in Nat /\ W + 1 \in Nat /\ P <= W /\ P + 2 <= W /\ P + 2 <= W + 1
    BY ArithAssumption
  <2>2. Pow2[W] \in Nat /\ Pow2[W] < Top /\ Pow2[W + 1] < Top
    BY TopIsFar, BoundsAre
  <2> QED
    BY <2>1, <2>2
<1>2. /\ Round(Pow2[W] - 2) = Pow2[W] /\ Round(Pow2[W + 1] - 2) = Pow2[W + 1]
      /\ Round(-Pow2[W]) = -Pow2[W]
  BY <1>1, RoundBelowPower, RoundPower
<1>3. /\ 2 * INT_MAX = Pow2[W] - 2 /\ 2 * INT_MIN = -Pow2[W]
      /\ 2 * UINT_MAX = Pow2[W + 1] - 2
  BY BoundsAre, TopIsFar
<1> QED
  BY <1>2, <1>3 DEF Double

(* What f2i does.                                                          *)
LEMMA IntIsExact ==
  ASSUME Inv
  PROVE  IntExact
<1> SUFFICES ASSUME CastF2I, x.n # Pow2[W]
             PROVE  IF Finite(x.n) /\ Truncated(x.n) \in INT_MIN..INT_MAX
                    THEN x' = Bits(Truncated(x.n)) /\ UNCHANGED status
                    ELSE status' = "overflow" /\ UNCHANGED x
  BY DEF IntExact
<1>1. PICK f : f = x.n
  OBVIOUS
<1>2. Number(x) /\ x.type = "float"
  BY DEF Inv, CastF2I, IsFloat
<1>3. IntOverflow(f) <=> ~Finite(f) \/ f > Pow2[W] \/ f < -Pow2[W]
  BY LimitsAre DEF IntOverflow
<1>4. CASE ~Finite(f)
  BY <1>1, <1>3, <1>4 DEF CastF2I, EndAs
<1>5. CASE Finite(f)
  <2>1. /\ f \in Int /\ (f % 2 = 1 => Abs(f) <= Pow2[P])
        /\ Truncated(f) \in Int
    BY <1>1, <1>2, <1>5, FloatIs, TruncatedIs DEF Half
  <2>2. CASE IntOverflow(f)
    <3>1. f # -Pow2[W] - 1
      <4> SUFFICES ASSUME f = -Pow2[W] - 1
                   PROVE  FALSE
        OBVIOUS
      <4>1. f % 2 = 1
        <5>1. \A b \in Nat : (-(2 * b) - 1) % 2 = 1
          OBVIOUS
        <5> QED
          BY <5>1, BoundsAre
      <4> QED
        BY <2>1, <4>1, BoundsAre DEF Abs
    <3>2. f >= Pow2[W] + 1 \/ f <= -Pow2[W] - 2
      BY <1>3, <1>5, <2>1, <2>2, <3>1, BoundsAre
    <3>3. Truncated(f) \notin INT_MIN..INT_MAX
      BY <2>1, <3>2, TruncatedIs, BoundsAre
    <3> QED
      BY <1>1, <2>2, <3>3 DEF CastF2I, EndAs
  <2>3. CASE ~IntOverflow(f)
    <3>1. -Pow2[W] <= f /\ f < Pow2[W]
      BY <1>1, <1>3, <1>5, <2>1, <2>3, BoundsAre
    <3>2. Truncated(f) \in INT_MIN..INT_MAX
      <4>1. PICK t \in Int : /\ t = Truncated(f)
                             /\ f >= 0 => 2 * t <= f /\ f < 2 * t + 2
                             /\ f < 0 => f <= 2 * t /\ 2 * t < f + 2
        BY <2>1, TruncatedIs
      <4>2. -Pow2[W - 1] <= t /\ t <= Pow2[W - 1] - 1
        BY <2>1, <3>1, <4>1, BoundsAre
      <4> QED
        BY <4>1, <4>2, BoundsAre
    <3> QED
      BY <1>1, <1>5, <2>3, <3>2 DEF CastF2I, ToInt, Store
  <2> QED
    BY <2>2, <2>3
<1> QED
  BY <1>4, <1>5

(* What f2u does.                                                          *)
LEMMA UIntIsExact ==
  ASSUME Inv
  PROVE  UIntExact
<1> SUFFICES ASSUME CastF2U
             PROVE  /\ Finite(x.n) /\ x.n >= 0 /\ x.n < Pow2[W] =>
                         x' = Bits(Truncated(x.n)) /\ UNCHANGED status
                    /\ ~Finite(x.n) \/ x.n < 0 \/ x.n > Pow2[W + 1] =>
                         status' = "overflow" /\ UNCHANGED x
  BY DEF UIntExact
<1>1. PICK f : f = x.n
  OBVIOUS
<1>2. Number(x) /\ x.type = "float"
  BY DEF Inv, CastF2U, IsFloat
<1>3. UIntOverflow(f) <=> ~Finite(f) \/ f > Pow2[W + 1] \/ f < 0
  BY LimitsAre DEF UIntOverflow
<1>4. UIntOverflow(f) => status' = "overflow" /\ x' = x
  BY <1>1 DEF CastF2U, EndAs
<1>5. ASSUME Finite(f), f >= 0, f < Pow2[W]
      PROVE  x' = Bits(Truncated(f)) /\ status' = status
  <2>1. f \in Int /\ Truncated(f) \in Int
    BY <1>1, <1>2, <1>5, FloatIs, TruncatedIs DEF Half
  <2>2. Truncated(f) \in INT_MIN..INT_MAX
    BY <1>5, <2>1, TruncatedIs, BoundsAre
  <2>3. ~UIntOverflow(f)
    BY <1>3, <1>5, <2>1, BoundsAre, TopIsFar
  <2> QED
    BY <1>1, <2>2, <2>3 DEF CastF2U, ToInt, Store
<1> QED
  BY <1>1, <1>3, <1>4, <1>5

(* f2i stores the number cut off behind the point or raises the overflow.  *)
THEOREM CastsToIntAreExact == Spec => CastIntExact
<1>1. Inv /\ [Next]_vars => [IntExact]_vars
  BY IntIsExact
<1> QED
  BY <1>1, InvHolds, PTL DEF Spec, CastIntExact

(* f2u is exact below 2^(W-1), and raises the overflow for what no uint is. *)
THEOREM CastsToUIntAreExact == Spec => CastUIntExact
<1>1. Inv /\ [Next]_vars => [UIntExact]_vars
  BY UIntIsExact
<1> QED
  BY <1>1, InvHolds, PTL DEF Spec, CastUIntExact

(* An integer that a double holds survives i2f and f2i.                    *)
THEOREM IntegersRoundTrip == Spec => []RoundTrip
<1>1. Inv => RoundTrip
  <2> SUFFICES ASSUME Inv, IsBits, x.n <= Pow2[P] \/ x.n >= Pow2[W] - Pow2[P]
               PROVE  /\ ~IntOverflow(Double(SInt(x)))
                      /\ \A n \in ToInt(Double(SInt(x))) : Bits(n) = x
    BY DEF RoundTrip
  <2>1. PICK s : s = SInt(x)
    OBVIOUS
  <2>2. Number(x) /\ x.type = "bits"
    BY DEF Inv, IsBits
  <2>3. s \in Int /\ INT_MIN <= s /\ s <= INT_MAX /\ Bits(s) = x /\ x.n \in Words
    BY <2>1, <2>2, SIntIs
  <2>4. Abs(s) <= Pow2[P]
    BY <2>1, <2>3, BoundsAre DEF SInt, Abs
  <2>5. Double(s) = 2 * s /\ 2 * s \in Int
    BY <2>3, <2>4, RoundInteger DEF Double
  <2>6. -Pow2[W] <= 2 * s /\ 2 * s <= Pow2[W]
    BY <2>3, BoundsAre
  <2>7. Finite(2 * s)
    BY <2>5, ArithAssumption DEF Finite
  <2>8. ~IntOverflow(2 * s)
    BY <2>5, <2>6, <2>7, LimitsAre, BoundsAre DEF IntOverflow
  <2>9. Truncated(2 * s) = s
    BY <2>3, <2>5, TruncatedIs
  <2>10. ToInt(2 * s) = {s}
    BY <2>3, <2>9, BoundsAre DEF ToInt
  <2> QED
    BY <2>1, <2>3, <2>5, <2>8, <2>10
<1> QED
  BY <1>1, InvHolds, PTL

-----------------------------------------------------------------------------
(* The steps of the divisions                                              *)

(* The integer a word stands for is the one as_int reads.                  *)
LEMMA SignedIs ==
  ASSUME NEW v, Number(v), v.type = "bits"
  PROVE  Signed(v) = SInt(v)
<1> DEFINE N == INT_MIN..INT_MAX
<1>1. SInt(v) \in N /\ Bits(SInt(v)) = v
  BY SIntIs, BoundsAre
<1>2. ASSUME NEW m \in N
      PROVE  Bits(m).n = IF m < 0 THEN m + Pow2[W] ELSE m
  <2>1. CASE m < 0
    <3>1. m + Pow2[W] \in Words
      BY <2>1, BoundsAre
    <3> QED
      BY <2>1, <3>1, BitsIs
  <2>2. CASE ~(m < 0)
    <3>1. m \in Words
      BY <2>2, BoundsAre
    <3> QED
      BY <2>2, <3>1, BitsIs
  <2> QED
    BY <2>1, <2>2
<1>3. ASSUME NEW m \in N, Bits(m) = v
      PROVE  m = SInt(v)
  <2>1. PICK n : n = SInt(v)
    OBVIOUS
  <2>2. Bits(m).n = Bits(n).n /\ n \in N
    BY <1>1, <1>3, <2>1
  <2>3. (IF m < 0 THEN m + Pow2[W] ELSE m) = (IF n < 0 THEN n + Pow2[W] ELSE n)
    BY <1>2, <2>2
  <2>4. m = n
    BY <2>2, <2>3, BoundsAre
  <2> QED
    BY <2>1, <2>4
<1> HIDE DEF N
<1> QED
  BY <1>1, <1>3 DEF Signed, N

(* Without a quotient in reach a division leaves nothing.                  *)
LEMMA NoDivision ==
  ASSUME NEW a \in Int, NEW b \in Int, NEW numbers \in SUBSET Int,
         b = 0 \/ (b = -1 /\ -a \notin numbers)
  PROVE  Divisions(a, b, numbers) = {}
<1> SUFFICES ASSUME NEW q \in numbers, NEW r \in numbers, Leaves(a, b, q, r)
             PROVE  FALSE
  BY DEF Divisions
<1>1. q \in Int /\ r \in Int /\ a = b * q + r /\ Abs(r) < Abs(b)
  BY DEF Leaves
<1>2. CASE b = 0
  BY <1>1, <1>2 DEF Abs
<1>3. CASE b = -1 /\ -a \notin numbers
  <2>1. r = 0
    BY <1>1, <1>3 DEF Abs
  <2>2. a = -q
    BY <1>1, <1>3, <2>1
  <2>3. q = -a
    BY <1>1, <2>2
  <2> QED
    BY <1>3, <2>3
<1> QED
  BY <1>2, <1>3

(* With one it leaves what C's operators compute.                          *)
LEMMA SignedDivision ==
  ASSUME NEW a \in INT_MIN..INT_MAX, NEW b \in INT_MIN..INT_MAX, b # 0, ~(a = INT_MIN /\ b = -1)
  PROVE  <<Quotient(a, b), Remainder(a, b)>> \in Divisions(a, b, INT_MIN..INT_MAX)
<1>1. PICK q, r : q = Quotient(a, b) /\ r = Remainder(a, b)
  OBVIOUS
<1>2. a \in Int /\ b \in Int /\ INT_MIN <= a /\ a <= INT_MAX /\ INT_MIN <= b /\ b <= INT_MAX
  BY BoundsAre
<1>3. /\ q \in Int /\ r \in Int /\ q * b + r = a /\ Abs(r) < Abs(b)
      /\ r # 0 => (r < 0) = (a < 0)
      /\ Abs(q) <= Abs(a) /\ (Abs(b) >= 2 => 2 * Abs(q) <= Abs(a)) /\ (q > 0 => (a < 0) = (b < 0))
  BY <1>1, <1>2, QuotientIs
<1>4. r \in INT_MIN..INT_MAX
  BY <1>2, <1>3, BoundsAre DEF Abs
<1>5. q \in INT_MIN..INT_MAX
  <2> SUFFICES ASSUME q < INT_MIN \/ q > INT_MAX
               PROVE  FALSE
    BY <1>3, BoundsAre
  <2>1. q = Pow2[W - 1] /\ a = -Pow2[W - 1]
    BY <1>2, <1>3, BoundsAre DEF Abs
  <2>2. b < 0
    BY <1>2, <1>3, <2>1, BoundsAre
  <2>3. ~(Abs(b) >= 2)
    BY <1>2, <1>3, <2>1, BoundsAre DEF Abs
  <2> QED
    BY <1>2, <2>1, <2>2, <2>3, BoundsAre DEF Abs
<1>6. Leaves(a, b, q, r)
  <2>1. q * b = b * q
    BY <1>2, <1>3
  <2> QED
    BY <1>3, <2>1 DEF Leaves
<1> QED
  BY <1>1, <1>4, <1>5, <1>6 DEF Divisions

LEMMA UnsignedDivision ==
  ASSUME NEW a \in Words, NEW b \in Words, b # 0
  PROVE  <<a \div b, a % b>> \in Divisions(a, b, Words)
<1>1. a \in Nat /\ b \in Nat \ {0} /\ a < Pow2[W] /\ Pow2[W] \in Nat
  BY BoundsAre
<1>2. PICK q, r : q = a \div b /\ r = a % b
  OBVIOUS
<1>3. q \in Nat /\ r \in Nat /\ r < b /\ a = b * q + r
  <2>1. \A c \in Nat, d \in Nat \ {0} :
          c \div d \in Nat /\ c % d \in Nat /\ c % d < d /\ c = d * (c \div d) + (c % d)
    OBVIOUS
  <2> QED
    BY <1>1, <1>2, <2>1
<1>4. q <= a
  <2>1. \A c \in Nat, d \in Nat \ {0} : c <= d * c
    OBVIOUS
  <2>2. q <= b * q /\ b * q \in Nat
    BY <1>1, <1>3, <2>1
  <2> QED
    BY <1>1, <1>3, <2>2
<1>5. q \in Words /\ r \in Words
  BY <1>1, <1>3, <1>4, BoundsAre
<1>6. Leaves(a, b, q, r)
  BY <1>1, <1>3 DEF Leaves, Abs
<1> QED
  BY <1>2, <1>5, <1>6 DEF Divisions

(* A step of divi or modi.                                                 *)
LEMMA SignedIsDivided ==
  ASSUME Inv
  PROVE  /\ DivI => Gives(Divisions(Signed(x), Signed(y), INT_MIN..INT_MAX), 1)
         /\ ModI => Gives(Divisions(Signed(x), Signed(y), INT_MIN..INT_MAX), 2)
<1> SUFFICES ASSUME DivI \/ ModI
             PROVE  /\ DivI => Gives(Divisions(Signed(x), Signed(y), INT_MIN..INT_MAX), 1)
                    /\ ModI => Gives(Divisions(Signed(x), Signed(y), INT_MIN..INT_MAX), 2)
  OBVIOUS
<1>1. BitsPair /\ x.type = "bits" /\ y.type = "bits" /\ Number(x) /\ Number(y) /\ (SInt(y) = 0 <=> y.n = 0)
  BY BitsPairIs DEF DivI, ModI, Inv
<1>2. PICK a, b : a = SInt(x) /\ b = SInt(y)
  OBVIOUS
<1>3. Signed(x) = a /\ Signed(y) = b /\ a \in INT_MIN..INT_MAX /\ b \in INT_MIN..INT_MAX
  BY <1>1, <1>2, SignedIs, SIntIs, BoundsAre
<1> DEFINE D == Divisions(a, b, INT_MIN..INT_MAX)
<1>4. NoQuotient <=> b = 0 \/ (a = INT_MIN /\ b = -1)
  BY <1>1, <1>2 DEF NoQuotient
<1>5. CASE NoQuotient
  <2>1. a \in Int /\ b \in Int /\ INT_MIN..INT_MAX \in SUBSET Int /\ -INT_MIN \notin INT_MIN..INT_MAX
    BY <1>3, BoundsAre
  <2>2. D = {}
    BY <1>4, <1>5, <2>1, NoDivision
  <2>3. status' = "trap" /\ x' = x
    BY <1>5 DEF DivI, ModI, EndAs
  <2> QED
    BY <1>3, <2>2, <2>3 DEF Gives
<1>6. CASE ~NoQuotient
  <2>1. PICK d : d = <<Quotient(a, b), Remainder(a, b)>>
    OBVIOUS
  <2>2. d \in D /\ D # {}
    BY <1>3, <1>4, <1>6, <2>1, SignedDivision
  <2>3. /\ DivI => x' = Bits(d[1]) /\ status' = status
        /\ ModI => x' = Bits(d[2]) /\ status' = status
    BY <1>2, <1>6, <2>1 DEF DivI, ModI, Store
  <2> HIDE DEF D
  <2>4. /\ DivI => Gives(D, 1)
        /\ ModI => Gives(D, 2)
    BY <2>2, <2>3 DEF Gives
  <2> QED
    BY <1>3, <2>4 DEF D
<1> QED
  BY <1>5, <1>6

(* A step of divu or modu.                                                 *)
LEMMA UnsignedIsDivided ==
  ASSUME Inv
  PROVE  /\ DivU => Gives(Divisions(x.n, y.n, Words), 1)
         /\ ModU => Gives(Divisions(x.n, y.n, Words), 2)
<1> SUFFICES ASSUME DivU \/ ModU
             PROVE  /\ DivU => Gives(Divisions(x.n, y.n, Words), 1)
                    /\ ModU => Gives(Divisions(x.n, y.n, Words), 2)
  OBVIOUS
<1>1. BitsPair /\ x.type = "bits" /\ y.type = "bits" /\ Number(x) /\ Number(y)
  BY BitsPairIs DEF DivU, ModU, Inv
<1>2. PICK a, b : a = x.n /\ b = y.n
  OBVIOUS
<1>3. a \in Words /\ b \in Words
  BY <1>1, <1>2, SIntIs
<1> DEFINE D == Divisions(a, b, Words)
<1>4. CASE b = 0
  <2>1. a \in Int /\ b \in Int /\ Words \in SUBSET Int
    BY <1>3, BoundsAre
  <2>2. D = {}
    BY <1>4, <2>1, NoDivision
  <2>3. status' = "trap" /\ x' = x
    BY <1>2, <1>4 DEF DivU, ModU, EndAs
  <2> QED
    BY <1>2, <2>2, <2>3 DEF Gives
<1>5. CASE b # 0
  <2>1. PICK d : d = <<a \div b, a % b>>
    OBVIOUS
  <2>2. d \in D /\ D # {}
    BY <1>3, <1>5, <2>1, UnsignedDivision
  <2>3. /\ DivU => x' = Bits(d[1]) /\ status' = status
        /\ ModU => x' = Bits(d[2]) /\ status' = status
    BY <1>2, <1>5, <2>1 DEF DivU, ModU, Store
  <2> HIDE DEF D
  <2>4. /\ DivU => Gives(D, 1)
        /\ ModU => Gives(D, 2)
    BY <2>2, <2>3 DEF Gives
  <2> QED
    BY <1>2, <2>4 DEF D
<1> QED
  BY <1>4, <1>5

(* Every division stores the quotient or the remainder of the numbers its  *)
(* words stand for, and stops the process just when there is none.         *)
THEOREM DivisionsAreExact == Spec => DivisionExact
<1>1. Inv /\ [Next]_vars => [Divided]_vars
  BY SignedIsDivided, UnsignedIsDivided DEF Divided
<1> QED
  BY <1>1, InvHolds, PTL DEF Spec, DivisionExact

-----------------------------------------------------------------------------
(* Comparisons                                                             *)

(* The sign of a rounded difference of doubles is that of the difference.  *)
LEMMA DifferenceIs ==
  ASSUME NEW p \in Half, NEW q \in Half
  PROVE  /\ Minus(p, q) \in Int /\ Finite(Minus(p, q))
         /\ Minus(p, q) < 0 <=> p < q
         /\ Minus(p, q) = 0 <=> p = q
         /\ Minus(p, q) > 0 <=> p > q
<1>1. p \in Int /\ q \in Int /\ Finite(p) /\ Finite(q) /\ Abs(p) <= 8 * Pow2[W] /\ Abs(q) <= 8 * Pow2[W]
  BY ArithAssumption DEF Half, Finite
<1>2. PICK d \in Int : d = p - q
  BY <1>1
<1>3. Abs(d) < Top
  <2>1. Abs(d) <= 16 * Pow2[W] /\ Abs(d) \in Nat
    BY <1>1, <1>2, BoundsAre DEF Abs
  <2> QED
    BY <2>1, TopIsFar, BoundsAre
<1>4. Minus(p, q) = Round(d)
  BY <1>1, <1>2 DEF Minus
<1>5. Round(d) \in Int /\ (d > 0 => Round(d) > 0) /\ (d < 0 => Round(d) < 0) /\ (d = 0 => Round(d) = 0)
  BY <1>3, RoundIs
<1>6. Finite(Round(d))
  BY <1>5, ArithAssumption DEF Finite
<1> QED
  BY <1>1, <1>2, <1>4, <1>5, <1>6

(* The flags after the difference of the doubles p and q that a and b were *)
(* rounded to.                                                             *)
LEMMA FlagsAre ==
  ASSUME NEW a \in Int, NEW b \in Int, NEW p \in Half, NEW q \in Half,
         a <= b => p <= q, b <= a => q <= p,
         Abs(a) <= 2 * Pow2[P] /\ Abs(b) <= 2 * Pow2[P] => p = a /\ q = b,
         Round(a) = a /\ Round(b) = b => p = a /\ q = b,
         cmp_diff' = Minus(p, q)
  PROVE  Ordered(a, b)'
<1>1. PICK d \in Int : /\ d = cmp_diff' /\ Finite(d)
                       /\ d < 0 <=> p < q
                       /\ d = 0 <=> p = q
                       /\ d > 0 <=> p > q
  BY DifferenceIs
<1>2. /\ Less' <=> d < 0
      /\ Equal' <=> d = 0
      /\ Greater' <=> d > 0
  BY <1>1, ArithAssumption DEF Less, Equal, Greater, Finite
<1>3. p \in Int /\ q \in Int /\ Finite(a) /\ Finite(b)
  BY ArithAssumption DEF Half, Finite
<1>4. /\ a < b => ~(d > 0)
      /\ a > b => ~(d < 0)
      /\ a = b => d = 0
      /\ p = a /\ q = b => (d = 0 <=> a = b) /\ (d < 0 <=> a < b) /\ (d > 0 <=> a > b)
  BY <1>1, <1>3
<1> QED
  BY <1>2, <1>3, <1>4 DEF Ordered

(* The flags when an infinity or NaN is compared.                          *)
LEMMA SpecialFlagsAre ==
  ASSUME NEW a \in Half \cup {Inf, NegInf, NaN}, NEW b \in Half \cup {Inf, NegInf, NaN},
         ~(Finite(a) /\ Finite(b)),
         cmp_diff' = Minus(a, b)
  PROVE  Ordered(a, b)'
<1>1. cmp_diff' = IF NaN \in {a, b} \/ a = b THEN NaN
                  ELSE IF a = Inf \/ b = NegInf THEN Inf ELSE NegInf
  BY DEF Minus
<1>2. /\ ~Equal'
      /\ Less' <=> cmp_diff' = NegInf
      /\ Greater' <=> cmp_diff' = Inf
  BY <1>1, ArithAssumption DEF Less, Equal, Greater, Finite
<1>3. {a, b} \cap {Inf, NegInf, NaN} # {}
  BY DEF Finite
<1>4. Half \subseteq Int
  BY DEF Half
<1>5. cmp_diff' = NegInf <=> NaN \notin {a, b} /\ a # b /\ (a = NegInf \/ b = Inf)
  BY <1>1, <1>3, <1>4, ArithAssumption
<1>6. cmp_diff' = Inf <=> NaN \notin {a, b} /\ a # b /\ (a = Inf \/ b = NegInf)
  BY <1>1, <1>3, <1>4, ArithAssumption
<1> QED
  BY <1>2, <1>5, <1>6 DEF Ordered

(* The flags after a comparison of integers that become doubles.           *)
LEMMA IntegerFlagsAre ==
  ASSUME NEW m \in Int, NEW n \in Int, Abs(m) <= Pow2[W], Abs(n) <= Pow2[W],
         cmp_diff' = Minus(Double(m), Double(n))
  PROVE  Ordered(2 * m, 2 * n)'
<1>1. /\ 2 * m \in Int /\ 2 * n \in Int /\ Abs(2 * m) < Top /\ Abs(2 * n) < Top
      /\ Double(m) \in Half /\ Double(n) \in Half
      /\ Double(m) = Round(2 * m) /\ Double(n) = Round(2 * n)
  BY DoubleIs DEF Double
<1>2. (2 * m <= 2 * n => Round(2 * m) <= Round(2 * n)) /\ (2 * n <= 2 * m => Round(2 * n) <= Round(2 * m))
  BY <1>1, RoundMono
<1>3. Abs(2 * m) <= 2 * Pow2[P] /\ Abs(2 * n) <= 2 * Pow2[P]
        => Round(2 * m) = 2 * m /\ Round(2 * n) = 2 * n
  <2>1. /\ Abs(2 * m) <= 2 * Pow2[P] => Abs(m) <= Pow2[P]
        /\ Abs(2 * n) <= 2 * Pow2[P] => Abs(n) <= Pow2[P]
    BY BoundsAre DEF Abs
  <2> QED
    BY <2>1, RoundInteger
<1> QED
  BY <1>1, <1>2, <1>3, FlagsAre

(* What a comparison leaves.                                               *)
LEMMA ComparedIs ==
  ASSUME Inv
  PROVE  Compared
<1>1. ASSUME CmpI
      PROVE  Ordered(2 * SInt(x), 2 * SInt(y))'
  <2>1. /\ cmp_diff' = Minus(Double(SInt(x)), Double(SInt(y))) /\ x' = x /\ y' = y
        /\ x.type = "bits" /\ y.type = "bits" /\ Number(x) /\ Number(y)
    BY <1>1 DEF CmpI, BitsPair, Running, Compare, Inv
  <2>2. PICK m, n : m = SInt(x) /\ n = SInt(y)
    OBVIOUS
  <2>3. m \in Int /\ n \in Int /\ Abs(m) <= Pow2[W] /\ Abs(n) <= Pow2[W]
    BY <2>1, <2>2, SIntIs
  <2>4. Ordered(2 * m, 2 * n)'
    BY <2>1, <2>2, <2>3, IntegerFlagsAre
  <2>5. SInt(x)' = m /\ SInt(y)' = n
    BY <2>1, <2>2 DEF SInt
  <2> QED
    BY <2>4, <2>5 DEF Ordered
<1>2. ASSUME CmpU
      PROVE  Ordered(2 * x.n, 2 * y.n)'
  <2>1. /\ cmp_diff' = Minus(Double(x.n), Double(y.n)) /\ x' = x /\ y' = y
        /\ x.type = "bits" /\ y.type = "bits" /\ Number(x) /\ Number(y)
    BY <1>2 DEF CmpU, BitsPair, Running, Compare, Inv
  <2>2. PICK m, n : m = x.n /\ n = y.n
    OBVIOUS
  <2>3. m \in Int /\ n \in Int /\ Abs(m) <= Pow2[W] /\ Abs(n) <= Pow2[W]
    BY <2>1, <2>2, SIntIs, BoundsAre DEF Abs
  <2>4. Ordered(2 * m, 2 * n)'
    BY <2>1, <2>2, <2>3, IntegerFlagsAre
  <2>5. x'.n = m /\ y'.n = n
    BY <2>1, <2>2
  <2> QED
    BY <2>4, <2>5 DEF Ordered
<1>3. ASSUME CmpF
      PROVE  Ordered(x.n, y.n)'
  <2>1. /\ cmp_diff' = Minus(x.n, y.n) /\ x' = x /\ y' = y
        /\ x.type = "float" /\ y.type = "float" /\ Number(x) /\ Number(y)
    BY <1>3 DEF CmpF, Running, Compare, Inv
  <2>2. PICK a, b : a = x.n /\ b = y.n
    OBVIOUS
  <2>3. /\ a \in Half \cup {Inf, NegInf, NaN} /\ b \in Half \cup {Inf, NegInf, NaN}
        /\ Finite(a) <=> a \in Half
        /\ Finite(b) <=> b \in Half
    BY <2>1, <2>2, FloatIs
  <2>4. Ordered(a, b)'
    <3>1. CASE Finite(a) /\ Finite(b)
      <4>1. a \in Half /\ b \in Half /\ a \in Int /\ b \in Int
        BY <2>3, <3>1 DEF Half
      <4> QED
        BY <2>1, <2>2, <4>1, FlagsAre
    <3>2. CASE ~(Finite(a) /\ Finite(b))
      BY <2>1, <2>2, <2>3, <3>2, SpecialFlagsAre
    <3> QED
      BY <3>1, <3>2
  <2>5. x'.n = a /\ y'.n = b
    BY <2>1, <2>2
  <2> QED
    BY <2>4, <2>5 DEF Ordered
<1> QED
  BY <1>1, <1>2, <1>3 DEF Compared

(* A comparison through the difference of two doubles never answers the    *)
(* wrong way round, and is exact for doubles and for integers that doubles *)
(* hold.                                                                   *)
THEOREM ComparisonsAreSound == Spec => CompareSound
<1>1. Inv /\ [Next]_vars => [Compared]_vars
  BY ComparedIs
<1> QED
  BY <1>1, InvHolds, PTL DEF Spec, CompareSound
=============================================================================

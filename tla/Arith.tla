-------------------------------- MODULE Arith --------------------------------
(***************************************************************************)
(* What the interpreter computes: integers of W bits, doubles of P bits,   *)
(* casts between them, division, and comparison through the difference of  *)
(* two doubles, which the resolvers and jumps then read.  Two slots and    *)
(* the flags; a program reads a slot as what it last wrote there.          *)
(*                                                                         *)
(* A double is a number of halves, so that some are no integers, or Inf,   *)
(* -Inf or NaN.  64 and 53 bits are scaled to W and P with P < W.          *)
(***************************************************************************)
EXTENDS Integers

CONSTANTS W, P,
          Inf, NegInf, NaN

ASSUME ArithAssumption ==
  /\ W \in Nat /\ P \in Nat /\ 1 < P /\ P + 1 < W
  /\ Inf \notin Int /\ NegInf \notin Int /\ NaN \notin Int
  /\ Inf # NegInf /\ Inf # NaN /\ NegInf # NaN

VARIABLES x, y,       \* the slots
          cmp_diff,   \* ctx->cmp_diff
          status      \* "running", "overflow" (the error) or "trap" (a signal)

vars == <<x, y, cmp_diff, status>>

\* The powers of two.
Pow2[n \in Nat] == IF n = 0 THEN 1 ELSE 2 * Pow2[n - 1]

Words == 0..(Pow2[W] - 1)
INT_MAX == Pow2[W - 1] - 1
INT_MIN == -(Pow2[W - 1])
UINT_MAX == Pow2[W] - 1

Bits(n) == [type |-> "bits", n |-> n % Pow2[W]]
Float(f) == [type |-> "float", n |-> f]
\* Mutant: as_uint where as_int is meant.
SIntUnsigned(v) == v.n
SInt(v) == IF v.n > INT_MAX THEN v.n - Pow2[W] ELSE v.n

Abs(n) == IF n < 0 THEN -n ELSE n

\* A number of halves as the nearest double, ties to even.
Exponent(n) == CHOOSE e \in 0..(2 * W + 2) :
                 Abs(n) < Pow2[P + e] /\ (e > 0 => Abs(n) >= Pow2[P + e - 1])
Round(n) ==
  LET unit == Pow2[Exponent(n)]
      low  == (Abs(n) \div unit) * unit
      rest == 2 * (Abs(n) - low)
      up   == rest > unit \/ (rest = unit /\ (low \div unit) % 2 = 1)
      near == IF up THEN low + unit ELSE low
  IN  IF n < 0 THEN -near ELSE near

Double(n) == Round(2 * n)                \* (double) n
Finite(f) == f \notin {Inf, NegInf, NaN}

\* C's / and % round towards 0.
Quotient(a, b) == LET q == Abs(a) \div Abs(b) IN IF (a < 0) = (b < 0) THEN q ELSE -q
Remainder(a, b) == a - b * Quotient(a, b)
Truncated(f) == Quotient(f, 2)

\* A conversion that does not fit is undefined: x86 gives the least integer,
\* other machines the nearest.
ToInt(f) == IF Truncated(f) \in INT_MIN..INT_MAX THEN {Truncated(f)} ELSE {INT_MIN, INT_MAX}

\* a - b of doubles.
Minus(a, b) ==
  IF Finite(a) /\ Finite(b) THEN Round(a - b)
  ELSE IF NaN \in {a, b} \/ a = b THEN NaN
  ELSE IF a = Inf \/ b = NegInf THEN Inf ELSE NegInf

-----------------------------------------------------------------------------
Running(types) == status = "running" /\ x.type = types[1] /\ y.type = types[2]
IsBits == status = "running" /\ x.type = "bits"
IsFloat == status = "running" /\ x.type = "float"

Store(v) == x' = v /\ UNCHANGED <<y, cmp_diff, status>>
EndAs(how) == status' = how /\ UNCHANGED <<x, y, cmp_diff>>

CastI2F == IsBits /\ Store(Float(Double(SInt(x))))
CastU2F == IsBits /\ Store(Float(Double(x.n)))

\* Mutants: only the upper bound is tested.
IntOverflowAbove(f) == ~Finite(f) \/ f > Double(INT_MAX)
UIntOverflowAbove(f) == ~Finite(f) \/ f > Double(UINT_MAX)

\* The bounds become doubles before they are compared.
IntOverflow(f) == ~Finite(f) \/ f > Double(INT_MAX) \/ f < Double(INT_MIN)
UIntOverflow(f) == ~Finite(f) \/ f > Double(UINT_MAX) \/ f < 0

CastF2I == IsFloat /\ IF IntOverflow(x.n) THEN EndAs("overflow")
                      ELSE \E n \in ToInt(x.n) : Store(Bits(n))

\* It stores as_int as well.
CastF2U == IsFloat /\ IF UIntOverflow(x.n) THEN EndAs("overflow")
                      ELSE \E n \in ToInt(x.n) : Store(Bits(n))

\* Sums and products keep the low W bits, as the machine's do.
BitsPair == Running(<<"bits", "bits">>)

Add == BitsPair /\ Store(Bits(x.n + y.n))
Sub == BitsPair /\ Store(Bits(x.n - y.n))
Mul == BitsPair /\ Store(Bits(x.n * y.n))

\* What C makes of a condition; as_bool is a whole word.
Bool(condition) == IF condition THEN 1 ELSE 0

\* inc, dec, negi, absi, bnot and not.
Unary ==
  IsBits /\ \E n \in {x.n + 1, x.n - 1, -x.n, Abs(SInt(x)), UINT_MAX - x.n, Bool(x.n = 0)} :
              Store(Bits(n))

\* The places of the bits that are set.
Ones(n) == {k \in 0..(W - 1) : (n \div Pow2[k]) % 2 = 1}

\* band, bor, bxor, and, or; xor is bxor.
BitOp ==
  /\ BitsPair
  /\ LET a == Ones(x.n)  b == Ones(y.n)
     IN  \E n \in Words : /\ \/ Ones(n) \in {a \cap b, a \cup b, (a \cup b) \ (a \cap b)}
                            \/ n \in {Bool(x.n # 0 /\ y.n # 0), Bool(x.n # 0 \/ y.n # 0)}
                         /\ Store(Bits(n))

\* shl, shr and shra.  A count of W or more is undefined: the machine takes it
\* modulo W, a compiler that knows it may shift everything out.
Shift ==
  BitsPair /\ \E k \in IF y.n < W THEN {y.n} ELSE {y.n % W, W} :
    Store(Bits(x.n * Pow2[k])) \/ Store(Bits(x.n \div Pow2[k])) \/ Store(Bits(SInt(x) \div Pow2[k]))

\* A quotient that does not exist or fit is a signal, for the remainder too.
NoQuotient == y.n = 0 \/ (SInt(x) = INT_MIN /\ SInt(y) = -1)

DivI == BitsPair /\ IF NoQuotient THEN EndAs("trap") ELSE Store(Bits(Quotient(SInt(x), SInt(y))))
ModI == BitsPair /\ IF NoQuotient THEN EndAs("trap") ELSE Store(Bits(Remainder(SInt(x), SInt(y))))

DivU == BitsPair /\ IF y.n = 0 THEN EndAs("trap") ELSE Store(Bits(x.n \div y.n))
ModU == BitsPair /\ IF y.n = 0 THEN EndAs("trap") ELSE Store(Bits(x.n % y.n))

-----------------------------------------------------------------------------
Compare(a, b) == cmp_diff' = Minus(a, b) /\ UNCHANGED <<x, y, status>>

CmpI == BitsPair /\ Compare(Double(SInt(x)), Double(SInt(y)))
CmpU == BitsPair /\ Compare(Double(x.n), Double(y.n))
CmpF == Running(<<"float", "float">>) /\ Compare(x.n, y.n)

\* Mutant: less as neither equal nor greater.
LessOtherwise == cmp_diff # 0 /\ (Finite(cmp_diff) => cmp_diff < 0) /\ cmp_diff # Inf

\* cmp_diff OP 0; NaN is neither less, equal nor greater.
Less == cmp_diff = NegInf \/ (Finite(cmp_diff) /\ cmp_diff < 0)
Equal == Finite(cmp_diff) /\ cmp_diff = 0
Greater == cmp_diff = Inf \/ (Finite(cmp_diff) /\ cmp_diff > 0)

Resolve == /\ status = "running"
           /\ \E flag \in {Less, Equal, Greater, ~Equal, Less \/ Equal, Greater \/ Equal} :
                Store(Bits(Bool(flag)))
Mov == /\ status = "running"
       /\ Store(y)

Doubles == {Round(n) : n \in -(Pow2[W + 2])..(Pow2[W + 2])} \cup {Inf, NegInf, NaN}
Values == {Bits(n) : n \in Words} \cup {Float(f) : f \in Doubles}

\* Before the first comparison cmp_diff is what malloc returned.
Init == /\ x \in Values /\ y \in Values
        /\ cmp_diff \in {NegInf, 0, Inf, NaN}
        /\ status = "running"

Next == \/ CastI2F \/ CastU2F \/ CastF2I \/ CastF2U
        \/ Add \/ Sub \/ Mul \/ DivI \/ ModI \/ DivU \/ ModU
        \/ Unary \/ BitOp \/ Shift
        \/ CmpI \/ CmpU \/ CmpF \/ Resolve \/ Mov

Spec == Init /\ [][Next]_vars

-----------------------------------------------------------------------------
\* What a step of f2i does.
IntExact ==
  CastF2I /\ x.n # Pow2[W] =>
    IF Finite(x.n) /\ Truncated(x.n) \in INT_MIN..INT_MAX
    THEN x' = Bits(Truncated(x.n)) /\ UNCHANGED status
    ELSE status' = "overflow" /\ UNCHANGED x

\* f2i stores the number cut off behind the point or raises the overflow, and
\* raises it just when the number does not fit; only 2^(W-1) itself, to which
\* INT_MAX is rounded in the test, slips through (exec.c:296).
CastIntExact == [][IntExact]_vars

\* What a step of f2u does.
UIntExact ==
  CastF2U =>
    /\ Finite(x.n) /\ x.n >= 0 /\ x.n < Pow2[W] =>
         x' = Bits(Truncated(x.n)) /\ UNCHANGED status
    /\ ~Finite(x.n) \/ x.n < 0 \/ x.n > Pow2[W + 1] =>
         status' = "overflow" /\ UNCHANGED x

\* f2u is exact below 2^(W-1) and raises the overflow for what is negative,
\* not finite or above 2^W; between the two it stores a signed integer and
\* nothing is certain (exec.c:322, 333).
CastUIntExact == [][UIntExact]_vars

\* An integer of at most 2^P in size survives i2f and f2i.
RoundTrip ==
  IsBits /\ (x.n <= Pow2[P] \/ x.n >= Pow2[W] - Pow2[P]) =>
    LET f == Double(SInt(x))
    IN  ~IntOverflow(f) /\ \A n \in ToInt(f) : Bits(n) = x

\* The flags of the numbers a and b, given in halves.  NaN, and two equal
\* infinities, are unordered.
Ordered(a, b) ==
  LET exact == \/ Abs(a) <= 2 * Pow2[P] /\ Abs(b) <= 2 * Pow2[P]
               \/ Round(a) = a /\ Round(b) = b
  IN  IF Finite(a) /\ Finite(b)
      THEN /\ a < b => ~Greater
           /\ a > b => ~Less
           /\ a = b => Equal
           /\ exact => (Equal <=> a = b) /\ (Less <=> a < b) /\ (Greater <=> a > b)
      ELSE /\ ~Equal
           /\ Less <=> NaN \notin {a, b} /\ a # b /\ (a = NegInf \/ b = Inf)
           /\ Greater <=> NaN \notin {a, b} /\ a # b /\ (a = Inf \/ b = NegInf)

\* The flags that a comparison leaves.
Compared ==
  /\ CmpI => Ordered(2 * SInt(x), 2 * SInt(y))'
  /\ CmpU => Ordered(2 * x.n, 2 * y.n)'
  /\ CmpF => Ordered(x.n, y.n)'

\* Going through doubles a comparison never answers the wrong way round, and
\* is exact for doubles and for integers up to 2^P; larger ones that differ
\* may be equal to it (exec.c:45).
CompareSound == [][Compared]_vars

\* The integer of W bits whose two's complement the word v is.
Signed(v) == CHOOSE n \in INT_MIN..INT_MAX : Bits(n) = v

\* What a divided by b leaves, a quotient and a remainder: together they give a
\* back, and the remainder is smaller than b and has the sign of a.
Leaves(a, b, q, r) == a = b * q + r /\ Abs(r) < Abs(b) /\ (r = 0 \/ (r < 0) = (a < 0))
Divisions(a, b, numbers) == {d \in numbers \X numbers : Leaves(a, b, d[1], d[2])}

\* The step stores part i of the division, and is the signal if there is none.
Gives(divisions, i) ==
  IF divisions = {} THEN status' = "trap" /\ UNCHANGED x
                    ELSE UNCHANGED status /\ \E d \in divisions : x' = Bits(d[i])

\* What a step of a division does.
Divided ==
  /\ DivI => Gives(Divisions(Signed(x), Signed(y), INT_MIN..INT_MAX), 1)
  /\ ModI => Gives(Divisions(Signed(x), Signed(y), INT_MIN..INT_MAX), 2)
  /\ DivU => Gives(Divisions(x.n, y.n, Words), 1)
  /\ ModU => Gives(Divisions(x.n, y.n, Words), 2)

\* No division answers wrongly: divi and divu store the quotient and modi and modu
\* the remainder of the same division, of the numbers the words stand for, and the
\* process is stopped just when W bits hold no such quotient: by 0, and of INT_MIN
\* by -1, for modi too, although that remainder would be 0 (exec.c:366-372, 404-410).
DivisionExact == [][Divided]_vars
=============================================================================

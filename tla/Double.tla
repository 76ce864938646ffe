-------------------------------- MODULE Double --------------------------------
(***************************************************************************)
(* Numbers of type double: fractions <<numerator, denominator>> with a       *)
(* positive denominator.  The operations below are exact, and the code's are *)
(* rounded: Round() gives the nearest double, of at most Precision (2^53)    *)
(* times a power of two.  Infinity and numbers that are none are left out.   *)
(***************************************************************************)
EXTENDS Integers, FiniteSetsExt

CONSTANTS
    Precision,      \* the whole numbers up to it are doubles
    Exponents       \* of the powers of two that a double is a multiple of

ASSUME DoublesAreValid == Precision \in Nat \ {0} /\ Exponents \subseteq Int

Abs(n) == IF n < 0 THEN -n ELSE n

(* Division of C++ rounds towards zero, "floor" does not.                     *)
Quotient(n, d) == IF (n < 0) = (d < 0) THEN Abs(n) \div Abs(d) ELSE -(Abs(n) \div Abs(d))

Whole(n) == <<n, 1>>
Truncated(a) == Quotient(a[1], a[2])                        \* a cast to an integer
Floor(a) == a[1] \div a[2]

Minus(a, b) == <<a[1] * b[2] - b[1] * a[2], a[2] * b[2]>>
Times(a, b) == <<a[1] * b[1], a[2] * b[2]>>
Over(a, b) ==
    IF b[1] < 0 THEN <<-(a[1] * b[2]), -(a[2] * b[1])>> ELSE <<a[1] * b[2], a[2] * b[1]>>
AtMost(a, b) == a[1] * b[2] <= b[1] * a[2]
LessThan(a, b) == a[1] * b[2] < b[1] * a[2]
AbsOf(a) == <<Abs(a[1]), a[2]>>

(* The unit is the smallest of which Precision reach to the number; of the    *)
(* two multiples around it the nearer one is taken, and else the even one.    *)
PowerOfTwo(e) == IF e < 0 THEN <<1, 2 ^ (-e)>> ELSE <<2 ^ e, 1>>

UnitOf(a) ==
    PowerOfTwo(Min({e \in Exponents :
                    AtMost(AbsOf(a), Times(Whole(Precision), PowerOfTwo(e)))}))

HalfToEven(a) ==
    LET rest == 2 * (a[1] % a[2])
    IN Floor(a) + IF rest > a[2] \/ (rest = a[2] /\ Floor(a) % 2 = 1) THEN 1 ELSE 0

InUnits(a, unit) ==
    Times(Whole(IF a[1] < 0 THEN -HalfToEven(Over(AbsOf(a), unit))
                ELSE HalfToEven(Over(AbsOf(a), unit))), unit)

Round(a) == InUnits(a, UnitOf(a))
===============================================================================

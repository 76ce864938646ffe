-------------------------------- MODULE Ratio ---------------------------------
(***************************************************************************)
(* hlib::math: fractions, values with a ratio, and the search for a fraction *)
(* near a number of type double.  Values and fractions are of a signed type  *)
(* with the given largest value, of int or more.                             *)
(***************************************************************************)
EXTENDS Double, Sequences

Gcd[p \in Nat \X Nat] == IF p[2] = 0 THEN p[1] ELSE Gcd[<<p[2], p[1] % p[2]>>]

-----------------------------------------------------------------------------
(* Knuth's comparisons; epsilon is a number too.                              *)
Larger(a, b) == IF LessThan(AbsOf(a), AbsOf(b)) THEN AbsOf(b) ELSE AbsOf(a)
Smaller(a, b) == IF LessThan(AbsOf(b), AbsOf(a)) THEN AbsOf(b) ELSE AbsOf(a)

Difference(a, b) == Round(Minus(a, b))
LargerPart(a, b, epsilon) == Round(Times(Larger(a, b), epsilon))


ApproximatelyEqual(a, b, epsilon) ==
    AtMost(AbsOf(Difference(a, b)), LargerPart(a, b, epsilon))
EssentiallyEqual(a, b, epsilon) ==
    AtMost(AbsOf(Difference(a, b)), Round(Times(Smaller(a, b), epsilon)))
DefinitelyGreaterThan(a, b, epsilon) == LessThan(LargerPart(a, b, epsilon), Difference(a, b))
DefinitelyLessThan(a, b, epsilon) == LessThan(LargerPart(a, b, epsilon), Difference(b, a))

Clamp(value, min, max) ==
    LET below == IF max < value THEN max ELSE value
    IN IF below < min THEN min ELSE below

-----------------------------------------------------------------------------
(* Fraction: compared by cross multiplication, whatever the signs.            *)
FractionEqual(a, b) == a[1] * b[2] = b[1] * a[2]
FractionLess(a, b) == a[1] * b[2] < b[1] * a[2]
FractionLessEqual(a, b) == a[1] * b[2] <= b[1] * a[2]

(* to<T>(): the number of type double, and std::round() of it, by which       *)
(* halves go away from zero.                                                  *)
FractionToDouble(a) == Round(Over(Round(Whole(a[1])), Round(Whole(a[2]))))

FractionToInteger(a) ==
    LET x == FractionToDouble(a)
        rounded == (2 * Abs(x[1]) + x[2]) \div (2 * x[2])
    IN IF x[1] < 0 THEN -rounded ELSE rounded

-----------------------------------------------------------------------------
(* The values of a type, and what a cast makes of a number.                   *)
Representable(largest) == -largest - 1 .. largest
Narrow(n, largest) == ((n + largest + 1) % (2 * (largest + 1))) - largest - 1

(* What may come out of a product that is divided: any value, if the product  *)
(* overflows, which is undefined.                                             *)
Computed(product, divisor, largest) ==
    IF /\ product \in Representable(largest) /\ divisor # 0
       /\ Quotient(product, divisor) \in Representable(largest)
    THEN {Quotient(product, divisor)} ELSE Representable(largest)

(* RatioValue: a value in units of num / den.                                 *)
RatioTimesFraction(value, f, largest) == Computed(value * f[1], f[2], largest)
RatioDividedByFraction(value, f, largest) == Computed(value * f[2], f[1], largest)

(* to<Ratio, Type>(): the value and the quotient of the ratios, in lowest     *)
(* terms, are cast to the type and multiplied in it.                          *)
Factor(from, to) ==
    LET n == from[1] * to[2]
        d == from[2] * to[1]
    IN <<n \div Gcd[<<n, d>>], d \div Gcd[<<n, d>>]>>

(* Mutant of RatioTo: divided first.                                          *)
RatioToDivided(value, from, to, largest) ==
    LET f == Factor(from, to)
    IN Computed(Quotient(Narrow(value, largest), Narrow(f[2], largest)) * Narrow(f[1], largest),
                1, largest)

RatioTo(value, from, to, largest) ==
    LET f == Factor(from, to)
    IN Computed(Narrow(value, largest) * Narrow(f[1], largest), Narrow(f[2], largest), largest)

-----------------------------------------------------------------------------
(* The search of to_fraction() for a number below one: how far off h / k is,  *)
(* whether it is near, the one that the loop is at, and a turn of it, unless  *)
(* the search has ended.  h / 0 is infinite, and a becomes 0.                 *)
Off(rest, h, k) == Round(Minus(rest, Round(Over(Whole(h), Whole(k)))))
Near(rest, tolerance, h, k) == k # 0 /\ LessThan(AbsOf(Off(rest, h, k)), tolerance)

SearchedH(s) == s.a * s.h1 + s.h2
SearchedK(s) == s.a * s.k1 + s.k2

SearchNext(rest, tolerance, s) ==
    LET h == SearchedH(s)
        k == SearchedK(s)
        a == IF k = 0 THEN 0 ELSE Truncated(Round(Over(Whole(1), Off(rest, h, k))))
    IN IF Near(rest, tolerance, h, k) THEN s
       ELSE [a |-> a, h1 |-> h, h2 |-> s.h1, k1 |-> k, k2 |-> s.k1]

(* to_fraction(): it starts from the integral part, though that has been      *)
(* subtracted from the number.  It answers <<>> if it has not ended after so  *)
(* many steps.                                                                *)
ToFraction(value, tolerance, steps) ==
    LET sign == IF value[1] < 0 THEN -1 ELSE 1
        integral == Floor(AbsOf(value))
        rest == Round(Minus(AbsOf(value), Whole(integral)))
        search[n \in 0 .. steps - 1] ==
            IF n = 0 THEN [a |-> integral, h1 |-> 1, h2 |-> 0, k1 |-> 0, k2 |-> 1]
            ELSE SearchNext(rest, tolerance, search[n - 1])
        h == SearchedH(search[steps - 1])
        k == SearchedK(search[steps - 1])
        common == Gcd[<<Abs(integral * k + h), Abs(k)>>]
    IN IF LessThan(rest, tolerance) THEN <<integral * sign, 1>>
       ELSE IF Near(rest, tolerance, h, k)
       THEN <<Quotient((integral * k + h) * sign, common), Quotient(k, common)>>
       ELSE <<>>
=============================================================================

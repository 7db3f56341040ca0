------------------------------ MODULE Fractions ------------------------------
(***************************************************************************)
(* Rational numbers that are not negative, as reduced pairs <<n, d>>: what *)
(* the money, the lengths and the minutes of the pricing engine, float64   *)
(* in the code, are computed with here.                                    *)
(***************************************************************************)
EXTENDS Integers

Fraction == Nat \X (Nat \ {0})

gcd[a \in Nat, b \in Nat] == IF b = 0 THEN a ELSE gcd[b, a % b]

\* What makes the pair stand for n / d is that g divides both, which is asked of
\* it here; that no greater number does only keeps the numbers small.
Divides(g, n) == g \in Nat \ {0} /\ n % g = 0
IfCommon(g, n, d) == IF Divides(g, n) /\ Divides(g, d) THEN g ELSE 1
CommonDivisor(n, d) == IfCommon(gcd[n, d], n, d)

Reduced(n, d, g) == <<n \div g, d \div g>>
Frac(n, d) == Reduced(n, d, CommonDivisor(n, d))
Whole(n) == <<n, 1>>
Zero == Whole(0)
One == Whole(1)

\* Factors are cancelled before they are multiplied: TLC's integers have 32 bits.
PairTimes(x, y) == <<x[1] * y[1], x[2] * y[2]>>
a \otimes b == PairTimes(Frac(a[1], b[2]), Frac(b[1], a[2]))
a \oslash b == a \otimes <<b[2], b[1]>>
a \oplus b == LET g == CommonDivisor(a[2], b[2])
              IN Frac(a[1] * (b[2] \div g) + b[1] * (a[2] \div g),
                      a[2] * (b[2] \div g))
a \preceq b == LET g == CommonDivisor(a[2], b[2])
               IN a[1] * (b[2] \div g) <= b[1] * (a[2] \div g)

Positive(x) == x[1] > 0

\* 1 - x, of a fraction that is at most one.
Complement(x) == Frac(x[2] - x[1], x[2])

Larger(a, b) == IF a \preceq b THEN b ELSE a

\* math.Round(x * 100) / 100: to the nearest hundredth, halves upwards.
Hundredths(x) ==
    LET rest == 200 * (x[1] % x[2]) + x[2]
    IN Frac((x[1] \div x[2]) * 100 + rest \div (2 * x[2]), 100)

\* math.Round(x).
Nearest(x) == Whole((2 * x[1] + x[2]) \div (2 * x[2]))

\* The root of a number that has one.
Root(x) == Frac(CHOOSE n \in 0 .. x[1] : n * n = x[1],
                CHOOSE d \in 1 .. x[2] : d * d = x[2])
=============================================================================

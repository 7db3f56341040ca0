--------------------------- MODULE Catalogue_proofs ---------------------------
(***************************************************************************)
(* Proofs about the prices made of a loaded configuration, and about the   *)
(* tables that the administrators edit and a configuration is loaded from: *)
(* of Pricing, for any configurations, orders and quantities; of           *)
(* Catalogue, for any number of rows, requests and columns in a form, and  *)
(* for any price breaks.                                                   *)
(***************************************************************************)
EXTENDS Catalogue, Pricing, SequenceTheorems, WellFoundedInduction, TLAPS

-----------------------------------------------------------------------------
(***************************************************************************)
(* Pricing.  The arithmetic of fractions comes first: what a pair stands   *)
(* for does not depend on the divisor it was reduced by, so that nothing   *)
(* is asked of gcd, a recursion.                                           *)
(***************************************************************************)

\* Whole numbers: what the fractions need of products.
LEMMA TimesOrder ==
    ASSUME NEW x \in Int, NEW y \in Int, NEW k \in Nat, x <= y
    PROVE  x * k <= y * k
    OBVIOUS

LEMMA CancelOrder ==
    ASSUME NEW x \in Int, NEW y \in Int, NEW k \in Nat \ {0}, x * k <= y * k
    PROVE  x <= y
<1> SUFFICES ASSUME y + 1 <= x PROVE FALSE
    OBVIOUS
<1>1. (y + 1) * k <= x * k
    BY TimesOrder
<1>2. (y + 1) * k = y * k + k
    OBVIOUS
<1> QED
    BY <1>1, <1>2

LEMMA SumOrder ==
    ASSUME NEW i \in Int, NEW j \in Int, NEW k \in Int, NEW l \in Int, i <= k, j <= l
    PROVE  i + j \in Int /\ k + l \in Int /\ i + j <= k + l
    OBVIOUS

LEMMA OrderThen ==
    ASSUME NEW i \in Int, NEW j \in Int, NEW k \in Int, i <= j, j <= k
    PROVE  i <= k
    OBVIOUS

LEMMA ProductNat ==
    ASSUME NEW x \in Nat, NEW y \in Nat
    PROVE  x * y \in Nat
    OBVIOUS

LEMMA ProductPositive ==
    ASSUME NEW x \in Nat \ {0}, NEW y \in Nat \ {0}
    PROVE  x * y \in Nat \ {0}
    OBVIOUS

LEMMA ExactQuotient ==
    ASSUME NEW n \in Nat, NEW g, Divides(g, n)
    PROVE  /\ n \div g \in Nat
           /\ n = g * (n \div g)
    BY DEF Divides

LEMMA PositiveQuotient ==
    ASSUME NEW n \in Nat \ {0}, NEW g, Divides(g, n)
    PROVE  n \div g \in Nat \ {0}
<1>1. n \div g \in Nat /\ n = g * (n \div g) /\ g \in Nat
    BY ExactQuotient DEF Divides
<1> QED
    BY <1>1

LEMMA OneDivides == \A n \in Nat : Divides(1, n) /\ n \div 1 = n
    BY DEF Divides

LEMMA CommonDivides ==
    ASSUME NEW n \in Nat, NEW d \in Nat
    PROVE  Divides(CommonDivisor(n, d), n) /\ Divides(CommonDivisor(n, d), d)
    BY OneDivides DEF CommonDivisor, IfCommon

LEMMA FracIs ==
    ASSUME NEW n \in Nat, NEW d \in Nat \ {0}
    PROVE  /\ Frac(n, d) \in Fraction
           /\ Frac(n, d)[1] * d = Frac(n, d)[2] * n
           /\ Frac(n, d)[1] = 0 <=> n = 0
<1> DEFINE g == CommonDivisor(n, d)
           p == n \div g
           q == d \div g
<1>1. Divides(g, n) /\ Divides(g, d)
    BY CommonDivides
<1>2. p \in Nat /\ n = g * p /\ q \in Nat \ {0} /\ d = g * q /\ g \in Nat \ {0}
    BY <1>1, ExactQuotient, PositiveQuotient DEF Divides
<1>3. Frac(n, d) = <<p, q>>
    BY DEF Frac, Reduced
<1> HIDE DEF g, p, q
<1>4. p * (g * q) = q * (g * p) /\ (p = 0 <=> g * p = 0)
    BY <1>2
<1> QED
    BY <1>2, <1>3, <1>4 DEF Fraction

\* Equality of the rationals that two pairs stand for, and their order.
LEMMA OrderIs ==
    ASSUME NEW a \in Fraction, NEW b \in Fraction
    PROVE  a \preceq b <=> a[1] * b[2] <= b[1] * a[2]
<1> DEFINE g == CommonDivisor(a[2], b[2])
           u == a[2] \div g
           v == b[2] \div g
<1>0. a[1] \in Nat /\ b[1] \in Nat /\ a[2] \in Nat \ {0} /\ b[2] \in Nat \ {0}
    BY DEF Fraction
<1>1. Divides(g, a[2]) /\ Divides(g, b[2])
    BY <1>0, CommonDivides
<1>2. u \in Nat /\ a[2] = g * u /\ v \in Nat /\ b[2] = g * v /\ g \in Nat \ {0}
    BY <1>0, <1>1, ExactQuotient DEF Divides
<1>3. a \preceq b <=> a[1] * v <= b[1] * u
    BY DEF \preceq
<1> HIDE DEF g, u, v
<1>4. a[1] * b[2] = (a[1] * v) * g /\ b[1] * a[2] = (b[1] * u) * g
    BY <1>0, <1>2
<1>5. a[1] * v \in Nat /\ b[1] * u \in Nat
    BY <1>0, <1>2
<1> QED
    BY <1>2, <1>3, <1>4, <1>5, TimesOrder, CancelOrder

LEMMA TimesIs ==
    ASSUME NEW a \in Fraction, NEW b \in Fraction
    PROVE  /\ a \otimes b \in Fraction
           /\ (a \otimes b)[1] * (a[2] * b[2]) = (a \otimes b)[2] * (a[1] * b[1])
           /\ (a \otimes b)[1] = 0 <=> a[1] = 0 \/ b[1] = 0
<1> DEFINE x == Frac(a[1], b[2])
           y == Frac(b[1], a[2])
<1>0. a[1] \in Nat /\ b[1] \in Nat /\ a[2] \in Nat \ {0} /\ b[2] \in Nat \ {0}
    BY DEF Fraction
<1>1. /\ x \in Fraction /\ x[1] * b[2] = x[2] * a[1] /\ (x[1] = 0 <=> a[1] = 0)
      /\ y \in Fraction /\ y[1] * a[2] = y[2] * b[1] /\ (y[1] = 0 <=> b[1] = 0)
    BY <1>0, FracIs
<1>2. a \otimes b = <<x[1] * y[1], x[2] * y[2]>>
    BY DEF \otimes, PairTimes
<1> HIDE DEF x, y
<1>3. x[1] \in Nat /\ y[1] \in Nat /\ x[2] \in Nat \ {0} /\ y[2] \in Nat \ {0}
    BY <1>1 DEF Fraction
<1>4. (x[1] * y[1]) * (a[2] * b[2]) = (x[1] * b[2]) * (y[1] * a[2])
    BY <1>0, <1>3
<1>5. (x[2] * y[2]) * (a[1] * b[1]) = (x[2] * a[1]) * (y[2] * b[1])
    BY <1>0, <1>3
<1>6. x[1] * y[1] \in Nat /\ x[2] * y[2] \in Nat \ {0}
    BY <1>3
<1>7. x[1] * y[1] = 0 <=> x[1] = 0 \/ y[1] = 0
    BY <1>3
<1> QED
    BY <1>1, <1>2, <1>4, <1>5, <1>6, <1>7 DEF Fraction

LEMMA PlusIs ==
    ASSUME NEW a \in Fraction, NEW b \in Fraction
    PROVE  /\ a \oplus b \in Fraction
           /\ (a \oplus b)[1] * (a[2] * b[2]) = (a \oplus b)[2] * (a[1] * b[2] + b[1] * a[2])
           /\ (a \oplus b)[1] = 0 <=> a[1] = 0 /\ b[1] = 0
<1> DEFINE g == CommonDivisor(a[2], b[2])
           u == a[2] \div g
           v == b[2] \div g
           n == a[1] * v + b[1] * u
           d == a[2] * v
           r == Frac(n, d)
<1>0. a[1] \in Nat /\ b[1] \in Nat /\ a[2] \in Nat \ {0} /\ b[2] \in Nat \ {0}
    BY DEF Fraction
<1>1. Divides(g, a[2]) /\ Divides(g, b[2])
    BY <1>0, CommonDivides
<1>2. u \in Nat \ {0} /\ a[2] = g * u /\ v \in Nat \ {0} /\ b[2] = g * v /\ g \in Nat \ {0}
    BY <1>0, <1>1, ExactQuotient, PositiveQuotient DEF Divides
<1>3. a \oplus b = r
    BY DEF \oplus
<1> HIDE DEF g, u, v
<1>4. n \in Nat /\ d \in Nat \ {0}
    <2>1. a[1] * v \in Nat /\ b[1] * u \in Nat
        BY <1>0, <1>2
    <2> QED
        BY <2>1, <1>0, <1>2, ProductPositive
<1>5. r \in Fraction /\ r[1] * d = r[2] * n /\ (r[1] = 0 <=> n = 0)
    BY <1>4, FracIs
<1>6. n = 0 <=> a[1] = 0 /\ b[1] = 0
    <2>1. /\ a[1] * v \in Nat /\ b[1] * u \in Nat
          /\ a[1] * v = 0 <=> a[1] = 0
          /\ b[1] * u = 0 <=> b[1] = 0
        BY <1>0, <1>2
    <2> QED
        BY <2>1
<1>7. d * g = a[2] * b[2] /\ n * g = a[1] * b[2] + b[1] * a[2]
    BY <1>0, <1>2
<1> HIDE DEF n, d, r
<1>8. r[1] \in Nat /\ r[2] \in Nat
    BY <1>5 DEF Fraction
<1>9. r[1] * (d * g) = (r[1] * d) * g /\ r[2] * (n * g) = (r[2] * n) * g
    BY <1>2, <1>4, <1>8
<1> QED
    BY <1>3, <1>5, <1>6, <1>7, <1>9

(***************************************************************************)
(* Two orders are compared by weights: x times p is at most y times q.     *)
(* With p = q = 1 it is the order of fractions; with the quantities of the *)
(* other order as weights it is the order of what one piece costs.         *)
(***************************************************************************)
Below(p, q, x, y) == (x[1] * p) * y[2] <= (y[1] * q) * x[2]

LEMMA BelowIsOrder ==
    ASSUME NEW x \in Fraction, NEW y \in Fraction
    PROVE  Below(1, 1, x, y) <=> x \preceq y
<1>1. x[1] * 1 = x[1] /\ y[1] * 1 = y[1]
    BY DEF Fraction
<1> QED
    BY <1>1, OrderIs DEF Below

LEMMA BelowPlus ==
    ASSUME NEW p \in Nat \ {0}, NEW q \in Nat \ {0},
           NEW a \in Fraction, NEW b \in Fraction, NEW c \in Fraction, NEW d \in Fraction,
           Below(p, q, a, c), Below(p, q, b, d)
    PROVE  Below(p, q, a \oplus b, c \oplus d)
<1> DEFINE r == a \oplus b
           s == c \oplus d
           k == (a[2] * b[2]) * (c[2] * d[2])
<1>0. /\ a[1] \in Nat /\ a[2] \in Nat \ {0} /\ b[1] \in Nat /\ b[2] \in Nat \ {0}
      /\ c[1] \in Nat /\ c[2] \in Nat \ {0} /\ d[1] \in Nat /\ d[2] \in Nat \ {0}
    BY DEF Fraction
<1>1. /\ r \in Fraction /\ r[1] * (a[2] * b[2]) = r[2] * (a[1] * b[2] + b[1] * a[2])
      /\ s \in Fraction /\ s[1] * (c[2] * d[2]) = s[2] * (c[1] * d[2] + d[1] * c[2])
    BY PlusIs
<1> HIDE DEF r, s
<1>2. r[1] \in Nat /\ r[2] \in Nat \ {0} /\ s[1] \in Nat /\ s[2] \in Nat \ {0}
    BY <1>1 DEF Fraction
<1>3. k \in Nat \ {0}
    BY <1>0, ProductPositive
<1>4. ((r[1] * p) * s[2]) * k
        = (((a[1] * p) * c[2]) * (b[2] * d[2]) + ((b[1] * p) * d[2]) * (a[2] * c[2]))
            * (r[2] * s[2])
    <2>1. ((r[1] * p) * s[2]) * k
            = (r[1] * (a[2] * b[2])) * ((p * s[2]) * (c[2] * d[2]))
        BY <1>0, <1>2
    <2>2. (r[2] * (a[1] * b[2] + b[1] * a[2])) * ((p * s[2]) * (c[2] * d[2]))
            = (((a[1] * p) * c[2]) * (b[2] * d[2]) + ((b[1] * p) * d[2]) * (a[2] * c[2]))
                * (r[2] * s[2])
        BY <1>0, <1>2
    <2> QED
        BY <2>1, <2>2, <1>1
<1>5. ((s[1] * q) * r[2]) * k
        = (((c[1] * q) * a[2]) * (b[2] * d[2]) + ((d[1] * q) * b[2]) * (a[2] * c[2]))
            * (r[2] * s[2])
    <2>1. ((s[1] * q) * r[2]) * k
            = (s[1] * (c[2] * d[2])) * ((q * r[2]) * (a[2] * b[2]))
        BY <1>0, <1>2
    <2>2. (s[2] * (c[1] * d[2] + d[1] * c[2])) * ((q * r[2]) * (a[2] * b[2]))
            = (((c[1] * q) * a[2]) * (b[2] * d[2]) + ((d[1] * q) * b[2]) * (a[2] * c[2]))
                * (r[2] * s[2])
        BY <1>0, <1>2
    <2> QED
        BY <2>1, <2>2, <1>1
<1>6. ((a[1] * p) * c[2]) * (b[2] * d[2]) <= ((c[1] * q) * a[2]) * (b[2] * d[2])
    <2>1. (a[1] * p) * c[2] \in Int /\ (c[1] * q) * a[2] \in Int /\ b[2] * d[2] \in Nat
        BY <1>0
    <2> QED
        BY <2>1, TimesOrder DEF Below
<1>7. ((b[1] * p) * d[2]) * (a[2] * c[2]) <= ((d[1] * q) * b[2]) * (a[2] * c[2])
    <2>1. (b[1] * p) * d[2] \in Int /\ (d[1] * q) * b[2] \in Int /\ a[2] * c[2] \in Nat
        BY <1>0
    <2> QED
        BY <2>1, TimesOrder DEF Below
<1> DEFINE left == ((a[1] * p) * c[2]) * (b[2] * d[2]) + ((b[1] * p) * d[2]) * (a[2] * c[2])
           right == ((c[1] * q) * a[2]) * (b[2] * d[2]) + ((d[1] * q) * b[2]) * (a[2] * c[2])
<1>8. left \in Int /\ right \in Int /\ left <= right
    <2>1. /\ ((a[1] * p) * c[2]) * (b[2] * d[2]) \in Int
          /\ ((b[1] * p) * d[2]) * (a[2] * c[2]) \in Int
          /\ ((c[1] * q) * a[2]) * (b[2] * d[2]) \in Int
          /\ ((d[1] * q) * b[2]) * (a[2] * c[2]) \in Int
        BY <1>0
    <2> QED
        BY <2>1, <1>6, <1>7, SumOrder
<1>9. left * (r[2] * s[2]) <= right * (r[2] * s[2])
    <2>1. r[2] * s[2] \in Nat
        BY <1>2
    <2> HIDE DEF left, right
    <2> QED
        BY <1>8, <2>1, TimesOrder
<1>10. ((r[1] * p) * s[2]) * k <= ((s[1] * q) * r[2]) * k
    BY <1>4, <1>5, <1>9
<1>11. (r[1] * p) * s[2] \in Int /\ (s[1] * q) * r[2] \in Int
    BY <1>2
<1> HIDE DEF k
<1>12. (r[1] * p) * s[2] <= (s[1] * q) * r[2]
    BY <1>3, <1>10, <1>11, CancelOrder
<1> QED
    BY <1>12 DEF Below, r, s

LEMMA BelowTimes ==
    ASSUME NEW p \in Nat \ {0}, NEW q \in Nat \ {0},
           NEW a \in Fraction, NEW b \in Fraction, NEW c \in Fraction, NEW d \in Fraction,
           Below(p, q, a, c), b \preceq d
    PROVE  Below(p, q, a \otimes b, c \otimes d)
<1> DEFINE r == a \otimes b
           s == c \otimes d
           k == (a[2] * b[2]) * (c[2] * d[2])
<1>0. /\ a[1] \in Nat /\ a[2] \in Nat \ {0} /\ b[1] \in Nat /\ b[2] \in Nat \ {0}
      /\ c[1] \in Nat /\ c[2] \in Nat \ {0} /\ d[1] \in Nat /\ d[2] \in Nat \ {0}
    BY DEF Fraction
<1>1. /\ r \in Fraction /\ r[1] * (a[2] * b[2]) = r[2] * (a[1] * b[1])
      /\ s \in Fraction /\ s[1] * (c[2] * d[2]) = s[2] * (c[1] * d[1])
    BY TimesIs
<1> HIDE DEF r, s
<1>2. r[1] \in Nat /\ r[2] \in Nat \ {0} /\ s[1] \in Nat /\ s[2] \in Nat \ {0}
    BY <1>1 DEF Fraction
<1>3. k \in Nat \ {0}
    BY <1>0, ProductPositive
<1>4. ((r[1] * p) * s[2]) * k = (((a[1] * p) * c[2]) * (b[1] * d[2])) * (r[2] * s[2])
    <2>1. ((r[1] * p) * s[2]) * k
            = (r[1] * (a[2] * b[2])) * ((p * s[2]) * (c[2] * d[2]))
        BY <1>0, <1>2
    <2>2. (r[2] * (a[1] * b[1])) * ((p * s[2]) * (c[2] * d[2]))
            = (((a[1] * p) * c[2]) * (b[1] * d[2])) * (r[2] * s[2])
        BY <1>0, <1>2
    <2> QED
        BY <2>1, <2>2, <1>1
<1>5. ((s[1] * q) * r[2]) * k = (((c[1] * q) * a[2]) * (d[1] * b[2])) * (r[2] * s[2])
    <2>1. ((s[1] * q) * r[2]) * k
            = (s[1] * (c[2] * d[2])) * ((q * r[2]) * (a[2] * b[2]))
        BY <1>0, <1>2
    <2>2. (s[2] * (c[1] * d[1])) * ((q * r[2]) * (a[2] * b[2]))
            = (((c[1] * q) * a[2]) * (d[1] * b[2])) * (r[2] * s[2])
        BY <1>0, <1>2
    <2> QED
        BY <2>1, <2>2, <1>1
<1> DEFINE w == (a[1] * p) * c[2]
           x == (c[1] * q) * a[2]
           y == b[1] * d[2]
           z == d[1] * b[2]
<1>6. w \in Nat /\ x \in Nat /\ y \in Nat /\ z \in Nat
    BY <1>0
<1>7. w <= x /\ y <= z
    BY OrderIs DEF Below
<1>8. r[2] * s[2] \in Nat
    BY <1>2
<1>9. (w * y) * (r[2] * s[2]) <= (x * z) * (r[2] * s[2])
    <2> HIDE DEF w, x, y, z
    <2>1. w * y <= x * y
        BY <1>6, <1>7, TimesOrder
    <2>2. y * x <= z * x
        BY <1>6, <1>7, TimesOrder
    <2>3. w * y <= x * z /\ w * y \in Int /\ x * z \in Int
        BY <2>1, <2>2, <1>6
    <2> QED
        BY <2>3, <1>8, TimesOrder
<1>10. ((r[1] * p) * s[2]) * k <= ((s[1] * q) * r[2]) * k
    BY <1>4, <1>5, <1>9
<1>11. (r[1] * p) * s[2] \in Int /\ (s[1] * q) * r[2] \in Int
    BY <1>2
<1> HIDE DEF k
<1>12. (r[1] * p) * s[2] <= (s[1] * q) * r[2]
    BY <1>3, <1>10, <1>11, CancelOrder
<1> QED
    BY <1>12 DEF Below, r, s

LEMMA BelowThen ==
    ASSUME NEW p \in Nat \ {0}, NEW q \in Nat \ {0},
           NEW x \in Fraction, NEW y \in Fraction, NEW z \in Fraction,
           Below(p, q, x, y), y \preceq z
    PROVE  Below(p, q, x, z)
<1>0. /\ x[1] \in Nat /\ x[2] \in Nat \ {0} /\ y[1] \in Nat /\ y[2] \in Nat \ {0}
      /\ z[1] \in Nat /\ z[2] \in Nat \ {0}
    BY DEF Fraction
<1>1. (x[1] * p) * y[2] <= (y[1] * q) * x[2] /\ y[1] * z[2] <= z[1] * y[2]
    BY OrderIs DEF Below
<1>2. ((x[1] * p) * y[2]) * z[2] <= ((y[1] * q) * x[2]) * z[2]
    <2>1. (x[1] * p) * y[2] \in Int /\ (y[1] * q) * x[2] \in Int
        BY <1>0
    <2> QED
        BY <2>1, <1>0, <1>1, TimesOrder
<1>3. (y[1] * z[2]) * (q * x[2]) <= (z[1] * y[2]) * (q * x[2])
    <2>1. y[1] * z[2] \in Int /\ z[1] * y[2] \in Int /\ q * x[2] \in Nat
        BY <1>0
    <2> QED
        BY <2>1, <1>1, TimesOrder
<1>4. /\ ((x[1] * p) * y[2]) * z[2] = ((x[1] * p) * z[2]) * y[2]
      /\ ((y[1] * q) * x[2]) * z[2] = (y[1] * z[2]) * (q * x[2])
      /\ (z[1] * y[2]) * (q * x[2]) = ((z[1] * q) * x[2]) * y[2]
    BY <1>0
<1>5. (x[1] * p) * z[2] \in Int /\ (z[1] * q) * x[2] \in Int
    BY <1>0
<1>6. ((x[1] * p) * z[2]) * y[2] <= ((z[1] * q) * x[2]) * y[2]
    <2>1. /\ ((x[1] * p) * z[2]) * y[2] \in Int /\ ((z[1] * q) * x[2]) * y[2] \in Int
          /\ (y[1] * z[2]) * (q * x[2]) \in Int
        BY <1>0
    <2> QED
        BY <2>1, OrderThen, <1>2, <1>3, <1>4
<1> QED
    BY <1>0, <1>5, <1>6, CancelOrder DEF Below

LEMMA OrderTotal ==
    ASSUME NEW x \in Fraction, NEW y \in Fraction
    PROVE  /\ x \preceq x
           /\ x \preceq y \/ y \preceq x
<1>1. /\ x[1] * y[2] \in Int /\ y[1] * x[2] \in Int /\ x[1] * x[2] \in Int
    BY DEF Fraction
<1> QED
    BY <1>1, OrderIs

LEMMA LargerIs ==
    ASSUME NEW x \in Fraction, NEW y \in Fraction
    PROVE  Larger(x, y) \in Fraction /\ x \preceq Larger(x, y) /\ y \preceq Larger(x, y)
    BY OrderTotal DEF Larger

LEMMA OrderThrough ==
    ASSUME NEW x \in Fraction, NEW y \in Fraction, NEW z \in Fraction, x \preceq y, y \preceq z
    PROVE  x \preceq z
<1> DEFINE p == 1
<1>1. p \in Nat \ {0} /\ Below(p, p, x, y)
    BY BelowIsOrder
<1>2. Below(p, p, x, z)
    <2> HIDE DEF p
    <2> QED
        BY <1>1, BelowThen
<1> QED
    BY <1>2, BelowIsOrder

LEMMA BelowLarger ==
    ASSUME NEW p \in Nat \ {0}, NEW q \in Nat \ {0},
           NEW a \in Fraction, NEW b \in Fraction, NEW c \in Fraction, NEW d \in Fraction,
           Below(p, q, a, c), Below(p, q, b, d)
    PROVE  Below(p, q, Larger(a, b), Larger(c, d))
<1>1. Below(p, q, a, Larger(c, d)) /\ Below(p, q, b, Larger(c, d))
    BY LargerIs, BelowThen
<1> QED
    BY <1>1 DEF Larger

LEMMA BelowItself ==
    ASSUME NEW p \in Nat \ {0}, NEW q \in Nat \ {0}, p <= q, NEW x \in Fraction
    PROVE  Below(p, q, x, x)
<1>1. x[1] \in Nat /\ x[2] \in Nat
    BY DEF Fraction
<1>2. p * (x[1] * x[2]) <= q * (x[1] * x[2])
    BY <1>1, ProductNat, TimesOrder
<1>3. (x[1] * p) * x[2] = p * (x[1] * x[2]) /\ (x[1] * q) * x[2] = q * (x[1] * x[2])
    BY <1>1
<1> QED
    BY <1>2, <1>3 DEF Below

LEMMA Wholes ==
    ASSUME NEW n \in Nat
    PROVE  Whole(n) \in Fraction /\ Whole(n)[1] = n /\ Whole(n)[2] = 1
    BY DEF Whole, Fraction

LEMMA Zeros == Zero \in Fraction /\ Zero[1] = 0 /\ One \in Fraction /\ ~Positive(Zero)
    BY Wholes DEF Zero, One, Positive

\* All the pieces of one order, in the place of all the pieces of another.
LEMMA BelowPieces ==
    ASSUME NEW p \in Nat \ {0}, NEW q \in Nat \ {0}, NEW x \in Fraction
    PROVE  Below(p, q, x \otimes Whole(q), x \otimes Whole(p))
<1> DEFINE r == x \otimes Whole(q)
           s == x \otimes Whole(p)
<1>0. x[1] \in Nat /\ x[2] \in Nat \ {0}
    BY DEF Fraction
<1>1. /\ r \in Fraction /\ r[1] * (x[2] * 1) = r[2] * (x[1] * q)
      /\ s \in Fraction /\ s[1] * (x[2] * 1) = s[2] * (x[1] * p)
    BY Wholes, TimesIs
<1> HIDE DEF r, s
<1>2. r[1] \in Nat /\ r[2] \in Nat \ {0} /\ s[1] \in Nat /\ s[2] \in Nat \ {0}
    BY <1>1 DEF Fraction
<1>3. ((r[1] * p) * s[2]) * x[2] = ((s[1] * q) * r[2]) * x[2]
    <2>1. ((r[1] * p) * s[2]) * x[2] = (r[1] * (x[2] * 1)) * (p * s[2])
        BY <1>0, <1>2
    <2>2. ((s[1] * q) * r[2]) * x[2] = (s[1] * (x[2] * 1)) * (q * r[2])
        BY <1>0, <1>2
    <2>3. (r[2] * (x[1] * q)) * (p * s[2]) = (s[2] * (x[1] * p)) * (q * r[2])
        BY <1>0, <1>2
    <2> QED
        BY <2>1, <2>2, <2>3, <1>1
<1>4. (r[1] * p) * s[2] \in Int /\ (s[1] * q) * r[2] \in Int
    BY <1>2
<1>5. ((r[1] * p) * s[2]) * x[2] <= ((s[1] * q) * r[2]) * x[2]
    <2>1. ((s[1] * q) * r[2]) * x[2] \in Int
        BY <1>0, <1>4
    <2> QED
        BY <2>1, <1>3
<1> QED
    BY <1>0, <1>4, <1>5, CancelOrder DEF Below, r, s

LEMMA OverIs ==
    ASSUME NEW a \in Fraction, NEW b \in Fraction, Positive(b)
    PROVE  /\ <<b[2], b[1]>> \in Fraction
           /\ a \oslash b = a \otimes <<b[2], b[1]>>
           /\ a \oslash b \in Fraction
           /\ Positive(a \oslash b) <=> Positive(a)
<1>1. a[1] \in Nat /\ b[1] \in Nat \ {0} /\ b[2] \in Nat \ {0}
    BY DEF Fraction, Positive
<1>2. <<b[2], b[1]>> \in Fraction
    BY <1>1 DEF Fraction
<1>3. a \oslash b = a \otimes <<b[2], b[1]>>
    BY DEF \oslash
<1>4. a \oslash b \in Fraction /\ ((a \oslash b)[1] = 0 <=> a[1] = 0)
    BY <1>1, <1>2, <1>3, TimesIs
<1>5. (a \oslash b)[1] \in Nat
    BY <1>4 DEF Fraction
<1> QED
    BY <1>1, <1>2, <1>3, <1>4, <1>5 DEF Positive

LEMMA PositiveIs ==
    ASSUME NEW a \in Fraction, NEW b \in Fraction
    PROVE  /\ Positive(a \otimes b) <=> Positive(a) /\ Positive(b)
           /\ Positive(a \oplus b) <=> Positive(a) \/ Positive(b)
<1>1. a[1] \in Nat /\ b[1] \in Nat
    BY DEF Fraction
<1>2. (a \otimes b)[1] \in Nat /\ (a \oplus b)[1] \in Nat
    BY TimesIs, PlusIs DEF Fraction
<1> QED
    BY <1>1, <1>2, TimesIs, PlusIs DEF Positive

LEMMA BelowPositive ==
    ASSUME NEW p \in Nat \ {0}, NEW q \in Nat \ {0}, NEW x \in Fraction, NEW y \in Fraction,
           Below(p, q, x, y), Positive(x)
    PROVE  Positive(y)
<1>1. x[1] \in Nat \ {0} /\ x[2] \in Nat \ {0} /\ y[1] \in Nat /\ y[2] \in Nat \ {0}
    BY DEF Fraction, Positive
<1> SUFFICES ASSUME y[1] = 0 PROVE FALSE
    BY <1>1 DEF Positive
<1>2. (y[1] * q) * x[2] = 0
    BY <1>1
<1>3. (x[1] * p) * y[2] \in Nat \ {0}
    BY <1>1, ProductPositive
<1> QED
    BY <1>2, <1>3 DEF Below

LEMMA BelowOver ==
    ASSUME NEW p \in Nat \ {0}, NEW q \in Nat \ {0},
           NEW a \in Fraction, NEW b \in Fraction, NEW c \in Fraction,
           Positive(b), Below(p, q, a, c)
    PROVE  Below(p, q, a \oslash b, c \oslash b)
<1>1. /\ <<b[2], b[1]>> \in Fraction
      /\ a \oslash b = a \otimes <<b[2], b[1]>> /\ c \oslash b = c \otimes <<b[2], b[1]>>
    BY OverIs
<1>2. <<b[2], b[1]>> \preceq <<b[2], b[1]>>
    BY <1>1, OrderTotal
<1> QED
    BY <1>1, <1>2, BelowTimes

LEMMA BelowNothing ==
    ASSUME NEW p \in Nat, NEW q \in Nat, NEW x \in Fraction
    PROVE  Below(p, q, Zero, x)
<1>1. x[1] \in Nat /\ x[2] \in Nat /\ Zero[1] = 0 /\ Zero[2] = 1
    BY Wholes DEF Fraction, Zero
<1>2. (Zero[1] * p) * x[2] = 0 /\ (x[1] * q) * Zero[2] \in Nat
    BY <1>1
<1> QED
    BY <1>2 DEF Below

\* What one piece costs in the two orders.
LEMMA OfOnePiece ==
    ASSUME NEW p \in Nat \ {0}, NEW q \in Nat \ {0}, NEW x \in Fraction, NEW y \in Fraction,
           Below(p, q, x, y)
    PROVE  /\ x \oslash Whole(q) \in Fraction /\ y \oslash Whole(p) \in Fraction
           /\ x \oslash Whole(q) \preceq y \oslash Whole(p)
<1> DEFINE r == x \oslash Whole(q)
           s == y \oslash Whole(p)
           k == (x[2] * q) * (y[2] * p)
<1>0. x[1] \in Nat /\ x[2] \in Nat \ {0} /\ y[1] \in Nat /\ y[2] \in Nat \ {0}
    BY DEF Fraction
<1>1. /\ Whole(p) \in Fraction /\ Whole(q) \in Fraction
      /\ Positive(Whole(p)) /\ Positive(Whole(q))
      /\ Whole(p)[1] = p /\ Whole(p)[2] = 1 /\ Whole(q)[1] = q /\ Whole(q)[2] = 1
    BY Wholes DEF Positive
<1>2. /\ <<1, q>> \in Fraction /\ <<1, p>> \in Fraction
      /\ r = x \otimes <<1, q>> /\ s = y \otimes <<1, p>>
    BY <1>1, OverIs
<1>3. /\ r \in Fraction /\ r[1] * (x[2] * q) = r[2] * (x[1] * 1)
      /\ s \in Fraction /\ s[1] * (y[2] * p) = s[2] * (y[1] * 1)
    <2>1. <<1, q>>[1] = 1 /\ <<1, q>>[2] = q /\ <<1, p>>[1] = 1 /\ <<1, p>>[2] = p
        OBVIOUS
    <2> QED
        BY <1>2, <2>1, TimesIs
<1> HIDE DEF r, s
<1>4. r[1] \in Nat /\ r[2] \in Nat \ {0} /\ s[1] \in Nat /\ s[2] \in Nat \ {0}
    BY <1>3 DEF Fraction
<1>5. k \in Nat \ {0}
    BY <1>0, ProductPositive
<1>6. (r[1] * s[2]) * k = ((x[1] * p) * y[2]) * (r[2] * s[2])
    <2>1. (r[1] * s[2]) * k = (r[1] * (x[2] * q)) * (s[2] * (y[2] * p))
        BY <1>0, <1>4
    <2>2. (r[2] * (x[1] * 1)) * (s[2] * (y[2] * p)) = ((x[1] * p) * y[2]) * (r[2] * s[2])
        BY <1>0, <1>4
    <2> QED
        BY <2>1, <2>2, <1>3
<1>7. (s[1] * r[2]) * k = ((y[1] * q) * x[2]) * (r[2] * s[2])
    <2>1. (s[1] * r[2]) * k = (s[1] * (y[2] * p)) * (r[2] * (x[2] * q))
        BY <1>0, <1>4
    <2>2. (s[2] * (y[1] * 1)) * (r[2] * (x[2] * q)) = ((y[1] * q) * x[2]) * (r[2] * s[2])
        BY <1>0, <1>4
    <2> QED
        BY <2>1, <2>2, <1>3
<1>8. ((x[1] * p) * y[2]) * (r[2] * s[2]) <= ((y[1] * q) * x[2]) * (r[2] * s[2])
    <2>1. (x[1] * p) * y[2] \in Int /\ (y[1] * q) * x[2] \in Int /\ r[2] * s[2] \in Nat
        BY <1>0, <1>4
    <2> QED
        BY <2>1, TimesOrder DEF Below
<1>9. r[1] * s[2] \in Int /\ s[1] * r[2] \in Int
    BY <1>4
<1>10. (r[1] * s[2]) * k <= (s[1] * r[2]) * k
    BY <1>6, <1>7, <1>8
<1> HIDE DEF k
<1>11. r[1] * s[2] <= s[1] * r[2]
    BY <1>5, <1>9, <1>10, CancelOrder
<1> QED
    BY <1>3, <1>11, OrderIs DEF r, s

\* Rounding, to the hundredths or to the unit, keeps the order.
LEMMA QuotientIs ==
    ASSUME NEW n \in Int, NEW d \in Nat \ {0}
    PROVE  /\ n \div d \in Int
           /\ (n \div d) * d <= n
           /\ n < (n \div d) * d + d
    OBVIOUS

LEMMA RoundedIs ==
    ASSUME NEW n \in Nat, NEW d \in Nat \ {0}
    PROVE  LET m == (n \div d) * 100 + (200 * (n % d) + d) \div (2 * d)
           IN /\ m \in Nat
              /\ m * (2 * d) <= 200 * n + d
              /\ 200 * n + d < (m + 1) * (2 * d)
<1> DEFINE w == n \div d
           e == n % d
           t == 200 * e + d
           u == 2 * d
           h == t \div u
           m == w * 100 + h
<1>1. w \in Nat /\ e \in Nat /\ n = w * d + e
    OBVIOUS
<1> HIDE DEF w, e
<1>2. u \in Nat \ {0} /\ t \in Nat
    BY <1>1
<1>3. /\ h \in Nat /\ h * u <= t /\ t < h * u + u
    <2> HIDE DEF t, u
    <2>1. h \in Nat
        BY <1>2
    <2> QED
        BY <1>2, <2>1, QuotientIs
<1>4. 200 * n + d = (w * 100) * u + t /\ (w * 100) * u \in Int
    BY <1>1
<1> HIDE DEF t, u, h
<1>5. m * u = (w * 100) * u + h * u /\ (m + 1) * u = (w * 100) * u + h * u + u
    BY <1>1, <1>2, <1>3
<1>6. h * u \in Int
    BY <1>2, <1>3
<1>7. m \in Nat
    BY <1>1, <1>3
<1>8. m * u <= 200 * n + d /\ 200 * n + d < (m + 1) * u
    BY <1>2, <1>3, <1>4, <1>5, <1>6
<1> QED
    BY <1>7, <1>8 DEF h, w, e, t, u

LEMMA FracOrder ==
    ASSUME NEW m \in Nat, NEW n \in Nat, NEW d \in Nat \ {0}, NEW e \in Nat \ {0},
           m * e <= n * d
    PROVE  Frac(m, d) \preceq Frac(n, e)
<1> DEFINE r == Frac(m, d)
           s == Frac(n, e)
           k == d * e
<1>1. /\ r \in Fraction /\ r[1] * d = r[2] * m
      /\ s \in Fraction /\ s[1] * e = s[2] * n
    BY FracIs
<1> HIDE DEF r, s
<1>2. r[1] \in Nat /\ r[2] \in Nat \ {0} /\ s[1] \in Nat /\ s[2] \in Nat \ {0}
    BY <1>1 DEF Fraction
<1>3. k \in Nat \ {0}
    BY ProductPositive
<1>4. (r[1] * s[2]) * k = (m * e) * (r[2] * s[2])
    <2>1. (r[1] * s[2]) * k = (r[1] * d) * (s[2] * e)
        BY <1>2
    <2>2. (r[2] * m) * (s[2] * e) = (m * e) * (r[2] * s[2])
        BY <1>2
    <2> QED
        BY <2>1, <2>2, <1>1
<1>5. (s[1] * r[2]) * k = (n * d) * (r[2] * s[2])
    <2>1. (s[1] * r[2]) * k = (s[1] * e) * (r[2] * d)
        BY <1>2
    <2>2. (s[2] * n) * (r[2] * d) = (n * d) * (r[2] * s[2])
        BY <1>2
    <2> QED
        BY <2>1, <2>2, <1>1
<1>6. (m * e) * (r[2] * s[2]) <= (n * d) * (r[2] * s[2])
    <2>1. m * e \in Int /\ n * d \in Int /\ r[2] * s[2] \in Nat
        BY <1>2
    <2> QED
        BY <2>1, TimesOrder
<1>7. (r[1] * s[2]) * k <= (s[1] * r[2]) * k
    BY <1>4, <1>5, <1>6
<1>8. r[1] * s[2] \in Int /\ s[1] * r[2] \in Int
    BY <1>2
<1> HIDE DEF k
<1>9. r[1] * s[2] <= s[1] * r[2]
    BY <1>3, <1>7, <1>8, CancelOrder
<1> QED
    BY <1>1, <1>9, OrderIs DEF r, s

LEMMA HundredthsOrder ==
    ASSUME NEW x \in Fraction, NEW y \in Fraction, x \preceq y
    PROVE  /\ Hundredths(x) \in Fraction /\ Hundredths(y) \in Fraction
           /\ Hundredths(x) \preceq Hundredths(y)
<1> DEFINE M(z) == (z[1] \div z[2]) * 100 + (200 * (z[1] % z[2]) + z[2]) \div (2 * z[2])
           m == M(x)
           n == M(y)
<1>0. /\ x[1] \in Nat /\ x[2] \in Nat \ {0} /\ y[1] \in Nat /\ y[2] \in Nat \ {0}
      /\ x[1] * y[2] <= y[1] * x[2]
    BY OrderIs DEF Fraction
<1>1. Hundredths(x) = Frac(m, 100) /\ Hundredths(y) = Frac(n, 100)
    BY DEF Hundredths
<1>2. m \in Nat /\ m * (2 * x[2]) <= 200 * x[1] + x[2]
    BY <1>0, RoundedIs, ZenonT(60)
<1>3. n \in Nat /\ 200 * y[1] + y[2] < (n + 1) * (2 * y[2])
    BY <1>0, RoundedIs, ZenonT(60)
<1> HIDE DEF m, n
<1> DEFINE k == (2 * x[2]) * y[2]
<1>4. m * k <= (200 * x[1] + x[2]) * y[2]
    <2>1. m * (2 * x[2]) \in Int /\ 200 * x[1] + x[2] \in Int
        BY <1>0, <1>2
    <2>2. (m * (2 * x[2])) * y[2] <= (200 * x[1] + x[2]) * y[2]
        BY <2>1, <1>0, <1>2, TimesOrder
    <2>3. (m * (2 * x[2])) * y[2] = m * k
        BY <1>0, <1>2
    <2> QED
        BY <2>2, <2>3
<1>5. (200 * y[1] + y[2] + 1) * x[2] <= (n + 1) * k
    <2>1. (n + 1) * (2 * y[2]) \in Int /\ 200 * y[1] + y[2] \in Int
        BY <1>0, <1>3
    <2>2. 200 * y[1] + y[2] + 1 <= (n + 1) * (2 * y[2]) /\ 200 * y[1] + y[2] + 1 \in Int
        BY <2>1, <1>3
    <2>3. (200 * y[1] + y[2] + 1) * x[2] <= ((n + 1) * (2 * y[2])) * x[2]
        BY <2>1, <2>2, <1>0, TimesOrder
    <2>4. ((n + 1) * (2 * y[2])) * x[2] = (n + 1) * k
        BY <1>0, <1>3
    <2> QED
        BY <2>3, <2>4
<1>6. (200 * x[1] + x[2]) * y[2] < (200 * y[1] + y[2] + 1) * x[2]
    <2> DEFINE a == x[1] * y[2]
               b == y[1] * x[2]
               c == x[2] * y[2]
    <2>1. /\ (200 * x[1] + x[2]) * y[2] = 200 * a + c
          /\ (200 * y[1] + y[2] + 1) * x[2] = 200 * b + c + x[2]
        BY <1>0
    <2>2. a \in Int /\ b \in Int /\ c \in Int /\ a <= b
        BY <1>0
    <2> HIDE DEF a, b, c
    <2>3. 200 * a + c < 200 * b + c + x[2]
        BY <2>2, <1>0
    <2> QED
        BY <2>1, <2>3
<1>7. k \in Nat \ {0}
    BY <1>0, ProductPositive
<1>8. m * k < (n + 1) * k
    <2>1. /\ m * k \in Int /\ (n + 1) * k \in Int /\ (200 * x[1] + x[2]) * y[2] \in Int
          /\ (200 * y[1] + y[2] + 1) * x[2] \in Int
        BY <1>0, <1>2, <1>3
    <2> HIDE DEF k
    <2> QED
        BY <2>1, <1>4, <1>5, <1>6
<1> HIDE DEF k
<1>9. m <= n
    <2> SUFFICES ASSUME n + 1 <= m PROVE FALSE
        BY <1>2, <1>3
    <2>1. (n + 1) * k <= m * k
        BY <1>2, <1>3, <1>7, TimesOrder
    <2>2. m * k \in Int /\ (n + 1) * k \in Int
        BY <1>2, <1>3, <1>7
    <2> QED
        BY <2>1, <2>2, <1>8
<1>10. m * 100 <= n * 100
    BY <1>2, <1>3, <1>9
<1>11. Frac(m, 100) \preceq Frac(n, 100) /\ Frac(m, 100) \in Fraction /\ Frac(n, 100) \in Fraction
    BY <1>2, <1>3, <1>10, FracOrder, FracIs
<1> QED
    BY <1>1, <1>11

\* What is left of a price by a discount: the less, the more is taken off.
LEMMA ComplementIs ==
    ASSUME NEW x \in Share
    PROVE  Complement(x) \in Fraction /\ x[1] \in Nat /\ x[2] \in Nat \ {0} /\ x[2] - x[1] \in Nat
<1>1. x \in Fraction /\ x \preceq One /\ One[1] = 1 /\ One[2] = 1 /\ One \in Fraction
    BY Wholes DEF Share, One
<1>2. x[1] \in Nat /\ x[2] \in Nat \ {0}
    BY <1>1 DEF Fraction
<1>3. x[1] * 1 <= 1 * x[2]
    BY <1>1, OrderIs
<1>4. x[2] - x[1] \in Nat
    BY <1>2, <1>3
<1> QED
    BY <1>2, <1>4, FracIs DEF Complement

LEMMA ComplementOrder ==
    ASSUME NEW x \in Share, NEW y \in Share, x \preceq y
    PROVE  Complement(y) \preceq Complement(x)
<1>1. /\ x[1] \in Nat /\ x[2] \in Nat \ {0} /\ x[2] - x[1] \in Nat
      /\ y[1] \in Nat /\ y[2] \in Nat \ {0} /\ y[2] - y[1] \in Nat
    BY ComplementIs
<1>2. x[1] * y[2] <= y[1] * x[2]
    BY OrderIs DEF Share
<1>3. /\ (y[2] - y[1]) * x[2] = x[2] * y[2] - y[1] * x[2]
      /\ (x[2] - x[1]) * y[2] = x[2] * y[2] - x[1] * y[2]
    BY <1>1
<1>4. x[2] * y[2] \in Int /\ y[1] * x[2] \in Int /\ x[1] * y[2] \in Int
    BY <1>1
<1>5. (y[2] - y[1]) * x[2] <= (x[2] - x[1]) * y[2]
    BY <1>2, <1>3, <1>4
<1> QED
    BY <1>1, <1>5, FracOrder DEF Complement

-----------------------------------------------------------------------------
(***************************************************************************)
(* The lookups.  Of some places of a table the first exists, and the last. *)
(***************************************************************************)
LEMMA PlacesEnd ==
    ASSUME NEW n \in Nat, NEW S \in SUBSET (1 .. n), S # {}
    PROVE  /\ \E i \in S : \A k \in S : i <= k
           /\ \E i \in S : \A k \in S : k <= i
<1> DEFINE R == OpToRel(<, Nat)
           U == {m \in Nat : \E i \in S : m = n - i}
<1>1. IsWellFoundedOn(R, Nat)
    BY NatLessThanWellFounded
<1>2. \A x, y \in Nat : <<x, y>> \in R <=> x < y
    BY DEF OpToRel
<1> HIDE DEF R
<1>3. S \subseteq Nat /\ U \subseteq Nat /\ U # {}
    <2>1. PICK i \in S : TRUE
        OBVIOUS
    <2>2. i \in 1 .. n /\ n - i \in Nat
        OBVIOUS
    <2>3. n - i \in U
        BY <2>2
    <2>4. S \subseteq Nat
        OBVIOUS
    <2>5. U \subseteq Nat
        OBVIOUS
    <2> HIDE DEF U
    <2> QED
        BY <2>3, <2>4, <2>5
<1>4. PICK x \in S : \A y \in S : ~(<<y, x>> \in R)
    BY <1>1, <1>3, WFMin
<1>5. ASSUME NEW y \in S PROVE x <= y
    <2>1. x \in Nat /\ y \in Nat
        BY <1>3
    <2>2. ~(y < x)
        BY <1>2, <1>4, <2>1
    <2> QED
        BY <2>1, <2>2
<1>6. PICK u \in U : \A v \in U : ~(<<v, u>> \in R)
    BY <1>1, <1>3, WFMin
<1>7. ASSUME NEW v \in U PROVE u <= v
    <2>1. u \in Nat /\ v \in Nat
        BY <1>3
    <2>2. ~(v < u)
        BY <1>2, <1>6, <2>1
    <2> QED
        BY <2>1, <2>2
<1>8. PICK i \in S : u = n - i
    OBVIOUS
<1>9. ASSUME NEW k \in S PROVE k <= i
    <2>1. n - k \in U
        OBVIOUS
    <2> QED
        BY <2>1, <1>7, <1>8
<1> QED
    BY <1>5, <1>9

LEMMA FirstOfIs ==
    ASSUME NEW T, NEW held \in Seq(T), NEW S \in SUBSET DOMAIN held, NEW otherwise
    PROVE  FirstOf(held, S, otherwise) \in T \cup {otherwise}
<1>1. CASE S = {}
    BY <1>1 DEF FirstOf
<1>2. CASE S # {}
    <2>1. Len(held) \in Nat /\ DOMAIN held = 1 .. Len(held)
        OBVIOUS
    <2>2. \E i \in S : \A k \in S : i <= k
        BY <2>1, <1>2, PlacesEnd
    <2>3. (CHOOSE i \in S : \A k \in S : i <= k) \in S
        BY <2>2
    <2>4. \A i \in S : held[i] \in T
        BY <2>1
    <2> QED
        BY <2>3, <2>4, <1>2 DEF FirstOf
<1> QED
    BY <1>1, <1>2

LEMMA SpeedIs ==
    ASSUME NEW c \in Configs, NEW tech, NEW material, NEW thickness
    PROVE  LET s == GetMaterialSpeed(c, tech, material, thickness)
           IN s.cut \in Fraction /\ s.engrave \in Fraction /\ s.raster \in Fraction
<1> DEFINE held == c.techMaterialSpeeds
           Of(t) == {i \in SpeedRows(c, tech, material) : Near(held[i].thickness, t)}
           generic == FirstOf(held, Of(0), NoSpeeds)
           own == FirstOf(held, Of(thickness), generic)
<1>1. held \in Seq(SpeedRow)
    BY ShopsAssumption
<1>2. \A t : Of(t) \in SUBSET DOMAIN held
    BY DEF SpeedRows
<1>3. GetMaterialSpeed(c, tech, material, thickness) = own
    BY DEF GetMaterialSpeed
<1>4. generic \in SpeedRow \cup {NoSpeeds}
    <2> DEFINE places == Of(0)
    <2>1. places \in SUBSET DOMAIN held
        BY <1>2
    <2> HIDE DEF places
    <2>2. FirstOf(held, places, NoSpeeds) \in SpeedRow \cup {NoSpeeds}
        BY <1>1, <2>1, FirstOfIs
    <2> QED
        BY <2>2 DEF places
<1> HIDE DEF generic
<1>5. own \in SpeedRow \cup {generic}
    <2> DEFINE places == Of(thickness)
    <2>1. places \in SUBSET DOMAIN held
        BY <1>2
    <2> HIDE DEF places
    <2>2. FirstOf(held, places, generic) \in SpeedRow \cup {generic}
        BY <1>1, <2>1, FirstOfIs
    <2> QED
        BY <2>2 DEF places
<1> HIDE DEF own
<1>6. own \in SpeedRow \/ own = NoSpeeds
    BY <1>4, <1>5
<1>7. ASSUME NEW s, s \in SpeedRow \/ s = NoSpeeds
      PROVE  s.cut \in Fraction /\ s.engrave \in Fraction /\ s.raster \in Fraction
    BY <1>7, Zeros DEF SpeedRow, NoSpeeds
<1> QED
    BY <1>3, <1>6, <1>7

LEMMA CostIs ==
    ASSUME NEW c \in Configs, NEW material, NEW thickness
    PROVE  LET m == GetMaterialCost(c, material, thickness)
           IN m.perMm2 \in Fraction /\ m.waste \in Fraction
<1> DEFINE held == c.materialCosts
           Of(t) == {i \in DOMAIN held :
                        held[i].material = material /\ held[i].thickness = t}
           generic == FirstOf(held, Of(0), NoCost)
           own == FirstOf(held, Of(thickness), generic)
<1>1. held \in Seq(CostRow)
    BY ShopsAssumption
<1>2. \A t : Of(t) \in SUBSET DOMAIN held
    OBVIOUS
<1>3. GetMaterialCost(c, material, thickness) = own
    BY DEF GetMaterialCost
<1>4. generic \in CostRow \cup {NoCost}
    <2> DEFINE places == Of(0)
    <2>1. places \in SUBSET DOMAIN held
        BY <1>2
    <2> HIDE DEF places
    <2>2. FirstOf(held, places, NoCost) \in CostRow \cup {NoCost}
        BY <1>1, <2>1, FirstOfIs
    <2> QED
        BY <2>2 DEF places
<1> HIDE DEF generic
<1>5. own \in CostRow \cup {generic}
    <2> DEFINE places == Of(thickness)
    <2>1. places \in SUBSET DOMAIN held
        BY <1>2
    <2> HIDE DEF places
    <2>2. FirstOf(held, places, generic) \in CostRow \cup {generic}
        BY <1>1, <2>1, FirstOfIs
    <2> QED
        BY <2>2 DEF places
<1> HIDE DEF own
<1>6. own \in CostRow \/ own = NoCost
    BY <1>4, <1>5
<1>7. ASSUME NEW m, m \in CostRow \/ m = NoCost
      PROVE  m.perMm2 \in Fraction /\ m.waste \in Fraction
    BY <1>7, Zeros DEF CostRow, NoCost
<1> QED
    BY <1>3, <1>6, <1>7

LEMMA BracketsAre ==
    ASSUME NEW c \in Configs, NEW i \in DOMAIN c.volumeDiscounts
    PROVE  /\ c.volumeDiscounts[i].minQty \in Nat /\ c.volumeDiscounts[i].maxQty \in Nat
           /\ c.volumeDiscounts[i].pct \in Share
<1> DEFINE ds == c.volumeDiscounts
<1>1. ds \in Seq(Bracket)
    BY ShopsAssumption
<1>2. ds[i] \in Bracket
    BY <1>1
<1>3. ASSUME NEW b \in Bracket PROVE b.minQty \in Nat /\ b.maxQty \in Nat /\ b.pct \in Share
    BY DEF Bracket
<1> QED
    BY <1>2, <1>3

\* The places of the brackets that contain a quantity.
Brackets(c, quantity) ==
    {i \in DOMAIN c.volumeDiscounts :
        /\ quantity >= c.volumeDiscounts[i].minQty
        /\ Reaches(c.volumeDiscounts[i], quantity)}

LEMMA DiscountOf ==
    ASSUME NEW c \in Configs, NEW quantity
    PROVE  \/ /\ Brackets(c, quantity) = {}
              /\ GetVolumeDiscount(c, quantity) = Zero
           \/ \E i \in Brackets(c, quantity) :
                /\ GetVolumeDiscount(c, quantity) = c.volumeDiscounts[i].pct
                /\ \A k \in Brackets(c, quantity) : k <= i
<1> DEFINE S == Brackets(c, quantity)
           ds == c.volumeDiscounts
<1>1. ds \in Seq(Bracket)
    BY ShopsAssumption
<1>2. Len(ds) \in Nat /\ DOMAIN ds = 1 .. Len(ds)
    BY <1>1
<1>3. S \in SUBSET (1 .. Len(ds))
    BY <1>2 DEF Brackets
<1>4. GetVolumeDiscount(c, quantity)
        = IF S = {} THEN Zero ELSE ds[CHOOSE i \in S : \A k \in S : k <= i].pct
    BY DEF GetVolumeDiscount, Brackets
<1> HIDE DEF S
<1>5. CASE S = {}
    BY <1>4, <1>5 DEF S
<1>6. CASE S # {}
    <2>1. \E i \in S : \A k \in S : k <= i
        BY <1>2, <1>3, <1>6, PlacesEnd
    <2> QED
        BY <2>1, <1>4, <1>6 DEF S
<1> QED
    BY <1>5, <1>6

LEMMA DiscountIs ==
    ASSUME NEW c \in Configs, NEW quantity
    PROVE  GetVolumeDiscount(c, quantity) \in Share
<1>1. c.volumeDiscounts \in Seq(Bracket)
    BY ShopsAssumption
<1>2. \A i \in DOMAIN c.volumeDiscounts : c.volumeDiscounts[i].pct \in Share
    BY <1>1, BracketsAre
<1>3. Zero \in Share
    <2>1. Zero \in Fraction /\ One \in Fraction /\ Zero[1] = 0 /\ Zero[2] = 1
          /\ One[1] = 1 /\ One[2] = 1
        BY Wholes DEF Zero, One
    <2> QED
        BY <2>1, OrderIs DEF Share
<1> QED
    BY <1>2, <1>3, DiscountOf DEF Brackets

\* Brackets without gaps give a larger order no smaller discount.
LEMMA DiscountsGrow ==
    ASSUME NEW c \in Configs, Graduated(c.volumeDiscounts),
           NEW m \in Nat, NEW n \in Nat, m <= n
    PROVE  GetVolumeDiscount(c, m) \preceq GetVolumeDiscount(c, n)
<1> DEFINE ds == c.volumeDiscounts
<1>1. ds \in Seq(Bracket)
    BY ShopsAssumption
<1>2. Len(ds) \in Nat /\ DOMAIN ds = 1 .. Len(ds)
    BY <1>1
<1>3. \A i \in DOMAIN ds : ds[i].minQty \in Nat /\ ds[i].maxQty \in Nat /\ ds[i].pct \in Fraction
    BY BracketsAre DEF Share
<1>4. GetVolumeDiscount(c, n) \in Fraction
    BY DiscountIs DEF Share
<1>5. CASE GetVolumeDiscount(c, m) = Zero
    <2>1. Below(1, 1, Zero, GetVolumeDiscount(c, n))
        BY <1>4, BelowNothing
    <2> QED
        BY <2>1, <1>4, <1>5, Zeros, BelowIsOrder
<1>6. CASE GetVolumeDiscount(c, m) # Zero
    <2>1. PICK i \in Brackets(c, m) : GetVolumeDiscount(c, m) = ds[i].pct
        BY <1>6, DiscountOf
    <2>2. i \in DOMAIN ds /\ ds[i].minQty <= n
        BY <1>3 DEF Brackets
    <2> DEFINE S == {k \in DOMAIN ds : ds[k].minQty <= n}
    <2>3. i \in S /\ S \in SUBSET (1 .. Len(ds))
        BY <2>2, <1>2
    <2>4. PICK k \in S : \A l \in S : l <= k
        <3> HIDE DEF S
        <3> QED
            BY <2>3, <1>2, PlacesEnd
    <2>5. Reaches(ds[k], n)
        <3> SUFFICES ASSUME ds[k].maxQty # NoMax, ~(n <= ds[k].maxQty) PROVE FALSE
            BY DEF Reaches
        <3>1. PICK l \in DOMAIN ds : k < l /\ ds[l].minQty <= ds[k].maxQty + 1
            BY DEF Graduated
        <3>2. l \in S
            BY <3>1, <1>3
        <3> QED
            BY <3>1, <3>2, <2>4, <1>2
    <2>6. k \in Brackets(c, n)
        BY <2>5, <1>3 DEF Brackets
    <2>7. PICK l \in Brackets(c, n) : GetVolumeDiscount(c, n) = ds[l].pct
                                      /\ \A j \in Brackets(c, n) : j <= l
        BY <2>6, DiscountOf
    <2>8. i <= l /\ l \in DOMAIN ds
        BY <2>3, <2>4, <2>6, <2>7, <1>2 DEF Brackets
    <2>9. ds[i].pct \preceq ds[l].pct
        <3>1. CASE i = l
            BY <3>1, <1>3, <2>2, OrderTotal
        <3>2. CASE i < l
            BY <3>2, <2>2, <2>8 DEF Graduated
        <3> QED
            BY <3>1, <3>2, <2>2, <2>8, <1>2
    <2> QED
        BY <2>1, <2>7, <2>9
<1> QED
    BY <1>5, <1>6

-----------------------------------------------------------------------------
(***************************************************************************)
(* What the getters give is a number that is not negative.                  *)
(***************************************************************************)
LEMMA DefaultsAre ==
    \A key \in DOMAIN Default : Default[key] \in Fraction
<1>1. /\ Frac(515, 1000) \in Fraction /\ Frac(25, 100) \in Fraction /\ Frac(40, 100) \in Fraction
    BY FracIs
<1>2. /\ Whole(500) \in Fraction /\ Whole(100) \in Fraction /\ Whole(20) \in Fraction
      /\ Whole(5) \in Fraction /\ Whole(6) \in Fraction /\ Whole(12) \in Fraction
      /\ Whole(2575) \in Fraction /\ Whole(120) \in Fraction
    BY Wholes
<1> QED
    BY <1>1, <1>2, Zeros DEF Default

LEMMA SettingIs ==
    ASSUME NEW c \in Configs, NEW key \in DOMAIN Default
    PROVE  Setting(c, key) \in Fraction
    BY ShopsAssumption, DefaultsAre DEF Setting

LEMMA RateIs ==
    ASSUME NEW c \in Configs, NEW tech \in DOMAIN c.techRates
    PROVE  /\ c.techRates[tech]["engrave"] \in Fraction /\ c.techRates[tech]["cut"] \in Fraction
           /\ c.techRates[tech].setupFee \in Fraction /\ c.techRates[tech].margin \in Fraction
           /\ c.techRates[tech].monthly \in Fraction
    BY ShopsAssumption

LEMMA OverheadIs ==
    ASSUME NEW c \in Configs, NEW tech \in DOMAIN c.techRates
    PROVE  OverheadPerHour(c, tech) \in Fraction
<1>1. /\ Setting(c, "overhead_alquiler") \in Fraction /\ Setting(c, "overhead_internet") \in Fraction
      /\ Setting(c, "horas_trabajo_mes") \in Fraction
    BY SettingIs DEF Default
<1>2. Whole(120) \in Fraction /\ Positive(Whole(120))
    BY Wholes DEF Positive
<1>3. HoursPerMonth(c) \in Fraction /\ Positive(HoursPerMonth(c))
    BY <1>1, <1>2 DEF HoursPerMonth
<1>4. Setting(c, "overhead_alquiler") \oplus Setting(c, "overhead_internet") \in Fraction
    BY <1>1, PlusIs
<1>5. Setting(c, "overhead_alquiler") \oplus Setting(c, "overhead_internet")
        \oplus c.techRates[tech].monthly \in Fraction
    BY <1>4, RateIs, PlusIs
<1> QED
    BY <1>3, <1>5, OverIs DEF OverheadPerHour

LEMMA CostPerMinIs ==
    ASSUME NEW c \in Configs, NEW tech, NEW work \in {"engrave", "cut"}
    PROVE  GetCostPerMin(c, tech, work) \in Fraction
<1>1. CASE tech \notin DOMAIN c.techRates
    BY <1>1, Zeros DEF GetCostPerMin
<1>2. CASE tech \in DOMAIN c.techRates
    <2>1. c.techRates[tech][work] \in Fraction
        BY <1>2, RateIs
    <2>2. c.techRates[tech][work] \oplus OverheadPerHour(c, tech) \in Fraction
        BY <2>1, <1>2, OverheadIs, PlusIs
    <2>3. Whole(60) \in Fraction /\ Positive(Whole(60))
        BY Wholes DEF Positive
    <2> QED
        BY <2>2, <2>3, <1>2, OverIs DEF GetCostPerMin
<1> QED
    BY <1>1, <1>2

LEMMA GettersAre ==
    ASSUME NEW c \in Configs, NEW tech, NEW material, NEW type
    PROVE  /\ GetMarginPercent(c, tech) \in Fraction
           /\ GetSetupFee(c, tech) \in Fraction
           /\ GetMaterialFactor(c, material) \in Fraction
           /\ GetEngraveTypeFactor(c, type) \in Fraction
           /\ GetEngraveTypeSpeedMultiplier(c, type) \in Fraction
           /\ GetUVPremiumFactor(c, tech) \in Fraction
           /\ GetSpotSize(c, tech) \in Fraction /\ Positive(GetSpotSize(c, tech))
<1>1. GetMarginPercent(c, tech) \in Fraction
    <2>1. Setting(c, "default_margin_percent") \in Fraction
        BY SettingIs DEF Default
    <2> QED
        BY <2>1, RateIs DEF GetMarginPercent
<1>2. GetSetupFee(c, tech) \in Fraction
    BY RateIs, Zeros DEF GetSetupFee
<1>3. GetMaterialFactor(c, material) \in Fraction
    BY ShopsAssumption, Zeros DEF GetMaterialFactor
<1>4. \A t \in DOMAIN c.engraveTypes :
        c.engraveTypes[t].factor \in Fraction /\ c.engraveTypes[t].speed \in Fraction
    BY ShopsAssumption
<1>5. GetEngraveTypeFactor(c, type) \in Fraction
    BY <1>4, Zeros DEF GetEngraveTypeFactor
<1>6. GetEngraveTypeSpeedMultiplier(c, type) \in Fraction
    BY <1>4, Zeros DEF GetEngraveTypeSpeedMultiplier
<1>7. \A t \in DOMAIN c.technologies :
        c.technologies[t].spot \in Fraction /\ c.technologies[t].uv \in Fraction
    BY ShopsAssumption
<1>8. GetUVPremiumFactor(c, tech) \in Fraction
    BY <1>7, Zeros DEF GetUVPremiumFactor
<1>9. Frac(1, 10) \in Fraction /\ Positive(Frac(1, 10))
    <2>1. Frac(1, 10) \in Fraction /\ Frac(1, 10)[1] # 0
        BY FracIs
    <2> QED
        BY <2>1 DEF Fraction, Positive
<1>10. GetSpotSize(c, tech) \in Fraction /\ Positive(GetSpotSize(c, tech))
    BY <1>7, <1>9 DEF GetSpotSize
<1> QED
    BY <1>1, <1>2, <1>3, <1>5, <1>6, <1>8, <1>10

LEMMA PositiveOrOneIs ==
    ASSUME NEW x \in Fraction
    PROVE  PositiveOrOne(x) \in Fraction /\ Positive(PositiveOrOne(x))
    BY Wholes DEF PositiveOrOne, One, Positive

LEMMA PremiumIs ==
    ASSUME NEW c \in Configs, NEW j
    PROVE  Premium(c, j) \in Fraction /\ CostSetup(c, j) \in Fraction
<1>1. One \oplus GetUVPremiumFactor(c, j.tech) \in Fraction
    BY GettersAre, Zeros, PlusIs
<1>2. Premium(c, j) \in Fraction
    BY <1>1, GettersAre, TimesIs DEF Premium
<1>3. CostSetup(c, j) \in Fraction
    BY GettersAre, PlusIs DEF CostSetup
<1> QED
    BY <1>2, <1>3

-----------------------------------------------------------------------------
(***************************************************************************)
(* Time and money grow with the geometry, weighted or not.                  *)
(***************************************************************************)
LEMMA TimeOfIs ==
    ASSUME NEW x \in Fraction, NEW speed \in Fraction, Positive(speed)
    PROVE  TimeOf(x, speed) \in Fraction
    BY OverIs, Zeros DEF TimeOf

LEMMA TimeOfBelow ==
    ASSUME NEW p \in Nat \ {0}, NEW q \in Nat \ {0}, NEW x \in Fraction, NEW y \in Fraction,
           NEW speed \in Fraction, Positive(speed), Below(p, q, x, y)
    PROVE  Below(p, q, TimeOf(x, speed), TimeOf(y, speed))
<1>1. CASE Positive(x)
    BY <1>1, BelowPositive, BelowOver DEF TimeOf
<1>2. CASE ~Positive(x)
    BY <1>2, TimeOfIs, BelowNothing DEF TimeOf
<1> QED
    BY <1>1, <1>2

PartsBelow(p, q, g, h) ==
    /\ Below(p, q, g.cut, h.cut) /\ Below(p, q, g.vector, h.vector)
    /\ Below(p, q, g.raster, h.raster) /\ Below(p, q, g.area, h.area)

TimeBelow(p, q, s, t) ==
    /\ {s.engrave, s.cut, t.engrave, t.cut} \subseteq Fraction
    /\ Below(p, q, s.engrave, t.engrave) /\ Below(p, q, s.cut, t.cut)

LEMMA EstimateBelow ==
    ASSUME NEW p \in Nat \ {0}, NEW q \in Nat \ {0}, NEW c \in Configs, NEW j, NEW tech,
           NEW g \in Analysis, NEW h \in Analysis, PartsBelow(p, q, g, h)
    PROVE  TimeBelow(p, q, EstimateWithGeometry(c, j, tech, g), EstimateWithGeometry(c, j, tech, h))
<1> DEFINE mult == PositiveOrOne(GetEngraveTypeSpeedMultiplier(c, j.engraveType))
           hardness == PositiveOrOne(GetMaterialFactor(c, j.material))
           own == GetMaterialSpeed(c, tech, j.material, j.thickness)
           line == Setting(c, "base_engrave_line_speed")
           slow == Setting(c, "base_cut_speed")
           area == Setting(c, "base_engrave_area_speed")
           head == (IF Positive(own.engrave) THEN own.engrave ELSE line \oslash hardness) \otimes mult
           raster == IF Positive(own.raster) THEN own.raster \otimes mult
                     ELSE IF Positive(area) THEN area \otimes mult
                     ELSE head \otimes GetSpotSize(c, tech)
           cut == IF Positive(own.cut) THEN own.cut ELSE slow \oslash hardness
           Engrave(x) == TimeOf(x.raster, raster) \oplus TimeOf(x.vector, head)
<1>1. /\ mult \in Fraction /\ Positive(mult) /\ hardness \in Fraction /\ Positive(hardness)
    BY GettersAre, PositiveOrOneIs
<1>2. own.cut \in Fraction /\ own.engrave \in Fraction /\ own.raster \in Fraction
    BY SpeedIs
<1>3. /\ line \in Fraction /\ Positive(line) /\ slow \in Fraction /\ Positive(slow)
      /\ area \in Fraction
    BY SettingIs, ShopsAssumption DEF Default
<1>4. \A x : /\ EstimateWithGeometry(c, j, tech, x).engrave = Engrave(x)
             /\ EstimateWithGeometry(c, j, tech, x).cut = TimeOf(x.cut, cut)
    BY DEF EstimateWithGeometry
<1>5. GetSpotSize(c, tech) \in Fraction /\ Positive(GetSpotSize(c, tech))
    BY GettersAre
<1>6. cut \in Fraction /\ Positive(cut)
    BY <1>1, <1>2, <1>3, OverIs
<1>7. head \in Fraction /\ Positive(head)
    <2> DEFINE bare == IF Positive(own.engrave) THEN own.engrave ELSE line \oslash hardness
    <2>1. bare \in Fraction /\ Positive(bare)
        BY <1>1, <1>2, <1>3, OverIs
    <2> HIDE DEF bare
    <2>2. bare \otimes mult \in Fraction /\ Positive(bare \otimes mult)
        BY <2>1, <1>1, TimesIs, PositiveIs
    <2> QED
        BY <2>2 DEF bare
<1> HIDE DEF mult, hardness, own, line, slow, area, head, cut
<1>8. raster \in Fraction /\ Positive(raster)
    BY <1>1, <1>2, <1>3, <1>5, <1>7, TimesIs, PositiveIs
<1> HIDE DEF raster
<1>9. /\ g.cut \in Fraction /\ g.vector \in Fraction /\ g.raster \in Fraction
      /\ h.cut \in Fraction /\ h.vector \in Fraction /\ h.raster \in Fraction
    BY DEF Analysis
<1>10. /\ TimeOf(g.raster, raster) \in Fraction /\ TimeOf(g.vector, head) \in Fraction
       /\ TimeOf(h.raster, raster) \in Fraction /\ TimeOf(h.vector, head) \in Fraction
       /\ TimeOf(g.cut, cut) \in Fraction /\ TimeOf(h.cut, cut) \in Fraction
    BY <1>6, <1>7, <1>8, <1>9, TimeOfIs
<1>11. /\ Below(p, q, TimeOf(g.raster, raster), TimeOf(h.raster, raster))
       /\ Below(p, q, TimeOf(g.vector, head), TimeOf(h.vector, head))
       /\ Below(p, q, TimeOf(g.cut, cut), TimeOf(h.cut, cut))
    BY <1>6, <1>7, <1>8, <1>9, TimeOfBelow DEF PartsBelow
<1>12. /\ Engrave(g) \in Fraction /\ Engrave(h) \in Fraction
       /\ Below(p, q, Engrave(g), Engrave(h))
    BY <1>10, <1>11, PlusIs, BelowPlus
<1> QED
    BY <1>4, <1>10, <1>11, <1>12 DEF TimeBelow

LEMMA TimeEstimateBelow ==
    ASSUME NEW p \in Nat \ {0}, NEW q \in Nat \ {0}, NEW c \in Configs, NEW j,
           NEW g \in Analysis, NEW h \in Analysis, PartsBelow(p, q, g, h)
    PROVE  TimeBelow(p, q, TimeEstimate(c, j, g), TimeEstimate(c, j, h))
<1>1. CASE ~OtherMachine(j)
    <2>1. \A x : TimeEstimate(c, j, x) = EstimateWithGeometry(c, j, j.tech, x)
        BY <1>1 DEF TimeEstimate
    <2> QED
        BY <2>1, EstimateBelow
<1>2. CASE OtherMachine(j)
    <2> DEFINE Lines(x) == [x EXCEPT !.cut = Zero]
               Edges(x) == [x EXCEPT !.raster = Zero, !.vector = Zero]
               Engraved(x) == EstimateWithGeometry(c, j, j.tech, Lines(x))
               Cut(x) == EstimateWithGeometry(c, j, j.cutTech, Edges(x))
    <2>1. ASSUME NEW x \in Analysis
          PROVE  Lines(x) \in Analysis /\ Edges(x) \in Analysis
        BY Zeros DEF Analysis
    <2>2. Below(p, q, Zero, Zero)
        BY Zeros, BelowNothing
    <2>3. PartsBelow(p, q, Lines(g), Lines(h)) /\ PartsBelow(p, q, Edges(g), Edges(h))
        BY <2>2 DEF PartsBelow, Analysis
    <2>4. TimeBelow(p, q, Engraved(g), Engraved(h)) /\ TimeBelow(p, q, Cut(g), Cut(h))
        <3> HIDE DEF Lines, Edges
        <3> QED
            BY <2>1, <2>3, EstimateBelow
    <2>5. ASSUME NEW x
          PROVE  /\ TimeEstimate(c, j, x).engrave = Engraved(x).engrave
                 /\ TimeEstimate(c, j, x).cut = Cut(x).cut
        BY <1>2 DEF TimeEstimate, EstimateWithGeometry
    <2> HIDE DEF Engraved, Cut
    <2> QED
        BY <2>4, <2>5 DEF TimeBelow
<1> QED
    BY <1>1, <1>2

LEMMA MaterialBelow ==
    ASSUME NEW p \in Nat \ {0}, NEW q \in Nat \ {0}, NEW c \in Configs, NEW j,
           NEW g \in Analysis, NEW h \in Analysis, PartsBelow(p, q, g, h)
    PROVE  /\ CostMaterial(c, j, g) \in Fraction /\ CostMaterial(c, j, h) \in Fraction
           /\ Below(p, q, CostMaterial(c, j, g), CostMaterial(c, j, h))
<1> DEFINE m == GetMaterialCost(c, j.material, j.thickness)
           waste == One \oplus m.waste
<1>1. m.perMm2 \in Fraction /\ m.waste \in Fraction
    BY CostIs
<1>2. waste \in Fraction
    BY <1>1, Zeros, PlusIs
<1>3. g.area \in Fraction /\ h.area \in Fraction /\ Below(p, q, g.area, h.area)
    BY DEF Analysis, PartsBelow
<1>4. \A x : CostMaterial(c, j, x) = IF j.included /\ Positive(m.perMm2)
                                     THEN x.area \otimes m.perMm2 \otimes waste ELSE Zero
    BY DEF CostMaterial
<1> HIDE DEF m, waste
<1>5. /\ g.area \otimes m.perMm2 \in Fraction /\ h.area \otimes m.perMm2 \in Fraction
      /\ Below(p, q, g.area \otimes m.perMm2, h.area \otimes m.perMm2)
    BY <1>1, <1>3, TimesIs, OrderTotal, BelowTimes
<1>6. /\ g.area \otimes m.perMm2 \otimes waste \in Fraction
      /\ h.area \otimes m.perMm2 \otimes waste \in Fraction
      /\ Below(p, q, g.area \otimes m.perMm2 \otimes waste, h.area \otimes m.perMm2 \otimes waste)
    BY <1>2, <1>5, TimesIs, OrderTotal, BelowTimes
<1>7. Below(p, q, Zero, Zero)
    BY Zeros, BelowNothing
<1> QED
    BY <1>4, <1>6, <1>7, Zeros

\* A product by a number that is the same on both sides.
LEMMA BelowScaled ==
    ASSUME NEW p \in Nat \ {0}, NEW q \in Nat \ {0}, NEW x \in Fraction, NEW y \in Fraction,
           NEW k \in Fraction, Below(p, q, x, y)
    PROVE  x \otimes k \in Fraction /\ y \otimes k \in Fraction /\ Below(p, q, x \otimes k, y \otimes k)
    BY TimesIs, OrderTotal, BelowTimes

LEMMA BelowSum ==
    ASSUME NEW p \in Nat \ {0}, NEW q \in Nat \ {0},
           NEW a \in Fraction, NEW b \in Fraction, NEW c \in Fraction, NEW d \in Fraction,
           Below(p, q, a, c), Below(p, q, b, d)
    PROVE  a \oplus b \in Fraction /\ c \oplus d \in Fraction /\ Below(p, q, a \oplus b, c \oplus d)
    BY PlusIs, BelowPlus

LEMMA HybridBelow ==
    ASSUME NEW p \in Nat \ {0}, NEW q \in Nat \ {0}, NEW c \in Configs, NEW j,
           NEW g \in Analysis, NEW h \in Analysis, PartsBelow(p, q, g, h),
           NEW s, NEW t, TimeBelow(p, q, s, t)
    PROVE  /\ HybridPrice(c, j, g, s) \in Fraction /\ HybridPrice(c, j, h, t) \in Fraction
           /\ Below(p, q, HybridPrice(c, j, g, s), HybridPrice(c, j, h, t))
<1> DEFINE perEngrave == GetCostPerMin(c, j.tech, "engrave")
           perCut == GetCostPerMin(c, CutTech(j), "cut")
           margin == One \oplus GetMarginPercent(c, j.tech)
           marginCut == One \oplus GetMarginPercent(c, j.cutTech)
           premium == margin \otimes Premium(c, j)
           E(x, time) == (time.engrave \otimes perEngrave) \oplus CostMaterial(c, j, x)
           K(time) == time.cut \otimes perCut
<1>1. \A x, time : HybridPrice(c, j, x, time) =
            IF OtherMachine(j)
            THEN (E(x, time) \otimes premium) \oplus (K(time) \otimes marginCut)
            ELSE (E(x, time) \oplus K(time)) \otimes premium
    BY DEF HybridPrice
<1>2. perEngrave \in Fraction /\ perCut \in Fraction
    BY CostPerMinIs
<1>3. margin \in Fraction /\ marginCut \in Fraction
    BY GettersAre, Zeros, PlusIs
<1>4. premium \in Fraction
    BY <1>3, PremiumIs, TimesIs
<1> HIDE DEF perEngrave, perCut, margin, marginCut, premium
<1>5. /\ s.engrave \in Fraction /\ s.cut \in Fraction /\ t.engrave \in Fraction /\ t.cut \in Fraction
      /\ Below(p, q, s.engrave, t.engrave) /\ Below(p, q, s.cut, t.cut)
    BY DEF TimeBelow
<1>6. E(g, s) \in Fraction /\ E(h, t) \in Fraction /\ Below(p, q, E(g, s), E(h, t))
    BY <1>2, <1>5, BelowScaled, MaterialBelow, BelowSum
<1>7. K(s) \in Fraction /\ K(t) \in Fraction /\ Below(p, q, K(s), K(t))
    BY <1>2, <1>5, BelowScaled
<1> HIDE DEF E, K
<1>8. CASE OtherMachine(j)
    <2>1. /\ E(g, s) \otimes premium \in Fraction /\ E(h, t) \otimes premium \in Fraction
          /\ Below(p, q, E(g, s) \otimes premium, E(h, t) \otimes premium)
        BY <1>4, <1>6, BelowScaled
    <2>2. /\ K(s) \otimes marginCut \in Fraction /\ K(t) \otimes marginCut \in Fraction
          /\ Below(p, q, K(s) \otimes marginCut, K(t) \otimes marginCut)
        BY <1>3, <1>7, BelowScaled
    <2> QED
        BY <2>1, <2>2, <1>1, <1>8, BelowSum
<1>9. CASE ~OtherMachine(j)
    <2>1. /\ E(g, s) \oplus K(s) \in Fraction /\ E(h, t) \oplus K(t) \in Fraction
          /\ Below(p, q, E(g, s) \oplus K(s), E(h, t) \oplus K(t))
        BY <1>6, <1>7, BelowSum
    <2> QED
        BY <2>1, <1>1, <1>4, <1>9, BelowScaled
<1> QED
    BY <1>8, <1>9

LEMMA WorkAreaBelow ==
    ASSUME NEW p \in Nat \ {0}, NEW q \in Nat \ {0}, p <= q, NEW c \in Configs,
           NEW g \in Analysis, NEW h \in Analysis, PartsBelow(p, q, g, h),
           HasEngrave(g) <=> HasEngrave(h)
    PROVE  /\ WorkArea(c, g) \in Fraction /\ WorkArea(c, h) \in Fraction
           /\ Below(p, q, WorkArea(c, g), WorkArea(c, h))
<1> DEFINE Engraved(x) == x.raster \oplus (x.vector \oslash Whole(2))
           Area(x) == IF Positive(Engraved(x)) THEN Engraved(x) ELSE x.area
           least == Setting(c, "min_area_mm2")
<1>1. /\ g.vector \in Fraction /\ g.raster \in Fraction /\ g.area \in Fraction
      /\ h.vector \in Fraction /\ h.raster \in Fraction /\ h.area \in Fraction
      /\ Below(p, q, g.vector, h.vector) /\ Below(p, q, g.raster, h.raster)
      /\ Below(p, q, g.area, h.area)
    BY DEF Analysis, PartsBelow
<1>2. Whole(2) \in Fraction /\ Positive(Whole(2))
    BY Wholes DEF Positive
<1>3. /\ g.vector \oslash Whole(2) \in Fraction /\ h.vector \oslash Whole(2) \in Fraction
      /\ Positive(g.vector \oslash Whole(2)) <=> Positive(g.vector)
      /\ Positive(h.vector \oslash Whole(2)) <=> Positive(h.vector)
      /\ Below(p, q, g.vector \oslash Whole(2), h.vector \oslash Whole(2))
    BY <1>1, <1>2, OverIs, BelowOver
<1>4. Engraved(g) \in Fraction /\ Engraved(h) \in Fraction /\ Below(p, q, Engraved(g), Engraved(h))
    BY <1>1, <1>3, BelowSum
<1>5. /\ Positive(Engraved(g)) <=> HasEngrave(g)
      /\ Positive(Engraved(h)) <=> HasEngrave(h)
    BY <1>1, <1>3, PositiveIs DEF HasEngrave
<1>6. Area(g) \in Fraction /\ Area(h) \in Fraction /\ Below(p, q, Area(g), Area(h))
    BY <1>1, <1>4, <1>5
<1>7. least \in Fraction /\ Below(p, q, least, least)
    <2>1. least \in Fraction
        BY SettingIs DEF Default
    <2> QED
        BY <2>1, BelowItself
<1>8. \A x : WorkArea(c, x) = Larger(Area(x), least)
    BY DEF WorkArea
<1> HIDE DEF Area, least
<1> QED
    BY <1>6, <1>7, <1>8, LargerIs, BelowLarger

LEMMA ValueBelow ==
    ASSUME NEW p \in Nat \ {0}, NEW q \in Nat \ {0}, p <= q, NEW c \in Configs, NEW j,
           NEW g \in Analysis, NEW h \in Analysis, PartsBelow(p, q, g, h),
           HasEngrave(g) <=> HasEngrave(h), OnlyCut(g) <=> OnlyCut(h)
    PROVE  /\ ValuePrice(c, j, g) \in Fraction /\ ValuePrice(c, j, h) \in Fraction
           /\ Below(p, q, ValuePrice(c, j, g), ValuePrice(c, j, h))
<1> DEFINE perCut == Setting(c, "price_per_mm_cut")
           perArea == Setting(c, "price_per_mm2")
           base == Setting(c, "min_value_base")
           factor == GetMaterialFactor(c, j.material)
           premium == Premium(c, j)
           Work(x) == IF OnlyCut(x) THEN x.cut \otimes perCut ELSE WorkArea(c, x) \otimes perArea
           Least(x) == Larger(base, Work(x))
<1>1. \A x : ValuePrice(c, j, x) = Least(x) \otimes factor \otimes premium
    BY DEF ValuePrice
<1>2. perCut \in Fraction /\ perArea \in Fraction /\ base \in Fraction
    BY SettingIs DEF Default
<1>3. factor \in Fraction /\ premium \in Fraction
    BY GettersAre, PremiumIs
<1> HIDE DEF perCut, perArea, base, factor, premium
<1>4. g.cut \in Fraction /\ h.cut \in Fraction /\ Below(p, q, g.cut, h.cut)
    BY DEF Analysis, PartsBelow
<1>5. Work(g) \in Fraction /\ Work(h) \in Fraction /\ Below(p, q, Work(g), Work(h))
    <2>1. CASE OnlyCut(g)
        BY <2>1, <1>2, <1>4, BelowScaled
    <2>2. CASE ~OnlyCut(g)
        BY <2>2, <1>2, WorkAreaBelow, BelowScaled
    <2> QED
        BY <2>1, <2>2
<1>6. Below(p, q, base, base)
    BY <1>2, BelowItself
<1> HIDE DEF Work
<1>7. Least(g) \in Fraction /\ Least(h) \in Fraction /\ Below(p, q, Least(g), Least(h))
    BY <1>2, <1>5, <1>6, LargerIs, BelowLarger
<1> HIDE DEF Least
<1>8. /\ Least(g) \otimes factor \in Fraction /\ Least(h) \otimes factor \in Fraction
      /\ Below(p, q, Least(g) \otimes factor, Least(h) \otimes factor)
    BY <1>3, <1>7, BelowScaled
<1>9. /\ Least(g) \otimes factor \otimes premium \in Fraction
      /\ Least(h) \otimes factor \otimes premium \in Fraction
      /\ Below(p, q, Least(g) \otimes factor \otimes premium, Least(h) \otimes factor \otimes premium)
    BY <1>3, <1>8, BelowScaled
<1> QED
    BY <1>1, <1>9

-----------------------------------------------------------------------------
(***************************************************************************)
(* The two prices before rounding, and orders that differ in the number of *)
(* pieces and in the work on each.                                         *)
(***************************************************************************)
Share1(c, j) == Complement(GetVolumeDiscount(c, j.quantity))

Hybrid(c, j) ==
    (HybridPrice(c, j, Scaled(j), TimeEstimate(c, j, Scaled(j))) \otimes Share1(c, j))
        \oplus CostSetup(c, j)

Value(c, j) ==
    (ValuePrice(c, j, Scaled(j)) \otimes Share1(c, j)) \oplus CostSetup(c, j)

Like(j, k) ==
    /\ j.tech = k.tech /\ j.material = k.material /\ j.engraveType = k.engraveType
    /\ j.thickness = k.thickness /\ j.included = k.included /\ j.cutTech = k.cutTech

Sized == {j \in Order : j.quantity >= 1}

LEMMA CalculateIs ==
    ASSUME NEW c, NEW j
    PROVE  LET price == Calculate(c, j)
           IN /\ price.final = Larger(Hundredths(Hybrid(c, j)), Hundredths(Value(c, j)))
              /\ price.hybridTotal = Hundredths(Hybrid(c, j))
              /\ price.hybridUnit = Hundredths(Hybrid(c, j) \oslash Whole(j.quantity))
              /\ price.valueUnit = Hundredths(Value(c, j) \oslash Whole(j.quantity))
    BY DEF Calculate, Hybrid, Value, Share1

LEMMA LikeJobs ==
    ASSUME NEW c, NEW j, NEW k, NEW g, NEW time, Like(j, k)
    PROVE  /\ TimeEstimate(c, j, g) = TimeEstimate(c, k, g)
           /\ HybridPrice(c, j, g, time) = HybridPrice(c, k, g, time)
           /\ ValuePrice(c, j, g) = ValuePrice(c, k, g)
           /\ CostSetup(c, j) = CostSetup(c, k)
<1>1. OtherMachine(j) <=> OtherMachine(k)
    BY DEF Like, OtherMachine
<1>2. CutTech(j) = CutTech(k)
    BY DEF Like, CutTech
<1>3. \A tech, x : EstimateWithGeometry(c, j, tech, x) = EstimateWithGeometry(c, k, tech, x)
    BY DEF Like, EstimateWithGeometry
<1>4. TimeEstimate(c, j, g) = TimeEstimate(c, k, g)
    BY <1>1, <1>3, ZenonT(60) DEF Like, TimeEstimate
<1>5. Premium(c, j) = Premium(c, k) /\ CostSetup(c, j) = CostSetup(c, k)
    BY <1>1 DEF Like, Premium, CostSetup
<1>6. CostMaterial(c, j, g) = CostMaterial(c, k, g)
    BY DEF Like, CostMaterial
<1>7. HybridPrice(c, j, g, time) = HybridPrice(c, k, g, time)
    BY <1>1, <1>2, <1>5, <1>6 DEF Like, HybridPrice
<1>8. ValuePrice(c, j, g) = ValuePrice(c, k, g)
    BY <1>5 DEF Like, ValuePrice
<1> QED
    BY <1>4, <1>5, <1>7, <1>8

\* Above the setup, both prices have the same share of what the work costs.
LEMMA SharedOrder ==
    ASSUME NEW p \in Nat \ {0}, NEW q \in Nat \ {0}, p <= q, NEW c \in Configs,
           NEW j, NEW k, Like(j, k),
           GetVolumeDiscount(c, k.quantity) \preceq GetVolumeDiscount(c, j.quantity),
           NEW x \in Fraction, NEW y \in Fraction, Below(p, q, x, y)
    PROVE  LET a == (x \otimes Share1(c, j)) \oplus CostSetup(c, j)
               b == (y \otimes Share1(c, k)) \oplus CostSetup(c, k)
           IN a \in Fraction /\ b \in Fraction /\ Below(p, q, a, b)
<1> DEFINE u == Share1(c, j)
           v == Share1(c, k)
           fee == CostSetup(c, j)
<1>1. u \in Fraction /\ v \in Fraction /\ u \preceq v
    BY DiscountIs, ComplementIs, ComplementOrder DEF Share1
<1>2. fee \in Fraction /\ fee = CostSetup(c, k) /\ Below(p, q, fee, fee)
    BY PremiumIs, LikeJobs, BelowItself
<1> HIDE DEF u, v, fee
<1>3. x \otimes u \in Fraction /\ y \otimes v \in Fraction /\ Below(p, q, x \otimes u, y \otimes v)
    BY <1>1, TimesIs, BelowTimes
<1>4. /\ (x \otimes u) \oplus fee \in Fraction /\ (y \otimes v) \oplus fee \in Fraction
      /\ Below(p, q, (x \otimes u) \oplus fee, (y \otimes v) \oplus fee)
    BY <1>2, <1>3, BelowSum
<1> QED
    BY <1>2, <1>4 DEF u, v, fee

\* What machine and material cost does not depend on what the value is measured by.
LEMMA HybridsBelow ==
    ASSUME NEW p \in Nat \ {0}, NEW q \in Nat \ {0}, p <= q, NEW c \in Configs,
           NEW j, NEW k, Like(j, k), Scaled(j) \in Analysis, Scaled(k) \in Analysis,
           PartsBelow(p, q, Scaled(j), Scaled(k)),
           GetVolumeDiscount(c, k.quantity) \preceq GetVolumeDiscount(c, j.quantity)
    PROVE  /\ Hybrid(c, j) \in Fraction /\ Hybrid(c, k) \in Fraction
           /\ Below(p, q, Hybrid(c, j), Hybrid(c, k))
<1> DEFINE g == Scaled(j)
           h == Scaled(k)
           s == TimeEstimate(c, j, g)
           t == TimeEstimate(c, k, h)
           x == HybridPrice(c, j, g, s)
           y == HybridPrice(c, k, h, t)
<1>1. g \in Analysis /\ h \in Analysis /\ PartsBelow(p, q, g, h)
    OBVIOUS
<1>2. t = TimeEstimate(c, j, h) /\ y = HybridPrice(c, j, h, t)
    <2>1. ASSUME NEW z PROVE TimeEstimate(c, j, z) = TimeEstimate(c, k, z)
        BY LikeJobs
    <2>2. ASSUME NEW z, NEW time
          PROVE HybridPrice(c, j, z, time) = HybridPrice(c, k, z, time)
        BY LikeJobs
    <2> HIDE DEF h
    <2> QED
        BY <2>1, <2>2
<1>3. Hybrid(c, j) = (x \otimes Share1(c, j)) \oplus CostSetup(c, j)
    BY DEF Hybrid
<1>4. Hybrid(c, k) = (y \otimes Share1(c, k)) \oplus CostSetup(c, k)
    BY DEF Hybrid
<1> HIDE DEF g, h
<1>5. TimeBelow(p, q, s, t)
    BY <1>1, <1>2, TimeEstimateBelow
<1> HIDE DEF s, t
<1>6. /\ HybridPrice(c, j, g, s) \in Fraction /\ HybridPrice(c, j, h, t) \in Fraction
      /\ Below(p, q, HybridPrice(c, j, g, s), HybridPrice(c, j, h, t))
    BY <1>1, <1>5, HybridBelow
<1>7. x \in Fraction /\ y \in Fraction /\ Below(p, q, x, y)
    BY <1>2, <1>6
<1> HIDE DEF x, y
<1> QED
    BY <1>3, <1>4, <1>7, SharedOrder

LEMMA PricesBelow ==
    ASSUME NEW p \in Nat \ {0}, NEW q \in Nat \ {0}, p <= q, NEW c \in Configs,
           NEW j, NEW k, Like(j, k), Scaled(j) \in Analysis, Scaled(k) \in Analysis,
           PartsBelow(p, q, Scaled(j), Scaled(k)),
           HasEngrave(Scaled(j)) <=> HasEngrave(Scaled(k)),
           OnlyCut(Scaled(j)) <=> OnlyCut(Scaled(k)),
           GetVolumeDiscount(c, k.quantity) \preceq GetVolumeDiscount(c, j.quantity)
    PROVE  /\ Hybrid(c, j) \in Fraction /\ Hybrid(c, k) \in Fraction
           /\ Value(c, j) \in Fraction /\ Value(c, k) \in Fraction
           /\ Below(p, q, Hybrid(c, j), Hybrid(c, k))
           /\ Below(p, q, Value(c, j), Value(c, k))
<1> DEFINE g == Scaled(j)
           h == Scaled(k)
           x == ValuePrice(c, j, g)
           y == ValuePrice(c, k, h)
<1>1. /\ g \in Analysis /\ h \in Analysis /\ PartsBelow(p, q, g, h)
      /\ HasEngrave(g) <=> HasEngrave(h)
      /\ OnlyCut(g) <=> OnlyCut(h)
    OBVIOUS
<1>2. y = ValuePrice(c, j, h)
    <2>1. ASSUME NEW z, NEW time PROVE ValuePrice(c, j, z) = ValuePrice(c, k, z)
        BY LikeJobs
    <2> HIDE DEF h
    <2> QED
        BY <2>1
<1>3. Value(c, j) = (x \otimes Share1(c, j)) \oplus CostSetup(c, j)
    BY DEF Value
<1>4. Value(c, k) = (y \otimes Share1(c, k)) \oplus CostSetup(c, k)
    BY DEF Value
<1> HIDE DEF g, h
<1>5. /\ ValuePrice(c, j, g) \in Fraction /\ ValuePrice(c, j, h) \in Fraction
      /\ Below(p, q, ValuePrice(c, j, g), ValuePrice(c, j, h))
    BY <1>1, ValueBelow
<1>6. x \in Fraction /\ y \in Fraction /\ Below(p, q, x, y)
    BY <1>2, <1>5
<1> HIDE DEF x, y
<1>7. Value(c, j) \in Fraction /\ Value(c, k) \in Fraction /\ Below(p, q, Value(c, j), Value(c, k))
    BY <1>3, <1>4, <1>6, SharedOrder
<1> QED
    BY <1>7, HybridsBelow

LEMMA ScaledIs ==
    ASSUME NEW j \in Sized
    PROVE  /\ Scaled(j) \in Analysis
           /\ j.quantity \in Nat \ {0}
           /\ j.analysis \in Analysis
<1>1. j.quantity \in Nat \ {0} /\ j.analysis \in Analysis
    BY DEF Sized, Order
<1>2. Whole(j.quantity) \in Fraction
    BY <1>1, Wholes
<1>3. /\ j.analysis.cut \in Fraction /\ j.analysis.vector \in Fraction
      /\ j.analysis.raster \in Fraction /\ j.analysis.area \in Fraction
    BY <1>1 DEF Analysis
<1>4. /\ j.analysis.cut \otimes Whole(j.quantity) \in Fraction
      /\ j.analysis.vector \otimes Whole(j.quantity) \in Fraction
      /\ j.analysis.raster \otimes Whole(j.quantity) \in Fraction
      /\ j.analysis.area \otimes Whole(j.quantity) \in Fraction
    BY <1>2, <1>3, TimesIs
<1>5. Scaled(j) \in Analysis
    BY <1>4, Zeros DEF Scaled, Analysis
<1> QED
    BY <1>1, <1>5

\* Rounded, and the larger of the two.
LEMMA FinalOrder ==
    ASSUME NEW a \in Fraction, NEW b \in Fraction, NEW c \in Fraction, NEW d \in Fraction,
           a \preceq c, b \preceq d
    PROVE  Larger(Hundredths(a), Hundredths(b)) \preceq Larger(Hundredths(c), Hundredths(d))
<1> DEFINE x == Larger(Hundredths(a), Hundredths(b))
           y == Larger(Hundredths(c), Hundredths(d))
<1>1. /\ Hundredths(a) \in Fraction /\ Hundredths(b) \in Fraction
      /\ Hundredths(c) \in Fraction /\ Hundredths(d) \in Fraction
      /\ Hundredths(a) \preceq Hundredths(c) /\ Hundredths(b) \preceq Hundredths(d)
    BY HundredthsOrder
<1>2. x \in Fraction /\ y \in Fraction
    BY <1>1, LargerIs
<1>3. Below(1, 1, x, y)
    BY <1>1, BelowIsOrder, BelowLarger
<1> QED
    BY <1>2, <1>3, BelowIsOrder

-----------------------------------------------------------------------------
(***************************************************************************)
(* The orders of a behaviour: what Calculate is given is an order of one   *)
(* piece or more, results are its results, and an order is compared with   *)
(* one of the kinds that Beside names.                                     *)
(***************************************************************************)
PriceInv ==
    /\ config \in Configs /\ request \in Inquiries
    /\ job # NoJob => job \in Sized
    /\ result # NoResult => job # NoJob /\ result = Calculate(config, job)
    /\ job = NoJob => before = NoResult
    /\ before # NoResult =>
        /\ before.job \in Sized /\ before.price = Calculate(config, before.job)
        /\ job \in Beside(before.job)

LEMMA SizedIsJob == \A j \in Sized : j # NoJob
<1> SUFFICES ASSUME NEW j \in Sized, j = NoJob PROVE FALSE
    OBVIOUS
<1>1. "tech" \in DOMAIN j
    BY DEF Sized, Order
<1>2. DOMAIN j = {}
    BY DEF NoJob
<1> QED
    BY <1>1, <1>2

LEMMA MorePieces ==
    ASSUME NEW j \in Sized, NEW n \in Nat, n > j.quantity
    PROVE  [j EXCEPT !.quantity = n] \in Sized
    BY DEF Sized, Order

LEMMA MoreParts ==
    ASSUME NEW j \in Sized, NEW part \in {"cut", "vector", "raster"}
    PROVE  [j EXCEPT !.analysis[part] = @ \oplus MoreWork] \in Sized
<1>1. j.analysis \in Analysis
    BY DEF Sized, Order
<1>2. /\ j.analysis.cut \oplus MoreWork \in Fraction
      /\ j.analysis.vector \oplus MoreWork \in Fraction
      /\ j.analysis.raster \oplus MoreWork \in Fraction
    BY <1>1, ComparisonAssumption, PlusIs DEF Analysis
<1>3. [j.analysis EXCEPT ![part] = @ \oplus MoreWork] \in Analysis
    BY <1>1, <1>2 DEF Analysis
<1> QED
    BY <1>3 DEF Sized, Order

LEMMA BesideIs ==
    ASSUME NEW j \in Sized, NEW k \in Beside(j)
    PROVE  /\ k \in Sized
           /\ \/ \E n \in Quantities : n > j.quantity /\ k = [j EXCEPT !.quantity = n]
              \/ \E part \in {"cut", "vector", "raster"} :
                    k = [j EXCEPT !.analysis[part] = @ \oplus MoreWork]
<1>1. \/ \E n \in Quantities : n > j.quantity /\ k = [j EXCEPT !.quantity = n]
      \/ \E part \in {"cut", "vector", "raster"} :
            k = [j EXCEPT !.analysis[part] = @ \oplus MoreWork]
    BY DEF Beside
<1>2. CASE \E n \in Quantities : n > j.quantity /\ k = [j EXCEPT !.quantity = n]
    BY <1>1, <1>2, MorePieces, ComparisonAssumption
<1>3. CASE \E part \in {"cut", "vector", "raster"} :
            k = [j EXCEPT !.analysis[part] = @ \oplus MoreWork]
    BY <1>1, <1>3, MoreParts
<1> QED
    BY <1>1, <1>2, <1>3

LEMMA SyntheticIs ==
    ASSUME NEW alto \in Nat, NEW ancho \in Nat, NEW incluyeCorte \in BOOLEAN, NEW type \in Nat
    PROVE  BuildSyntheticAnalysis(alto, ancho, incluyeCorte, type) \in Analysis
<1>1. 2 * (alto + ancho) \in Nat /\ alto * ancho \in Nat
    OBVIOUS
<1>2. Whole(2 * (alto + ancho)) \in Fraction /\ Whole(alto * ancho) \in Fraction
    BY <1>1, Wholes
<1> QED
    BY <1>2, Zeros DEF BuildSyntheticAnalysis, Analysis

LEMMA PortalJob ==
    ASSUME NEW r \in Inquiries, r.channel = "portal"
    PROVE  JobOf(r) \in Sized
<1>1. r.job \in Order
    BY InquiriesAssumption
<1>2. JobOf(r) = [r.job EXCEPT !.quantity = AtLeastOne(@)]
    BY DEF JobOf
<1>3. AtLeastOne(r.job.quantity) \in Int /\ AtLeastOne(r.job.quantity) >= 1
    BY <1>1 DEF AtLeastOne, Order
<1> QED
    BY <1>1, <1>2, <1>3 DEF Sized, Order

LEMMA EstimateJob ==
    ASSUME NEW r \in Inquiries, r.channel \in {"bot", "assistant"}, {r.alto, r.ancho} \subseteq 1 .. 100
    PROVE  JobOf(r) \in Sized
<1>1. r.job \in Order /\ r.incluyeCorte \in BOOLEAN
    <2>1. r \notin [channel : {"portal"}, job : Order]
        OBVIOUS
    <2> QED
        BY <2>1, InquiriesAssumption
<1> DEFINE type == IF r.job.engraveType = NoEngraving /\ ~r.incluyeCorte
                   THEN Vectorial ELSE r.job.engraveType
           analysis == BuildSyntheticAnalysis(10 * r.alto, 10 * r.ancho, r.incluyeCorte, type)
           quantity == AtLeastOne(r.job.quantity)
           thickness == IF r.job.thickness <= 0 THEN 3000 ELSE r.job.thickness
           cutTech == IF r.channel = "assistant" /\ r.job.cutTech <= 0 THEN NoTech
                      ELSE r.job.cutTech
           ignoreCut == r.job.ignoreCut /\ r.channel = "bot"
<1>2. type \in Nat
    BY <1>1 DEF Order, Vectorial
<1>3. analysis \in Analysis
    <2>1. 10 * r.alto \in Nat /\ 10 * r.ancho \in Nat
        OBVIOUS
    <2> HIDE DEF type
    <2> QED
        BY <2>1, <1>1, <1>2, SyntheticIs
<1>4. quantity \in Int /\ quantity >= 1
    BY <1>1 DEF AtLeastOne, Order
<1>5. thickness \in Int
    BY <1>1 DEF Order
<1>6. ignoreCut \in BOOLEAN
    OBVIOUS
<1>8. cutTech \in Nat \cup {NoTech}
    BY <1>1 DEF Order
<1>7. JobOf(r) = [r.job EXCEPT !.analysis = analysis, !.engraveType = type, !.quantity = quantity,
                               !.thickness = thickness, !.cutTech = cutTech,
                               !.ignoreCut = ignoreCut]
    BY <1>1 DEF JobOf, Order
<1> HIDE DEF type, analysis, quantity, thickness, cutTech, ignoreCut
<1> QED
    BY <1>1, <1>2, <1>3, <1>4, <1>5, <1>6, <1>7, <1>8 DEF Sized, Order

LEMMA NothingOrdered == PricingInit => PriceInv
    BY DEF PricingInit, PriceInv

LEMMA PriceInvKept == PriceInv /\ [PricingNext]_pricingVars => PriceInv'
<1> SUFFICES ASSUME PriceInv, [PricingNext]_pricingVars PROVE PriceInv'
    OBVIOUS
<1>1. ASSUME NEW why, Refuse(why) PROVE PriceInv'
    BY <1>1 DEF Refuse, PriceInv
<1>2. ASSUME NEW asked, job = NoJob, asked \in Sized, Accept(asked) PROVE PriceInv'
    <2>1. before = NoResult /\ result = NoResult
        BY <1>2 DEF PriceInv
    <2> QED
        BY <1>2, <2>1, SizedIsJob DEF Accept, PriceInv
<1>3. CASE CalculatePrice
    <2>1. job = NoJob /\ JobOf(request) \in Sized
        BY <1>3, PortalJob DEF CalculatePrice, Asked, PriceInv
    <2> QED
        BY <1>3, <2>1, <1>1, <1>2 DEF CalculatePrice
<1>4. CASE HandleEstimate \/ ExecCalcularCotizacion
    <2>1. job = NoJob /\ request \in Inquiries /\ request.channel \in {"bot", "assistant"} /\ Estimate
        BY <1>4 DEF HandleEstimate, ExecCalcularCotizacion, Asked, PriceInv
    <2>2. CASE {request.alto, request.ancho} \subseteq 1 .. 100
        <3>1. JobOf(request) \in Sized
            BY <2>1, <2>2, EstimateJob
        <3> QED
            BY <2>1, <3>1, <1>1, <1>2 DEF Estimate
    <2>3. CASE ~({request.alto, request.ancho} \subseteq 1 .. 100)
        BY <2>1, <2>3, <1>1 DEF Estimate
    <2> QED
        BY <2>2, <2>3
<1>5. CASE Price
    BY <1>5 DEF Price, PriceInv
<1>6. CASE OrderAgain
    <2>1. /\ job \in Sized /\ result = Calculate(config, job)
          /\ before' = [job |-> job, price |-> result] /\ job' \in Beside(job)
          /\ result' = NoResult /\ config' = config /\ request' = request
        BY <1>6 DEF OrderAgain, PriceInv
    <2>2. job' \in Sized /\ job' # NoJob
        BY <2>1, BesideIs, SizedIsJob
    <2>3. before'.job = job /\ before'.price = Calculate(config, job)
        BY <2>1
    <2> QED
        BY <2>1, <2>2, <2>3 DEF PriceInv
<1>7. CASE UNCHANGED pricingVars
    BY <1>7 DEF pricingVars, PriceInv
<1> QED
    BY <1>3, <1>4, <1>5, <1>6, <1>7 DEF PricingNext

LEMMA OrdersArePriced == PricingSpec => []PriceInv
    BY NothingOrdered, PriceInvKept, PTL DEF PricingSpec

LEMMA PlusMore ==
    ASSUME NEW x \in Fraction, NEW y \in Fraction
    PROVE  x \preceq x \oplus y
<1> DEFINE r == x \oplus y
<1>0. x[1] \in Nat /\ x[2] \in Nat \ {0} /\ y[1] \in Nat /\ y[2] \in Nat \ {0}
    BY DEF Fraction
<1>1. r \in Fraction /\ r[1] * (x[2] * y[2]) = r[2] * (x[1] * y[2] + y[1] * x[2])
    BY PlusIs
<1> HIDE DEF r
<1>2. r[1] \in Nat /\ r[2] \in Nat \ {0}
    BY <1>1 DEF Fraction
<1>3. (r[1] * x[2]) * y[2] = (x[1] * r[2]) * y[2] + r[2] * (y[1] * x[2])
    <2>1. (r[1] * x[2]) * y[2] = r[1] * (x[2] * y[2])
        BY <1>0, <1>2
    <2>2. r[2] * (x[1] * y[2] + y[1] * x[2]) = (x[1] * r[2]) * y[2] + r[2] * (y[1] * x[2])
        BY <1>0, <1>2
    <2> QED
        BY <2>1, <2>2, <1>1
<1>4. (x[1] * r[2]) * y[2] <= (r[1] * x[2]) * y[2]
    <2>1. (x[1] * r[2]) * y[2] \in Int /\ r[2] * (y[1] * x[2]) \in Nat
        BY <1>0, <1>2
    <2> QED
        BY <2>1, <1>3
<1>5. x[1] * r[2] \in Int /\ r[1] * x[2] \in Int
    BY <1>0, <1>2
<1> QED
    BY <1>0, <1>1, <1>4, <1>5, CancelOrder, OrderIs DEF r

\* What decides how the value of the work is measured.
LEMMA KindIs ==
    ASSUME NEW g, NEW h, Kind(g) = Kind(h)
    PROVE  /\ HasEngrave(g) <=> HasEngrave(h)
           /\ OnlyCut(g) <=> OnlyCut(h)
    BY DEF Kind, OnlyCut

\* A longer cut, a longer line or a larger area, for all the pieces.
LEMMA MoreGeometry ==
    ASSUME NEW j \in Sized, NEW part \in {"cut", "vector", "raster"}, NEW k,
           k = [j EXCEPT !.analysis[part] = @ \oplus MoreWork]
    PROVE  Like(j, k) /\ k.quantity = j.quantity /\ PartsBelow(1, 1, Scaled(j), Scaled(k))
<1> DEFINE a == j.analysis
           b == [a EXCEPT ![part] = @ \oplus MoreWork]
           q == Whole(j.quantity)
<1>1. a \in Analysis /\ q \in Fraction
    BY ScaledIs, Wholes
<1>2. k.analysis = b /\ k.quantity = j.quantity /\ k.ignoreCut = j.ignoreCut /\ Like(j, k)
    BY DEF Sized, Order, Like
<1>3. /\ a.cut \in Fraction /\ a.vector \in Fraction /\ a.raster \in Fraction /\ a.area \in Fraction
    BY <1>1 DEF Analysis
<1> HIDE DEF a, q
<1>4. /\ b.cut \in {a.cut, a.cut \oplus MoreWork} /\ b.vector \in {a.vector, a.vector \oplus MoreWork}
      /\ b.raster \in {a.raster, a.raster \oplus MoreWork} /\ b.area = a.area
    BY <1>1 DEF Analysis
<1> HIDE DEF b
<1>5. ASSUME NEW x \in Fraction, NEW y \in {x, x \oplus MoreWork}
      PROVE  /\ x \otimes q \in Fraction /\ y \otimes q \in Fraction
             /\ Below(1, 1, x \otimes q, y \otimes q)
    <2>1. y \in Fraction
        BY <1>5, ComparisonAssumption, PlusIs
    <2>2. x \preceq y
        BY <1>5, ComparisonAssumption, PlusMore, OrderTotal
    <2>3. Below(1, 1, x, y)
        BY <2>1, <2>2, BelowIsOrder
    <2> QED
        BY <1>1, <2>1, <2>3, BelowScaled
<1>6. Below(1, 1, a.cut \otimes q, b.cut \otimes q)
    BY <1>3, <1>4, <1>5
<1>7. Below(1, 1, a.vector \otimes q, b.vector \otimes q)
    BY <1>3, <1>4, <1>5
<1>8. Below(1, 1, a.raster \otimes q, b.raster \otimes q)
    BY <1>3, <1>4, <1>5
<1>9. Below(1, 1, a.area \otimes q, b.area \otimes q)
    BY <1>3, <1>4, <1>5
<1>10. Below(1, 1, Zero, Zero)
    BY Zeros, BelowNothing
<1>11. Scaled(j) = [cut |-> IF j.ignoreCut THEN Zero ELSE a.cut \otimes q,
                    vector |-> a.vector \otimes q, raster |-> a.raster \otimes q,
                    area |-> a.area \otimes q]
    BY DEF Scaled, a, q
<1>12. Scaled(k) = [cut |-> IF j.ignoreCut THEN Zero ELSE b.cut \otimes q,
                    vector |-> b.vector \otimes q, raster |-> b.raster \otimes q,
                    area |-> b.area \otimes q]
    <2>1. Scaled(k) = [cut |-> IF k.ignoreCut THEN Zero ELSE k.analysis.cut \otimes Whole(k.quantity),
                       vector |-> k.analysis.vector \otimes Whole(k.quantity),
                       raster |-> k.analysis.raster \otimes Whole(k.quantity),
                       area |-> k.analysis.area \otimes Whole(k.quantity)]
        BY DEF Scaled
    <2>2. Whole(k.quantity) = q
        BY <1>2 DEF q
    <2> QED
        BY <1>2, <2>1, <2>2
<1> QED
    BY <1>2, <1>6, <1>7, <1>8, <1>9, <1>10, <1>11, <1>12 DEF PartsBelow

\* Nothing is less than itself.
LEMMA SameParts ==
    ASSUME NEW g \in Analysis
    PROVE  PartsBelow(1, 1, g, g)
<1>1. g.cut \in Fraction /\ g.vector \in Fraction /\ g.raster \in Fraction /\ g.area \in Fraction
    BY DEF Analysis
<1>2. \A x \in Fraction : Below(1, 1, x, x)
    BY BelowIsOrder, OrderTotal
<1> QED
    BY <1>1, <1>2 DEF PartsBelow

\* An order of as many pieces, beside another, has more work on each.
LEMMA MoreWorkIs ==
    ASSUME NEW j \in Sized, NEW k \in Beside(j), k.quantity = j.quantity
    PROVE  Like(j, k) /\ PartsBelow(1, 1, Scaled(j), Scaled(k))
<1>1. CASE \E n \in Quantities : n > j.quantity /\ k = [j EXCEPT !.quantity = n]
    <2>1. PICK n \in Quantities : n > j.quantity /\ k = [j EXCEPT !.quantity = n]
        BY <1>1
    <2>2. k.quantity = n /\ n \in Nat /\ j.quantity \in Nat
        BY <2>1, ComparisonAssumption DEF Sized, Order
    <2> QED
        BY <2>1, <2>2
<1>2. CASE \E part \in {"cut", "vector", "raster"} :
              k = [j EXCEPT !.analysis[part] = @ \oplus MoreWork]
    BY <1>2, MoreGeometry
<1> QED
    BY <1>1, <1>2, BesideIs

(***************************************************************************)
(* A longer cut, a longer line or a larger area never makes an order       *)
(* cheaper, while the value of its work is measured as it was              *)
(* (calculator.go:260-305), for any configuration and drawing.             *)
(***************************************************************************)
THEOREM MoreWorkIsNoCheaper == PricingSpec => []MoreWorkCostsMore
<1>1. PriceInv => MoreWorkCostsMore
    <2> SUFFICES ASSUME PriceInv, Compared, job.quantity = before.job.quantity,
                        Kind(Scaled(job)) = Kind(Scaled(before.job))
                 PROVE  before.price.final \preceq result.final
        BY DEF MoreWorkCostsMore
    <2> DEFINE j == before.job
               k == job
               c == config
    <2>1. /\ j \in Sized /\ before.price = Calculate(c, j) /\ k \in Beside(j)
          /\ result = Calculate(c, k) /\ c \in Configs
        BY DEF PriceInv, Compared, Priced
    <2>2. k.quantity = j.quantity /\ Kind(Scaled(k)) = Kind(Scaled(j))
        OBVIOUS
    <2>3. ASSUME Calculate(c, j).final \preceq Calculate(c, k).final
          PROVE  before.price.final \preceq result.final
        BY <2>1, <2>3
    <2> HIDE DEF j, k, c
    <2>4. k \in Sized /\ j.quantity \in Nat
        BY <2>1, BesideIs, ScaledIs
    <2>5. Scaled(j) \in Analysis /\ Scaled(k) \in Analysis
        BY <2>1, <2>4, ScaledIs
    <2>6. Like(j, k) /\ PartsBelow(1, 1, Scaled(j), Scaled(k))
        BY <2>1, <2>2, MoreWorkIs
    <2>7. /\ HasEngrave(Scaled(j)) <=> HasEngrave(Scaled(k))
          /\ OnlyCut(Scaled(j)) <=> OnlyCut(Scaled(k))
        BY <2>2, KindIs
    <2>8. GetVolumeDiscount(c, k.quantity) \preceq GetVolumeDiscount(c, j.quantity)
        BY <2>1, <2>2, DiscountIs, OrderTotal DEF Share
    <2> DEFINE p == 1
    <2>9. p \in Nat \ {0} /\ p <= p /\ PartsBelow(p, p, Scaled(j), Scaled(k))
        BY <2>6
    <2>10. /\ Hybrid(c, j) \in Fraction /\ Hybrid(c, k) \in Fraction
           /\ Value(c, j) \in Fraction /\ Value(c, k) \in Fraction
           /\ Below(p, p, Hybrid(c, j), Hybrid(c, k))
           /\ Below(p, p, Value(c, j), Value(c, k))
        <3> HIDE DEF p
        <3> QED
            BY <2>1, <2>5, <2>6, <2>7, <2>8, <2>9, PricesBelow
    <2>11. Hybrid(c, j) \preceq Hybrid(c, k) /\ Value(c, j) \preceq Value(c, k)
        BY <2>10, BelowIsOrder
    <2>12. Calculate(c, j).final \preceq Calculate(c, k).final
        <3>1. Larger(Hundredths(Hybrid(c, j)), Hundredths(Value(c, j)))
                \preceq Larger(Hundredths(Hybrid(c, k)), Hundredths(Value(c, k)))
            BY <2>10, <2>11, FinalOrder
        <3> QED
            BY <3>1, CalculateIs
    <2> QED
        BY <2>3, <2>12
<1> QED
    BY <1>1, OrdersArePriced, PTL

(***************************************************************************)
(* Whatever is added to a drawing, though it changes what the value is     *)
(* measured by, the order is charged no less than its machine, material    *)
(* and setup were without it (calculator.go:308), for any configuration    *)
(* and drawing.                                                            *)
(***************************************************************************)
THEOREM FloorIsKept == PricingSpec => []PriceFloor
<1>1. PriceInv => PriceFloor
    <2> SUFFICES ASSUME PriceInv, Compared, job.quantity = before.job.quantity
                 PROVE  before.price.hybridTotal \preceq result.final
        BY DEF PriceFloor
    <2> DEFINE j == before.job
               k == job
               c == config
               p == 1
    <2>1. /\ j \in Sized /\ before.price = Calculate(c, j) /\ k \in Beside(j)
          /\ result = Calculate(c, k) /\ c \in Configs
        BY DEF PriceInv, Compared, Priced
    <2>2. k.quantity = j.quantity
        OBVIOUS
    <2>3. ASSUME Calculate(c, j).hybridTotal \preceq Calculate(c, k).final
          PROVE  before.price.hybridTotal \preceq result.final
        BY <2>1, <2>3
    <2> HIDE DEF j, k, c
    <2>4. /\ k \in Sized /\ Scaled(j) \in Analysis /\ Scaled(k) \in Analysis
        BY <2>1, BesideIs, ScaledIs
    <2>5. p \in Nat \ {0} /\ p <= p /\ Like(j, k) /\ PartsBelow(p, p, Scaled(j), Scaled(k))
        BY <2>1, <2>2, MoreWorkIs
    <2>6. GetVolumeDiscount(c, k.quantity) \preceq GetVolumeDiscount(c, j.quantity)
        BY <2>1, <2>2, DiscountIs, OrderTotal DEF Share
    <2>7. /\ Hybrid(c, j) \in Fraction /\ Hybrid(c, k) \in Fraction
          /\ Below(p, p, Hybrid(c, j), Hybrid(c, k))
        <3> HIDE DEF p
        <3> QED
            BY <2>1, <2>4, <2>5, <2>6, HybridsBelow
    <2>8. Hybrid(c, j) \preceq Hybrid(c, k)
        BY <2>7, BelowIsOrder
    <2>9. Hundredths(Hybrid(c, j)) \preceq Calculate(c, k).final
        <3>1. Value(c, k) \in Fraction
            <4>1. PartsBelow(p, p, Scaled(k), Scaled(k)) /\ Like(k, k)
                BY <2>4, SameParts DEF Like
            <4>2. GetVolumeDiscount(c, k.quantity) \preceq GetVolumeDiscount(c, k.quantity)
                BY <2>1, DiscountIs, OrderTotal DEF Share
            <4> HIDE DEF p
            <4> QED
                BY <2>1, <2>4, <2>5, <4>1, <4>2, PricesBelow
        <3>2. /\ Hundredths(Hybrid(c, j)) \preceq Hundredths(Hybrid(c, k))
              /\ Hundredths(Hybrid(c, j)) \in Fraction /\ Hundredths(Hybrid(c, k)) \in Fraction
              /\ Hundredths(Value(c, k)) \in Fraction
            <4>1. \A x \in Fraction : Hundredths(x) \in Fraction
                BY HundredthsOrder, OrderTotal
            <4> QED
                BY <2>7, <2>8, <3>1, <4>1, HundredthsOrder
        <3>3. Hundredths(Hybrid(c, j))
                \preceq Larger(Hundredths(Hybrid(c, k)), Hundredths(Value(c, k)))
            BY <3>2, LargerIs, BelowIsOrder, OrderThrough
        <3> QED
            BY <3>3, CalculateIs
    <2> QED
        BY <2>3, <2>9, CalculateIs
<1> QED
    BY <1>1, OrdersArePriced, PTL

\* More pieces of the same drawing: of every part, as much for each piece.
LEMMA PiecesGeometry ==
    ASSUME NEW j \in Sized, NEW k \in Sized, Like(j, k),
           j.analysis = k.analysis, j.ignoreCut = k.ignoreCut
    PROVE  /\ PartsBelow(k.quantity, j.quantity, Scaled(j), Scaled(k))
           /\ HasEngrave(Scaled(j)) <=> HasEngrave(Scaled(k))
           /\ OnlyCut(Scaled(j)) <=> OnlyCut(Scaled(k))
<1> DEFINE a == j.analysis
           m == k.quantity
           n == j.quantity
           g == Scaled(j)
           h == Scaled(k)
<1>1. /\ a \in Analysis /\ m \in Nat \ {0} /\ n \in Nat \ {0}
    BY ScaledIs
<1>2. /\ a.cut \in Fraction /\ a.vector \in Fraction /\ a.raster \in Fraction /\ a.area \in Fraction
    BY <1>1 DEF Analysis
<1>3. /\ g = [cut |-> IF j.ignoreCut THEN Zero ELSE a.cut \otimes Whole(n),
              vector |-> a.vector \otimes Whole(n), raster |-> a.raster \otimes Whole(n),
              area |-> a.area \otimes Whole(n)]
      /\ h = [cut |-> IF k.ignoreCut THEN Zero ELSE k.analysis.cut \otimes Whole(m),
              vector |-> k.analysis.vector \otimes Whole(m),
              raster |-> k.analysis.raster \otimes Whole(m),
              area |-> k.analysis.area \otimes Whole(m)]
    BY DEF Scaled
<1>4. k.analysis = a /\ k.ignoreCut = j.ignoreCut
    OBVIOUS
<1> HIDE DEF a, m, n, g, h
<1>5. /\ g.cut = IF j.ignoreCut THEN Zero ELSE a.cut \otimes Whole(n)
      /\ g.vector = a.vector \otimes Whole(n) /\ g.raster = a.raster \otimes Whole(n)
      /\ g.area = a.area \otimes Whole(n)
      /\ h.cut = IF j.ignoreCut THEN Zero ELSE a.cut \otimes Whole(m)
      /\ h.vector = a.vector \otimes Whole(m) /\ h.raster = a.raster \otimes Whole(m)
      /\ h.area = a.area \otimes Whole(m)
    BY <1>3, <1>4
<1>6. ASSUME NEW x \in Fraction
      PROVE  /\ Below(m, n, x \otimes Whole(n), x \otimes Whole(m))
             /\ Positive(x \otimes Whole(n)) <=> Positive(x \otimes Whole(m))
    <2>1. Below(m, n, x \otimes Whole(n), x \otimes Whole(m))
        BY <1>1, BelowPieces
    <2>2. /\ Whole(n) \in Fraction /\ Positive(Whole(n))
          /\ Whole(m) \in Fraction /\ Positive(Whole(m))
        BY <1>1, Wholes DEF Positive
    <2>3. Positive(x \otimes Whole(n)) <=> Positive(x)
        BY <2>2, PositiveIs
    <2>4. Positive(x \otimes Whole(m)) <=> Positive(x)
        BY <2>2, PositiveIs
    <2> QED
        BY <2>1, <2>3, <2>4
<1>7. Below(m, n, Zero, Zero)
    BY <1>1, Zeros, BelowNothing
<1>8. PartsBelow(m, n, g, h)
    <2>1. Below(m, n, g.cut, h.cut)
        BY <1>2, <1>5, <1>6, <1>7
    <2>2. Below(m, n, g.vector, h.vector) /\ Below(m, n, g.raster, h.raster) /\ Below(m, n, g.area, h.area)
        BY <1>2, <1>5, <1>6
    <2> QED
        BY <2>1, <2>2 DEF PartsBelow
<1>9. /\ Positive(g.vector) <=> Positive(h.vector)
      /\ Positive(g.raster) <=> Positive(h.raster)
    BY <1>2, <1>5, <1>6
<1>10. Positive(g.cut) <=> Positive(h.cut)
    BY <1>2, <1>5, <1>6
<1>11. /\ HasEngrave(g) <=> HasEngrave(h)
       /\ OnlyCut(g) <=> OnlyCut(h)
    BY <1>9, <1>10 DEF HasEngrave, OnlyCut
<1> QED
    BY <1>8, <1>11 DEF g, h, m, n

\* What one piece is charged, in the two orders.
LEMMA UnitOrder ==
    ASSUME NEW p \in Nat \ {0}, NEW q \in Nat \ {0},
           NEW a \in Fraction, NEW b \in Fraction, NEW c \in Fraction, NEW d \in Fraction,
           Below(p, q, a, c), Below(p, q, b, d)
    PROVE  Larger(Hundredths(a \oslash Whole(q)), Hundredths(b \oslash Whole(q)))
             \preceq Larger(Hundredths(c \oslash Whole(p)), Hundredths(d \oslash Whole(p)))
<1>1. /\ a \oslash Whole(q) \in Fraction /\ c \oslash Whole(p) \in Fraction
      /\ a \oslash Whole(q) \preceq c \oslash Whole(p)
    BY OfOnePiece
<1>2. /\ b \oslash Whole(q) \in Fraction /\ d \oslash Whole(p) \in Fraction
      /\ b \oslash Whole(q) \preceq d \oslash Whole(p)
    BY OfOnePiece
<1> QED
    BY <1>1, <1>2, FinalOrder

(***************************************************************************)
(* Of a larger order no piece is dearer (calculator.go:106-305), for any   *)
(* configuration whose brackets of discounts have no gaps, any drawing and *)
(* any two quantities.                                                     *)
(***************************************************************************)
THEOREM MorePiecesAreNoDearer == PricingSpec => []UnitPriceNeverRises
<1>1. PriceInv => UnitPriceNeverRises
    <2> SUFFICES ASSUME PriceInv, Compared, Graduated(config.volumeDiscounts),
                        job.quantity > before.job.quantity
                 PROVE  UnitPrice(result) \preceq UnitPrice(before.price)
        BY DEF UnitPriceNeverRises
    <2> DEFINE j == job
               k == before.job
               c == config
               p == k.quantity
               q == j.quantity
    <2>1. /\ k \in Sized /\ before.price = Calculate(c, k) /\ j \in Beside(k)
          /\ result = Calculate(c, j) /\ c \in Configs /\ Graduated(c.volumeDiscounts)
        BY DEF PriceInv, Compared, Priced
    <2>2. q > p
        OBVIOUS
    <2>3. ASSUME UnitPrice(Calculate(c, j)) \preceq UnitPrice(Calculate(c, k))
          PROVE  UnitPrice(result) \preceq UnitPrice(before.price)
        BY <2>1, <2>3
    <2> HIDE DEF j, k, c
    <2>4. j \in Sized /\ p \in Nat \ {0} /\ q \in Nat \ {0} /\ p <= q
        <3>1. j \in Sized
            BY <2>1, BesideIs
        <3>2. p \in Nat \ {0} /\ q \in Nat \ {0}
            BY <2>1, <3>1, ScaledIs
        <3> QED
            BY <2>2, <3>1, <3>2
    <2>5. Like(j, k) /\ j.analysis = k.analysis /\ j.ignoreCut = k.ignoreCut
        <3>1. CASE \E n \in Quantities : n > k.quantity /\ j = [k EXCEPT !.quantity = n]
            BY <2>1, <3>1 DEF Sized, Order, Like
        <3>2. CASE \E part \in {"cut", "vector", "raster"} :
                      j = [k EXCEPT !.analysis[part] = @ \oplus MoreWork]
            <4>1. j.quantity = k.quantity
                BY <2>1, <3>2, MoreGeometry
            <4> QED
                BY <2>2, <2>4, <4>1
        <3> QED
            BY <2>1, <3>1, <3>2, BesideIs
    <2>6. /\ PartsBelow(p, q, Scaled(j), Scaled(k))
          /\ HasEngrave(Scaled(j)) <=> HasEngrave(Scaled(k))
          /\ OnlyCut(Scaled(j)) <=> OnlyCut(Scaled(k))
        BY <2>1, <2>4, <2>5, PiecesGeometry
    <2>7. Scaled(j) \in Analysis /\ Scaled(k) \in Analysis
        BY <2>1, <2>4, ScaledIs
    <2>8. GetVolumeDiscount(c, k.quantity) \preceq GetVolumeDiscount(c, j.quantity)
        BY <2>1, <2>4, DiscountsGrow
    <2>9. /\ Hybrid(c, j) \in Fraction /\ Hybrid(c, k) \in Fraction
          /\ Value(c, j) \in Fraction /\ Value(c, k) \in Fraction
          /\ Below(p, q, Hybrid(c, j), Hybrid(c, k))
          /\ Below(p, q, Value(c, j), Value(c, k))
        <3> HIDE DEF p, q
        <3> QED
            BY <2>1, <2>4, <2>5, <2>6, <2>7, <2>8, PricesBelow
    <2>10. Larger(Hundredths(Hybrid(c, j) \oslash Whole(q)), Hundredths(Value(c, j) \oslash Whole(q)))
             \preceq Larger(Hundredths(Hybrid(c, k) \oslash Whole(p)),
                            Hundredths(Value(c, k) \oslash Whole(p)))
        <3> HIDE DEF p, q
        <3> QED
            BY <2>4, <2>9, UnitOrder
    <2>11. UnitPrice(Calculate(c, j)) \preceq UnitPrice(Calculate(c, k))
        BY <2>10, CalculateIs DEF UnitPrice
    <2> QED
        BY <2>3, <2>11
<1> QED
    BY <1>1, OrdersArePriced, PTL

-----------------------------------------------------------------------------
(***************************************************************************)
(* Catalogue.  First the columns that the proofs ask about.                *)
(***************************************************************************)

USE BreakTablesAssumption, BoundsAssumption

LEMMA RateColumns ==
    /\ "tech_rates" \in Tables
    /\ {"engrave_rate_hour", "overhead_rate_hour"} \subseteq FormOf("tech_rates")
    /\ {"engrave_rate_hour", "overhead_rate_hour", "cost_per_min_engrave", "loose"}
            \subseteq Columns("tech_rates")
    /\ Updates["tech_rates"].forced = {"setup_fee"} /\ "loose" \notin Editable("tech_rates")
    BY DEF Tables, Updates, Creates, CreateTechRate, UpdateTechRate, FormOf, Columns, Editable,
           Others

LEMMA CostColumns ==
    /\ "material_costs" \in Tables
    /\ {"sheet", "cost_per_mm2"} \subseteq FormOf("material_costs")
    /\ {"sheet", "cost_per_mm2", "loose"} \subseteq Columns("material_costs")
    /\ Updates["material_costs"].forced = {} /\ "loose" \notin Editable("material_costs")
    BY DEF Tables, Updates, Creates, CreateMaterialCost, UpdateMaterialCost, FormOf, Columns,
           Editable, Others

\* The columns of the two costs, and loose, are no others' columns.
LEMMA OnlyColumns ==
    ASSUME NEW t \in Tables
    PROVE  /\ "cost_per_min_engrave" \in Columns(t) => t = "tech_rates"
           /\ "cost_per_mm2" \in Columns(t) => t = "material_costs"
    BY DEF Tables, Updates, Creates, FormOf, Columns, Editable, Others,
           CreateTechnology, UpdateTechnology, CreateMaterial, UpdateMaterial,
           CreateEngraveType, UpdateEngraveType, CreateTechRate, UpdateTechRate,
           CreateVolumeDiscount, UpdateVolumeDiscount,
           CreatePriceReference, UpdatePriceReference, CreateMaterialCost, UpdateMaterialCost,
           CreateTechMaterialSpeed, UpdateTechMaterialSpeed, CreateSystemConfig,
           UpdateSystemConfig, CreateBlank, UpdateBlank, UpdateQuote

LEMMA BlankColumns ==
    {"base_price", "price_breaks"} \subseteq Columns("blanks")
    BY DEF Updates, Creates, CreateBlank, UpdateBlank, FormOf, Columns, Editable

\* The tables that rows are created in.
LEMMA Created == DOMAIN Creates \subseteq Tables
    BY DEF Tables, Updates, Creates

-----------------------------------------------------------------------------
\* What the handlers make of a row is a row.

LEMMA SetColumn ==
    ASSUME NEW t, NEW u \in RowOf(t), NEW c, NEW v,
           c \in Columns(t) => v \in Int,
           c = "price_breaks" => v \in Values
    PROVE  [u EXCEPT ![c] = v] \in RowOf(t)
    BY DEF RowOf

LEMMA MergedRow ==
    ASSUME NEW t \in Tables, NEW u \in RowOf(t), NEW form \in UpdateForms[t]
    PROVE  Merged(t, u, form) \in RowOf(t)
<1>1. PICK S \in SUBSET Editable(t) :
        form \in [S -> 0 .. 3] /\ \A c \in S : form[c] \in ColumnValues(c)
    BY DEF UpdateForms
<1>2. u \in [Columns(t) -> Int] /\ ("price_breaks" \in Columns(t) => u["price_breaks"] \in Values)
    BY DEF RowOf
<1> DEFINE sets == {c \in DOMAIN form : form[c] # 0 \/ c \notin Updates[t].nonzero}
           others == CostInputs(t) \union {CostColumn(t)}
<1>3. \A c \in sets : form[c] \in Int /\ (c = "price_breaks" => form[c] \in Values)
    BY <1>1 DEF ColumnValues
<1>4. Merged(t, u, form) = [c \in Columns(t) |->
        IF c \in sets THEN form[c]
        ELSE IF c \in Updates[t].forced THEN 0
        ELSE IF c = "loose" /\ sets \intersect others # {} THEN 1 ELSE u[c]]
    BY <1>2 DEF Merged
<1> HIDE DEF sets, others
<1> QED
    BY <1>2, <1>3, <1>4 DEF RowOf, Values

\* A form that creates a row of table t.
IsForm(t, form) == form \in [FormOf(t) -> 0 .. 3] /\ \A c \in FormOf(t) : form[c] \in ColumnValues(c)

LEMMA NewRowForm ==
    ASSUME NEW t \in DOMAIN Creates, NEW u \in NewRows[t]
    PROVE  \E form : IsForm(t, form) /\ u = Inserted(t, Filled(t, form))
<1>1. NewRows[t] = {Inserted(t, Filled(t, form)) : form \in CreateForms[t]}
    BY DEF NewRows
<1>2. PICK form \in CreateForms[t] : u = Inserted(t, Filled(t, form))
    BY <1>1
<1>3. IsForm(t, form)
    BY <1>2 DEF CreateForms, IsForm
<1> QED
    BY <1>2, <1>3

LEMMA FilledRow ==
    ASSUME NEW t \in DOMAIN Creates, NEW form, IsForm(t, form)
    PROVE  Filled(t, form) \in RowOf(t) /\ Inserted(t, Filled(t, form)) \in RowOf(t)
<1>1. t \in Tables
    BY Created
<1>2. ASSUME NEW c \in Columns(t)
      PROVE  /\ Filled(t, form)[c] \in Int
             /\ c = "price_breaks" => Filled(t, form)[c] \in Values
    <2>1. CASE c = "cost_per_min_engrave"
        <3>1. t = "tech_rates"
            BY <1>1, <2>1, OnlyColumns
        <3>2. CostOf(t, form) \in Int
            BY <3>1, RateColumns DEF CostOf, IsForm
        <3> QED
            BY <2>1, <3>2 DEF Filled
    <2>2. CASE c = "cost_per_mm2"
        <3>1. t = "material_costs"
            BY <1>1, <2>2, OnlyColumns
        <3>2. CostOf(t, form) \in Int /\ form[c] \in Int
            BY <2>2, <3>1, CostColumns DEF CostOf, IsForm
        <3> QED
            BY <2>2, <3>2 DEF Filled
    <2>3. CASE c \notin {"cost_per_min_engrave", "cost_per_mm2"}
        <3>1. c \in DOMAIN form => form[c] \in Int /\ (c = "price_breaks" => form[c] \in Values)
            BY DEF IsForm, ColumnValues
        <3>2. Filled(t, form)[c] \in {0, 1} \/ (c \in DOMAIN form /\ Filled(t, form)[c] = form[c])
            BY <2>3 DEF Filled
        <3> QED
            BY <3>1, <3>2 DEF Values
    <2> QED
        BY <2>1, <2>2, <2>3
<1>3. Filled(t, form) \in RowOf(t)
    <2>1. Filled(t, form) = [c \in Columns(t) |-> Filled(t, form)[c]]
        BY DEF Filled
    <2> HIDE DEF Filled
    <2> QED
        BY <1>2, <2>1 DEF RowOf
<1>4. Inserted(t, Filled(t, form)) \in RowOf(t)
    BY <1>3 DEF Inserted, RowOf, Values
<1> QED
    BY <1>3, <1>4

LEMMA NewRow ==
    ASSUME NEW t \in DOMAIN Creates, NEW u \in NewRows[t]
    PROVE  u \in RowOf(t)
    BY NewRowForm, FilledRow

-----------------------------------------------------------------------------
(***************************************************************************)
(* The inductive invariant.  The row a request has read is still that of   *)
(* the table, unless the request is blind, and its cost follows from what  *)
(* is beside it, as every row's does.                                       *)
(***************************************************************************)
CostKept(t, u) ==
    t \in {"tech_rates", "material_costs"} /\ u["loose"] = 0
        => u[CostColumn(t)] = CostOf(t, u)

Holding == {"update", "recalculate"}

RowHeld(p) ==
    req[p].step \in Holding =>
        /\ CostKept(table, req[p].row)
        /\ p \in blind \/ req[p].row = rows[req[p].id]

OwnTable(p) ==
    /\ req[p].step = "recalculate" => table = "material_costs"
    /\ req[p].step = "create_config" => table = "system_config"

CostsKept == \A i \in Ids : CostKept(table, rows[i])

IInv == TypeOK /\ EditsStand /\ CostsKept /\ \A p \in Requests : RowHeld(p) /\ OwnTable(p)

LEMMA NewRowCost ==
    ASSUME NEW t \in DOMAIN Creates, NEW u \in NewRows[t]
    PROVE  CostKept(t, u)
<1>1. PICK form : IsForm(t, form) /\ u = Inserted(t, Filled(t, form))
    BY NewRowForm
<1> DEFINE f == Filled(t, form)
<1>2. CASE t = "tech_rates"
    <2>1. /\ f["engrave_rate_hour"] = form["engrave_rate_hour"]
          /\ f["overhead_rate_hour"] = form["overhead_rate_hour"]
          /\ f["cost_per_min_engrave"] = CostOf(t, form)
          /\ f["loose"] = IF form["overhead_rate_hour"] # 0 THEN 0 ELSE 1
        BY <1>1, <1>2, RateColumns DEF Filled, IsForm
    <2> HIDE DEF f
    <2>2. /\ u["engrave_rate_hour"] = f["engrave_rate_hour"]
          /\ f["overhead_rate_hour"] # 0 => u["overhead_rate_hour"] = f["overhead_rate_hour"]
          /\ u["cost_per_min_engrave"] = f["cost_per_min_engrave"]
          /\ u["loose"] = f["loose"]
        BY <1>1, <1>2, RateColumns DEF Inserted, HasDefault, Defaulted, f
    <2> QED
        BY <1>2, <2>1, <2>2 DEF CostKept, CostColumn, CostOf
<1>3. CASE t = "material_costs"
    <2>1. /\ f["sheet"] = form["sheet"]
          /\ HasSheet(form) => f["cost_per_mm2"] = CostOf(t, form)
          /\ f["loose"] = IF HasSheet(form) THEN 0 ELSE 1
        BY <1>1, <1>3, CostColumns DEF Filled, IsForm
    <2> HIDE DEF f
    <2>2. u["sheet"] = f["sheet"] /\ u["cost_per_mm2"] = f["cost_per_mm2"]
            /\ u["loose"] = f["loose"]
        BY <1>1, <1>3, CostColumns DEF Inserted, HasDefault, Defaulted, f
    <2> QED
        BY <1>3, <2>1, <2>2 DEF CostKept, CostColumn, CostOf
<1> QED
    BY <1>2, <1>3 DEF CostKept

LEMMA MergedCost ==
    ASSUME NEW t \in Tables, NEW u \in RowOf(t), NEW form \in UpdateForms[t], CostKept(t, u)
    PROVE  CostKept(t, Merged(t, u, form))
<1> SUFFICES ASSUME t \in {"tech_rates", "material_costs"}
             PROVE  CostKept(t, Merged(t, u, form))
    BY DEF CostKept
<1> DEFINE w == Merged(t, u, form)
           sets == {c \in DOMAIN form : form[c] # 0 \/ c \notin Updates[t].nonzero}
           costs == CostInputs(t) \union {CostColumn(t)}
<1>1. DOMAIN form \subseteq Editable(t)
    BY DEF UpdateForms
<1>2. /\ "loose" \notin sets /\ "loose" \notin Updates[t].forced
      /\ "loose" \in Columns(t) /\ costs \subseteq Columns(t)
      /\ costs \intersect Updates[t].forced = {} /\ "loose" \notin costs
    <2>1. "loose" \notin Editable(t) /\ "loose" \in Columns(t)
        BY RateColumns, CostColumns
    <2>2. "loose" \notin sets /\ "loose" \notin Updates[t].forced
        BY <1>1, <2>1 DEF Editable
    <2>3. costs \subseteq Columns(t) /\ costs \intersect Updates[t].forced = {}
            /\ "loose" \notin costs
        BY RateColumns, CostColumns DEF CostInputs, CostColumn
    <2> QED
        BY <2>1, <2>2, <2>3
<1>3. w = [c \in Columns(t) |->
        IF c \in sets THEN form[c]
        ELSE IF c \in Updates[t].forced THEN 0
        ELSE IF c = "loose" /\ sets \intersect costs # {} THEN 1 ELSE u[c]]
    BY DEF Merged, RowOf
<1> HIDE DEF w, sets
<1>4. CASE sets \intersect costs # {}
    <2>1. w["loose"] = 1
        BY <1>2, <1>3, <1>4
    <2> QED
        BY <2>1 DEF CostKept, w
<1>5. CASE sets \intersect costs = {}
    <2>1. w["loose"] = u["loose"] /\ \A c \in costs : w[c] = u[c]
        BY <1>2, <1>3, <1>5
    <2>2. w[CostColumn(t)] = u[CostColumn(t)] /\ CostOf(t, w) = CostOf(t, u)
        BY <2>1 DEF CostInputs, CostOf
    <2> QED
        BY <2>1, <2>2 DEF CostKept, w
<1> QED
    BY <1>4, <1>5

LEMMA RecalculatedRow ==
    ASSUME TypeOK, table = "material_costs", NEW u \in RowOf(table), NEW m \in RowOf(table)
    PROVE  /\ Recalculated(u, u) \in RowOf(table) /\ Recalculated(m, u) \in RowOf(table)
           /\ CostKept(table, Recalculated(u, u))
<1>1. CostOf(table, u) = u["sheet"] /\ u["sheet"] \in Int /\ u \in [Columns(table) -> Int]
    BY CostColumns DEF CostOf, RowOf
<1>2. ASSUME NEW r \in RowOf(table) PROVE Recalculated(r, u) \in RowOf(table)
    <2> DEFINE w == [r EXCEPT !["cost_per_mm2"] = CostOf(table, u)]
    <2>1. w \in RowOf(table)
        BY <1>1, SetColumn
    <2>2. Recalculated(r, u) = [w EXCEPT !["loose"] = 0]
        BY DEF Recalculated, RowOf
    <2> HIDE DEF w
    <2>3. [w EXCEPT !["loose"] = 0] \in RowOf(table)
        <3>1. SUFFICES ASSUME NEW c, c = "loose" PROVE [w EXCEPT ![c] = 0] \in RowOf(table)
            OBVIOUS
        <3>2. c # "price_breaks" /\ 0 \in Int
            BY <3>1
        <3> QED
            BY <2>1, <3>2, SetColumn
    <2> QED
        BY <2>2, <2>3
<1>3. /\ Recalculated(u, u)["sheet"] = u["sheet"]
      /\ Recalculated(u, u)["cost_per_mm2"] = CostOf(table, u)
    BY <1>1, CostColumns DEF Recalculated
<1> QED
    BY <1>1, <1>2, <1>3 DEF CostKept, CostColumn, CostOf

\* Setting another column than those of the costs.
LEMMA OtherColumnCost ==
    ASSUME NEW u \in RowOf(table), NEW c, NEW v, CostKept(table, u),
           c \notin {"loose", "cost_per_mm2", "cost_per_min_engrave", "sheet",
                     "engrave_rate_hour", "overhead_rate_hour"}
    PROVE  CostKept(table, [u EXCEPT ![c] = v])
<1>1. \A d : d # c => [u EXCEPT ![c] = v][d] = u[d]
    BY DEF RowOf
<1> QED
    BY <1>1 DEF CostKept, CostColumn, CostOf

-----------------------------------------------------------------------------
\* What a request may be about.
LEMMA Requested ==
    ASSUME TypeOK, NEW p \in Requests
    PROVE  /\ req[p].step \in Holding => req[p].id \in Ids /\ req[p].row \in RowOf(table)
           /\ req[p].step = "create_config" => req[p].row \in RowOf(table)
           /\ req[p].step \in {"idle", "create_config"} \union Holding
    BY DEF TypeOK, Request, Idle, Holding

LEMMA RowsTyped ==
    ASSUME TypeOK, NEW i \in Ids
    PROVE  i \in 1 .. Len(meant) /\ rows[i] \in RowOf(table) /\ meant[i] \in RowOf(table)
<1>1. i \in 1 .. Len(rows) /\ i \in 1 .. Len(meant)
    BY DEF TypeOK, Ids
<1> QED
    BY <1>1 DEF TypeOK

\* A step that leaves the rows alone, in which request p goes on with r.
LEMMA QuietStep ==
    ASSUME IInv, NEW p \in Requests, NEW r \in Request, req' = [req EXCEPT ![p] = r],
           UNCHANGED <<table, rows, counting, disturbed, meant>>, begun' \in Nat,
           blind \ {p} \subseteq blind', blind' \subseteq Requests,
           r.step \in Holding => r.id \in Ids /\ r.row = rows[r.id],
           r.step = "recalculate" => table = "material_costs",
           r.step = "create_config" => table = "system_config"
    PROVE  IInv'
<1>1. TypeOK'
    BY DEF IInv, TypeOK, Request, Ids
<1>2. EditsStand' /\ CostsKept'
    BY DEF IInv, EditsStand, CostsKept, Ids, CostKept
<1>3. ASSUME NEW q \in Requests PROVE RowHeld(q)' /\ OwnTable(q)'
    <2>1. CASE q = p
        <3>1. req'[q] = r
            BY <2>1 DEF IInv, TypeOK
        <3>2. r.step \in Holding => CostKept(table, r.row)
            BY DEF IInv, CostsKept
        <3> QED
            BY <3>1, <3>2 DEF RowHeld, OwnTable, CostKept
    <2>2. CASE q # p
        <3>1. req'[q] = req[q] /\ (q \in blind => q \in blind')
            BY <2>2 DEF IInv, TypeOK
        <3> QED
            BY <3>1 DEF IInv, RowHeld, OwnTable, CostKept
    <2> QED
        BY <2>1, <2>2
<1> QED
    BY <1>1, <1>2, <1>3 DEF IInv

\* A step that writes row i.
LEMMA WriteStep ==
    ASSUME IInv, NEW i \in Ids, NEW u \in RowOf(table), NEW m \in RowOf(table),
           rows' = [rows EXCEPT ![i] = u], meant' = [meant EXCEPT ![i] = m], table' = table,
           counting' \in [1 .. MaxRows -> Nat], begun' \in Nat, blind' \subseteq Requests,
           disturbed \subseteq disturbed', disturbed' \subseteq Ids,
           i \in disturbed' \/ u = m,
           CostKept(table, u),
           req' = req \/ \E p \in Requests : req' = [req EXCEPT ![p] = Idle],
           \A q \in Requests : req'[q].step \in Holding /\ q \notin blind'
                => q \notin blind /\ (u = rows[i] \/ req[q].id # i)
    PROVE  IInv'
<1>1. /\ rows' \in Seq(RowOf(table)) /\ meant' \in Seq(RowOf(table))
      /\ Len(rows') = Len(rows) /\ Len(meant') = Len(meant)
      /\ rows'[i] = u /\ meant'[i] = m
      /\ \A j \in Ids \ {i} : rows'[j] = rows[j] /\ meant'[j] = meant[j]
    <2>1. i \in 1 .. Len(rows) /\ i \in 1 .. Len(meant)
        BY RowsTyped DEF IInv, Ids
    <2> QED
        BY <2>1 DEF IInv, TypeOK, Ids
<1>2. Ids' = Ids
    BY <1>1 DEF Ids
<1>3. req' \in [Requests -> Request] /\ \A q \in Requests : req'[q] = req[q] \/ req'[q] = Idle
    BY DEF IInv, TypeOK, Request
<1>4. Request' = Request
    BY <1>2 DEF Request
<1>5. TypeOK'
    BY <1>1, <1>2, <1>3, <1>4 DEF IInv, TypeOK
<1>6. EditsStand'
    BY <1>1, <1>2 DEF IInv, EditsStand
<1>7. CostsKept'
    <2>1. ASSUME NEW j \in Ids PROVE CostKept(table, rows'[j])
        BY <1>1, <2>1 DEF IInv, CostsKept
    <2>2. \A v : CostKept(table', v) <=> CostKept(table, v)
        OBVIOUS
    <2> QED
        BY <1>2, <2>1, <2>2 DEF CostsKept, CostKept
<1>8. ASSUME NEW q \in Requests PROVE RowHeld(q)' /\ OwnTable(q)'
    <2>1. CASE req'[q] = Idle
        BY <2>1 DEF RowHeld, OwnTable, Idle, Holding
    <2>2. CASE req'[q] = req[q]
        <3>1. OwnTable(q)'
            BY <2>2 DEF IInv, OwnTable
        <3>2. ASSUME req[q].step \in Holding, q \notin blind' PROVE req[q].row = rows'[req[q].id]
            <4>1. q \notin blind /\ (u = rows[i] \/ req[q].id # i) /\ req[q].id \in Ids
                BY <2>2, <3>2, Requested DEF IInv
            <4> QED
                BY <1>1, <3>2, <4>1 DEF IInv, RowHeld
        <3> QED
            BY <2>2, <3>1, <3>2 DEF IInv, RowHeld, CostKept
    <2> QED
        BY <1>3, <2>1, <2>2
<1> QED
    BY <1>5, <1>6, <1>7, <1>8 DEF IInv

LEMMA Appended ==
    ASSUME NEW S, NEW s \in Seq(S), NEW new \in Seq(S), NEW w, w = s \o new
    PROVE  /\ w \in Seq(S) /\ Len(w) = Len(s) + Len(new)
           /\ \A k \in 1 .. Len(s) + Len(new) :
                w[k] = IF k <= Len(s) THEN s[k] ELSE new[k - Len(s)]
    BY ConcatProperties

\* A step that adds rows.
LEMMA InsertStep ==
    ASSUME IInv, NEW new \in Seq(RowOf(table)), Insert(new), begun' \in Nat,
           \A k \in 1 .. Len(new) : CostKept(table, new[k]),
           req' = req \/ \E p \in Requests : req' = [req EXCEPT ![p] = Idle]
    PROVE  IInv'
<1>1. /\ rows' = rows \o new /\ meant' = meant \o new /\ Len(rows) + Len(new) <= MaxRows
      /\ UNCHANGED <<table, counting, blind, disturbed>>
    BY DEF Insert
<1>2. /\ rows \in Seq(RowOf(table)) /\ meant \in Seq(RowOf(table)) /\ Len(meant) = Len(rows)
    BY DEF IInv, TypeOK
<1>3. /\ rows' \in Seq(RowOf(table)) /\ Len(rows') = Len(rows) + Len(new)
      /\ \A k \in 1 .. Len(rows) + Len(new) :
            rows'[k] = IF k <= Len(rows) THEN rows[k] ELSE new[k - Len(rows)]
    BY <1>1, <1>2, Appended
<1>4. /\ meant' \in Seq(RowOf(table)) /\ Len(meant') = Len(rows) + Len(new)
      /\ \A k \in 1 .. Len(rows) + Len(new) :
            meant'[k] = IF k <= Len(rows) THEN meant[k] ELSE new[k - Len(rows)]
    <2>1. meant' = meant \o new /\ meant \in Seq(RowOf(table))
        BY <1>1, <1>2
    <2>2. Len(meant) = Len(rows)
        BY <1>2
    <2>3. /\ meant' \in Seq(RowOf(table)) /\ Len(meant') = Len(meant) + Len(new)
          /\ \A k \in 1 .. Len(meant) + Len(new) :
                meant'[k] = IF k <= Len(meant) THEN meant[k] ELSE new[k - Len(meant)]
        BY <2>1, Appended
    <2> QED
        BY <2>2, <2>3
<1>5. Len(rows) \in Nat /\ Len(new) \in Nat
    BY <1>2
<1>6. Ids \subseteq Ids' /\ Ids' = 1 .. Len(rows) + Len(new)
    BY <1>3, <1>5 DEF Ids
<1>7. ASSUME NEW j \in Ids'
      PROVE  \/ j \in Ids /\ rows'[j] = rows[j] /\ meant'[j] = meant[j]
             \/ \E k \in 1 .. Len(new) : rows'[j] = new[k] /\ meant'[j] = new[k]
    <2>1. CASE j <= Len(rows)
        <3>1. j \in 1 .. Len(rows) + Len(new) /\ j \in Ids
            BY <1>5, <1>6, <1>7, <2>1 DEF Ids
        <3> QED
            BY <1>3, <1>4, <2>1, <3>1
    <2>2. CASE ~(j <= Len(rows))
        <3>1. j - Len(rows) \in 1 .. Len(new)
            BY <1>5, <1>6, <1>7, <2>2
        <3> QED
            BY <1>3, <1>4, <1>6, <1>7, <2>2, <3>1
    <2> QED
        BY <2>1, <2>2
<1>8. Request \subseteq Request' /\ req' \in [Requests -> Request]
        /\ \A q \in Requests : req'[q] = req[q] \/ req'[q] = Idle
    BY <1>1, <1>6 DEF IInv, TypeOK, Request
<1>9. TypeOK'
    BY <1>1, <1>3, <1>4, <1>6, <1>8 DEF IInv, TypeOK
<1>10. EditsStand'
    BY <1>1, <1>7 DEF IInv, EditsStand
<1>11. CostsKept'
    <2>1. ASSUME NEW j \in Ids' PROVE CostKept(table, rows'[j])
        BY <1>7, <2>1 DEF IInv, CostsKept
    <2> QED
        BY <1>1, <2>1 DEF CostsKept, CostKept
<1>12. ASSUME NEW q \in Requests PROVE RowHeld(q)' /\ OwnTable(q)'
    <2>1. CASE req'[q] = Idle
        BY <2>1 DEF RowHeld, OwnTable, Idle, Holding
    <2>2. CASE req'[q] = req[q]
        <3>1. OwnTable(q)'
            BY <1>1, <2>2 DEF IInv, OwnTable
        <3>2. ASSUME req[q].step \in Holding PROVE rows'[req[q].id] = rows[req[q].id]
            <4>1. req[q].id \in 1 .. Len(rows)
                BY <3>2, Requested DEF IInv, Ids
            <4> QED
                BY <1>3, <1>5, <4>1
        <3> QED
            BY <1>1, <2>2, <3>1, <3>2 DEF IInv, RowHeld, CostKept
    <2> QED
        BY <1>8, <2>1, <2>2
<1> QED
    BY <1>9, <1>10, <1>11, <1>12 DEF IInv

-----------------------------------------------------------------------------
\* The handlers.

LEMMA SetsStep ==
    ASSUME IInv, NEW i \in Ids, NEW u \in RowOf(table), NEW m \in RowOf(table),
           Write(i, u, m), UNCHANGED <<table, req, disturbed>>,
           counting' \in [1 .. MaxRows -> Nat], begun' \in Nat,
           rows[i] = meant[i] => u = m, CostKept(table, u)
    PROVE  IInv'
<1>1. /\ rows' = [rows EXCEPT ![i] = u] /\ meant' = [meant EXCEPT ![i] = m]
      /\ blind' = blind \union
            (IF u = rows[i] THEN {} ELSE {q \in Requests : InProgress(q) /\ req[q].id = i})
    BY DEF Write
<1>2. i \in disturbed \/ u = m
    BY DEF IInv, EditsStand
<1>3. blind' \subseteq Requests /\ disturbed \subseteq Ids
    BY <1>1 DEF IInv, TypeOK
<1>4. ASSUME NEW q \in Requests, req'[q].step \in Holding, q \notin blind'
      PROVE  q \notin blind /\ (u = rows[i] \/ req[q].id # i)
    BY <1>1, <1>4 DEF InProgress, Holding
<1> QED
    BY <1>1, <1>2, <1>3, <1>4, WriteStep

LEMMA SavesStep ==
    ASSUME IInv, NEW p \in Requests, req[p].step \in Holding,
           NEW u \in RowOf(table), NEW m \in RowOf(table), Saves(p, u, m),
           p \notin blind /\ rows[req[p].id] = meant[req[p].id] => u = m,
           CostKept(table, u)
    PROVE  IInv'
<1> DEFINE i == req[p].id
<1>1. i \in Ids
    BY Requested DEF IInv
<1>2. /\ rows' = [rows EXCEPT ![i] = u] /\ meant' = [meant EXCEPT ![i] = m]
      /\ disturbed' = IF p \in blind THEN disturbed \union {i} ELSE disturbed
      /\ req' = [req EXCEPT ![p] = Idle]
      /\ blind' = {q \in Requests \ {p} :
                    q \in blind \/ (u # rows[i] /\ InProgress(q) /\ req[q].id = i)}
      /\ UNCHANGED <<table, counting, begun>>
    BY DEF Saves
<1>3. i \in disturbed' \/ u = m
    BY <1>1, <1>2 DEF IInv, EditsStand
<1>4. /\ disturbed \subseteq disturbed' /\ disturbed' \subseteq Ids /\ blind' \subseteq Requests
      /\ counting' \in [1 .. MaxRows -> Nat] /\ begun' \in Nat
    BY <1>1, <1>2 DEF IInv, TypeOK
<1>5. ASSUME NEW q \in Requests, req'[q].step \in Holding, q \notin blind'
      PROVE  q \notin blind /\ (u = rows[i] \/ req[q].id # i)
    <2>1. q # p
        BY <1>2, <1>5 DEF IInv, TypeOK, Idle, Holding
    <2>2. req'[q] = req[q]
        BY <1>2, <2>1 DEF IInv, TypeOK
    <2> QED
        BY <1>2, <1>5, <2>1, <2>2 DEF InProgress, Holding
<1> HIDE DEF i
<1> QED
    BY <1>1, <1>2, <1>3, <1>4, <1>5, WriteStep, ZenonT(60)

LEMMA CreateIInv ==
    ASSUME IInv, Create \/ BulkCreateTechMaterialSpeeds
    PROVE  IInv'
<1>1. begun' \in Nat /\ req' = req
    BY DEF Create, BulkCreateTechMaterialSpeeds, Counted, IInv, TypeOK
<1>2. CASE Create
    <2>1. PICK u \in NewRows[table] : Insert(<<u>>)
        BY <1>2 DEF Create
    <2>2. u \in RowOf(table) /\ CostKept(table, u)
        BY <1>2, NewRow, NewRowCost DEF Create
    <2>3. <<u>> \in Seq(RowOf(table)) /\ \A k \in 1 .. Len(<<u>>) : CostKept(table, <<u>>[k])
        BY <2>2
    <2> QED
        BY <1>1, <2>1, <2>3, InsertStep
<1>3. CASE BulkCreateTechMaterialSpeeds
    <2>1. PICK u1 \in NewRows[table], u2 \in NewRows[table] : Insert(<<u1, u2>>)
        BY <1>3 DEF BulkCreateTechMaterialSpeeds
    <2>2. table \in DOMAIN Creates
        BY <1>3 DEF BulkCreateTechMaterialSpeeds, Creates
    <2>3. /\ u1 \in RowOf(table) /\ CostKept(table, u1)
          /\ u2 \in RowOf(table) /\ CostKept(table, u2)
        BY <2>2, NewRow, NewRowCost
    <2>4. <<u1, u2>> \in Seq(RowOf(table))
            /\ \A k \in 1 .. Len(<<u1, u2>>) : CostKept(table, <<u1, u2>>[k])
        BY <2>3
    <2> QED
        BY <1>1, <2>1, <2>4, InsertStep
<1> QED
    BY <1>2, <1>3

LEMMA ConfigIInv ==
    ASSUME IInv, NEW p \in Requests, CreateConfigBegins(p) \/ CreateConfig(p)
    PROVE  IInv'
<1>1. CASE CreateConfigBegins(p)
    <2>1. PICK u \in NewRows[table] :
            req' = [req EXCEPT ![p] = [step |-> "create_config", id |-> 0, row |-> u]]
        BY <1>1 DEF CreateConfigBegins
    <2> DEFINE r == [step |-> "create_config", id |-> 0, row |-> u]
    <2>2. table = "system_config" /\ table \in DOMAIN Creates
        BY <1>1 DEF CreateConfigBegins, Creates
    <2>3. r \in Request /\ r.step = "create_config"
        BY <2>2, NewRow DEF Request
    <2>4. UNCHANGED <<table, rows, counting, blind, disturbed, meant>> /\ begun' \in Nat
        BY <1>1 DEF CreateConfigBegins, Counted, IInv, TypeOK
    <2>5. req' = [req EXCEPT ![p] = r] /\ blind' \subseteq Requests
        BY <2>1, <2>4 DEF IInv, TypeOK
    <2> HIDE DEF r
    <2> QED
        BY <2>2, <2>3, <2>4, <2>5, QuietStep DEF Holding
<1>2. CASE CreateConfig(p)
    <2> DEFINE u == req[p].row
    <2>1. u \in RowOf(table) /\ table = "system_config"
        BY <1>2, Requested DEF CreateConfig, IInv, OwnTable
    <2>2. Insert(<<u>>) /\ req' = [req EXCEPT ![p] = Idle] /\ begun' \in Nat
        BY <1>2 DEF CreateConfig, IInv, TypeOK
    <2>3. <<u>> \in Seq(RowOf(table)) /\ \A k \in 1 .. Len(<<u>>) : CostKept(table, <<u>>[k])
        BY <2>1 DEF CostKept
    <2> HIDE DEF u
    <2> QED
        BY <2>2, <2>3, InsertStep
<1> QED
    BY <1>1, <1>2

LEMMA ReadsIInv ==
    ASSUME IInv, NEW p \in Requests, NEW step \in Holding, NEW i \in Ids, Reads(p, step, i),
           step = "recalculate" => table = "material_costs"
    PROVE  IInv'
<1> DEFINE r == [step |-> step, id |-> i, row |-> rows[i]]
<1>1. r \in Request /\ r.step = step /\ r.id = i /\ r.row = rows[i]
    BY RowsTyped DEF Request, Holding, IInv
<1>2. /\ req' = [req EXCEPT ![p] = r]
      /\ UNCHANGED <<table, rows, counting, blind, disturbed, meant>> /\ begun' \in Nat
    BY DEF Reads, Counted, IInv, TypeOK
<1>3. blind' \subseteq Requests
    BY <1>2 DEF IInv, TypeOK
<1> HIDE DEF r
<1> QED
    BY <1>1, <1>2, <1>3, QuietStep DEF Holding

LEMMA UpdateIInv ==
    ASSUME IInv, NEW p \in Requests,
           \/ UpdateBegins(p) \/ Update(p)
           \/ RecalculateBegins(p) \/ RecalculateMaterialCost(p)
    PROVE  IInv'
<1>1. CASE UpdateBegins(p)
    BY <1>1, ReadsIInv DEF UpdateBegins, Holding
<1>2. CASE RecalculateBegins(p)
    BY <1>2, ReadsIInv DEF RecalculateBegins, Holding
<1>3. ASSUME req[p].step \in Holding
      PROVE  /\ req[p].id \in Ids /\ req[p].row \in RowOf(table)
             /\ meant[req[p].id] \in RowOf(table) /\ CostKept(table, req[p].row)
             /\ p \in blind \/ req[p].row = rows[req[p].id]
    BY <1>3, Requested, RowsTyped DEF IInv, RowHeld
<1>4. CASE Update(p)
    <2> DEFINE old == req[p].row
               mean == meant[req[p].id]
    <2>1. PICK form \in UpdateForms[table] :
            Saves(p, Merged(table, old, form), Merged(table, mean, form))
        BY <1>4 DEF Update
    <2>2. req[p].step \in Holding /\ table \in Tables
        BY <1>4 DEF Update, Holding, IInv, TypeOK
    <2>3. /\ old \in RowOf(table) /\ mean \in RowOf(table) /\ CostKept(table, old)
          /\ p \notin blind => old = rows[req[p].id]
        BY <1>3, <2>2
    <2>4. /\ Merged(table, old, form) \in RowOf(table)
          /\ Merged(table, mean, form) \in RowOf(table)
          /\ CostKept(table, Merged(table, old, form))
        BY <2>2, <2>3, MergedRow, MergedCost
    <2>5. p \notin blind /\ rows[req[p].id] = mean
            => Merged(table, old, form) = Merged(table, mean, form)
        BY <2>3
    <2> QED
        BY <2>1, <2>2, <2>4, <2>5, SavesStep
<1>5. CASE RecalculateMaterialCost(p)
    <2> DEFINE old == req[p].row
               mean == meant[req[p].id]
    <2>1. Saves(p, Recalculated(old, old), Recalculated(mean, old))
        BY <1>5 DEF RecalculateMaterialCost
    <2>2. req[p].step \in Holding /\ table = "material_costs"
        BY <1>5 DEF RecalculateMaterialCost, Holding, IInv, OwnTable
    <2>3. /\ old \in RowOf(table) /\ mean \in RowOf(table)
          /\ p \notin blind => old = rows[req[p].id]
        BY <1>3, <2>2
    <2>4. /\ Recalculated(old, old) \in RowOf(table) /\ Recalculated(mean, old) \in RowOf(table)
          /\ CostKept(table, Recalculated(old, old))
        BY <2>2, <2>3, RecalculatedRow DEF IInv
    <2>5. p \notin blind /\ rows[req[p].id] = mean
            => Recalculated(old, old) = Recalculated(mean, old)
        BY <2>3
    <2> QED
        BY <2>1, <2>2, <2>4, <2>5, SavesStep
<1> QED
    BY <1>1, <1>2, <1>4, <1>5

\* Setting a column that no cost depends on.
LEMMA ColumnStep ==
    ASSUME IInv, NEW i \in Ids, NEW c, NEW v, NEW w,
           c \notin {"loose", "cost_per_mm2", "cost_per_min_engrave", "sheet",
                     "engrave_rate_hour", "overhead_rate_hour", "price_breaks"},
           c \in Columns(table) => v \in Int /\ w \in Int,
           rows[i] = meant[i] => v = w,
           Write(i, [rows[i] EXCEPT ![c] = v], [meant[i] EXCEPT ![c] = w]),
           UNCHANGED <<table, req, disturbed>>,
           counting' \in [1 .. MaxRows -> Nat], begun' \in Nat
    PROVE  IInv'
<1> DEFINE u == [rows[i] EXCEPT ![c] = v]
           m == [meant[i] EXCEPT ![c] = w]
<1>1. rows[i] \in RowOf(table) /\ meant[i] \in RowOf(table) /\ CostKept(table, rows[i])
    BY RowsTyped DEF IInv, CostsKept
<1>2. u \in RowOf(table) /\ m \in RowOf(table)
    BY <1>1, SetColumn
<1>3. CostKept(table, u) /\ (rows[i] = meant[i] => u = m)
    BY <1>1, OtherColumnCost
<1> HIDE DEF u, m
<1>4. Write(i, u, m)
    BY DEF u, m
<1> QED
    BY <1>2, <1>3, <1>4, SetsStep

LEMMA DeleteIInv ==
    ASSUME IInv, Delete
    PROVE  IInv'
<1>1. PICK i \in Ids : Sets(i, [rows[i] EXCEPT !["is_active"] = 0],
                            [meant[i] EXCEPT !["is_active"] = 0])
    BY DEF Delete
<1> DEFINE cleared == 0
<1>2. /\ Write(i, [rows[i] EXCEPT !["is_active"] = cleared],
               [meant[i] EXCEPT !["is_active"] = cleared])
      /\ UNCHANGED <<table, req, disturbed>>
      /\ counting' \in [1 .. MaxRows -> Nat] /\ begun' \in Nat
    BY <1>1 DEF Sets, Counted, IInv, TypeOK
<1>3. cleared \in Int
    OBVIOUS
<1> HIDE DEF cleared
<1> QED
    BY <1>2, <1>3, ColumnStep

LEMMA BlanksIInv ==
    ASSUME IInv, UpdateStock \/ ToggleFeatured \/ IncrementQuoteCount
    PROVE  IInv'
<1>0. ASSUME NEW i \in Ids
      PROVE  rows[i] \in [Columns(table) -> Int] /\ meant[i] \in [Columns(table) -> Int]
    BY RowsTyped DEF IInv, RowOf
<1>1. CASE UpdateStock
    <2>1. PICK i \in Ids : \/ \E qty \in {-1, 1} : AddStock(i, qty)
                           \/ \E qty \in Values : SetStock(i, qty)
        BY <1>1 DEF UpdateStock
    <2>2. ASSUME NEW qty \in {-1, 1}, AddStock(i, qty) PROVE IInv'
        <3> DEFINE v == rows[i]["stock_qty"] + qty
                   w == meant[i]["stock_qty"] + qty
        <3>1. /\ Write(i, [rows[i] EXCEPT !["stock_qty"] = v],
                       [meant[i] EXCEPT !["stock_qty"] = w])
              /\ UNCHANGED <<table, req, disturbed>>
              /\ counting' \in [1 .. MaxRows -> Nat] /\ begun' \in Nat
            BY <2>2 DEF AddStock, Sets, Counted, IInv, TypeOK
        <3>2. "stock_qty" \in Columns(table) => v \in Int /\ w \in Int
            BY <1>0
        <3>3. rows[i] = meant[i] => v = w
            OBVIOUS
        <3> HIDE DEF v, w
        <3> QED
            BY <3>1, <3>2, <3>3, ColumnStep
    <2>3. ASSUME NEW qty \in Values, SetStock(i, qty) PROVE IInv'
        <3>1. /\ Write(i, [rows[i] EXCEPT !["stock_qty"] = qty],
                       [meant[i] EXCEPT !["stock_qty"] = qty])
              /\ UNCHANGED <<table, req, disturbed>>
              /\ counting' \in [1 .. MaxRows -> Nat] /\ begun' \in Nat
            BY <2>3 DEF SetStock, Sets, Counted, IInv, TypeOK
        <3>2. qty \in Int
            BY DEF Values
        <3> QED
            BY <3>1, <3>2, ColumnStep
    <2> QED
        BY <2>1, <2>2, <2>3
<1>2. CASE ToggleFeatured
    <2>1. PICK i \in Ids : Sets(i, Toggled(rows[i]), Toggled(meant[i]))
        BY <1>2 DEF ToggleFeatured
    <2> DEFINE v == 1 - rows[i]["is_featured"]
               w == 1 - meant[i]["is_featured"]
    <2>2. /\ Write(i, [rows[i] EXCEPT !["is_featured"] = v],
                   [meant[i] EXCEPT !["is_featured"] = w])
          /\ UNCHANGED <<table, req, disturbed>>
          /\ counting' \in [1 .. MaxRows -> Nat] /\ begun' \in Nat
        BY <2>1 DEF Toggled, Sets, Counted, IInv, TypeOK
    <2>3. "is_featured" \in Columns(table) => v \in Int /\ w \in Int
        BY <1>0
    <2>4. rows[i] = meant[i] => v = w
        OBVIOUS
    <2> HIDE DEF v, w
    <2> QED
        BY <2>2, <2>3, <2>4, ColumnStep
<1>3. CASE IncrementQuoteCount
    <2>1. PICK i \in Ids :
            /\ counting[i] > 0
            /\ counting' = [counting EXCEPT ![i] = @ - 1]
            /\ Write(i, [rows[i] EXCEPT !["quote_count"] = @ + 1],
                     [meant[i] EXCEPT !["quote_count"] = @ + 1])
            /\ UNCHANGED <<table, req, begun, disturbed>>
        BY <1>3 DEF IncrementQuoteCount
    <2> DEFINE v == rows[i]["quote_count"] + 1
               w == meant[i]["quote_count"] + 1
    <2>2. i \in 1 .. MaxRows
        BY DEF Ids, IInv, TypeOK
    <2>3. counting' \in [1 .. MaxRows -> Nat] /\ begun' \in Nat
        <3>1. counting \in [1 .. MaxRows -> Nat] /\ counting[i] - 1 \in Nat
            BY <2>1, <2>2 DEF IInv, TypeOK
        <3>2. counting' \in [1 .. MaxRows -> Nat]
            BY <2>1, <2>2, <3>1
        <3> QED
            BY <2>1, <3>2 DEF IInv, TypeOK
    <2>4. /\ Write(i, [rows[i] EXCEPT !["quote_count"] = v],
                   [meant[i] EXCEPT !["quote_count"] = w])
          /\ UNCHANGED <<table, req, disturbed>>
        BY <2>1
    <2>5. "quote_count" \in Columns(table) => v \in Int /\ w \in Int
        BY <1>0
    <2>6. rows[i] = meant[i] => v = w
        OBVIOUS
    <2> HIDE DEF v, w
    <2> QED
        BY <2>3, <2>4, <2>5, <2>6, ColumnStep
<1> QED
    BY <1>1, <1>2, <1>3

\* The steps that leave the rows and what the requests are about alone.
LEMMA OtherIInv ==
    ASSUME IInv, UNCHANGED <<table, rows, req, blind, disturbed, meant>>,
           counting' \in [1 .. MaxRows -> Nat], begun' \in Nat
    PROVE  IInv'
<1>1. TypeOK'
    BY DEF IInv, TypeOK, Request, Ids
<1>2. EditsStand' /\ CostsKept'
    BY DEF IInv, EditsStand, CostsKept, Ids, CostKept
<1>3. \A p \in Requests : RowHeld(p)' /\ OwnTable(p)'
    BY DEF IInv, RowHeld, OwnTable, CostKept
<1> QED
    BY <1>1, <1>2, <1>3 DEF IInv

LEMMA NextIInv == IInv /\ [Next]_vars => IInv'
<1> SUFFICES ASSUME IInv, [Next]_vars PROVE IInv'
    OBVIOUS
<1>1. ASSUME ConsultarBlank \/ GoesUncounted PROVE IInv'
    <2>1. UNCHANGED <<table, rows, req, blind, disturbed, meant>> /\ begun' \in Nat
        BY <1>1 DEF ConsultarBlank, GoesUncounted, Counted, IInv, TypeOK
    <2>2. PICK i \in Ids : \/ counting' = [counting EXCEPT ![i] = @ + 1]
                           \/ counting[i] > 0 /\ counting' = [counting EXCEPT ![i] = @ - 1]
        BY <1>1 DEF ConsultarBlank, GoesUncounted
    <2>3. i \in 1 .. MaxRows
        BY DEF Ids, IInv, TypeOK
    <2>4. counting' \in [1 .. MaxRows -> Nat]
        BY <2>2, <2>3, SMTT(30) DEF IInv, TypeOK
    <2> QED
        BY <2>1, <2>4, OtherIInv
<1>2. ASSUME NEW p \in Requests, Fails(p) PROVE IInv'
    <2>1. Idle \in Request /\ Idle.step = "idle"
        BY DEF Request, Idle
    <2>2. /\ req' = [req EXCEPT ![p] = Idle] /\ blind' = blind \ {p}
          /\ UNCHANGED <<table, rows, counting, begun, disturbed, meant>>
        BY <1>2 DEF Fails
    <2>3. begun' \in Nat /\ blind' \subseteq Requests
        BY <2>2 DEF IInv, TypeOK
    <2> QED
        BY <2>1, <2>2, <2>3, QuietStep DEF Holding
<1>3. ASSUME UNCHANGED vars PROVE IInv'
    BY <1>3, OtherIInv DEF vars, IInv, TypeOK
<1> QED
    BY <1>1, <1>2, <1>3, CreateIInv, ConfigIInv, UpdateIInv, DeleteIInv, BlanksIInv DEF Next

LEMMA InitIInv == Init => IInv
<1> SUFFICES ASSUME Init PROVE IInv
    OBVIOUS
<1> DEFINE u == [c \in Columns(table) |-> 1]
<1>1. table \in Tables /\ rows \in {<< >>, <<u>>} /\ meant = rows
    BY DEF Init
<1>2. u \in RowOf(table) /\ CostKept(table, u)
    <2>1. u \in RowOf(table)
        BY DEF RowOf, Values
    <2>2. table \in {"tech_rates", "material_costs"} => u["loose"] = 1
        BY RateColumns, CostColumns
    <2> QED
        BY <2>1, <2>2 DEF CostKept
<1> HIDE DEF u
<1>3. rows \in Seq(RowOf(table)) /\ \A i \in 1 .. Len(rows) : rows[i] = u
    <2>1. CASE rows = << >>
        BY <2>1
    <2>2. CASE rows = <<u>>
        BY <1>2, <2>2
    <2> QED
        BY <1>1, <2>1, <2>2
<1>4. TypeOK
    <2>1. Len(rows) <= MaxRows
        <3>1. \A n \in {0, 1} : n <= MaxRows
            BY BoundsAssumption
        <3>2. Len(rows) \in {0, 1}
            BY <1>1
        <3> QED
            BY <3>1, <3>2
    <2> QED
        BY <1>1, <1>3, <2>1 DEF Init, TypeOK, Request
<1>5. EditsStand /\ CostsKept
    BY <1>1, <1>2, <1>3 DEF EditsStand, CostsKept, Ids
<1>6. \A p \in Requests : RowHeld(p) /\ OwnTable(p)
    BY DEF Init, RowHeld, OwnTable, Idle, Holding
<1> QED
    BY <1>4, <1>5, <1>6 DEF IInv

LEMMA Invariance == Spec => []IInv
    BY InitIInv, NextIInv, PTL DEF Spec

(***************************************************************************)
(* The variables of Catalogue keep their types: every handler makes a row  *)
(* with the columns of its table.                                          *)
(***************************************************************************)
THEOREM CatalogueTypes == Spec => []TypeOK
<1>1. IInv => TypeOK
    BY DEF IInv
<1> QED
    BY <1>1, Invariance, PTL

(***************************************************************************)
(* No edit is lost but in a row that a request saved whole over a change   *)
(* it had not read, for any number of rows, requests and columns.           *)
(***************************************************************************)
THEOREM EditsAreKept == Spec => []EditsStand
<1>1. IInv => EditsStand
    BY DEF IInv
<1> QED
    BY <1>1, Invariance, PTL

(***************************************************************************)
(* A computed cost is that of the columns beside it, unless a form set     *)
(* them apart, however saves, recalculations and deletions overlap.         *)
(***************************************************************************)
THEOREM CostsFollowInputs == Spec => []CostsOfTheirInputs
<1>1. IInv => CostsOfTheirInputs
    BY DEF IInv, CostsKept, CostKept, CostsOfTheirInputs
<1> QED
    BY <1>1, Invariance, PTL

-----------------------------------------------------------------------------
\* What ConsultarBlank answers about a row of the blanks.
LEMMA PriceHonest ==
    ASSUME NEW u \in RowOf("blanks"), NEW qty \in Nat, Sane(u),
           NEW price \in computePriceForQty(u, qty)
    PROVE  /\ price \in Offered(u, qty)
           /\ \A other \in Offered(u, qty) : price <= other
<1> DEFINE breaks == BreakTables[u["price_breaks"]]
           reached == {br \in breaks : qty >= br.qty}
           first == {br \in reached : \A other \in reached : br.qty >= other.qty}
<1>1. u["base_price"] \in Int /\ u["price_breaks"] \in Values
    BY BlankColumns DEF RowOf
<1>2. \A br \in breaks : br.qty \in Nat /\ br.unit_price \in Nat
    BY <1>1
<1>3. \A br \in breaks :
        /\ br.unit_price <= u["base_price"]
        /\ \A other \in breaks : br.qty <= other.qty => br.unit_price >= other.unit_price
    BY DEF Sane
<1>4. price \in IF reached = {} THEN {u["base_price"]} ELSE {br.unit_price : br \in first}
    BY DEF computePriceForQty
<1>5. Offered(u, qty) = {u["base_price"]} \union {br.unit_price : br \in reached}
    BY DEF Offered
<1> HIDE DEF breaks
<1>6. CASE reached = {}
    <2>1. price = u["base_price"]
        BY <1>4, <1>6
    <2>2. Offered(u, qty) = {u["base_price"]}
        BY <1>5, <1>6
    <2> QED
        BY <1>1, <2>1, <2>2
<1>7. CASE reached # {}
    <2>1. PICK br \in first : price = br.unit_price
        BY <1>4, <1>7
    <2>2. br \in breaks /\ br \in reached
        OBVIOUS
    <2>3. ASSUME NEW other \in reached PROVE price <= other.unit_price
        <3>1. other \in breaks /\ other.qty <= br.qty
            BY <1>2, <2>1, <2>2
        <3> QED
            BY <1>2, <1>3, <2>1, <2>2, <3>1
    <2>4. price <= u["base_price"] /\ price \in Offered(u, qty)
        BY <1>3, <1>5, <2>1, <2>2
    <2> QED
        BY <1>5, <2>3, <2>4
<1> QED
    BY <1>6, <1>7

(***************************************************************************)
(* ConsultarBlank's answer is honest: where the breaks fall, the price is  *)
(* the lowest of the base price and the breaks that the order reaches, and *)
(* a stock at or below the alert is never passed over, for any breaks of   *)
(* any row that the handlers make.  Where the breaks do not fall, or on    *)
(* what a negative stock is called, it promises nothing.                   *)
(***************************************************************************)
THEOREM AnswersAreHonest == Spec => []AnswerHonest
<1>1. IInv => AnswerHonest
    <2> SUFFICES ASSUME IInv, table = "blanks", NEW i \in Ids, NEW qty \in 0 .. 5
                 PROVE  /\ rows[i]["stock_qty"] <= rows[i]["stock_alert"]
                            => Notices(rows[i], qty) \intersect {"sin_stock", "stock_bajo"} # {}
                        /\ Sane(rows[i]) =>
                            \A price \in computePriceForQty(rows[i], qty) :
                                /\ price \in Offered(rows[i], qty)
                                /\ \A other \in Offered(rows[i], qty) : price <= other
        BY DEF AnswerHonest
    <2>1. rows[i] \in RowOf("blanks") /\ qty \in Nat
        BY RowsTyped DEF IInv
    <2>2. rows[i]["stock_qty"] <= rows[i]["stock_alert"]
            => Notices(rows[i], qty) \intersect {"sin_stock", "stock_bajo"} # {}
        BY DEF Notices
    <2> QED
        BY <2>1, <2>2, PriceHonest
<1> QED
    BY <1>1, Invariance, PTL
=============================================================================

---------------------------- MODULE SamplesProofs ----------------------------
(***************************************************************************)
(* What the conversions do to every sample, with bytes of 256 values as    *)
(* well: a sample that is decoded and encoded comes back, and the mixer    *)
(* keeps the order of samples through the roundings of its floats.         *)
(*                                                                         *)
(* DescriptorProofs has the induction over the naturals.                   *)
(***************************************************************************)
EXTENDS Samples, DescriptorProofs

(* Powers of two, and of Base. *)

\* The next power is twice the one before; an exponent has to be a literal for
\* the prover to know the power.
LEMMA PowerNext ==
    ASSUME NEW k \in 0..16
    PROVE  2 ^ (k + 1) = 2 * 2 ^ k
  <1>0. CASE k = 0
    BY <1>0
  <1>1. CASE k = 1
    BY <1>1
  <1>2. CASE k = 2
    BY <1>2
  <1>3. CASE k = 3
    BY <1>3
  <1>4. CASE k = 4
    BY <1>4
  <1>5. CASE k = 5
    BY <1>5
  <1>6. CASE k = 6
    BY <1>6
  <1>7. CASE k = 7
    BY <1>7
  <1>8. CASE k = 8
    BY <1>8
  <1>9. CASE k = 9
    BY <1>9
  <1>10. CASE k = 10
    BY <1>10
  <1>11. CASE k = 11
    BY <1>11
  <1>12. CASE k = 12
    BY <1>12
  <1>13. CASE k = 13
    BY <1>13
  <1>14. CASE k = 14
    BY <1>14
  <1>15. CASE k = 15
    BY <1>15
  <1>16. CASE k = 16
    BY <1>16
  <1> QED
    BY <1>0, <1>1, <1>2, <1>3, <1>4, <1>5, <1>6, <1>7, <1>8,
       <1>9, <1>10, <1>11, <1>12, <1>13, <1>14, <1>15, <1>16

\* The steps of a float are positive.
LEMMA PowerType ==
    ASSUME NEW k \in Exponents
    PROVE  2 ^ k \in Nat \ {0}
  <1> DEFINE S == {n \in Nat : n <= 17 => 2 ^ n \in Nat \ {0}}
  <1>1. 0 \in S
    OBVIOUS
  <1>2. ASSUME NEW n \in S
        PROVE  n + 1 \in S
    <2> SUFFICES ASSUME n + 1 <= 17
                 PROVE  2 ^ (n + 1) \in Nat \ {0}
      OBVIOUS
    <2> DEFINE before == 2 ^ n
               after == 2 ^ (n + 1)
    <2>1. n \in 0..16 /\ before \in Nat \ {0}
      OBVIOUS
    <2>2. after = 2 * before
      BY <2>1, PowerNext
    <2> HIDE DEF before, after
    <2>3. after \in Nat \ {0}
      BY <2>1, <2>2
    <2> QED BY <2>3 DEF after
  <1>3. S = Nat
    <2> HIDE DEF S
    <2> QED BY <1>1, <1>2, SetInduction DEF S
  <1> QED BY <1>3 DEF Exponents

\* The power of a sum is the product of the powers.
LEMMA PowerSum ==
    ASSUME NEW j \in Nat, NEW k \in Nat, j + k <= 17
    PROVE  2 ^ (j + k) = 2 ^ k * 2 ^ j
  <1> DEFINE S == {n \in Nat : j + n <= 17 => 2 ^ (j + n) = 2 ^ n * 2 ^ j}
  <1>0. j \in Exponents
    BY DEF Exponents
  <1>1. 2 ^ j \in Nat
    BY <1>0, PowerType
  <1>2. 0 \in S
    <2>1. 2 ^ (j + 0) = 1 * 2 ^ j
      <3>1. j + 0 = j
        OBVIOUS
      <3> QED BY <1>1, <3>1
    <2> QED BY <2>1
  <1>3. ASSUME NEW n \in S
        PROVE  n + 1 \in S
    <2> SUFFICES ASSUME j + (n + 1) <= 17
                 PROVE  2 ^ (j + (n + 1)) = 2 ^ (n + 1) * 2 ^ j
      OBVIOUS
    <2>1. 2 ^ (j + n) = 2 ^ n * 2 ^ j
      OBVIOUS
    <2>2. j + n \in 0..16 /\ j + (n + 1) = (j + n) + 1 /\ n \in 0..16 /\ n \in Exponents
      BY DEF Exponents
    <2>3. 2 ^ (j + (n + 1)) = 2 * (2 ^ n * 2 ^ j)
      BY <2>1, <2>2, PowerNext
    <2>4. 2 ^ (n + 1) = 2 * 2 ^ n /\ 2 ^ n \in Nat
      BY <2>2, PowerNext, PowerType
    <2>5. 2 * (2 ^ n * 2 ^ j) = (2 * 2 ^ n) * 2 ^ j
      BY <1>1, <2>4
    <2> QED BY <2>3, <2>4, <2>5
  <1>4. S = Nat
    <2> HIDE DEF S
    <2> QED BY <1>2, <1>3, SetInduction DEF S
  <1> QED BY <1>4

\* A power divides the ones after it.
LEMMA PowerDivides ==
    ASSUME NEW j \in Exponents, NEW k \in Exponents, j <= k
    PROVE  \E d \in Nat \ {0} : 2 ^ k = d * 2 ^ j
  <1>1. j \in Nat /\ k - j \in Nat /\ j + (k - j) = k /\ k <= 17 /\ k - j \in Exponents
    BY DEF Exponents
  <1>2. 2 ^ k = 2 ^ (k - j) * 2 ^ j /\ 2 ^ (k - j) \in Nat \ {0}
    BY <1>1, PowerSum, PowerType
  <1> QED BY <1>2

\* The powers of Base, and the full scale of a sample.
LEMMA BasePowers ==
    /\ Base \in Nat /\ Base >= 4 /\ Base % 2 = 0
    /\ Base ^ 0 = 1 /\ Base ^ 1 = Base /\ Base ^ 2 = Base * Base
    /\ Base ^ 3 = Base * Base * Base /\ Base ^ 4 = Base * Base * Base * Base
    /\ Significand = Base ^ 3 /\ Significand \in Nat \ {0} /\ Significand % 2 = 0
    /\ Base ^ 4 = 2 * Half /\ Half \in Nat \ {0}
    /\ 4 * Base * Half <= 2 ^ 17 * Significand
  <1>1. CASE Base = 4
    BY <1>1 DEF Significand, Half
  <1>2. CASE Base = 8
    BY <1>2 DEF Significand, Half
  <1>3. CASE Base = 16
    BY <1>3 DEF Significand, Half
  <1>4. CASE Base = 256
    BY <1>4 DEF Significand, Half
  <1> QED BY <1>1, <1>2, <1>3, <1>4, BaseAssumption

\* Full scale is a power of two times the significand.
LEMMA FullScale ==
    \E t \in 1..7 : Base = 2 * 2 ^ t /\ Half = 2 ^ t * Significand
  <1> DEFINE P(t) == Base = 2 * 2 ^ t /\ Half = 2 ^ t * Significand
  <1>1. CASE Base = 4
    <2>1. P(1)
      BY <1>1 DEF Significand, Half
    <2> QED BY <2>1
  <1>2. CASE Base = 8
    <2>1. P(2)
      BY <1>2 DEF Significand, Half
    <2> QED BY <2>1
  <1>3. CASE Base = 16
    <2>1. P(3)
      BY <1>3 DEF Significand, Half
    <2> QED BY <2>1
  <1>4. CASE Base = 256
    <2>1. P(7)
      BY <1>4 DEF Significand, Half
    <2> QED BY <2>1
  <1> QED BY <1>1, <1>2, <1>3, <1>4, BaseAssumption
-----------------------------------------------------------------------------
(* Rounding. *)

\* What a quotient and a remainder are.
LEMMA Division ==
    ASSUME NEW n \in Nat, NEW d \in Nat \ {0}
    PROVE  /\ (n \div d) \in Nat /\ (n % d) \in 0..(d - 1)
           /\ n = (n \div d) * d + (n % d)
           /\ (n \div d) * d <= n
           /\ n < (n \div d) * d + d
  OBVIOUS

\* A quotient and a remainder are those of the division.
LEMMA DivisionUnique ==
    ASSUME NEW q \in Int, NEW d \in Nat \ {0}, NEW r \in 0..(d - 1)
    PROVE  (q * d + r) \div d = q /\ (q * d + r) % d = r
  OBVIOUS

\* Division by the same number keeps the order.
LEMMA DivisionInOrder ==
    ASSUME NEW n \in Nat, NEW m \in Nat, n <= m, NEW d \in Nat \ {0}
    PROVE  n \div d <= m \div d
  <1> DEFINE a == n \div d
             b == m \div d
  <1>1. a \in Nat /\ a * d <= n /\ b \in Nat /\ m < b * d + d
    BY Division
  <1> HIDE DEF a, b
  <1>2. SUFFICES ASSUME b + 1 <= a PROVE FALSE
    BY <1>1 DEF a, b
  <1>3. (b + 1) * d <= a * d
    BY <1>1, <1>2
  <1> QED BY <1>1, <1>3

\* The rounding goes to one of the two multiples beside n, leaves a multiple as
\* it is and keeps the order.
LEMMA RoundedToStep ==
    ASSUME NEW n \in Nat, NEW step \in Nat \ {0}
    PROVE  \E q \in Nat : /\ Rounded(n, step) = step * q
                          /\ q = n \div step \/ q = n \div step + 1
  <1>1. (n \div step) \in Nat /\ (n \div step) + 1 \in Nat
    BY Division
  <1> QED BY <1>1 DEF Rounded

\* A multiple of the step is not rounded.
LEMMA RoundedMultiple ==
    ASSUME NEW q \in Nat, NEW step \in Nat \ {0}
    PROVE  Rounded(q * step, step) = q * step
  <1>1. (q * step) \div step = q /\ (q * step) % step = 0
    <2>1. 0 \in 0..(step - 1) /\ q * step + 0 = q * step
      OBVIOUS
    <2> QED BY <2>1, DivisionUnique
  <1>2. ~(2 * 0 > step \/ (2 * 0 = step /\ q % 2 = 1))
    OBVIOUS
  <1>3. Rounded(q * step, step) = step * q
    BY <1>1, <1>2 DEF Rounded
  <1> QED BY <1>3

\* Rounding to the same step keeps the order.
LEMMA RoundedInOrder ==
    ASSUME NEW n \in Nat, NEW m \in Nat, n <= m, NEW step \in Nat \ {0}
    PROVE  Rounded(n, step) <= Rounded(m, step)
  <1> DEFINE a == n \div step
             b == m \div step
             r == n % step
             s == m % step
  <1>1. /\ a \in Nat /\ r \in 0..(step - 1) /\ n = a * step + r
        /\ b \in Nat /\ s \in 0..(step - 1) /\ m = b * step + s
    BY Division
  <1>2. PICK p \in Nat : Rounded(n, step) = step * p /\ (p = a \/ p = a + 1)
    BY RoundedToStep
  <1>3. PICK q \in Nat : Rounded(m, step) = step * q /\ (q = b \/ q = b + 1)
    BY RoundedToStep
  <1>4. CASE a < b
    <2>1. p <= q
      BY <1>1, <1>2, <1>3, <1>4
    <2>2. step * p <= step * q
      BY <2>1
    <2> QED BY <1>2, <1>3, <2>2
  <1>5. CASE a = b
    <2>1. r <= s
      <3> HIDE DEF a, b, r, s
      <3> QED BY <1>1, <1>5
    <2> DEFINE up(x) == 2 * x > step \/ (2 * x = step /\ a % 2 = 1)
    <2>2. up(r) => up(s)
      <3> HIDE DEF a, b, r, s
      <3> QED BY <1>1, <2>1
    <2>3. /\ Rounded(n, step) = step * (IF up(r) THEN a + 1 ELSE a)
          /\ Rounded(m, step) = step * (IF up(s) THEN a + 1 ELSE a)
      BY <1>5 DEF Rounded
    <2>4. step * a <= step * (a + 1)
      <3> HIDE DEF a
      <3> QED BY <1>1
    <2>5. step * a \in Nat /\ step * (a + 1) \in Nat
      <3> HIDE DEF a
      <3> QED BY <1>1
    <2> HIDE DEF up, a
    <2> QED BY <2>2, <2>3, <2>4, <2>5
  <1>6. a <= b
    BY DivisionInOrder
  <1>7. a < b \/ a = b
    <2> HIDE DEF a, b, r, s
    <2> QED BY <1>1, <1>6
  <1> QED BY <1>4, <1>5, <1>7
-----------------------------------------------------------------------------
(* The nearest float. *)

\* The magnitudes that an exponent is there for.
Top == 2 ^ 17 * Significand

\* The magnitude of the nearest float.
Size(n) == Rounded(n, 2 ^ Exponent(n))

\* The largest number with an exponent.
LEMMA TopExponent == 17 \in Exponents /\ Top \in Nat
  BY BasePowers DEF Exponents, Top

\* The exponent is the least that holds n.
LEMMA ExponentIs ==
    ASSUME NEW n \in 0..Top
    PROVE  /\ Exponent(n) \in Exponents
           /\ n <= 2 ^ Exponent(n) * Significand
           /\ Exponent(n) = 0 \/ n > 2 ^ (Exponent(n) - 1) * Significand
  <1> DEFINE S == {k \in Exponents : n <= 2 ^ k * Significand}
  <1>1. 17 \in S /\ S \in SUBSET Nat
    BY TopExponent DEF Top, Exponents
  <1>2. PICK k \in S : \A j \in S : k <= j
    <2> HIDE DEF S
    <2> QED BY <1>1, Least
  <1>3. k = 0 \/ n > 2 ^ (k - 1) * Significand
    <2> SUFFICES ASSUME k # 0
                 PROVE  n > 2 ^ (k - 1) * Significand
      OBVIOUS
    <2>1. k - 1 \in Exponents /\ ~(k <= k - 1) /\ k - 1 \in Nat
      BY DEF Exponents
    <2>2. ~(n <= 2 ^ (k - 1) * Significand)
      BY <1>2, <2>1
    <2>3. 2 ^ (k - 1) \in Nat
      BY <2>1, PowerType
    <2> DEFINE bound == 2 ^ (k - 1) * Significand
    <2>4. bound \in Nat
      BY <2>3, BasePowers
    <2>5. n \in Nat
      BY TopExponent
    <2> HIDE DEF bound
    <2>6. n > bound
      BY <2>2, <2>4, <2>5 DEF bound
    <2> QED BY <2>6 DEF bound
  <1>4. \E e \in Exponents :
           /\ n <= 2 ^ e * Significand
           /\ e = 0 \/ n > 2 ^ (e - 1) * Significand
    BY <1>3
  <1> QED BY <1>4 DEF Exponent

\* A smaller exponent has smaller steps: they divide the greater one's.
LEMMA StepsInOrder ==
    ASSUME NEW j \in Exponents, NEW k \in Exponents, j <= k
    PROVE  /\ 2 ^ j \in Nat \ {0} /\ 2 ^ k \in Nat \ {0}
           /\ 2 ^ j <= 2 ^ k
           /\ 2 ^ j * Significand <= 2 ^ k * Significand
  <1> DEFINE a == 2 ^ j
             b == 2 ^ k
  <1>2. a \in Nat \ {0} /\ b \in Nat \ {0} /\ \E d \in Nat \ {0} : b = d * a
    BY PowerType, PowerDivides
  <1> HIDE DEF a, b
  <1>3. PICK d \in Nat \ {0} : b = d * a
    BY <1>2
  <1>4. a <= b
    BY <1>2, <1>3
  <1>5. a * Significand <= b * Significand
    BY <1>2, <1>4, BasePowers
  <1> QED BY <1>2, <1>4, <1>5 DEF a, b

\* No smaller exponent holds n.
LEMMA ExponentLeast ==
    ASSUME NEW n \in 0..Top, NEW j \in Exponents, n <= 2 ^ j * Significand
    PROVE  Exponent(n) <= j
  <1> DEFINE e == Exponent(n)
  <1>1. e \in Exponents /\ (e = 0 \/ n > 2 ^ (e - 1) * Significand)
    BY ExponentIs
  <1> HIDE DEF e
  <1>2. SUFFICES ASSUME ~(e <= j) PROVE FALSE
    BY DEF e
  <1>3. e # 0 /\ e - 1 \in Exponents /\ j <= e - 1
    BY <1>1, <1>2 DEF Exponents
  <1>4. 2 ^ j * Significand <= 2 ^ (e - 1) * Significand
        /\ 2 ^ j \in Nat /\ 2 ^ (e - 1) \in Nat
    BY <1>3, StepsInOrder
  <1> DEFINE a == 2 ^ j * Significand
             b == 2 ^ (e - 1) * Significand
  <1>5. a \in Nat /\ b \in Nat
    BY <1>4, BasePowers
  <1>6. n <= a /\ a <= b /\ n > b /\ n \in Nat
    BY <1>1, <1>3, <1>4, TopExponent
  <1> HIDE DEF a, b
  <1> QED BY <1>5, <1>6

\* What an f32 holds: at most a significand of steps of a power of two.
IsFloat(n) ==
    \E k \in Exponents, m \in 0..Significand : n = m * 2 ^ k

\* The nearest float is one, at the exponent of n.
LEMMA SizeIsFloat ==
    ASSUME NEW n \in 0..Top
    PROVE  /\ \E m \in 0..Significand : Size(n) = m * 2 ^ Exponent(n)
           /\ IsFloat(Size(n)) /\ Size(n) \in Nat
  <1> DEFINE e == Exponent(n)
             u == 2 ^ e
  <1>1. e \in Exponents /\ n <= u * Significand
    BY ExponentIs
  <1>2. u \in Nat \ {0}
    BY <1>1, PowerType
  <1>3. n \in Nat /\ Significand \in Nat /\ Significand * u \in Nat
    BY <1>2, TopExponent, BasePowers
  <1>4. Size(n) = Rounded(n, u)
    BY DEF Size
  <1> HIDE DEF e, u
  <1>5. PICK q \in Nat : Rounded(n, u) = u * q
    BY <1>2, <1>3, RoundedToStep
  <1>6. Rounded(n, u) <= Rounded(Significand * u, u)
    <2>1. n <= Significand * u
      BY <1>1, <1>2, <1>3
    <2> QED BY <1>2, <1>3, <2>1, RoundedInOrder
  <1>7. Rounded(Significand * u, u) = Significand * u
    BY <1>2, <1>3, RoundedMultiple
  <1>8. q <= Significand
    <2>1. SUFFICES ASSUME Significand + 1 <= q PROVE FALSE
      BY <1>3
    <2>2. (Significand + 1) * u <= q * u
      BY <1>2, <1>3, <2>1
    <2> QED BY <1>2, <1>3, <1>5, <1>6, <1>7, <2>2
  <1>9. q \in 0..Significand /\ Size(n) = q * u /\ Size(n) \in Nat
    BY <1>2, <1>3, <1>4, <1>5, <1>8
  <1> QED BY <1>1, <1>9 DEF IsFloat, e, u

\* A float is its own nearest.
LEMMA FloatIsNearest ==
    ASSUME NEW n \in 0..Top, IsFloat(n)
    PROVE  Size(n) = n
  <1>1. PICK k \in Exponents : \E m \in 0..Significand : n = m * 2 ^ k
    BY DEF IsFloat
  <1>2. PICK m \in 0..Significand : n = m * 2 ^ k
    BY <1>1
  <1> DEFINE e == Exponent(n)
             u == 2 ^ e
             v == 2 ^ k
  <1>3. e \in Exponents
    BY ExponentIs
  <1>4. v \in Nat \ {0} /\ n = m * v
    BY <1>1, <1>2, PowerType
  <1>5. e <= k
    <2>1. n <= v * Significand
      <3> HIDE DEF v
      <3> QED BY <1>4, BasePowers
    <2> QED BY <2>1, ExponentLeast
  <1>6. u \in Nat \ {0} /\ \E d \in Nat \ {0} : v = d * u
    BY <1>3, <1>5, PowerType, PowerDivides
  <1> HIDE DEF e, u, v
  <1>7. PICK d \in Nat \ {0} : v = d * u
    BY <1>6
  <1>8. n = (m * d) * u /\ m * d \in Nat
    BY <1>4, <1>6, <1>7
  <1>9. Rounded(n, u) = n
    BY <1>6, <1>8, RoundedMultiple
  <1> QED BY <1>9 DEF Size, e, u

\* Rounding keeps the order across the exponents: at a change of exponent the
\* border is itself a multiple of either step.
LEMMA SizeInOrder ==
    ASSUME NEW n \in 0..Top, NEW m \in 0..Top, n <= m
    PROVE  Size(n) <= Size(m)
  <1> DEFINE d == Exponent(n)
             e == Exponent(m)
             u == 2 ^ d
             v == 2 ^ e
             border == 2 ^ (e - 1) * Significand
  <1>1. /\ d \in Exponents /\ n <= u * Significand
        /\ e \in Exponents /\ m <= v * Significand /\ (e = 0 \/ m > border)
    BY ExponentIs
  <1>2. u \in Nat \ {0} /\ v \in Nat \ {0} /\ n \in Nat /\ m \in Nat
    BY <1>1, PowerType, TopExponent
  <1>3. d <= e
    <2>1. n <= v * Significand
      <3> HIDE DEF v
      <3> QED BY <1>1, <1>2, BasePowers
    <2> QED BY <1>1, <2>1, ExponentLeast
  <1>4. Size(n) = Rounded(n, u) /\ Size(m) = Rounded(m, v)
    BY DEF Size
  <1>5. CASE d = e
    <2>1. u = v
      BY <1>5
    <2> HIDE DEF d, e, u, v
    <2> QED BY <1>2, <1>4, <2>1, RoundedInOrder
  <1>6. CASE d # e
    <2>1. e # 0 /\ e - 1 \in Exponents /\ d <= e - 1 /\ e - 1 \in 0..16 /\ (e - 1) + 1 = e
      <3> HIDE DEF d, e
      <3> QED BY <1>1, <1>3, <1>6 DEF Exponents
    <2> DEFINE w == 2 ^ (e - 1)
    <2>2. /\ w \in Nat \ {0} /\ u * Significand <= w * Significand
          /\ v = 2 * w
      <3>1. 2 ^ ((e - 1) + 1) = 2 * 2 ^ (e - 1)
        BY <2>1, PowerNext
      <3> HIDE DEF e
      <3> QED BY <1>1, <2>1, <3>1, StepsInOrder
    <2>3. border = w * Significand /\ m > border
      BY <1>1, <2>1
    <2>4. Size(n) <= u * Significand
      <3>1. PICK q \in 0..Significand : Size(n) = q * u
        BY SizeIsFloat
      <3>2. Significand \in Nat
        BY BasePowers
      <3> HIDE DEF u
      <3> QED BY <1>2, <3>1, <3>2
    <2> HIDE DEF border, w, u, v, d, e
    <2>5. PICK half \in Nat : Significand = 2 * half
      <3>1. Significand = 2 * (Significand \div 2) /\ Significand \div 2 \in Nat
        BY BasePowers
      <3> QED BY <3>1
    <2>6. border = half * v /\ border \in Nat
      BY <2>2, <2>3, <2>5
    <2>7. Rounded(border, v) = border /\ Rounded(border, v) <= Rounded(m, v)
      <3>1. border <= m
        BY <1>2, <2>3, <2>6
      <3> QED BY <1>2, <2>5, <2>6, <3>1, RoundedMultiple, RoundedInOrder
    <2>8. Size(n) \in Nat /\ Size(m) \in Nat
      BY SizeIsFloat
    <2>9. u * Significand \in Nat
      BY <1>2, BasePowers
    <2> QED BY <1>4, <2>2, <2>3, <2>4, <2>6, <2>7, <2>8, <2>9
  <1> QED BY <1>5, <1>6

(* The same with signs. *)

InReach == (-Top)..Top

\* Nearest is odd: it rounds the magnitude and keeps the sign.
LEMMA NearestIs ==
    ASSUME NEW n \in InReach
    PROVE  /\ n >= 0 => n \in 0..Top /\ Nearest(n) = Size(n)
           /\ n <= 0 => -n \in 0..Top /\ Nearest(n) = -Size(-n)
           /\ Nearest(n) \in Int
  <1>1. n \in Int /\ Top \in Nat /\ -Top <= n /\ n <= Top
    BY TopExponent DEF InReach
  <1>2. CASE n > 0
    <2>1. n \in 0..Top /\ Magnitude(n) = n /\ ~(n < 0)
      BY <1>1, <1>2 DEF Magnitude
    <2>2. Nearest(n) = Size(n) /\ Size(n) \in Nat
      BY <2>1, SizeIsFloat DEF Nearest, Size
    <2> QED BY <1>1, <1>2, <2>1, <2>2
  <1>3. CASE n < 0
    <2>1. -n \in 0..Top /\ Magnitude(n) = -n
      BY <1>1, <1>3 DEF Magnitude
    <2>2. Nearest(n) = -Size(-n) /\ Size(-n) \in Nat
      BY <1>3, <2>1, SizeIsFloat DEF Nearest, Size
    <2> QED BY <1>1, <1>3, <2>1, <2>2
  <1>4. CASE n = 0
    <2>1. 0 \in 0..Top /\ Magnitude(0) = 0
      BY <1>1 DEF Magnitude
    <2>2. IsFloat(0)
      <3>1. 0 \in Exponents /\ 0 \in 0..Significand /\ 0 = 0 * 2 ^ 0
        BY BasePowers DEF Exponents
      <3> QED BY <3>1 DEF IsFloat
    <2>3. Size(0) = 0
      BY <2>1, <2>2, FloatIsNearest
    <2>4. Nearest(0) = Size(0)
      BY <2>1 DEF Nearest, Size
    <2> QED BY <1>4, <2>1, <2>3, <2>4
  <1> QED BY <1>1, <1>2, <1>3, <1>4

\* Rounding to a float keeps the order.
LEMMA NearestInOrder ==
    ASSUME NEW n \in InReach, NEW m \in InReach, n <= m
    PROVE  Nearest(n) <= Nearest(m)
  <1>1. n \in Int /\ m \in Int
    BY TopExponent DEF InReach
  <1>2. CASE n >= 0
    <2>1. /\ n \in 0..Top /\ m \in 0..Top
          /\ Nearest(n) = Size(n) /\ Nearest(m) = Size(m)
      BY <1>1, <1>2, NearestIs
    <2> QED BY <2>1, SizeInOrder
  <1>3. CASE m <= 0
    <2>1. /\ -n \in 0..Top /\ -m \in 0..Top /\ -m <= -n
          /\ Nearest(n) = -Size(-n) /\ Nearest(m) = -Size(-m)
      BY <1>1, <1>3, NearestIs
    <2>2. Size(-m) <= Size(-n) /\ Size(-m) \in Nat /\ Size(-n) \in Nat
      BY <2>1, SizeInOrder, SizeIsFloat
    <2> QED BY <2>1, <2>2
  <1>4. CASE n < 0 /\ m > 0
    <2>1. /\ -n \in 0..Top /\ m \in 0..Top
          /\ Nearest(n) = -Size(-n) /\ Nearest(m) = Size(m)
      BY <1>1, <1>4, NearestIs
    <2>2. Size(m) \in Nat /\ Size(-n) \in Nat
      BY <2>1, SizeIsFloat
    <2> QED BY <2>1, <2>2
  <1> QED BY <1>1, <1>2, <1>3, <1>4

\* A float of either sign is its own nearest.
LEMMA FloatKept ==
    ASSUME NEW n \in 0..Top, IsFloat(n)
    PROVE  Nearest(n) = n /\ Nearest(-n) = -n
  <1>1. n \in Int /\ n >= 0 /\ n \in InReach /\ -n \in InReach /\ -n <= 0 /\ -(-n) = n
    BY TopExponent DEF InReach
  <1>2. Size(n) = n
    BY FloatIsNearest
  <1>3. Nearest(n) = Size(n)
    BY <1>1, NearestIs
  <1>4. Nearest(-n) = -Size(-(-n))
    BY <1>1, NearestIs
  <1> QED BY <1>1, <1>2, <1>3, <1>4

\* Full scale is a float.
LEMMA HalfIsFloat ==
    /\ IsFloat(Half) /\ Half \in 0..Top /\ Nearest(Half) = Half /\ Nearest(-Half) = -Half
  <1>1. PICK t \in 1..7 : Half = 2 ^ t * Significand
    BY FullScale
  <1>0. t \in Exponents
    BY DEF Exponents
  <1>2. t \in Exponents /\ 2 ^ t \in Nat
    BY <1>0, PowerType
  <1>3. Significand \in 0..Significand /\ Significand \in Nat
    BY BasePowers
  <1>4. Half = Significand * 2 ^ t
    BY <1>1, <1>2, <1>3
  <1>5. IsFloat(Half)
    BY <1>2, <1>3, <1>4 DEF IsFloat
  <1>6. Half \in 0..Top
    <2>1. t <= 17
      OBVIOUS
    <2>2. 2 ^ t * Significand <= Top
      BY <1>2, <2>1, TopExponent, StepsInOrder DEF Top
    <2> QED BY <1>1, <2>2, BasePowers, TopExponent
  <1> QED BY <1>5, <1>6, FloatKept

\* Within full scale the nearest float is, too.
LEMMA NearestWithin ==
    ASSUME NEW n \in (-Half)..Half
    PROVE  n \in InReach /\ Nearest(n) \in (-Half)..Half
  <1>1. /\ Half \in Nat /\ Top \in Nat /\ Half <= Top
        /\ Nearest(Half) = Half /\ Nearest(-Half) = -Half
    BY HalfIsFloat, TopExponent, BasePowers
  <1>2. n \in InReach /\ Half \in InReach /\ -Half \in InReach
        /\ -Half <= n /\ n <= Half
    BY <1>1 DEF InReach
  <1>3. Nearest(-Half) <= Nearest(n) /\ Nearest(n) <= Nearest(Half)
    BY <1>2, NearestInOrder
  <1> QED BY <1>1, <1>2, <1>3, NearestIs

\* An integer the significand holds is a float.
LEMMA SmallIsFloat ==
    ASSUME NEW n \in (-Significand)..Significand
    PROVE  n \in Int /\ Nearest(n) = n
  <1> DEFINE m == Magnitude(n)
  <1>1. Significand \in Nat /\ Significand <= Top /\ Top \in Nat
    BY BasePowers, TopExponent DEF Top
  <1>2. m \in 0..Significand /\ (n = m \/ n = -m)
    BY <1>1 DEF Magnitude
  <1> HIDE DEF m
  <1>3. 0 \in Exponents /\ m = m * 2 ^ 0 /\ m \in 0..Top
    BY <1>1, <1>2 DEF Exponents
  <1>4. IsFloat(m)
    BY <1>2, <1>3 DEF IsFloat
  <1> QED BY <1>1, <1>2, <1>3, <1>4, FloatKept

\* The nearest float is its own nearest.
LEMMA NearestKept ==
    ASSUME NEW n \in InReach
    PROVE  /\ Nearest(n) \in InReach /\ Nearest(Nearest(n)) = Nearest(n)
           /\ IsFloat(Magnitude(Nearest(n)))
  <1>1. \A m \in 0..Top : Size(m) \in 0..Top /\ IsFloat(Size(m))
    <2>1. IsFloat(Top)
      <3>1. 17 \in Exponents /\ Significand \in 0..Significand /\ Top = Significand * 2 ^ 17
        BY BasePowers DEF Exponents, Top
      <3> QED BY <3>1 DEF IsFloat
    <2>2. Top \in 0..Top /\ Size(Top) = Top
      <3>1. Top \in 0..Top
        BY TopExponent
      <3> QED BY <2>1, <3>1, FloatIsNearest
    <2>3. ASSUME NEW m \in 0..Top
          PROVE  Size(m) \in 0..Top /\ IsFloat(Size(m))
      <3>1. m <= Top /\ m \in 0..Top
        BY TopExponent
      <3>2. Size(m) <= Size(Top)
        BY <2>2, <3>1, SizeInOrder
      <3>3. Size(m) \in Nat /\ IsFloat(Size(m))
        BY SizeIsFloat
      <3> QED BY <2>2, <3>2, <3>3, TopExponent
    <2> QED BY <2>3
  <1>2. n \in Int /\ (n >= 0 \/ n <= 0) /\ Top \in Nat
    BY TopExponent DEF InReach
  <1>3. CASE n >= 0
    <2>1. n \in 0..Top /\ Nearest(n) = Size(n)
      BY <1>3, NearestIs
    <2>2. Size(n) \in 0..Top /\ IsFloat(Size(n)) /\ Magnitude(Size(n)) = Size(n)
          /\ Size(n) \in InReach
      BY <1>1, <1>2, <2>1 DEF Magnitude, InReach
    <2> QED BY <2>1, <2>2, FloatKept
  <1>4. CASE n <= 0
    <2> DEFINE s == Size(-n)
    <2>1. -n \in 0..Top /\ Nearest(n) = -s
      BY <1>4, NearestIs
    <2>2. s \in 0..Top /\ IsFloat(s)
      BY <1>1, <2>1
    <2>3. Magnitude(-s) = s /\ -s \in InReach
      <3> HIDE DEF s
      <3> QED BY <1>2, <2>2 DEF Magnitude, InReach
    <2>4. Nearest(-s) = -s
      BY <2>2, FloatKept
    <2> HIDE DEF s
    <2> QED BY <2>1, <2>2, <2>3, <2>4
  <1> QED BY <1>2, <1>3, <1>4

\* A float within full scale is one Base times over.
LEMMA FloatTimesBase ==
    ASSUME NEW n \in 0..Half, IsFloat(n)
    PROVE  n * Base \in 0..Top /\ IsFloat(n * Base)
  <1>1. PICK t \in 1..7 : Base = 2 * 2 ^ t /\ Half = 2 ^ t * Significand
    BY FullScale
  <1> DEFINE e == Exponent(n)
             u == 2 ^ e
  <1>2. t \in Exponents /\ t \in Nat /\ t + 1 \in Nat /\ t \in 0..16
    BY DEF Exponents
  <1>3. n \in 0..Top /\ n \in Nat /\ n <= Half /\ Half \in Nat
    BY HalfIsFloat, BasePowers, TopExponent
  <1>4. e <= t /\ e \in Exponents
    BY <1>1, <1>2, <1>3, ExponentLeast, ExponentIs
  <1>5. PICK m \in 0..Significand : Size(n) = m * u
    BY <1>3, SizeIsFloat
  <1>6. n = m * u
    BY <1>3, <1>5, FloatIsNearest
  <1>7. e \in Nat /\ e + (t + 1) <= 17 /\ e + (t + 1) \in Exponents
    <2> HIDE DEF e
    <2> QED BY <1>4 DEF Exponents
  <1>8. 2 ^ (e + (t + 1)) = 2 ^ (t + 1) * u
    BY <1>2, <1>7, PowerSum
  <1>9. 2 ^ (t + 1) = Base
    BY <1>1, <1>2, PowerNext
  <1>10. u \in Nat /\ Base \in Nat /\ m \in Nat
    BY <1>4, PowerType, BasePowers
  <1>11. n * Base = m * (Base * u)
    <2> HIDE DEF u
    <2> QED BY <1>6, <1>10
  <1>12. IsFloat(n * Base)
    <2>1. n * Base = m * 2 ^ (e + (t + 1))
      BY <1>8, <1>9, <1>11
    <2> QED BY <1>7, <2>1 DEF IsFloat
  <1>13. n * Base \in 0..Top
    <2> DEFINE b == Base * Half
    <2>1. n * Base \in Nat /\ n * Base <= b /\ b \in Nat
      BY <1>3, <1>10
    <2>2. 4 * b <= Top
      <3>1. 4 * b = 4 * Base * Half
        BY <1>3, <1>10
      <3> QED BY <3>1, BasePowers DEF Top
    <2> HIDE DEF b
    <2> QED BY <2>1, <2>2, TopExponent
  <1> QED BY <1>12, <1>13

\* The greatest i32 becomes full scale.
LEMMA NearestFullScale == Nearest(Half - 1) = Half
  <1>1. PICK t \in 1..7 : Base = 2 * 2 ^ t /\ Half = 2 ^ t * Significand
    BY FullScale
  <1> DEFINE n == Half - 1
             u == 2 ^ t
  <1>2. t \in Exponents /\ t - 1 \in Exponents /\ t - 1 \in 0..16 /\ (t - 1) + 1 = t
    BY DEF Exponents
  <1>3. u = 2 * 2 ^ (t - 1) /\ 2 ^ (t - 1) \in Nat \ {0} /\ u \in Nat
    BY <1>2, PowerNext, PowerType
  <1>4. Significand \in Nat /\ Significand % 2 = 0 /\ Significand > 3
    BY BasePowers
  <1>5. /\ n \in 0..Top /\ n \in Nat /\ n \in InReach /\ n >= 0
    BY HalfIsFloat, BasePowers, TopExponent DEF InReach
  <1>6. Exponent(n) = t
    <2> DEFINE e == Exponent(n)
               w == 2 ^ (t - 1) * Significand
    <2>1. e <= t
      <3>1. n <= 2 ^ t * Significand
        BY <1>1, BasePowers
      <3> QED BY <1>2, <1>5, <3>1, ExponentLeast
    <2>2. e \in Exponents /\ n <= 2 ^ e * Significand
      BY <1>5, ExponentIs
    <2>3. ~(e <= t - 1)
      <3> SUFFICES ASSUME e <= t - 1 PROVE FALSE
        OBVIOUS
      <3>1. 2 ^ e * Significand <= w /\ 2 ^ e * Significand \in Nat /\ w \in Nat
        <4>1. 2 ^ e \in Nat
          BY <2>2, PowerType
        <4>2. 2 ^ e * Significand \in Nat
          BY <1>4, <4>1
        <4>3. 2 ^ e * Significand <= w
          BY <1>2, <2>2, StepsInOrder
        <4>4. w \in Nat
          BY <1>3, <1>4
        <4> QED BY <4>2, <4>3, <4>4
      <3>2. Half = 2 * w
        BY <1>1, <1>3, <1>4
      <3>3. w >= 2
        BY <1>3, <1>4
      <3> HIDE DEF w
      <3>4. n > w
        BY <3>1, <3>2, <3>3
      <3> DEFINE x == 2 ^ e * Significand
      <3>5. x <= w /\ n <= x /\ x \in Nat
        BY <2>2, <3>1
      <3> HIDE DEF x, n
      <3> QED BY <1>5, <3>1, <3>4, <3>5
    <2> HIDE DEF e
    <2> QED BY <2>1, <2>2, <2>3 DEF e, Exponents
  <1>7. Rounded(n, u) = Half
    <2>1. n = (Significand - 1) * u + (u - 1) /\ u >= 2
      <3> HIDE DEF u
      <3>1. Half = u * Significand
        BY <1>1 DEF u
      <3> QED BY <1>3, <1>4, <3>1 DEF u
    <2>2. n \div u = Significand - 1 /\ n % u = u - 1
      <3>1. Significand - 1 \in Int /\ u \in Nat \ {0} /\ u - 1 \in 0..(u - 1)
        BY <1>3, <1>4, <2>1
      <3> HIDE DEF n, u
      <3> QED BY <2>1, <3>1, DivisionUnique
    <2>3. (Significand - 1) % 2 = 1
      BY <1>4
    <2>4. 2 * (u - 1) > u \/ 2 * (u - 1) = u
      <3> HIDE DEF u
      <3> QED BY <1>3, <2>1
    <2>5. Rounded(n, u) = u * ((Significand - 1) + 1)
      <3> HIDE DEF u, n
      <3> QED BY <2>2, <2>3, <2>4 DEF Rounded
    <2>6. (Significand - 1) + 1 = Significand
      BY <1>4
    <2> QED BY <1>1, <2>5, <2>6
  <1>8. Size(n) = Half
    BY <1>6, <1>7 DEF Size
  <1>9. Nearest(n) = Size(n)
    BY <1>5, NearestIs
  <1> QED BY <1>8, <1>9
-----------------------------------------------------------------------------
(* The mixer. *)

\* Truncation keeps the order and the sign.
LEMMA QuotientInOrder ==
    ASSUME NEW n \in Int, NEW m \in Int, n <= m, NEW d \in Nat \ {0}
    PROVE  /\ Quotient(n, d) \in Int /\ Quotient(m, d) \in Int
           /\ Quotient(n, d) <= Quotient(m, d)
  <1>1. \A k \in Int : /\ k >= 0 => Quotient(k, d) = k \div d /\ (k \div d) \in Nat
                       /\ k < 0 => Quotient(k, d) = -((-k) \div d) /\ ((-k) \div d) \in Nat
    BY Division DEF Quotient
  <1>2. CASE n >= 0
    <2>1. n \in Nat /\ m \in Nat /\ m >= 0
      BY <1>2
    <2> QED BY <1>1, <1>2, <2>1, DivisionInOrder
  <1>3. CASE m < 0
    <2>1. -n \in Nat /\ -m \in Nat /\ -m <= -n /\ n < 0
      BY <1>3
    <2>2. (-m) \div d <= (-n) \div d
      BY <2>1, DivisionInOrder
    <2> QED BY <1>1, <1>3, <2>1, <2>2
  <1>4. CASE n < 0 /\ m >= 0
    BY <1>1, <1>4
  <1> QED BY <1>2, <1>3, <1>4

\* A multiple is divided without a rest, on both sides of zero.
LEMMA QuotientOfMultiple ==
    ASSUME NEW q \in Nat, NEW d \in Nat \ {0}
    PROVE  Quotient(q * d, d) = q /\ Quotient(-(q * d), d) = -q
  <1>1. 0 \in 0..(d - 1) /\ q * d + 0 = q * d /\ q * d \in Nat
    OBVIOUS
  <1>2. (q * d) \div d = q
    BY <1>1, DivisionUnique
  <1>3. Quotient(q * d, d) = q
    BY <1>1, <1>2 DEF Quotient
  <1>4. CASE q = 0
    BY <1>3, <1>4
  <1>5. CASE q # 0
    <2>1. q * d > 0 /\ -(q * d) < 0 /\ -(-(q * d)) = q * d
      BY <1>5
    <2> HIDE DEF Quotient
    <2> QED BY <1>2, <2>1 DEF Quotient
  <1> QED BY <1>3, <1>4, <1>5

\* A quotient is nearer to zero than the fraction by less than one.
LEMMA QuotientWithin ==
    ASSUME NEW c \in Int, NEW d \in Nat \ {0}
    PROVE  /\ Quotient(c, d) \in Int /\ Quotient(c, d) * c >= 0
           /\ Magnitude(Quotient(c, d)) * d <= Magnitude(c)
           /\ Magnitude(c) < (Magnitude(Quotient(c, d)) + 1) * d
           /\ Magnitude(Quotient(c, d)) <= Magnitude(c)
           /\ d = 1 => Quotient(c, d) = c
  <1> DEFINE m == Magnitude(c)
             a == m \div d
  <1>1. m \in Nat /\ (c < 0 => m = -c) /\ (c >= 0 => m = c)
    BY DEF Magnitude
  <1>2. a \in Nat /\ a * d <= m /\ m < a * d + d
    BY <1>1, Division
  <1>3. Quotient(c, d) = IF c < 0 THEN -a ELSE a
    BY <1>1 DEF Quotient
  <1> HIDE DEF m, a
  <1>4. (a + 1) * d = a * d + d /\ a <= a * d /\ a * d \in Nat
    BY <1>2
  <1>5. d = 1 => a = m
    BY <1>1, <1>2
  <1>6. CASE c < 0
    <2>1. Quotient(c, d) = -a /\ Magnitude(-a) = a
      BY <1>2, <1>3, <1>6 DEF Magnitude
    <2>2. (-a) * c >= 0
      BY <1>2, <1>6
    <2> QED BY <1>1, <1>2, <1>4, <1>5, <1>6, <2>1, <2>2 DEF m
  <1>7. CASE c >= 0
    <2>1. Quotient(c, d) = a /\ Magnitude(a) = a
      BY <1>2, <1>3, <1>7 DEF Magnitude
    <2>2. a * c >= 0
      BY <1>2, <1>7
    <2> QED BY <1>1, <1>2, <1>4, <1>5, <1>7, <2>1, <2>2 DEF m
  <1> QED BY <1>6, <1>7

\* The cast saturates, keeps the order, and keeps what fits.
LEMMA Saturated ==
    ASSUME NEW n \in Int
    PROVE  /\ ToI32(n) \in I32
           /\ n \in I32 => ToI32(n) = n
           /\ \A m \in Int : m <= n => ToI32(m) <= ToI32(n)
           /\ \A a \in Nat : -a <= n /\ n <= a => -a <= ToI32(n) /\ ToI32(n) <= a
  BY BasePowers DEF ToI32, Clamp, I32

\* The product of a sample and a volume is one that a float is there for.
LEMMA Product ==
    ASSUME NEW s \in I32, NEW vol \in 0..(4 * Base)
    PROVE  /\ s \in InReach /\ s \in (-Half)..Half
           /\ Nearest(s) \in (-Half)..Half
           /\ Nearest(s) * vol \in InReach
  <1>1. s \in (-Half)..Half
    BY BasePowers DEF I32
  <1>2. s \in InReach /\ Nearest(s) \in (-Half)..Half
    BY <1>1, NearestWithin
  <1>3. Nearest(s) * vol \in InReach
    <2> DEFINE x == Nearest(s)
               most == 4 * Base
    <2>1. x \in (-Half)..Half /\ Half \in Nat /\ most \in Nat /\ vol \in 0..most
      BY <1>2, BasePowers
    <2>2. most * Half <= Top /\ Top \in Nat
      BY BasePowers, TopExponent DEF Top
    <2> HIDE DEF x, most
    <2>3. vol * Half <= most * Half
      BY <2>1
    <2>4. x * vol <= vol * Half /\ -(vol * Half) <= x * vol
      BY <2>1
    <2>5. x * vol \in Int /\ vol * Half \in Int /\ most * Half \in Int
      BY <2>1
    <2> QED BY <2>2, <2>3, <2>4, <2>5 DEF InReach, x
  <1> QED BY <1>1, <1>2, <1>3

\* A scaled sample is an i32.
LEMMA ScaledType ==
    ASSUME NEW s \in I32, NEW vol \in 0..(4 * Base)
    PROVE  Scaled(s, vol) \in I32
  <1>1. Nearest(Nearest(s) * vol) \in Int
    BY Product, NearestIs
  <1>2. Quotient(Nearest(Nearest(s) * vol), Base) \in Int
    BY <1>1, QuotientInOrder, BasePowers
  <1> QED BY <1>2, Saturated DEF Scaled

\* A louder sample is scaled to one that is no softer.
LEMMA ScaledMonotone ==
    ASSUME NEW r \in I32, NEW s \in I32, r <= s, NEW vol \in 0..(4 * Base)
    PROVE  Scaled(r, vol) <= Scaled(s, vol)
  <1> DEFINE x == Nearest(r)
             y == Nearest(s)
  <1>1. x <= y /\ x \in Int /\ y \in Int /\ vol \in Nat
    BY Product, NearestInOrder, NearestIs, BasePowers
  <1>2. x * vol \in InReach /\ y * vol \in InReach
    BY Product
  <1> HIDE DEF x, y
  <1>3. x * vol <= y * vol
    BY <1>1
  <1>4. /\ Nearest(x * vol) <= Nearest(y * vol)
        /\ Nearest(x * vol) \in Int /\ Nearest(y * vol) \in Int
    BY <1>2, <1>3, NearestInOrder, NearestIs
  <1>5. Quotient(Nearest(x * vol), Base) <= Quotient(Nearest(y * vol), Base)
        /\ Quotient(Nearest(x * vol), Base) \in Int /\ Quotient(Nearest(y * vol), Base) \in Int
    <2> DEFINE p == Nearest(x * vol)
               q == Nearest(y * vol)
    <2>1. p \in Int /\ q \in Int /\ p <= q /\ Base \in Nat \ {0}
      BY <1>4, BasePowers
    <2> HIDE DEF p, q
    <2>2. Quotient(p, Base) \in Int /\ Quotient(q, Base) \in Int
          /\ Quotient(p, Base) <= Quotient(q, Base)
      BY <2>1, QuotientInOrder
    <2> QED BY <2>2 DEF p, q
  <1>6. ToI32(Quotient(Nearest(x * vol), Base)) <= ToI32(Quotient(Nearest(y * vol), Base))
    BY <1>5, Saturated
  <1> QED BY <1>6 DEF Scaled, x, y

\* Silence stays silence.
LEMMA ScaledZero ==
    ASSUME NEW vol \in 0..(4 * Base)
    PROVE  0 \in I32 /\ Scaled(0, vol) = 0
  <1>1. 0 \in I32
    BY BasePowers DEF I32
  <1>2. Nearest(0) = 0
    <2>1. 0 \in Exponents /\ 0 \in 0..Significand /\ 0 = 0 * 2 ^ 0 /\ 0 \in 0..Top
      BY BasePowers, TopExponent DEF Exponents
    <2>2. IsFloat(0)
      BY <2>1 DEF IsFloat
    <2> QED BY <2>1, <2>2, FloatKept
  <1>3. 0 * vol = 0
    BY BasePowers
  <1>4. Quotient(0, Base) = 0
    <2>1. 0 * Base = 0
      BY BasePowers
    <2> QED BY <2>1, QuotientOfMultiple, BasePowers
  <1>5. ToI32(0) = 0
    BY <1>1, Saturated
  <1> QED BY <1>1, <1>2, <1>3, <1>4, <1>5 DEF Scaled

\* Below unity nothing gets louder than the float the sample becomes.
LEMMA ScaledBelow ==
    ASSUME NEW s \in I32, NEW vol \in 0..(4 * Base), vol < Base
    PROVE  Magnitude(Scaled(s, vol)) <= Magnitude(Nearest(s))
  <1> DEFINE x == Nearest(s)
             a == Magnitude(x)
  <1>1. x \in (-Half)..Half /\ x * vol \in InReach /\ s \in InReach
    BY Product
  <1>2. IsFloat(a)
    BY <1>1, NearestKept
  <1>3. Half \in Nat /\ Base \in Nat \ {0} /\ vol \in Nat
    BY BasePowers
  <1>4. a \in 0..Half /\ a \in Nat
    BY <1>1, <1>3 DEF Magnitude
  <1>5. a * Base \in 0..Top /\ IsFloat(a * Base)
    BY <1>2, <1>4, FloatTimesBase
  <1>6. Nearest(a * Base) = a * Base /\ Nearest(-(a * Base)) = -(a * Base)
    BY <1>5, FloatKept
  <1>7. -(a * Base) <= x * vol /\ x * vol <= a * Base
    <2>1. a * vol <= a * Base
      <3> HIDE DEF a
      <3> QED BY <1>3, <1>4
    <2>2. -(a * vol) <= x * vol /\ x * vol <= a * vol
      <3>1. a = x \/ a = -x
        BY DEF Magnitude
      <3>2. x <= a /\ -a <= x /\ x \in Int
        BY <1>1, <1>3 DEF Magnitude
      <3> HIDE DEF a, x
      <3> QED BY <1>3, <1>4, <3>2
    <2>3. a * vol \in Int /\ a * Base \in Int /\ x * vol \in Int
      <3> HIDE DEF a
      <3> QED BY <1>1, <1>3, <1>4
    <2> HIDE DEF a, x
    <2> QED BY <2>1, <2>2, <2>3
  <1>8. /\ a * Base \in InReach /\ -(a * Base) \in InReach
    BY <1>5, TopExponent DEF InReach
  <1> DEFINE y == Nearest(x * vol)
             q == Quotient(y, Base)
  <1>9. -(a * Base) <= y /\ y <= a * Base /\ y \in Int /\ a * Base \in Nat
    <2>1. Nearest(-(a * Base)) <= Nearest(x * vol) /\ Nearest(x * vol) <= Nearest(a * Base)
      BY <1>1, <1>7, <1>8, NearestInOrder
    <2>2. a * Base \in Nat
      BY <1>5, TopExponent
    <2> QED BY <1>1, <1>6, <2>1, <2>2, NearestIs
  <1>10. -a <= q /\ q <= a /\ q \in Int
    <2>1. Quotient(a * Base, Base) = a /\ Quotient(-(a * Base), Base) = -a
      BY <1>3, <1>4, QuotientOfMultiple
    <2> HIDE DEF y, a
    <2>2. -(a * Base) \in Int
      BY <1>9
    <2> QED BY <1>3, <1>9, <2>1, <2>2, QuotientInOrder
  <1>11. Scaled(s, vol) = ToI32(q)
    BY <1>3 DEF Scaled
  <1>12. -a <= ToI32(q) /\ ToI32(q) <= a /\ ToI32(q) \in Int
    <2>1. I32 \subseteq Int
      BY <1>3 DEF I32
    <2> HIDE DEF a, q
    <2> QED BY <1>4, <1>10, <2>1, Saturated
  <1>13. Magnitude(ToI32(q)) <= a
    <2> HIDE DEF a, q
    <2> QED BY <1>4, <1>12 DEF Magnitude
  <1> QED BY <1>11, <1>13

\* The volumes a channel can have.
LEMMA VolumeType ==
    ASSUME NEW p \in Percents
    PROVE  Volume(p) \in 0..(4 * Base)
  <1> DEFINE c == Clamp(p, 0, 400)
  <1>1. c \in 0..400
    BY PercentsAssumption DEF Clamp
  <1>2. Base \in Nat
    BY BasePowers
  <1> HIDE DEF c
  <1>3. c * Base \in Nat /\ c * Base <= 400 * Base
    BY <1>1, <1>2
  <1>4. (c * Base) \div 100 \in 0..(4 * Base)
    <2> DEFINE n == c * Base
    <2> HIDE DEF n
    <2>1. n \in Nat /\ n <= 400 * Base
      BY <1>3 DEF n
    <2>2. n \div 100 \in 0..(4 * Base)
      BY <1>2, <2>1
    <2> QED BY <2>2 DEF n
  <1> QED BY <1>4 DEF Volume, c
-----------------------------------------------------------------------------
(* The bytes. *)

\* The value of the first i bytes.
Sum(bytes, i) ==
    CASE i = 0 -> 0
      [] i = 1 -> bytes[1]
      [] i = 2 -> bytes[1] + bytes[2] * Base
      [] i = 3 -> bytes[1] + bytes[2] * Base + bytes[3] * Base ^ 2
      [] i = 4 -> bytes[1] + bytes[2] * Base + bytes[3] * Base ^ 2 + bytes[4] * Base ^ 3

\* Each byte counts for its place, and those below it for less than one of it.
LEMMA Places ==
    ASSUME NEW n \in 2..4, NEW bytes \in [1..n -> Digit], NEW i \in 1..n
    PROVE  /\ Sum(bytes, i) = Sum(bytes, i - 1) + bytes[i] * Base ^ (i - 1)
           /\ Base ^ (i - 1) \in Nat \ {0} /\ Base ^ i = Base * Base ^ (i - 1)
           /\ Sum(bytes, i - 1) \in 0..(Base ^ (i - 1) - 1)
           /\ bytes[i] \in 0..(Base - 1)
  <1> DEFINE P(j) == Base ^ (j - 1)
             S(j) == Sum(bytes, j - 1)
             Place(j) == /\ Sum(bytes, j) = S(j) + bytes[j] * P(j)
                         /\ P(j) \in Nat \ {0} /\ Base ^ j = Base * P(j)
             Below(j) == S(j) \in 0..(P(j) - 1)
  <1>1. \A j \in 1..n : bytes[j] \in 0..(Base - 1) /\ bytes[j] \in Nat
    BY BasePowers DEF Digit
  <1>2. \A j \in 1..n : Place(j)
    <2> SUFFICES ASSUME NEW j \in 1..n
                 PROVE  Place(j)
      OBVIOUS
    <2>1. j = 1 \/ j = 2 \/ j = 3 \/ j = 4
      OBVIOUS
    <2>2. CASE j = 1
      <3>1. Sum(bytes, 1) = bytes[1] /\ Sum(bytes, 0) = 0 /\ bytes[1] \in Nat
        BY <1>1, <2>2 DEF Sum
      <3>2. Base ^ (1 - 1) = 1 /\ Base ^ 1 = Base /\ Base \in Nat
        BY BasePowers
      <3> QED BY <2>2, <3>1, <3>2
    <2>a. /\ Base ^ 1 = Base /\ Base ^ 2 = Base * Base ^ 1 /\ Base ^ 3 = Base * Base ^ 2
          /\ Base ^ 4 = Base * Base ^ 3
      BY BasePowers
    <2>b. Base ^ 1 \in Nat \ {0} /\ Base ^ 2 \in Nat \ {0} /\ Base ^ 3 \in Nat \ {0}
      BY BasePowers
    <2>3. CASE j = 2
      <3>1. Sum(bytes, 2) = Sum(bytes, 1) + bytes[2] * Base ^ 1
        BY <2>a DEF Sum
      <3> QED BY <2>3, <2>a, <2>b, <3>1
    <2>4. CASE j = 3
      <3>1. Sum(bytes, 3) = Sum(bytes, 2) + bytes[3] * Base ^ 2
        BY DEF Sum
      <3> QED BY <2>4, <2>a, <2>b, <3>1
    <2>5. CASE j = 4
      <3>1. Sum(bytes, 4) = Sum(bytes, 3) + bytes[4] * Base ^ 3
        BY DEF Sum
      <3> QED BY <2>5, <2>a, <2>b, <3>1
    <2> QED BY <2>1, <2>2, <2>3, <2>4, <2>5
  <1>3. ASSUME NEW j \in 1..n, j + 1 \in 1..n, Below(j)
        PROVE  Below(j + 1)
    <2> DEFINE p == P(j)
               w == S(j)
               d == bytes[j]
    <2>1. /\ Sum(bytes, j) = w + d * p /\ Base ^ j = Base * p /\ p \in Nat \ {0}
          /\ w \in 0..(p - 1) /\ d \in 0..(Base - 1) /\ Base \in Nat
      BY <1>1, <1>2, <1>3, BasePowers
    <2>2. (j + 1) - 1 = j
      OBVIOUS
    <2> HIDE DEF p, w, d
    <2>3. d * p <= (Base - 1) * p /\ d * p \in Nat /\ (Base - 1) * p = Base * p - p
      BY <2>1
    <2>4. Sum(bytes, j) \in 0..(Base ^ j - 1)
      BY <2>1, <2>3
    <2> QED BY <2>2, <2>4
  <1>4. Below(1)
    <2>1. Sum(bytes, 0) = 0 /\ Base ^ 0 = 1 /\ 1 - 1 = 0
      BY BasePowers DEF Sum
    <2> QED BY <2>1
  <1> HIDE DEF Place, Below
  <1>5. 1 \in 1..n /\ 2 \in 1..n /\ 1 + 1 = 2 /\ 2 + 1 = 3 /\ 3 + 1 = 4
    OBVIOUS
  <1>6. Below(2)
    BY <1>3, <1>4, <1>5
  <1>7. 3 \in 1..n => Below(3)
    BY <1>3, <1>5, <1>6
  <1>8. 4 \in 1..n => 3 \in 1..n /\ Below(4)
    <2>1. 4 \in 1..n => 3 \in 1..n
      OBVIOUS
    <2> QED BY <1>3, <1>5, <1>7, <2>1
  <1>9. Below(i)
    <2>1. i = 1 \/ i = 2 \/ i = 3 \/ i = 4
      OBVIOUS
    <2> QED BY <1>4, <1>6, <1>7, <1>8, <2>1
  <1> QED BY <1>1, <1>2, <1>9 DEF Place, Below

\* The recursive sum of from_le_bytes is the sum of the bytes at their places.
LEMMA UnsignedIs ==
    ASSUME NEW n \in 2..4, NEW bytes \in [1..n -> Digit]
    PROVE  Len(bytes) = n /\ Unsigned(bytes) = Sum(bytes, n)
  <1>1. Len(bytes) = n
    <2>1. bytes \in Seq(Digit)
      <3>1. n \in Nat
        OBVIOUS
      <3> QED BY <3>1, SeqDef
    <2>2. Len(bytes) \in Nat /\ DOMAIN bytes = 1..Len(bytes)
      BY <2>1, LenProperties
    <2>3. DOMAIN bytes = 1..n
      OBVIOUS
    <2> HIDE DEF Digit
    <2> QED BY <2>2, <2>3
  <1>3. \A i \in 1..n : Sum(bytes, i) = Sum(bytes, i - 1) + bytes[i] * Base ^ (i - 1)
    BY Places
  <1>4. Sum(bytes, 0) = 0
    BY DEF Sum
  <1> HIDE DEF Sum
  <1> DEFINE f == [i \in 0..n |-> Sum(bytes, i)]
             u == CHOOSE g : g = [i \in 0..Len(bytes) |->
                                    IF i = 0 THEN 0 ELSE g[i - 1] + bytes[i] * Base ^ (i - 1)]
  <1>5. f = [i \in 0..n |-> IF i = 0 THEN 0 ELSE f[i - 1] + bytes[i] * Base ^ (i - 1)]
    <2>1. ASSUME NEW i \in 0..n
          PROVE  f[i] = IF i = 0 THEN 0 ELSE f[i - 1] + bytes[i] * Base ^ (i - 1)
      <3>1. CASE i = 0
        BY <1>4, <3>1
      <3>2. CASE i # 0
        <4>1. i \in 1..n /\ i - 1 \in 0..n
          BY <3>2
        <4> QED BY <1>3, <3>2, <4>1
      <3> QED BY <3>1, <3>2
    <2>2. f = [i \in 0..n |-> f[i]]
      OBVIOUS
    <2> HIDE DEF f
    <2> QED BY <2>1, <2>2
  <1>6. u = [i \in 0..n |-> IF i = 0 THEN 0 ELSE u[i - 1] + bytes[i] * Base ^ (i - 1)]
    <2> HIDE DEF f
    <2> QED BY <1>1, <1>5
  <1>7. Unsigned(bytes) = u[n]
    BY <1>1 DEF Unsigned
  <1> HIDE DEF u
  <1>8. u[0] = 0 /\ \A i \in 1..n : u[i] = u[i - 1] + bytes[i] * Base ^ (i - 1)
    <2>1. \A i \in 0..n : u[i] = IF i = 0 THEN 0 ELSE u[i - 1] + bytes[i] * Base ^ (i - 1)
      BY <1>6
    <2> QED BY <2>1
  <1>9. u[1] = Sum(bytes, 1) /\ u[2] = Sum(bytes, 2)
    <2>1. 1 \in 1..n /\ 2 \in 1..n /\ 1 - 1 = 0 /\ 2 - 1 = 1
      OBVIOUS
    <2>2. u[1] = Sum(bytes, 1)
      BY <1>3, <1>4, <1>8, <2>1
    <2> QED BY <1>3, <1>8, <2>1, <2>2
  <1>10. n >= 3 => u[3] = Sum(bytes, 3)
    <2>1. n >= 3 => 3 \in 1..n /\ 3 - 1 = 2
      OBVIOUS
    <2> QED BY <1>3, <1>8, <1>9, <2>1
  <1>11. n >= 4 => u[4] = Sum(bytes, 4)
    <2>1. n >= 4 => 4 \in 1..n /\ 4 - 1 = 3 /\ n >= 3
      OBVIOUS
    <2> QED BY <1>3, <1>8, <1>10, <2>1
  <1>12. u[n] = Sum(bytes, n)
    <2>1. n = 2 \/ n = 3 \/ n = 4
      OBVIOUS
    <2> QED BY <1>9, <1>10, <1>11, <2>1
  <1> QED BY <1>1, <1>7, <1>12

\* The sign: the uppermost bit of the uppermost byte.
LEMMA SignedIs ==
    ASSUME NEW n \in 2..4, NEW bytes \in [1..n -> Digit]
    PROVE  /\ Signed(bytes) \in (-(Base ^ n \div 2))..(Base ^ n \div 2 - 1)
           /\ \/ Signed(bytes) = Sum(bytes, n)
              \/ Signed(bytes) = Sum(bytes, n) - Base ^ n
  <1>1. Len(bytes) = n /\ Unsigned(bytes) = Sum(bytes, n)
    BY UnsignedIs
  <1>2. \A i \in 1..n : bytes[i] \in 0..(Base - 1)
    BY DEF Digit
  <1>3. Signed(bytes) = IF bytes[n] < Base \div 2 THEN Sum(bytes, n) ELSE Sum(bytes, n) - Base ^ n
    BY <1>1 DEF Signed
  <1>4. PICK h \in Nat : Base = 2 * h /\ h = Base \div 2
    <2>1. Base = 2 * (Base \div 2) /\ Base \div 2 \in Nat
      BY BasePowers
    <2> QED BY <2>1
  <1> DEFINE P == Base ^ (n - 1)
             d == bytes[n]
             W == Sum(bytes, n - 1)
  <1>5. /\ Sum(bytes, n) = W + d * P /\ W \in 0..(P - 1) /\ P \in Nat
        /\ Base ^ n = Base * P
    <2>1. n \in 1..n
      OBVIOUS
    <2> QED BY <2>1, Places
  <1>6. d \in 0..(Base - 1)
    BY <1>2
  <1> HIDE DEF P, d, W
  <1>7. Base ^ n = 2 * (h * P) /\ h * P \in Nat
    BY <1>4, <1>5
  <1>8. Base ^ n \div 2 = h * P
    BY <1>7
  <1>9. CASE d < h
    <2>1. d * P <= (h - 1) * P /\ (h - 1) * P = h * P - P /\ d * P \in Nat
      BY <1>4, <1>5, <1>6, <1>9
    <2>2. Signed(bytes) = W + d * P
      BY <1>3, <1>4, <1>5, <1>9 DEF d
    <2> QED BY <1>3, <1>4, <1>5, <1>7, <1>8, <1>9, <2>1, <2>2 DEF d
  <1>10. CASE ~(d < h)
    <2>1. h * P <= d * P /\ d * P <= (Base - 1) * P /\ d * P \in Nat
          /\ (Base - 1) * P = 2 * (h * P) - P
      BY <1>4, <1>5, <1>6, <1>10
    <2>2. Signed(bytes) = Sum(bytes, n) - Base ^ n
      BY <1>3, <1>4, <1>10 DEF d
    <2>3. Signed(bytes) = W + d * P - 2 * (h * P)
      BY <1>4, <1>5, <1>7, <2>1, <2>2
    <2> QED BY <1>4, <1>5, <1>7, <1>8, <2>1, <2>2, <2>3
  <1> QED BY <1>9, <1>10

\* Bytes that are read and written again are the same.
LEMMA BytesOfSigned ==
    ASSUME NEW n \in 2..4, NEW bytes \in [1..n -> Digit]
    PROVE  Bytes(Signed(bytes), n) = bytes
  <1> DEFINE v == Signed(bytes)
             Splits(i) == \E h \in Int : v = Sum(bytes, i) + h * Base ^ i
  <1>1. Base \in Nat \ {0}
    BY BasePowers
  <1>2. \A i \in 1..n : /\ Sum(bytes, i) = Sum(bytes, i - 1) + bytes[i] * Base ^ (i - 1)
                        /\ Base ^ (i - 1) \in Nat \ {0} /\ Base ^ i = Base * Base ^ (i - 1)
                        /\ Sum(bytes, i - 1) \in 0..(Base ^ (i - 1) - 1)
                        /\ bytes[i] \in 0..(Base - 1)
    BY Places
  <1>3. v = Sum(bytes, n) \/ v = Sum(bytes, n) - Base ^ n
    BY SignedIs
  <1> HIDE DEF v
  \* above byte i - 1 there is byte i and a multiple of Base
  <1>4. ASSUME NEW i \in 1..n, NEW h \in Int, v = Sum(bytes, i) + h * Base ^ i
        PROVE  v = (h * Base + bytes[i]) * Base ^ (i - 1) + Sum(bytes, i - 1)
    <2> DEFINE p == Base ^ (i - 1)
               w == Sum(bytes, i - 1)
               d == bytes[i]
    <2>a. Sum(bytes, i) = w + d * p /\ Base ^ i = Base * p
      BY <1>2
    <2>b. p \in Nat /\ w \in Int /\ d \in Nat
      BY <1>1, <1>2
    <2>1. v = (w + d * p) + h * (Base * p) /\ p \in Nat /\ w \in Int /\ d \in Nat
      BY <1>4, <2>a, <2>b
    <2> HIDE DEF p, w, d
    <2>2. v = (h * Base + d) * p + w
      BY <1>1, <2>1
    <2> QED BY <2>2 DEF p, w, d
  <1>5. Splits(n)
    <2>1. Base ^ n \in Int /\ Sum(bytes, n) \in Int
      <3>1. n \in 1..n
        OBVIOUS
      <3> DEFINE p == Base ^ (n - 1)
                 w == Sum(bytes, n - 1)
                 d == bytes[n]
      <3>2. /\ Sum(bytes, n) = w + d * p /\ Base ^ n = Base * p
            /\ p \in Nat /\ w \in Int /\ d \in Nat
        BY <1>1, <1>2, <3>1
      <3> HIDE DEF p, w, d
      <3> QED BY <1>1, <3>2
    <2> DEFINE b == Base ^ n
               t == Sum(bytes, n)
    <2>2. v = t + 0 * b \/ v = t + (-1) * b
      <3>1. b \in Int /\ t \in Int /\ (v = t \/ v = t - b)
        BY <1>3, <2>1
      <3> HIDE DEF b, t
      <3> QED BY <3>1
    <2> QED BY <2>2
  <1>6. ASSUME NEW i \in 1..n, i - 1 \in 1..n, Splits(i)
        PROVE  Splits(i - 1)
    <2>1. PICK h \in Int : v = Sum(bytes, i) + h * Base ^ i
      BY <1>6
    <2> DEFINE g == h * Base + bytes[i]
    <2>2. v = g * Base ^ (i - 1) + Sum(bytes, i - 1)
      BY <1>4, <2>1
    <2>3. g \in Int
      BY <1>1, <1>2
    <2>4. v = Sum(bytes, i - 1) + g * Base ^ (i - 1)
      <3> DEFINE p == Base ^ (i - 1)
                 w == Sum(bytes, i - 1)
      <3>1. p \in Int /\ w \in Int /\ v = g * p + w
        BY <1>2, <2>2
      <3> HIDE DEF p, w, g
      <3>2. v = w + g * p
        BY <2>3, <3>1
      <3> QED BY <3>2 DEF p, w
    <2> HIDE DEF g
    <2> QED BY <2>3, <2>4
  <1> HIDE DEF Splits
  <1>7. \A i \in 1..n : Splits(i)
    <2>1. n - 1 \in 1..n => Splits(n - 1)
      <3>1. n \in 1..n
        OBVIOUS
      <3> QED BY <1>5, <1>6, <3>1
    <2>2. n - 2 \in 1..n => Splits(n - 2)
      <3>1. n - 2 \in 1..n => n - 1 \in 1..n /\ (n - 1) - 1 = n - 2
        OBVIOUS
      <3> QED BY <1>6, <2>1, <3>1
    <2>3. n - 3 \in 1..n => Splits(n - 3)
      <3>1. n - 3 \in 1..n => n - 2 \in 1..n /\ (n - 2) - 1 = n - 3
        OBVIOUS
      <3> QED BY <1>6, <2>2, <3>1
    <2>4. \A i \in 1..n : i = n \/ i = n - 1 \/ i = n - 2 \/ i = n - 3
      OBVIOUS
    <2> QED BY <1>5, <2>1, <2>2, <2>3, <2>4
  <1>8. ASSUME NEW i \in 1..n
        PROVE  (v \div Base ^ (i - 1)) % Base = bytes[i]
    <2>1. PICK h \in Int : v = Sum(bytes, i) + h * Base ^ i
      BY <1>7 DEF Splits
    <2> DEFINE p == Base ^ (i - 1)
               w == Sum(bytes, i - 1)
               d == bytes[i]
               g == h * Base + d
    <2>2. v = g * p + w
      BY <1>4, <2>1
    <2>3. p \in Nat \ {0} /\ w \in 0..(p - 1) /\ d \in 0..(Base - 1)
      BY <1>2
    <2> HIDE DEF p, w, d
    <2>4. g \in Int
      BY <1>1, <2>3
    <2>5. g % Base = d
      BY <1>1, <2>3, DivisionUnique
    <2> HIDE DEF g
    <2>6. v \div p = g
      BY <2>2, <2>3, <2>4, DivisionUnique
    <2> QED BY <2>5, <2>6 DEF p, d
  <1>9. Bytes(v, n) = [i \in 1..n |-> bytes[i]]
    BY <1>8 DEF Bytes
  <1> QED BY <1>9 DEF v
-----------------------------------------------------------------------------
(* The formats. *)

\* The values of a sample, format by format.
LEMMA ChunkType ==
    /\ Chunks("S16LE") = [1..2 -> Digit]
    /\ Chunks("S24LE") = [1..3 -> Digit]
    /\ Chunks("S32LE") = [1..4 -> Digit]
    /\ Chunks("FloatLE") = Floats
  BY DEF Chunks, bytes_per_sample

\* What there is to know of a float sample that is a number: a whole number of
\* steps, or a fraction whose numerator the significand holds.
IsFraction(n, d) ==
    /\ n \in Int /\ d \in Nat \ {0}
    /\ Nearest(n) = n
    /\ d = 1 \/ n \in (-Significand)..Significand

LEMMA FloatChunk ==
    ASSUME NEW x \in Floats, x # NaN
    PROVE  IsFraction(x[1], x[2])
  <1>1. CASE x \in ((-Significand)..Significand) \X Denominators
    <2>1. x[1] \in (-Significand)..Significand /\ x[2] \in Denominators
      BY <1>1
    <2> QED BY <2>1, SmallIsFloat, DenominatorsAssumption DEF IsFraction
  <1>2. CASE x \in {<<n, 1>> : n \in {m \in (-2 * Half)..(2 * Half) : Nearest(m) = m}}
    <2>1. PICK n \in {m \in (-2 * Half)..(2 * Half) : Nearest(m) = m} : x = <<n, 1>>
      BY <1>2
    <2>2. n \in Int /\ Nearest(n) = n
      BY BasePowers
    <2> QED BY <2>1, <2>2 DEF IsFraction
  <1> QED BY <1>1, <1>2 DEF Floats

\* The fraction n / d, clipped to full scale.
Clipped(n, d) == Clamp(n, -Half * d, Half * d)

\* How a number is decoded.
LEMMA FloatDecoded ==
    ASSUME NEW x \in Floats, x # NaN
    PROVE  FromFloat(x) = ToI32(Quotient(Clipped(x[1], x[2]), x[2]))
  <1>1. x[2] \in Nat /\ Half \in Nat
    BY FloatChunk, BasePowers DEF IsFraction
  <1>2. (-Half) * x[2] = -(Half * x[2])
    BY <1>1
  <1> QED BY <1>2 DEF FromFloat, Clipped

\* A number that is cast to an i32 and back keeps its whole steps.
LEMMA FloatKeepsSteps ==
    ASSUME NEW n, NEW d, IsFraction(n, d)
    PROVE  /\ Clipped(n, d) \in Int
           /\ Quotient(Clipped(n, d), d) \in (-Half)..Half
           /\ Nearest(ToI32(Quotient(Clipped(n, d), d))) = Quotient(Clipped(n, d), d)
  <1> DEFINE c == Clipped(n, d)
             q == Quotient(c, d)
             full == Half * d
  <1>1. n \in Int /\ d \in Nat \ {0} /\ Half \in Nat \ {0} /\ full \in Nat
    BY BasePowers DEF IsFraction
  <1>2. /\ c \in Int /\ (-Half) * d = -full /\ -full <= c /\ c <= full
        /\ Magnitude(c) <= Magnitude(n)
        /\ c = n \/ (c = full /\ n > full) \/ (c = -full /\ n < -full)
    <2>1. (-Half) * d = -full
      BY <1>1
    <2> HIDE DEF full
    <2>2. c = Clamp(n, -full, full)
      BY <2>1 DEF Clipped, full
    <2> HIDE DEF c
    <2> QED BY <1>1, <2>1, <2>2 DEF Clamp, Magnitude
  <1>3. /\ q \in Int /\ Magnitude(q) * d <= Magnitude(c)
        /\ Magnitude(q) <= Magnitude(c) /\ (d = 1 => q = c)
    BY <1>1, <1>2, QuotientWithin
  <1> HIDE DEF c, q
  <1>4. q \in (-Half)..Half
    <2>1. Magnitude(c) <= full /\ Magnitude(q) \in Nat
      BY <1>1, <1>2, <1>3 DEF Magnitude
    <2>2. Magnitude(c) \in Nat
      BY <1>2 DEF Magnitude
    <2>3. Magnitude(q) <= Half
      <3> DEFINE m == Magnitude(q)
      <3>1. m \in Nat /\ m * d <= Half * d
        BY <1>1, <1>3, <2>1, <2>2
      <3> HIDE DEF m
      <3>2. SUFFICES ASSUME Half + 1 <= m PROVE FALSE
        BY <1>1, <3>1 DEF m
      <3>3. (Half + 1) * d <= m * d /\ (Half + 1) * d = Half * d + d
        BY <1>1, <3>1, <3>2
      <3> QED BY <1>1, <3>1, <3>3
    <2> QED BY <1>1, <1>3, <2>3 DEF Magnitude
  <1>5. Nearest(q) = q
    <2>1. CASE d = 1
      <3>1. q = n \/ q = Half \/ q = -Half
        BY <1>1, <1>2, <1>3, <2>1
      <3> QED BY <3>1, HalfIsFloat DEF IsFraction
    <2>2. CASE n \in (-Significand)..Significand
      <3>1. q \in (-Significand)..Significand
        BY <1>1, <1>2, <1>3, <2>2, BasePowers DEF Magnitude
      <3> QED BY <3>1, SmallIsFloat
    <2> QED BY <2>1, <2>2 DEF IsFraction
  <1>6. Nearest(ToI32(q)) = q
    <2>1. CASE q = Half
      <3>1. ToI32(q) = Half - 1
        BY <1>1, <2>1 DEF ToI32, Clamp
      <3> QED BY <2>1, <3>1, NearestFullScale
    <2>2. CASE q # Half
      <3>1. ToI32(q) = q
        BY <1>1, <1>4, <2>2 DEF ToI32, Clamp
      <3> QED BY <1>5, <3>1
    <2> QED BY <2>1, <2>2
  <1> QED BY <1>2, <1>4, <1>6 DEF c, q

\* An integer's bytes are bytes.
LEMMA BytesType ==
    ASSUME NEW v \in Int, NEW n \in 2..4
    PROVE  Bytes(v, n) \in [1..n -> Digit]
  <1>1. Base \in Nat \ {0}
    BY BasePowers
  <1>2. \A k \in Int : k % Base \in Digit
    BY <1>1 DEF Digit
  <1>3. ASSUME NEW i \in 1..n
        PROVE  (v \div Base ^ (i - 1)) % Base \in Digit
    <2>1. Base ^ (i - 1) \in Nat \ {0}
      <3>1. Base ^ 0 \in Nat \ {0} /\ Base ^ 1 \in Nat \ {0} /\ Base ^ 2 \in Nat \ {0}
            /\ Base ^ 3 \in Nat \ {0}
        BY BasePowers
      <3>2. i - 1 = 0 \/ i - 1 = 1 \/ i - 1 = 2 \/ i - 1 = 3
        OBVIOUS
      <3> QED BY <3>1, <3>2
    <2> DEFINE p == Base ^ (i - 1)
    <2>2. p \in Nat \ {0}
      BY <2>1
    <2> HIDE DEF p
    <2>3. (v \div p) \in Int
      BY <2>2
    <2> QED BY <1>2, <2>3 DEF p
  <1> QED BY <1>3 DEF Bytes

\* What the bytes of each integer format make, within an i32.
LEMMA SignedRanges ==
    /\ \A data \in [1..2 -> Digit] :
          /\ Signed(data) \in (-(Base ^ 2 \div 2))..(Base ^ 2 \div 2 - 1)
          /\ Signed(data) * Base ^ 2 \in I32
    /\ \A data \in [1..3 -> Digit] :
          /\ Signed(data) \in I32
          /\ (Signed(data) * Base) \div Base = Signed(data)
    /\ \A data \in [1..4 -> Digit] : Signed(data) \in I32
  <1> DEFINE sq == Base ^ 2
             q == sq \div 2
  <1>1. /\ sq \in Nat \ {0} /\ q \in Nat /\ sq = 2 * q /\ 2 * Half = sq * sq /\ Half \in Nat
    <2>1. sq = Base * Base /\ Base ^ 4 = Base * Base * Base * Base /\ Base ^ 4 = 2 * Half
          /\ Half \in Nat /\ Base \in Nat \ {0}
      BY BasePowers
    <2>2. PICK h \in Nat : Base = 2 * h
      <3>1. Base = 2 * (Base \div 2) /\ Base \div 2 \in Nat
        BY BasePowers
      <3> QED BY <3>1
    <2>3. sq = 2 * (h * Base) /\ h * Base \in Nat
      BY <2>1, <2>2
    <2> HIDE DEF sq
    <2>4. 2 * Half = sq * sq
      BY <2>1
    <2> QED BY <2>1, <2>3, <2>4
  <1>2. \A data \in [1..2 -> Digit] : Signed(data) \in (-q)..(q - 1)
    BY SignedIs
  <1>3. ASSUME NEW x \in (-q)..(q - 1)
        PROVE  x * sq \in I32
    <2> HIDE DEF sq, q
    <2>1. q * sq = Half
      BY <1>1
    <2>2. -(q * sq) <= x * sq /\ x * sq <= (q - 1) * sq /\ (q - 1) * sq = q * sq - sq
          /\ x * sq \in Int
      BY <1>1
    <2> QED BY <1>1, <2>1, <2>2 DEF I32
  <1>4. ASSUME NEW data \in [1..3 -> Digit]
        PROVE  /\ Signed(data) \in I32
               /\ (Signed(data) * Base) \div Base = Signed(data)
    <2> DEFINE cube == Base ^ 3
    <2>1. Signed(data) \in (-(cube \div 2))..(cube \div 2 - 1)
      BY SignedIs
    <2>2. cube \in Nat /\ cube \div 2 \in Nat /\ cube \div 2 <= Half /\ Half \in Nat
      <3>1. 2 * Half = Base * cube /\ cube \in Nat /\ Base >= 4 /\ Base \in Nat /\ Half \in Nat
        BY BasePowers
      <3> HIDE DEF cube
      <3>2. 4 * cube <= Base * cube
        BY <3>1
      <3>3. 2 * (cube \div 2) <= cube /\ cube \div 2 \in Nat
        BY <3>1
      <3> QED BY <3>1, <3>2, <3>3
    <2>3. Signed(data) \in I32 /\ Signed(data) \in Int
      <3> HIDE DEF cube
      <3> QED BY <2>1, <2>2 DEF I32
    <2>4. (Signed(data) * Base) \div Base = Signed(data)
      <3>1. Base \in Nat \ {0} /\ 0 \in 0..(Base - 1)
        BY BasePowers
      <3>2. Signed(data) * Base + 0 = Signed(data) * Base
        BY <2>3, <3>1
      <3> QED BY <2>3, <3>1, <3>2, DivisionUnique
    <2> QED BY <2>3, <2>4
  <1>5. \A data \in [1..4 -> Digit] : Signed(data) \in I32
    <2>1. Base ^ 4 \div 2 = Half
      BY DEF Half
    <2> QED BY <2>1, SignedIs DEF I32
  <1> QED BY <1>2, <1>3, <1>4, <1>5

\* Every chunk of bytes becomes an i32.
LEMMA DecodedType ==
    ASSUME NEW f \in Formats, NEW data \in Chunks(f)
    PROVE  ToSample(f, data) \in I32
  <1>0. I32 \subseteq Int
    BY BasePowers DEF I32
  <1>1. CASE f = "S16LE"
    <2>1. Signed(data) * Base ^ 2 \in I32
      BY <1>1, ChunkType, SignedRanges
    <2>2. ToSample(f, data) = ToI32(Signed(data) * Base ^ 2)
      BY <1>1 DEF ToSample
    <2> QED BY <1>0, <2>1, <2>2, Saturated
  <1>2. CASE f = "S24LE"
    <2>1. Signed(data) \in I32 /\ (Signed(data) * Base) \div Base = Signed(data)
      BY <1>2, ChunkType, SignedRanges
    <2>2. ToSample(f, data) = (Signed(data) * Base) \div Base
      BY <1>2 DEF ToSample
    <2> QED BY <2>1, <2>2
  <1>3. CASE f = "S32LE"
    <2>1. Signed(data) \in I32
      BY <1>3, ChunkType, SignedRanges
    <2>2. ToSample(f, data) = Signed(data)
      BY <1>3 DEF ToSample
    <2> QED BY <2>1, <2>2
  <1>4. CASE f = "FloatLE"
    <2>1. ToSample(f, data) = FromFloat(data)
      BY <1>4 DEF ToSample
    <2>2. CASE data = NaN
      BY <2>1, <2>2, BasePowers DEF FromFloat, I32
    <2>3. CASE data # NaN
      <3>1. IsFraction(data[1], data[2])
        BY <1>4, <2>3, ChunkType, FloatChunk
      <3>2. FromFloat(data) = ToI32(Quotient(Clipped(data[1], data[2]), data[2]))
        BY <1>4, <2>3, ChunkType, FloatDecoded
      <3>3. Quotient(Clipped(data[1], data[2]), data[2]) \in Int
        BY <3>1, FloatKeepsSteps, BasePowers
      <3> QED BY <2>1, <3>2, <3>3, Saturated
    <2> QED BY <2>2, <2>3
  <1> QED BY <1>1, <1>2, <1>3, <1>4 DEF Formats

\* Every i32 becomes a chunk of bytes, in every format.
LEMMA EncodedType ==
    ASSUME NEW f \in Formats, NEW s \in I32
    PROVE  FromSample(f, s) \in Chunks(f)
  <1>0. s \in Int /\ s \in (-Half)..Half /\ Base \in Nat \ {0} /\ Half \in Nat
    BY BasePowers DEF I32
  <1>1. CASE f = "S16LE"
    <2> DEFINE low == -(Base ^ 2) \div 2
               high == Base ^ 2 \div 2 - 1
               v == Quotient(s, Base ^ 2)
    <2>1. Base ^ 2 \in Nat \ {0}
      BY BasePowers
    <2>2. v \in Int
      BY <1>0, <2>1, QuotientInOrder
    <2>3. low \in Int /\ high \in Int
      BY <2>1
    <2>4. FromSample(f, s) = Bytes(Clamp(v, low, high), 2)
      BY <1>1 DEF FromSample
    <2> HIDE DEF v, low, high
    <2>5. Clamp(v, low, high) \in Int
      BY <2>2, <2>3 DEF Clamp
    <2> QED BY <1>1, <2>4, <2>5, BytesType, ChunkType
  <1>2. CASE f = "S24LE"
    <2>1. (s \div Base) \in Int
      BY <1>0
    <2>2. FromSample(f, s) = Bytes(s \div Base, 3)
      BY <1>2 DEF FromSample
    <2> QED BY <1>2, <2>1, <2>2, BytesType, ChunkType
  <1>3. CASE f = "S32LE"
    <2>1. FromSample(f, s) = Bytes(s, 4)
      BY <1>3 DEF FromSample
    <2> QED BY <1>0, <1>3, <2>1, BytesType, ChunkType
  <1>4. CASE f = "FloatLE"
    <2>1. Nearest(s) \in (-Half)..Half /\ Nearest(Nearest(s)) = Nearest(s)
      BY <1>0, NearestWithin, NearestKept
    <2>2. FromSample(f, s) = <<Clamp(Nearest(s), -Half, Half), 1>>
      BY <1>4 DEF FromSample
    <2>3. Clamp(Nearest(s), -Half, Half) = Nearest(s)
      <3> DEFINE x == Nearest(s)
      <3>1. x \in (-Half)..Half
        BY <2>1
      <3> HIDE DEF x
      <3>2. Clamp(x, -Half, Half) = x
        BY <1>0, <3>1 DEF Clamp
      <3> QED BY <3>2 DEF x
    <2>4. <<Nearest(s), 1>> \in Floats
      <3> DEFINE x == Nearest(s)
      <3>1. x \in (-Half)..Half /\ Nearest(x) = x
        BY <2>1
      <3> HIDE DEF x
      <3>2. x \in {m \in (-2 * Half)..(2 * Half) : Nearest(m) = m}
        BY <1>0, <3>1
      <3>3. <<x, 1>> \in Floats
        BY <3>2 DEF Floats
      <3> QED BY <3>3 DEF x
    <2> QED BY <1>4, <2>2, <2>3, <2>4, ChunkType
  <1> QED BY <1>1, <1>2, <1>3, <1>4 DEF Formats

\* What the bytes of an integer come back as.
LEMMA BytesComeBack ==
    ASSUME NEW f \in {"S16LE", "S32LE"}, NEW data \in Chunks(f)
    PROVE  FromSample(f, ToSample(f, data)) = data
  <1>0. Half \in Nat /\ Half \in Int /\ Half >= 1
    BY BasePowers
  <1>1. CASE f = "S16LE"
    <2> DEFINE x == Signed(data)
               sq == Base ^ 2
    <2>1. data \in [1..2 -> Digit]
      BY <1>1, ChunkType
    <2>2. x \in (-(sq \div 2))..(sq \div 2 - 1) /\ x * sq \in I32
      BY <2>1, SignedRanges
    <2>3. sq \in Nat \ {0} /\ sq % 2 = 0
      <3>1. Base * Base = 2 * ((Base \div 2) * Base) /\ (Base \div 2) * Base \in Nat
        <4>1. Base = 2 * (Base \div 2) /\ Base \div 2 \in Nat
          BY BasePowers
        <4> DEFINE h == Base \div 2
        <4> HIDE DEF h
        <4>2. Base * Base = 2 * (h * Base) /\ h * Base \in Nat
          BY <4>1 DEF h
        <4> QED BY <4>2 DEF h
      <3>2. sq = Base * Base /\ sq \in Nat \ {0}
        BY BasePowers
      <3> DEFINE k == (Base \div 2) * Base
      <3> HIDE DEF sq, k
      <3>3. sq = 2 * k /\ k \in Nat
        BY <3>1, <3>2 DEF k
      <3> QED BY <3>2, <3>3
    <2>4. ToSample(f, data) = x * sq
      <3>1. x * sq \in Int /\ ToSample(f, data) = ToI32(x * sq)
        BY <1>0, <1>1, <2>2 DEF ToSample, I32
      <3> QED BY <2>2, <3>1, Saturated
    <2>5. FromSample(f, x * sq) =
             Bytes(Clamp(Quotient(x * sq, sq), -sq \div 2, sq \div 2 - 1), 2)
      BY <1>1 DEF FromSample
    <2>6. Quotient(x * sq, sq) = x
      <3> HIDE DEF x, sq
      <3>1. x \in Int
        BY <2>2, <2>3
      <3>2. CASE x >= 0
        <4>1. x \in Nat
          BY <3>1, <3>2
        <4> QED BY <2>3, <4>1, QuotientOfMultiple
      <3>3. CASE x < 0
        <4> DEFINE y == -x
        <4>1. y \in Nat /\ x * sq = -(y * sq) /\ x = -y
          BY <2>3, <3>1, <3>3
        <4> HIDE DEF y
        <4>2. Quotient(-(y * sq), sq) = -y
          BY <2>3, <4>1, QuotientOfMultiple
        <4> QED BY <4>1, <4>2
      <3> QED BY <3>1, <3>2, <3>3
    <2>7. Clamp(x, -sq \div 2, sq \div 2 - 1) = x
      <3> HIDE DEF x, sq
      <3> QED BY <2>2, <2>3 DEF Clamp
    <2>8. Bytes(x, 2) = data
      BY <2>1, BytesOfSigned
    <2> QED BY <1>1, <2>4, <2>5, <2>6, <2>7, <2>8
  <1>2. CASE f = "S32LE"
    <2>1. ToSample(f, data) = Signed(data)
      BY <1>2 DEF ToSample
    <2>2. FromSample(f, Signed(data)) = Bytes(Signed(data), 4)
      BY <1>2 DEF FromSample
    <2>3. Bytes(Signed(data), 4) = data
      BY <1>2, ChunkType, BytesOfSigned
    <2> QED BY <1>2, <2>1, <2>2, <2>3
  <1> QED BY <1>1, <1>2

\* What a float comes back as.
LEMMA FloatGoesBack ==
    ASSUME NEW x \in Floats, x # NaN
    PROVE  FromSample("FloatLE", ToSample("FloatLE", x)) =
              <<Quotient(Clipped(x[1], x[2]), x[2]), 1>>
  <1> DEFINE q == Quotient(Clipped(x[1], x[2]), x[2])
  <1>1. q \in (-Half)..Half /\ Nearest(ToI32(q)) = q /\ Half \in Nat
    BY FloatChunk, FloatKeepsSteps, BasePowers
  <1>2. ToSample("FloatLE", x) = ToI32(q)
    BY FloatDecoded DEF ToSample
  <1> HIDE DEF q
  <1>3. Clamp(q, -Half, Half) = q
    BY <1>1 DEF Clamp
  <1>4. FromSample("FloatLE", ToI32(q)) = <<Clamp(Nearest(ToI32(q)), -Half, Half), 1>>
    BY DEF FromSample
  <1> QED BY <1>1, <1>2, <1>3, <1>4 DEF q
-----------------------------------------------------------------------------
(* The invariant of the alsa-bridge thread. *)

\* The initial states satisfy ConversionInv.
LEMMA ConversionInitInv ==
    ASSUME ConversionInit
    PROVE  ConversionInv
  <1>1. Base \in Nat \ {0} /\ 0 \in Digit /\ 0 \in I32 /\ Base \in 0..(4 * Base)
    BY BasePowers DEF Digit, I32
  <1>2. [i \in 1..4 |-> 0] \in Chunks("S32LE")
    BY <1>1, ChunkType
  <1> QED BY <1>1, <1>2 DEF ConversionInit, ConversionInv, ConversionTypeOK, Formats

\* Each step keeps ConversionInv.
LEMMA ConversionStep ==
    ASSUME ConversionInv, [ConversionNext]_conversion
    PROVE  ConversionInv'
  <1>0. /\ format \in Formats /\ chunk \in Chunks(format) /\ decoded \in I32
        /\ volume \in 0..(4 * Base) /\ muted \in BOOLEAN
        /\ c_pc # "idle" => decoded = ToSample(format, chunk)
    BY DEF ConversionInv, ConversionTypeOK
  <1>1. CASE Decode
    <2>1. PICK f \in Formats : \E data \in Chunks(f) :
             format' = f /\ chunk' = data /\ decoded' = ToSample(f, data)
      BY <1>1 DEF Decode
    <2>2. PICK data \in Chunks(f) :
             format' = f /\ chunk' = data /\ decoded' = ToSample(f, data)
      BY <2>1
    <2>3. decoded' \in I32
      BY <2>2, DecodedType
    <2>4. c_pc' = "decoded" /\ UNCHANGED <<volume, muted>>
      BY <1>1 DEF Decode
    <2> QED BY <1>0, <2>2, <2>3, <2>4 DEF ConversionInv, ConversionTypeOK
  <1>2. CASE ApplyMixer
    <2>1. /\ c_pc = "decoded" /\ c_pc' = "mixed" /\ UNCHANGED <<format, chunk, decoded>>
      BY <1>2 DEF ApplyMixer
    <2>2. PICK p \in Percents : volume' = Volume(p)
      BY <1>2 DEF ApplyMixer
    <2>3. volume' \in 0..(4 * Base)
      BY <2>2, VolumeType
    <2>4. muted' \in BOOLEAN /\ out' = IF muted' THEN 0 ELSE Scaled(decoded, volume')
      BY <1>2 DEF ApplyMixer
    <2>5. 0 \in I32 /\ Scaled(decoded, volume') \in I32
      BY <1>0, <2>3, ScaledType, ScaledZero
    <2>6. out' \in I32
      BY <2>4, <2>5
    <2> QED BY <1>0, <2>1, <2>3, <2>4, <2>6 DEF ConversionInv, ConversionTypeOK
  <1>3. CASE Encode
    <2>1. /\ c_pc = "decoded" /\ c_pc' = "encoded" /\ out' = FromSample(format, decoded)
          /\ UNCHANGED <<format, chunk, decoded, volume, muted>>
      BY <1>3 DEF Encode
    <2>2. out' \in Chunks(format)
      BY <1>0, <2>1, EncodedType
    <2> QED BY <1>0, <2>1, <2>2 DEF ConversionInv, ConversionTypeOK
  <1>4. CASE UNCHANGED conversion
    BY <1>4 DEF conversion, ConversionInv, ConversionTypeOK
  <1> QED BY <1>1, <1>2, <1>3, <1>4 DEF ConversionNext

\* The invariant says of every sample what the properties ask.
LEMMA InvRoundTrip ==
    ASSUME ConversionInv
    PROVE  RoundTrip
  <1> SUFFICES ASSUME c_pc = "encoded"
               PROVE  RoundTrip
    BY DEF RoundTrip
  <1>1. /\ format \in Formats /\ chunk \in Chunks(format)
        /\ out = FromSample(format, ToSample(format, chunk))
    BY DEF ConversionInv, ConversionTypeOK
  <1>2. format \in {"S16LE", "S32LE"} => out = chunk
    BY <1>1, BytesComeBack
  <1>3. CASE format = "FloatLE" /\ chunk = NaN
    <2>1. ToSample(format, chunk) = 0
      BY <1>3 DEF ToSample, FromFloat
    <2>2. FromSample(format, 0) = <<Clamp(Nearest(0), -Half, Half), 1>>
      BY <1>3 DEF FromSample
    <2>3. 0 \in (-Significand)..Significand /\ Half \in Nat
      BY BasePowers
    <2>4. Nearest(0) = 0 /\ Clamp(0, -Half, Half) = 0
      BY <2>3, SmallIsFloat DEF Clamp
    <2> QED BY <1>1, <1>2, <1>3, <2>1, <2>2, <2>4 DEF RoundTrip, FloatComesBack
  <1>4. CASE format = "FloatLE" /\ chunk # NaN
    <2> DEFINE d == chunk[2]
               c == Clipped(chunk[1], d)
               q == Quotient(c, d)
    <2>1. chunk \in Floats
      BY <1>1, <1>4, ChunkType
    <2>2. out = <<q, 1>>
      BY <1>1, <1>4, <2>1, FloatGoesBack
    <2>3. d \in Nat \ {0} /\ c \in Int
      BY <1>4, <2>1, FloatChunk, FloatKeepsSteps DEF IsFraction
    <2>4. q * c >= 0 /\ Magnitude(q) * d <= Magnitude(c) /\ Magnitude(c) < (Magnitude(q) + 1) * d
      <3> HIDE DEF c, d
      <3> QED BY <2>3, QuotientWithin
    <2>5. c = Clamp(chunk[1], -Half * d, Half * d)
      BY DEF Clipped
    <2>6. out[1] = q /\ out[2] = 1
      BY <2>2
    <2>7. FloatComesBack
      <3> HIDE DEF c, q
      <3> QED BY <1>4, <2>4, <2>5, <2>6 DEF FloatComesBack
    <2> QED BY <1>2, <2>7 DEF RoundTrip
  <1>5. CASE format # "FloatLE"
    BY <1>2, <1>5 DEF RoundTrip
  <1> QED BY <1>3, <1>4, <1>5

\* ConversionInv implies ScaledInOrder.
LEMMA InvScaledInOrder ==
    ASSUME ConversionInv
    PROVE  ScaledInOrder
  <1> SUFFICES ASSUME c_pc = "mixed"
               PROVE  ScaledInOrder
    BY DEF ScaledInOrder
  <1>1. /\ decoded \in I32 /\ volume \in 0..(4 * Base)
        /\ out = IF muted THEN 0 ELSE Scaled(decoded, volume)
    BY DEF ConversionInv, ConversionTypeOK
  <1>2. CASE muted
    BY <1>1, <1>2 DEF ScaledInOrder
  <1>3. CASE ~muted
    <2>1. out = Scaled(decoded, volume)
      BY <1>1, <1>3
    <2>2. volume = Base => out = decoded
      BY <2>1 DEF Scaled
    <2>3. volume < Base => Magnitude(out) <= Magnitude(Nearest(decoded))
      BY <1>1, <2>1, ScaledBelow
    <2>4. \A s \in I32 : s <= decoded => Scaled(s, volume) <= out
      BY <1>1, <2>1, ScaledMonotone
    <2>5. out * decoded >= 0
      <3>1. out \in Int /\ decoded \in Int
        BY <1>1, <2>1, ScaledType, BasePowers DEF I32
      <3>2. decoded >= 0 => out >= 0
        BY <1>1, <2>4, <3>1, ScaledZero
      <3>3. decoded <= 0 => out <= 0
        BY <1>1, <2>1, <3>1, ScaledZero, ScaledMonotone
      <3> QED BY <3>1, <3>2, <3>3
    <2> QED BY <1>3, <2>2, <2>3, <2>4, <2>5 DEF ScaledInOrder
  <1> QED BY <1>2, <1>3
=============================================================================

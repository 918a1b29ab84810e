------------------------ MODULE RecommendationProofs ------------------------
(***************************************************************************)
(* Theorems about Recommendation, for any models, horizon, values, groups  *)
(* and strategies.                                                         *)
(***************************************************************************)
EXTENDS Recommendation, TLAPS

-----------------------------------------------------------------------------
\* Products and quotients

\* Multiplication by a natural number keeps the order.
LEMMA TimesMonotone ==
    ASSUME NEW a \in Int, NEW b \in Int, NEW c \in Nat, a <= b
    PROVE  a * c <= b * c
<1>1. 0 <= (b - a) * c  BY Z3
<1>2. (b - a) * c = b * c - a * c  BY Z3
<1>3. a * c \in Int /\ b * c \in Int  OBVIOUS
<1> QED  BY <1>1, <1>2, <1>3

\* Ceil rounds up.
LEMMA CeilBounds ==
    ASSUME NEW a \in Int, NEW b \in Nat \ {0}
    PROVE  /\ Ceil(a, b) \in Int
           /\ a <= Ceil(a, b) * b
           /\ (Ceil(a, b) - 1) * b < a
<1> DEFINE q == (-a) \div b
<1>1. q \in Int /\ q * b <= -a /\ -a < (q + 1) * b  BY Z3
<1>2. Ceil(a, b) = -q  BY DEF Ceil
<1> HIDE DEF q
<1>3. (-q) * b = -(q * b) /\ (-q - 1) * b = -((q + 1) * b)  BY <1>1
<1> QED  BY <1>1, <1>2, <1>3

\* A product is ordered as its factor is.
LEMMA TimesCancel ==
    ASSUME NEW a \in Int, NEW b \in Int, NEW c \in Nat \ {0}, a * c < b * c
    PROVE  a < b
<1> SUFFICES ASSUME b <= a PROVE FALSE  OBVIOUS
<1>1. b * c <= a * c  BY TimesMonotone
<1>2. a * c \in Int /\ b * c \in Int  OBVIOUS
<1> QED  BY <1>1, <1>2

\* The smaller of two quotients is not rounded up past the other.
LEMMA CeilMonotone ==
    ASSUME NEW a \in Int, NEW b \in Nat \ {0}, NEW c \in Int, NEW d \in Nat \ {0},
           a * d <= c * b
    PROVE  Ceil(a, b) <= Ceil(c, d)
<1> DEFINE p == Ceil(a, b)
           q == Ceil(c, d)
<1>1. p \in Int /\ (p - 1) * b < a  BY CeilBounds
<1>2. q \in Int /\ c <= q * d  BY CeilBounds
<1> HIDE DEF p, q
<1>3. (p - 1) * b * d < a * d
  <2>1. (p - 1) * b \in Int /\ (p - 1) * b + 1 <= a  BY <1>1
  <2>2. ((p - 1) * b + 1) * d <= a * d  BY <2>1, TimesMonotone
  <2>3. ((p - 1) * b + 1) * d = (p - 1) * b * d + d  BY <2>1, Z3
  <2>4. (p - 1) * b * d \in Int /\ a * d \in Int  BY <2>1
  <2> QED  BY <2>2, <2>3, <2>4
<1>4. c * b <= q * d * b
  <2>1. q * d \in Int  BY <1>2
  <2> QED  BY <1>2, <2>1, TimesMonotone
<1>5. b * d \in Nat \ {0}  BY Z3
<1>6. (p - 1) * (b * d) < q * (b * d)
  <2>1. (p - 1) * (b * d) = (p - 1) * b * d /\ q * (b * d) = q * d * b  BY <1>1, <1>2, Z3
  <2>2. /\ (p - 1) * b * d \in Int /\ a * d \in Int /\ c * b \in Int
        /\ q * d * b \in Int
        BY <1>1, <1>2
  <2> QED  BY <1>3, <1>4, <2>1, <2>2
<1>7. p - 1 < q  BY <1>1, <1>2, <1>5, <1>6, TimesCancel
<1> QED  BY <1>1, <1>2, <1>7 DEF p, q

-----------------------------------------------------------------------------
\* The sizes of a group

\* What is no more than its divisor is rounded up to 1 at most.
LEMMA CeilSmall ==
    ASSUME NEW a \in Int, NEW b \in Nat \ {0}, a <= b
    PROVE  Ceil(a, b) <= 1
<1>1. Ceil(a, b) \in Int /\ (Ceil(a, b) - 1) * b < a  BY CeilBounds
<1>2. (Ceil(a, b) - 1) * b < 1 * b
  <2>1. (Ceil(a, b) - 1) * b \in Int /\ 1 * b = b  BY <1>1
  <2> QED  BY <1>1, <2>1
<1>3. Ceil(a, b) - 1 < 1  BY <1>1, <1>2, TimesCancel
<1> QED  BY <1>1, <1>3

\* The error of a quotient is worth one instance at most.
LEMMA CeilError ==
    ASSUME NEW a \in Int, NEW b \in Nat \ {0}
    PROVE  Ceil(a, b) <= Ceil(a + 1, b) /\ Ceil(a + 1, b) <= Ceil(a, b) + 1
<1> DEFINE p == Ceil(a, b)
           q == Ceil(a + 1, b)
<1>1. p \in Int /\ a <= p * b  BY CeilBounds
<1>2. q \in Int /\ (q - 1) * b < a + 1  BY CeilBounds
<1>3. p <= q
  <2>1. a * b <= (a + 1) * b  BY TimesMonotone
  <2> QED  BY <2>1, CeilMonotone
<1> HIDE DEF p, q
<1>4. (q - 1) * b < (p + 1) * b
  <2>1. (p + 1) * b = p * b + b  BY <1>1, Z3
  <2>2. (q - 1) * b \in Int /\ p * b \in Int  BY <1>1, <1>2
  <2> QED  BY <1>1, <1>2, <2>1, <2>2
<1>5. q - 1 < p + 1  BY <1>1, <1>2, <1>4, TimesCancel
<1> QED  BY <1>1, <1>2, <1>3, <1>5 DEF p, q

\* A conversion gives an integer, and it keeps whatever is not above the
\* greatest int32, as far as a clamp to 1 can tell.
LEMMA Int32Value ==
    ASSUME NEW x \in Int \union {NotFinite}, NEW c \in Int32(x)
    PROVE  /\ c \in Int
           /\ x \in Int /\ x <= MaxInt => AtLeast(1, c) = AtLeast(1, x)
<1>1. MaxInt \in Nat \ {0} /\ NotFinite \notin Int
      BY MaxIntAssumption, LevelsAssumption
<1>2. CASE x = NotFinite
  <2>1. c \in {-MaxInt - 1, 0, MaxInt}  BY <1>2 DEF Int32
  <2> QED  BY <1>1, <1>2, <2>1
<1>3. CASE x # NotFinite /\ x > MaxInt
  <2>1. c \in {-MaxInt - 1, MaxInt}  BY <1>3 DEF Int32
  <2> QED  BY <1>1, <1>3, <2>1
<1>4. CASE x # NotFinite /\ x < -MaxInt - 1
  <2>1. ~(x > MaxInt)  BY <1>1, <1>4
  <2>2. c = -MaxInt - 1  BY <1>4, <2>1 DEF Int32
  <2> QED  BY <1>1, <1>4, <2>2 DEF AtLeast
<1>5. CASE x # NotFinite /\ ~(x > MaxInt) /\ ~(x < -MaxInt - 1)
  <2>1. c = x  BY <1>5 DEF Int32
  <2> QED  BY <1>5, <2>1
<1> QED  BY <1>2, <1>3, <1>4, <1>5

\* A capacity is an integer; one that can be represented is the quotient
\* rounded up, with or without its error, as far as a clamp to 1 can tell.
LEMMA CapacityValue ==
    ASSUME NEW v \in Int \union {NotFinite}, NEW size \in Nat, NEW d \in Nat \ {0},
           NEW c \in Capacity(v, size, d)
    PROVE  /\ c \in Int
           /\ v \in Int /\ Ceil(v * size + 1, d) <= MaxInt
                => /\ AtLeast(1, Ceil(v * size, d)) <= AtLeast(1, c)
                   /\ AtLeast(1, c) <= AtLeast(1, Ceil(v * size + 1, d))
<1>1. PICK x \in RoundedUp(v, size, d) : c \in Int32(x)  BY DEF Capacity
<1>2. NotFinite \notin Int  BY LevelsAssumption
<1>3. CASE v = NotFinite
  <2>1. x = NotFinite  BY <1>1, <1>3 DEF RoundedUp
  <2> QED  BY <1>1, <1>2, <1>3, <2>1, Int32Value
<1>4. CASE v \in Int
  <2> DEFINE p == Ceil(v * size, d)
             q == Ceil(v * size + 1, d)
  <2>1. x \in {p, q}  BY <1>1, <1>2, <1>4 DEF RoundedUp
  <2>2. v * size \in Int /\ v * size + 1 \in Int  BY <1>4
  <2>3. p \in Int /\ q \in Int /\ p <= q
    <3>1. p \in Int  BY <2>2, CeilBounds
    <3>2. q \in Int  BY <2>2, CeilBounds
    <3>3. p <= q  BY <2>2, CeilError
    <3> QED  BY <3>1, <3>2, <3>3
  <2> HIDE DEF p, q
  <2>4. c \in Int /\ (x <= MaxInt => AtLeast(1, c) = AtLeast(1, x))
        BY <1>1, <2>1, <2>3, Int32Value
  <2>5. ASSUME q <= MaxInt
        PROVE  AtLeast(1, p) <= AtLeast(1, c) /\ AtLeast(1, c) <= AtLeast(1, q)
    <3>1. MaxInt \in Int  BY MaxIntAssumption
    <3>2. x \in Int /\ p <= x /\ x <= q /\ x <= MaxInt  BY <2>1, <2>3, <2>5, <3>1
    <3>3. AtLeast(1, c) = AtLeast(1, x)  BY <2>4, <3>2
    <3>4. AtLeast(1, p) <= AtLeast(1, x) /\ AtLeast(1, x) <= AtLeast(1, q)
          BY <2>3, <3>2 DEF AtLeast
    <3> QED  BY <3>3, <3>4
  <2> QED  BY <2>4, <2>5 DEF p, q
<1> QED  BY <1>3, <1>4

\* The divisor of a quotient.
LEMMA UnitType == Unit \in Nat /\ 65 <= Unit
<1>1. Scale \in Nat /\ 1 <= Scale  BY ScaleAssumption
<1> QED  BY <1>1 DEF Unit, TargetUtilization

\* The buffer of a fifth makes up for the error of a quotient, unless the
\* quotient is so small that it is rounded up to 1.
LEMMA BufferSuffices ==
    ASSUME NEW a \in Int, NEW n \in Nat \ {0}, NEW m \in Nat, a <= n * m
    PROVE  \/ Ceil(a + 1, n * Unit) <= 1
           \/ Ceil(a + 1, n * Unit) <= Ceil(12 * m, 10 * Unit)
<1>1. Unit \in Nat /\ 65 <= Unit  BY UnitType
<1> DEFINE u == Unit
<1>2. u \in Nat \ {0} /\ 65 <= u  BY <1>1
<1> HIDE DEF u
<1>3. n * u \in Nat \ {0} /\ 10 * u \in Nat \ {0}  BY <1>2, Z3
<1>4. n * m \in Nat  OBVIOUS
<1>5. CASE n * m < 5
  <2>1. 1 * u <= n * u  BY <1>2, TimesMonotone
  <2>2. 65 <= n * u  BY <1>2, <1>3, <2>1
  <2>3. a + 1 <= n * u  BY <1>3, <1>4, <1>5, <2>2
  <2> QED  BY <1>3, <2>3, CeilSmall DEF u
<1>6. CASE 5 <= n * m
  <2> DEFINE k == n * m
  <2>1. k \in Nat /\ 10 * (a + 1) <= 12 * k  BY <1>4, <1>6
  <2>2. (10 * (a + 1)) * u <= (12 * k) * u
    <3> HIDE DEF k
    <3> QED  BY <1>2, <2>1, TimesMonotone
  <2>3. (10 * (a + 1)) * u = (a + 1) * (10 * u)  BY <1>2, Z3
  <2>4. (12 * k) * u = (12 * m) * (n * u)  BY <1>2, Z3
  <2>5. (a + 1) * (10 * u) <= (12 * m) * (n * u)  BY <2>2, <2>3, <2>4
  <2> QED  BY <1>3, <2>5, CeilMonotone DEF u
<1> QED  BY <1>4, <1>5, <1>6

\* Whatever the forecast is and the conversions give, there is at least one
\* instance, and the maximum is not below the minimum.
LEMMA SizesAtLeastOne ==
    ASSUME NEW least \in Int \union {NotFinite}, NEW total \in Int \union {NotFinite},
           NEW n \in Nat \ {0}, NEW most \in Int \union {NotFinite},
           NEW g \in Groups, NEW s \in Sizes(least, total, n, most, g)
    PROVE  /\ s.min \in Int /\ s.desired \in Int /\ s.max \in Int
           /\ 1 <= s.min /\ s.min <= s.max /\ 1 <= s.desired /\ s.current = g
<1>1. PICK a \in Capacity(least, g.min, Unit), b \in Capacity(total, g.desired, n * Unit),
           c \in Capacity(most, 12 * g.max, 10 * Unit) :
        s = [min |-> AtLeast(1, a), desired |-> AtLeast(1, b),
             max |-> AtLeast(AtLeast(1, a), c), current |-> g]
      BY DEF Sizes
<1>2. g.min \in Nat /\ g.desired \in Nat /\ 12 * g.max \in Nat  BY GroupsAssumption
<1>3. Unit \in Nat \ {0} /\ n * Unit \in Nat \ {0} /\ 10 * Unit \in Nat \ {0}
  <2>1. Unit \in Nat \ {0}  BY UnitType
  <2> QED  BY <2>1, Z3
<1>4. a \in Int /\ b \in Int /\ c \in Int  BY <1>2, <1>3, CapacityValue
<1> QED  BY <1>1, <1>4 DEF AtLeast

\* The quotients of the minimum and of the desired size: the smaller is not
\* rounded up past the other but by its error, and not even by that if the
\* group had more instances than its minimum.
LEMMA MinimumBelowDesired ==
    ASSUME NEW least \in Int, NEW total \in Int, NEW n \in Nat \ {0}, n * least <= total,
           NEW g \in Groups
    PROVE  LET p == Ceil(least * g.min + 1, Unit)
               q == Ceil(total * g.desired, n * Unit)
           IN  p <= 1 \/ p <= q \/ (g.min = g.desired /\ p <= q + 1)
<1> DEFINE u == Unit
           x == least * g.min
           y == total * g.desired
<1>1. g.min \in Nat /\ g.desired \in Nat /\ g.min <= g.desired  BY GroupsAssumption
<1>2. u \in Nat \ {0}  BY UnitType
<1>3. x \in Int /\ y \in Int  BY <1>1
<1> HIDE DEF u
<1>4. n * u \in Nat \ {0}  BY <1>2, Z3
<1>5. CASE least <= 0
  <2>1. x <= 0 * g.min  BY <1>1, <1>5, TimesMonotone
  <2>2. x + 1 <= u  BY <1>1, <1>2, <1>3, <2>1
  <2>3. Ceil(x + 1, u) <= 1  BY <1>2, <1>3, <2>2, CeilSmall
  <2> QED  BY <2>3 DEF u
<1>6. CASE 1 <= least
  <2> DEFINE k == n * least
  <2>1. k \in Nat /\ n <= k
    <3>1. 1 * n <= least * n  BY <1>6, TimesMonotone
    <3>2. least * n = k /\ k \in Nat  BY <1>6, Z3
    <3> QED  BY <3>1, <3>2
  <2>2. k * g.desired <= y  BY <1>1, TimesMonotone
  <2>3. k * g.min = x * n  BY <1>1, Z3
  <2> HIDE DEF k, x, y
  <2>4. CASE g.min = g.desired
    <3>1. x * n <= y  BY <2>2, <2>3, <2>4
    <3>2. (x * n) * u <= y * u
      <4>1. x * n \in Int  BY <1>3
      <4> QED  BY <1>2, <1>3, <3>1, <4>1, TimesMonotone
    <3>3. (x * n) * u = x * (n * u)  BY <1>2, <1>3, Z3
    <3>4. Ceil(x, u) <= Ceil(y, n * u)  BY <1>2, <1>3, <1>4, <3>2, <3>3, CeilMonotone
    <3>5. Ceil(x + 1, u) <= Ceil(x, u) + 1  BY <1>2, <1>3, CeilError
    <3>6. Ceil(x, u) \in Int /\ Ceil(x + 1, u) \in Int /\ Ceil(y, n * u) \in Int
          BY <1>2, <1>3, <1>4, CeilBounds
    <3>7. Ceil(x + 1, u) <= Ceil(y, n * u) + 1  BY <3>4, <3>5, <3>6
    <3> QED  BY <2>4, <3>7 DEF u, x, y
  <2>5. CASE g.min < g.desired
    <3>1. (g.min + 1) * k <= g.desired * k  BY <1>1, <2>1, <2>5, TimesMonotone
    <3>2. (g.min + 1) * k = k * g.min + k /\ g.desired * k = k * g.desired
          BY <1>1, <2>1, Z3
    <3>3. x * n + n <= y
      <4>1. k * g.min \in Int /\ k * g.desired \in Int  BY <1>1, <2>1
      <4> QED  BY <1>3, <2>1, <2>2, <2>3, <3>1, <3>2, <4>1
    <3>4. (x + 1) * n = x * n + n  BY <1>3, Z3
    <3>5. ((x + 1) * n) * u <= y * u
      <4>1. (x + 1) * n \in Int  BY <1>3
      <4> QED  BY <1>2, <1>3, <3>3, <3>4, <4>1, TimesMonotone
    <3>6. ((x + 1) * n) * u = (x + 1) * (n * u)  BY <1>2, <1>3, Z3
    <3>7. Ceil(x + 1, u) <= Ceil(y, n * u)
          BY <1>2, <1>3, <1>4, <3>5, <3>6, CeilMonotone
    <3> QED  BY <3>7 DEF u, x, y
  <2> QED  BY <1>1, <2>4, <2>5
<1> QED  BY <1>5, <1>6

\* generateRecommendation rounds three quotients up on their own.  For a
\* forecast of n values whose sum is between n times the lowest value and n
\* times the peak, and any group, they still make a group if the greatest of
\* them is an int32: the desired size is not above the maximum, and not below
\* the minimum either, but by the one instance that the error of a quotient is
\* worth, in a group that had no more than its minimum.
THEOREM SizesMakeAGroup ==
    ASSUME NEW least \in Int, NEW total \in Int, NEW n \in Nat \ {0}, NEW most \in Nat,
           n * least <= total, total <= n * most,
           NEW g \in Groups, NEW s \in Sizes(least, total, n, most, g),
           Ceil(most * (12 * g.max) + 1, 10 * Unit) <= MaxInt
    PROVE  /\ s.desired <= s.max
           /\ s.min <= s.desired \/ (g.min = g.desired /\ s.min = s.desired + 1)
<1> DEFINE u == Unit
           x == least * g.min
           y == total * g.desired
           z == most * (12 * g.max)
           L == Ceil(x + 1, u)
           W == Ceil(y, n * u)
           V == Ceil(y + 1, n * u)
           H == Ceil(z, 10 * u)
           G == Ceil(z + 1, 10 * u)
<1>1. PICK a \in Capacity(least, g.min, u), b \in Capacity(total, g.desired, n * u),
           c \in Capacity(most, 12 * g.max, 10 * u) :
        s = [min |-> AtLeast(1, a), desired |-> AtLeast(1, b),
             max |-> AtLeast(AtLeast(1, a), c), current |-> g]
      BY DEF Sizes
<1>2. /\ g.min \in Nat /\ g.desired \in Nat /\ g.max \in Nat /\ 12 * g.max \in Nat
      /\ g.min <= g.desired /\ g.desired <= g.max
      BY GroupsAssumption
<1>3. u \in Nat \ {0}  BY UnitType
<1>4. n * u \in Nat \ {0} /\ 10 * u \in Nat \ {0}
  <2> HIDE DEF u
  <2> QED  BY <1>3, Z3
<1>5. x \in Int /\ y \in Int /\ z \in Int  BY <1>2
<1>6. most * g.max \in Nat /\ z = 12 * (most * g.max)  BY <1>2, Z3
<1>7. /\ L \in Int /\ W \in Int /\ V \in Int /\ H \in Int /\ G \in Int
      /\ H <= G /\ G <= MaxInt
  <2>1. G <= MaxInt  OBVIOUS
  <2> HIDE DEF u, x, y, z
  <2>2. x + 1 \in Int /\ y + 1 \in Int /\ z + 1 \in Int  BY <1>5
  <2>3. L \in Int  BY <1>3, <2>2, CeilBounds
  <2>4. W \in Int /\ V \in Int  BY <1>4, <1>5, <2>2, CeilBounds
  <2>5. H \in Int /\ G \in Int  BY <1>4, <1>5, <2>2, CeilBounds
  <2>6. H <= G  BY <1>4, <1>5, CeilError
  <2> QED  BY <2>1, <2>3, <2>4, <2>5, <2>6
<1>8. V <= 1 \/ V <= H
  <2>1. y <= (n * most) * g.desired  BY <1>2, TimesMonotone
  <2>2. g.desired * (n * most) <= g.max * (n * most)  BY <1>2, TimesMonotone
  <2>3. /\ (n * most) * g.desired = g.desired * (n * most)
        /\ g.max * (n * most) = n * (most * g.max)
        BY <1>2, Z3
  <2>4. y <= n * (most * g.max)
    <3>1. g.desired * (n * most) \in Int /\ g.max * (n * most) \in Int  BY <1>2
    <3> QED  BY <1>5, <2>1, <2>2, <2>3, <3>1
  <2>5. \/ Ceil(y + 1, n * Unit) <= 1
        \/ Ceil(y + 1, n * Unit) <= Ceil(12 * (most * g.max), 10 * Unit)
        BY <1>5, <1>6, <2>4, BufferSuffices
  <2> QED  BY <1>6, <2>5
<1>9. L <= 1 \/ L <= W \/ (g.min = g.desired /\ L <= W + 1)
      BY MinimumBelowDesired
<1>10. L <= MaxInt
  <2>1. CASE least <= 0
    <3>1. x <= 0 * g.min  BY <1>2, <2>1, TimesMonotone
    <3>2. x + 1 <= u  BY <1>2, <1>3, <1>5, <3>1
    <3>3. L <= 1  BY <1>3, <1>5, <3>2, CeilSmall
    <3> QED  BY <1>7, <3>3, MaxIntAssumption
  <2>2. CASE 1 <= least
    <3>1. least <= most
      <4>1. n * least \in Int /\ n * most \in Int  OBVIOUS
      <4>2. least * n < (most + 1) * n
        <5>1. least * n = n * least /\ (most + 1) * n = n * most + n  BY Z3
        <5> QED  BY <4>1, <5>1
      <4>3. least < most + 1  BY <4>2, TimesCancel
      <4> QED  BY <4>3
    <3>2. x <= most * g.min  BY <1>2, <3>1, TimesMonotone
    <3>3. g.min * most <= g.max * most  BY <1>2, TimesMonotone
    <3>4. g.min * most = most * g.min /\ g.max * most = 1 * (most * g.max)
          BY <1>2, Z3
    <3>5. x <= 1 * (most * g.max)
      <4>1. most * g.min \in Int /\ g.max * most \in Int  BY <1>2
      <4> QED  BY <1>5, <3>2, <3>3, <3>4, <4>1
    <3>6. \/ Ceil(x + 1, 1 * Unit) <= 1
          \/ Ceil(x + 1, 1 * Unit) <= Ceil(12 * (most * g.max), 10 * Unit)
      <4> DEFINE m == most * g.max
      <4>1. x \in Int /\ m \in Nat /\ x <= 1 * m /\ 1 \in Nat \ {0}
            BY <1>5, <1>6, <3>5
      <4> HIDE DEF x, m
      <4>2. \/ Ceil(x + 1, 1 * Unit) <= 1
            \/ Ceil(x + 1, 1 * Unit) <= Ceil(12 * m, 10 * Unit)
            BY <4>1, BufferSuffices
      <4> QED  BY <4>2 DEF x, m
    <3>7. 1 * Unit = u  BY <1>3
    <3>8. L <= 1 \/ L <= H  BY <1>6, <3>6, <3>7
    <3> HIDE DEF L, H, G
    <3> QED  BY <1>7, <3>8, MaxIntAssumption
  <2> QED  BY <2>1, <2>2
<1>11. V <= MaxInt
  <2> HIDE DEF V, H, G
  <2> QED  BY <1>7, <1>8, MaxIntAssumption
<1>12. a \in Int /\ AtLeast(1, a) <= AtLeast(1, L)
  <2>1. L <= MaxInt /\ a \in Capacity(least, g.min, u)  BY <1>1, <1>10
  <2> HIDE DEF u
  <2> QED  BY <1>2, <1>3, <2>1, CapacityValue
<1>13. b \in Int /\ AtLeast(1, W) <= AtLeast(1, b) /\ AtLeast(1, b) <= AtLeast(1, V)
  <2> DEFINE d == n * u
  <2>1. V <= MaxInt /\ b \in Capacity(total, g.desired, d) /\ d \in Nat \ {0}
        BY <1>1, <1>4, <1>11
  <2>2. /\ Ceil(y + 1, d) <= MaxInt => AtLeast(1, Ceil(y, d)) <= AtLeast(1, b)
        /\ Ceil(y + 1, d) <= MaxInt => AtLeast(1, b) <= AtLeast(1, Ceil(y + 1, d))
        /\ b \in Int
    <3> HIDE DEF d
    <3> QED  BY <1>2, <2>1, CapacityValue
  <2> QED  BY <2>1, <2>2
<1>14. c \in Int /\ AtLeast(1, H) <= AtLeast(1, c)
  <2> DEFINE d == 10 * u
             k == 12 * g.max
  <2>1. /\ G <= MaxInt /\ c \in Capacity(most, k, d) /\ d \in Nat \ {0}
        /\ k \in Nat /\ most \in Int
        BY <1>1, <1>2, <1>4, <1>7
  <2>2. /\ Ceil(most * k + 1, d) <= MaxInt => AtLeast(1, Ceil(most * k, d)) <= AtLeast(1, c)
        /\ c \in Int
    <3> HIDE DEF d, k
    <3> QED  BY <2>1, CapacityValue
  <2> QED  BY <2>1, <2>2
<1> HIDE DEF L, W, V, H, G
<1>15. AtLeast(1, b) <= AtLeast(AtLeast(1, a), c)
       BY <1>7, <1>8, <1>12, <1>13, <1>14 DEF AtLeast
<1>16. \/ AtLeast(1, a) <= AtLeast(1, b)
       \/ g.min = g.desired /\ AtLeast(1, a) = AtLeast(1, b) + 1
       BY <1>7, <1>9, <1>12, <1>13 DEF AtLeast
<1> QED  BY <1>1, <1>15, <1>16

-----------------------------------------------------------------------------
\* The mean of a step

\* A rounded quotient lies between the bounds of what is divided.
LEMMA MeanBounds ==
    ASSUME NEW total \in Int, NEW n \in Nat \ {0}, NEW a \in Int, NEW b \in Int,
           n * a <= total, total <= n * b
    PROVE  /\ (Scale * total) \div n \in Int
           /\ Scale * a <= (Scale * total) \div n
           /\ (Scale * total) \div n <= Scale * b
<1> DEFINE q == (Scale * total) \div n
<1>1. Scale \in Nat  BY ScaleAssumption
<1>2. /\ Scale * total \in Int /\ Scale * a \in Int /\ Scale * b \in Int
      /\ n * a \in Int /\ n * b \in Int
      BY <1>1
<1>3. q \in Int /\ q * n <= Scale * total /\ Scale * total < (q + 1) * n
      BY <1>2, Z3
<1> HIDE DEF q
<1>4. (Scale * a) * n < (q + 1) * n
  <2>1. (n * a) * Scale <= total * Scale  BY <1>1, <1>2, TimesMonotone
  <2>2. (n * a) * Scale = (Scale * a) * n /\ total * Scale = Scale * total
        BY <1>1, Z3
  <2>3. (Scale * a) * n \in Int /\ (q + 1) * n \in Int  BY <1>2, <1>3
  <2> QED  BY <1>2, <1>3, <2>1, <2>2, <2>3
<1>5. q * n < (Scale * b + 1) * n
  <2>1. total * Scale <= (n * b) * Scale  BY <1>1, <1>2, TimesMonotone
  <2>2. (n * b) * Scale = (Scale * b) * n /\ total * Scale = Scale * total
        BY <1>1, Z3
  <2>3. (Scale * b + 1) * n = (Scale * b) * n + n  BY <1>2, Z3
  <2>4. (Scale * b) * n \in Int /\ q * n \in Int  BY <1>2, <1>3
  <2> QED  BY <1>2, <1>3, <2>1, <2>2, <2>3, <2>4
<1>6. Scale * a < q + 1  BY <1>2, <1>3, <1>4, TimesCancel
<1>7. q < Scale * b + 1  BY <1>2, <1>3, <1>5, TimesCancel
<1> QED  BY <1>2, <1>3, <1>6, <1>7 DEF q

\* What a float64 is in this model.
Float == Int \union {NotFinite}

\* Arithmetic stays within them.
LEMMA FloatArithmetic ==
    ASSUME NEW a \in Float, NEW b \in Float, NEW n \in Nat \ {0}
    PROVE  Plus(a, b) \in Float /\ Scaled(a) \in Float /\ Over(a, n) \in Float
<1>1. NotFinite \notin Int /\ Scale \in Nat  BY LevelsAssumption, ScaleAssumption
<1>2. Plus(a, b) \in Float
  <2>1. CASE NotFinite \in {a, b}  BY <2>1 DEF Plus, Float
  <2>2. CASE NotFinite \notin {a, b}
    <3>1. a + b \in Int  BY <2>2 DEF Float
    <3> QED  BY <2>2, <3>1 DEF Plus, Float
  <2> QED  BY <2>1, <2>2
<1>3. Scaled(a) \in Float
  <2>1. a \in Int => Scale * a \in Int  BY <1>1
  <2> QED  BY <2>1 DEF Scaled, Float
<1>4. Over(a, n) \in Float
  <2>1. a \in Int => a \div n \in Int  OBVIOUS
  <2> QED  BY <2>1 DEF Over, Float
<1> QED  BY <1>2, <1>3, <1>4

\* An answer is a sequence of values, and not an empty one.
LEMMA AnswerType ==
    ASSUME NEW a \in Answers
    PROVE  \E n \in Nat \ {0} : a \in [1..n -> Float]
<1>1. PICK n \in 1..Horizon : a \in [1..n -> Levels \union {NotFinite}]  BY DEF Answers
<1>2. n \in Nat \ {0}  BY HorizonAssumption
<1>3. \A i \in 1..n : a[i] \in Float  BY <1>1, LevelsAssumption DEF Float
<1>4. a \in [1..n -> Float]  BY <1>1, <1>3
<1> QED  BY <1>2, <1>4

-----------------------------------------------------------------------------
\* Type correctness

\* The types of the variables.
TypeOK ==
    /\ pc \in {"predict", "combine", "returned", "statistics", "done", "failed"}
    /\ running \in SUBSET Models
    /\ predictions \in Seq(Answers)
    /\ forecast \in Seq(Float)
    /\ at \in Nat /\ seen \in Nat
    /\ sum \in Float /\ weight \in Nat
    /\ low \in Float /\ peak \in Float

\* What the loops rely on: while the steps are combined the forecast has the
\* horizon's length, and when they are it has a first value.
LengthInv ==
    /\ pc = "combine" =>
          /\ DOMAIN forecast = 1..Horizon
          /\ at \in 1..Horizon
          /\ seen \in 0..Len(predictions)
    /\ pc \in {"returned", "statistics"} => Len(forecast) \in Nat \ {0}
    /\ pc = "statistics" => at \in 0..Len(forecast)

TypeInv == TypeOK /\ LengthInv

\* The value of an answer at one of its steps.
LEMMA AnswerValue ==
    ASSUME TypeOK, NEW k \in DOMAIN predictions, NEW i \in DOMAIN predictions[k]
    PROVE  predictions[k][i] \in Float
<1>1. predictions[k] \in Answers  BY DEF TypeOK
<1> QED  BY <1>1, AnswerType

\* A function over 1..n is a sequence of n values.
LEMMA SeqOfFunction ==
    ASSUME NEW n \in Nat, NEW f \in [1..n -> Float]
    PROVE  f \in Seq(Float) /\ Len(f) = n /\ DOMAIN f = 1..n
OBVIOUS

\* The actions of Predict keep the types.
LEMMA TypePredict ==
    ASSUME TypeInv,
           \/ \E m \in Models : PredictModel(m) \/ PredictModelFails(m)
           \/ NoModelPredicted \/ BestModel
    PROVE  TypeInv'
<1> USE DEF TypeInv, TypeOK, LengthInv, Joined, loopVars
<1>1. ASSUME NEW m \in Models, PredictModel(m) PROVE TypeInv'
  <2>1. PICK answer \in Answers : predictions' = Append(predictions, answer)
        BY <1>1 DEF PredictModel
  <2>2. predictions' \in Seq(Answers) /\ Len(predictions') = Len(predictions) + 1
        BY <2>1
  <2> QED  BY <1>1, <2>2 DEF PredictModel
<1>2. ASSUME NEW m \in Models, PredictModelFails(m) PROVE TypeInv'
      BY <1>2 DEF PredictModelFails
<1>3. CASE NoModelPredicted  BY <1>3 DEF NoModelPredicted
<1>4. CASE BestModel
  <2>1. PICK k \in DOMAIN predictions :
           forecast' = [i \in DOMAIN predictions[k] |-> Scaled(predictions[k][i])]
        BY <1>4 DEF BestModel
  <2>2. PICK n \in Nat \ {0} : predictions[k] \in [1..n -> Float]
        BY <2>1, AnswerType
  <2>3. \A i \in 1..n : Scaled(predictions[k][i]) \in Float  BY <2>2, FloatArithmetic
  <2>4. forecast' \in [1..n -> Float]  BY <2>1, <2>2, <2>3
  <2>5. forecast' \in Seq(Float) /\ Len(forecast') = n  BY <2>2, <2>4, SeqOfFunction
  <2> QED  BY <1>4, <2>2, <2>5 DEF BestModel
<1> QED  BY <1>1, <1>2, <1>3, <1>4

\* The actions of weightedAverage keep the types.
LEMMA TypeAverage ==
    ASSUME TypeInv, Combine \/ AddAnswer \/ EndStep
    PROVE  TypeInv'
<1> USE HorizonAssumption DEF TypeInv, TypeOK, LengthInv, Joined, loopVars
<1>1. CASE Combine
  <2>1. forecast' \in [1..Horizon -> Float]  BY <1>1 DEF Combine, Float
  <2>2. forecast' \in Seq(Float) /\ DOMAIN forecast' = 1..Horizon
        BY <2>1, SeqOfFunction
  <2> QED  BY <1>1, <2>2 DEF Combine, StartStep
<1>2. CASE AddAnswer
  <2>1. seen' \in DOMAIN predictions  BY <1>2 DEF AddAnswer
  <2>2. at \in DOMAIN predictions[seen'] => predictions[seen'][at] \in Float
    <3> HIDE DEF TypeOK
    <3> QED  BY <2>1, AnswerValue DEF TypeInv
  <2>3. sum' \in Float /\ weight' \in Nat
    <3>1. sum \in Float /\ weight \in Nat  OBVIOUS
    <3> HIDE DEF TypeInv, TypeOK, LengthInv
    <3>2. at \in DOMAIN predictions[seen'] => Plus(sum, predictions[seen'][at]) \in Float
          BY <2>2, <3>1, FloatArithmetic
    <3> QED  BY <1>2, <3>1, <3>2 DEF AddAnswer
  <2> QED  BY <1>2, <2>1, <2>3 DEF AddAnswer
<1>3. CASE EndStep
  <2>1. weight > 0 => Over(Scaled(sum), weight) \in Float
    <3>1. Scaled(sum) \in Float  BY FloatArithmetic
    <3> SUFFICES ASSUME weight > 0 PROVE Over(Scaled(sum), weight) \in Float  OBVIOUS
    <3>2. weight \in Nat \ {0}  OBVIOUS
    <3> HIDE DEF TypeInv, TypeOK, LengthInv
    <3> QED  BY <3>1, <3>2, FloatArithmetic
  <2>2. /\ forecast' \in [1..Horizon -> Float]
    <3>1. forecast \in [1..Horizon -> Float]  BY <1>3 DEF EndStep
    <3> QED  BY <1>3, <2>1, <3>1 DEF EndStep
  <2>3. /\ forecast' \in Seq(Float) /\ Len(forecast') = Horizon
        /\ DOMAIN forecast' = 1..Horizon
        BY <2>2, SeqOfFunction
  <2>4. CASE at < Horizon
    <3>1. /\ StartStep(at + 1)
          /\ UNCHANGED << strategy, pc, running, predictions, rec >>
          BY <1>3, <2>4 DEF EndStep
    <3>2. pc' = "combine" /\ at + 1 \in 1..Horizon  BY <1>3, <2>4, <3>1 DEF EndStep
    <3> QED  BY <2>3, <3>1, <3>2 DEF StartStep, Float
  <2>5. CASE ~(at < Horizon)
    <3>1. /\ pc' = "returned"
          /\ UNCHANGED << strategy, running, predictions, loopVars, rec >>
          BY <1>3, <2>5 DEF EndStep
    <3> QED  BY <2>3, <3>1
  <2> QED  BY <2>4, <2>5
<1> QED  BY <1>1, <1>2, <1>3

\* The actions of generateRecommendation keep the types.
LEMMA TypeRecommend ==
    ASSUME TypeInv, Analyze \/ ScanValue \/ Recommend
    PROVE  TypeInv'
<1> USE DEF TypeInv, TypeOK, LengthInv, loopVars
<1>1. CASE Analyze
  <2>1. forecast[1] \in Float  BY <1>1 DEF Analyze
  <2> QED  BY <1>1, <2>1 DEF Analyze, Float
<1>2. CASE ScanValue
  <2>1. at' \in 1..Len(forecast)  BY <1>2 DEF ScanValue
  <2>2. forecast[at'] \in Float  BY <2>1
  <2>3. sum' \in Float /\ peak' \in Float /\ low' \in Float
    <3>1. sum \in Float /\ peak \in Float /\ low \in Float  OBVIOUS
    <3> HIDE DEF TypeInv, TypeOK, LengthInv
    <3>2. Plus(sum, forecast[at']) \in Float  BY <2>2, <3>1, FloatArithmetic
    <3> QED  BY <1>2, <2>2, <3>1, <3>2 DEF ScanValue
  <2> QED  BY <1>2, <2>1, <2>3 DEF ScanValue
<1>3. CASE Recommend  BY <1>3 DEF Recommend
<1> QED  BY <1>1, <1>2, <1>3

\* Every step keeps the types.
LEMMA TypeNext == TypeInv /\ [Next]_vars => TypeInv'
<1> SUFFICES ASSUME TypeInv, [Next]_vars PROVE TypeInv'  OBVIOUS
<1>1. CASE Next  BY <1>1, TypePredict, TypeAverage, TypeRecommend DEF Next
<1>2. CASE UNCHANGED vars
      BY <1>2 DEF vars, loopVars, TypeInv, TypeOK, LengthInv
<1> QED  BY <1>1, <1>2

\* The types hold at first.
LEMMA TypeInit == Init => TypeInv
BY DEF Init, TypeInv, TypeOK, LengthInv, Float

-----------------------------------------------------------------------------
\* The combined forecast

\* A sum between n times a and n times b stays so with one value more, if the
\* bounds make room for it.
LEMMA SumGrows ==
    ASSUME NEW n \in Nat, NEW total \in Int, NEW a \in Int, NEW b \in Int, NEW v \in Int,
           n * a <= total, total <= n * b,
           NEW c \in Int, c <= a, c <= v, NEW d \in Int, b <= d, v <= d
    PROVE  /\ (n + 1) * c <= total + v
           /\ total + v <= (n + 1) * d
<1>1. c * n <= a * n /\ b * n <= d * n  BY TimesMonotone
<1>2. /\ a * n = n * a /\ b * n = n * b
      /\ (n + 1) * c = c * n + c /\ (n + 1) * d = d * n + d
      BY Z3
<1>3. /\ a * n \in Int /\ b * n \in Int /\ c * n \in Int /\ d * n \in Int
      OBVIOUS
<1> QED  BY <1>1, <1>2, <1>3

\* What CombinationWithinModels needs to be inductive: the sum of the answers
\* seen so far is between two of them, times their number, if all are finite.
SumInv ==
    /\ weight = 0 => sum = 0 /\ \A k \in 1..seen : at \notin DOMAIN predictions[k]
    /\ weight > 0 /\ Finite(at) => \E lo, hi \in Answering(at) :
                                       /\ sum \in Int
                                       /\ weight * predictions[lo][at] <= sum
                                       /\ sum <= weight * predictions[hi][at]

MeanInv ==
    /\ TypeInv
    /\ CombinationWithinModels
    /\ pc = "combine" => SumInv
    /\ pc \in {"predict", "failed"} => forecast = << >>
    /\ running # {} => pc = "predict"

\* The inner loop.
LEMMA MeanAddAnswer ==
    ASSUME MeanInv, AddAnswer
    PROVE  SumInv'
<1> DEFINE k == seen + 1
           p == predictions[k][at]
<1>1. /\ pc = "combine" /\ seen' = k /\ predictions' = predictions /\ at' = at
      BY DEF AddAnswer
<1>2. k \in DOMAIN predictions /\ at \in Nat /\ weight \in Nat
      BY DEF AddAnswer, MeanInv, TypeInv, TypeOK, LengthInv
<1>3. CASE at \notin DOMAIN predictions[k]
  <2>1. UNCHANGED << sum, weight >>  BY <1>1, <1>3 DEF AddAnswer
  <2>2. 1..k = 1..seen \union {k}  BY DEF MeanInv, TypeInv, TypeOK
  <2> QED  BY <1>1, <1>3, <2>1, <2>2 DEF MeanInv, SumInv, Answering, Finite
<1>4. CASE at \in DOMAIN predictions[k]
  <2>1. sum' = Plus(sum, p) /\ weight' = weight + 1 /\ k \in Answering(at)
        BY <1>1, <1>2, <1>4 DEF AddAnswer, Answering
  <2>2. SumInv  BY <1>1 DEF MeanInv
  <2>3. ASSUME Finite(at)
        PROVE  \E lo, hi \in Answering(at) :
                  /\ Plus(sum, p) \in Int
                  /\ (weight + 1) * predictions[lo][at] <= Plus(sum, p)
                  /\ Plus(sum, p) <= (weight + 1) * predictions[hi][at]
    <3>1. \A j \in Answering(at) : predictions[j][at] \in Int
          BY <2>3, AnswerValue DEF MeanInv, TypeInv, Answering, Finite, Float
    <3>2. p \in Int  BY <2>1, <3>1
    <3> HIDE DEF p
    <3>3. ASSUME sum \in Int PROVE Plus(sum, p) = sum + p
          BY <3>2, <3>3, LevelsAssumption DEF Plus
    <3>4. CASE weight = 0
      <4>1. sum = 0  BY <2>2, <3>4 DEF SumInv
      <4>2. Plus(sum, p) = p /\ (weight + 1) * p = p  BY <3>2, <3>3, <3>4, <4>1
      <4> QED  BY <2>1, <3>2, <4>2 DEF p
    <3>5. CASE weight > 0
      <4>1. PICK lo, hi \in Answering(at) :
               /\ sum \in Int
               /\ weight * predictions[lo][at] <= sum
               /\ sum <= weight * predictions[hi][at]
            BY <2>2, <2>3, <3>5 DEF SumInv
      <4> DEFINE a == predictions[lo][at]
                 b == predictions[hi][at]
                 least == IF p < a THEN k ELSE lo
                 most == IF b < p THEN k ELSE hi
      <4>2. a \in Int /\ b \in Int  BY <3>1, <4>1
      <4>3. least \in Answering(at) /\ most \in Answering(at)  BY <2>1, <4>1
      <4>4. /\ predictions[least][at] \in Int /\ predictions[most][at] \in Int
            /\ predictions[least][at] <= a /\ predictions[least][at] <= p
            /\ b <= predictions[most][at] /\ p <= predictions[most][at]
            BY <3>2, <4>2 DEF p
      <4>5. weight * a <= sum /\ sum <= weight * b /\ sum \in Int  BY <4>1
      <4> HIDE DEF a, b, least, most
      <4>6. /\ (weight + 1) * predictions[least][at] <= sum + p
            /\ sum + p <= (weight + 1) * predictions[most][at]
            BY <1>2, <3>2, <4>2, <4>4, <4>5, SumGrows
      <4>7. sum + p \in Int /\ Plus(sum, p) = sum + p  BY <3>2, <3>3, <4>5
      <4> QED  BY <4>3, <4>6, <4>7
    <3> QED  BY <1>2, <3>4, <3>5
  <2>4. weight' # 0  BY <1>2, <2>1
  <2>5. Answering(at)' = Answering(at) /\ Finite(at)' = Finite(at)
        BY <1>1 DEF Answering, Finite
  <2> HIDE DEF p
  <2> QED  BY <1>1, <2>1, <2>3, <2>4, <2>5 DEF SumInv
<1> QED  BY <1>3, <1>4

\* The end of a step of the outer loop.
LEMMA MeanEndStep ==
    ASSUME MeanInv, EndStep, NEW i \in 1..Horizon, Answering(i) # {}, Finite(i),
           pc' = "combine" => i < at'
    PROVE  \E lo, hi \in Answering(i) :
              /\ forecast'[i] # NotFinite
              /\ Scale * predictions[lo][i] <= forecast'[i]
              /\ forecast'[i] <= Scale * predictions[hi][i]
<1>1. /\ pc = "combine" /\ SumInv /\ seen = Len(predictions) /\ at \in 1..Horizon
      /\ DOMAIN forecast = 1..Horizon /\ weight \in Nat
      /\ predictions \in Seq(Answers)
      BY DEF MeanInv, EndStep, TypeInv, TypeOK, LengthInv
<1>2. i <= at
  <2>1. CASE at < Horizon  BY <1>1, <2>1 DEF EndStep, StartStep
  <2>2. CASE ~(at < Horizon)  BY <1>1, <2>2, HorizonAssumption
  <2> QED  BY <2>1, <2>2
<1>3. CASE i < at
  <2>1. forecast'[i] = forecast[i]  BY <1>1, <1>3 DEF EndStep
  <2> QED  BY <1>1, <1>3, <2>1 DEF MeanInv, CombinationWithinModels
<1>4. CASE i = at
  <2>1. weight > 0
    <3>1. PICK k \in DOMAIN predictions : at \in DOMAIN predictions[k]
          BY <1>4 DEF Answering
    <3>2. k \in 1..seen  BY <1>1
    <3> QED  BY <1>1, <3>1, <3>2 DEF SumInv
  <2>2. PICK lo, hi \in Answering(at) :
           /\ sum \in Int
           /\ weight * predictions[lo][at] <= sum
           /\ sum <= weight * predictions[hi][at]
        BY <1>1, <1>4, <2>1 DEF SumInv
  <2>3. predictions[lo][at] \in Int /\ predictions[hi][at] \in Int
        BY <1>4, <2>2, AnswerValue DEF MeanInv, TypeInv, Answering, Finite, Float
  <2> DEFINE q == (Scale * sum) \div weight
  <2>4. /\ Scale * predictions[lo][at] <= q /\ q <= Scale * predictions[hi][at]
        /\ q \in Int
    <3> DEFINE a == predictions[lo][at]
               b == predictions[hi][at]
    <3>1. /\ a \in Int /\ b \in Int /\ sum \in Int /\ weight \in Nat \ {0}
          /\ weight * a <= sum /\ sum <= weight * b
          BY <1>1, <2>1, <2>2, <2>3
    <3> HIDE DEF a, b
    <3>2. Scale * a <= q /\ q <= Scale * b /\ q \in Int
          BY ONLY <3>1, MeanBounds
    <3> QED  BY <3>2 DEF a, b
  <2>5. Over(Scaled(sum), weight) = q
    <3>1. NotFinite \notin Int /\ Scale \in Nat  BY LevelsAssumption, ScaleAssumption
    <3>2. Scaled(sum) = Scale * sum  BY <2>2, <3>1 DEF Scaled
    <3>3. Scale * sum \in Int  BY <2>2, <3>1
    <3> QED  BY <3>1, <3>2, <3>3 DEF Over
  <2> HIDE DEF q
  <2>6. forecast'[at] = q  BY <1>1, <2>1, <2>5 DEF EndStep
  <2>7. forecast'[at] # NotFinite  BY <2>4, <2>6, LevelsAssumption
  <2> QED  BY <1>4, <2>2, <2>4, <2>6, <2>7
<1> QED  BY <1>1, <1>2, <1>3, <1>4

\* Every step keeps the forecast within the models.
LEMMA MeanNext == MeanInv /\ [Next]_vars => MeanInv'
<1> SUFFICES ASSUME MeanInv, [Next]_vars PROVE MeanInv'  OBVIOUS
<1>0. TypeInv'  BY TypeNext DEF MeanInv
<1>1. ASSUME NEW m \in Models, PredictModel(m) \/ PredictModelFails(m)
      PROVE  MeanInv'
  <2>1. /\ forecast = << >> /\ forecast' = forecast
        /\ pc = "predict" /\ pc' = pc
        BY <1>1 DEF PredictModel, PredictModelFails, MeanInv
  <2>2. CombinationWithinModels'  BY <2>1 DEF CombinationWithinModels
  <2> QED  BY <1>0, <2>1, <2>2 DEF MeanInv
<1>2. CASE NoModelPredicted
  <2>1. forecast' = << >>  BY <1>2 DEF NoModelPredicted, Joined, MeanInv
  <2> QED  BY <1>0, <1>2, <2>1
           DEF MeanInv, NoModelPredicted, Joined, CombinationWithinModels
<1>3. CASE BestModel
  <2>1. PICK k \in DOMAIN predictions :
           forecast' = [i \in DOMAIN predictions[k] |-> Scaled(predictions[k][i])]
        BY <1>3 DEF BestModel
  <2>2. ASSUME NEW i \in DOMAIN forecast', Finite(i)'
        PROVE  \E lo, hi \in Answering(i)' :
                  /\ forecast'[i] # NotFinite
                  /\ Scale * predictions'[lo][i] <= forecast'[i]
                  /\ forecast'[i] <= Scale * predictions'[hi][i]
    <3>1. predictions' = predictions  BY <1>3 DEF BestModel
    <3>2. i \in DOMAIN predictions[k] /\ forecast'[i] = Scaled(predictions[k][i])
          BY <2>1
    <3>3. k \in Answering(i)'  BY <2>1, <3>1, <3>2 DEF Answering
    <3>4. predictions[k][i] \in Float
          BY <2>1, <3>2, AnswerValue DEF MeanInv, TypeInv
    <3>5. predictions[k][i] # NotFinite  BY <2>2, <3>1, <3>3 DEF Finite
    <3>6. predictions[k][i] \in Int  BY <3>4, <3>5 DEF Float
    <3>7. forecast'[i] = Scale * predictions[k][i]  BY <3>2, <3>5 DEF Scaled
    <3>8. forecast'[i] \in Int  BY <3>6, <3>7, ScaleAssumption
    <3>9. forecast'[i] # NotFinite  BY <3>8, LevelsAssumption
    <3> QED  BY <3>1, <3>3, <3>7, <3>8, <3>9
  <2>3. pc' = "returned" /\ running' = {}  BY <1>3 DEF BestModel, Joined
  <2> QED  BY <1>0, <2>2, <2>3 DEF MeanInv, CombinationWithinModels
<1>4. CASE Combine
  <2>1. pc' = "combine" /\ at' = 1 /\ seen' = 0 /\ sum' = 0 /\ weight' = 0
        /\ running' = {} /\ forecast' = [i \in 1..Horizon |-> 0]
        BY <1>4 DEF Combine, StartStep, Joined
  <2>2. SumInv'  BY <2>1 DEF SumInv
  <2>3. CombinationWithinModels'  BY <2>1, HorizonAssumption DEF CombinationWithinModels
  <2> QED  BY <1>0, <2>1, <2>2, <2>3 DEF MeanInv
<1>5. CASE AddAnswer
  <2>1. /\ pc' = "combine"
        /\ UNCHANGED << pc, running, predictions, forecast, at >>
        BY <1>5 DEF AddAnswer
  <2>2. SumInv'  BY <1>5, MeanAddAnswer
  <2>3. CombinationWithinModels'
        BY <2>1 DEF MeanInv, CombinationWithinModels, Answering, Finite
  <2> QED  BY <1>0, <2>1, <2>2, <2>3 DEF MeanInv
<1>6. CASE EndStep
  <2>1. /\ pc = "combine" /\ pc' \in {"combine", "returned"}
        /\ UNCHANGED << running, predictions >>
        BY <1>6 DEF EndStep
  <2>2. SumInv' \/ pc' # "combine"
    <3>1. CASE at < Horizon
      <4>1. seen' = 0 /\ sum' = 0 /\ weight' = 0
            BY <1>6, <3>1 DEF EndStep, StartStep
      <4> QED  BY <4>1 DEF SumInv
    <3>2. CASE ~(at < Horizon)  BY <1>6, <3>2 DEF EndStep
    <3> QED  BY <3>1, <3>2
  <2>3. DOMAIN forecast' = 1..Horizon
        BY <1>6, <2>1 DEF EndStep, MeanInv, TypeInv, LengthInv
  <2>4. \A i : Answering(i)' = Answering(i) /\ Finite(i)' = Finite(i)
        BY <2>1 DEF Answering, Finite
  <2>5. CombinationWithinModels'
        BY <1>6, <2>1, <2>3, <2>4, MeanEndStep DEF CombinationWithinModels
  <2> QED  BY <1>0, <2>1, <2>2, <2>5 DEF MeanInv
<1>7. CASE Analyze \/ ScanValue \/ Recommend
  <2>1. /\ pc \in {"returned", "statistics"} /\ pc' \in {"statistics", "done"}
        /\ UNCHANGED << running, predictions, forecast >>
        BY <1>7 DEF Analyze, ScanValue, Recommend
  <2>2. CombinationWithinModels'
        BY <2>1 DEF MeanInv, CombinationWithinModels, Answering, Finite
  <2> QED  BY <1>0, <2>1, <2>2 DEF MeanInv
<1>8. CASE UNCHANGED vars
      BY <1>0, <1>8
         DEF vars, loopVars, MeanInv, CombinationWithinModels, SumInv, Answering, Finite
<1> QED  BY <1>1, <1>2, <1>3, <1>4, <1>5, <1>6, <1>7, <1>8 DEF Next

\* At first there is no forecast.
LEMMA MeanInit == Init => MeanInv
<1>1. Init => TypeInv  BY TypeInit
<1> QED  BY <1>1 DEF Init, MeanInv, CombinationWithinModels

\* However many models fail or answer short, weightedAverage divides the sum
\* of a step by the weights of those that have it, so that, if what they
\* predict for it is finite, the ensemble predicts neither less than the
\* lowest of them nor more than the highest; bestModel returns one of them.
THEOREM CombinationCorrect == Spec => []CombinationWithinModels
<1>1. MeanInv => CombinationWithinModels  BY DEF MeanInv
<1> QED  BY <1>1, MeanInit, MeanNext, PTL DEF Spec

-----------------------------------------------------------------------------
\* The recommended sizes

\* What SizesMakeAGroup asks of the statistics, while they are taken: if the
\* values seen are finite, their sum is between the lowest and the peak, times
\* their number.
ScanInv ==
    /\ TypeInv
    /\ SizesOrdered
    /\ pc = "statistics" /\ sum # NotFinite =>
          /\ peak \in Nat /\ sum <= at * peak
          /\ low # NotFinite => at * low <= sum
          /\ low = NotFinite => at = 0 /\ forecast[1] = NotFinite

\* Every step keeps the statistics consistent and the sizes in order.
LEMMA ScanNext == ScanInv /\ [Next]_vars => ScanInv'
<1> SUFFICES ASSUME ScanInv, [Next]_vars PROVE ScanInv'  OBVIOUS
<1>0. TypeInv'  BY TypeNext DEF ScanInv
<1>1. ASSUME NEW m \in Models, PredictModel(m) \/ PredictModelFails(m)
      PROVE  ScanInv'
      BY <1>0, <1>1
         DEF PredictModel, PredictModelFails, loopVars, ScanInv, SizesOrdered, Representable
<1>2. CASE NoModelPredicted \/ BestModel \/ Combine \/ AddAnswer \/ EndStep
  <2>1. pc' \in {"failed", "returned", "combine"}
        BY <1>2 DEF NoModelPredicted, BestModel, Combine, AddAnswer, EndStep
  <2> QED  BY <1>0, <2>1 DEF ScanInv, SizesOrdered
<1>3. CASE Analyze
  <2>1. /\ pc' = "statistics" /\ at' = 0 /\ sum' = 0 /\ peak' = 0
        /\ low' = forecast[1] /\ forecast' = forecast
        BY <1>3 DEF Analyze
  <2>2. low' \in Float  BY <1>0 DEF TypeInv, TypeOK
  <2>3. sum' <= at' * peak' /\ (low' # NotFinite => at' * low' <= sum')
    <3>1. low' # NotFinite => low' \in Int  BY <2>2 DEF Float
    <3> QED  BY <2>1, <3>1
  <2> QED  BY <1>0, <2>1, <2>3 DEF ScanInv, SizesOrdered
<1>4. CASE ScanValue
  <2> DEFINE v == forecast[at + 1]
  <2>1. /\ pc = "statistics" /\ pc' = pc /\ at' = at + 1 /\ sum' = Plus(sum, v)
        BY <1>4 DEF ScanValue
  <2>2. at \in Nat /\ sum \in Float /\ low \in Float /\ peak \in Float /\ v \in Float
        BY <1>4 DEF ScanValue, ScanInv, TypeInv, TypeOK
  <2>3. NotFinite \notin Int  BY LevelsAssumption
  <2>4. ASSUME sum' # NotFinite
        PROVE  /\ peak' \in Nat /\ sum' <= at' * peak'
               /\ low' \in Int /\ at' * low' <= sum'
    <3>1. sum \in Int /\ v \in Int /\ sum' = sum + v
      <4> HIDE DEF v
      <4> QED  BY <2>1, <2>2, <2>4 DEF Plus, Float
    <3>2. /\ peak \in Nat /\ sum <= at * peak
          /\ low # NotFinite => at * low <= sum
          /\ low = NotFinite => at = 0 /\ forecast[1] = NotFinite
          BY <2>1, <2>3, <3>1 DEF ScanInv
    <3>3. low \in Int /\ at * low <= sum
      <4>1. ASSUME low = NotFinite PROVE FALSE
        <5>1. at = 0 /\ forecast[1] = NotFinite  BY <3>2, <4>1
        <5>2. v = forecast[1]  BY <5>1
        <5> QED  BY <2>3, <3>1, <5>1, <5>2
      <4> QED  BY <2>2, <3>2, <4>1 DEF Float
    <3>4. /\ peak' = (IF peak < v THEN v ELSE peak)
          /\ low' = (IF v < low THEN v ELSE low)
      <4>1. PICK higher \in Less(peak, v) : peak' = (IF higher THEN v ELSE peak)
            BY <1>4 DEF ScanValue
      <4>2. PICK lower \in Less(v, low) : low' = (IF lower THEN v ELSE low)
            BY <1>4 DEF ScanValue
      <4>3. peak # NotFinite /\ v # NotFinite /\ low # NotFinite
            BY <2>3, <3>1, <3>2, <3>3
      <4> HIDE DEF v
      <4>4. higher = (peak < v)  BY <4>1, <4>3 DEF Less
      <4>5. lower = (v < low)  BY <4>2, <4>3 DEF Less
      <4> QED  BY <4>1, <4>2, <4>4, <4>5
    <3> HIDE DEF v
    <3>5. /\ peak' \in Nat /\ low' \in Int
          /\ low' <= low /\ low' <= v /\ peak <= peak' /\ v <= peak'
          BY <3>1, <3>2, <3>3, <3>4
    <3>6. (at + 1) * low' <= sum + v /\ sum + v <= (at + 1) * peak'
      <4>1. /\ at \in Nat /\ sum \in Int /\ low \in Int /\ peak \in Int /\ v \in Int
            /\ low' \in Int /\ peak' \in Int
            BY <2>2, <3>1, <3>2, <3>3, <3>5
      <4>2. at * low <= sum /\ sum <= at * peak  BY <3>2, <3>3
      <4> QED  BY ONLY <3>5, <4>1, <4>2, SumGrows
    <3> QED  BY <2>1, <3>1, <3>5, <3>6
  <2>5. sum' # NotFinite => low' # NotFinite  BY <2>3, <2>4
  <2>6. SizesOrdered'  BY <2>1 DEF SizesOrdered
  <2> QED  BY <1>0, <2>4, <2>5, <2>6 DEF ScanInv
<1>5. CASE Recommend
  <2>1. PICK g \in Groups : rec' \in Sizes(low, sum, Len(forecast), peak, g)
        BY <1>5 DEF Recommend
  <2> DEFINE n == Len(forecast)
  <2>2. /\ pc = "statistics" /\ pc' = "done" /\ at = n /\ n \in Nat \ {0}
        /\ UNCHANGED << low, sum, peak >>
        BY <1>5 DEF Recommend, loopVars, ScanInv, TypeInv, LengthInv
  <2>3. low \in Float /\ sum \in Float /\ peak \in Float
        BY DEF ScanInv, TypeInv, TypeOK
  <2>4. rec' \in Sizes(low, sum, n, peak, g)  BY <2>1
  <2>5. at = n  BY <2>2
  <2>6. /\ 1 <= rec'.min /\ rec'.min <= rec'.max /\ 1 <= rec'.desired
        /\ rec'.current = g
    <3> HIDE DEF n
    <3> QED  BY <2>2, <2>3, <2>4, SizesAtLeastOne DEF Float
  <2>7. ASSUME Representable'
        PROVE  /\ rec'.desired <= rec'.max
               /\ \/ rec'.min <= rec'.desired
                  \/ g.min = g.desired /\ rec'.min = rec'.desired + 1
    <3>1. /\ NotFinite \notin {low, sum, peak}
          /\ Ceil(peak * (12 * g.max) + 1, 10 * Unit) <= MaxInt
          BY <2>2, <2>6, <2>7 DEF Representable
    <3>2. low \in Int /\ sum \in Int /\ peak \in Nat /\ at * low <= sum /\ sum <= at * peak
          BY <2>2, <2>3, <3>1 DEF ScanInv, Float
    <3> HIDE DEF n
    <3> QED  BY <2>2, <2>4, <2>5, <3>1, <3>2, SizesMakeAGroup
  <2>8. SizesOrdered'  BY <2>6, <2>7 DEF SizesOrdered
  <2> QED  BY <1>0, <2>2, <2>8 DEF ScanInv
<1>6. CASE UNCHANGED vars
      BY <1>0, <1>6 DEF vars, loopVars, ScanInv, SizesOrdered, Representable
<1> QED  BY <1>1, <1>2, <1>3, <1>4, <1>5, <1>6 DEF Next

\* At first nothing is recommended.
LEMMA ScanInit == Init => ScanInv
<1>1. Init => TypeInv  BY TypeInit
<1> QED  BY <1>1 DEF Init, ScanInv, SizesOrdered

\* Whatever the models predict, NaN included, and whichever strategy combines
\* it, at least one instance is recommended and no maximum below the minimum.
\* If the quotients can be represented, the desired size is not above the
\* maximum, and below the minimum by no more than the error of a quotient.
THEOREM SizesCorrect == Spec => []SizesOrdered
<1>1. ScanInv => SizesOrdered  BY DEF ScanInv
<1> QED  BY <1>1, ScanInit, ScanNext, PTL DEF Spec
=============================================================================

-------------------------- MODULE UwbInitiatorProofs --------------------------
(***************************************************************************)
(* Proofs about vibration windows.  WindowStats: the root is exact and the *)
(* statistics agree, for windows of any length, any samples and any width  *)
(* of the root.  UwbInitiator: a window is logged as valid exactly if it   *)
(* arrived as it was made, for every width of a byte, every rotation and   *)
(* every window; and the loop runs the statistics as WindowStats has them. *)
(***************************************************************************)
EXTENDS UwbInitiator, SequenceTheorems, WellFoundedInduction, TLAPS

-----------------------------------------------------------------------------
(* The statistics: arithmetic.                                             *)

\* A product of two integers by a third, either way round.
LEMMA Distribute ==
  ASSUME NEW a \in Int, NEW b \in Int, NEW c \in Int
  PROVE  /\ (a + b) * c = a * c + b * c
         /\ c * (a + b) = c * a + c * b
         /\ (a - b) * c = a * c - b * c
         /\ c * (a - b) = c * a - c * b
OBVIOUS

\* The square of a sum.
LEMMA SquareOfSum ==
  ASSUME NEW a \in Int, NEW b \in Int
  PROVE  (a + b) * (a + b) = a * a + 2 * (a * b) + b * b
OBVIOUS

\* A natural factor keeps an order between integers.
LEMMA ProductOrder ==
  ASSUME NEW a \in Int, NEW b \in Int, NEW c \in Nat, a <= b
  PROVE  a * c <= b * c /\ c * a <= c * b
OBVIOUS

\* A common positive factor can be dropped.
LEMMA DropFactor ==
  ASSUME NEW n \in Nat \ {0}, NEW a \in Int, NEW b \in Int, n * a <= n * b
  PROVE  a <= b
OBVIOUS

\* Squares order their roots.
LEMMA SquareOrder ==
  ASSUME NEW a \in Nat, NEW b \in Nat, a * a < (b + 1) * (b + 1)
  PROVE  a <= b
OBVIOUS

\* The definition of an integer quotient.
LEMMA QuotientBounds ==
  ASSUME NEW a \in Nat, NEW n \in Nat \ {0}
  PROVE  /\ a \div n \in Nat
         /\ n * (a \div n) <= a
         /\ a < n * (a \div n) + n
OBVIOUS

\* What the quotient of C keeps between two integers stays between them.
LEMMA QuotientBetween ==
  ASSUME NEW a \in Int, NEW n \in Nat \ {0}, NEW lo \in Int, NEW hi \in Int,
         n * lo <= a, a <= n * hi
  PROVE  Quotient(a, n) \in Int /\ lo <= Quotient(a, n) /\ Quotient(a, n) <= hi
<1>1. CASE a >= 0
  <2> DEFINE d == a \div n
  <2>1. a \in Nat
    BY <1>1
  <2>2. d \in Nat /\ n * d <= a /\ a < n * d + n
    BY <2>1, QuotientBounds
  <2>3. Quotient(a, n) = d
    BY <1>1 DEF Quotient
  <2> HIDE DEF d
  <2>4. n * (d + 1) = n * d + n
    BY <2>2, Distribute
  <2>5. n * lo < n * (d + 1) /\ n * d <= n * hi
    BY <2>2, <2>4
  <2>6. d <= hi
    BY <2>2, <2>5, DropFactor
  <2>7. lo < d + 1
    <3>1. CASE lo <= d
      BY <3>1, <2>2
    <3>2. CASE d + 1 <= lo
      BY <3>2, <2>2, <2>5, Distribute
    <3> QED  BY <3>1, <3>2, <2>2
  <2> QED  BY <2>2, <2>3, <2>6, <2>7
<1>2. CASE a < 0
  <2> DEFINE d == (-a) \div n
  <2>1. -a \in Nat
    BY <1>2
  <2>2. d \in Nat /\ n * d <= -a /\ -a < n * d + n
    BY <2>1, QuotientBounds
  <2>3. Quotient(a, n) = -d
    BY <1>2 DEF Quotient
  <2> HIDE DEF d
  <2>4. n * (-d) = -(n * d) /\ n * (-d - 1) = -(n * d) - n
    BY <2>2, Distribute
  <2>5. n * lo <= n * (-d) /\ n * (-d - 1) < n * hi
    BY <2>2, <2>4
  <2>6. lo <= -d
    BY <2>2, <2>5, DropFactor
  <2>7. -d - 1 < hi
    <3>1. CASE hi <= -d - 1
      <4>1. n * hi <= n * (-d - 1)
        BY <3>1, <2>2
      <4> QED  BY <4>1, <2>2, <2>5
    <3> QED  BY <3>1, <2>2
  <2> QED  BY <2>2, <2>3, <2>6, <2>7
<1> QED  BY <1>1, <1>2

\* The square of a rounded quotient is no larger than the rounded mean square.
LEMMA QuotientSquare ==
  ASSUME NEW a \in Int, NEW n \in Nat \ {0}, NEW s \in Nat, a * a <= n * s
  PROVE  Quotient(a, n) \in Int /\ Quotient(a, n) * Quotient(a, n) <= s \div n
<1> DEFINE b == IF a >= 0 THEN a ELSE -a
           d == b \div n
<1>1. b \in Nat /\ b * b = a * a
  OBVIOUS
<1>2. d \in Nat /\ n * d <= b
  BY <1>1, QuotientBounds
<1>3. Quotient(a, n) \in Int /\ Quotient(a, n) * Quotient(a, n) = d * d
  <2>1. CASE a >= 0
    BY <2>1, <1>2 DEF Quotient
  <2>2. CASE ~(a >= 0)
    <3>1. Quotient(a, n) = -d
      BY <2>2 DEF Quotient
    <3> QED  BY <3>1, <1>2
  <2> QED  BY <2>1, <2>2
<1> HIDE DEF b, d
<1>4. (n * d) * (n * d) <= n * s
  <2>1. n * d \in Nat
    BY <1>2
  <2>2. (n * d) * (n * d) <= b * (n * d) /\ b * (n * d) <= b * b
    BY <2>1, <1>1, <1>2, ProductOrder
  <2> QED  BY <2>1, <2>2, <1>1, <1>2
<1>5. n * (d * d) <= s
  <2> DEFINE e == n * (d * d)
  <2>1. e \in Nat /\ (n * d) * (n * d) = n * e
    BY <1>2
  <2> HIDE DEF e
  <2>2. e <= s
    BY <2>1, <1>4, DropFactor
  <2> QED  BY <2>2 DEF e
<1>6. d * d <= s \div n
  <2> DEFINE e == d * d
             t == s \div n
  <2>1. e \in Nat /\ t \in Nat /\ s < n * t + n
    BY <1>2, QuotientBounds
  <2> HIDE DEF t
  <2>2. n * e <= s
    BY <1>5
  <2> HIDE DEF e
  <2>3. n * (t + 1) = n * t + n
    BY <2>1, Distribute
  <2>4. ASSUME t + 1 <= e PROVE FALSE
    <3>1. n * (t + 1) <= n * e
      BY <2>4, <2>1, ProductOrder
    <3> QED  BY <3>1, <2>1, <2>2, <2>3
  <2>5. e <= t
    BY <2>4, <2>1
  <2> QED  BY <2>5 DEF e, t
<1> QED  BY <1>3, <1>6

-----------------------------------------------------------------------------
(* The invariants.                                                         *)

\* The largest magnitude seen.
Peak == Greatest(max, -min)

\* No square of a sample is larger.
Bound == (2 * TopPower - 1) * (2 * TopPower - 1)

\* What the accumulators are after i - 1 samples; the fourth conjunct is the
\* Cauchy-Schwarz inequality for the samples and as many ones.
SumsSoFar ==
  /\ min <= max
  /\ sumSq <= (i - 1) * Bound
  /\ (i - 1) * min <= sum /\ sum <= (i - 1) * max
  /\ sum * sum <= (i - 1) * sumSq
  /\ sumSq <= (i - 1) * (Peak * Peak)

\* After the loop the mean is what Divide makes of the sum.
MeanTaken == pc # "sum" => i = N + 1 /\ mean = Quotient(sum, N)

\* Of the root of x, r is right to within twice the power p in turn; o is what
\* it leaves, and the loop's res and one are derived from r and p.
Rooted(x, o, rs, on, r, p) ==
  /\ o + r * r = x
  /\ IF on = 0
       THEN rs = r /\ x < (r + 1) * (r + 1)
       ELSE /\ on = p * p
            /\ rs = 2 * (p * r)
            /\ x < (r + 2 * p) * (r + 2 * p)

RootSoFar == Rooted(sumSq \div N, op, res, one, root, power)

StatsInv ==
  /\ StatsTypeOK
  /\ SumsSoFar
  /\ MeanTaken
  /\ pc \in {"shift", "root"} => RootSoFar
  /\ pc \in {"sum", "shift"} => root = 0
  /\ pc = "sum" => power = TopPower
  /\ RootExact

-----------------------------------------------------------------------------
(* One turn of each loop.                                                  *)

\* Cauchy-Schwarz grows by one sample v.
LEMMA SumTurn ==
  ASSUME NEW k \in Nat, NEW s \in Int, NEW q \in Nat, NEW v \in Int,
         s * s <= k * q, k = 0 => s = 0 /\ q = 0
  PROVE  (s + v) * (s + v) <= (k + 1) * (q + v * v)
<1>1. CASE k = 0
  BY <1>1
<1>2. CASE k > 0
  <2> DEFINE r == q + k * (v * v) - 2 * (s * v)
  <2>1. r \in Int
    OBVIOUS
  <2>2. k * r = k * q + (k * v) * (k * v) - 2 * (s * (k * v))
    OBVIOUS
  <2>3. (s - k * v) * (s - k * v) >= 0
    <3> DEFINE d == s - k * v
    <3>1. d \in Int
      OBVIOUS
    <3> HIDE DEF d
    <3>2. d * d >= 0
      BY <3>1
    <3> QED  BY <3>2 DEF d
  <2>4. (s - k * v) * (s - k * v) = s * s + (k * v) * (k * v) - 2 * (s * (k * v))
    OBVIOUS
  <2>5. k * 0 <= k * r
    BY <2>2, <2>3, <2>4
  <2>6. (k + 1) * (q + v * v) - (s + v) * (s + v) = (k * q - s * s) + r
    OBVIOUS
  <2> HIDE DEF r
  <2>7. 0 <= r
    BY <1>2, <2>1, <2>5, DropFactor
  <2>8. k * q \in Int /\ s * s \in Int /\ (k + 1) * (q + v * v) \in Int /\ (s + v) * (s + v) \in Int
    OBVIOUS
  <2> QED  BY <2>1, <2>6, <2>7, <2>8
<1> QED  BY <1>1, <1>2

\* The extremes bound the sum after one more sample v.
LEMMA ExtremesTurn ==
  ASSUME NEW k \in Nat, NEW s \in Int, NEW v \in Int,
         NEW lo \in Int, NEW lower \in Int, NEW hi \in Int, NEW higher \in Int,
         k * lo <= s, s <= k * hi, lower <= lo, lower <= v, hi <= higher, v <= higher
  PROVE  (k + 1) * lower <= s + v /\ s + v <= (k + 1) * higher
<1>1. k * lower <= k * lo /\ k * hi <= k * higher
  BY ProductOrder
<1>2. (k + 1) * lower = k * lower + lower /\ (k + 1) * higher = k * higher + higher
  OBVIOUS
<1> QED  BY <1>1, <1>2

\* A bound of the magnitudes bounds the squares after one more sample v.
LEMMA SquaresTurn ==
  ASSUME NEW k \in Nat, NEW q \in Nat, NEW v \in Int, NEW a \in Nat, NEW b \in Nat,
         q <= k * (a * a), a <= b, -b <= v, v <= b
  PROVE  q + v * v <= (k + 1) * (b * b)
<1>1. a * a <= b * b /\ v * v <= b * b
  OBVIOUS
<1>2. k * (a * a) <= k * (b * b)
  BY <1>1, ProductOrder
<1>3. (k + 1) * (b * b) = k * (b * b) + b * b
  OBVIOUS
<1> QED  BY <1>1, <1>2, <1>3

\* The largest magnitude only grows, and bounds every sample.
LEMMA PeakTurn ==
  ASSUME NEW v \in Int, NEW lo \in Int, NEW lower \in Int, NEW hi \in Int, NEW higher \in Int,
         lo <= hi, lower <= lo, lower <= v, hi <= higher, v <= higher
  PROVE  /\ Greatest(hi, -lo) \in Nat
         /\ Greatest(higher, -lower) \in Nat
         /\ Greatest(hi, -lo) <= Greatest(higher, -lower)
         /\ -Greatest(higher, -lower) <= v
         /\ v <= Greatest(higher, -lower)
BY DEF Greatest

\* One digit of the root, whose weight is p.
LEMMA RootTurn ==
  ASSUME NEW x \in Nat, NEW o \in Nat, NEW r \in Nat, NEW p \in Nat \ {0},
         o + r * r = x, x < (r + 2 * p) * (r + 2 * p)
  PROVE  /\ o >= 2 * (p * r) + p * p =>
              /\ o - (2 * (p * r) + p * p) \in Nat
              /\ (o - (2 * (p * r) + p * p)) + (r + p) * (r + p) = x
              /\ (2 * (p * r)) \div 2 + p * p = p * (r + p)
              /\ x < ((r + p) + p) * ((r + p) + p)
         /\ o < 2 * (p * r) + p * p =>
              /\ (2 * (p * r)) \div 2 = p * r
              /\ x < (r + p) * (r + p)
<1>1. (r + p) * (r + p) = r * r + 2 * (p * r) + p * p
  OBVIOUS
<1>2. (2 * (p * r)) \div 2 = p * r
  <2> DEFINE y == p * r
  <2>1. y \in Nat
    OBVIOUS
  <2> HIDE DEF y
  <2>2. (2 * y) \div 2 = y
    BY <2>1
  <2> QED  BY <2>2 DEF y
<1>3. p * r + p * p = p * (r + p)
  OBVIOUS
<1>4. (r + p) + p = r + 2 * p
  OBVIOUS
<1>5. p * r \in Nat /\ p * p \in Nat /\ r * r \in Nat
  OBVIOUS
<1> QED  BY <1>1, <1>2, <1>3, <1>4, <1>5

\* What becomes of one and its root at the end of a turn.
LEMMA HalveTurn ==
  ASSUME NEW p \in Powers, NEW h \in Powers,
         IF p = 1 THEN h = 1 ELSE p = 2 * h
  PROVE  /\ p = 1 => h = 1 /\ (p * p) \div 4 = 0
         /\ p # 1 => p = 2 * h /\ (p * p) \div 4 = h * h /\ h * h # 0
<1>1. p \in Nat \ {0} /\ h \in Nat \ {0}
  BY StatsAssumption
<1>2. CASE p = 1
  BY <1>2
<1>3. CASE p # 1
  <2> DEFINE y == h * h
  <2>1. y \in Nat \ {0} /\ p * p = 4 * y
    BY <1>1, <1>3
  <2> HIDE DEF y
  <2>2. (4 * y) \div 4 = y
    BY <2>1
  <2>3. (p * p) \div 4 = h * h /\ h * h # 0
    BY <2>1, <2>2 DEF y
  <2> QED  BY <1>3, <2>3
<1> QED  BY <1>2, <1>3

\* A root that is right to within its last weight p is right to within twice
\* the next one.
LEMMA WeightHalved ==
  ASSUME NEW x \in Nat, NEW o \in Nat, NEW r \in Nat, NEW p \in Powers, NEW h \in Powers,
         o + r * r = x, x < (r + p) * (r + p), IF p = 1 THEN h = 1 ELSE p = 2 * h
  PROVE  Rooted(x, o, p * r, (p * p) \div 4, r, h)
<1>1. p \in Nat \ {0} /\ h \in Nat \ {0}
  BY StatsAssumption
<1>2. CASE p = 1
  <2>1. (p * p) \div 4 = 0 /\ p * r = r
    BY <1>2, HalveTurn
  <2> QED  BY <1>2, <2>1 DEF Rooted
<1>3. CASE p # 1
  <2>1. p = 2 * h /\ (p * p) \div 4 = h * h /\ h * h # 0
    BY <1>3, HalveTurn
  <2>2. p * r = 2 * (h * r)
    BY <1>1, <2>1
  <2>3. x < (r + 2 * h) * (r + 2 * h)
    BY <2>1
  <2> QED  BY <2>1, <2>2, <2>3 DEF Rooted
<1> QED  BY <1>2, <1>3

\* One turn of the loop that finds the digits, in each of its branches.
LEMMA DigitTurn ==
  ASSUME NEW x \in Nat, NEW o \in Nat, NEW rs \in Nat, NEW on \in Nat, NEW r \in Nat,
         NEW p \in Powers, NEW h \in Powers,
         Rooted(x, o, rs, on, r, p), on # 0, IF p = 1 THEN h = 1 ELSE p = 2 * h
  PROVE  /\ o >= rs + on =>
              /\ o - (rs + on) \in Nat /\ rs \div 2 + on \in Nat /\ r + p \in Nat
              /\ Rooted(x, o - (rs + on), rs \div 2 + on, on \div 4, r + p, h)
         /\ o < rs + on => rs \div 2 \in Nat /\ Rooted(x, o, rs \div 2, on \div 4, r, h)
         /\ on \div 4 \in Nat
<1>1. p \in Nat \ {0}
  BY StatsAssumption
<1>2. /\ o + r * r = x /\ on = p * p /\ rs = 2 * (p * r)
      /\ x < (r + 2 * p) * (r + 2 * p)
  BY DEF Rooted
<1>3. rs \div 2 \in Nat /\ on \div 4 \in Nat
  OBVIOUS
<1>4. ASSUME o >= rs + on
      PROVE  Rooted(x, o - (rs + on), rs \div 2 + on, on \div 4, r + p, h)
  <2> DEFINE o2 == o - (rs + on)
             r2 == r + p
  <2>1. o2 \in Nat /\ r2 \in Nat
    BY <1>1, <1>4
  <2>2. /\ o2 + r2 * r2 = x /\ rs \div 2 + on = p * r2
        /\ x < (r2 + p) * (r2 + p)
    BY <1>1, <1>2, <1>4, RootTurn
  <2> HIDE DEF o2, r2
  <2>3. Rooted(x, o2, p * r2, (p * p) \div 4, r2, h)
    BY <2>1, <2>2, WeightHalved
  <2>4. Rooted(x, o2, rs \div 2 + on, on \div 4, r2, h)
    BY <1>2, <2>2, <2>3
  <2> QED  BY <2>4 DEF o2, r2
<1>5. ASSUME o < rs + on
      PROVE  Rooted(x, o, rs \div 2, on \div 4, r, h)
  <2>1. rs \div 2 = p * r /\ x < (r + p) * (r + p)
    BY <1>1, <1>2, <1>5, RootTurn
  <2>2. Rooted(x, o, p * r, (p * p) \div 4, r, h)
    BY <1>2, <2>1, WeightHalved
  <2> QED  BY <1>2, <2>1, <2>2
<1> QED  BY <1>1, <1>3, <1>4, <1>5

\* One turn of the loop that shifts one down to the operand.
LEMMA ShiftTurn ==
  ASSUME NEW x \in Nat, NEW o \in Nat, NEW rs \in Nat, NEW on \in Nat, NEW p \in Powers,
         NEW on2, NEW h \in Powers,
         Rooted(x, o, rs, on, 0, p), on > o,
         on2 = on \div 4, IF p = 1 THEN h = 1 ELSE p = 2 * h
  PROVE  on2 \in Nat /\ Rooted(x, o, rs, on2, 0, h)
<1>1. p \in Nat \ {0} /\ h \in Nat \ {0}
  BY StatsAssumption
<1>2. o = x /\ on = p * p /\ rs = 0
  <2>1. on # 0
    OBVIOUS
  <2>2. o + 0 * 0 = x /\ on = p * p /\ rs = 2 * (p * 0)
    BY <2>1 DEF Rooted
  <2> QED  BY <1>1, <2>2
<1>3. CASE p = 1
  <2>1. on2 = 0 /\ x < (0 + 1) * (0 + 1)
    BY <1>2, <1>3, HalveTurn
  <2> QED  BY <1>2, <2>1 DEF Rooted
<1>4. CASE p # 1
  <2>1. p = 2 * h /\ on2 = h * h /\ on2 # 0
    BY <1>2, <1>4, HalveTurn
  <2>2. x < (0 + 2 * h) * (0 + 2 * h) /\ 2 * (h * 0) = 0 /\ h * h \in Nat
    BY <1>1, <1>2, <2>1
  <2> QED  BY <1>2, <2>1, <2>2 DEF Rooted
<1> QED  BY <1>3, <1>4

-----------------------------------------------------------------------------
(* The invariant is inductive.                                             *)

LEMMA StatsInitially == StatsInit => StatsInv
<1> SUFFICES ASSUME StatsInit PROVE StatsInv
  OBVIOUS
<1> USE StatsAssumption
<1>1. 1 \in 1 .. N /\ accel[1] \in Samples
  BY DEF StatsInit
<1>2. Samples \subseteq Int /\ accel[1] \in Int
  BY <1>1
<1>3. TopPower \in Nat \ {0}
  OBVIOUS
<1>4. StatsTypeOK
  BY <1>1, <1>2 DEF StatsInit, StatsTypeOK
<1>5. SumsSoFar
  <2>1. Peak \in Int /\ Bound \in Int
    BY <1>2, <1>3 DEF StatsInit, Peak, Greatest, Bound
  <2>2. 0 * Bound = 0 /\ 0 * (Peak * Peak) = 0
    BY <2>1
  <2> QED  BY <1>2, <2>2 DEF StatsInit, SumsSoFar
<1> QED  BY <1>4, <1>5 DEF StatsInit, StatsInv, MeanTaken, RootExact

LEMMA SampleAdded == StatsInv /\ AddSample => StatsInv'
<1> SUFFICES ASSUME StatsInv, AddSample PROVE StatsInv'
  OBVIOUS
<1> DEFINE v == accel[i]
           k == i - 1
           z == 2 * TopPower - 1
<1>1. /\ v \in Samples /\ v \in Int /\ k \in Nat /\ z \in Nat
      /\ min \in Samples /\ max \in Samples /\ min \in Int /\ max \in Int
      /\ sum \in Int /\ sumSq \in Nat /\ i \in 1 .. N /\ N \in Nat
  <2>1. N \in Nat \ {0} /\ Samples \subseteq Int /\ TopPower \in Nat \ {0}
    BY StatsAssumption
  <2>2. /\ accel \in [1 .. N -> Samples] /\ min \in Samples /\ max \in Samples
        /\ sum \in Int /\ sumSq \in Nat
    BY DEF StatsInv, StatsTypeOK
  <2>3. i \in 1 .. N
    BY <2>1 DEF StatsInv, StatsTypeOK, AddSample
  <2>4. v \in Samples
    BY <2>2, <2>3
  <2>5. k \in Nat /\ z \in Nat
    BY <2>1, <2>3
  <2> QED  BY <2>1, <2>2, <2>3, <2>4, <2>5
<1>2. v * v \in Nat
  BY <1>1
<1>3. StatsTypeOK'
  <2>1. min' \in Samples /\ max' \in Samples
    BY <1>1 DEF AddSample, Least, Greatest
  <2>2. sum' \in Int /\ sumSq' \in Nat /\ i' \in 1 .. N + 1
    BY <1>1, <1>2 DEF AddSample
  <2> QED  BY <2>1, <2>2 DEF StatsInv, StatsTypeOK, AddSample
<1>4. SumsSoFar'
  <2>1. /\ min <= max /\ sumSq <= k * Bound
        /\ k * min <= sum /\ sum <= k * max
        /\ sum * sum <= k * sumSq
        /\ sumSq <= k * (Peak * Peak)
    BY DEF StatsInv, SumsSoFar
  <2>2. /\ min' \in Int /\ min' <= min /\ min' <= v
        /\ max' \in Int /\ max <= max' /\ v <= max'
        /\ sum' = sum + v /\ sumSq' = sumSq + v * v /\ i' - 1 = k + 1
    BY <1>1 DEF AddSample, Least, Greatest
  <2>3. Bound' = z * z /\ Bound = z * z /\ -z <= v /\ v <= z
    BY <1>1, StatsAssumption DEF Bound
  <2> HIDE DEF v, k, z
  <2>4. (min <= max)'
    BY <1>1, <2>1, <2>2
  <2>5. sumSq' <= (k + 1) * Bound'
    BY <1>1, <2>1, <2>2, <2>3, SquaresTurn
  <2>6. (k + 1) * min' <= sum' /\ sum' <= (k + 1) * max'
    BY <1>1, <2>1, <2>2, ExtremesTurn
  <2>8. sum' * sum' <= (k + 1) * sumSq'
    <3>1. k = 0 => sum = 0 /\ sumSq = 0
      <4>1. 0 * min = 0 /\ 0 * max = 0 /\ 0 * Bound = 0
        BY <1>1, <2>3
      <4> QED  BY <1>1, <2>1, <4>1
    <3> QED  BY <1>1, <2>1, <2>2, <3>1, SumTurn
  <2>9. sumSq' <= (k + 1) * (Peak' * Peak')
    <3>1. Peak \in Nat /\ Peak' \in Nat /\ Peak <= Peak' /\ -Peak' <= v /\ v <= Peak'
      BY <1>1, <2>1, <2>2, PeakTurn DEF Peak
    <3> QED  BY <1>1, <2>1, <2>2, <3>1, SquaresTurn
  <2> QED  BY <2>2, <2>4, <2>5, <2>6, <2>8, <2>9 DEF SumsSoFar
<1> QED  BY <1>3, <1>4 DEF StatsInv, AddSample, MeanTaken, RootExact

LEMMA RootStarted == StatsInv /\ Divide => StatsInv'
<1> SUFFICES ASSUME StatsInv, Divide PROVE StatsInv'
  OBVIOUS
<1> DEFINE x == sumSq \div N
<1>1. /\ N \in Nat \ {0} /\ sumSq \in Nat /\ sum \in Int
      /\ TopPower \in Powers /\ TopPower \in Nat \ {0}
      /\ i = N + 1
      /\ sumSq <= N * Bound
  BY StatsAssumption DEF StatsInv, StatsTypeOK, SumsSoFar, Divide
<1>2. x \in Nat /\ N * x <= sumSq
  BY <1>1, QuotientBounds
<1>3. min \in Int /\ max \in Int /\ N * min <= sum /\ sum <= N * max
  BY <1>1, StatsAssumption DEF StatsInv, StatsTypeOK, SumsSoFar
<1>4. Quotient(sum, N) \in Int
  BY <1>1, <1>3, QuotientBetween
<1>5. TopPower * TopPower \in Nat \ {0}
  BY <1>1
<1>6. StatsTypeOK'
  BY <1>1, <1>2, <1>4, <1>5 DEF StatsInv, StatsTypeOK, Divide
<1>7. x < (0 + 2 * TopPower) * (0 + 2 * TopPower)
  <2>1. Bound \in Int /\ Bound < (0 + 2 * TopPower) * (0 + 2 * TopPower)
    BY <1>1 DEF Bound
  <2>2. N * x <= N * Bound
    BY <1>1, <1>2, <2>1
  <2> HIDE DEF x
  <2>3. x <= Bound
    BY <1>1, <1>2, <2>1, <2>2, DropFactor
  <2> QED  BY <1>1, <1>2, <2>1, <2>3
<1>8. RootSoFar'
  <2>1. root' = 0 /\ power' = TopPower /\ op' = x /\ (sumSq \div N)' = x
        /\ res' = 0 /\ one' = TopPower * TopPower
    BY DEF StatsInv, Divide
  <2>2. TopPower * 0 = 0
    BY <1>1
  <2> HIDE DEF x
  <2> QED  BY <1>1, <1>2, <1>5, <1>7, <2>1, <2>2 DEF RootSoFar, Rooted
<1>9. SumsSoFar'
  BY DEF StatsInv, SumsSoFar, Divide, Peak, Bound
<1> QED  BY <1>1, <1>6, <1>8, <1>9 DEF StatsInv, Divide, MeanTaken, RootExact

LEMMA PowerShifted == StatsInv /\ Shift => StatsInv'
<1> SUFFICES ASSUME StatsInv, Shift PROVE StatsInv'
  OBVIOUS
<1> DEFINE x == sumSq \div N
<1>1. /\ N \in Nat \ {0} /\ sumSq \in Nat /\ op \in Nat /\ res \in Nat /\ one \in Nat
      /\ power \in Powers /\ root = 0 /\ root' = 0 /\ RootSoFar
  BY StatsAssumption DEF StatsInv, StatsTypeOK, Shift
<1>2. x \in Nat /\ x' = x /\ op' = op /\ res' = res
  BY <1>1, QuotientBounds DEF Shift
<1>3. SumsSoFar' /\ MeanTaken' /\ RootExact'
  BY DEF StatsInv, SumsSoFar, MeanTaken, RootExact, Shift, Peak, Bound
<1>4. RootSoFar' /\ one' \in Nat /\ power' \in Powers
  <2>1. CASE one > op /\ one' = one \div 4 /\ Halve
    <3>1. power' \in Powers /\ IF power = 1 THEN power' = 1 ELSE power = 2 * power'
      BY <2>1 DEF Halve
    <3>2. Rooted(x, op, res, one, 0, power)
      BY <1>1 DEF RootSoFar
    <3> HIDE DEF x
    <3>3. one' \in Nat /\ Rooted(x, op, res, one', 0, power')
      BY <1>1, <1>2, <2>1, <3>1, <3>2, ShiftTurn
    <3> QED  BY <1>1, <1>2, <3>1, <3>3 DEF RootSoFar, x
  <2>2. CASE one <= op /\ UNCHANGED <<one, power>>
    BY <1>1, <1>2, <2>2 DEF RootSoFar
  <2> QED  BY <2>1, <2>2 DEF Shift
<1>5. StatsTypeOK'
  BY <1>4 DEF StatsInv, StatsTypeOK, Shift
<1> QED  BY <1>1, <1>3, <1>4, <1>5 DEF StatsInv, Shift

LEMMA DigitFound == StatsInv /\ Root => StatsInv'
<1> SUFFICES ASSUME StatsInv, Root PROVE StatsInv'
  OBVIOUS
<1> DEFINE x == sumSq \div N
<1>1. /\ N \in Nat \ {0} /\ sumSq \in Nat /\ op \in Nat /\ res \in Nat /\ one \in Nat
      /\ power \in Powers /\ root \in Nat /\ RootSoFar /\ one # 0 /\ pc' = "root"
  BY StatsAssumption DEF StatsInv, StatsTypeOK, Root
<1>2. x \in Nat /\ x' = x
  BY <1>1, QuotientBounds DEF Root
<1>3. SumsSoFar' /\ MeanTaken' /\ RootExact'
  BY DEF StatsInv, SumsSoFar, MeanTaken, RootExact, Root, Peak, Bound
<1>4. /\ power' \in Powers /\ one' = one \div 4
      /\ IF power = 1 THEN power' = 1 ELSE power = 2 * power'
  BY DEF Root, Halve
<1>5. \/ op >= res + one /\ op' = op - (res + one) /\ res' = res \div 2 + one /\ root' = root + power
      \/ op < res + one /\ op' = op /\ res' = res \div 2 /\ root' = root
  BY DEF Root
<1>6. /\ op' \in Nat /\ res' \in Nat /\ one' \in Nat /\ root' \in Nat
      /\ Rooted(x, op', res', one', root', power')
  <2>1. Rooted(x, op, res, one, root, power)
    BY <1>1 DEF RootSoFar
  <2> HIDE DEF x
  <2>2. CASE op >= res + one /\ op' = op - (res + one) /\ res' = res \div 2 + one /\ root' = root + power
    BY <1>1, <1>2, <1>4, <2>1, <2>2, DigitTurn
  <2>3. CASE op < res + one /\ op' = op /\ res' = res \div 2 /\ root' = root
    BY <1>1, <1>2, <1>4, <2>1, <2>3, DigitTurn
  <2> QED  BY <1>5, <2>2, <2>3
<1>7. RootSoFar'
  BY <1>2, <1>6 DEF RootSoFar
<1>8. StatsTypeOK'
  BY <1>1, <1>4, <1>6 DEF StatsInv, StatsTypeOK, Root
<1> QED  BY <1>1, <1>3, <1>7, <1>8 DEF StatsInv

LEMMA RootTaken == StatsInv /\ Finish => StatsInv'
<1> SUFFICES ASSUME StatsInv, Finish PROVE StatsInv'
  OBVIOUS
<1> DEFINE x == sumSq \div N
<1>1. /\ N \in Nat \ {0} /\ sumSq \in Nat /\ op \in Nat /\ root \in Nat
      /\ res = root /\ op + root * root = x /\ x < (root + 1) * (root + 1)
  BY StatsAssumption DEF StatsInv, StatsTypeOK, RootSoFar, Rooted, Finish
<1>2. x \in Nat
  BY <1>1, QuotientBounds
<1>3. root * root <= x
  <2> DEFINE r == root * root
  <2>1. r \in Nat
    BY <1>1
  <2>2. op + r = x
    BY <1>1
  <2> HIDE DEF r, x
  <2>3. r <= x
    BY <1>1, <1>2, <2>1, <2>2
  <2> QED  BY <2>3 DEF r
<1>4. RootExact'
  BY <1>1, <1>3 DEF Finish, RootExact
<1>5. StatsTypeOK'
  BY <1>1 DEF StatsInv, StatsTypeOK, Finish
<1>6. SumsSoFar' /\ MeanTaken'
  BY DEF StatsInv, SumsSoFar, MeanTaken, Finish, Peak, Bound
<1> QED  BY <1>4, <1>5, <1>6 DEF StatsInv, Finish

-----------------------------------------------------------------------------
(* The theorems.                                                           *)

LEMMA StatsStep ==
  ASSUME StatsInv, [StatsNext]_statsVars
  PROVE  StatsInv'
<1>1. CASE UNCHANGED statsVars
  BY <1>1 DEF StatsInv, StatsTypeOK, SumsSoFar, MeanTaken, RootSoFar, Rooted,
              RootExact, Peak, Bound, statsVars
<1> QED  BY <1>1, SampleAdded, RootStarted, PowerShifted, DigitFound, RootTaken DEF StatsNext

LEMMA StatsInvariant == StatsSpec => []StatsInv
  BY StatsInitially, StatsStep, PTL DEF StatsSpec

\* At the end the sums and the root so far make the statistics agree.
LEMMA StatsInvAgrees == StatsInv => StatsAgree
<1> SUFFICES ASSUME StatsInv, pc = "done"
             PROVE  /\ min <= mean /\ mean <= max
                    /\ -rms <= mean /\ mean <= rms
                    /\ rms <= Peak
  BY DEF StatsAgree, Peak
<1> DEFINE x == sumSq \div N
<1>1. /\ N \in Nat \ {0} /\ sumSq \in Nat /\ sum \in Int /\ rms \in Nat /\ mean \in Int
      /\ min \in Int /\ max \in Int /\ min <= max
  BY StatsAssumption DEF StatsInv, StatsTypeOK, SumsSoFar
<1>2. i - 1 = N /\ mean = Quotient(sum, N)
  BY <1>1 DEF StatsInv, MeanTaken
<1>3. /\ N * min <= sum /\ sum <= N * max
      /\ sum * sum <= N * sumSq
      /\ sumSq <= N * (Peak * Peak)
  BY <1>2 DEF StatsInv, SumsSoFar
<1>4. min <= mean /\ mean <= max
  BY <1>1, <1>2, <1>3, QuotientBetween
<1>5. x \in Nat /\ N * x <= sumSq /\ rms * rms <= x /\ x < (rms + 1) * (rms + 1)
  BY <1>1, QuotientBounds DEF StatsInv, RootExact
<1>6. mean * mean <= x
  BY <1>1, <1>2, <1>3, QuotientSquare
<1> HIDE DEF x
<1>7. -rms <= mean /\ mean <= rms
  <2>1. mean * mean < (rms + 1) * (rms + 1)
    BY <1>1, <1>5, <1>6
  <2>2. CASE mean >= 0
    BY <1>1, <2>1, <2>2, SquareOrder
  <2>3. CASE mean < 0
    <3>1. -mean \in Nat /\ (-mean) * (-mean) = mean * mean
      BY <1>1, <2>3
    <3>2. -mean <= rms
      BY <1>1, <2>1, <3>1, SquareOrder
    <3> QED  BY <1>1, <2>3, <3>2
  <2> QED  BY <1>1, <2>2, <2>3
<1>8. rms <= Peak
  <2> DEFINE b == Peak
  <2>1. b \in Nat
    BY <1>1 DEF Peak, Greatest
  <2>2. sumSq <= N * (b * b)
    BY <1>3
  <2> HIDE DEF b
  <2>3. N * x <= N * (b * b) /\ b * b \in Nat
    BY <1>1, <1>5, <2>1, <2>2
  <2>4. x <= b * b
    BY <1>1, <1>5, <2>3, DropFactor
  <2>5. rms * rms < (b + 1) * (b + 1)
    BY <1>1, <1>5, <2>1, <2>4
  <2> QED  BY <1>1, <2>1, <2>5, SquareOrder DEF b
<1> QED  BY <1>4, <1>7, <1>8

-----------------------------------------------------------------------------
(* The checksum: one round of it is injective in the sum and in the byte.  *)

LEMMA DivisionOf ==
  ASSUME NEW x \in Nat, NEW q \in Nat \ {0}
  PROVE  \E d \in Nat : \E m \in 0 .. q - 1 : x \div q = d /\ x % q = m /\ x = d * q + m
  <1> DEFINE d == x \div q
             m == x % q
  <1>1. d \in Nat
    OBVIOUS
  <1>2. m \in 0 .. q - 1
    OBVIOUS
  <1>3. m = x - q * d
    OBVIOUS
  <1>4. x \div q = d /\ x % q = m
    OBVIOUS
  <1> HIDE DEF d, m
  <1>5. x = d * q + m
    BY <1>1, <1>2, <1>3
  <1> QED
    BY <1>1, <1>2, <1>4, <1>5, Zenon

\* The two digits of a number are its own.
LEMMA DigitsUnique ==
  ASSUME NEW q \in Nat \ {0}, NEW a \in Nat, NEW b \in 0 .. q - 1,
         NEW c \in Nat, NEW d \in 0 .. q - 1, a * q + b = c * q + d
  PROVE  a = c /\ b = d
  <1>1. ASSUME NEW u \in Nat, NEW v \in Nat, u < v PROVE u * q + q <= v * q
    <2>1. PICK w \in Nat : v = u + 1 + w
      <3>1. v - u - 1 \in Nat /\ v = u + 1 + (v - u - 1)
        BY <1>1
      <3> QED
        BY <3>1
    <2>2. v * q = u * q + q + w * q /\ w * q \in Nat
      BY <2>1
    <2> QED
      BY <2>2
  <1>2. ~(a < c)
    <2> SUFFICES ASSUME a < c PROVE FALSE
      OBVIOUS
    <2>1. a * q + q <= c * q
      BY <1>1
    <2> QED
      BY <2>1
  <1>3. ~(c < a)
    <2> SUFFICES ASSUME c < a PROVE FALSE
      OBVIOUS
    <2>1. c * q + q <= a * q
      BY <1>1
    <2> QED
      BY <2>1
  <1> QED
    BY <1>2, <1>3

LEMMA DigitsOf ==
  ASSUME NEW q \in Nat \ {0}, NEW a \in Nat, NEW b \in 0 .. q - 1
  PROVE  (a * q + b) % q = b /\ (a * q + b) \div q = a
  <1>1. a * q + b \in Nat
    OBVIOUS
  <1>2. PICK d \in Nat : \E m \in 0 .. q - 1 :
          (a * q + b) \div q = d /\ (a * q + b) % q = m /\ a * q + b = d * q + m
    BY <1>1, DivisionOf, Zenon
  <1>3. PICK m \in 0 .. q - 1 :
          (a * q + b) \div q = d /\ (a * q + b) % q = m /\ a * q + b = d * q + m
    BY <1>2, Zenon
  <1>4. a * q + b = d * q + m
    BY <1>3, Zenon
  <1>5. a = d /\ b = m
    BY <1>4, DigitsUnique
  <1> QED
    BY <1>3, <1>5, Zenon

LEMMA SmallDigits ==
  ASSUME NEW p \in Nat, NEW q \in Nat \ {0}, NEW a \in 0 .. p - 1, NEW b \in 0 .. q - 1
  PROVE  a * q + b \in 0 .. p * q - 1
  <1>1. PICK w \in Nat : p = a + 1 + w
    <2>1. p - a - 1 \in Nat /\ p = a + 1 + (p - a - 1)
      OBVIOUS
    <2> QED
      BY <2>1
  <1>2. p * q = a * q + q + w * q /\ w * q \in Nat /\ a * q \in Nat
    BY <1>1
  <1> QED
    BY <1>2

LEMMA HighDigit ==
  ASSUME NEW p \in Nat, NEW q \in Nat \ {0}, NEW x \in 0 .. p * q - 1
  PROVE  x \div q \in 0 .. p - 1
  <1>1. p * q \in Nat /\ x \in Nat
    OBVIOUS
  <1>2. PICK y \in Nat : \E m \in 0 .. q - 1 :
          x \div q = y /\ x % q = m /\ x = y * q + m
    BY <1>1, DivisionOf, Zenon
  <1>3. y * q <= x /\ x \div q = y
    <2>1. PICK m \in 0 .. q - 1 : x \div q = y /\ x = y * q + m
      BY <1>2, Zenon
    <2>2. y * q <= y * q + m /\ y * q \in Nat
      OBVIOUS
    <2>3. y * q <= x
      BY <1>1, <2>1, <2>2
    <2> QED
      BY <2>1, <2>3, Zenon
  <1>4. ~(p <= y)
    <2> SUFFICES ASSUME p <= y PROVE FALSE
      OBVIOUS
    <2>1. PICK w \in Nat : y = p + w
      <3>1. y - p \in Nat /\ y = p + (y - p)
        OBVIOUS
      <3> QED
        BY <3>1
    <2>2. y * q = p * q + w * q /\ w * q \in Nat
      BY <2>1
    <2> QED
      BY <1>1, <1>3, <2>2
  <1>5. y \in 0 .. p - 1
    BY <1>4
  <1> QED
    BY <1>3, <1>5, Zenon

\* The part of a sum that the rotation moves up, and the part it brings round.
Quarter == Word \div Turn

LEMMA WidthsAre ==
  /\ Byte \in Nat \ {0} /\ Turn \in Nat \ {0} /\ Word \in Nat \ {0}
  /\ Quarter \in Nat \ {0} /\ Word = Quarter * Turn /\ Word = Turn * Quarter
  <1>1. Byte \in Nat \ {0} /\ Turn \in Nat \ {0} /\ Word % Turn = 0
    BY WindowAssumption
  <1>2. Word \in Nat \ {0}
    BY <1>1 DEF Word
  <1>3. PICK d \in Nat : \E m \in 0 .. Turn - 1 :
          Word \div Turn = d /\ Word % Turn = m /\ Word = d * Turn + m
    BY <1>1, <1>2, DivisionOf, Zenon
  <1>4. Word = Quarter * Turn /\ Quarter \in Nat
    <2>1. Quarter = d /\ Word = d * Turn + 0
      BY <1>1, <1>3, Zenon DEF Quarter
    <2> QED
      BY <1>1, <2>1
  <1>5. Quarter # 0
    <2>1. 0 * Turn = 0
      BY <1>1
    <2> QED
      BY <1>2, <1>4, <2>1
  <1>6. Quarter * Turn = Turn * Quarter
    BY <1>1, <1>4
  <1> QED
    BY <1>1, <1>2, <1>4, <1>5, <1>6

\* A rotation swaps the two parts.
LEMMA RotatedIs ==
  ASSUME NEW s \in Words
  PROVE  \E a \in 0 .. Turn - 1 : \E b \in 0 .. Quarter - 1 :
           s = a * Quarter + b /\ Rotated(s) = b * Turn + a
  <1>1. s \in 0 .. Turn * Quarter - 1 /\ s \in Nat
    BY WidthsAre DEF Words
  <1>2. PICK a \in Nat : \E b \in 0 .. Quarter - 1 :
          s \div Quarter = a /\ s % Quarter = b /\ s = a * Quarter + b
    BY <1>1, WidthsAre, DivisionOf, Zenon
  <1>3. PICK b \in 0 .. Quarter - 1 : s \div Quarter = a /\ s = a * Quarter + b
    BY <1>2, Zenon
  <1>4. a \in 0 .. Turn - 1
    BY <1>1, <1>3, WidthsAre, HighDigit, Zenon
  <1>5. s * Turn = a * Word + b * Turn
    <2>1. Quarter \in Nat /\ Turn \in Nat /\ a \in Nat /\ b \in Nat
      BY <1>3, WidthsAre
    <2>2. (a * Quarter + b) * Turn = a * (Quarter * Turn) + b * Turn
      BY <2>1
    <2> QED
      BY <1>3, <2>2, WidthsAre
  <1>6. PICK e \in 0 .. Word - 1 : e = b * Turn
    <2>1. b * Turn + 0 \in 0 .. Quarter * Turn - 1
      BY <1>3, WidthsAre, SmallDigits
    <2>2. b * Turn \in Nat
      BY <1>3, WidthsAre
    <2> QED
      BY <2>1, <2>2, WidthsAre
  <1>7. (s * Turn) % Word = e
    <2>1. (a * Word + e) % Word = e
      BY WidthsAre, DigitsOf, Zenon
    <2>2. s * Turn = a * Word + e
      BY <1>5, <1>6, Zenon
    <2> QED
      BY <2>1, <2>2, Zenon
  <1>8. Rotated(s) = b * Turn + a
    <2>1. s \div (Word \div Turn) = a
      BY <1>3, Zenon DEF Quarter
    <2> QED
      BY <1>6, <1>7, <2>1, Zenon DEF Rotated
  <1> QED
    BY <1>3, <1>4, <1>8, Zenon

LEMMA RotatedType ==
  ASSUME NEW s \in Words
  PROVE  Rotated(s) \in Words
  <1>1. PICK a \in 0 .. Turn - 1, b \in 0 .. Quarter - 1 : Rotated(s) = b * Turn + a
    BY RotatedIs, Zenon
  <1>2. b * Turn + a \in 0 .. Quarter * Turn - 1
    BY WidthsAre, SmallDigits
  <1> QED
    BY <1>1, <1>2, WidthsAre DEF Words

LEMMA RotatedInjective ==
  ASSUME NEW s \in Words, NEW t \in Words, Rotated(s) = Rotated(t)
  PROVE  s = t
  <1>1. PICK a \in 0 .. Turn - 1, b \in 0 .. Quarter - 1 :
          s = a * Quarter + b /\ Rotated(s) = b * Turn + a
    BY RotatedIs, Zenon
  <1>2. PICK c \in 0 .. Turn - 1, d \in 0 .. Quarter - 1 :
          t = c * Quarter + d /\ Rotated(t) = d * Turn + c
    BY RotatedIs, Zenon
  <1>3. b * Turn + a = d * Turn + c /\ b \in Nat /\ d \in Nat
    BY <1>1, <1>2
  <1>4. Turn \in Nat \ {0}
    BY WidthsAre
  <1>5. b = d /\ a = c
    BY <1>3, <1>4, DigitsUnique
  <1> QED
    BY <1>1, <1>2, <1>5

\* Adding modulo Word.
LEMMA AddedInjective ==
  ASSUME NEW s \in Words, NEW t \in Words,
         (s + Increment) % Word = (t + Increment) % Word
  PROVE  s = t
  <1>1. Increment \in Words /\ Word \in Nat \ {0}
    BY WidthsAre, WindowAssumption DEF Words
  <1> DEFINE x == s + Increment
             y == t + Increment
  <1>2. x \in Nat /\ y \in Nat /\ x < 2 * Word /\ y < 2 * Word
    BY <1>1 DEF Words
  <1>3. ASSUME NEW z \in Nat, z < 2 * Word
        PROVE  z % Word = IF z < Word THEN z ELSE z - Word
    <2>1. CASE z < Word
      <3>1. (0 * Word + z) % Word = z
        BY <1>1, <2>1, DigitsOf
      <3>2. 0 * Word + z = z
        BY <1>1
      <3> QED
        BY <2>1, <3>1, <3>2
    <2>2. CASE ~(z < Word)
      <3>1. z - Word \in 0 .. Word - 1
        BY <1>1, <1>3, <2>2
      <3>2. (1 * Word + (z - Word)) % Word = z - Word
        BY <1>1, <3>1, DigitsOf
      <3>3. 1 * Word + (z - Word) = z
        BY <1>1
      <3> QED
        BY <2>2, <3>2, <3>3
    <2> QED
      BY <2>1, <2>2
  <1>4. /\ x % Word = IF x < Word THEN x ELSE x - Word
        /\ y % Word = IF y < Word THEN y ELSE y - Word
    BY <1>2, <1>3
  <1> QED
    BY <1>1, <1>4 DEF Words

LEMMA MixedType ==
  ASSUME NEW s \in Words, NEW b \in Bytes
  PROVE  Mixed(s, b) \in Words
  <1>1. ByteXor(Rotated(s), b) \in Words
    BY RotatedType, XorAssumption
  <1>2. Increment \in Nat /\ Word \in Nat \ {0}
    BY WidthsAre, WindowAssumption
  <1>3. ByteXor(Rotated(s), b) + Increment \in Nat
    BY <1>1, <1>2 DEF Words
  <1>4. (ByteXor(Rotated(s), b) + Increment) % Word \in 0 .. Word - 1
    BY <1>2, <1>3, DivisionOf, Zenon
  <1> QED
    BY <1>4 DEF Mixed, Words

LEMMA MixedInjective ==
  ASSUME NEW s \in Words, NEW b \in Bytes
  PROVE  /\ \A t \in Words : Mixed(s, b) = Mixed(t, b) => s = t
         /\ \A c \in Bytes : Mixed(s, b) = Mixed(s, c) => b = c
  <1>1. ASSUME NEW t \in Words, Mixed(s, b) = Mixed(t, b) PROVE s = t
    <2>1. ByteXor(Rotated(s), b) \in Words /\ ByteXor(Rotated(t), b) \in Words
      BY RotatedType, XorAssumption
    <2>2. ByteXor(Rotated(s), b) = ByteXor(Rotated(t), b)
      BY <1>1, <2>1, AddedInjective DEF Mixed
    <2>3. Rotated(s) = Rotated(t)
      <3>1. Rotated(s) \in Words /\ Rotated(t) \in Words
        BY RotatedType
      <3>2. ByteXor(ByteXor(Rotated(s), b), b) = Rotated(s) /\ ByteXor(ByteXor(Rotated(t), b), b) = Rotated(t)
        BY <3>1, XorAssumption
      <3> QED
        BY <2>2, <3>2
    <2> QED
      BY <2>3, RotatedInjective
  <1>2. ASSUME NEW c \in Bytes, Mixed(s, b) = Mixed(s, c) PROVE b = c
    <2>1. Rotated(s) \in Words
      BY RotatedType
    <2>2. ByteXor(Rotated(s), b) \in Words /\ ByteXor(Rotated(s), c) \in Words
      BY <2>1, XorAssumption
    <2>3. ByteXor(Rotated(s), b) = ByteXor(Rotated(s), c)
      BY <1>2, <2>2, AddedInjective DEF Mixed
    <2> QED
      BY <2>1, <2>3, XorAssumption
  <1> QED
    BY <1>1, <1>2

-----------------------------------------------------------------------------
(* The checksum: a sum is what its definition says, and two sequences of   *)
(* bytes that differ in one place have different sums.                     *)

LEMMA LeastOf ==
  ASSUME NEW S, S \subseteq Nat, S # {}
  PROVE  \E m \in S : \A n \in S : m <= n
  <1>1. PICK m \in S : \A n \in S : ~(<<n, m>> \in OpToRel(<, Nat))
    BY NatLessThanWellFounded, WFMin
  <1>2. ASSUME NEW n \in S PROVE ~(n < m)
    <2> SUFFICES ASSUME n < m PROVE <<n, m>> \in OpToRel(<, Nat)
      BY <1>1
    <2>1. <<n, m>> \in Nat \X Nat /\ <<n, m>>[1] < <<n, m>>[2]
      OBVIOUS
    <2> QED
      BY <2>1, Zenon DEF OpToRel
  <1> QED
    BY <1>2

LEMMA SumsAre ==
  ASSUME NEW bytes \in Seq(Bytes)
  PROVE  /\ Sums(bytes)[0] = Seed
         /\ \A k \in 1 .. Len(bytes) :
              Sums(bytes)[k] = Mixed(Sums(bytes)[k - 1], bytes[k])
  <1> DEFINE Round(f, n) ==
               [k \in 0 .. n |-> IF k = 0 THEN Seed ELSE Mixed(f[k - 1], bytes[k])]
             Missing == { n \in Nat : ~\E f : f = Round(f, n) }
  <1>1. Missing = {}
    <2> SUFFICES ASSUME Missing # {} PROVE FALSE
      OBVIOUS
    <2>1. PICK m \in Missing : \A n \in Missing : m <= n
      BY LeastOf
    <2>2. CASE m = 0
      <3> DEFINE f == [k \in 0 .. 0 |-> Seed]
      <3>1. f = Round(f, 0)
        OBVIOUS
      <3> QED
        BY <2>2, <3>1
    <2>3. CASE m # 0
      <3>1. m \in Nat /\ m - 1 \in Nat /\ m - 1 \notin Missing
        <4>1. m \in Nat
          BY <2>1, Zenon
        <4>2. m - 1 \in Nat /\ ~(m <= m - 1)
          BY <2>3, <4>1
        <4> HIDE DEF Missing
        <4> QED
          BY <2>1, <4>1, <4>2
      <3>2. PICK f : f = Round(f, m - 1)
        BY <3>1
      <3> DEFINE g == [k \in 0 .. m |-> IF k < m THEN f[k] ELSE Mixed(f[m - 1], bytes[m])]
      <3>3. ASSUME NEW k \in 0 .. m
            PROVE  g[k] = IF k = 0 THEN Seed ELSE Mixed(g[k - 1], bytes[k])
        <4>1. CASE k = 0
          <5>1. g[0] = f[0] /\ f[0] = Seed
            BY <2>3, <3>1, <3>2
          <5> QED
            BY <4>1, <5>1
        <4>2. CASE k # 0 /\ k < m
          <5>1. k \in 0 .. m - 1 /\ k - 1 \in 0 .. m /\ k - 1 < m
            BY <3>1, <4>2
          <5>2. g[k] = f[k] /\ g[k - 1] = f[k - 1]
            BY <4>2, <5>1
          <5>3. f[k] = Mixed(f[k - 1], bytes[k])
            BY <3>2, <4>2, <5>1
          <5> QED
            BY <4>2, <5>2, <5>3
        <4>3. CASE k = m
          <5>1. m - 1 \in 0 .. m /\ m - 1 < m
            BY <2>3, <3>1
          <5>2. g[m - 1] = f[m - 1] /\ g[m] = Mixed(f[m - 1], bytes[m])
            BY <5>1, <3>1
          <5> QED
            BY <2>3, <4>3, <5>2
        <4> QED
          BY <3>1, <4>1, <4>2, <4>3
      <3>4. g = Round(g, m)
        BY <3>3
      <3> QED
        BY <3>1, <3>4
    <2> QED
      BY <2>2, <2>3
  <1>2. Len(bytes) \in Nat
    BY LenProperties
  <1>3. Sums(bytes) = CHOOSE f : f = Round(f, Len(bytes))
    BY DEF Sums
  <1>4. \E f : f = Round(f, Len(bytes))
    BY <1>1, <1>2
  <1>5. Sums(bytes) = Round(Sums(bytes), Len(bytes))
    BY <1>3, <1>4, Zenon
  <1>6. 0 \in 0 .. Len(bytes) /\ \A k \in 1 .. Len(bytes) : k \in 0 .. Len(bytes) /\ k # 0
    BY <1>2
  <1> DEFINE f == Sums(bytes)
  <1>7. f = Round(f, Len(bytes))
    BY <1>5
  <1> HIDE DEF f
  <1>8. f[0] = Seed /\ \A k \in 1 .. Len(bytes) : f[k] = Mixed(f[k - 1], bytes[k])
    BY <1>6, <1>7
  <1> QED
    BY <1>8 DEF f

LEMMA SumsType ==
  ASSUME NEW bytes \in Seq(Bytes), NEW k \in 0 .. Len(bytes)
  PROVE  Sums(bytes)[k] \in Words
  <1> DEFINE Wrong == { n \in 0 .. Len(bytes) : Sums(bytes)[n] \notin Words }
  <1>0. Len(bytes) \in Nat
    BY LenProperties
  <1>1. Wrong = {}
    <2> SUFFICES ASSUME Wrong # {} PROVE FALSE
      OBVIOUS
    <2>1. PICK m \in Wrong : \A n \in Wrong : m <= n
      <3>1. Wrong \subseteq Nat
        BY <1>0
      <3> HIDE DEF Wrong
      <3> QED
        BY <3>1, LeastOf
    <2>2. CASE m = 0
      BY <2>2, SumsAre, WindowAssumption DEF Words
    <2>3. CASE m # 0
      <3>1. m \in 1 .. Len(bytes) /\ m - 1 \in 0 .. Len(bytes) /\ m - 1 \notin Wrong
        BY <1>0, <2>1, <2>3
      <3>2. Sums(bytes)[m - 1] \in Words /\ bytes[m] \in Bytes
        BY <3>1, ElementOfSeq
      <3>3. Sums(bytes)[m] = Mixed(Sums(bytes)[m - 1], bytes[m])
        BY <3>1, SumsAre
      <3> QED
        BY <3>2, <3>3, MixedType
    <2> QED
      BY <2>2, <2>3
  <1> QED
    BY <1>1

LEMMA SumsDiffer ==
  ASSUME NEW b \in Seq(Bytes), NEW c \in Seq(Bytes), Len(b) = Len(c),
         NEW j \in 1 .. Len(b), b[j] # c[j],
         \A k \in 1 .. Len(b) : k # j => b[k] = c[k]
  PROVE  Sums(b)[Len(b)] # Sums(c)[Len(c)]
  <1>0. Len(b) \in Nat
    BY LenProperties
  <1> DEFINE Wrong ==
        { n \in 0 .. Len(b) : IF n < j THEN Sums(b)[n] # Sums(c)[n] ELSE Sums(b)[n] = Sums(c)[n] }
  <1>1. Wrong = {}
    <2> SUFFICES ASSUME Wrong # {} PROVE FALSE
      OBVIOUS
    <2>1. PICK m \in Wrong : \A n \in Wrong : m <= n
      <3>1. Wrong \subseteq Nat
        BY <1>0
      <3> HIDE DEF Wrong
      <3> QED
        BY <3>1, LeastOf
    <2>2. CASE m = 0
      BY <2>2, SumsAre
    <2>3. CASE m # 0
      <3>1. m \in 1 .. Len(b) /\ m - 1 \in 0 .. Len(b) /\ m - 1 \notin Wrong
        BY <1>0, <2>1, <2>3
      <3> DEFINE s == Sums(b)[m - 1]
                 t == Sums(c)[m - 1]
      <3>2. /\ s \in Words /\ t \in Words /\ b[m] \in Bytes /\ c[m] \in Bytes
            /\ Sums(b)[m] = Mixed(s, b[m]) /\ Sums(c)[m] = Mixed(t, c[m])
        BY <3>1, SumsType, SumsAre, ElementOfSeq
      <3>3. IF m - 1 < j THEN s = t ELSE s # t
        BY <3>1
      <3> HIDE DEF s, t
      <3>4. CASE m < j
        <4>1. s = t /\ b[m] = c[m]
          BY <3>1, <3>3, <3>4
        <4> QED
          BY <2>1, <3>2, <3>4, <4>1
      <3>5. CASE m = j
        <4>1. s = t /\ b[m] # c[m]
          BY <3>1, <3>3, <3>5
        <4>2. Mixed(s, b[m]) # Mixed(s, c[m])
          BY <3>2, <4>1, MixedInjective
        <4> QED
          BY <2>1, <3>2, <3>5, <4>1, <4>2
      <3>6. CASE m > j
        <4>1. s # t /\ b[m] = c[m]
          BY <3>1, <3>3, <3>6
        <4>2. Mixed(s, b[m]) # Mixed(t, b[m])
          BY <3>2, <4>1, MixedInjective
        <4> QED
          BY <2>1, <3>2, <3>6, <4>1, <4>2
      <3> QED
        BY <3>1, <3>4, <3>5, <3>6
    <2> QED
      BY <2>2, <2>3
  <1>2. Len(b) \in 0 .. Len(b) /\ ~(Len(b) < j)
    BY <1>0
  <1> QED
    BY <1>1, <1>2

LEMMA ChecksumType ==
  ASSUME NEW bytes \in Seq(Bytes)
  PROVE  Checksum(bytes) \in Bytes \X Bytes
  <1>1. PICK s : s = Sums(bytes)[Len(bytes)]
    OBVIOUS
  <1>2. s \in Words
    BY <1>1, SumsType, LenProperties
  <1>3. s \in 0 .. Byte * Byte - 1 /\ s \in Nat /\ Byte \in Nat \ {0}
    BY <1>2, WidthsAre DEF Words, Word
  <1>4. s \div Byte \in 0 .. Byte - 1
    BY <1>3, HighDigit, Zenon
  <1>5. s % Byte \in 0 .. Byte - 1
    BY <1>3, DivisionOf, Zenon
  <1> QED
    BY <1>1, <1>4, <1>5, Zenon DEF Checksum, Bytes

\* Two sequences of bytes that differ in one place have different checksums.
LEMMA ChecksumsDiffer ==
  ASSUME NEW b \in Seq(Bytes), NEW c \in Seq(Bytes), Len(b) = Len(c),
         NEW j \in 1 .. Len(b), b[j] # c[j],
         \A k \in 1 .. Len(b) : k # j => b[k] = c[k]
  PROVE  Checksum(b) # Checksum(c)
  <1>1. PICK s, t : s = Sums(b)[Len(b)] /\ t = Sums(c)[Len(c)]
    OBVIOUS
  <1>2. s # t
    BY <1>1, SumsDiffer
  <1>3. s \in Nat /\ t \in Nat /\ Byte \in Nat \ {0}
    <2>1. Len(b) \in 0 .. Len(b) /\ Len(c) \in 0 .. Len(c)
      BY LenProperties
    <2> QED
      BY <1>1, <2>1, SumsType, WidthsAre DEF Words
  <1>4. PICK d \in Nat, m \in 0 .. Byte - 1 : s \div Byte = d /\ s % Byte = m /\ s = d * Byte + m
    BY <1>3, DivisionOf, Zenon
  <1>5. PICK e \in Nat, n \in 0 .. Byte - 1 : t \div Byte = e /\ t % Byte = n /\ t = e * Byte + n
    BY <1>3, DivisionOf, Zenon
  <1>6. ~(d = e /\ m = n)
    BY <1>2, <1>4, <1>5, Zenon
  <1>7. Checksum(b) = <<m, d>> /\ Checksum(c) = <<n, e>>
    BY <1>1, <1>4, <1>5, Zenon DEF Checksum
  <1> QED
    BY <1>6, <1>7

-----------------------------------------------------------------------------
(* A window as the checksum sees it.                                       *)

LEMMA Glued ==
  ASSUME NEW T, NEW a \in Seq(T), NEW b \in Seq(T), NEW c \in Seq(T)
  PROVE  /\ (a \o b) \o c \in Seq(T)
         /\ Len((a \o b) \o c) = Len(a) + Len(b) + Len(c)
         /\ \A k \in 1 .. Len(a) : ((a \o b) \o c)[k] = a[k]
         /\ \A k \in 1 .. Len(b) : ((a \o b) \o c)[Len(a) + k] = b[k]
         /\ \A k \in 1 .. Len(c) : ((a \o b) \o c)[Len(a) + Len(b) + k] = c[k]
  <1>1. Len(a) \in Nat /\ Len(b) \in Nat /\ Len(c) \in Nat
    BY LenProperties
  <1>2. /\ a \o b \in Seq(T) /\ Len(a \o b) = Len(a) + Len(b)
        /\ \A k \in 1 .. Len(a) + Len(b) :
             (a \o b)[k] = IF k <= Len(a) THEN a[k] ELSE b[k - Len(a)]
    BY ConcatProperties
  <1> DEFINE ab == a \o b
             abc == ab \o c
  <1>3. ab \in Seq(T)
    BY <1>2
  <1> HIDE DEF ab
  <1>4. /\ abc \in Seq(T) /\ Len(abc) = Len(ab) + Len(c)
        /\ \A k \in 1 .. Len(ab) + Len(c) :
             abc[k] = IF k <= Len(ab) THEN ab[k] ELSE c[k - Len(ab)]
    BY <1>3, ConcatProperties
  <1> HIDE DEF abc
  <1>5. Len(ab) = Len(a) + Len(b)
    BY <1>2 DEF ab
  <1>6. \A k \in 1 .. Len(a) + Len(b) : ab[k] = IF k <= Len(a) THEN a[k] ELSE b[k - Len(a)]
    BY <1>2 DEF ab
  <1>7. \A k \in 1 .. Len(a) : abc[k] = a[k]
    BY <1>1, <1>4, <1>5, <1>6
  <1>8. \A k \in 1 .. Len(b) : abc[Len(a) + k] = b[k]
    <2> TAKE k \in 1 .. Len(b)
    <2>1. /\ Len(a) + k \in 1 .. Len(a) + Len(b) /\ ~(Len(a) + k <= Len(a))
          /\ Len(a) + k \in 1 .. Len(ab) + Len(c) /\ Len(a) + k <= Len(ab)
          /\ (Len(a) + k) - Len(a) = k
      BY <1>1, <1>5
    <2> QED
      BY <1>4, <1>6, <2>1
  <1>9. \A k \in 1 .. Len(c) : abc[Len(a) + Len(b) + k] = c[k]
    <2> TAKE k \in 1 .. Len(c)
    <2>1. /\ Len(a) + Len(b) + k \in 1 .. Len(ab) + Len(c)
          /\ ~(Len(a) + Len(b) + k <= Len(ab))
          /\ (Len(a) + Len(b) + k) - Len(ab) = k
      BY <1>1, <1>5
    <2> QED
      BY <1>4, <2>1
  <1> QED
    BY <1>4, <1>5, <1>7, <1>8, <1>9 DEF abc, ab

LEMMA SerialisedIs ==
  ASSUME NEW w \in Windows
  PROVE  /\ Serialised(w) \in Seq(Bytes) /\ Len(Serialised(w)) = N + 6
         /\ Serialised(w)[1] = w.version /\ Serialised(w)[2] = w.type
         /\ Serialised(w)[3] = w.sequence /\ Serialised(w)[4] = w.count
         /\ \A k \in 1 .. N : Serialised(w)[4 + k] = w.accel[k]
         /\ \A k \in 1 .. 2 : Serialised(w)[4 + N + k] = w.checksum[k]
  <1> DEFINE head == <<w.version, w.type, w.sequence, w.count>>
  <1>1. /\ head \in Seq(Bytes) /\ Len(head) = 4
        /\ head[1] = w.version /\ head[2] = w.type
        /\ head[3] = w.sequence /\ head[4] = w.count
    BY DEF Windows
  <1>2. w.accel \in Seq(Bytes) /\ Len(w.accel) = N
    <2>1. w.accel \in [1 .. N -> Bytes] /\ N \in Nat
      BY StatsAssumption DEF Windows
    <2> QED
      BY <2>1
  <1>3. w.checksum \in Seq(Bytes) /\ Len(w.checksum) = 2
    <2>1. w.checksum \in Bytes \X Bytes
      BY DEF Windows
    <2>2. PICK d \in Bytes, e \in Bytes : w.checksum = <<d, e>>
      BY <2>1
    <2> QED
      BY <2>2
  <1> DEFINE all == (head \o w.accel) \o w.checksum
  <1>4. Serialised(w) = all
    BY DEF Serialised
  <1> HIDE DEF head
  <1>5. /\ all \in Seq(Bytes) /\ Len(all) = 4 + N + 2
        /\ \A x \in 1 .. 4 : all[x] = head[x]
        /\ \A x \in 1 .. N : all[4 + x] = w.accel[x]
        /\ \A x \in 1 .. 2 : all[4 + N + x] = w.checksum[x]
    <2>1. /\ all \in Seq(Bytes) /\ Len(all) = Len(head) + Len(w.accel) + Len(w.checksum)
          /\ \A x \in 1 .. Len(head) : all[x] = head[x]
          /\ \A x \in 1 .. Len(w.accel) : all[Len(head) + x] = w.accel[x]
          /\ \A x \in 1 .. Len(w.checksum) :
               all[Len(head) + Len(w.accel) + x] = w.checksum[x]
      <3>1. ASSUME NEW a \in Seq(Bytes), NEW b \in Seq(Bytes), NEW c \in Seq(Bytes)
            PROVE  /\ (a \o b) \o c \in Seq(Bytes)
                   /\ Len((a \o b) \o c) = Len(a) + Len(b) + Len(c)
                   /\ \A x \in 1 .. Len(a) : ((a \o b) \o c)[x] = a[x]
                   /\ \A x \in 1 .. Len(b) : ((a \o b) \o c)[Len(a) + x] = b[x]
                   /\ \A x \in 1 .. Len(c) : ((a \o b) \o c)[Len(a) + Len(b) + x] = c[x]
        BY Glued
      <3>2. head \in Seq(Bytes) /\ w.accel \in Seq(Bytes) /\ w.checksum \in Seq(Bytes)
        BY <1>1, <1>2, <1>3, Zenon
      <3> QED
        BY <3>1, <3>2, Zenon
    <2> HIDE DEF all
    <2> QED
      BY <1>1, <1>2, <1>3, <2>1
  <1> HIDE DEF all
  <1>6. N \in Nat
    BY StatsAssumption
  <1> QED
    BY <1>1, <1>4, <1>5, <1>6

LEMMA ClearedIs ==
  ASSUME NEW w \in Windows
  PROVE  /\ Cleared(w) \in Windows
         /\ Cleared(w).version = w.version /\ Cleared(w).type = w.type
         /\ Cleared(w).sequence = w.sequence /\ Cleared(w).count = w.count
         /\ Cleared(w).accel = w.accel /\ Cleared(w).checksum = <<0, 0>>
  <1>1. 0 \in Bytes
    BY WidthsAre DEF Bytes
  <1> QED
    BY <1>1 DEF Cleared, Windows

\* A window is what its fields are.
LEMMA SameFields ==
  ASSUME NEW w \in Windows, NEW v \in Windows,
         v.version = w.version, v.type = w.type, v.sequence = w.sequence,
         v.count = w.count, v.accel = w.accel, v.checksum = w.checksum
  PROVE  v = w
  BY DEF Windows

\* A difference in one byte of the payload, or of the checksum, is detected.
LEMMA Covered ==
  ASSUME NEW w \in Windows, NEW v \in Windows,
         w.checksum = Checksum(Serialised(Cleared(w))),
         NEW j \in 1 .. 4 + N,
         Serialised(Cleared(v))[j] # Serialised(Cleared(w))[j],
         \A k \in 1 .. 6 + N :
           k # j => Serialised(Cleared(v))[k] = Serialised(Cleared(w))[k],
         v.checksum = w.checksum
  PROVE  Checksum(Serialised(Cleared(v))) # v.checksum
  <1>1. N \in Nat
    BY StatsAssumption
  <1>2. /\ Serialised(Cleared(v)) \in Seq(Bytes) /\ Len(Serialised(Cleared(v))) = N + 6
        /\ Serialised(Cleared(w)) \in Seq(Bytes) /\ Len(Serialised(Cleared(w))) = N + 6
    BY ClearedIs, SerialisedIs
  <1>3. j \in 1 .. N + 6
    BY <1>1
  <1>4. \A k \in 1 .. N + 6 :
          k # j => Serialised(Cleared(v))[k] = Serialised(Cleared(w))[k]
    BY <1>1
  <1> QED
    BY <1>2, <1>3, <1>4, ChecksumsDiffer

\* The places of a serialised window, each with what stands there.
LEMMA Places ==
  ASSUME NEW w \in Windows, NEW v \in Windows, NEW j \in 1 .. 6 + N,
         j # 1 => v.version = w.version,
         j # 2 => v.type = w.type,
         j # 3 => v.sequence = w.sequence,
         j # 4 => v.count = w.count,
         \A k \in 1 .. N : j # 4 + k => v.accel[k] = w.accel[k]
  PROVE  \A k \in 1 .. 6 + N :
           k # j => Serialised(Cleared(v))[k] = Serialised(Cleared(w))[k]
  <1> SUFFICES ASSUME NEW k \in 1 .. 6 + N, k # j
               PROVE  Serialised(Cleared(v))[k] = Serialised(Cleared(w))[k]
    OBVIOUS
  <1>0. N \in Nat
    BY StatsAssumption
  <1> DEFINE a == Serialised(Cleared(v))
             b == Serialised(Cleared(w))
  <1>a. Cleared(v) \in Windows /\ Cleared(w) \in Windows
    BY ClearedIs, Zenon
  <1>1. /\ a[1] = v.version /\ a[2] = v.type /\ a[3] = v.sequence /\ a[4] = v.count
        /\ \A x \in 1 .. N : a[4 + x] = v.accel[x]
        /\ \A x \in 1 .. 2 : a[4 + N + x] = <<0, 0>>[x]
    BY <1>a, ClearedIs, SerialisedIs
  <1>2. /\ b[1] = w.version /\ b[2] = w.type /\ b[3] = w.sequence /\ b[4] = w.count
        /\ \A x \in 1 .. N : b[4 + x] = w.accel[x]
        /\ \A x \in 1 .. 2 : b[4 + N + x] = <<0, 0>>[x]
    BY <1>a, ClearedIs, SerialisedIs
  <1> HIDE DEF a, b
  <1>3. CASE k \in 1 .. 4
    BY <1>1, <1>2, <1>3 DEF a, b
  <1>4. CASE k \in 5 .. 4 + N
    <2>1. PICK x \in 1 .. N : k = 4 + x
      <3>1. k - 4 \in 1 .. N /\ k = 4 + (k - 4)
        BY <1>0, <1>4
      <3> QED
        BY <3>1
    <2>2. a[k] = v.accel[x] /\ b[k] = w.accel[x] /\ v.accel[x] = w.accel[x]
      BY <1>1, <1>2, <2>1
    <2> QED
      BY <2>2, Zenon DEF a, b
  <1>5. CASE k \in 5 + N .. 6 + N
    <2>1. PICK x \in 1 .. 2 : k = 4 + N + x
      <3>1. k - 4 - N \in 1 .. 2 /\ k = 4 + N + (k - 4 - N)
        BY <1>0, <1>5
      <3> QED
        BY <3>1
    <2>2. a[k] = <<0, 0>>[x] /\ b[k] = <<0, 0>>[x]
      BY <1>1, <1>2, <2>1
    <2> QED
      BY <2>2, Zenon DEF a, b
  <1> QED
    BY <1>0, <1>3, <1>4, <1>5

-----------------------------------------------------------------------------
(* A made window, and what one byte of damage does to it.                  *)

LEMMA MadeIs ==
  ASSUME NEW s \in Bytes
  PROVE  /\ Made(s) \in Windows
         /\ Made(s).version = 1 /\ Made(s).type = 2 /\ Made(s).count = N
         /\ Made(s).checksum = Checksum(Serialised(Cleared(Made(s))))
  <1> DEFINE w == [version |-> 1, type |-> 2, sequence |-> s, count |-> N,
                   accel |-> [k \in 1 .. N |-> Acceleration(s, k)],
                   checksum |-> <<0, 0>>]
             m == [w EXCEPT !.checksum = Checksum(Serialised(w))]
  <1>1. Byte \in Nat \ {0} /\ 0 \in Bytes /\ 1 \in Bytes /\ 2 \in Bytes /\ N \in Bytes
    BY WindowAssumption DEF Bytes
  <1>2. ASSUME NEW k \in 1 .. N PROVE Acceleration(s, k) \in Bytes
    <2> DEFINE wave == (s * 7 + (k - 1) * 19) % Wave
               swung == wave - Wave \div 2 + (IF k % 2 = 0 THEN -Swing ELSE Swing)
    <2>1. /\ s * 7 + (k - 1) * 19 \in Nat /\ Wave \in Nat \ {0} /\ Swing \in Nat
          /\ Wave \div 2 \in Nat
      BY StatsAssumption, WindowAssumption DEF Bytes
    <2>2. wave \in Nat
      <3> DEFINE x == s * 7 + (k - 1) * 19
      <3>1. x \in Nat
        BY <2>1
      <3> HIDE DEF x
      <3>2. x % Wave \in 0 .. Wave - 1
        BY <2>1, <3>1
      <3> QED
        BY <3>2, <2>1 DEF x
    <2> HIDE DEF wave
    <2>3. swung \in Int
      BY <2>1, <2>2
    <2> HIDE DEF swung
    <2>4. swung % Byte \in 0 .. Byte - 1
      BY <1>1, <2>3
    <2> QED
      BY <2>4 DEF Acceleration, Bytes, swung, wave
  <1>3. w \in Windows
    BY <1>1, <1>2 DEF Windows
  <1>4. Made(s) = m
    BY DEF Made
  <1>5. Checksum(Serialised(w)) \in Bytes \X Bytes
    <2> HIDE DEF w
    <2> QED
      BY <1>3, SerialisedIs, ChecksumType
  <1>6. /\ m \in Windows /\ m.version = 1 /\ m.type = 2 /\ m.count = N
        /\ m.checksum = Checksum(Serialised(w))
    BY <1>3, <1>5 DEF Windows
  <1>7. Cleared(m) = w
    <2> DEFINE c == Checksum(Serialised(w))
    <2>1. /\ m.version = w.version /\ m.type = w.type /\ m.sequence = w.sequence
          /\ m.count = w.count /\ m.accel = w.accel /\ w.checksum = <<0, 0>>
      <3> HIDE DEF c
      <3> QED
        OBVIOUS
    <2> HIDE DEF w, m
    <2>2. /\ Cleared(m) \in Windows
          /\ Cleared(m).version = m.version /\ Cleared(m).type = m.type
          /\ Cleared(m).sequence = m.sequence /\ Cleared(m).count = m.count
          /\ Cleared(m).accel = m.accel /\ Cleared(m).checksum = <<0, 0>>
      BY <1>6, ClearedIs
    <2> QED
      BY <1>3, <2>1, <2>2, SameFields
  <1> QED
    BY <1>4, <1>6, <1>7

LEMMA MadeValid ==
  ASSUME NEW s \in Bytes
  PROVE  Validated(Made(s)) = "valid"
  BY MadeIs DEF Validated

\* What a transfer may do to a window (Travel).
Damaged(w) ==
  {w} \cup
  UNION { { [w EXCEPT !.version = b], [w EXCEPT !.type = b],
            [w EXCEPT !.sequence = b], [w EXCEPT !.count = b] } \cup
          { [w EXCEPT !.accel[k] = b] : k \in 1 .. N } \cup
          { [w EXCEPT !.checksum[k] = b] : k \in 1 .. 2 } : b \in Bytes }

\* A made window that lost one byte is valid only if the byte was the same.
LEMMA DamageDetected ==
  ASSUME NEW s \in Bytes, NEW v \in Damaged(Made(s))
  PROVE  v \in Windows /\ (Validated(v) = "valid" <=> v = Made(s))
  <1> DEFINE w == Made(s)
  <1>0. /\ w \in Windows /\ w.version = 1 /\ w.type = 2 /\ w.count = N
        /\ w.checksum = Checksum(Serialised(Cleared(w))) /\ Validated(w) = "valid"
    BY MadeIs, MadeValid
  <1> HIDE DEF w
  <1> SUFFICES v \in Windows /\ (v # w => Validated(v) # "valid")
    BY <1>0 DEF w
  <1>1. CASE v = w
    BY <1>0, <1>1
  <1>2. ASSUME NEW b \in Bytes, v = [w EXCEPT !.version = b]
        PROVE  v \in Windows /\ (v # w => Validated(v) # "valid")
    <2>1. v \in Windows /\ v.version = b /\ (b = 1 => v = w)
      BY <1>0, <1>2 DEF Windows
    <2> QED
      BY <2>1 DEF Validated
  <1>3. ASSUME NEW b \in Bytes, v = [w EXCEPT !.type = b]
        PROVE  v \in Windows /\ (v # w => Validated(v) # "valid")
    <2>1. v \in Windows /\ v.version = 1 /\ v.type = b /\ (b = 2 => v = w)
      BY <1>0, <1>3 DEF Windows
    <2> QED
      BY <2>1 DEF Validated
  <1>4. ASSUME NEW b \in Bytes, v = [w EXCEPT !.count = b]
        PROVE  v \in Windows /\ (v # w => Validated(v) # "valid")
    <2>1. v \in Windows /\ v.version = 1 /\ v.type = 2 /\ v.count = b /\ (b = N => v = w)
      BY <1>0, <1>4 DEF Windows
    <2> QED
      BY <2>1 DEF Validated
  <1>5. ASSUME v \in Windows, Checksum(Serialised(Cleared(v))) # v.checksum
        PROVE  Validated(v) # "valid"
    BY <1>5 DEF Validated
  <1>6. ASSUME NEW b \in Bytes, v = [w EXCEPT !.sequence = b]
        PROVE  v \in Windows /\ (v # w => Validated(v) # "valid")
    <2>1. /\ v \in Windows /\ v.sequence = b /\ (b = w.sequence => v = w)
          /\ v.version = w.version /\ v.type = w.type /\ v.count = w.count
          /\ v.accel = w.accel /\ v.checksum = w.checksum
      BY <1>0, <1>6 DEF Windows
    <2> SUFFICES ASSUME v # w PROVE Validated(v) # "valid"
      BY <2>1
    <2>2. 3 \in 1 .. 4 + N /\ 3 \in 1 .. 6 + N
      BY StatsAssumption
    <2>3. Serialised(Cleared(v))[3] # Serialised(Cleared(w))[3]
      <3>1. /\ Serialised(Cleared(v))[3] = Cleared(v).sequence /\ Cleared(v).sequence = b
            /\ Serialised(Cleared(w))[3] = Cleared(w).sequence
            /\ Cleared(w).sequence = w.sequence
        BY <1>0, <2>1, ClearedIs, SerialisedIs
      <3> QED
        BY <2>1, <3>1
    <2>4. \A k \in 1 .. 6 + N :
            k # 3 => Serialised(Cleared(v))[k] = Serialised(Cleared(w))[k]
      BY <1>0, <2>1, <2>2, Places
    <2>5. Checksum(Serialised(Cleared(v))) # v.checksum
      BY <1>0, <2>1, <2>2, <2>3, <2>4, Covered
    <2> QED
      BY <1>5, <2>1, <2>5
  <1>7. ASSUME NEW b \in Bytes, NEW k \in 1 .. N, v = [w EXCEPT !.accel[k] = b]
        PROVE  v \in Windows /\ (v # w => Validated(v) # "valid")
    <2>0. w.accel \in [1 .. N -> Bytes] /\ v.accel = [w.accel EXCEPT ![k] = b]
      BY <1>0, <1>7 DEF Windows
    <2>1. /\ v \in Windows /\ v.accel[k] = b
          /\ \A x \in 1 .. N : x # k => v.accel[x] = w.accel[x]
          /\ v.version = w.version /\ v.type = w.type /\ v.sequence = w.sequence
          /\ v.count = w.count /\ v.checksum = w.checksum
      BY <1>0, <1>7, <2>0 DEF Windows
    <2>2. b = w.accel[k] => v = w
      <3> SUFFICES ASSUME b = w.accel[k] PROVE v = w
        OBVIOUS
      <3>1. v.accel = w.accel
        BY <2>0
      <3> QED
        BY <1>0, <2>1, <3>1, SameFields
    <2> SUFFICES ASSUME v # w PROVE Validated(v) # "valid"
      BY <2>1
    <2>3. PICK j \in 1 .. 4 + N : j = 4 + k /\ j \in 1 .. 6 + N /\ j \notin 1 .. 4
      <3>1. 4 + k \in 1 .. 4 + N /\ 4 + k \in 1 .. 6 + N /\ 4 + k \notin 1 .. 4
        BY StatsAssumption
      <3> QED
        BY <3>1
    <2>4. Serialised(Cleared(v))[j] # Serialised(Cleared(w))[j]
      <3>1. Cleared(v) \in Windows /\ Cleared(w) \in Windows
        BY <1>0, <2>1, ClearedIs
      <3>2. /\ Serialised(Cleared(v))[4 + k] = Cleared(v).accel[k] /\ Cleared(v).accel = v.accel
            /\ Serialised(Cleared(w))[4 + k] = Cleared(w).accel[k] /\ Cleared(w).accel = w.accel
        BY <1>0, <2>1, <3>1, ClearedIs, SerialisedIs
      <3> QED
        BY <2>1, <2>2, <2>3, <3>2
    <2>5. \A x \in 1 .. 6 + N :
            x # j => Serialised(Cleared(v))[x] = Serialised(Cleared(w))[x]
      <3>1. \A x \in 1 .. N : j # 4 + x => v.accel[x] = w.accel[x]
        BY <2>1, <2>3
      <3>2. j # 1 /\ j # 2 /\ j # 3 /\ j # 4
        BY <2>3
      <3> QED
        BY <1>0, <2>1, <2>3, <3>1, <3>2, Places
    <2>6. Checksum(Serialised(Cleared(v))) # v.checksum
      BY <1>0, <2>1, <2>3, <2>4, <2>5, Covered
    <2> QED
      BY <1>5, <2>1, <2>6
  <1>8. ASSUME NEW b \in Bytes, NEW k \in 1 .. 2, v = [w EXCEPT !.checksum[k] = b]
        PROVE  v \in Windows /\ (v # w => Validated(v) # "valid")
    <2>1. w.checksum \in Bytes \X Bytes /\ v.checksum = [w.checksum EXCEPT ![k] = b]
      BY <1>0, <1>8 DEF Windows
    <2>2. v.checksum \in Bytes \X Bytes
      <3>1. PICK d \in Bytes, e \in Bytes : w.checksum = <<d, e>>
        BY <2>1
      <3>2. v.checksum = <<b, e>> \/ v.checksum = <<d, b>>
        BY <2>1, <3>1
      <3> QED
        BY <3>2
    <2>3. v \in Windows /\ (v.checksum = w.checksum => v = w)
      BY <1>0, <1>8, <2>1, <2>2 DEF Windows
    <2>4. Cleared(v) = Cleared(w)
      BY <1>0, <1>8 DEF Cleared, Windows
    <2> QED
      BY <1>0, <1>5, <2>3, <2>4
  <1> QED
    BY <1>1, <1>2, <1>3, <1>4, <1>6, <1>7, <1>8 DEF Damaged, w

-----------------------------------------------------------------------------
(* The loop.                                                               *)

\* Where the window is between making and logging, it is what was made, less a
\* byte that Validated will miss.
WindowInv ==
  /\ WindowTypeOK
  /\ turn = "travel" => window = sent /\ \E s \in Bytes : sent = Made(s)
  /\ turn \in {"log", "stats"} => (Validated(window) = "valid" <=> window = sent)
  /\ ValidIffIntact

LEMMA WindowInit == LoopInit => WindowInv
  <1>1. 0 \in Bytes /\ 1 \in Bytes
    BY WindowAssumption DEF Bytes
  <1>2. NoWindow \in Windows
    BY <1>1 DEF NoWindow, Windows
  <1> QED
    BY <1>1, <1>2 DEF LoopInit, WindowInv, WindowTypeOK, ValidIffIntact

LEMMA VerdictType ==
  ASSUME NEW w PROVE Validated(w) \in Verdicts
  BY DEF Validated, Verdicts

LEMMA WindowStep ==
  ASSUME WindowInv, [LoopNext]_<<loopVars, statsVars>>
  PROVE  WindowInv'
  <1>1. CASE Make
    <2>1. /\ turn = "make" /\ turn' = "travel" /\ window' = Made(seq) /\ sent' = Made(seq)
          /\ seq' = seq /\ valid' = valid /\ seq \in Bytes
      BY <1>1 DEF Make, WindowInv, WindowTypeOK
    <2>2. Made(seq) \in Windows
      BY <2>1, MadeIs
    <2> QED
      BY <2>1, <2>2 DEF WindowInv, WindowTypeOK, ValidIffIntact
  <1>2. CASE Travel
    <2>1. /\ turn = "travel" /\ turn' = "log" /\ seq' = seq /\ sent' = sent /\ valid' = valid
          /\ window = sent
      BY <1>2 DEF Travel, WindowInv
    <2>2. PICK s \in Bytes : sent = Made(s)
      BY <2>1 DEF WindowInv
    <2>3. window' \in Damaged(Made(s))
      BY <1>2, <2>1, <2>2 DEF Travel, Damaged
    <2>4. window' \in Windows /\ (Validated(window') = "valid" <=> window' = sent)
      BY <2>2, <2>3, DamageDetected
    <2> QED
      BY <2>1, <2>4 DEF WindowInv, WindowTypeOK, ValidIffIntact
  <1>3. CASE CallStats
    <2>1. /\ turn = "log" /\ turn' = "stats"
          /\ UNCHANGED <<seq, window, sent, valid>>
      BY <1>3 DEF CallStats
    <2> QED
      BY <2>1 DEF WindowInv, WindowTypeOK, ValidIffIntact
  <1>4. CASE Log
    <2>1. /\ turn = "stats" /\ turn' = "make" /\ valid' = Validated(window)
          /\ seq' = NextSequence(seq) /\ UNCHANGED <<window, sent>>
      BY <1>4 DEF Log
    <2>2. seq' \in Bytes
      <3>1. seq + 1 \in Nat /\ Byte \in Nat \ {0}
        BY WidthsAre DEF WindowInv, WindowTypeOK, Bytes
      <3>2. (seq + 1) % Byte \in 0 .. Byte - 1
        BY <3>1
      <3> QED
        BY <2>1, <3>2 DEF NextSequence, Bytes
    <2> QED
      BY <2>1, <2>2, VerdictType DEF WindowInv, WindowTypeOK, ValidIffIntact
  <1>5. CASE UNCHANGED loopVars
    BY <1>5 DEF loopVars, WindowInv, WindowTypeOK, ValidIffIntact
  <1> QED
    BY <1>1, <1>2, <1>3, <1>4, <1>5 DEF LoopNext, RunStats

LEMMA WindowHolds == LoopSpec => []WindowInv
  BY WindowInit, WindowStep, PTL DEF LoopSpec


-----------------------------------------------------------------------------
(* The theorems about the statistics.                                      *)

\* Type correctness: in particular op never becomes negative, which in the
\* program would wrap around.
THEOREM StatsTypeCorrect == StatsSpec => []StatsTypeOK
<1>1. StatsInv => StatsTypeOK
  BY DEF StatsInv
<1> QED  BY <1>1, StatsInvariant, PTL

\* The RMS is the integer square root of the mean square.
THEOREM StatsRootExact == StatsSpec => []RootExact
<1>1. StatsInv => RootExact
  BY DEF StatsInv
<1> QED  BY <1>1, StatsInvariant, PTL

\* The logged statistics agree.
THEOREM StatisticsAgree == StatsSpec => []StatsAgree
  BY StatsInvariant, StatsInvAgrees, PTL

-----------------------------------------------------------------------------
(* The theorems about the loop.                                            *)

\* A window is logged as valid exactly if it arrived as it was made, for every
\* width of a byte, every rotation of the sum, every length of a window and
\* every wave (thinpod_checksum32, thinpod_validate_vibration_window).
THEOREM DamageIsNoticed == LoopSpec => []ValidIffIntact
<1>1. WindowInv => ValidIffIntact
  BY DEF WindowInv
<1> QED
  BY <1>1, WindowHolds, PTL

\* The loop runs the statistics as WindowStats has them, so that their
\* properties hold of every logged window (log_gateway_packet).
THEOREM LoopKeepsStats == LoopSpec => [](StatsTypeOK /\ RootExact /\ StatsAgree)
<1>1. LoopInit => StatsInv
  BY StatsInitially DEF LoopInit
<1>2. ASSUME WindowInv, StatsInv, [LoopNext]_<<loopVars, statsVars>>
      PROVE  StatsInv'
  <2>1. CASE UNCHANGED statsVars
    BY <1>2, <2>1, StatsStep
  <2>2. CASE CallStats
    <3>1. \A k \in 1 .. N : Signed(window.accel[k]) \in Samples
      BY <1>2, WindowAssumption DEF WindowInv, WindowTypeOK, Windows
    <3>2. StatsInit'
      BY <2>2, <3>1 DEF CallStats, StatsInit
    <3>3. StatsInit' => StatsInv'
      BY StatsInitially, PTL
    <3> QED
      BY <3>2, <3>3
  <2>3. CASE RunStats
    BY <1>2, <2>3, StatsStep DEF RunStats
  <2> QED
    BY <1>2, <2>1, <2>2, <2>3 DEF LoopNext, Make, Travel, Log
<1>3. StatsInv => StatsTypeOK /\ RootExact /\ StatsAgree
  BY StatsInvAgrees DEF StatsInv
<1> QED
  BY <1>1, <1>2, <1>3, WindowHolds, PTL DEF LoopSpec

\* The variables of the statistics and of the loop around them keep their
\* types: no unsigned variable of the root goes below zero, and the sequence
\* wraps within its width (thinpod_window_stats, main).
THEOREM LoopTypeCorrect == LoopSpec => []LoopTypeOK
<1>1. WindowInv => WindowTypeOK
  BY DEF WindowInv
<1>2. StatsTypeOK /\ WindowTypeOK => LoopTypeOK
  BY DEF LoopTypeOK
<1> QED
  BY <1>1, <1>2, WindowHolds, LoopKeepsStats, PTL
=============================================================================

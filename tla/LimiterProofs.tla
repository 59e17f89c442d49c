---------------------------- MODULE LimiterProofs ----------------------------
(****************************************************************************)
(* The limiter's arithmetic is exact and one bucket keeps its promise       *)
(* (SingleBucket), and the state machine of internal/limiter keeps its      *)
(* tables consistent whatever commands are committed, in whatever order and *)
(* with whatever timestamps (Limiter): theorems for any policies, clients,  *)
(* commands, scale and word size.                                           *)
(****************************************************************************)
EXTENDS Limiter, SingleBucket, FiniteSetTheorems, TLAPS

---------------------------------------------------------------------------
(* Arithmetic                                                               *)

\* Products of naturals are naturals, and grow with their factors.
LEMMA Products ==
    ASSUME NEW a \in Nat, NEW b \in Nat
    PROVE  /\ a * b \in Nat /\ a * b = b * a
           /\ \A c \in Nat : c <= a => c * b <= a * b
           /\ a # 0 /\ b # 0 => a * b >= a /\ a * b >= b
<1>1. a * b \in Nat /\ a * b = b * a
  OBVIOUS
<1>2. ASSUME NEW c \in Nat, c <= a PROVE c * b <= a * b
  <2>1. (a - c) * b \in Nat
    BY <1>2
  <2>2. (a - c) * b = a * b - c * b
    OBVIOUS
  <2> QED
    BY <2>1, <2>2, <1>1
<1>3. a # 0 /\ b # 0 => a * b >= a /\ a * b >= b
  OBVIOUS
<1> QED
  BY Zenon, <1>1, <1>2, <1>3

\* Division with remainder, by what it computes.
LEMMA Division ==
    ASSUME NEW x \in Nat, NEW d \in Nat \ {0}
    PROVE  /\ x \div d \in Nat /\ x % d \in 0..(d - 1)
           /\ x = (x \div d) * d + (x % d)
           /\ x \div d <= x
<1>1. x \div d \in Nat /\ x % d \in 0..(d - 1) /\ x = (x \div d) * d + (x % d)
  OBVIOUS
<1>2. x \div d <= x
  BY <1>1, Products
<1> QED
  BY Zenon, <1>1, <1>2

\* The quotient and remainder are the only such pair.
LEMMA DivisionUnique ==
    ASSUME NEW q \in Nat, NEW r \in Nat, NEW d \in Nat \ {0}, r < d
    PROVE  (q * d + r) \div d = q /\ (q * d + r) % d = r
OBVIOUS

\* Wrapped values are values of the word.
LEMMA WrapRange ==
    ASSUME NEW x \in Int
    PROVE  /\ wrap(x) \in Int /\ wrap(x) <= MaxInt
           /\ -(MaxInt + 1) <= x /\ x <= MaxInt => wrap(x) = x
           /\ MaxInt < x => wrap(x) <= x - 2 * (MaxInt + 1)
<1>1. MaxInt \in Nat \ {0}
  BY Zenon, ArithmeticAssumption
<1> QED
  BY <1>1 DEF wrap

\* checkedMul tells an overflow exactly: dividing the wrapped product gives the factor
\* back only when nothing was lost.
LEMMA CheckedMulExact ==
    ASSUME NEW a \in 0..MaxInt, NEW b \in 0..MaxInt
    PROVE  checkedMul(a, b) = IF a * b <= MaxInt THEN exactly(a * b) ELSE overflowed
<1>1. MaxInt \in Nat \ {0} /\ a \in Nat /\ b \in Nat /\ a * b \in Nat
  BY ArithmeticAssumption
<1>2. CASE a = 0 \/ b = 0
  BY <1>1, <1>2 DEF checkedMul
<1>3. CASE a # 0 /\ b # 0 /\ a * b <= MaxInt
  <2>1. wrap(a * b) = a * b
    BY <1>1, <1>3, WrapRange
  <2>2. (a * b + 0) \div b = a
    BY <1>1, <1>3, DivisionUnique
  <2>3. quotient(a * b, b) = a
    BY <1>1, <2>2 DEF quotient
  <2> QED
    BY Zenon, <1>3, <2>1, <2>3 DEF checkedMul
<1>4. CASE a # 0 /\ b # 0 /\ ~(a * b <= MaxInt)
  <2> DEFINE v == wrap(a * b)
  <2>1. v \in Int /\ v < a * b
    BY <1>1, <1>4, WrapRange
  <2> HIDE DEF v
  <2>2. quotient(v, b) # a
    <3>1. CASE v >= 0
      <4> DEFINE q == v \div b
                 m == v % b
      <4>2. q \in Nat /\ m \in Nat /\ v = q * b + m
        BY <1>1, <1>4, <2>1, <3>1, Division
      <4> HIDE DEF q, m
      <4>3. q # a
        BY <1>1, <2>1, <4>2
      <4> QED
        BY Zenon, <3>1, <4>3 DEF quotient, q
    <3>2. CASE ~(v >= 0)
      <4>1. (-v) \div b \in Nat
        BY <1>1, <1>4, <2>1, <3>2, Division
      <4> QED
        BY <1>1, <1>4, <3>2, <4>1 DEF quotient
    <3> QED
      BY Zenon, <3>1, <3>2
  <2> QED
    BY Zenon, <1>4, <2>2 DEF checkedMul, v
<1> QED
  BY Zenon, <1>1, <1>2, <1>3, <1>4

\* checkedAdd tells an overflow exactly.
LEMMA CheckedAddExact ==
    ASSUME NEW a \in 0..MaxInt, NEW b \in 0..MaxInt
    PROVE  checkedAdd(a, b) = IF a + b <= MaxInt THEN exactly(a + b) ELSE overflowed
<1>1. MaxInt \in Nat \ {0} /\ a \in Nat /\ b \in Nat /\ a + b \in Nat
  BY ArithmeticAssumption
<1>2. CASE a + b <= MaxInt
  <2>1. wrap(a + b) = a + b
    BY <1>1, <1>2, WrapRange
  <2> QED
    BY <1>1, <1>2, <2>1 DEF checkedAdd
<1>3. CASE ~(a + b <= MaxInt)
  <2>1. wrap(a + b) \in Int /\ wrap(a + b) <= a + b - 2 * (MaxInt + 1)
    BY <1>1, <1>3, WrapRange
  <2>2. wrap(a + b) < a
    BY <1>1, <2>1
  <2> QED
    BY Zenon, <1>3, <2>2 DEF checkedAdd
<1> QED
  BY Zenon, <1>2, <1>3

\* The numerator of computeAdded.
numerator(e, r, rem) == e * r * MilliPerToken + rem

\* computeAdded reports an overflow exactly when its numerator does not fit, and
\* divides it otherwise.
LEMMA ComputeAddedExact ==
    ASSUME NEW e \in 0..MaxInt, NEW r \in 1..MaxInt, NEW i \in Nat \ {0},
           NEW rem \in 0..MaxInt, MilliPerToken <= MaxInt
    PROVE  /\ numerator(e, r, rem) \in Nat
           /\ computeAdded(e, r, i, rem) =
                 IF numerator(e, r, rem) <= MaxInt
                 THEN [added |-> numerator(e, r, rem) \div i,
                       remainder |-> numerator(e, r, rem) % i, overflow |-> FALSE]
                 ELSE [added |-> 0, remainder |-> 0, overflow |-> TRUE]
<1> DEFINE p == e * r
           n == p * MilliPerToken
           s1 == checkedMul(e, r)
           s2 == checkedMul(s1.value, MilliPerToken)
           s3 == checkedAdd(s2.value, rem)
<1>1. /\ MaxInt \in Nat \ {0} /\ MilliPerToken \in 1..MaxInt
      /\ e \in Nat /\ r \in Nat /\ rem \in Nat
  BY ArithmeticAssumption
<1>2. p \in Nat /\ s1 = IF p <= MaxInt THEN exactly(p) ELSE overflowed
  BY <1>1, CheckedMulExact
<1> HIDE DEF p, s1
<1>3. n \in Nat /\ n >= p
  BY <1>1, <1>2, Products
<1>4. s2 = IF p <= MaxInt /\ n <= MaxInt THEN exactly(n) ELSE
           IF p <= MaxInt THEN overflowed ELSE exactly(0)
  <2>1. CASE p <= MaxInt
    <3>1. s1.value = p /\ p \in 0..MaxInt
      BY <1>2, <2>1 DEF exactly
    <3> QED
      BY <1>1, <2>1, <3>1, CheckedMulExact
  <2>2. CASE ~(p <= MaxInt)
    <3>1. s1.value = 0
      BY Zenon, <1>2, <2>2 DEF overflowed
    <3> QED
      BY Zenon, <2>2, <3>1 DEF checkedMul
  <2> QED
    BY Zenon, <2>1, <2>2
<1> HIDE DEF n, s2
<1>5. ASSUME p <= MaxInt, n <= MaxInt
      PROVE  s3 = IF n + rem <= MaxInt THEN exactly(n + rem) ELSE overflowed
  <2>1. s2.value = n /\ n \in 0..MaxInt
    BY <1>3, <1>4, <1>5 DEF exactly
  <2> QED
    BY Zenon, <2>1, CheckedAddExact
<1> HIDE DEF s3
<1>6. computeAdded(e, r, i, rem) =
         IF s1.overflow \/ s2.overflow \/ s3.overflow
         THEN [added |-> 0, remainder |-> 0, overflow |-> TRUE]
         ELSE [added |-> s3.value \div i, remainder |-> s3.value % i, overflow |-> FALSE]
  BY Zenon DEF computeAdded, s1, s2, s3
<1>7. numerator(e, r, rem) = n + rem
  BY Zenon DEF numerator, n, p
<1>8. CASE n + rem <= MaxInt
  <2>1. p <= MaxInt /\ n <= MaxInt
    BY <1>1, <1>2, <1>3, <1>8
  <2>2. s1 = exactly(p) /\ s2 = exactly(n) /\ s3 = exactly(n + rem)
    BY Zenon, <1>2, <1>4, <1>5, <1>8, <2>1
  <2>3. ~s1.overflow /\ ~s2.overflow /\ ~s3.overflow /\ s3.value = n + rem
    BY Zenon, <2>2 DEF exactly
  <2> QED
    BY <1>1, <1>3, <1>6, <1>7, <1>8, <2>3
<1>9. CASE ~(n + rem <= MaxInt)
  <2>1. s1.overflow \/ s2.overflow \/ s3.overflow
    <3>1. CASE ~(p <= MaxInt)
      BY Zenon, <1>2, <3>1 DEF overflowed
    <3>2. CASE p <= MaxInt /\ ~(n <= MaxInt)
      BY Zenon, <1>4, <3>2 DEF overflowed
    <3>3. CASE p <= MaxInt /\ n <= MaxInt
      BY <1>5, <1>9, <3>3 DEF overflowed
    <3> QED
      BY Zenon, <3>1, <3>2, <3>3
  <2> QED
    BY <1>1, <1>3, <1>6, <1>7, <1>9, <2>1
<1> QED
  BY Zenon, <1>8, <1>9

------------------------------------------------------------------------------
(* Refilling and spending                                                   *)

\* What validation.go gives for 64 bits: a numerator that overflows is more than a full
\* bucket, and none of the other intermediate results overflows.
Sound(l) ==
    /\ l.capacity \in Nat \ {0} /\ l.refill \in Nat \ {0}
    /\ l.interval \in Nat \ {0} /\ l.maxCost \in Nat \ {0}
    /\ l.maxCost <= l.capacity
    /\ l.capacity * MilliPerToken * l.interval <= MaxInt
    /\ l.capacity * MilliPerToken * l.interval + l.refill * MilliPerToken <= MaxInt + 1

\* What a full bucket weighs, and that a word holds it.
LEMMA LimitFacts ==
    ASSUME NEW l, Sound(l)
    PROVE  /\ l.capacity \in Nat \ {0} /\ l.refill \in Nat \ {0}
           /\ l.interval \in Nat \ {0} /\ l.maxCost \in Nat \ {0}
           /\ l.maxCost <= l.capacity
           /\ MilliPerToken \in 1..MaxInt /\ MaxInt \in Nat \ {0}
           /\ l.refill \in 1..MaxInt /\ l.interval \in 1..MaxInt
           /\ l.refill * MilliPerToken \in 1..MaxInt
           /\ capMilli(l) \in 1..MaxInt
           /\ capMilli(l) * l.interval \in 1..MaxInt
           /\ capMilli(l) * l.interval + l.refill * MilliPerToken <= MaxInt + 1
<1> DEFINE c == l.capacity
           r == l.refill
           i == l.interval
           m == l.maxCost
<1>1. /\ c \in Nat \ {0} /\ r \in Nat \ {0} /\ i \in Nat \ {0} /\ m \in Nat \ {0}
      /\ m <= c /\ c * MilliPerToken * i <= MaxInt
      /\ c * MilliPerToken * i + r * MilliPerToken <= MaxInt + 1
  BY Zenon DEF Sound
<1>2. MilliPerToken \in Nat \ {0} /\ MaxInt \in Nat \ {0}
  BY Zenon, ArithmeticAssumption
<1>3. capMilli(l) = c * MilliPerToken
  BY Zenon DEF capMilli
<1> DEFINE k == c * MilliPerToken
           w == k * i
           u == r * MilliPerToken
<1> HIDE DEF c, r, i, m
<1>4. k \in Nat \ {0} /\ k >= MilliPerToken
  BY <1>1, <1>2, Products
<1>5. u \in Nat \ {0} /\ u >= r
  BY <1>1, <1>2, Products
<1> HIDE DEF k, u
<1>6. w \in Nat \ {0} /\ w >= k /\ w >= i
  BY <1>1, <1>4, Products
<1>7. w <= MaxInt /\ w + u <= MaxInt + 1
  BY Zenon, <1>1 DEF w, k, u
<1> HIDE DEF w
<1>8. /\ MilliPerToken \in 1..MaxInt /\ r \in 1..MaxInt /\ i \in 1..MaxInt
      /\ u \in 1..MaxInt /\ k \in 1..MaxInt /\ w \in 1..MaxInt
  BY <1>1, <1>2, <1>4, <1>5, <1>6, <1>7
<1>9. capMilli(l) = k /\ capMilli(l) * l.interval = w /\ l.refill * MilliPerToken = u
  BY Zenon, <1>3 DEF k, w, u, r, i
<1> QED
  BY Zenon, <1>1, <1>2, <1>7, <1>8, <1>9 DEF c, r, i, m

\* Euclid on a sum: carrying whole units over from the numerator.
LEMMA Carry ==
    ASSUME NEW t \in Nat, NEW n \in Nat, NEW d \in Nat \ {0}
    PROVE  /\ (t * d + n) \div d = t + (n \div d)
           /\ (t * d + n) % d = n % d
<1> DEFINE q == n \div d
           r == n % d
<1>1. q \in Nat /\ r \in 0..(d - 1) /\ n = q * d + r
  BY Zenon, Division
<1> HIDE DEF q, r
<1>2. t * d + n = (t + q) * d + r
  BY <1>1
<1>3. ((t + q) * d + r) \div d = t + q /\ ((t + q) * d + r) % d = r
  BY <1>1, DivisionUnique
<1> QED
  BY Zenon, <1>2, <1>3 DEF q, r

\* Whole units against a multiple of the divisor.
LEMMA Reaches ==
    ASSUME NEW x \in Nat, NEW k \in Nat, NEW d \in Nat \ {0}
    PROVE  x \div d >= k <=> x >= k * d
<1> DEFINE q == x \div d
           r == x % d
<1>1. q \in Nat /\ r \in 0..(d - 1) /\ x = q * d + r
  BY Zenon, Division
<1> HIDE DEF q, r
<1>2. ASSUME q >= k PROVE x >= k * d
  <2>1. k * d <= q * d /\ q * d \in Nat /\ k * d \in Nat
    BY Zenon, <1>1, <1>2, Products
  <2> QED
    BY <1>1, <2>1
<1>3. ASSUME ~(q >= k) PROVE ~(x >= k * d)
  <2>1. (q + 1) * d <= k * d /\ (q + 1) * d = q * d + d /\ q * d \in Nat /\ k * d \in Nat
    BY <1>1, <1>3, Products
  <2> QED
    BY <1>1, <2>1
<1> QED
  BY Zenon, <1>2, <1>3 DEF q

\* The buckets a policy's decisions leave behind.
Buckets(l) == [tokens : 0..capMilli(l), remainder : 0..(l.interval - 1),
               lastRefill : 0..MaxInt]

\* A bucket's balance in fractions of a milli-token, and with what accrued by now.
weight(b, l) == b.tokens * l.interval + b.remainder
elapsed(b, now) == effective(b, now) - b.lastRefill
rate(l) == l.refill * MilliPerToken
accrued(b, l, now) == weight(b, l) + elapsed(b, now) * rate(l)
fullWeight(l) == capMilli(l) * l.interval

\* The quantities of one refill are naturals.
LEMMA RefillTypes ==
    ASSUME NEW l, Sound(l), NEW b \in Buckets(l), NEW now \in 0..MaxInt
    PROVE  /\ elapsed(b, now) \in 0..MaxInt /\ effective(b, now) \in 0..MaxInt
           /\ effective(b, now) >= now /\ effective(b, now) >= b.lastRefill
           /\ b.tokens \in 0..MaxInt /\ b.remainder \in 0..MaxInt
           /\ weight(b, l) \in Nat /\ accrued(b, l, now) \in Nat /\ rate(l) \in Nat \ {0}
           /\ fullWeight(l) \in 1..MaxInt
           /\ numerator(elapsed(b, now), l.refill, b.remainder) \in Nat
           /\ accrued(b, l, now) = b.tokens * l.interval
                   + numerator(elapsed(b, now), l.refill, b.remainder)
<1> DEFINE i == l.interval
           r == l.refill
           t == b.tokens
           m == b.remainder
           e == elapsed(b, now)
<1>1. /\ i \in 1..MaxInt /\ r \in 1..MaxInt /\ capMilli(l) \in 1..MaxInt
      /\ MilliPerToken \in 1..MaxInt /\ MaxInt \in Nat /\ fullWeight(l) \in 1..MaxInt
      /\ rate(l) \in 1..MaxInt
  BY Zenon, LimitFacts DEF fullWeight, rate
<1>2. b.lastRefill \in 0..MaxInt /\ t \in 0..capMilli(l) /\ m \in 0..(i - 1)
  BY Zenon DEF Buckets
<1>3. /\ effective(b, now) \in 0..MaxInt /\ effective(b, now) >= now
      /\ effective(b, now) >= b.lastRefill
  BY <1>1, <1>2 DEF effective
<1>4. e \in 0..MaxInt
  BY <1>1, <1>2, <1>3 DEF elapsed
<1>5. weight(b, l) = t * i + m
  BY Zenon DEF weight
<1>6. accrued(b, l, now) = weight(b, l) + e * rate(l)
  BY Zenon DEF accrued
<1>7. numerator(e, r, m) = e * r * MilliPerToken + m
  BY Zenon DEF numerator
<1>8. rate(l) = r * MilliPerToken
  BY Zenon DEF rate
<1> HIDE DEF i, r, t, m, e
<1>9. t \in 0..MaxInt /\ m \in 0..MaxInt
  BY <1>1, <1>2
<1>10. e * r * MilliPerToken = e * rate(l) /\ e * rate(l) \in Nat
  BY <1>1, <1>4, <1>8
<1>11. t * i \in Nat
  BY <1>1, <1>9
<1>12. weight(b, l) \in Nat /\ accrued(b, l, now) \in Nat /\ numerator(e, r, m) \in Nat
  BY <1>5, <1>6, <1>7, <1>9, <1>10, <1>11
<1>13. accrued(b, l, now) = t * i + numerator(e, r, m)
  BY <1>5, <1>6, <1>7, <1>9, <1>10, <1>11
<1> QED
  BY <1>1, <1>3, <1>4, <1>9, <1>12, <1>13 DEF t, i, r, m, e

\* The same for a reader who only needs natural numbers.
LEMMA RefillNats ==
    ASSUME NEW l, Sound(l), NEW b \in Buckets(l), NEW now \in 0..MaxInt
    PROVE  /\ accrued(b, l, now) \in Nat /\ fullWeight(l) \in Nat
           /\ elapsed(b, now) \in Nat /\ rate(l) \in Nat
           /\ l.interval \in Nat /\ capMilli(l) \in Nat
<1>1. accrued(b, l, now) \in Nat /\ fullWeight(l) \in 1..MaxInt /\ elapsed(b, now) \in 0..MaxInt
      /\ rate(l) \in Nat \ {0}
  BY Zenon, RefillTypes
<1>2. l.interval \in Nat /\ capMilli(l) \in Nat
  BY SMTT(30), LimitFacts
<1> QED
  BY SMTT(30), <1>1, <1>2, LimitFacts

\* A refill in unbounded arithmetic.
ideal(b, l, now) ==
    [tokens |-> IF accrued(b, l, now) >= fullWeight(l) THEN capMilli(l)
                ELSE accrued(b, l, now) \div l.interval,
     remainder |-> IF accrued(b, l, now) >= fullWeight(l) THEN 0
                   ELSE accrued(b, l, now) % l.interval,
     lastRefill |-> effective(b, now)]

\* The checked arithmetic of refillBucket computes the ideal refill.
LEMMA RefillIdeal ==
    ASSUME NEW l, Sound(l), NEW b \in Buckets(l), NEW now \in 0..MaxInt
    PROVE  refillBucket(b, l, now) = ideal(b, l, now)
<1> DEFINE i == l.interval
           r == l.refill
           t == b.tokens
           m == b.remainder
           e == elapsed(b, now)
           cap == capMilli(l)
           n == numerator(e, r, m)
           a == accrued(b, l, now)
           inc == computeAdded(e, r, i, m)
           sum == checkedAdd(t, inc.added)
           f == effective(b, now)
<1>1. /\ i \in Nat \ {0} /\ r \in 1..MaxInt /\ cap \in 1..MaxInt
      /\ MilliPerToken \in 1..MaxInt /\ MaxInt \in Nat
  BY Zenon, LimitFacts
<1>2. /\ e \in 0..MaxInt /\ t \in 0..MaxInt /\ m \in 0..MaxInt /\ n \in Nat
      /\ a \in Nat /\ a = t * i + n /\ fullWeight(l) \in 1..MaxInt
  BY Zenon, RefillTypes
<1>3. fullWeight(l) = cap * i
  BY Zenon DEF fullWeight
<1>4. refillBucket(b, l, now) =
         IF inc.overflow \/ sum.overflow \/ sum.value >= cap
         THEN [tokens |-> cap, remainder |-> 0, lastRefill |-> f]
         ELSE [tokens |-> sum.value, remainder |-> inc.remainder, lastRefill |-> f]
  BY Zenon DEF refillBucket, elapsed
<1>5. ideal(b, l, now) =
         IF a >= fullWeight(l)
         THEN [tokens |-> cap, remainder |-> 0, lastRefill |-> f]
         ELSE [tokens |-> a \div i, remainder |-> a % i, lastRefill |-> f]
  BY Zenon DEF ideal
<1>6. inc = IF n <= MaxInt
            THEN [added |-> n \div i, remainder |-> n % i, overflow |-> FALSE]
            ELSE [added |-> 0, remainder |-> 0, overflow |-> TRUE]
  <2>1. MilliPerToken <= MaxInt
    BY <1>1
  <2> HIDE DEF i, r, t, m, e
  <2> QED
    BY Zenon, <1>1, <1>2, <2>1, ComputeAddedExact
<1> HIDE DEF i, r, t, m, e, cap, n, a, inc, f
<1>7. CASE ~(n <= MaxInt)
  <2>1. t * i \in Nat
    BY <1>1, <1>2
  <2>2. a >= fullWeight(l)
    BY <1>1, <1>2, <1>7, <2>1
  <2> QED
    BY Zenon, <1>4, <1>5, <1>6, <1>7, <2>2
<1>8. CASE n <= MaxInt
  <2> DEFINE q == n \div i
  <2>1. q \in Nat /\ q <= n
    BY Zenon, <1>1, <1>2, Division
  <2>2. a \div i = t + q /\ a % i = n % i
    <3>1. t \in Nat
      BY <1>2
    <3>2. (t * i + n) \div i = t + (n \div i) /\ (t * i + n) % i = n % i
      BY Zenon, <1>1, <1>2, <3>1, Carry
    <3> QED
      BY Zenon, <1>2, <3>2
  <2>3. a \div i >= cap <=> a >= fullWeight(l)
    BY <1>1, <1>2, <1>3, Reaches
  <2>4. inc.added = q /\ inc.remainder = n % i /\ ~inc.overflow
    BY Zenon, <1>6, <1>8
  <2> HIDE DEF q
  <2>5. sum = IF t + q <= MaxInt THEN exactly(t + q) ELSE overflowed
    <3>1. q \in 0..MaxInt
      BY <1>1, <1>2, <1>8, <2>1
    <3> QED
      BY Zenon, <1>2, <2>4, <3>1, CheckedAddExact
  <2> HIDE DEF sum
  <2>6. CASE t + q <= MaxInt
    <3>1. sum.value = t + q /\ ~sum.overflow
      BY Zenon, <2>5, <2>6 DEF exactly
    <3> QED
      BY <1>4, <1>5, <2>2, <2>3, <2>4, <3>1
  <2>7. CASE ~(t + q <= MaxInt)
    <3>1. sum.overflow
      BY Zenon, <2>5, <2>7 DEF overflowed
    <3>2. a >= fullWeight(l)
      BY <1>1, <1>2, <2>1, <2>2, <2>3, <2>7
    <3> QED
      BY Zenon, <1>4, <1>5, <3>1, <3>2
  <2> QED
    BY Zenon, <2>6, <2>7
<1> QED
  BY Zenon, <1>7, <1>8

\* A refill leaves a bucket in range and gives no more than accrued; short of a full
\* bucket it gives exactly that.
LEMMA IdealFacts ==
    ASSUME NEW l, Sound(l), NEW b \in Buckets(l), NEW now \in 0..MaxInt
    PROVE  /\ ideal(b, l, now) \in Buckets(l)
           /\ ideal(b, l, now).lastRefill = effective(b, now)
           /\ weight(ideal(b, l, now), l) =
                 IF accrued(b, l, now) >= fullWeight(l) THEN fullWeight(l) ELSE accrued(b, l, now)
<1> DEFINE i == l.interval
           cap == capMilli(l)
           a == accrued(b, l, now)
           f == effective(b, now)
           x == ideal(b, l, now)
<1>1. i \in Nat \ {0} /\ cap \in 1..MaxInt /\ MaxInt \in Nat
  BY Zenon, LimitFacts
<1>2. a \in Nat /\ fullWeight(l) \in 1..MaxInt /\ f \in 0..MaxInt
  BY Zenon, RefillTypes
<1>3. fullWeight(l) = cap * i
  BY Zenon DEF fullWeight
<1>4. x = [tokens |-> IF a >= fullWeight(l) THEN cap ELSE a \div i,
           remainder |-> IF a >= fullWeight(l) THEN 0 ELSE a % i, lastRefill |-> f]
  BY Zenon DEF ideal
<1>5. weight(x, l) = x.tokens * i + x.remainder
  BY Zenon DEF weight
<1>6. SUFFICES x \in Buckets(l) /\ x.lastRefill = f
               /\ weight(x, l) = IF a >= fullWeight(l) THEN fullWeight(l) ELSE a
  BY Zenon
<1>7. Buckets(l) = [tokens : 0..cap, remainder : 0..(i - 1), lastRefill : 0..MaxInt]
  BY Zenon DEF Buckets
<1> HIDE DEF i, cap, a, f, x
<1>8. CASE a >= fullWeight(l)
  <2>1. x = [tokens |-> cap, remainder |-> 0, lastRefill |-> f]
    BY Zenon, <1>4, <1>8
  <2>2. x.tokens = cap /\ x.remainder = 0 /\ x.lastRefill = f
    BY Zenon, <2>1
  <2>3. x \in Buckets(l)
    BY <1>1, <1>2, <1>7, <2>1
  <2>4. weight(x, l) = fullWeight(l)
    BY <1>1, <1>2, <1>3, <1>5, <2>2
  <2> QED
    BY Zenon, <1>8, <2>2, <2>3, <2>4
<1>9. CASE ~(a >= fullWeight(l))
  <2> DEFINE q == a \div i
             m == a % i
  <2>1. q \in Nat /\ m \in 0..(i - 1) /\ a = q * i + m
    BY Zenon, <1>1, <1>2, Division
  <2>2. ~(q >= cap)
    BY <1>1, <1>2, <1>3, <1>9, Reaches
  <2>3. x = [tokens |-> q, remainder |-> m, lastRefill |-> f]
    BY Zenon, <1>4, <1>9
  <2> HIDE DEF q, m
  <2>4. x.tokens = q /\ x.remainder = m /\ x.lastRefill = f
    BY Zenon, <2>3
  <2>5. q \in 0..cap
    BY <1>1, <2>1, <2>2
  <2>6. x \in Buckets(l)
    BY Zenon, <1>2, <1>7, <2>1, <2>3, <2>5
  <2>7. weight(x, l) = a
    BY Zenon, <1>5, <2>1, <2>4
  <2> QED
    BY Zenon, <1>9, <2>4, <2>6, <2>7
<1> QED
  BY Zenon, <1>8, <1>9

\* Spending moves milli-tokens from the bucket to the caller and nothing else.
LEMMA SpendFacts ==
    ASSUME NEW l, Sound(l), NEW b \in Buckets(l),
           NEW cost \in 1..l.maxCost
    PROVE  LET s == spend(b, cost, l)
           IN  /\ s.bucket \in Buckets(l)
               /\ s.bucket.lastRefill = b.lastRefill
               /\ s.bucket.remainder = b.remainder
               /\ charge(s, cost) \in Nat
               /\ charge(s, cost) + s.bucket.tokens = b.tokens
<1> DEFINE s == spend(b, cost, l)
           c == cost * MilliPerToken
<1>1. cost \in Nat /\ MilliPerToken \in Nat /\ capMilli(l) \in Nat
  BY LimitFacts
<1>2. c \in Nat
  BY <1>1
<1>3. b.tokens \in 0..capMilli(l) /\ b = [tokens |-> b.tokens, remainder |-> b.remainder, lastRefill |-> b.lastRefill]
      /\ b.remainder \in 0..(l.interval - 1) /\ b.lastRefill \in 0..MaxInt
  BY Zenon DEF Buckets
<1>4. charge(s, cost) = IF s.allowed THEN c ELSE 0
  BY Zenon DEF charge
<1>5. CASE b.tokens >= c
  <2>1. s.bucket = [b EXCEPT !.tokens = @ - c] /\ s.allowed
    BY Zenon, <1>5 DEF spend
  <2> HIDE DEF s, c
  <2>2. s.bucket = [tokens |-> b.tokens - c, remainder |-> b.remainder, lastRefill |-> b.lastRefill]
    BY Zenon, <1>3, <2>1
  <2>3. b.tokens - c \in 0..capMilli(l)
    BY <1>1, <1>2, <1>3, <1>5
  <2>4. s.bucket \in Buckets(l)
    BY <1>3, <2>2, <2>3 DEF Buckets
  <2>5. s.bucket.tokens = b.tokens - c
    BY <2>2
  <2>6. charge(s, cost) + s.bucket.tokens = b.tokens
    BY <1>1, <1>2, <1>3, <1>4, <2>1, <2>5
  <2> QED
    BY Zenon, <1>2, <1>4, <2>1, <2>2, <2>4, <2>6 DEF s
<1>6. CASE ~(b.tokens >= c)
  <2>1. s.bucket = b /\ ~s.allowed
    BY Zenon, <1>6 DEF spend
  <2> HIDE DEF s, c
  <2>2. charge(s, cost) = 0
    BY Zenon, <1>4, <2>1
  <2> QED
    BY <1>1, <1>3, <2>1, <2>2 DEF s
<1> QED
  BY Zenon, <1>5, <1>6

\* One decision, in full: what it grants and leaves behind weighs no more than the old
\* balance and what accrued.
LEMMA DecidedFacts ==
    ASSUME NEW l, Sound(l), NEW b \in Buckets(l), NEW now \in 0..MaxInt,
           NEW cost \in 1..l.maxCost
    PROVE  LET s == spend(refillBucket(b, l, now), cost, l)
           IN  /\ s.bucket \in Buckets(l)
               /\ s.bucket.lastRefill = effective(b, now)
               /\ charge(s, cost) \in Nat
               /\ charge(s, cost) * l.interval + weight(s.bucket, l)
                     <= accrued(b, l, now)
               /\ charge(s, cost) * l.interval + weight(s.bucket, l)
                     <= fullWeight(l)
<1> DEFINE s == spend(refillBucket(b, l, now), cost, l)
           x == ideal(b, l, now)
           i == l.interval
           g == charge(s, cost)
<1>1. s = spend(x, cost, l)
  BY Zenon, RefillIdeal
<1>2. /\ x \in Buckets(l) /\ x.lastRefill = effective(b, now)
      /\ weight(x, l) = IF accrued(b, l, now) >= fullWeight(l) THEN fullWeight(l) ELSE accrued(b, l, now)
  BY Zenon, IdealFacts
<1>3. i \in Nat /\ accrued(b, l, now) \in Nat /\ fullWeight(l) \in Nat
  BY LimitFacts, RefillTypes
<1> HIDE DEF x
<1>4. /\ s.bucket \in Buckets(l) /\ s.bucket.lastRefill = x.lastRefill
      /\ s.bucket.remainder = x.remainder /\ g \in Nat
      /\ g + s.bucket.tokens = x.tokens
  BY <1>1, <1>2, SpendFacts
<1> HIDE DEF s, g
<1>5. /\ s.bucket.tokens \in Int /\ x.tokens \in Int /\ x.remainder \in Int
  BY <1>2, <1>4 DEF Buckets
<1>6. /\ weight(s.bucket, l) = s.bucket.tokens * i + s.bucket.remainder
      /\ weight(x, l) = x.tokens * i + x.remainder
  BY Zenon DEF weight
<1> DEFINE u == s.bucket.tokens
<1>7. u \in Int /\ x.tokens = g + u /\ weight(s.bucket, l) = u * i + x.remainder
  BY Zenon, <1>4, <1>5, <1>6
<1> HIDE DEF i, u
<1>8. g * i + weight(s.bucket, l) = (g + u) * i + x.remainder
  <2>1. g * i + (u * i + x.remainder) = (g + u) * i + x.remainder
    BY <1>3, <1>4, <1>5, <1>7
  <2> QED
    BY Zenon, <1>7, <2>1
<1>9. g * i + weight(s.bucket, l) = weight(x, l)
  BY Zenon, <1>6, <1>7, <1>8
<1>10. weight(x, l) <= accrued(b, l, now) /\ weight(x, l) <= fullWeight(l)
  BY <1>2, <1>3
<1> QED
  BY Zenon, <1>2, <1>4, <1>9, <1>10 DEF s, g, i

\* Refilling twice gives what refilling once at the later time gives.
LEMMA IdealComposes ==
    ASSUME NEW l, Sound(l), NEW b \in Buckets(l), NEW now \in 0..MaxInt,
           NEW later \in 0..MaxInt, now <= later
    PROVE  ideal(ideal(b, l, now), l, later) = ideal(b, l, later)
<1> DEFINE x == ideal(b, l, now)
           f == effective(b, now)
           h == effective(b, later)
           L == b.lastRefill
           w == weight(b, l)
           a == accrued(b, l, now)
           c == accrued(b, l, later)
           d == accrued(x, l, later)
<1>1. /\ x \in Buckets(l) /\ x.lastRefill = f
      /\ weight(x, l) = IF a >= fullWeight(l) THEN fullWeight(l) ELSE a
  BY Zenon, IdealFacts
<1>2. /\ f \in Nat /\ h \in Nat /\ f >= L /\ h >= L /\ w \in Nat /\ rate(l) \in Nat
      /\ a \in Nat /\ c \in Nat /\ fullWeight(l) \in Nat /\ L \in Nat
  <2>1. L \in Nat
    BY DEF Buckets
  <2> QED
    BY <2>1, RefillTypes
<1>3. f <= h /\ effective(x, later) = h
  <2> HIDE DEF x
  <2> QED
    BY <1>1, <1>2 DEF effective
<1>4. a = w + (f - L) * rate(l) /\ c = w + (h - L) * rate(l) /\ d = weight(x, l) + (h - f) * rate(l)
  <2> HIDE DEF x
  <2> QED
    BY Zenon, <1>1, <1>3 DEF accrued, elapsed
<1>5. ideal(b, l, later) =
         IF c >= fullWeight(l)
         THEN [tokens |-> capMilli(l), remainder |-> 0, lastRefill |-> h]
         ELSE [tokens |-> c \div l.interval, remainder |-> c % l.interval,
               lastRefill |-> h]
  BY Zenon DEF ideal
<1>6. ideal(x, l, later) =
         IF d >= fullWeight(l)
         THEN [tokens |-> capMilli(l), remainder |-> 0, lastRefill |-> h]
         ELSE [tokens |-> d \div l.interval, remainder |-> d % l.interval,
               lastRefill |-> h]
  <2> HIDE DEF x
  <2>1. accrued(x, l, later) = d
    BY Zenon DEF d
  <2> HIDE DEF d, h
  <2> QED
    BY Zenon, <1>1, <1>3, <2>1 DEF ideal
<1>7. weight(x, l) \in Nat
  BY Zenon, <1>1, <1>2
<1> DEFINE y == weight(x, l)
<1> SUFFICES ideal(x, l, later) = ideal(b, l, later)
  BY Zenon
<1>8. y \in Nat /\ y = (IF a >= fullWeight(l) THEN fullWeight(l) ELSE a) /\ d = y + (h - f) * rate(l)
  BY Zenon, <1>1, <1>4, <1>7
<1> HIDE DEF x, f, h, L, w, a, c, d, y
<1>9. /\ (h - f) * rate(l) \in Nat /\ c = a + (h - f) * rate(l)
  <2>1. (h - L) * rate(l) = (f - L) * rate(l) + (h - f) * rate(l)
    BY <1>2
  <2>2. (h - f) * rate(l) \in Nat /\ (f - L) * rate(l) \in Nat
    BY <1>2, <1>3
  <2> QED
    BY <1>2, <1>4, <2>1, <2>2
<1>10. CASE a >= fullWeight(l)
  <2>1. d >= fullWeight(l) /\ c >= fullWeight(l)
    BY SMTT(30), <1>2, <1>8, <1>9, <1>10
  <2> QED
    BY Zenon, <1>5, <1>6, <2>1
<1>11. CASE ~(a >= fullWeight(l))
  <2>1. d = c
    BY Zenon, <1>8, <1>9, <1>11
  <2> QED
    BY <1>5, <1>6, <2>1
<1> QED
  BY Zenon, <1>10, <1>11

\* retryAfter rounds up: the wait it names earns at least what is missing.
LEMMA WaitSuffices ==
    ASSUME NEW l, Sound(l), NEW needed \in 1..capMilli(l)
    PROVE  /\ retryAfter(needed, l) \in Nat
           /\ retryAfter(needed, l) * rate(l) >= needed * l.interval
<1> DEFINE i == l.interval
           cap == capMilli(l)
           p == needed * i
           num == checkedMul(needed, i)
           x == p + rate(l) - 1
           q == x \div rate(l)
           m == x % rate(l)
<1>1. /\ i \in 1..MaxInt /\ cap \in 1..MaxInt /\ MaxInt \in Nat
      /\ rate(l) \in 1..MaxInt /\ cap * i \in 1..MaxInt /\ cap * i + rate(l) <= MaxInt + 1
  BY Zenon, LimitFacts DEF rate
<1>2. retryAfter(needed, l) =
         IF num.overflow THEN i
         ELSE IF quotient(wrap(num.value + rate(l) - 1), rate(l)) <= 0 THEN 1
         ELSE quotient(wrap(num.value + rate(l) - 1), rate(l))
  BY Zenon DEF retryAfter, rate
<1> HIDE DEF i, cap
<1>3. p \in Nat \ {0} /\ p <= cap * i
  <2>1. needed \in Nat \ {0} /\ cap \in Nat /\ i \in Nat \ {0} /\ needed <= cap
    BY <1>1 DEF cap
  <2> QED
    BY <2>1, Products
<1>4. num = exactly(p)
  <2>1. needed \in 0..MaxInt /\ i \in 0..MaxInt
    BY <1>1 DEF cap
  <2>2. p <= MaxInt
    BY <1>1, <1>3
  <2> QED
    BY Zenon, <2>1, <2>2, CheckedMulExact
<1>5. num.value = p /\ ~num.overflow
  BY <1>4 DEF exactly
<1> HIDE DEF p, num
<1>6. x \in Nat /\ x >= rate(l) /\ x <= MaxInt
  BY <1>1, <1>3
<1>7. wrap(x) = x
  <2> HIDE DEF x
  <2>1. x \in Int /\ -(MaxInt + 1) <= x
    BY <1>1, <1>6
  <2> QED
    BY Zenon, <1>6, <2>1, WrapRange
<1>8. q \in Nat /\ m \in 0..(rate(l) - 1) /\ x = q * rate(l) + m
  <2> HIDE DEF x
  <2>1. rate(l) \in Nat \ {0}
    BY <1>1
  <2> QED
    BY Zenon, <1>6, <2>1, Division
<1>9. quotient(wrap(num.value + rate(l) - 1), rate(l)) = q
  BY SMTT(30), <1>5, <1>6, <1>7 DEF quotient
<1> HIDE DEF q, m
<1>10. q # 0
  BY SMTT(30), <1>1, <1>6, <1>8
<1>11. retryAfter(needed, l) = q
  BY SMTT(30), <1>2, <1>5, <1>8, <1>9, <1>10
<1>12. q * rate(l) \in Nat
  BY SMTT(30), <1>1, <1>8
<1>13. q * rate(l) >= p
  BY <1>1, <1>3, <1>8, <1>12
<1> QED
  BY Zenon, <1>8, <1>11, <1>13 DEF p, i

------------------------------------------------------------------------------
(* One bucket                                                               *)

\* The limits of SingleBucket are such limits.
LEMMA LimitsSound ==
    ASSUME limits \in Limits
    PROVE  Sound(limits)
BY Zenon, LimitsAssumption DEF Sound

\* The refill SingleBucket compares with is the ideal one.
LEMMA IdealForm ==
    ASSUME limits \in Limits, NEW b \in Buckets(limits), NEW now \in 0..MaxInt
    PROVE  idealRefill(b, now) = ideal(b, limits, now)
<1>1. b.tokens * limits.interval + b.remainder
         + (effective(b, now) - b.lastRefill) * limits.refill * MilliPerToken
        = accrued(b, limits, now)
  <2>1. elapsed(b, now) \in Nat /\ limits.refill \in Nat /\ MilliPerToken \in Nat
    BY LimitsSound, RefillTypes, LimitFacts
  <2>2. elapsed(b, now) * limits.refill * MilliPerToken = elapsed(b, now) * rate(limits)
    BY <2>1 DEF rate
  <2> QED
    BY Zenon, <2>2 DEF accrued, weight, elapsed
<1> QED
  BY Zenon, <1>1 DEF idealRefill, ideal, fullWeight

\* The bucket's reachable states.
BucketTyped ==
    /\ limits \in Limits
    /\ bucket \in Buckets(limits)
    /\ created \in 0..MaxTime
    /\ granted \in Nat

BucketInv == BucketTyped /\ GrantsBounded

\* GrantsBounded in terms of the balance.
BalanceBounded ==
    granted * limits.interval + weight(bucket, limits)
        <= fullWeight(limits) + (bucket.lastRefill - created) * rate(limits)

\* The bound on what one bucket grants, restated over the exact weights that the
\* induction counts in.
LEMMA BoundForm == BucketTyped => (GrantsBounded <=> BalanceBounded)
<1> SUFFICES ASSUME BucketTyped PROVE GrantsBounded <=> BalanceBounded
  BY Zenon
<1> USE DEF BucketTyped
<1> DEFINE i == limits.interval
           t == bucket.tokens
           m == bucket.remainder
           d == bucket.lastRefill - created
           r == limits.refill
<1>1. i \in Nat /\ r \in Nat /\ MilliPerToken \in Nat
  BY LimitsSound, LimitFacts
<1>2. t \in Int /\ m \in Int /\ d \in Int
  <2>1. MaxTime \in Int /\ MaxInt \in Int
    BY LimitsAssumption, ArithmeticAssumption
  <2> QED
    BY <2>1 DEF Buckets
<1>3. GrantsBounded <=> (granted + t) * i + m <= fullWeight(limits) + d * r * MilliPerToken
  BY Zenon DEF GrantsBounded, fullWeight
<1>4. weight(bucket, limits) = t * i + m /\ rate(limits) = r * MilliPerToken
  BY Zenon DEF weight, rate
<1> HIDE DEF i, t, m, d, r
<1>5. (granted + t) * i + m = granted * i + (t * i + m)
  BY SMTT(30), <1>1, <1>2
<1>6. d * r * MilliPerToken = d * (r * MilliPerToken)
  BY <1>1, <1>2
<1> QED
  BY Zenon, <1>3, <1>4, <1>5, <1>6 DEF i, d, BalanceBounded

\* A bucket made by initialBucket is full and has granted nothing.
LEMMA BucketInvInit == BucketInit => BucketInv
<1> SUFFICES ASSUME BucketInit PROVE BucketInv
  BY Zenon
<1>1. limits \in Limits
  BY Zenon DEF BucketInit
<1>2. PICK now \in 0..MaxTime, cost \in 1..limits.maxCost :
         LET s == decided(initBucket(limits, now), cost, now)
         IN  bucket = s.bucket /\ created = now /\ granted = charge(s, cost)
  BY Zenon DEF BucketInit
<1> DEFINE b == initBucket(limits, now)
           s == decided(b, cost, now)
<1>3. MaxTime \in 0..MaxInt /\ MaxInt \in Nat /\ now \in 0..MaxInt /\ now \in Int
  BY LimitsAssumption, ArithmeticAssumption
<1>4. capMilli(limits) \in Nat /\ limits.interval \in Nat \ {0} /\ fullWeight(limits) \in Nat /\ rate(limits) \in Nat
  BY <1>1, LimitsSound, LimitFacts DEF fullWeight, rate
<1>5. b = [tokens |-> capMilli(limits), remainder |-> 0, lastRefill |-> now]
  BY Zenon DEF initBucket
<1>6. b \in Buckets(limits)
  BY <1>3, <1>4, <1>5 DEF Buckets
<1>7. weight(b, limits) = fullWeight(limits)
  BY <1>4, <1>5 DEF weight, fullWeight
<1>8. effective(b, now) = now
  BY <1>3, <1>5 DEF effective
<1>9. /\ s.bucket \in Buckets(limits) /\ s.bucket.lastRefill = now
      /\ charge(s, cost) \in Nat
      /\ charge(s, cost) * limits.interval + weight(s.bucket, limits) <= fullWeight(limits)
  <2> HIDE DEF b
  <2> QED
    BY Zenon, <1>1, <1>3, <1>6, <1>8, LimitsSound, DecidedFacts DEF decided
<1>10. bucket = s.bucket /\ created = now /\ granted = charge(s, cost)
  BY Zenon, <1>2
<1> HIDE DEF s
<1>11. granted * limits.interval + weight(bucket, limits)
         <= fullWeight(limits) + (bucket.lastRefill - created) * rate(limits)
  <2>1. bucket.lastRefill - created = 0
    BY <1>3, <1>9, <1>10
  <2>2. 0 * rate(limits) = 0 /\ fullWeight(limits) + 0 = fullWeight(limits)
    BY <1>4
  <2> QED
    BY Zenon, <1>9, <1>10, <2>1, <2>2
<1>12. bucket \in Buckets(limits) /\ granted \in Nat /\ created \in 0..MaxTime
  BY Zenon, <1>9, <1>10
<1> QED
  BY Zenon, <1>1, <1>11, <1>12, BoundForm DEF BucketInv, BucketTyped, BalanceBounded

\* Each Decide on the bucket charges what it refills and spends.
LEMMA BucketInvStep == BucketInv /\ [BucketNext]_bucketVars => BucketInv'
<1> SUFFICES ASSUME BucketInv, [BucketNext]_bucketVars PROVE BucketInv'
  BY Zenon
<1>1. CASE UNCHANGED bucketVars
  BY Zenon, <1>1 DEF bucketVars, BucketInv, BucketTyped, GrantsBounded, Buckets, capMilli
<1>2. CASE BucketNext
  <2>1. PICK now \in 0..MaxTime, cost \in 1..limits.maxCost : decide(now, cost)
    BY Zenon, <1>2 DEF BucketNext
  <2> DEFINE s == decided(bucket, cost, now)
             g == charge(s, cost)
             i == limits.interval
             f == effective(bucket, now)
             L == bucket.lastRefill
             w == weight(bucket, limits)
             v == weight(s.bucket, limits)
  <2>2. bucket' = s.bucket /\ granted' = granted + g /\ limits' = limits /\ created' = created
    BY Zenon, <2>1 DEF decide
  <2>3. limits \in Limits /\ bucket \in Buckets(limits) /\ created \in 0..MaxTime /\ granted \in Nat
    BY Zenon DEF BucketInv, BucketTyped
  <2>4. MaxTime \in 0..MaxInt /\ MaxInt \in Nat /\ now \in 0..MaxInt
    BY LimitsAssumption, ArithmeticAssumption
  <2>5. granted * i + w <= fullWeight(limits) + (L - created) * rate(limits)
    BY Zenon, BoundForm DEF BucketInv, BalanceBounded
  <2>6. /\ s.bucket \in Buckets(limits) /\ s.bucket.lastRefill = f /\ g \in Nat
        /\ g * i + v <= accrued(bucket, limits, now)
    BY Zenon, <2>3, <2>4, LimitsSound, DecidedFacts DEF decided
  <2>7. accrued(bucket, limits, now) = w + (f - L) * rate(limits)
    BY Zenon DEF accrued, elapsed
  <2>8. /\ w \in Nat /\ rate(limits) \in Nat /\ f \in Int /\ fullWeight(limits) \in Nat /\ i \in Nat
    BY SMTT(30), <2>3, <2>4, LimitsSound, RefillTypes, LimitsSound, LimitFacts
  <2>9. L \in Int /\ created \in Int
    BY SMTT(30), <2>3, <2>4 DEF Buckets
  <2>10. v \in Int
    <3>1. s.bucket.tokens \in Int /\ s.bucket.remainder \in Int
      BY <2>6 DEF Buckets
    <3> HIDE DEF s
    <3> QED
      BY SMTT(30), <2>8, <3>1 DEF weight
  <2>11. /\ rate(limits)' = rate(limits) /\ fullWeight(limits)' = fullWeight(limits) /\ limits'.interval = i
         /\ weight(bucket, limits)' = v /\ Buckets(limits)' = Buckets(limits)
         /\ bucket.lastRefill' = f
    BY Zenon, <2>2, <2>6 DEF rate, fullWeight, weight, Buckets, capMilli
  <2> HIDE DEF s, g, i, f, L, w, v
  <2>12. (granted + g) * i + v <= fullWeight(limits) + (f - created) * rate(limits)
    <3>1. (granted + g) * i = granted * i + g * i /\ granted * i \in Int /\ g * i \in Int
      BY <2>3, <2>6, <2>8
    <3>2. (f - created) * rate(limits) = (L - created) * rate(limits) + (f - L) * rate(limits)
          /\ (L - created) * rate(limits) \in Int /\ (f - L) * rate(limits) \in Int
      BY <2>8, <2>9
    <3> QED
      BY SMTT(30), <2>5, <2>6, <2>7, <2>8, <2>10, <3>1, <3>2
  <2>13. BucketTyped'
    BY <2>2, <2>3, <2>6, <2>11 DEF BucketTyped
  <2>14. BalanceBounded'
    BY Zenon, <2>2, <2>11, <2>12 DEF BalanceBounded
  <2>15. GrantsBounded'
    BY <2>13, <2>14, BoundForm, PTL
  <2> QED
    BY Zenon, <2>13, <2>15 DEF BucketInv
<1> QED
  BY Zenon, <1>1, <1>2

\* Every reachable bucket is accounted for.
LEMMA BucketInvariant == BucketSpec => []BucketInv
BY BucketInvInit, BucketInvStep, PTL DEF BucketSpec

\* The limiter's promise, for every word size, scale and policy LimitsAssumption admits:
\* the decisions of one subject never grant more than a full bucket plus what the rate(limits)
\* gives for the time between the first decision and the last refill.
THEOREM NeverOverGrants == BucketSpec => []GrantsBounded
<1>1. BucketInv => GrantsBounded
  BY Zenon DEF BucketInv
<1> QED
  BY <1>1, BucketInvariant, PTL

\* The wrapping arithmetic of refillBucket and its overflow branches compute the
\* mathematical refill in every reachable bucket.
THEOREM RefillsExact == BucketSpec => []RefillExact
<1>1. BucketInv => RefillExact
  <2> SUFFICES ASSUME BucketInv, NEW now \in 0..MaxTime
               PROVE  refillBucket(bucket, limits, now) = idealRefill(bucket, now)
    BY Zenon DEF RefillExact
  <2>1. now \in 0..MaxInt
    BY LimitsAssumption, ArithmeticAssumption
  <2> QED
    BY Zenon, <2>1, LimitsSound, RefillIdeal, IdealForm DEF BucketInv, BucketTyped
<1> QED
  BY <1>1, BucketInvariant, PTL

\* Polling neither gains nor loses credit: in every reachable bucket a refill on the way
\* changes nothing of what a later refill gives.
THEOREM RefillsCompose == BucketSpec => []RefillComposes
<1>1. BucketInv => RefillComposes
  <2> SUFFICES ASSUME BucketInv, NEW now \in 0..MaxTime, NEW later \in now..MaxTime
               PROVE  refillBucket(refillBucket(bucket, limits, now), limits, later)
                        = refillBucket(bucket, limits, later)
    BY Zenon DEF RefillComposes
  <2>1. now \in 0..MaxInt /\ later \in 0..MaxInt /\ now <= later
    BY LimitsAssumption, ArithmeticAssumption
  <2>2. limits \in Limits /\ bucket \in Buckets(limits)
    BY Zenon DEF BucketInv, BucketTyped
  <2> DEFINE x == ideal(bucket, limits, now)
  <2>3. refillBucket(bucket, limits, now) = x /\ x \in Buckets(limits)
    BY Zenon, <2>1, <2>2, LimitsSound, RefillIdeal, LimitsSound, IdealFacts
  <2>4. refillBucket(bucket, limits, later) = ideal(bucket, limits, later)
    BY Zenon, <2>1, <2>2, LimitsSound, RefillIdeal
  <2>5. ideal(x, limits, later) = ideal(bucket, limits, later)
    BY ZenonT(30), <2>1, <2>2, LimitsSound, IdealComposes
  <2> HIDE DEF x
  <2>6. refillBucket(x, limits, later) = ideal(x, limits, later)
    BY Zenon, <2>1, <2>2, <2>3, LimitsSound, RefillIdeal
  <2> QED
    BY Zenon, <2>3, <2>4, <2>5, <2>6
<1> QED
  BY <1>1, BucketInvariant, PTL

\* A caller who was denied by a clock that is not behind the bucket and waits as long as
\* retry_after_ms says, undisturbed, is allowed.
THEOREM WaitingSuffices == BucketSpec => []RetryAfterSuffices
<1>1. BucketInv => RetryAfterSuffices
  <2> SUFFICES ASSUME BucketInv, NEW now \in bucket.lastRefill..MaxTime,
                      NEW cost \in 1..limits.maxCost,
                      ~decided(bucket, cost, now).allowed,
                      now + decided(bucket, cost, now).retryAfter <= MaxInt
               PROVE  decided(decided(bucket, cost, now).bucket, cost,
                              now + decided(bucket, cost, now).retryAfter).allowed
    BY Zenon DEF RetryAfterSuffices
  <2> DEFINE s == decided(bucket, cost, now)
             x == ideal(bucket, limits, now)
             c == cost * MilliPerToken
             i == limits.interval
             cap == capMilli(limits)
             t == x.tokens
             z == s.retryAfter
             u == now + z
             y == ideal(x, limits, u)
             a == accrued(x, limits, u)
  <2>1. limits \in Limits /\ bucket \in Buckets(limits)
    BY Zenon DEF BucketInv, BucketTyped
  <2>2. now \in 0..MaxInt /\ MaxInt \in Nat /\ now >= bucket.lastRefill /\ now \in Nat
    <3>1. bucket.lastRefill \in 0..MaxInt
      BY Zenon, <2>1 DEF Buckets
    <3> QED
      BY <3>1, LimitsAssumption, ArithmeticAssumption
  <2>3. effective(bucket, now) = now
    <3>1. bucket.lastRefill \in Int
      BY <2>1 DEF Buckets
    <3> QED
      BY <2>2, <3>1 DEF effective
  <2>4. x \in Buckets(limits) /\ x.lastRefill = now
    BY Zenon, <2>1, <2>2, <2>3, LimitsSound, IdealFacts
  <2>5. s = spend(x, cost, limits)
    BY Zenon, <2>1, <2>2, LimitsSound, RefillIdeal DEF decided
  <2>6. ~s.allowed /\ u <= MaxInt
    BY Zenon
  <2>7. SUFFICES decided(s.bucket, cost, u).allowed
    BY Zenon
  <2> HIDE DEF x, s
  <2>8. ~(t >= c) /\ s.bucket = x /\ z = retryAfter(c - t, limits)
    BY Zenon, <2>5, <2>6 DEF spend
  <2>9. /\ i \in Nat \ {0} /\ cap \in Nat \ {0} /\ MilliPerToken \in Nat \ {0}
        /\ limits.maxCost \in Nat /\ limits.capacity \in Nat
        /\ limits.maxCost <= limits.capacity
    BY <2>1, LimitsSound, LimitFacts
  <2>10. c \in Nat /\ c <= cap
    <3>1. cost \in Nat /\ cost <= limits.capacity
      BY <2>9
    <3>2. c \in Nat /\ c <= limits.capacity * MilliPerToken
      BY Zenon, <2>9, <3>1, Products
    <3> QED
      BY Zenon, <3>2 DEF capMilli
  <2>11. t \in Nat
    BY <2>4, <2>9 DEF Buckets
  <2> HIDE DEF c, t
  <2>12. c - t \in 1..cap
    BY <2>8, <2>9, <2>10, <2>11
  <2>13. z \in Nat /\ z * rate(limits) >= (c - t) * i
    BY Zenon, <2>1, <2>8, <2>12, LimitsSound, WaitSuffices
  <2> HIDE DEF z
  <2>14. u \in 0..MaxInt
    BY <2>2, <2>6, <2>13
  <2>15. elapsed(x, u) = z
    BY <2>2, <2>4, <2>13 DEF elapsed, effective
  <2> HIDE DEF u
  <2>16. decided(s.bucket, cost, u) = spend(y, cost, limits)
    BY Zenon, <2>1, <2>4, <2>8, <2>14, LimitsSound, RefillIdeal DEF decided
  <2>17. y.tokens = IF a >= fullWeight(limits) THEN cap ELSE a \div i
    BY Zenon DEF ideal
  <2>18. a = weight(x, limits) + z * rate(limits) /\ a \in Nat /\ rate(limits) \in Nat
    BY Zenon, <2>1, <2>4, <2>14, <2>15, LimitsSound, RefillTypes DEF accrued
  <2>19. weight(x, limits) = t * i + x.remainder /\ x.remainder \in Nat
    BY <2>4, <2>9 DEF weight, t, Buckets
  <2> HIDE DEF a, y, i, cap
  <2>20. a >= c * i
    <3>1. (c - t) * i = c * i - t * i /\ c * i \in Nat /\ t * i \in Nat
      BY <2>9, <2>10, <2>11
    <3>2. z * rate(limits) \in Nat
      BY <2>13, <2>18
    <3> QED
      BY SMTT(30), <2>13, <2>18, <2>19, <3>1, <3>2
  <2>21. a \div i >= c
    BY Zenon, <2>9, <2>10, <2>18, <2>20, Reaches
  <2>22. y.tokens >= c
    BY Zenon, <2>10, <2>17, <2>21
  <2>23. spend(y, cost, limits).allowed
    BY Zenon, <2>22 DEF spend, c
  <2> QED
    BY Zenon, <2>16, <2>23
<1> QED
  BY <1>1, BucketInvariant, PTL

------------------------------------------------------------------------------
(* Policies                                                                 *)

\* Every policy is within the bounds of validation.go and has a version.
PoliciesOK ==
    \A p \in DOMAIN policies :
        LET r == policies[p]
        IN  /\ r = [limits |-> r.limits, active |-> r.active, version |-> r.version]
            /\ validatePolicyFields(r.limits) /\ r.version \in Nat \ {0}

\* An edit changes one policy, and moves its version on by one.
revised(id) ==
    /\ DOMAIN policies' = DOMAIN policies /\ id \in DOMAIN policies
    /\ policies'[id].version = policies[id].version + 1
    /\ \A p \in DOMAIN policies : p = id \/ policies'[p] = policies[p]

\* What the edits do to the policies.
LEMMA EditsRevise ==
    ASSUME PoliciesOK, NEW c
    PROVE  /\ applyUpdatePolicy(c) => /\ revised(c.id) /\ versionMatches(c)
                                      /\ policies'[c.id].limits = c.limits
                                      /\ validatePolicyFields(c.limits) /\ PoliciesOK'
           /\ applySetPolicyActive(c) => /\ revised(c.id) /\ versionMatches(c)
                                         /\ policies'[c.id].limits = policies[c.id].limits
                                         /\ PoliciesOK'
<1> DEFINE r == policies[c.id]
<1>1. c.id \in DOMAIN policies =>
         /\ r = [limits |-> r.limits, active |-> r.active, version |-> r.version]
         /\ validatePolicyFields(r.limits) /\ r.version \in Nat \ {0}
  BY Zenon DEF PoliciesOK
<1>2. ASSUME applyUpdatePolicy(c)
      PROVE  /\ revised(c.id) /\ versionMatches(c) /\ policies'[c.id].limits = c.limits
             /\ validatePolicyFields(c.limits) /\ PoliciesOK'
  <2>1. versionMatches(c) /\ validatePolicyFields(c.limits) /\ c.id \in DOMAIN policies
    BY Zenon, <1>2 DEF applyUpdatePolicy, updateValid, versionMatches
  <2>2. policies' = [policies EXCEPT ![c.id] = [limits |-> c.limits, active |-> r.active,
                                                version |-> r.version + 1]]
    BY Zenon, <1>2 DEF applyUpdatePolicy
  <2>3. /\ DOMAIN policies' = DOMAIN policies
        /\ policies'[c.id] = [limits |-> c.limits, active |-> r.active,
                              version |-> r.version + 1]
        /\ \A p \in DOMAIN policies : p = c.id \/ policies'[p] = policies[p]
    BY Zenon, <2>1, <2>2
  <2>4. revised(c.id) /\ policies'[c.id].limits = c.limits
    BY SMTT(30), <2>1, <2>3 DEF revised
  <2>5. PoliciesOK'
    BY <1>1, <2>1, <2>3 DEF PoliciesOK
  <2> QED
    BY Zenon, <2>1, <2>4, <2>5
<1>3. ASSUME applySetPolicyActive(c)
      PROVE  /\ revised(c.id) /\ versionMatches(c)
             /\ policies'[c.id].limits = policies[c.id].limits /\ PoliciesOK'
  <2>1. versionMatches(c) /\ c.id \in DOMAIN policies
    BY Zenon, <1>3 DEF applySetPolicyActive, versionMatches
  <2>2. policies' = [policies EXCEPT ![c.id] = [limits |-> r.limits, active |-> c.active,
                                                version |-> r.version + 1]]
    BY Zenon, <1>3 DEF applySetPolicyActive
  <2>3. /\ DOMAIN policies' = DOMAIN policies
        /\ policies'[c.id] = [limits |-> r.limits, active |-> c.active,
                              version |-> r.version + 1]
        /\ \A p \in DOMAIN policies : p = c.id \/ policies'[p] = policies[p]
    BY Zenon, <2>1, <2>2
  <2>4. revised(c.id) /\ policies'[c.id].limits = r.limits
    BY SMTT(30), <2>1, <2>3 DEF revised
  <2>5. PoliciesOK'
    BY SMTT(30), <1>1, <2>1, <2>3 DEF PoliciesOK
  <2> QED
    BY Zenon, <2>1, <2>4, <2>5
<1> QED
  BY Zenon, <1>2, <1>3

\* A new policy joins the others.
LEMMA CreationAdds ==
    ASSUME PoliciesOK, NEW c, applyCreatePolicy(c)
    PROVE  /\ c.id \notin DOMAIN policies
           /\ DOMAIN policies' = DOMAIN policies \cup {c.id}
           /\ policies'[c.id].version = 1
           /\ \A p \in DOMAIN policies : policies'[p] = policies[p]
           /\ PoliciesOK'
<1>1. /\ c.id \notin DOMAIN policies /\ validatePolicyFields(c.limits)
      /\ DOMAIN policies' = DOMAIN policies \cup {c.id}
      /\ policies'[c.id] = [limits |-> c.limits, active |-> c.active, version |-> 1]
      /\ \A p \in DOMAIN policies : policies'[p] = policies[p]
  BY Zenon DEF applyCreatePolicy, createPolicyValid, put
<1> QED
  BY <1>1 DEF PoliciesOK

\* The commands that leave the policies alone.
LEMMA PoliciesAlone ==
    ASSUME NEW c, \/ applyCreateClient(c) \/ applyRevokeClient(c)
                  \/ replayDecision(c) \/ applyDecide(c) \/ applyPrune(c) \/ reject(c)
    PROVE  UNCHANGED <<policies, edits>>
BY Zenon DEF applyCreateClient, applyRevokeClient, replayDecision, applyDecide,
   applyPrune, reject, adminVars

\* Whatever is committed, the policies in force are ones that validation.go admits.
THEOREM PoliciesValid == Spec => []PoliciesOK
<1>1. Init => PoliciesOK
  BY Zenon DEF Init, none, PoliciesOK
<1>2. PoliciesOK /\ [Next]_vars => PoliciesOK'
  <2> SUFFICES ASSUME PoliciesOK, [Next]_vars PROVE PoliciesOK'
    BY Zenon
  <2>1. ASSUME UNCHANGED policies PROVE PoliciesOK'
    BY Zenon, <2>1 DEF PoliciesOK
  <2>2. CASE UNCHANGED vars
    BY Zenon, <2>1, <2>2 DEF vars, adminVars
  <2> QED
    BY Zenon, <2>1, <2>2, EditsRevise, CreationAdds, PoliciesAlone DEF Next, Apply, applyTx
<1> QED
  BY <1>1, <1>2, PTL DEF Spec

------------------------------------------------------------------------------
(* Clients                                                                  *)

\* The two tables name each other.
ClientsLinked ==
    /\ \A x \in DOMAIN prefixes : prefixes[x] \in DOMAIN clients
    /\ \A c \in DOMAIN clients : clients[c].prefix \in DOMAIN prefixes
    /\ PrefixFindsClient

\* Authentication by key prefix finds exactly the client the key was made for: a
\* prefix in use is never given to a second client, and revoking one keeps its entry.
THEOREM PrefixesFindClients == Spec => []PrefixFindsClient
<1>1. Init => ClientsLinked
  BY Zenon DEF Init, none, ClientsLinked, PrefixFindsClient
<1>2. ClientsLinked /\ [Next]_vars => ClientsLinked'
  <2> SUFFICES ASSUME ClientsLinked, [Next]_vars PROVE ClientsLinked'
    BY Zenon
  <2>1. ASSUME UNCHANGED <<clients, prefixes>> PROVE ClientsLinked'
    BY Zenon, <2>1 DEF ClientsLinked, PrefixFindsClient
  <2>2. ASSUME NEW c, applyCreateClient(c) PROVE ClientsLinked'
    <3>1. /\ c.id \notin DOMAIN clients /\ c.prefix \notin DOMAIN prefixes
          /\ DOMAIN clients' = DOMAIN clients \cup {c.id}
          /\ DOMAIN prefixes' = DOMAIN prefixes \cup {c.prefix}
          /\ clients'[c.id].prefix = c.prefix /\ prefixes'[c.prefix] = c.id
          /\ \A k \in DOMAIN clients : clients'[k] = clients[k]
          /\ \A x \in DOMAIN prefixes : prefixes'[x] = prefixes[x]
      BY Zenon, <2>2 DEF applyCreateClient, createClientValid, put
    <3> QED
      BY ZenonT(30), <3>1 DEF ClientsLinked, PrefixFindsClient
  <2>3. ASSUME NEW c, applyRevokeClient(c) PROVE ClientsLinked'
    <3>1. /\ DOMAIN clients' = DOMAIN clients /\ prefixes' = prefixes
          /\ \A k \in DOMAIN clients : clients'[k].prefix = clients[k].prefix
      BY <2>3 DEF applyRevokeClient, revocable
    <3> QED
      BY Zenon, <3>1 DEF ClientsLinked, PrefixFindsClient
  <2>4. ASSUME NEW c, \/ applyCreatePolicy(c) \/ applyUpdatePolicy(c)
                      \/ applySetPolicyActive(c) \/ replayDecision(c)
                      \/ applyDecide(c) \/ applyPrune(c) \/ reject(c)
        PROVE  UNCHANGED <<clients, prefixes>>
    BY Zenon, <2>4 DEF applyCreatePolicy, applyUpdatePolicy, applySetPolicyActive,
       replayDecision, applyDecide, applyPrune, reject, adminVars
  <2>5. CASE UNCHANGED vars
    BY Zenon, <2>1, <2>5 DEF vars, adminVars
  <2> QED
    BY Zenon, <2>1, <2>2, <2>3, <2>4, <2>5 DEF Next, Apply, applyTx
<1>3. ClientsLinked => PrefixFindsClient
  BY Zenon DEF ClientsLinked
<1> QED
  BY <1>1, <1>2, <1>3, PTL DEF Spec

------------------------------------------------------------------------------
(* Edits                                                                    *)

\* An applied edit is older than the version in force, and the log positions of edits
\* lie behind.
EditsCounted ==
    /\ lastApplied \in Nat /\ IsFiniteSet(edits)
    /\ \A e \in edits : /\ e.policy \in DOMAIN policies /\ e.index \in 0..lastApplied
                        /\ e.expected \in Nat /\ e.expected < policies[e.policy].version
    /\ NoLostEdit

editsOf(S, p) == {e \in S : e.policy = p}

\* An edit that names the version in force keeps the count.
LEMMA EditCounts ==
    ASSUME EditsCounted, PoliciesOK, NEW c, versionMatches(c), edited(c), revised(c.id),
           lastApplied' = index
    PROVE  EditsCounted'
<1> DEFINE e == [policy |-> c.id, expected |-> c.expected, index |-> index]
<1>1. e.policy = c.id /\ e.expected = c.expected /\ e.index = lastApplied + 1
  BY Zenon DEF index
<1>2. edits' = edits \cup {e}
  BY Zenon DEF edited
<1> HIDE DEF e
<1>3. /\ c.id \in DOMAIN policies /\ policies[c.id].version = c.expected
      /\ c.expected \in Nat \ {0} /\ lastApplied \in Nat /\ lastApplied' = lastApplied + 1
      /\ policies'[c.id].version = c.expected + 1
      /\ IsFiniteSet(edits)
  BY Zenon DEF EditsCounted, PoliciesOK, versionMatches, revised, index
<1>4. e \notin edits
  BY <1>1, <1>3 DEF EditsCounted
<1>5. /\ IsFiniteSet(edits')
      /\ Cardinality(editsOf(edits', c.id)) = Cardinality(editsOf(edits, c.id)) + 1
      /\ \A q : q # c.id => editsOf(edits', q) = editsOf(edits, q)
  <2>1. IsFiniteSet(editsOf(edits, c.id)) /\ e \notin editsOf(edits, c.id)
    BY Zenon, <1>3, <1>4, FS_Subset DEF editsOf
  <2>2. editsOf(edits', c.id) = editsOf(edits, c.id) \cup {e}
    BY Zenon, <1>1, <1>2 DEF editsOf
  <2>3. \A q : q # c.id => editsOf(edits', q) = editsOf(edits, q)
    BY Zenon, <1>1, <1>2 DEF editsOf
  <2> QED
    BY ZenonT(30), <1>2, <1>3, <1>4, <2>1, <2>2, <2>3, FS_AddElement
<1>7. ASSUME NEW x \in edits'
      PROVE  /\ x.policy \in DOMAIN policies' /\ x.index \in 0..lastApplied'
             /\ x.expected \in Nat /\ x.expected < policies'[x.policy].version
  <2>1. CASE x = e
    BY SMTT(30), <1>1, <1>3, <2>1 DEF revised
  <2>2. CASE x \in edits
    <3>1. x.policy = c.id \/ policies'[x.policy] = policies[x.policy]
      BY Zenon, <2>2 DEF EditsCounted, revised
    <3> QED
      BY <1>3, <2>2, <3>1 DEF EditsCounted, revised
  <2> QED
    BY Zenon, <1>2, <2>1, <2>2
<1>8. ASSUME NEW a \in edits', NEW b \in edits', a.policy = b.policy,
             a.expected = b.expected
      PROVE  a = b
  <2>1. \A x \in edits : ~(x.policy = c.id /\ x.expected = c.expected)
    BY <1>3 DEF EditsCounted
  <2> QED
    BY Zenon, <1>1, <1>2, <1>8, <2>1 DEF EditsCounted, NoLostEdit
<1>9. ASSUME NEW p \in DOMAIN policies'
      PROVE  policies'[p].version = 1 + Cardinality(editsOf(edits', p))
  <2>1. policies[p].version = 1 + Cardinality(editsOf(edits, p))
    BY Zenon DEF EditsCounted, NoLostEdit, revised, editsOf
  <2>2. CASE p = c.id
    <3>1. Cardinality(editsOf(edits, c.id)) \in Nat
      BY Zenon, FS_Subset, FS_CardinalityType DEF EditsCounted, editsOf
    <3> QED
      BY <1>3, <1>5, <2>1, <2>2, <3>1
  <2>3. CASE p # c.id
    BY Zenon, <1>5, <2>1, <2>3 DEF revised
  <2> QED
    BY Zenon, <2>2, <2>3
<1> QED
  BY <1>3, <1>5, <1>7, <1>8, <1>9 DEF EditsCounted, NoLostEdit, editsOf

\* No edit of a policy is lost: two edits made against the same version are never both
\* applied, and the version in force counts the edits.
THEOREM NoEditLost == Spec => []NoLostEdit
<1>1. Init => EditsCounted
  BY FS_EmptySet DEF Init, none, EditsCounted, NoLostEdit
<1>2. PoliciesOK /\ EditsCounted /\ [Next]_vars => EditsCounted'
  <2> SUFFICES ASSUME PoliciesOK, EditsCounted, [Next]_vars PROVE EditsCounted'
    BY Zenon
  <2>1. ASSUME UNCHANGED <<policies, edits>>, lastApplied' \in {lastApplied, index}
        PROVE  EditsCounted'
    <3>1. lastApplied' \in Nat /\ lastApplied' >= lastApplied
      BY <2>1 DEF EditsCounted, index
    <3>2. \A e \in edits : e.index \in 0..lastApplied'
      BY <3>1 DEF EditsCounted
    <3> QED
      BY Zenon, <2>1, <3>1, <3>2 DEF EditsCounted, NoLostEdit
  <2>2. ASSUME NEW c, applyCreatePolicy(c), lastApplied' = index PROVE EditsCounted'
    <3>1. /\ c.id \notin DOMAIN policies /\ edits' = edits
          /\ DOMAIN policies' = DOMAIN policies \cup {c.id}
          /\ policies'[c.id].version = 1
          /\ \A p \in DOMAIN policies : policies'[p] = policies[p]
      BY Zenon, <2>2, CreationAdds DEF applyCreatePolicy
    <3>2. {e \in edits : e.policy = c.id} = {}
      BY Zenon, <3>1 DEF EditsCounted
    <3>3. Cardinality({e \in edits : e.policy = c.id}) = 0
      BY Zenon, <3>2, FS_EmptySet
    <3>4. \A p \in DOMAIN policies' :
             policies'[p].version = 1 + Cardinality({e \in edits : e.policy = p})
      <4> SUFFICES ASSUME NEW p \in DOMAIN policies'
                   PROVE  policies'[p].version = 1 + Cardinality({e \in edits : e.policy = p})
        BY Zenon
      <4>1. CASE p = c.id
        BY <3>1, <3>3, <4>1
      <4>2. CASE p \in DOMAIN policies
        BY Zenon, <3>1, <4>2 DEF NoLostEdit, EditsCounted
      <4> QED
        BY Zenon, <3>1, <4>1, <4>2
    <3>5. lastApplied' \in Nat /\ lastApplied' >= lastApplied
      BY SMTT(30), <2>2 DEF EditsCounted, index
    <3>6. \A e \in edits : /\ e.policy \in DOMAIN policies' /\ e.index \in 0..lastApplied'
                           /\ policies'[e.policy] = policies[e.policy]
      BY <3>1, <3>5 DEF EditsCounted
    <3> QED
      BY Zenon, <3>1, <3>4, <3>5, <3>6 DEF EditsCounted, NoLostEdit
  <2>3. ASSUME NEW c, applyUpdatePolicy(c), lastApplied' = index PROVE EditsCounted'
    <3>1. versionMatches(c) /\ edited(c) /\ revised(c.id)
      BY Zenon, <2>3, EditsRevise DEF applyUpdatePolicy
    <3> QED
      BY Zenon, <2>3, <3>1, EditCounts
  <2>4. ASSUME NEW c, applySetPolicyActive(c), lastApplied' = index PROVE EditsCounted'
    <3>1. versionMatches(c) /\ edited(c) /\ revised(c.id)
      BY Zenon, <2>4, EditsRevise DEF applySetPolicyActive
    <3> QED
      BY Zenon, <2>4, <3>1, EditCounts
  <2>5. CASE UNCHANGED vars
    BY Zenon, <2>1, <2>5 DEF vars, adminVars
  <2> QED
    BY Zenon, <2>1, <2>2, <2>3, <2>4, <2>5, PoliciesAlone DEF Next, Apply, applyTx
<1>3. EditsCounted => NoLostEdit
  BY Zenon DEF EditsCounted
<1> QED
  BY <1>1, <1>2, <1>3, PoliciesValid, PTL DEF Spec

------------------------------------------------------------------------------
(* Decisions                                                                *)

\* A decision handed out is still on record, or a prune that came after it was at or
\* past its expiry.
DecisionsRecorded ==
    /\ lastApplied \in Nat
    /\ \A p \in prunes : p[1] \in 0..lastApplied
    /\ \A d \in decisions : d.index \in 0..lastApplied
    /\ \A k \in DOMAIN idempotency :
          /\ idempotency[k] \in decisions /\ idempotency[k].key = k
          /\ idempotency[k].expires = idempotency[k].observed + TTL
    /\ \A d \in decisions :
          \/ d.key \in DOMAIN idempotency /\ idempotency[d.key] = d
          \/ \E p \in prunes : p[1] >= d.index /\ p[2] >= d.observed + TTL
    /\ OneDecisionPerKey

\* A step that decides nothing and prunes nothing.
LEMMA DecisionsAlone ==
    ASSUME DecisionsRecorded, UNCHANGED <<idempotency, decisions, prunes>>,
           lastApplied' \in {lastApplied, index}
    PROVE  DecisionsRecorded'
<1>1. lastApplied' \in Nat /\ \A i \in 0..lastApplied : i \in 0..lastApplied'
  BY DEF DecisionsRecorded, index
<1> QED
  BY Zenon, <1>1 DEF DecisionsRecorded, OneDecisionPerKey

\* A new decision is made under a key that nothing on record uses.
LEMMA DecideRecords ==
    ASSUME DecisionsRecorded, NEW c, applyDecide(c), lastApplied' = index
    PROVE  DecisionsRecorded'
<1>1. PICK d : /\ d.key = requestKey(c) /\ d.index = index
               /\ d.expires = d.observed + TTL
               /\ idempotency' = put(idempotency, d.key, d)
               /\ decisions' = decisions \cup {d}
               /\ prunes' = prunes /\ d.key \notin DOMAIN idempotency
  <2> DEFINE l == policies[c.policy].limits
             s == spend(refillBucket(loadOrInitBucket(<<c.policy, c.subject>>, l, c.ts),
                                     l, c.ts), c.cost, l)
             d == [key |-> requestKey(c), digest |-> requestDigest(c),
                   allowed |-> s.allowed, remaining |-> s.bucket.tokens,
                   observed |-> c.ts, expires |-> c.ts + TTL, index |-> index]
  <2>1. /\ idempotency' = put(idempotency, d.key, d) /\ decisions' = decisions \cup {d}
        /\ prunes' = prunes /\ requestKey(c) \notin DOMAIN idempotency
    BY Zenon DEF applyDecide, chargeable
  <2> HIDE DEF l, s
  <2>2. /\ d.key = requestKey(c) /\ d.index = index /\ d.observed = c.ts
        /\ d.expires = c.ts + TTL
    BY Zenon
  <2> HIDE DEF d
  <2> QED
    BY Zenon, <2>1, <2>2
<1>2. /\ lastApplied \in Nat /\ lastApplied' = lastApplied + 1 /\ d.index = lastApplied + 1
      /\ \A i \in 0..lastApplied : i \in 0..lastApplied'
  BY <1>1 DEF DecisionsRecorded, index
<1>3. /\ DOMAIN idempotency' = DOMAIN idempotency \cup {d.key} /\ idempotency'[d.key] = d
      /\ \A k \in DOMAIN idempotency : k # d.key /\ idempotency'[k] = idempotency[k]
  BY Zenon, <1>1 DEF put
<1>4. ASSUME NEW a \in decisions, a.key = d.key
      PROVE  \E p \in prunes : p[1] \in a.index..d.index /\ p[2] >= a.observed + TTL
  <2>1. PICK p \in prunes : p[1] >= a.index /\ p[2] >= a.observed + TTL
    BY Zenon, <1>1, <1>4 DEF DecisionsRecorded
  <2>2. p[1] \in 0..lastApplied /\ a.index \in 0..lastApplied
    BY Zenon DEF DecisionsRecorded
  <2>3. p[1] \in a.index..d.index
    BY <1>2, <2>1, <2>2
  <2> QED
    BY Zenon, <2>1, <2>3
<1>5. OneDecisionPerKey'
  <2> SUFFICES ASSUME NEW a \in decisions', NEW b \in decisions', a.key = b.key,
                      a.index < b.index
               PROVE  \E p \in prunes : /\ p[1] \in a.index..b.index
                                        /\ p[2] >= a.observed + TTL
    BY Zenon, <1>1 DEF OneDecisionPerKey
  <2>1. CASE a \in decisions /\ b \in decisions
    BY Zenon, <2>1 DEF DecisionsRecorded, OneDecisionPerKey
  <2>2. CASE a \in decisions /\ b = d
    BY Zenon, <1>4, <2>2
  <2>3. CASE a = d /\ b \in decisions
    <3>1. b.index \in 0..lastApplied
      BY Zenon, <2>3 DEF DecisionsRecorded
    <3> QED
      BY <1>2, <2>3, <3>1
  <2>4. CASE a = d /\ b = d
    BY SMTT(30), <1>2, <2>4
  <2> QED
    BY Zenon, <1>1, <2>1, <2>2, <2>3, <2>4
<1>6. \A x \in decisions' : x.index \in 0..lastApplied'
  BY <1>1, <1>2 DEF DecisionsRecorded
<1>7. \A k \in DOMAIN idempotency' :
         /\ idempotency'[k] \in decisions' /\ idempotency'[k].key = k
         /\ idempotency'[k].expires = idempotency'[k].observed + TTL
  BY Zenon, <1>1, <1>3 DEF DecisionsRecorded
<1>8. \A x \in decisions' :
         \/ x.key \in DOMAIN idempotency' /\ idempotency'[x.key] = x
         \/ \E p \in prunes' : p[1] >= x.index /\ p[2] >= x.observed + TTL
  BY Zenon, <1>1, <1>3 DEF DecisionsRecorded
<1>9. \A p \in prunes' : p[1] \in 0..lastApplied'
  BY Zenon, <1>1, <1>2 DEF DecisionsRecorded
<1> QED
  BY <1>2, <1>5, <1>6, <1>7, <1>8, <1>9 DEF DecisionsRecorded

\* A prune drops only records at or past their expiry.
LEMMA PruneRecords ==
    ASSUME DecisionsRecorded, NEW c, applyPrune(c), lastApplied' = index
    PROVE  DecisionsRecorded'
<1> DEFINE p == <<index, c.ts>>
<1>1. prunes' = prunes \cup {p} /\ decisions' = decisions
  BY Zenon DEF applyPrune
<1>2. p[1] = index /\ p[2] = c.ts
  BY Zenon
<1> HIDE DEF p
<1>3. /\ lastApplied \in Nat /\ lastApplied' = lastApplied + 1 /\ p[1] = lastApplied + 1
      /\ \A i \in 0..lastApplied : i \in 0..lastApplied'
  BY <1>2 DEF DecisionsRecorded, index
<1>4. /\ DOMAIN idempotency' \subseteq DOMAIN idempotency
      /\ \A k \in DOMAIN idempotency' : idempotency'[k] = idempotency[k]
      /\ \A k \in DOMAIN idempotency :
            k \in DOMAIN idempotency' \/ idempotency[k].expires <= c.ts
  BY Zenon DEF applyPrune, without, expiredBy
<1>5. OneDecisionPerKey'
  BY Zenon, <1>1 DEF DecisionsRecorded, OneDecisionPerKey
<1>6. ASSUME NEW d \in decisions'
      PROVE  \/ d.key \in DOMAIN idempotency' /\ idempotency'[d.key] = d
             \/ \E q \in prunes' : q[1] >= d.index /\ q[2] >= d.observed + TTL
  <2>1. CASE d.key \in DOMAIN idempotency /\ idempotency[d.key] = d
    <3>1. d.expires = d.observed + TTL
      BY Zenon, <2>1 DEF DecisionsRecorded
    <3>2. d.index \in 0..lastApplied
      BY Zenon, <1>1 DEF DecisionsRecorded
    <3>3. CASE d.key \notin DOMAIN idempotency'
      <4>1. d.expires <= c.ts
        BY Zenon, <1>4, <2>1, <3>3
      <4>2. p[1] >= d.index /\ p[2] >= d.observed + TTL
        BY <1>2, <1>3, <3>1, <3>2, <4>1
      <4> QED
        BY Zenon, <1>1, <4>2
    <3> QED
      BY Zenon, <1>4, <2>1, <3>3
  <2>2. CASE \E q \in prunes : q[1] >= d.index /\ q[2] >= d.observed + TTL
    BY Zenon, <1>1, <2>2
  <2> QED
    BY Zenon, <1>1, <2>1, <2>2 DEF DecisionsRecorded
<1>7. \A q \in prunes' : q[1] \in 0..lastApplied'
  BY <1>1, <1>3 DEF DecisionsRecorded
<1>8. \A d \in decisions' : d.index \in 0..lastApplied'
  BY Zenon, <1>1, <1>3 DEF DecisionsRecorded
<1>9. \A k \in DOMAIN idempotency' :
         /\ idempotency'[k] \in decisions' /\ idempotency'[k].key = k
         /\ idempotency'[k].expires = idempotency'[k].observed + TTL
  BY Zenon, <1>1, <1>4 DEF DecisionsRecorded
<1> QED
  BY <1>3, <1>5, <1>6, <1>7, <1>8, <1>9 DEF DecisionsRecorded

\* Every decision made is still recorded or was pruned.
LEMMA DecisionsKept == Spec => []DecisionsRecorded
<1>1. Init => DecisionsRecorded
  BY DEF Init, none, DecisionsRecorded, OneDecisionPerKey
<1>2. DecisionsRecorded /\ [Next]_vars => DecisionsRecorded'
  <2> SUFFICES ASSUME DecisionsRecorded, [Next]_vars PROVE DecisionsRecorded'
    BY Zenon
  <2>1. ASSUME NEW c, replayDecision(c)
        PROVE  UNCHANGED <<idempotency, decisions, prunes>>
    BY Zenon, <2>1 DEF replayDecision, replayable, DecisionsRecorded
  <2>2. ASSUME NEW c, \/ applyCreatePolicy(c) \/ applyUpdatePolicy(c)
                      \/ applySetPolicyActive(c) \/ applyCreateClient(c)
                      \/ applyRevokeClient(c) \/ reject(c)
        PROVE  UNCHANGED <<idempotency, decisions, prunes>>
    BY Zenon, <2>2 DEF applyCreatePolicy, applyUpdatePolicy, applySetPolicyActive,
       applyCreateClient, applyRevokeClient, reject, decideVars
  <2>3. CASE UNCHANGED vars
    BY Zenon, <2>3, DecisionsAlone DEF vars, decideVars
  <2>4. ASSUME NEW c, Apply(c) PROVE DecisionsRecorded'
    BY Zenon, <2>1, <2>2, <2>4, DecisionsAlone, DecideRecords, PruneRecords DEF Apply, applyTx
  <2> QED
    BY Zenon, <2>3, <2>4 DEF Next
<1> QED
  BY <1>1, <1>2, PTL DEF Spec

\* A request is decided once for as long as its record lives: whatever is edited,
\* revoked or retried meanwhile, a second decision under its key comes only after a
\* prune at or past the expiry of the first.
THEOREM DecidedOnce == Spec => []OneDecisionPerKey
<1>1. DecisionsRecorded => OneDecisionPerKey
  BY Zenon DEF DecisionsRecorded
<1> QED
  BY <1>1, DecisionsKept, PTL

------------------------------------------------------------------------------
(* Buckets                                                                  *)

\* Limits within the bounds of validation.go are sound for the word.
LEMMA PolicySound ==
    ASSUME NEW l, validatePolicyFields(l)
    PROVE  Sound(l) /\ l.interval \in MinInterval..MaxInterval
<1> DEFINE c == l.capacity
           r == l.refill
           i == l.interval
           m == l.maxCost
<1>1. /\ {MaxCapacity, MaxRefill, MinInterval, MaxInterval} \subseteq Nat \ {0}
      /\ MaxCapacity * MilliPerToken * MaxInterval + MaxRefill * MilliPerToken <= MaxInt
      /\ MilliPerToken \in Nat \ {0} /\ MaxInt \in Nat \ {0}
  BY Zenon, LimiterAssumption, ArithmeticAssumption
<1>2. /\ c \in 1..MaxCapacity /\ r \in 1..MaxRefill /\ i \in MinInterval..MaxInterval
      /\ m \in 1..c
  BY Zenon DEF validatePolicyFields
<1> HIDE DEF c, r, i, m
<1>3. /\ c \in Nat \ {0} /\ r \in Nat \ {0} /\ i \in Nat \ {0} /\ m \in Nat \ {0}
      /\ m <= c /\ c <= MaxCapacity /\ r <= MaxRefill /\ i <= MaxInterval
  BY <1>1, <1>2
<1> DEFINE a == c * MilliPerToken
           b == MaxCapacity * MilliPerToken
           u == r * MilliPerToken
           v == MaxRefill * MilliPerToken
<1>4. a \in Nat /\ b \in Nat /\ u \in Nat /\ v \in Nat /\ a <= b /\ u <= v
  BY Zenon, <1>1, <1>3, Products
<1>5. b * MaxInterval + v <= MaxInt
  BY Zenon, <1>1
<1> HIDE DEF a, b, u, v
<1>6. a * i <= b * i /\ b * i = i * b /\ i * b <= MaxInterval * b
      /\ MaxInterval * b = b * MaxInterval
  BY Zenon, <1>1, <1>3, <1>4, Products
<1>7. a * i \in Nat /\ i * b \in Nat /\ b * MaxInterval \in Nat
  BY <1>1, <1>3, <1>4
<1>8. a * i <= MaxInt /\ a * i + u <= MaxInt + 1
  BY SMTT(30), <1>1, <1>4, <1>5, <1>6, <1>7
<1> QED
  BY Zenon, <1>2, <1>3, <1>8 DEF Sound, c, r, i, m, a, u

\* A new subject's bucket is full.
LEMMA InitBucket ==
    ASSUME NEW l, Sound(l), NEW now \in 0..MaxInt
    PROVE  /\ initBucket(l, now) \in Buckets(l)
           /\ initBucket(l, now).lastRefill = now
           /\ effective(initBucket(l, now), now) = now
<1>1. capMilli(l) \in Nat /\ l.interval \in Nat \ {0}
  BY SMTT(30), LimitFacts
<1> QED
  BY <1>1 DEF initBucket, Buckets, effective

\* What convert makes of a bucket that was due r: a bucket of the new limits, settled at
\* the time of the edit, worth no more than r.
Converts(b, old, new, now) ==
    LET x == convert(b, old, new, now)
        r == ideal(b, old, now)
    IN  /\ x \in Buckets(new) /\ x.lastRefill = effective(b, now)
        /\ x.tokens <= r.tokens
        /\ x.remainder = 0 \/ (old.interval = new.interval /\ x.remainder = r.remainder)

\* An edit carries a bucket over: it is in range under the new limits and worth no more
\* than before.
LEMMA ConvertFacts ==
    ASSUME NEW old, Sound(old), NEW new, Sound(new), NEW b \in Buckets(old),
           NEW now \in 0..MaxInt
    PROVE  Converts(b, old, new, now)
<1> DEFINE x == convert(b, old, new, now)
           r == ideal(b, old, now)
           cap == capMilli(new)
<1>1. r \in Buckets(old) /\ r.lastRefill = effective(b, now)
  BY Zenon, IdealFacts
<1>2. x = [tokens |-> IF r.tokens > cap THEN cap ELSE r.tokens,
           remainder |-> IF old.interval # new.interval THEN 0 ELSE r.remainder,
           lastRefill |-> r.lastRefill]
  BY Zenon, RefillIdeal DEF convert
<1> HIDE DEF r, x
<1>3. cap \in Nat /\ new.interval \in Nat \ {0}
  BY LimitFacts
<1>4. /\ r.tokens \in Nat /\ r.remainder \in 0..(old.interval - 1)
      /\ r.lastRefill \in 0..MaxInt
  BY <1>1 DEF Buckets
<1>5. /\ x.tokens \in 0..cap /\ x.tokens <= r.tokens
  BY <1>2, <1>3, <1>4
<1>6. x.remainder \in 0..(new.interval - 1)
  BY <1>2, <1>3, <1>4
<1>7. x = [tokens |-> x.tokens, remainder |-> x.remainder, lastRefill |-> x.lastRefill]
      /\ x.lastRefill = r.lastRefill
  BY Zenon, <1>2
<1>8. x \in Buckets(new)
  BY Zenon, <1>4, <1>5, <1>6, <1>7 DEF Buckets
<1>9. x.remainder = 0 \/ (old.interval = new.interval /\ x.remainder = r.remainder)
  BY <1>2
<1> QED
  BY ZenonT(30), <1>1, <1>5, <1>7, <1>8, <1>9 DEF Converts, x, r

\* Every bucket belongs to a policy and is in range under the limits in force; the
\* ledger follows its clock.
limitsOf(k) == policies[k[1]].limits

BucketsKept ==
    /\ DOMAIN ledger = DOMAIN buckets
    /\ \A k \in DOMAIN buckets :
          /\ k[1] \in DOMAIN policies
          /\ buckets[k] \in Buckets(limitsOf(k))
          /\ ledger[k].clock = buckets[k].lastRefill
          /\ ledger[k].minted \in Int

\* The parts a milli-token has in the ledger's scale.
parts(l) == Scale \div l.interval

\* Scale counts an interval's fractions a whole number of times.
LEMMA Parts ==
    ASSUME NEW l, validatePolicyFields(l)
    PROVE  parts(l) \in Nat /\ parts(l) * l.interval = Scale /\ Scale \in Nat
<1> DEFINE i == l.interval
<1>1. i \in MinInterval..MaxInterval /\ i \in Nat \ {0}
  BY Zenon, PolicySound DEF Sound
<1>2. Scale \in Nat /\ Scale % i = 0
  BY Zenon, <1>1, LimiterAssumption
<1> HIDE DEF i
<1>3. Scale \div i \in Nat /\ Scale = (Scale \div i) * i + (Scale % i)
  BY Zenon, <1>1, <1>2, Division
<1>4. parts(l) = Scale \div i
  BY Zenon DEF parts, i
<1> HIDE DEF parts
<1>5. parts(l) \in Nat /\ Scale = parts(l) * i + 0
  BY Zenon, <1>2, <1>3, <1>4
<1> QED
  BY <1>1, <1>2, <1>5 DEF i

\* The ledger moves its clock as the bucket does and mints at the same rate.
LEMMA AccrueFacts ==
    ASSUME NEW l, validatePolicyFields(l), NEW k \in DOMAIN buckets, NEW now \in 0..MaxInt,
           buckets[k] \in Buckets(l), ledger[k].clock = buckets[k].lastRefill,
           ledger[k].minted \in Int
    PROVE  /\ accrue(k, l, now).clock = effective(buckets[k], now)
           /\ accrue(k, l, now).minted \in Int
           /\ accrue(k, l, now).minted
                 = ledger[k].minted + elapsed(buckets[k], now) * rate(l) * parts(l)
<1> DEFINE f == effective(buckets[k], now)
           e == elapsed(buckets[k], now)
           r == l.refill
<1>1. Sound(l)
  BY Zenon, PolicySound
<1>2. e \in Nat /\ rate(l) \in Nat /\ r \in Nat /\ MilliPerToken \in Nat
  BY <1>1, RefillTypes, LimitFacts
<1>3. parts(l) \in Nat
  BY Zenon, Parts
<1>4. accrue(k, l, now).clock = f
  BY Zenon DEF accrue, effective
<1>5. accrue(k, l, now).minted = ledger[k].minted + e * r * MilliPerToken * parts(l)
  BY Zenon DEF accrue, effective, elapsed, parts
<1>6. rate(l) = r * MilliPerToken
  BY Zenon DEF rate
<1> HIDE DEF e, r, parts
<1>7. e * r * MilliPerToken * parts(l) = e * rate(l) * parts(l) /\ e * rate(l) * parts(l) \in Int
  <2>1. e * r * MilliPerToken = e * rate(l) /\ e * rate(l) \in Nat
    BY <1>2, <1>6
  <2> QED
    BY <1>3, <2>1
<1> QED
  BY <1>4, <1>5, <1>7 DEF e

\* An edit converts the buckets of its policy and leaves the others alone.
LEMMA UpdateKeepsBuckets ==
    ASSUME PoliciesOK, BucketsKept, NEW c \in Command, applyUpdatePolicy(c)
    PROVE  BucketsKept'
<1> DEFINE old == policies[c.id].limits
<1>1. /\ revised(c.id) /\ policies'[c.id].limits = c.limits
      /\ validatePolicyFields(c.limits) /\ c.id \in DOMAIN policies
  BY Zenon, EditsRevise DEF revised
<1>2. Sound(old) /\ Sound(c.limits) /\ validatePolicyFields(old)
  BY Zenon, <1>1, PolicySound DEF PoliciesOK
<1>3. c.ts \in 0..MaxInt
  BY Zenon, CommandAssumption DEF applyUpdatePolicy
<1>4. /\ buckets' = [k \in DOMAIN buckets |->
            IF k[1] = c.id THEN convert(buckets[k], old, c.limits, c.ts) ELSE buckets[k]]
      /\ ledger' = [k \in DOMAIN ledger |->
            IF k[1] = c.id THEN accrue(k, old, c.ts) ELSE ledger[k]]
  BY Zenon DEF applyUpdatePolicy
<1>5. DOMAIN buckets' = DOMAIN buckets /\ DOMAIN ledger' = DOMAIN buckets'
  BY Zenon, <1>4 DEF BucketsKept
<1>6. ASSUME NEW k \in DOMAIN buckets
      PROVE  /\ k[1] \in DOMAIN policies'
             /\ buckets'[k] \in Buckets(policies'[k[1]].limits)
             /\ ledger'[k].clock = buckets'[k].lastRefill
             /\ ledger'[k].minted \in Int
  <2>1. /\ k[1] \in DOMAIN policies /\ buckets[k] \in Buckets(policies[k[1]].limits)
        /\ ledger[k].clock = buckets[k].lastRefill /\ ledger[k].minted \in Int
        /\ k \in DOMAIN ledger
    BY Zenon DEF BucketsKept, limitsOf
  <2>2. CASE k[1] # c.id
    BY Zenon, <1>1, <1>4, <2>1, <2>2 DEF revised
  <2>3. CASE k[1] = c.id
    <3>1. buckets'[k] = convert(buckets[k], old, c.limits, c.ts) /\ ledger'[k] = accrue(k, old, c.ts)
      BY Zenon, <1>4, <2>1, <2>3
    <3>2. buckets[k] \in Buckets(old)
      BY ZenonT(30), <2>1, <2>3
    <3>3. /\ buckets'[k] \in Buckets(c.limits)
          /\ buckets'[k].lastRefill = effective(buckets[k], c.ts)
      <4>1. /\ convert(buckets[k], old, c.limits, c.ts) \in Buckets(c.limits)
            /\ convert(buckets[k], old, c.limits, c.ts).lastRefill = effective(buckets[k], c.ts)
        <5>1. Converts(buckets[k], old, c.limits, c.ts)
          BY ZenonT(30), <1>2, <1>3, <3>2, ConvertFacts
        <5> QED
          BY Zenon, <5>1 DEF Converts
      <4> QED
        BY Zenon, <3>1, <4>1
    <3>4. ledger'[k].clock = effective(buckets[k], c.ts) /\ ledger'[k].minted \in Int
      <4>1. /\ accrue(k, old, c.ts).clock = effective(buckets[k], c.ts)
            /\ accrue(k, old, c.ts).minted \in Int
        BY ZenonT(30), <1>2, <1>3, <2>1, <3>2, AccrueFacts
      <4> QED
        BY Zenon, <3>1, <4>1
    <3> QED
      BY Zenon, <1>1, <2>1, <2>3, <3>3, <3>4 DEF revised
  <2> QED
    BY Zenon, <2>2, <2>3
<1> QED
  BY Zenon, <1>5, <1>6 DEF BucketsKept, limitsOf

\* The bucket a decision finds, and what becomes of it.
keyOf(c) == <<c.policy, c.subject>>
limitsFor(c) == policies[c.policy].limits
found(c) == loadOrInitBucket(keyOf(c), limitsFor(c), c.ts)
outcome(c) == spend(refillBucket(found(c), limitsFor(c), c.ts), c.cost, limitsFor(c))

\* What a decision does to the tables.
LEMMA DecideBuckets ==
    ASSUME PoliciesOK, BucketsKept, NEW c \in Command, applyDecide(c)
    PROVE  LET k == keyOf(c)
               l == limitsFor(c)
           IN  /\ k[1] = c.policy /\ c.policy \in DOMAIN policies
               /\ validatePolicyFields(l) /\ c.ts \in 0..MaxInt
               /\ c.cost \in 1..l.maxCost
               /\ k \in DOMAIN buckets => found(c) = buckets[k]
               /\ k \notin DOMAIN buckets => found(c) = initBucket(l, c.ts)
               /\ found(c) \in Buckets(l)
               /\ policies' = policies
               /\ DOMAIN buckets' = DOMAIN buckets \cup {k}
               /\ DOMAIN ledger' = DOMAIN buckets'
               /\ buckets'[k] = outcome(c).bucket
               /\ ledger'[k] = IF k \in DOMAIN buckets THEN accrue(k, l, c.ts)
                               ELSE [clock |-> c.ts, minted |-> capMilli(l) * Scale]
               /\ \A j \in DOMAIN buckets :
                     j # k => buckets'[j] = buckets[j] /\ ledger'[j] = ledger[j]
               /\ \E d : /\ decisions' = decisions \cup {d}
                         /\ d.allowed = outcome(c).allowed
                         /\ d.digest = requestDigest(c)
<1> DEFINE k == keyOf(c)
           l == limitsFor(c)
           s == outcome(c)
           v == IF k \in DOMAIN ledger THEN accrue(k, l, c.ts)
                ELSE [clock |-> c.ts, minted |-> capMilli(l) * Scale]
           d == [key |-> requestKey(c), digest |-> requestDigest(c),
                 allowed |-> s.allowed, remaining |-> s.bucket.tokens,
                 observed |-> c.ts, expires |-> c.ts + TTL, index |-> index]
<1>1. /\ buckets' = put(buckets, k, s.bucket) /\ decisions' = decisions \cup {d}
      /\ ledger' = put(ledger, k, v) /\ policies' = policies
      /\ c.type = "decide" /\ chargeable(c)
  BY Zenon DEF applyDecide, keyOf, limitsFor, outcome, found, adminVars
<1>2. k[1] = c.policy
  BY Zenon DEF keyOf
<1>3. d.allowed = s.allowed /\ d.digest = requestDigest(c)
  BY Zenon
<1>4. c.ts \in 0..MaxInt /\ c.cost \in Int
  BY Zenon, <1>1, CommandAssumption
<1>5. c.policy \in DOMAIN policies /\ c.cost >= 1 /\ c.cost <= l.maxCost
  BY Zenon, <1>1 DEF chargeable, limitsFor
<1>6. validatePolicyFields(l)
  BY Zenon, <1>5 DEF PoliciesOK, limitsFor
<1>7. Sound(l) /\ l.maxCost \in Nat
  BY Zenon, <1>6, PolicySound DEF Sound
<1>8. /\ k \in DOMAIN buckets => found(c) = buckets[k]
      /\ k \notin DOMAIN buckets => found(c) = initBucket(l, c.ts)
  BY Zenon DEF found, loadOrInitBucket
<1>9. k \in DOMAIN buckets => buckets[k] \in Buckets(l)
  BY Zenon, <1>2 DEF BucketsKept, limitsOf, limitsFor
<1> HIDE DEF k, l, s, d, v
<1>10. found(c) \in Buckets(l)
  BY Zenon, <1>4, <1>7, <1>8, <1>9, InitBucket
<1>11. /\ DOMAIN buckets' = DOMAIN buckets \cup {k} /\ buckets'[k] = s.bucket
       /\ \A j \in DOMAIN buckets : j # k => buckets'[j] = buckets[j]
  BY Zenon, <1>1 DEF put
<1>12. DOMAIN ledger = DOMAIN buckets
  BY Zenon DEF BucketsKept
<1>13. /\ DOMAIN ledger' = DOMAIN buckets \cup {k} /\ ledger'[k] = v
       /\ \A j \in DOMAIN buckets : j # k => ledger'[j] = ledger[j]
  BY Zenon, <1>1, <1>12 DEF put
<1>14. v = IF k \in DOMAIN buckets THEN accrue(k, l, c.ts)
           ELSE [clock |-> c.ts, minted |-> capMilli(l) * Scale]
  BY Zenon, <1>12 DEF v
<1>15. c.cost \in 1..l.maxCost
  BY SMTT(30), <1>4, <1>5, <1>7
<1>16. \E x : decisions' = decisions \cup {x} /\ x.allowed = s.allowed /\ x.digest = requestDigest(c)
  BY Zenon, <1>1, <1>3
<1> QED
  BY ZenonT(30), <1>1, <1>2, <1>4, <1>5, <1>6, <1>8, <1>10, <1>11, <1>13, <1>14, <1>15, <1>16
     DEF k, l, s

\* A decision keeps the buckets.
LEMMA DecideKeepsBuckets ==
    ASSUME PoliciesOK, BucketsKept, NEW c \in Command, applyDecide(c)
    PROVE  BucketsKept'
<1> DEFINE k == keyOf(c)
           l == limitsFor(c)
           b == found(c)
<1>1. /\ k[1] = c.policy /\ c.policy \in DOMAIN policies
      /\ validatePolicyFields(l) /\ c.ts \in 0..MaxInt
      /\ c.cost \in 1..l.maxCost
      /\ k \in DOMAIN buckets => b = buckets[k]
      /\ k \notin DOMAIN buckets => b = initBucket(l, c.ts)
      /\ b \in Buckets(l)
      /\ policies' = policies
      /\ DOMAIN buckets' = DOMAIN buckets \cup {k}
      /\ DOMAIN ledger' = DOMAIN buckets'
      /\ buckets'[k] = outcome(c).bucket
      /\ ledger'[k] = IF k \in DOMAIN buckets THEN accrue(k, l, c.ts)
                      ELSE [clock |-> c.ts, minted |-> capMilli(l) * Scale]
      /\ \A j \in DOMAIN buckets :
            j # k => buckets'[j] = buckets[j] /\ ledger'[j] = ledger[j]
  BY Zenon, DecideBuckets
<1>2. l = policies[c.policy].limits /\ Sound(l)
  BY Zenon, <1>1, PolicySound DEF limitsFor
<1>3. outcome(c) = spend(refillBucket(b, l, c.ts), c.cost, l)
  BY ZenonT(30) DEF outcome
<1> HIDE DEF k, l, b
<1>4. /\ buckets'[k] \in Buckets(l)
      /\ buckets'[k].lastRefill = effective(b, c.ts)
  <2> DEFINE s == spend(refillBucket(b, l, c.ts), c.cost, l)
  <2>1. /\ Sound(l) /\ b \in Buckets(l) /\ c.ts \in 0..MaxInt /\ c.cost \in 1..l.maxCost
        /\ buckets'[k] = s.bucket
    BY Zenon, <1>1, <1>2, <1>3
  <2>2. s.bucket \in Buckets(l) /\ s.bucket.lastRefill = effective(b, c.ts)
    BY ZenonT(30), <2>1, DecidedFacts
  <2> HIDE DEF s
  <2> QED
    BY Zenon, <2>1, <2>2
<1>5. ledger'[k].clock = effective(b, c.ts) /\ ledger'[k].minted \in Int
  <2>1. CASE k \in DOMAIN buckets
    <3>1. ledger[k].clock = buckets[k].lastRefill /\ ledger[k].minted \in Int
      BY Zenon, <2>1 DEF BucketsKept
    <3>2. ledger'[k] = accrue(k, l, c.ts) /\ b = buckets[k] /\ buckets[k] \in Buckets(l)
      BY Zenon, <1>1, <2>1
    <3>3. validatePolicyFields(l) /\ c.ts \in 0..MaxInt
      BY Zenon, <1>1
    <3>4. /\ accrue(k, l, c.ts).clock = effective(buckets[k], c.ts)
          /\ accrue(k, l, c.ts).minted \in Int
      BY ZenonT(30), <2>1, <3>1, <3>2, <3>3, AccrueFacts
    <3> QED
      BY Zenon, <3>2, <3>4
  <2>2. CASE k \notin DOMAIN buckets
    <3>1. ledger'[k] = [clock |-> c.ts, minted |-> capMilli(l) * Scale] /\ b = initBucket(l, c.ts)
      BY Zenon, <1>1, <2>2
    <3>2. effective(b, c.ts) = c.ts
      BY Zenon, <1>1, <1>2, <3>1, InitBucket
    <3>3. capMilli(l) \in Nat /\ Scale \in Nat
      BY <1>2, LimitFacts, LimiterAssumption
    <3>4. capMilli(l) * Scale \in Nat
      BY Zenon, <3>3, Products
    <3>5. \A x \in Nat : x \in Int
      OBVIOUS
    <3> DEFINE v == [clock |-> c.ts, minted |-> capMilli(l) * Scale]
    <3>6. v.clock = c.ts /\ v.minted = capMilli(l) * Scale
      OBVIOUS
    <3>7. ledger'[k] = v
      BY Zenon, <3>1
    <3> HIDE DEF v
    <3> QED
      BY Zenon, <3>2, <3>4, <3>5, <3>6, <3>7
  <2> QED
    BY Zenon, <2>1, <2>2
<1>6. ASSUME NEW j \in DOMAIN buckets'
      PROVE  /\ j[1] \in DOMAIN policies'
             /\ buckets'[j] \in Buckets(policies'[j[1]].limits)
             /\ ledger'[j].clock = buckets'[j].lastRefill
             /\ ledger'[j].minted \in Int
  <2>1. CASE j = k
    BY Zenon, <1>1, <1>2, <1>4, <1>5, <2>1
  <2>2. CASE j # k
    <3>1. j \in DOMAIN buckets /\ buckets'[j] = buckets[j] /\ ledger'[j] = ledger[j]
      BY Zenon, <1>1, <2>2
    <3> QED
      BY Zenon, <1>1, <3>1 DEF BucketsKept, limitsOf
  <2> QED
    BY Zenon, <2>1, <2>2
<1> QED
  BY Zenon, <1>1, <1>6 DEF BucketsKept, limitsOf

\* The other commands touch no bucket; a policy keeps its limits when it is switched on
\* or off, and a new one has no bucket yet.
LEMMA BucketsAlone ==
    ASSUME PoliciesOK, BucketsKept, UNCHANGED <<buckets, ledger>>,
           \A p \in DOMAIN policies :
               p \in DOMAIN policies' /\ policies'[p].limits = policies[p].limits
    PROVE  BucketsKept'
BY Zenon DEF BucketsKept, limitsOf

\* What the other commands change.
LEMMA BucketsUntouched ==
    ASSUME PoliciesOK, NEW c,
           \/ applyCreatePolicy(c) \/ applySetPolicyActive(c) \/ applyCreateClient(c)
           \/ applyRevokeClient(c) \/ replayDecision(c) \/ applyPrune(c) \/ reject(c)
    PROVE  /\ UNCHANGED <<buckets, ledger>>
           /\ \A p \in DOMAIN policies :
                 p \in DOMAIN policies' /\ policies'[p].limits = policies[p].limits
<1>1. UNCHANGED <<buckets, ledger>>
  BY Zenon DEF applyCreatePolicy, applySetPolicyActive, applyCreateClient, applyRevokeClient,
     replayDecision, applyPrune, reject, decideVars
<1>2. CASE applyCreatePolicy(c)
  BY Zenon, <1>1, <1>2, CreationAdds
<1>3. CASE applySetPolicyActive(c)
  BY Zenon, <1>1, <1>3, EditsRevise DEF revised
<1>4. CASE ~applyCreatePolicy(c) /\ ~applySetPolicyActive(c)
  BY Zenon, <1>1, <1>4, PoliciesAlone
<1> QED
  BY Zenon, <1>2, <1>3, <1>4

\* Every reachable bucket of the state machine fits the policy it is kept for.
LEMMA BucketsInvariant == Spec => []BucketsKept
<1>1. Init => BucketsKept
  BY Zenon DEF Init, none, BucketsKept
<1>2. PoliciesOK /\ BucketsKept /\ [Next]_vars => BucketsKept'
  <2> SUFFICES ASSUME PoliciesOK, BucketsKept, [Next]_vars PROVE BucketsKept'
    BY Zenon
  <2>1. CASE UNCHANGED vars
    BY Zenon, <2>1, BucketsAlone DEF vars, adminVars, decideVars
  <2>2. ASSUME NEW c \in Command, Apply(c) PROVE BucketsKept'
    BY Zenon, <2>2, BucketsAlone, BucketsUntouched, UpdateKeepsBuckets, DecideKeepsBuckets
       DEF Apply, applyTx
  <2> QED
    BY Zenon, <2>1, <2>2 DEF Next
<1> QED
  BY <1>1, <1>2, PoliciesValid, PTL DEF Spec

\* Balances stay between empty and the capacity in force, and remainders count parts of
\* the interval in force, whatever edits and decisions are committed.
THEOREM BucketsStayInRange == Spec => []BucketsInRange
<1>1. BucketsKept => BucketsInRange
  BY Zenon DEF BucketsKept, BucketsInRange, limitsOf, Buckets
<1> QED
  BY <1>1, BucketsInvariant, PTL

------------------------------------------------------------------------------
(* Grants                                                                   *)

\* What bucket k is worth in the ledger's scale, and what the ledger has minted for it
\* beyond that: the most that may have been granted so far.
worth(k) == buckets[k].tokens * Scale + buckets[k].remainder * parts(limitsOf(k))

headroom(k) == IF k \in DOMAIN buckets THEN ledger[k].minted - worth(k) ELSE 0

\* The decision d was charged to bucket k.
chargedTo(d, k) == d.allowed /\ <<d.digest[1], d.digest[2]>> = k

\* A step makes at most one decision, and what it grants comes out of headroom that the
\* same step opened, to the last fraction; no step takes headroom away.
GrantCovered ==
    /\ \A d, e \in decisions' \ decisions : d = e
    /\ \A k \in DOMAIN buckets' :
          /\ headroom(k) <= headroom(k)'
          /\ \A d \in decisions' \ decisions :
                chargedTo(d, k) => d.digest[3] * MilliPerToken * Scale
                                      <= headroom(k)' - headroom(k)

\* A bucket's worth is its weight in parts.
LEMMA WorthIsWeight ==
    ASSUME NEW l, validatePolicyFields(l), NEW b \in Buckets(l)
    PROVE  /\ b.tokens * Scale + b.remainder * parts(l) = weight(b, l) * parts(l)
           /\ weight(b, l) \in Nat /\ weight(b, l) * parts(l) \in Nat
<1> DEFINE i == l.interval
           t == b.tokens
           m == b.remainder
           q == parts(l)
<1>1. q \in Nat /\ q * i = Scale
  BY Zenon, Parts
<1>2. i \in Nat /\ capMilli(l) \in Nat
  BY PolicySound, LimitFacts
<1>3. t \in Nat /\ m \in Nat
  BY <1>2 DEF Buckets
<1>4. weight(b, l) = t * i + m
  BY Zenon DEF weight
<1> HIDE DEF i, t, m, q
<1>5. t * Scale + m * q = (t * i + m) * q
  <2>1. t * (q * i) + m * q = (t * i + m) * q
    BY SMTT(30), <1>1, <1>2, <1>3
  <2> QED
    BY Zenon, <1>1, <2>1
<1>6. (t * i + m) \in Nat /\ (t * i + m) * q \in Nat
  BY <1>1, <1>2, <1>3
<1> QED
  BY Zenon, <1>4, <1>5, <1>6 DEF t, m, q

\* Scaling an inequality of weights.
LEMMA Scaled ==
    ASSUME NEW g \in Nat, NEW i \in Nat, NEW q \in Nat, NEW w \in Nat, NEW a \in Nat,
           g * i + w <= a
    PROVE  g * (q * i) + w * q <= a * q
<1>1. g * i + w \in Nat
  OBVIOUS
<1>2. (g * i + w) * q <= a * q
  BY Zenon, <1>1, Products
<1>3. (g * i + w) * q = g * (q * i) + w * q
  BY SMTT(30)
<1> QED
  BY Zenon, <1>2, <1>3

\* A step that leaves a bucket, its ledger entry and its limits alone leaves its headroom.
LEMMA HeadroomAlone ==
    ASSUME PoliciesOK, BucketsKept, NEW k \in DOMAIN buckets, k \in DOMAIN buckets',
           buckets'[k] = buckets[k], ledger'[k] = ledger[k],
           policies'[k[1]].limits = policies[k[1]].limits
    PROVE  headroom(k)' = headroom(k) /\ headroom(k) \in Int
<1> DEFINE l == limitsOf(k)
<1>1. validatePolicyFields(l) /\ buckets[k] \in Buckets(l) /\ ledger[k].minted \in Int
  BY Zenon DEF BucketsKept, PoliciesOK, limitsOf
<1>2. worth(k) = buckets[k].tokens * Scale + buckets[k].remainder * parts(l)
  BY Zenon DEF worth
<1>3. worth(k)' = buckets[k].tokens * Scale + buckets[k].remainder * parts(l)
  BY Zenon DEF worth, limitsOf
<1>4. worth(k) \in Int /\ worth(k)' = worth(k)
  <2> HIDE DEF l
  <2> QED
    BY SMTT(30), <1>1, <1>2, <1>3, WorthIsWeight
<1> HIDE DEF worth
<1> QED
  BY <1>1, <1>4 DEF headroom

\* What a decision charges comes out of the headroom it opens.
LEMMA DecideCovered ==
    ASSUME PoliciesOK, BucketsKept, BucketsKept', NEW c \in Command, applyDecide(c)
    PROVE  GrantCovered
<1> DEFINE k == keyOf(c)
           l == limitsFor(c)
           b == found(c)
           s == outcome(c)
           g == charge(s, c.cost)
           q == parts(l)
           i == l.interval
<1>1. /\ k[1] = c.policy /\ c.policy \in DOMAIN policies
      /\ validatePolicyFields(l) /\ c.ts \in 0..MaxInt
      /\ c.cost \in 1..l.maxCost
      /\ k \in DOMAIN buckets => b = buckets[k]
      /\ b \in Buckets(l)
      /\ policies' = policies
      /\ DOMAIN buckets' = DOMAIN buckets \cup {k}
      /\ buckets'[k] = s.bucket
      /\ ledger'[k] = IF k \in DOMAIN buckets THEN accrue(k, l, c.ts)
                      ELSE [clock |-> c.ts, minted |-> capMilli(l) * Scale]
      /\ \A j \in DOMAIN buckets :
            j # k => buckets'[j] = buckets[j] /\ ledger'[j] = ledger[j]
  BY Zenon, DecideBuckets
<1>2. PICK d : /\ decisions' = decisions \cup {d} /\ d.allowed = s.allowed
               /\ d.digest = requestDigest(c)
  BY Zenon, DecideBuckets
<1>3. /\ <<d.digest[1], d.digest[2]>> = k /\ d.digest[3] = c.cost
  BY <1>2 DEF requestDigest, keyOf
<1>4. Sound(l) /\ limitsOf(k) = l /\ limitsOf(k)' = l
  BY Zenon, <1>1, PolicySound DEF limitsFor, limitsOf
<1>5. s = spend(refillBucket(b, l, c.ts), c.cost, l)
  BY Zenon DEF outcome
<1>6. d.allowed => d.digest[3] * MilliPerToken = g
  BY Zenon, <1>2, <1>3 DEF charge
<1>7. worth(k)' = s.bucket.tokens * Scale + s.bucket.remainder * q
  BY Zenon, <1>1, <1>4 DEF worth, parts
<1>8. worth(k) = buckets[k].tokens * Scale + buckets[k].remainder * q
  BY Zenon, <1>4 DEF worth
<1> HIDE DEF k, l, b, s, g
<1>9. /\ s.bucket \in Buckets(l) /\ g \in Nat
      /\ g * i + weight(s.bucket, l) <= accrued(b, l, c.ts)
      /\ g * i + weight(s.bucket, l) <= fullWeight(l)
  BY Zenon, <1>1, <1>4, <1>5, DecidedFacts DEF g
<1>10. /\ accrued(b, l, c.ts) \in Nat /\ fullWeight(l) \in Nat /\ i \in Nat
       /\ elapsed(b, c.ts) \in Nat /\ rate(l) \in Nat /\ capMilli(l) \in Nat
  BY ZenonT(30), <1>1, <1>4, RefillNats
<1>11. q \in Nat /\ q * i = Scale
  BY Zenon, <1>1, Parts
<1> DEFINE w == weight(s.bucket, l)
           v == weight(b, l)
<1>12. /\ worth(k)' = w * q /\ w \in Nat /\ w * q \in Nat /\ v \in Nat /\ v * q \in Nat
       /\ k \in DOMAIN buckets => worth(k) = v * q
  BY Zenon, <1>1, <1>7, <1>8, <1>9, WorthIsWeight
<1>13. accrued(b, l, c.ts) = v + elapsed(b, c.ts) * rate(l) /\ fullWeight(l) = capMilli(l) * i
  BY Zenon DEF accrued, fullWeight
<1>14. g * (q * i) + w * q <= accrued(b, l, c.ts) * q /\ g * (q * i) + w * q <= fullWeight(l) * q
  BY Zenon, <1>9, <1>10, <1>11, <1>12, Scaled
<1> HIDE DEF w, v, q, i
<1>15. k \in DOMAIN buckets' /\ headroom(k)' = ledger'[k].minted - w * q
  <2> HIDE DEF worth
  <2> QED
    BY Zenon, <1>1, <1>12 DEF headroom
<1>16. headroom(k) \in Int /\ headroom(k)' \in Int /\ g * Scale <= headroom(k)' - headroom(k)
       /\ g * Scale \in Nat
  <2> DEFINE e == elapsed(b, c.ts) * rate(l)
  <2>1. e \in Nat /\ accrued(b, l, c.ts) * q = v * q + e * q /\ e * q \in Nat
    <3>1. e \in Nat
      BY <1>10
    <3>2. accrued(b, l, c.ts) = v + e
      BY Zenon, <1>13
    <3> HIDE DEF e
    <3>3. (v + e) * q = v * q + e * q /\ e * q \in Nat
      BY SMTT(30), <1>11, <1>12, <3>1
    <3> QED
      BY Zenon, <3>1, <3>2, <3>3
  <2>2. g * Scale \in Nat /\ g * (q * i) = g * Scale
    <3>1. Scale \in Nat /\ g \in Nat
      BY Zenon, <1>1, <1>9, Parts
    <3> QED
      BY Zenon, <1>11, <3>1, Products
  <2>3. CASE k \in DOMAIN buckets
    <3>1. /\ ledger[k].clock = buckets[k].lastRefill /\ ledger[k].minted \in Int
          /\ buckets[k] = b /\ buckets[k] \in Buckets(l)
      BY Zenon, <1>1, <2>3 DEF BucketsKept
    <3>2. ledger'[k].minted = ledger[k].minted + e * q
      <4>1. ledger'[k] = accrue(k, l, c.ts)
        BY Zenon, <1>1, <2>3
      <4>2. accrue(k, l, c.ts).minted = ledger[k].minted + elapsed(buckets[k], c.ts) * rate(l) * parts(l)
        BY Zenon, <1>1, <2>3, <3>1, AccrueFacts
      <4> QED
        BY Zenon, <3>1, <4>1, <4>2 DEF q
    <3>3. headroom(k) = ledger[k].minted - v * q
      <4> HIDE DEF worth
      <4> QED
        BY ZenonT(30), <1>12, <2>3 DEF headroom
    <3> HIDE DEF e
    <3> QED
      BY SMTT(30), <1>12, <1>14, <1>15, <2>1, <2>2, <3>1, <3>2, <3>3
  <2>4. CASE k \notin DOMAIN buckets
    <3>1. headroom(k) = 0
      BY ZenonT(30), <2>4 DEF headroom
    <3>2. ledger'[k].minted = capMilli(l) * Scale
      <4> DEFINE y == [clock |-> c.ts, minted |-> capMilli(l) * Scale]
      <4>1. y.minted = capMilli(l) * Scale
        OBVIOUS
      <4>2. ledger'[k] = y
        BY Zenon, <1>1, <2>4
      <4> HIDE DEF y
      <4> QED
        BY Zenon, <4>1, <4>2
    <3>3. fullWeight(l) * q = capMilli(l) * Scale /\ capMilli(l) * Scale \in Nat
      <4>1. (capMilli(l) * i) * q = capMilli(l) * (q * i) /\ capMilli(l) * (q * i) \in Nat
        BY <1>10, <1>11
      <4> QED
        BY Zenon, <1>11, <1>13, <4>1
    <3> QED
      BY SMTT(30), <1>12, <1>14, <1>15, <2>2, <3>1, <3>2, <3>3
  <2> QED
    BY Zenon, <2>3, <2>4
<1>17. ASSUME NEW j \in DOMAIN buckets', j # k
       PROVE  headroom(j)' = headroom(j) /\ headroom(j) \in Int
  <2>1. j \in DOMAIN buckets /\ buckets'[j] = buckets[j] /\ ledger'[j] = ledger[j]
    BY Zenon, <1>1, <1>17
  <2> QED
    BY Zenon, <1>1, <1>17, <2>1, HeadroomAlone
<1> HIDE DEF headroom
<1>18. \A x \in decisions' \ decisions : x = d
  BY Zenon, <1>2
<1>19. ASSUME NEW j \in DOMAIN buckets'
       PROVE  /\ headroom(j) <= headroom(j)'
              /\ \A x \in decisions' \ decisions :
                    chargedTo(x, j) => x.digest[3] * MilliPerToken * Scale
                                          <= headroom(j)' - headroom(j)
  <2>1. CASE j = k
    <3>1. headroom(j) <= headroom(j)'
      BY <1>16, <2>1
    <3>2. ASSUME NEW x \in decisions' \ decisions, chargedTo(x, j)
          PROVE  x.digest[3] * MilliPerToken * Scale <= headroom(j)' - headroom(j)
      <4>1. x = d /\ d.allowed
        BY Zenon, <1>18, <3>2 DEF chargedTo
      <4>2. x.digest[3] * MilliPerToken = g
        BY ZenonT(30), <1>6, <4>1
      <4> QED
        BY Zenon, <1>16, <2>1, <4>2
    <3> QED
      BY Zenon, <3>1, <3>2
  <2>2. CASE j # k
    <3>1. \A x \in decisions' \ decisions : ~chargedTo(x, j)
      BY Zenon, <1>3, <1>18, <2>2 DEF chargedTo
    <3> QED
      BY SMTT(30), <1>17, <2>2, <3>1
  <2> QED
    BY Zenon, <2>1, <2>2
<1>20. \A x, y \in decisions' \ decisions : x = y
  BY Zenon, <1>18
<1> QED
  BY Zenon, <1>19, <1>20 DEF GrantCovered

\* An edit opens headroom for the time it settles under the old rate, and what it clamps
\* or drops only adds to it.
LEMMA UpdateCovered ==
    ASSUME PoliciesOK, BucketsKept, NEW c \in Command, applyUpdatePolicy(c)
    PROVE  \A k \in DOMAIN buckets' : headroom(k) <= headroom(k)'
<1> DEFINE old == policies[c.id].limits
           new == c.limits
<1>1. /\ revised(c.id) /\ policies'[c.id].limits = new
      /\ validatePolicyFields(new) /\ c.id \in DOMAIN policies
  BY Zenon, EditsRevise DEF revised
<1>2. Sound(old) /\ Sound(new) /\ validatePolicyFields(old)
  BY Zenon, <1>1, PolicySound DEF PoliciesOK
<1>3. c.ts \in 0..MaxInt
  BY Zenon, CommandAssumption DEF applyUpdatePolicy
<1>4. /\ buckets' = [k \in DOMAIN buckets |->
            IF k[1] = c.id THEN convert(buckets[k], old, new, c.ts) ELSE buckets[k]]
      /\ ledger' = [k \in DOMAIN ledger |->
            IF k[1] = c.id THEN accrue(k, old, c.ts) ELSE ledger[k]]
  BY Zenon DEF applyUpdatePolicy
<1>5. DOMAIN buckets' = DOMAIN buckets /\ DOMAIN ledger = DOMAIN buckets
  BY Zenon, <1>4 DEF BucketsKept
<1> SUFFICES ASSUME NEW k \in DOMAIN buckets PROVE headroom(k) <= headroom(k)'
  BY Zenon, <1>5
<1>6. CASE k[1] # c.id
  <2>1. /\ buckets'[k] = buckets[k] /\ ledger'[k] = ledger[k]
        /\ policies'[k[1]].limits = policies[k[1]].limits
    BY Zenon, <1>1, <1>4, <1>5, <1>6 DEF revised, BucketsKept
  <2>2. headroom(k)' = headroom(k) /\ headroom(k) \in Int
    BY ZenonT(30), <1>5, <2>1, HeadroomAlone
  <2> QED
    BY <2>2
<1>7. CASE k[1] = c.id
  <2> DEFINE b == buckets[k]
             x == convert(b, old, new, c.ts)
             r == ideal(b, old, c.ts)
             q == parts(old)
             z == parts(new)
             e == elapsed(b, c.ts) * rate(old)
             m == ledger[k].minted
  <2>1. /\ b \in Buckets(old) /\ ledger[k].clock = b.lastRefill /\ m \in Int
    BY Zenon, <1>7 DEF BucketsKept, limitsOf
  <2>2. buckets'[k] = x /\ ledger'[k] = accrue(k, old, c.ts)
    BY Zenon, <1>4, <1>5, <1>7
  <2>3. worth(k) = b.tokens * Scale + b.remainder * q
    BY Zenon, <1>7 DEF worth, limitsOf
  <2>4. worth(k)' = x.tokens * Scale + x.remainder * z
    BY ZenonT(30), <1>1, <1>7, <2>2 DEF worth, limitsOf, parts
  <2>5. ledger'[k].minted = m + e * q
    <3>1. accrue(k, old, c.ts).minted
             = ledger[k].minted + elapsed(buckets[k], c.ts) * rate(old) * parts(old)
      BY ZenonT(30), <1>2, <1>3, <2>1, AccrueFacts
    <3> QED
      BY Zenon, <2>2, <3>1
  <2>6. /\ x \in Buckets(new) /\ x.tokens <= r.tokens
        /\ x.remainder = 0 \/ (old.interval = new.interval /\ x.remainder = r.remainder)
    <3> HIDE DEF b, old, new
    <3>1. Sound(old) /\ Sound(new) /\ b \in Buckets(old) /\ c.ts \in 0..MaxInt
      BY Zenon, <1>2, <1>3, <2>1
    <3>2. Converts(b, old, new, c.ts)
      BY ZenonT(30), <3>1, ConvertFacts
    <3> QED
      BY Zenon, <3>2 DEF Converts
  <2>7. /\ r \in Buckets(old)
        /\ weight(r, old) = IF accrued(b, old, c.ts) >= fullWeight(old) THEN fullWeight(old)
                            ELSE accrued(b, old, c.ts)
    BY Zenon, <1>2, <1>3, <2>1, IdealFacts
  <2>8. /\ accrued(b, old, c.ts) \in Nat /\ fullWeight(old) \in Nat
        /\ elapsed(b, c.ts) \in Nat /\ rate(old) \in Nat
    BY ZenonT(30), <1>2, <1>3, <2>1, RefillNats
  <2>9. e \in Nat
    BY <2>8
  <2>10. accrued(b, old, c.ts) = weight(b, old) + e
    BY Zenon DEF accrued
  <2>11. q \in Nat /\ z \in Nat /\ Scale \in Nat
    BY Zenon, <1>1, <1>2, Parts
  <2>12. old.interval = new.interval => z = q
    BY ZenonT(30) DEF parts
  <2>13. /\ x.tokens \in Nat /\ x.remainder \in Nat /\ r.tokens \in Nat /\ r.remainder \in Nat
    <3>1. \A l : \A y \in Buckets(l) : y.tokens \in Nat /\ y.remainder \in Nat
      BY DEF Buckets
    <3> HIDE DEF x, r
    <3> QED
      BY Zenon, <2>6, <2>7, <3>1
  <2> DEFINE wr == weight(r, old)
             wb == weight(b, old)
             tx == x.tokens
             mx == x.remainder
             tr == r.tokens
             mr == r.remainder
  <2>14. /\ b.tokens * Scale + b.remainder * q = wb * q /\ wb \in Nat /\ wb * q \in Nat
    BY Zenon, <1>2, <2>1, WorthIsWeight
  <2>15. /\ tr * Scale + mr * q = wr * q /\ wr \in Nat /\ wr * q \in Nat
    <3> HIDE DEF r
    <3> QED
      BY Zenon, <1>2, <2>7, WorthIsWeight
  <2>16. headroom(k) = m - wb * q
    <3> HIDE DEF worth
    <3> QED
      BY Zenon, <2>3, <2>14 DEF headroom
  <2>17. headroom(k)' = (m + e * q) - (tx * Scale + mx * z)
    <3> HIDE DEF worth, x
    <3> QED
      BY Zenon, <1>5, <2>4, <2>5 DEF headroom
  <2>18. wr <= wb + e
    <3> DEFINE a == accrued(b, old, c.ts)
               f == fullWeight(old)
    <3>1. a \in Nat /\ f \in Nat /\ wr = (IF a >= f THEN f ELSE a) /\ a = wb + e
      BY Zenon, <2>7, <2>8, <2>10
    <3> HIDE DEF a, f, wr, wb, e
    <3> QED
      BY <3>1
  <2> HIDE DEF b, x, r, q, z, e, m, wr, wb, tx, mx, tr, mr
  <2>19. wr * q <= wb * q + e * q /\ e * q \in Nat
    <3>1. wb + e \in Nat /\ (wb + e) * q = wb * q + e * q /\ e * q \in Nat
      BY SMTT(30), <2>9, <2>11, <2>14
    <3>2. wr * q <= (wb + e) * q
      BY ZenonT(30), <2>11, <2>15, <2>18, <3>1, Products
    <3> QED
      BY ZenonT(30), <3>1, <3>2
  <2>20. /\ tx \in Nat /\ mx \in Nat /\ tr \in Nat /\ mr \in Nat /\ tx <= tr
         /\ mx = 0 \/ (z = q /\ mx = mr)
    BY Zenon, <2>6, <2>12, <2>13 DEF tx, mx, tr, mr
  <2>21. tx * Scale <= tr * Scale /\ tx * Scale \in Nat /\ tr * Scale \in Nat
    BY Zenon, <2>11, <2>20, Products
  <2>22. mx * z <= mr * q /\ mx * z \in Nat /\ mr * q \in Nat
    BY <2>11, <2>20
  <2> QED
    BY SMTT(30), <2>1, <2>14, <2>15, <2>16, <2>17, <2>19, <2>21, <2>22 DEF m
<1> QED
  BY Zenon, <1>6, <1>7

\* No grant is made beyond what was minted, whatever edits, retries, prunes and clock
\* jumps come in between: each step charges at most the headroom it opens itself, for any
\* word size.  NeverOverGranted is the sum of this over the decisions of a subject.
THEOREM GrantsCovered == Spec => [][GrantCovered]_vars
<1>1. ASSUME PoliciesOK, BucketsKept, DecisionsRecorded, BucketsKept', [Next]_vars
      PROVE  [GrantCovered]_vars
  <2>1. ASSUME UNCHANGED <<buckets, ledger, decisions>>,
               \A p \in DOMAIN policies :
                   p \in DOMAIN policies' /\ policies'[p].limits = policies[p].limits
        PROVE  GrantCovered
    <3>1. \A k \in DOMAIN buckets' : headroom(k)' = headroom(k) /\ headroom(k) \in Int
      BY Zenon, <1>1, <2>1, HeadroomAlone DEF BucketsKept
    <3> HIDE DEF headroom
    <3>2. \A k \in DOMAIN buckets' : headroom(k) <= headroom(k)'
      BY <3>1
    <3> QED
      BY Zenon, <2>1, <3>2 DEF GrantCovered
  <2>2. ASSUME NEW c, \/ applyCreatePolicy(c) \/ applySetPolicyActive(c)
                      \/ applyCreateClient(c) \/ applyRevokeClient(c)
                      \/ replayDecision(c) \/ applyPrune(c) \/ reject(c)
        PROVE  UNCHANGED decisions
    BY Zenon, <1>1, <2>2 DEF applyCreatePolicy, applySetPolicyActive, applyCreateClient,
       applyRevokeClient, replayDecision, replayable, applyPrune, reject, decideVars,
       DecisionsRecorded
  <2>3. ASSUME NEW c \in Command, applyUpdatePolicy(c) PROVE GrantCovered
    <3>1. decisions' = decisions
      BY Zenon, <2>3 DEF applyUpdatePolicy
    <3>2. \A k \in DOMAIN buckets' : headroom(k) <= headroom(k)'
      BY Zenon, <1>1, <2>3, UpdateCovered
    <3> QED
      BY Zenon, <3>1, <3>2 DEF GrantCovered
  <2>4. ASSUME NEW c \in Command, Apply(c) PROVE GrantCovered
    BY ZenonT(30), <1>1, <2>1, <2>2, <2>3, <2>4, BucketsUntouched, DecideCovered DEF Apply, applyTx
  <2> QED
    BY Zenon, <1>1, <2>4 DEF Next
<1> QED
  BY <1>1, PoliciesValid, BucketsInvariant, DecisionsKept, PTL DEF Spec

==============================================================================

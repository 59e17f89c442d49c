---------------------------- MODULE TokenBucket -----------------------------
(***************************************************************************)
(* The integer token-bucket arithmetic of internal/limiter/token_bucket.go *)
(* in Go's int64: products and sums wrap, division truncates toward zero.  *)
(* The scale and the word size are constants, so TLC can reach overflow    *)
(* with small numbers; in the code they are 1000 and 2^63 - 1.             *)
(*                                                                         *)
(* A policy's limits are [capacity, refill, interval, maxCost]; a bucket is *)
(* [tokens, lastRefill, remainder], the fields of TokenBucketState that the *)
(* arithmetic reads.                                                       *)
(***************************************************************************)
EXTENDS Integers

CONSTANTS
    MilliPerToken,   \* fixed-point scale
    MaxInt           \* the largest int64

ASSUME ArithmeticAssumption ==
    MilliPerToken \in Nat \ {0} /\ MaxInt \in Nat \ {0}

\* An int64 result: the mathematical value modulo the word, two's complement.
wrap(x) == ((x + MaxInt + 1) % (2 * (MaxInt + 1))) - (MaxInt + 1)

\* Go's a / b for b > 0.
quotient(a, b) == IF a >= 0 THEN a \div b ELSE -((-a) \div b)

overflowed == [value |-> 0, overflow |-> TRUE]
exactly(v) == [value |-> v, overflow |-> FALSE]

\* Planted bug: overflow is taken to show as a negative product.
negativeMul(a, b) ==
    IF wrap(a * b) < 0 THEN overflowed ELSE exactly(wrap(a * b))

checkedMul(a, b) ==
    IF a = 0 \/ b = 0 THEN exactly(0)
    ELSE IF quotient(wrap(a * b), b) # a THEN overflowed
    ELSE exactly(wrap(a * b))

checkedAdd(a, b) ==
    IF wrap(a + b) < a THEN overflowed ELSE exactly(wrap(a + b))

\* Milli-tokens accrued in elapsed and the new remainder.
computeAdded(elapsed, refill, interval, remainder) ==
    LET step1 == checkedMul(elapsed, refill)
        step2 == checkedMul(step1.value, MilliPerToken)
        numerator == checkedAdd(step2.value, remainder)
    IN  IF step1.overflow \/ step2.overflow \/ numerator.overflow
        THEN [added |-> 0, remainder |-> 0, overflow |-> TRUE]
        ELSE [added |-> numerator.value \div interval,
              remainder |-> numerator.value % interval, overflow |-> FALSE]

capMilli(limits) == limits.capacity * MilliPerToken

\* Effective time: never before the last refill.
effective(b, now) == IF now > b.lastRefill THEN now ELSE b.lastRefill

\* Planted bug: the division remainder is dropped.
refillWithoutRemainder(b, limits, now) ==
    LET inc == computeAdded(effective(b, now) - b.lastRefill, limits.refill,
                            limits.interval, 0)
        sum == checkedAdd(b.tokens, inc.added)
    IN  IF inc.overflow \/ sum.overflow \/ sum.value >= capMilli(limits)
        THEN [tokens |-> capMilli(limits), remainder |-> 0,
              lastRefill |-> effective(b, now)]
        ELSE [tokens |-> sum.value, remainder |-> 0,
              lastRefill |-> effective(b, now)]

\* Planted bug: time may move backward.
refillBackward(b, limits, now) ==
    LET elapsed == effective(b, now) - b.lastRefill
        inc == computeAdded(elapsed, limits.refill, limits.interval, b.remainder)
        sum == checkedAdd(b.tokens, inc.added)
    IN  IF inc.overflow \/ sum.overflow \/ sum.value >= capMilli(limits)
        THEN [tokens |-> capMilli(limits), remainder |-> 0, lastRefill |-> now]
        ELSE [tokens |-> sum.value, remainder |-> inc.remainder,
              lastRefill |-> now]

refillBucket(b, limits, now) ==
    LET inc == computeAdded(effective(b, now) - b.lastRefill, limits.refill,
                            limits.interval, b.remainder)
        sum == checkedAdd(b.tokens, inc.added)
    IN  IF inc.overflow \/ sum.overflow \/ sum.value >= capMilli(limits)
        THEN [tokens |-> capMilli(limits), remainder |-> 0,
              lastRefill |-> effective(b, now)]
        ELSE [tokens |-> sum.value, remainder |-> inc.remainder,
              lastRefill |-> effective(b, now)]

\* Planted bug: the wait is rounded down.
retryAfterFloor(needed, limits) ==
    LET wait == (needed * limits.interval) \div (limits.refill * MilliPerToken)
    IN  IF wait = 0 THEN 1 ELSE wait

\* How long until needed milli-tokens have accrued.
retryAfter(needed, limits) ==
    LET rate == limits.refill * MilliPerToken
        num == checkedMul(needed, limits.interval)
        ceil == quotient(wrap(num.value + rate - 1), rate)
    IN  IF num.overflow THEN limits.interval ELSE IF ceil <= 0 THEN 1 ELSE ceil

\* The balance after cost tokens were asked for, and the answer.
spend(b, cost, limits) ==
    LET costMilli == cost * MilliPerToken
    IN  IF b.tokens >= costMilli
        THEN [bucket |-> [b EXCEPT !.tokens = @ - costMilli],
              allowed |-> TRUE, retryAfter |-> 0]
        ELSE [bucket |-> b, allowed |-> FALSE,
              retryAfter |-> retryAfter(costMilli - b.tokens, limits)]

\* A new subject starts full as of the command's timestamp.
initBucket(limits, now) ==
    [tokens |-> capMilli(limits), remainder |-> 0, lastRefill |-> now]
=============================================================================

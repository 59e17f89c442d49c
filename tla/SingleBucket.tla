---------------------------- MODULE SingleBucket ----------------------------
(***************************************************************************)
(* One subject's bucket under one policy, from its first decision on: what *)
(* applyDecide does to it, whatever the leaders' clocks stamp on commands. *)
(***************************************************************************)
EXTENDS TokenBucket

CONSTANTS
    Limits,     \* the policies a run tries
    MaxTime     \* bound: timestamps

ASSUME LimitsAssumption ==
    /\ MaxTime \in 0..MaxInt
    /\ Limits \subseteq [capacity : Nat \ {0}, refill : Nat \ {0},
                         interval : Nat \ {0}, maxCost : Nat \ {0}]
    /\ \A l \in Limits :
          /\ l.maxCost <= l.capacity
          \* what the bounds of validation.go give for 64 bits: a numerator that
          \* overflows is more than a full bucket, and no single one of the
          \* other intermediate results overflows
          /\ l.capacity * MilliPerToken * l.interval <= MaxInt
          /\ l.capacity * MilliPerToken * l.interval + l.refill * MilliPerToken
                <= MaxInt + 1

VARIABLES
    limits,
    bucket,
    created,    \* model only: timestamp of the first decision
    granted     \* model only: milli-tokens granted so far

bucketVars == <<limits, bucket, created, granted>>

\* The part of applyDecide that moves tokens: refill to now, then spend.
decided(b, cost, now) == spend(refillBucket(b, limits, now), cost, limits)

charge(s, cost) == IF s.allowed THEN cost * MilliPerToken ELSE 0

BucketInit ==
    /\ limits \in Limits
    /\ \E now \in 0..MaxTime, cost \in 1..limits.maxCost :
          LET s == decided(initBucket(limits, now), cost, now)
          IN  /\ bucket = s.bucket
              /\ created = now
              /\ granted = charge(s, cost)

decide(now, cost) ==
    LET s == decided(bucket, cost, now)
    IN  /\ bucket' = s.bucket
        /\ granted' = granted + charge(s, cost)
        /\ UNCHANGED <<limits, created>>

BucketNext == \E now \in 0..MaxTime, cost \in 1..limits.maxCost : decide(now, cost)

BucketSpec == BucketInit /\ [][BucketNext]_bucketVars

-----------------------------------------------------------------------------

\* The limiter's promise: since the first decision no more was granted than one
\* full bucket plus what the rate gives for the time that passed, to the last
\* fraction, although leaders' clocks jump back and forth.
GrantsBounded ==
    (granted + bucket.tokens) * limits.interval + bucket.remainder
        <= capMilli(limits) * limits.interval
             + (bucket.lastRefill - created) * limits.refill * MilliPerToken

\* What refillBucket should compute, in unbounded arithmetic.
idealRefill(b, now) ==
    LET credit == b.tokens * limits.interval + b.remainder
                    + (effective(b, now) - b.lastRefill)
                         * limits.refill * MilliPerToken
        full == credit >= capMilli(limits) * limits.interval
    IN  [tokens |-> IF full THEN capMilli(limits) ELSE credit \div limits.interval,
         remainder |-> IF full THEN 0 ELSE credit % limits.interval,
         lastRefill |-> effective(b, now)]

\* The overflow checks of computeAdded lose nothing: the wrapped int64 result is
\* the mathematical one, and "overflow means full" is exact.
RefillExact ==
    \A now \in 0..MaxTime :
        refillBucket(bucket, limits, now) = idealRefill(bucket, now)

\* How often a bucket is touched does not matter: refilling on the way gives what
\* one refill at the end gives, so polling neither gains nor loses credit.
RefillComposes ==
    \A now \in 0..MaxTime : \A later \in now..MaxTime :
        refillBucket(refillBucket(bucket, limits, now), limits, later)
            = refillBucket(bucket, limits, later)

\* A caller denied by a clock that is not behind the bucket, and who waits
\* retry_after_ms undisturbed, is allowed.
RetryAfterSuffices ==
    \A now \in bucket.lastRefill..MaxTime, cost \in 1..limits.maxCost :
        LET s == decided(bucket, cost, now)
        IN  ~s.allowed /\ now + s.retryAfter <= MaxInt
                => decided(s.bucket, cost, now + s.retryAfter).allowed
=============================================================================

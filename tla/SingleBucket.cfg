CONSTANTS
    MilliPerToken = 2
    MaxInt = 15
    MaxTime = 15
    Limits <- SmallLimits
SPECIFICATION BucketSpec
INVARIANTS GrantsBounded RefillExact RefillComposes RetryAfterSuffices

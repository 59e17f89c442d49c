CONSTANTS
    MilliPerToken = 2
    MaxInt = 127
    MaxCapacity = 2
    MaxRefill = 2
    MinInterval = 1
    MaxInterval = 3
    Scale = 6
    TTL = 2
    DefaultKeep = 2
    PolicyID = {p1, p2}
    ClientID = {c1, c2}
    Subject = {s1}
    RequestID = {r1, r2, r3}
    KeyPrefix = {k1, k2}
    Command <- AllCommands
    MaxIndex = 7
SYMMETRY IDSymmetry
SPECIFICATION LoadSpec
CHECK_DEADLOCK FALSE
INVARIANTS BucketsInRange NeverOverGranted OneDecisionPerKey NoLostEdit PrefixFindsClient

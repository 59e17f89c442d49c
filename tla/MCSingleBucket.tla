--------------------------- MODULE MCSingleBucket ---------------------------
(***************************************************************************)
(* Every policy of at most two tokens, three per refill and an interval of *)
(* one or three that LimitsAssumption admits for the word size of the run. *)
(***************************************************************************)
EXTENDS SingleBucket

SmallLimits ==
    {l \in [capacity : 1..2, refill : 1..3, interval : {1, 3}, maxCost : 1..2] :
        /\ l.maxCost <= l.capacity
        /\ (l.capacity * l.interval + l.refill) * MilliPerToken <= MaxInt + 1}
=============================================================================

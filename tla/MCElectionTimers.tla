-------------------------- MODULE MCElectionTimers --------------------------
(* ElectionTimers for TLC: no node is named anywhere. *)
EXTENDS ElectionTimers, TLC

CONSTANTS StartHeartbeat, StartTimeout   \* the bounds of a start-up

Symmetry == Permutations(Node)

\* Start-up reaches far more states, so its configurations are bounded more.
SmallStart == Init /\ config.heartbeat <= StartHeartbeat /\ config.max <= StartTimeout

BoundedSpec == (SmallStart \/ SettledInit) /\ [][Next]_vars
=============================================================================

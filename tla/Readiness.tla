------------------------------ MODULE Readiness ------------------------------
(* GET /health/ready as a function of a node's status (internal/api/health.go). *)
(* Times are ages: how long ago the contact was, or `never' for the zero       *)
(* timestamp of a contact that has not happened.                                *)
EXTENDS Integers

never == -1

lagThreshold == 64

\* Planted bug: the window is a single interval.
oneHeartbeat(heartbeat) == heartbeat

\* NewHealthHandler: the window is five heartbeat intervals.
staleWindow(heartbeat) == 5 * heartbeat

recent(age, heartbeat) == age # never /\ age <= staleWindow(heartbeat)

\* Both indexes are unsigned, so the comparison guards the subtraction.
lagging(s) == s.commit > s.applied /\ s.commit - s.applied > lagThreshold

\* s is the Status of the node; s.stopped says that Status failed instead.
readiness(s, draining, heartbeat) ==
  CASE draining -> "shutting_down"
    [] ~draining /\ s.stopped -> "starting"
    [] ~draining /\ ~s.stopped /\ s.role = "leader" ->
         IF recent(s.quorumAge, heartbeat) THEN "ready" ELSE "no_quorum"
    [] ~draining /\ ~s.stopped /\ s.role = "candidate" -> "no_leader"
    [] ~draining /\ ~s.stopped /\ s.role = "follower" ->
         IF ~s.led \/ ~recent(s.leaderAge, heartbeat) THEN "no_leader"
         ELSE IF lagging(s) THEN "lagging" ELSE "ready"
==============================================================================

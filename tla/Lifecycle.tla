------------------------------ MODULE Lifecycle ------------------------------
(****************************************************************************)
(* One process from serving to exit: run in cmd/quorumlimiter/main.go with  *)
(* its deferred calls, internal/server, the draining flag of the health     *)
(* check, and what Stop means to the requests still waiting in Propose.     *)
(*                                                                          *)
(* Time is discrete.  A decision waits for its proposal until               *)
(* ProposalTimeout, an admin request until it is answered or the process    *)
(* exits.  The load balancer is the one the documentation describes: it     *)
(* polls /health/ready and sends requests to a node it last saw ready.      *)
(****************************************************************************)
EXTENDS Readiness, FiniteSets

CONSTANTS
  Decision,          \* decision requests, through the balancer
  Admin,             \* admin requests, straight to the node, no deadline
  ProposalTimeout,
  ShutdownTimeout

Request == Decision \cup Admin

ASSUME RequestAssumption == Decision \cap Admin = {}
ASSUME TimeoutAssumption == ProposalTimeout \in Nat /\ ShutdownTimeout \in Nat

VARIABLES
  phase,       \* where run is
  draining,    \* the health check's flag
  listening,   \* the listener accepts connections
  left,        \* time left before Shutdown gives up
  cancelled,   \* Stop has cancelled the node's context
  looping,     \* the event loop has not returned
  storeOpen,   \* the store has not been closed
  request,     \* the state of each request
  age,         \* how long each request has been waiting
  routed       \* the balancer sends requests to this node

process == <<phase, draining, listening, left, cancelled, looping, storeOpen>>
vars == <<process, request, age, routed>>

waiting == {r \in Request : request[r] = "waiting"}

Init ==
  /\ phase = "serving"
  /\ draining = FALSE
  /\ listening = TRUE
  /\ left = ShutdownTimeout
  /\ cancelled = FALSE
  /\ looping = TRUE
  /\ storeOpen = TRUE
  /\ request = [r \in Request |-> "unsent"]
  /\ age = [r \in Request |-> 0]
  /\ routed = TRUE

------------------------------------------------------------------------------
(* Requests.                                                                *)

send(r) ==
  /\ request[r] = "unsent"
  /\ phase # "exited"
  /\ r \in Decision => routed
  /\ request' = [request EXCEPT ![r] = IF listening THEN "waiting" ELSE "refused"]
  /\ UNCHANGED <<process, age, routed>>

\* The proposal is applied, its leader steps down, or it cannot be appended.
conclude(r) ==
  /\ request[r] = "waiting"
  /\ looping
  /\ phase # "exited"
  /\ request' = [request EXCEPT ![r] = "answered"]
  /\ UNCHANGED <<process, age, routed>>

\* The deadline of the proposal passes, or Propose sees that the node stopped.
giveUp(r) ==
  /\ request[r] = "waiting"
  /\ phase # "exited"
  /\ cancelled \/ (r \in Decision /\ age[r] >= ProposalTimeout)
  /\ request' = [request EXCEPT ![r] = "answered"]
  /\ UNCHANGED <<process, age, routed>>

\* The node is a leader in contact with a quorum until it is stopped.
healthy ==
  [stopped |-> cancelled, role |-> "leader", led |-> TRUE, leaderAge |-> never,
   quorumAge |-> 0, commit |-> 0, applied |-> 0]

\* The balancer asks /health/ready; a refused connection is not ready either.
poll ==
  /\ phase # "exited"
  /\ routed' = (listening /\ readiness(healthy, draining, 1) = "ready")
  /\ UNCHANGED <<process, request, age>>

------------------------------------------------------------------------------
(* The process.                                                             *)

\* SIGTERM: the flag is set, then Shutdown starts.
signal ==
  /\ phase = "serving"
  /\ phase' = "draining"
  /\ draining' = TRUE
  /\ UNCHANGED <<listening, left, cancelled, looping, storeOpen, request, age, routed>>

\* http.Server.Shutdown closes the listener before it waits.
Shutdown ==
  /\ phase = "draining"
  /\ phase' = "shutting"
  /\ listening' = FALSE
  /\ UNCHANGED <<draining, left, cancelled, looping, storeOpen, request, age, routed>>

\* Planted bug: Shutdown waits with no limit.
shutdownDrained ==
  /\ phase = "shutting"
  /\ waiting = {}
  /\ phase' = "stopping"
  /\ UNCHANGED <<draining, listening, left, cancelled, looping, storeOpen, request, age, routed>>

\* Planted bug: Shutdown gives up at once.
shutdownAtOnce ==
  /\ phase = "shutting"
  /\ phase' = "stopping"
  /\ UNCHANGED <<draining, listening, left, cancelled, looping, storeOpen, request, age, routed>>

\* Shutdown returns when no request is in flight, or at its timeout; run
\* returns either way and the deferred calls begin.
shutdownReturns ==
  /\ phase = "shutting"
  /\ waiting = {} \/ left = 0
  /\ phase' = "stopping"
  /\ UNCHANGED <<draining, listening, left, cancelled, looping, storeOpen, request, age, routed>>

\* The listener fails, at the start or later: run returns without a shutdown.
listenFails ==
  /\ phase = "serving"
  /\ phase' = "stopping"
  /\ listening' = FALSE
  /\ UNCHANGED <<draining, left, cancelled, looping, storeOpen, request, age, routed>>

\* Node.Stop: cancel the context, then wait for the loop to return.
Stop ==
  /\ phase = "stopping"
  /\ phase' = "joining"
  /\ cancelled' = TRUE
  /\ UNCHANGED <<draining, listening, left, looping, storeOpen, request, age, routed>>

loopReturns ==
  /\ cancelled /\ looping
  /\ looping' = FALSE
  /\ UNCHANGED <<phase, draining, listening, left, cancelled, storeOpen, request, age, routed>>

\* Planted bug: Stop does not wait for the loop.
closeAtOnce ==
  /\ phase = "joining"
  /\ phase' = "closed"
  /\ storeOpen' = FALSE
  /\ UNCHANGED <<draining, listening, left, cancelled, looping, request, age, routed>>

\* The store's Close was deferred first, so it runs last.
Close ==
  /\ phase = "joining"
  /\ ~looping
  /\ phase' = "closed"
  /\ storeOpen' = FALSE
  /\ UNCHANGED <<draining, listening, left, cancelled, looping, request, age, routed>>

\* os.Exit: whatever is still waiting is cut off.
exit ==
  /\ phase = "closed"
  /\ phase' = "exited"
  /\ request' = [r \in Request |-> IF r \in waiting THEN "aborted" ELSE request[r]]
  /\ UNCHANGED <<draining, listening, left, cancelled, looping, storeOpen, age, routed>>

\* The clock moves on when nothing is due.
tick ==
  /\ phase \in {"serving", "shutting"}
  /\ \A r \in waiting \cap Decision : age[r] < ProposalTimeout
  /\ phase = "shutting" => left > 0
  /\ left' = IF phase = "shutting" THEN left - 1 ELSE left
  /\ age' = [r \in Request |-> IF r \in waiting \cap Decision THEN age[r] + 1 ELSE age[r]]
  /\ UNCHANGED <<phase, draining, listening, cancelled, looping, storeOpen, request, routed>>

step ==
  \/ Shutdown \/ shutdownReturns
  \/ Stop \/ loopReturns \/ Close \/ exit

Next ==
  \/ \E r \in Request : send(r) \/ conclude(r) \/ giveUp(r)
  \/ poll \/ signal \/ listenFails \/ step \/ tick

Spec == Init /\ [][Next]_vars

\* run goes on, the loop leaves its select and deadlines pass.  Nothing is
\* assumed of the requests themselves.
FairSpec == Spec /\ WF_vars(step) /\ WF_vars(tick) /\ \A r \in Request : WF_vars(giveUp(r))

------------------------------------------------------------------------------
\* The store is not closed under the event loop, whichever way the process
\* ends (the order of the deferred calls, Stop waiting for the loop).
StoreOutlivesLoop == looping => storeOpen

\* A signalled shutdown cuts no decision off: every decision that was accepted
\* has its answer before the process exits (ShutdownTimeout, ProposalTimeout).
DecisionsAreAnswered == draining => \A r \in Decision : request[r] # "aborted"

\* A signal is always followed by the exit, even with a request in flight that
\* has no deadline on a node that can no longer commit.
SignalEndsProcess == (phase = "draining") ~> (phase = "exited")

==============================================================================

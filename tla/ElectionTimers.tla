--------------------------- MODULE ElectionTimers ---------------------------
(****************************************************************************)
(* Election timers, heartbeats and contact times against the clock, for the *)
(* timeouts the configuration accepts: internal/raft/election.go, the timer *)
(* and contact parts of node.go, rpc.go and replication.go, the timeout     *)
(* rules of internal/config/config.go, and the health check.                *)
(*                                                                          *)
(* Time is discrete.  A timer that is due fires, and a message is handled   *)
(* or lost, before the clock moves on.  Raft.tla has the same handlers      *)
(* without the clock, with delay, reordering, logs and restarts; here a log *)
(* is only up to date or behind.                                            *)
(****************************************************************************)
EXTENDS Readiness, FiniteSets

CONSTANTS
  Node,
  MaxHeartbeat,   \* bound on the heartbeat interval
  MaxTimeout,     \* bound on the election timeouts
  MaxTerm,        \* bound on terms
  MaxLost,        \* exchanges a follower may lose in a row once the network is calm
  None            \* no node

ASSUME TimeAssumption == {MaxHeartbeat, MaxTimeout, MaxTerm, MaxLost} \subseteq Nat
ASSUME NoneAssumption == None \notin Node

VARIABLES
  config,      \* heartbeat interval, shortest and longest election timeout
  role, term, votedFor, leaderID, votes,
  electIn,     \* time until the election timer fires, `never' when it is off
  beatIn,      \* time until the heartbeat timer fires, `never' when it is off
  leaderAge,   \* time since lastLeaderContactMS
  peerAge,     \* time since peerContactMS, per peer
  behind,      \* the nodes whose logs lack entries the others have
  sent,        \* requests and replies on their way
  calm,        \* whether MaxLost bounds the loss, the same throughout a behaviour
  lost         \* exchanges lost in a row, per follower

timers == <<electIn, beatIn, leaderAge, peerAge>>
consensus == <<role, term, votedFor, leaderID, votes>>
vars == <<config, calm, consensus, timers, behind, sent, lost>>

heartbeatsPerElection == 3

\* Planted bug: the ratio may be met exactly.
timeoutsLoose(c) ==
  /\ c.min >= heartbeatsPerElection * c.heartbeat
  /\ c.max > c.min

\* Load refuses every other combination.
timeoutsValid(c) ==
  /\ c.min > heartbeatsPerElection * c.heartbeat
  /\ c.max > c.min

configs ==
  {c \in [heartbeat : 1..MaxHeartbeat, min : 1..MaxTimeout, max : 1..MaxTimeout] : timeoutsValid(c)}

peers(n) == Node \ {n}
quorum == Cardinality(Node) \div 2 + 1

\* Ages beyond every threshold are not told apart.
maxAge == staleWindow(config.heartbeat) + 1

\* randomElectionTimeout draws from min up to, not including, max.
randomElectionTimeout == config.min..config.max - 1

resetElectionTimer(n) == \E t \in randomElectionTimeout : electIn' = [electIn EXCEPT ![n] = t]

Init ==
  /\ config \in configs
  /\ calm = FALSE
  /\ role = [n \in Node |-> "follower"]
  /\ term = [n \in Node |-> 0]
  /\ votedFor = [n \in Node |-> None]
  /\ leaderID = [n \in Node |-> None]
  /\ votes = [n \in Node |-> 0]
  /\ electIn \in [Node -> randomElectionTimeout]
  /\ beatIn = [n \in Node |-> never]
  /\ leaderAge = [n \in Node |-> never]
  /\ peerAge = [n \in Node |-> [p \in peers(n) |-> never]]
  /\ behind \in {B \in SUBSET Node : Cardinality(B) < quorum}
  /\ sent = {}
  /\ lost = [n \in Node |-> 0]

------------------------------------------------------------------------------
(* State transitions.  They constrain every consensus variable and timer of *)
(* the node; a node that is not named keeps its state.                      *)

put(f, n, v) == [f EXCEPT ![n] = v]

\* Planted bug: the leader is remembered across terms.
followRemembering(n, t, l, vote) ==
  /\ role' = put(role, n, "follower")
  /\ term' = put(term, n, t)
  /\ votedFor' = put(votedFor, n, vote)
  /\ leaderID' = IF l = None THEN leaderID ELSE put(leaderID, n, l)
  /\ beatIn' = put(beatIn, n, never)
  /\ resetElectionTimer(n)

\* Planted bug: the heartbeat timer is left running.
followBeating(n, t, l, vote) ==
  /\ role' = put(role, n, "follower")
  /\ term' = put(term, n, t)
  /\ votedFor' = put(votedFor, n, vote)
  /\ leaderID' = put(leaderID, n, l)
  /\ resetElectionTimer(n)
  /\ UNCHANGED beatIn

\* What becomeFollower leaves, with the vote the handler ends up with.  The
\* election timer is re-armed whatever the reason.
follow(n, t, l, vote) ==
  /\ role' = put(role, n, "follower")
  /\ term' = put(term, n, t)
  /\ votedFor' = put(votedFor, n, vote)
  /\ leaderID' = put(leaderID, n, l)
  /\ beatIn' = put(beatIn, n, never)
  /\ resetElectionTimer(n)

becomeFollower(n, t, l) == follow(n, t, l, IF t > term[n] THEN None ELSE votedFor[n])

request(kind, n, t) == {[kind |-> kind, from |-> n, to |-> p, term |-> t] : p \in peers(n)}

reply(m, kind, t, ok) ==
  [kind |-> kind, from |-> m.to, to |-> m.from, term |-> t, ok |-> ok, sentIn |-> m.term]

\* onElectionTimeout, startElection and becomeCandidate.
startElection(n) ==
  /\ electIn[n] = 0
  /\ term[n] < MaxTerm
  /\ role' = put(role, n, "candidate")
  /\ term' = put(term, n, term[n] + 1)
  /\ votedFor' = put(votedFor, n, n)
  /\ leaderID' = put(leaderID, n, None)
  /\ votes' = put(votes, n, 1)
  /\ beatIn' = put(beatIn, n, never)
  /\ resetElectionTimer(n)
  /\ sent' = sent \cup request("vote", n, term[n] + 1)
  /\ UNCHANGED <<config, calm, leaderAge, peerAge, behind, lost>>

candidateLogUpToDate(n, c) == c \in behind => n \in behind

handleRequestVote(m) ==
  LET n == m.to
      higher == m.term > term[n]
      granted == /\ m.term >= term[n]
                 /\ higher \/ votedFor[n] \in {None, m.from}
                 /\ candidateLogUpToDate(n, m.from)
  IN  /\ m.kind = "vote"
      /\ \/ higher /\ follow(n, m.term, None, IF granted THEN m.from ELSE None)
         \/ /\ ~higher /\ granted
            /\ votedFor' = put(votedFor, n, m.from)
            /\ resetElectionTimer(n)
            /\ UNCHANGED <<role, term, leaderID, beatIn>>
         \/ ~higher /\ ~granted /\ UNCHANGED <<role, term, votedFor, leaderID, electIn, beatIn>>
      /\ sent' = (sent \ {m}) \cup {reply(m, "voteReply", term'[n], granted)}
      /\ UNCHANGED <<config, calm, votes, leaderAge, peerAge, behind, lost>>

\* becomeLeader and promoteToLeader: contacts start afresh, the election timer
\* is off and the first AppendEntries leave at once.
promoteToLeader(n) ==
  /\ role' = put(role, n, "leader")
  /\ leaderID' = put(leaderID, n, n)
  /\ electIn' = put(electIn, n, never)
  /\ beatIn' = put(beatIn, n, config.heartbeat)
  /\ peerAge' = put(peerAge, n, [p \in peers(n) |-> never])

handleVoteResponse(m) ==
  LET n == m.to
      counted == m.term <= term[n] /\ role[n] = "candidate" /\ m.sentIn = term[n] /\ m.ok
  IN  /\ m.kind = "voteReply"
      /\ votes' = IF counted THEN put(votes, n, votes[n] + 1) ELSE votes
      /\ \/ /\ m.term > term[n]
            /\ becomeFollower(n, m.term, None)
            /\ sent' = sent \ {m}
            /\ UNCHANGED peerAge
         \/ /\ counted /\ votes[n] + 1 >= quorum
            /\ promoteToLeader(n)
            /\ sent' = (sent \ {m}) \cup request("append", n, term[n])
            /\ UNCHANGED <<term, votedFor>>
         \/ /\ m.term <= term[n] /\ ~(counted /\ votes[n] + 1 >= quorum)
            /\ sent' = sent \ {m}
            /\ UNCHANGED <<role, term, votedFor, leaderID, electIn, beatIn, peerAge>>
      /\ UNCHANGED <<config, calm, leaderAge, behind, lost>>

\* onHeartbeat of a leader; stepping down turns the timer off.
onHeartbeat(n) ==
  /\ beatIn[n] = 0
  /\ beatIn' = put(beatIn, n, config.heartbeat)
  /\ sent' = sent \cup request("append", n, term[n])
  /\ UNCHANGED <<config, calm, consensus, electIn, leaderAge, peerAge, behind, lost>>

\* An accepted AppendEntries brings the log up to date as well (Raft.tla has
\* the rounds that may take).
handleAppendEntries(m) ==
  LET n == m.to
      ok == m.term >= term[n]
  IN  /\ m.kind = "append"
      /\ \/ ok /\ becomeFollower(n, m.term, m.from)
         \/ ~ok /\ UNCHANGED <<role, term, votedFor, leaderID, electIn, beatIn>>
      /\ leaderAge' = IF ok THEN put(leaderAge, n, 0) ELSE leaderAge
      /\ behind' = IF ok THEN behind \ {n} ELSE behind
      /\ sent' = (sent \ {m}) \cup {reply(m, "appendReply", term'[n], ok)}
      /\ UNCHANGED <<config, calm, votes, peerAge, lost>>

handleAppendResponse(m) ==
  LET n == m.to
      current == m.term <= term[n] /\ role[n] = "leader" /\ m.sentIn = term[n]
  IN  /\ m.kind = "appendReply"
      /\ \/ m.term > term[n] /\ becomeFollower(n, m.term, None)
         \/ m.term <= term[n] /\ UNCHANGED <<role, term, votedFor, leaderID, electIn, beatIn>>
      /\ peerAge' = IF current THEN [peerAge EXCEPT ![n][m.from] = 0] ELSE peerAge
      /\ lost' = put(lost, m.from, 0)
      /\ sent' = sent \ {m}
      /\ UNCHANGED <<config, calm, votes, leaderAge, behind>>

\* The network loses a message.  Losses between a leader and a follower count
\* against MaxLost while the network is calm.
lose(m) ==
  LET follower == IF m.kind = "append" THEN m.to ELSE m.from
      counts == calm /\ m.kind \in {"append", "appendReply"}
  IN  /\ counts => lost[follower] < MaxLost
      /\ lost' = IF counts THEN put(lost, follower, lost[follower] + 1) ELSE lost
      /\ sent' = sent \ {m}
      /\ UNCHANGED <<config, calm, consensus, timers, behind>>

------------------------------------------------------------------------------
older(age) == IF age = never \/ age = maxAge THEN age ELSE age + 1
sooner(time) == IF time = never THEN never ELSE time - 1

tick ==
  /\ sent = {}
  /\ \A n \in Node : electIn[n] # 0 /\ beatIn[n] # 0
  /\ electIn' = [n \in Node |-> sooner(electIn[n])]
  /\ beatIn' = [n \in Node |-> sooner(beatIn[n])]
  /\ leaderAge' = [n \in Node |-> older(leaderAge[n])]
  /\ peerAge' = [n \in Node |-> [p \in peers(n) |-> older(peerAge[n][p])]]
  /\ UNCHANGED <<config, calm, consensus, behind, sent, lost>>

\* quorumContactMS: the most recent contact with any follower.
quorumAge(n) ==
  LET known == {peerAge[n][p] : p \in peers(n)} \ {never}
  IN  IF known = {} THEN never ELSE CHOOSE a \in known : \A b \in known : a <= b

\* snapshotStatus: the contact with a quorum is a leader's alone.
status(n) ==
  [stopped |-> FALSE, role |-> role[n], led |-> leaderID[n] # None, leaderAge |-> leaderAge[n],
   quorumAge |-> IF role[n] = "leader" THEN quorumAge(n) ELSE never, commit |-> 0, applied |-> 0]

Next ==
  \/ \E n \in Node : startElection(n) \/ onHeartbeat(n)
  \/ \E m \in sent :
       \/ handleRequestVote(m) \/ handleVoteResponse(m)
       \/ handleAppendEntries(m) \/ handleAppendResponse(m)
       \/ lose(m)
  \/ tick

\* A cluster that has just settled on a leader and whose network is calm from then
\* on: every follower has answered the leader, though one may still lack entries
\* (a conflict reply is contact too).
SettledInit ==
  \E l \in Node :
    /\ config \in configs
    /\ calm = TRUE
    /\ role = [n \in Node |-> IF n = l THEN "leader" ELSE "follower"]
    /\ term = [n \in Node |-> 1]
    /\ votedFor = [n \in Node |-> l]
    /\ leaderID = [n \in Node |-> l]
    /\ votes = [n \in Node |-> IF n = l THEN quorum ELSE 0]
    /\ electIn \in [Node -> randomElectionTimeout \cup {never}]
    /\ \A n \in Node : electIn[n] = never <=> n = l
    /\ beatIn = [n \in Node |-> IF n = l THEN config.heartbeat ELSE never]
    /\ leaderAge = [n \in Node |-> IF n = l THEN never ELSE 0]
    /\ peerAge = [n \in Node |-> [p \in peers(n) |-> IF n = l THEN 0 ELSE never]]
    /\ behind \in {B \in SUBSET peers(l) : Cardinality(B) < quorum}
    /\ sent = {}
    /\ lost = [n \in Node |-> 0]

\* Start-up under any loss, or a settled cluster in calm.
Spec == (Init \/ SettledInit) /\ [][Next]_vars

------------------------------------------------------------------------------
\* Exactly one of a node's two timers is armed, the one its role needs: a
\* follower or a candidate always has an election ahead of it and a leader a
\* heartbeat, through every transition (stopElectionTimer, stopHeartbeat).
OneTimerArmed ==
  \A n \in Node :
    /\ electIn[n] = never <=> role[n] = "leader"
    /\ beatIn[n] = never <=> role[n] # "leader"

\* With timeouts the configuration accepts, heartbeats beat elections: as long
\* as no follower loses more than two exchanges in a row, nobody leaves the
\* leader the cluster has settled on (heartbeatsPerElection).
LeaderIsKept == [][calm => UNCHANGED <<role, term, leaderID>>]_vars

readyNow(n) == readiness(status(n), FALSE, config.heartbeat) = "ready"

\* The health check does not flap over the same losses: a node that is ready
\* stays ready (readiness, staleWindow).
ReadyIsSteady == [][calm => \A n \in Node : readyNow(n) => readyNow(n)']_vars

\* A ready follower knows the leader of its term: the node it forwards
\* decisions to leads in that term, or has moved on to a later one.
ReadyNamesLeader ==
  \A n \in Node :
    (readyNow(n) /\ role[n] = "follower") =>
      LET l == leaderID[n]
      IN  l # n /\ (term[l] > term[n] \/ (term[l] = term[n] /\ role[l] = "leader"))

==============================================================================

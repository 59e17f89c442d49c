------------------------------- MODULE MCRaft -------------------------------
(***************************************************************************)
(* Raft on three nodes, for TLC.                                           *)
(***************************************************************************)
EXTENDS RaftRefinement, TLC

NodeSymmetry == Permutations(Node)
HomeSymmetry == Permutations(Node \ Foreign)

\* A state two lost replications lead to.  a led term 1 and c, elected by b,
\* leads term 2; each appended its no-op and reached nobody with it.  a learned
\* of term 2 from c's RequestVote, which it denied.  Two more elections decide
\* whether an entry of an old term is ever committed by count alone.
DivergedFrom(a, b, c) ==
    /\ role = [n \in Node |-> IF n = c THEN "leader" ELSE "follower"]
    /\ currentTerm = [n \in Node |-> 2]
    /\ votedFor = [n \in Node |-> IF n = a THEN Nil ELSE c]
    /\ leaderID = [n \in Node |-> IF n = c THEN c ELSE Nil]
    /\ votesGranted = [n \in Node |-> IF n = c THEN 2 ELSE 0]
    /\ voters = [n \in Node |-> IF n = c THEN {b, c} ELSE {}]
    /\ log = [n \in Node |->
                IF n = b THEN <<>>
                ELSE <<[term |-> IF n = a THEN 1 ELSE 2, command |-> Noop]>>]
    /\ commitIndex = [n \in Node |-> 0]
    /\ savedCommit = [n \in Node |-> 0]
    /\ lastApplied = [n \in Node |-> 0]
    /\ nextIndex = [n \in Node |-> [p \in Node |-> 1]]
    /\ matchIndex = [n \in Node |-> [p \in Node |-> 0]]
    /\ waiters = [n \in Node |-> {}]
    /\ acked = {}
    /\ messages = {}
    /\ failures = 0

DivergedInit ==
    \E a, b, c \in Node : Cardinality({a, b, c}) = 3 /\ DivergedFrom(a, b, c)

DivergedSpec == DivergedInit /\ [][Next]_vars

-----------------------------------------------------------------------------
(* Catch-up under fairness                                                 *)

\* The heartbeat of l puts a request to p in flight.
heartbeatTo(l, p) ==
    /\ onHeartbeat(l)
    /\ replicateToPeer(l, p, currentTerm[l], log[l], nextIndex[l][p],
                       commitIndex[l]) \in messages'

\* p handles a request of l and its answer is not lost.
answerTo(l, p) ==
    \E m \in messages :
        /\ m.src = l /\ handleAppendEntries(p, m, FALSE)
        /\ \E r \in messages' \ messages : r.src = p /\ r.dst = l

\* The event loop of n gets to something that arrived from p.
receive(n, p) ==
    \E m \in {k \in messages : k.src = p} :
        \/ handleRequestVote(n, m) \/ handleVoteResponse(n, m)
        \/ handleAppendEntries(n, m, FALSE) \/ handleAppendResponse(n, m)

\* A request over the body cap is answered 413: an RPC error for its sender.
refuseBody(n) ==
    /\ \E m \in messages :
          /\ m.dst = n /\ m.type = "append_req" /\ Len(m.entries) > MaxBody
          /\ discard(m)
    /\ UNCHANGED <<electionVars, log, applyVars, leaderVars, clientVars, failures>>

\* A partition that heals.  a leads term 1: its no-op reached c and nobody else,
\* and the commands it accepted since reached nobody.  c led term 2 with b's vote,
\* reached nobody with its no-op, stepped down when b stood in term 3, and was
\* elected by b in term 4.
HealedFrom(a, b, c) ==
    LET entry(term, cmd) == [term |-> term, command |-> cmd]
    IN  /\ role = [n \in Node |-> IF n = b THEN "follower" ELSE "leader"]
        /\ currentTerm = [n \in Node |-> IF n = a THEN 1 ELSE 4]
        /\ votedFor = [n \in Node |-> IF n = a THEN a ELSE c]
        /\ leaderID = [n \in Node |-> IF n = b THEN Nil ELSE n]
        /\ votesGranted = [n \in Node |-> IF n = b THEN 0 ELSE 2]
        /\ voters = [n \in Node |-> CASE n = a -> {a, c} [] n = b -> {} [] n = c -> {b, c}]
        /\ \E x \in Command :
              /\ log = [n \in Node |->
                         CASE n = a -> <<entry(1, Noop), entry(1, x), entry(1, x),
                                         entry(1, x), entry(1, x)>>
                           [] n = b -> <<>>
                           [] n = c -> <<entry(1, Noop), entry(2, Noop), entry(4, Noop)>>]
              /\ waiters = [n \in Node |-> IF n = a THEN {<<i, x>> : i \in 2..5} ELSE {}]
        /\ commitIndex = [n \in Node |-> 0]
        /\ savedCommit = [n \in Node |-> 0]
        /\ lastApplied = [n \in Node |-> 0]
        /\ nextIndex = [n \in Node |-> [p \in Node |-> IF n = c THEN 3 ELSE 1]]
        /\ matchIndex = [n \in Node |-> [p \in Node |-> 0]]
        /\ acked = {}
        /\ messages = {}
        /\ failures = 0

cast == CHOOSE t \in Node \X Node \X Node : Cardinality({t[1], t[2], t[3]}) = 3
stableLeader == cast[3]

\* The heartbeat timer of the leader keeps firing, the network does not lose
\* every request or every answer between two nodes for ever, and the event
\* loop gets to what arrived.  Nothing else is fair.  With MaxTerm 4 the leader of
\* the healed state is the last one.
Fairness ==
    /\ \A p \in peers(stableLeader) :
        /\ SF_vars(heartbeatTo(stableLeader, p))
        /\ SF_vars(answerTo(stableLeader, p))
    /\ \A n \in Node : /\ WF_vars(refuseBody(n))
                        /\ \A p \in peers(n) : WF_vars(receive(n, p))

FairNext == Next \/ \E n \in Node : refuseBody(n)

FairSpec == HealedFrom(cast[1], cast[2], cast[3]) /\ [][FairNext]_vars /\ Fairness

\* Once a leader is no longer challenged, every follower ends up with its whole
\* log, committed: heartbeats and conflict hints repair a diverged follower, also
\* after answers without hints and late or lost RPCs.
FollowersCatchUp ==
    <>[](role[stableLeader] = "leader") =>
        <>[](\A p \in Node : /\ log[p] = log[stableLeader]
                            /\ commitIndex[p] = Len(log[stableLeader]))
=============================================================================

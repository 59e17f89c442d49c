-------------------------- MODULE RaftSafetyProofs ---------------------------
(****************************************************************************)
(* Some past fits every reachable state, and what follows from it: state    *)
(* machine safety, leader completeness, acknowledged proposals that survive,*)
(* committed entries that stay, waiters that own the entry they wait for.   *)
(****************************************************************************)
EXTENDS RaftLogProofs, RaftCommitProofs, RaftEffectProofs, RaftRefinement

------------------------------------------------------------------------------
(* The invariant                                                            *)

\* Nothing is chosen or committed in the initial state.
LEMMA InitPast == Init => SomePast
<1> SUFFICES ASSUME Init PROVE SomePast
  BY Zenon
<1>1. ElectionInv
  BY ZenonT(30), InitLog
<1>2. PICK own, led : LogInv(own, led) /\ \A t \in Nat : own[t] = Nil
  BY ZenonT(30), InitLog
<1> DEFINE snap == [p \in Node |-> [t \in Nat |-> <<>>]]
<1>3. /\ snap \in [Node -> [Nat -> Seq(Entry)]]
      /\ \A p \in Node : \A t \in Nat : snap[p][t] = <<>>
  BY SMTT(30)
<1> HIDE DEF snap
<1>4. \A i, t : ~holds(<<>>, i, t)
  BY SMTT(30) DEF holds
<1>5. Snapshots(snap) /\ Retained(snap)
  BY ZenonT(30), <1>3, <1>4 DEF Init, Snapshots, Retained
<1>6. VotersHeld(snap) /\ RequestsCurrent /\ Matched(led, snap)
  BY ZenonT(30) DEF Init, VotersHeld, RequestsCurrent, Matched
<1>7. Safe(own, led, snap)
  BY ZenonT(30), <1>2 DEF Safe
<1>8. CommitsBacked(led, snap)
  BY ZenonT(30) DEF Init, CommitsBacked, Backed
<1> QED
  BY ZenonT(30), <1>1, <1>2, <1>5, <1>6, <1>7, <1>8 DEF CommitInv, SomePast

\* Every step extends the past it starts from.
LEMMA NextPast ==
    ASSUME NEW own, NEW led, NEW snap, ElectionInv, LogInv(own, led),
           CommitInv(own, led, snap), [Next]_vars
    PROVE  \E own2, led2, snap2 : /\ Advance(own, led, snap, own2, led2, snap2)
                                  /\ CommitInv(own2, led2, snap2)'
<1>1. StepFrom(own, led) /\ LogMoves(own, led)
  BY ZenonT(30), NextLog
<1>2. PICK own2, led2 : LogInv(own2, led2)' /\ Grown(own, led, own2, led2)
  BY ZenonT(30), NextLog
<1>3. \E snap2 : Advanced(snap, snap2)
  <2> DEFINE s2 == [p \in Node |-> [t \in Nat |-> IF currentTerm'[p] = t THEN log'[p]
                                                                      ELSE snap[p][t]]]
  <2>1. log' \in [Node -> Seq(Entry)] /\ snap \in [Node -> [Nat -> Seq(Entry)]]
    BY ZenonT(30), <1>1 DEF StepFrom, ElectionInv, TypeGroups, LogOK, CommitInv, Snapshots
  <2>2. s2 \in [Node -> [Nat -> Seq(Entry)]]
    BY ZenonT(30), <2>1
  <2>3. \A p \in Node : \A t \in Nat :
           s2[p][t] = IF currentTerm'[p] = t THEN log'[p] ELSE snap[p][t]
    BY ZenonT(30)
  <2> HIDE DEF s2
  <2>4. Advanced(snap, s2)
    BY ZenonT(30), <2>2, <2>3 DEF Advanced
  <2> QED
    BY ZenonT(30), <2>4
<1>4. PICK snap2 : Advanced(snap, snap2)
  BY ZenonT(30), <1>3
<1>5. Advance(own, led, snap, own2, led2, snap2)
  BY ZenonT(30), <1>1, <1>2, <1>4 DEF Advance
<1>6. Effects(led)
  BY ZenonT(30), <1>1, NextEffects DEF CommitInv
<1> QED
  BY ZenonT(30), <1>5, <1>6, AdvanceCommit

\* Some past fits every reachable state: one in which whatever is committed or
\* answered was chosen by a majority in the term of the leader that logged it.
THEOREM PastExists == Spec => []SomePast
<1>1. Init => SomePast
  BY ZenonT(30), InitPast
<1>2. SomePast /\ [Next]_vars => SomePast'
  <2> SUFFICES ASSUME ElectionInv, NEW own, NEW led, NEW snap, LogInv(own, led),
                      CommitInv(own, led, snap), [Next]_vars
               PROVE  SomePast'
    BY ZenonT(30) DEF SomePast
  <2>1. PICK own2, led2, snap2 : /\ Advance(own, led, snap, own2, led2, snap2)
                                 /\ CommitInv(own2, led2, snap2)'
    BY ZenonT(30), NextPast
  <2>2. ElectionInv' /\ LogInv(own2, led2)'
    BY ZenonT(30), <2>1 DEF Advance, StepFrom
  <2> QED
    BY ZenonT(30), <2>1, <2>2 DEF SomePast
<1> QED
  BY <1>1, <1>2, PTL DEF Spec

------------------------------------------------------------------------------
(* What the past implies                                                    *)

\* No two nodes ever apply, or may still apply, different entries at an index: with
\* any number of nodes, whatever is lost, repeated, reordered, or fails to be stored.
THEOREM StateMachinesAgree == Spec => []StateMachineSafety
BY PastAgrees, PastExists, PTL

\* A leader has everything committed on any node of no later term: votable never
\* elects a log that lacks it, and advanceCommit never counts an entry that a later
\* leader may lack.
THEOREM LeadersComplete == Spec => []LeaderCompleteness
BY PastLeads, PastExists, PTL

\* A result handed to a caller of Propose stays on a majority of the logs, over
\* changes of leader, restarts and failed writes.
THEOREM AcknowledgedStays == Spec => []AcknowledgedSurvives
BY PastAcknowledged, PastExists, PTL

\* A follower in the leader's term holds what the leader's match index says it does:
\* stale, repeated and reordered answers never inflate it.
THEOREM MatchIndexesSound == Spec => []MatchIndexSound
BY PastMatches, PastExists, PTL

\* What a node has committed or applied, its log keeps through any step.
CommittedKept ==
    \A n \in Node :
        \A i \in 1..larger(commitIndex[n], lastApplied[n]) :
            i <= Len(log'[n]) /\ log'[n][i] = log[n][i]

\* A step keeps what is committed, from any state that a past fits.
LEMMA CommittedSteps == SomePast /\ [Next]_vars => CommittedKept
<1> DEFINE c(n) == larger(commitIndex[n], lastApplied[n])
<1> SUFFICES ASSUME ElectionInv, NEW own, NEW led, NEW snap, LogInv(own, led),
                    CommitInv(own, led, snap), [Next]_vars, NEW n \in Node,
                    NEW i \in 1..c(n)
             PROVE  i <= Len(log'[n]) /\ log'[n][i] = log[n][i]
  BY ZenonT(30) DEF SomePast, CommittedKept
<1>1. PICK own2, led2, snap2 : Advance(own, led, snap, own2, led2, snap2)
  BY ZenonT(30), NextPast
<1>2. c(n) \in Nat /\ Backed(led, snap, c(n), log[n], currentTerm[n])
  BY ZenonT(30), ReachedBacked
<1> HIDE DEF c
<1> QED
  BY ZenonT(30), <1>1, <1>2, BackedStep

\* OverwriteEntries never drops an entry the node has applied or knows to be
\* committed: the conflict it truncates at always lies beyond.
THEOREM CommittedStays == Spec => CommittedNeverTruncated
<1>1. CommittedKept => [CommittedKept]_vars
  BY Zenon
<1>2. Spec => [][CommittedKept]_vars
  BY <1>1, CommittedSteps, PastExists, PTL DEF Spec
<1> QED
  BY <1>2, PTL DEF CommittedNeverTruncated, CommittedKept

\* A caller of Propose waits for its own entry: it sits in the leader's log at the
\* index waited for, not yet applied, for as long as the waiter is registered.
THEOREM WaitersOwnEntries == Spec => []WaiterOwnsEntry
<1>1. Init => WaiterOwnsEntry
  BY ZenonT(30) DEF Init, WaiterOwnsEntry
<1>2. SomePast /\ WaiterOwnsEntry /\ [Next]_vars => WaiterOwnsEntry'
  BY ZenonT(30), NextWaiters
<1> QED
  BY <1>1, <1>2, PastExists, PTL DEF Spec

------------------------------------------------------------------------------
(* Clusters                                                                 *)

\* Votes, leaders and logs stay within a cluster, for some history that fits.
KinHistory ==
    /\ ElectionInv /\ KinNodes /\ KinVotes
    /\ \E own, led : LogInv(own, led) /\ KinLogs(own, led)

\* Members of two clusters never mix: the cluster identifier that the handlers check
\* on requests, and on nothing else, keeps leaders, votes and entries apart.
THEOREM ClustersStayApart == Spec => []ClustersKeptApart
<1>1. Init => KinHistory
  <2> SUFFICES ASSUME Init PROVE KinHistory
    BY Zenon
  <2>1. ElectionInv /\ KinNodes /\ KinVotes
    BY ZenonT(30), InitLog DEF Init, KinNodes, KinVotes
  <2>2. PICK own, led : LogInv(own, led) /\ \A t \in Nat : own[t] = Nil
    BY ZenonT(30), InitLog
  <2>3. ASSUME NEW t \in Nat PROVE led[t] = <<>>
    BY ZenonT(30), <2>2 DEF LogInv, History
  <2>4. KinLogs(own, led)
    BY SMTT(30), <2>3 DEF Init, KinLogs
  <2> QED
    BY ZenonT(30), <2>1, <2>2, <2>4 DEF KinHistory
<1>2. KinHistory /\ [Next]_vars => KinHistory'
  <2> SUFFICES ASSUME ElectionInv, KinNodes, KinVotes, NEW own, NEW led,
                      LogInv(own, led), KinLogs(own, led), [Next]_vars
               PROVE  KinHistory'
    BY Zenon DEF KinHistory
  <2>1. ElectionInv' /\ TypeGroups /\ TypeGroups' /\ LogMoves(own, led)
    BY ZenonT(30), NextLog DEF StepFrom, ElectionInv
  <2>2. PICK own2, led2 : LogInv(own2, led2)' /\ Grown(own, led, own2, led2)
    BY ZenonT(30), NextLog
  <2>3. KinNodes' /\ KinVotes' /\ OwnEntries
    BY ZenonT(30), <2>1, NextKin, NextOwnEntries
  <2>4. KinLogs(own2, led2)'
    BY ZenonT(30), <2>1, <2>2, <2>3, KinLogsStep
  <2> QED
    BY ZenonT(30), <2>1, <2>2, <2>3, <2>4 DEF KinHistory
<1>3. KinHistory => ClustersKeptApart
  <2> SUFFICES ASSUME KinNodes, NEW own, NEW led, LogInv(own, led), KinLogs(own, led),
                      NEW n \in Node, NEW p \in Node, (n \in Foreign) # (p \in Foreign)
               PROVE  /\ leaderID[n] # p /\ votedFor[n] # p /\ p \notin voters[n]
                      /\ role[p] = "leader" =>
                            \A i \in 1..Len(log[n]) : log[n][i].term # currentTerm[p]
    BY Zenon DEF KinHistory, ClustersKeptApart
  <2>1. ~kin(n, p) /\ p # Nil
    BY SMTT(30), NodeAssumption DEF kin
  <2>2. leaderID[n] # p /\ votedFor[n] # p /\ p \notin voters[n]
    BY ZenonT(30), <2>1 DEF KinNodes
  <2>3. ASSUME role[p] = "leader", NEW i \in 1..Len(log[n])
        PROVE  log[n][i].term # currentTerm[p]
    <3>1. own[currentTerm[p]] = p
      BY ZenonT(30), <2>3 DEF LogInv, Leading
    <3>2. kin(n, own[log[n][i].term])
      BY ZenonT(30) DEF KinLogs
    <3> QED
      BY ZenonT(30), <2>1, <3>1, <3>2
  <2> QED
    BY ZenonT(30), <2>2, <2>3
<1> QED
  BY <1>1, <1>2, <1>3, PTL DEF Spec

------------------------------------------------------------------------------
(* Raft implements ReplicatedLog                                            *)

\* Every node has applied no more than its log holds.
LEMMA PastApplied == SomePast => AppliedInLog
<1> SUFFICES ASSUME ElectionInv, NEW own, NEW led, NEW snap, LogInv(own, led),
                    CommitInv(own, led, snap), NEW n \in Node
             PROVE  lastApplied[n] <= Len(log[n])
  BY ZenonT(30) DEF SomePast, AppliedInLog
<1>1. lastApplied[n] \in Nat /\ Len(log[n]) \in Nat
  BY ZenonT(30), LenFacts DEF ElectionInv, TypeGroups, ApplyOK, LogOK
<1>2. Backed(led, snap, lastApplied[n], log[n], currentTerm[n])
  BY Zenon DEF CommitInv, CommitsBacked
<1> QED
  BY SMTT(30), <1>1, <1>2 DEF Backed, agree

\* The consensus layer keeps its promise to the state machine and to callers: nodes
\* apply prefixes of one history that only grows, over leader changes, crashes and
\* failed writes, and a caller is answered only with an entry that is applied.
THEOREM RaftImplementsLog == Spec => ImplementsReplicatedLog
<1>1. Init => Log!Init
  <2> SUFFICES ASSUME Init PROVE Log!Init
    BY Zenon
  <2>1. lastApplied \in [Node -> Nat] /\ lastApplied = [r \in Node |-> 0] /\ acked = {}
    BY Zenon DEF Init
  <2>2. \E n \in Node : \A p \in Node : lastApplied[p] <= lastApplied[n]
    BY ZenonT(30), <2>1, FurthestExists
  <2>3. furthest \in Node
    BY ZenonT(30), <2>2 DEF furthest
  <2>4. log[furthest] = <<>> /\ lastApplied[furthest] = 0
    BY ZenonT(30), <2>1, <2>3 DEF Init
  <2>5. SubSeq(log[furthest], 1, lastApplied[furthest]) = <<>>
    BY SMTT(30), <2>4
  <2> QED
    BY ZenonT(30), <2>1, <2>5 DEF Log!Init
<1>2. /\ TypeGroups /\ TypeGroups' /\ [Next]_vars /\ StateMachineSafety' /\ CommittedKept
      /\ AppliedInLog /\ AppliedInLog'
      => [Log!Next]_(Log!logVars)
  <2> SUFFICES ASSUME TypeGroups, TypeGroups', [Next]_vars, StateMachineSafety',
                      CommittedKept, AppliedInLog, AppliedInLog'
               PROVE  [Log!Next]_(Log!logVars)
    BY Zenon
  <2>1. AppliesOnce
    BY ZenonT(30), NextApplies
  <2>2. AppliedStays
    <3> SUFFICES ASSUME NEW n \in Node, NEW i \in 1..lastApplied[n]
                 PROVE  log'[n][i] = log[n][i]
      BY ZenonT(30) DEF AppliedStays
    <3>1. commitIndex[n] \in Nat /\ lastApplied[n] \in Nat
      BY ZenonT(30) DEF TypeGroups, ApplyOK
    <3>2. i \in 1..larger(commitIndex[n], lastApplied[n])
      BY SMTT(30), <3>1 DEF larger
    <3> QED
      BY ZenonT(30), <3>2 DEF CommittedKept
  <2> QED
    BY ZenonT(30), <2>1, <2>2, RefinementStep
<1>3. SomePast => TypeGroups /\ AppliedInLog
  BY ZenonT(30), PastApplied DEF SomePast, ElectionInv
<1> QED
  BY <1>1, <1>2, <1>3, PastExists, StateMachinesAgree, CommittedSteps, PTL
     DEF Spec, ImplementsReplicatedLog, Log!Spec

==============================================================================

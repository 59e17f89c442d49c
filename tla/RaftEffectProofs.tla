-------------------------- MODULE RaftEffectProofs ---------------------------
(****************************************************************************)
(* What each handler does to votes, progress, commit indexes and waiters.   *)
(****************************************************************************)
EXTENDS RaftElectionProofs, RaftPast

------------------------------------------------------------------------------
(* Votes, progress and commits                                              *)

\* Candidates after the step were running for the same term, with the same votes in
\* hand or on their way.
CandidatesKept ==
    \A c \in Node : role'[c] = "candidate" =>
        /\ role[c] = "candidate" /\ currentTerm'[c] = currentTerm[c]
        /\ \A p \in voters'[c] : Evidence(c, p, currentTerm[c])

\* Leaders after the step count as matching what they did, nothing, or what an
\* answer reports.
ProgressKept ==
    \A l, p \in Node : role'[l] = "leader" =>
        \/ matchIndex'[l][p] = 0
        \/ /\ role[l] = "leader" /\ currentTerm'[l] = currentTerm[l]
           /\ \/ matchIndex'[l][p] = matchIndex[l][p]
              \/ \E m \in messages :
                    /\ m.type = "append_resp" /\ m.success /\ m.src = p
                    /\ m.reqTerm = currentTerm[l] /\ m.matchIndex = matchIndex'[l][p]

passed(x) == \E k \in messages : survives(k, x)

\* A message that asks for no vote, and grants one only to a log as up to date.
fairBallot(x) ==
    /\ x.type # "vote_req"
    /\ x.type = "vote_resp" /\ x.granted /\ role'[x.dst] = "candidate"
          /\ currentTerm'[x.dst] = x.reqTerm => upToDate(log'[x.dst], log'[x.src])

\* A message of a leader tells its own term and commit index.
candid(x) ==
    x.type = "append_req" =>
        /\ role'[x.src] = "leader" /\ x.term = currentTerm'[x.src]
        /\ x.leaderCommit = commitIndex'[x.src]

\* A message that reports a match only where its sender has it.
fairMatch(led, x) ==
    x.type = "append_resp" /\ x.success =>
        currentTerm'[x.src] = x.reqTerm /\ agree(log'[x.src], led[x.reqTerm], x.matchIndex)

fair(led, x) == fairBallot(x) /\ fairMatch(led, x) /\ candid(x)

\* Only messages of S are new.
Added(S) == \A x \in messages' : x \in messages \/ x \in S

\* A message in flight that the step leaves alone passes.
LEMMA StillPassed ==
    ASSUME NEW S, Added(S), NEW x \in messages'
    PROVE  passed(x) \/ x \in S
BY Zenon DEF Added, passed, survives

\* A step that grants votes fairly leaves the votes of candidates accounted for.
LEMMA FairVoteStep ==
    ASSUME CandidatesKept, \A x \in messages' : passed(x) \/ fairBallot(x)
    PROVE  VotesChecked /\ RequestsMove
<1>1. VotesChecked
  <2> SUFFICES ASSUME NEW c \in Node, NEW p \in Node, role'[c] = "candidate",
                      Evidence(c, p, currentTerm[c])'
               PROVE  \/ /\ role[c] = "candidate" /\ currentTerm'[c] = currentTerm[c]
                         /\ Evidence(c, p, currentTerm[c])
                      \/ upToDate(log'[c], log'[p])
    BY Zenon DEF VotesChecked
  <2>1. role[c] = "candidate" /\ currentTerm'[c] = currentTerm[c]
    BY Zenon DEF CandidatesKept
  <2>2. CASE p \in voters'[c]
    BY Zenon, <2>1, <2>2 DEF CandidatesKept
  <2>3. ASSUME NEW m \in messages', grants(m, c, p, currentTerm[c])
        PROVE  Evidence(c, p, currentTerm[c]) \/ upToDate(log'[c], log'[p])
    <3>1. /\ m.type = "vote_resp" /\ m.granted /\ m.dst = c /\ m.src = p
          /\ m.reqTerm = currentTerm[c]
      BY Zenon, <2>3 DEF grants, concerns
    <3>2. CASE fairBallot(m)
      BY Zenon, <2>1, <3>1, <3>2 DEF fairBallot
    <3>3. ASSUME NEW k \in messages, survives(k, m) PROVE Evidence(c, p, currentTerm[c])
      <4>1. m = k
        BY Zenon, <3>1, <3>3 DEF survives
      <4> QED
        BY Zenon, <2>3, <4>1 DEF Evidence
    <3> QED
      BY Zenon, <3>2, <3>3 DEF passed
  <2> QED
    BY Zenon, <2>1, <2>2, <2>3 DEF Evidence, grants, concerns
<1>2. RequestsMove
  BY Zenon DEF RequestsMove, passed, fairBallot
<1> QED
  BY Zenon, <1>1, <1>2

\* Neither does a step that sends fair messages claim progress that is not there.
LEMMA FairMatchStep ==
    ASSUME NEW led, ProgressKept, \A x \in messages' : passed(x) \/ fairMatch(led, x)
    PROVE  ProgressMoves(led)
<1>1. ASSUME NEW x \in messages', x.type = "append_resp", x.success, passed(x)
      PROVE  x \in messages
  <2>1. PICK k \in messages : survives(k, x)
    BY Zenon, <1>1 DEF passed
  <2>2. x = k
    BY Zenon, <1>1, <2>1 DEF survives
  <2> QED
    BY Zenon, <2>2
<1> QED
  BY Zenon, <1>1 DEF ProgressMoves, ProgressKept, fairMatch

\* Commit indexes and results that are left alone.
LEMMA ApplyQuiet ==
    ASSUME NEW led, TypeGroups, UNCHANGED <<applyVars, acked>>
    PROVE  Reached(led) /\ Answered
<1>1. ASSUME NEW n \in Node, NEW c \in {commitIndex'[n], savedCommit'[n], lastApplied'[n]}
      PROVE  \E b \in Nat : c <= b /\ Supported(led, n, b)
  <2>1. c \in Nat /\ c <= c /\ c \in {commitIndex[n], savedCommit[n], lastApplied[n]}
    BY DEF TypeGroups, ApplyOK, applyVars
  <2> QED
    BY Zenon, <2>1 DEF Supported
<1> QED
  BY Zenon, <1>1 DEF Reached, Answered

\* A step that accounts for votes, progress and commits, and sends fair messages.
LEMMA FairEffects ==
    ASSUME NEW led, CandidatesKept, ProgressKept, Reached(led), Answered,
           \A x \in messages' : passed(x) \/ fair(led, x)
    PROVE  Effects(led)
<1>1. Told
  BY Zenon DEF Told, passed, fair, candid
<1>2. VotesChecked /\ RequestsMove
  BY Zenon, FairVoteStep DEF fair
<1>3. ProgressMoves(led)
  BY Zenon, FairMatchStep DEF fair
<1> QED
  BY Zenon, <1>1, <1>2, <1>3 DEF Effects, CommitMoves

\* A step that commits and answers nothing.
LEMMA PlainEffects ==
    ASSUME NEW led, TypeGroups, CandidatesKept, ProgressKept, UNCHANGED <<applyVars, acked>>,
           NEW S, Added(S), \A x \in S : fair(led, x)
    PROVE  Effects(led)
<1>1. \A x \in messages' : passed(x) \/ fair(led, x)
  BY Zenon, StillPassed
<1> QED
  BY Zenon, <1>1, ApplyQuiet, FairEffects

\* What each way of sending adds.
LEMMA Sends ==
    /\ \A m : discard(m) => Added({})
    /\ UNCHANGED messages => Added({})
    /\ \A sent : \A rest \in SUBSET messages : transmit(rest, sent) => Added(sent)
    /\ \A m, r : reply(m, r) => Added({r})
    /\ \A m, r, dup : replyOrDuplicate(m, r, dup) => Added({r})
<1>1. \A sent : \A rest \in SUBSET messages : transmit(rest, sent) => Added(sent)
  BY Zenon DEF transmit, Added
<1>2. \A m, r : reply(m, r) => Added({r})
  BY Zenon DEF reply, transmit, Added
<1> QED
  BY Zenon, <1>1, <1>2 DEF discard, replyOrDuplicate, Added

\* An election left alone, or left by stepping down.
LEMMA ElectionQuiet ==
    ASSUME TypeGroups,
           \/ UNCHANGED <<electionVars, leaderVars>>
           \/ \E n \in Node : \E term, leader : becomeFollower(n, term, leader)
    PROVE  CandidatesKept /\ ProgressKept
<1>1. CASE UNCHANGED <<electionVars, leaderVars>>
  BY Zenon, <1>1 DEF electionVars, leaderVars, CandidatesKept, ProgressKept, Evidence
<1>2. ASSUME NEW n \in Node, NEW term, NEW leader, becomeFollower(n, term, leader)
      PROVE  CandidatesKept /\ ProgressKept
  <2>1. /\ role'[n] = "follower"
        /\ \A c \in Node \ {n} :
              /\ role'[c] = role[c] /\ currentTerm'[c] = currentTerm[c]
              /\ voters'[c] = voters[c] /\ matchIndex'[c] = matchIndex[c]
    BY SMTT(30), <1>2 DEF becomeFollower, forgetCandidacy, TypeGroups, ElectionOK, LeaderOK
  <2> QED
    BY Zenon, <2>1 DEF CandidatesKept, ProgressKept, Evidence
<1> QED
  BY Zenon, <1>1, <1>2

\* Answers that refuse: no vote, no match, nothing of a commit index.
LEMMA RefusalsFair ==
    ASSUME NEW led
    PROVE  /\ \A m, term : fair(led, voteResponse(m, term, FALSE))
           /\ \A m, term, hintTerm, hint :
                 fair(led, appendResponse(m, term, FALSE, 0, hintTerm, hint))
BY DEF voteResponse, appendResponse, fair, fairBallot, fairMatch, candid

\* Stepping down on an answer, or ignoring it, has no effect beyond the election.
LEMMA DropEffects ==
    ASSUME NEW led, TypeGroups, NEW n \in Node, NEW m,
           stepDown(n, m) \/ ignoreVote(n, m) \/ ignoreReply(n, m)
    PROVE  Effects(led)
<1>1. Added({})
  BY Zenon, Sends DEF stepDown, ignoreVote, ignoreReply
<1>2. CandidatesKept /\ ProgressKept
  BY Zenon, ElectionQuiet DEF stepDown, ignoreVote, ignoreReply
<1>3. UNCHANGED <<applyVars, acked>>
  BY Zenon DEF stepDown, ignoreVote, ignoreReply, clientVars
<1> QED
  BY Zenon, <1>1, <1>2, <1>3, PlainEffects

\* So has refusing a vote or an AppendEntries.
LEMMA RefuseEffects ==
    ASSUME NEW led, TypeGroups, NEW n \in Node, NEW m, NEW dup,
           \/ refuseVote(n, m) \/ denyVote(n, m)
           \/ refuseAppend(n, m, dup) \/ rejectAppend(n, m, dup) \/ failAppend(n, m, dup)
    PROVE  Effects(led)
<1>1. PICK r : Added({r}) /\ fair(led, r)
  <2>1. CASE refuseVote(n, m) \/ denyVote(n, m)
    <3>1. PICK term : reply(m, voteResponse(m, term, FALSE))
      BY Zenon, <2>1 DEF refuseVote, denyVote
    <3> QED
      BY Zenon, <3>1, Sends, RefusalsFair
  <2>2. CASE refuseAppend(n, m, dup) \/ rejectAppend(n, m, dup) \/ failAppend(n, m, dup)
    <3>1. PICK term, hintTerm, hint :
             replyOrDuplicate(m, appendResponse(m, term, FALSE, 0, hintTerm, hint), dup)
      BY Zenon, <2>2 DEF refuseAppend, rejectAppend, failAppend
    <3> QED
      BY Zenon, <3>1, Sends, RefusalsFair
  <2> QED
    BY Zenon, <2>1, <2>2
<1>2. CandidatesKept /\ ProgressKept
  BY Zenon, ElectionQuiet DEF refuseVote, denyVote, refuseAppend, rejectAppend, failAppend, follow
<1>3. UNCHANGED <<applyVars, acked>>
  BY Zenon DEF refuseVote, denyVote, refuseAppend, rejectAppend, failAppend, clientVars
<1>4. \A x \in {r} : fair(led, x)
  BY Zenon, <1>1
<1> QED
  BY ZenonT(30), <1>1, <1>2, <1>3, <1>4, PlainEffects

\* Nothing happens when nothing changes.
LEMMA StutterEffects ==
    ASSUME NEW led, TypeGroups, UNCHANGED vars
    PROVE  Effects(led)
<1>1. Added({}) /\ UNCHANGED <<electionVars, leaderVars>> /\ UNCHANGED <<applyVars, acked>>
  BY Zenon, Sends DEF vars, clientVars
<1> QED
  BY Zenon, <1>1, ElectionQuiet, PlainEffects

\* AppendEntries of a leader tell its term and commit index.
LEMMA BroadcastFair ==
    ASSUME NEW led, NEW n, NEW t, NEW lg, NEW next, NEW commit, role'[n] = "leader",
           currentTerm'[n] = t, commitIndex'[n] = commit
    PROVE  /\ \A p, k : fair(led, replicateToPeer(n, p, t, lg, k, commit))
           /\ \A x \in replicateToAll(n, t, lg, next, commit) : fair(led, x)
<1>1. ASSUME NEW p, NEW k PROVE fair(led, replicateToPeer(n, p, t, lg, k, commit))
  <2> DEFINE x == replicateToPeer(n, p, t, lg, k, commit)
  <2>1. x.type = "append_req" /\ x.src = n /\ x.term = t /\ x.leaderCommit = commit
    BY Zenon DEF replicateToPeer
  <2> HIDE DEF x
  <2>2. x.type # "vote_req" /\ x.type # "vote_resp" /\ x.type # "append_resp"
    BY <2>1
  <2>3. fairBallot(x)
    BY Zenon, <2>2 DEF fairBallot
  <2>4. fairMatch(led, x)
    BY Zenon, <2>2 DEF fairMatch
  <2>5. candid(x)
    BY Zenon, <2>1 DEF candid
  <2> QED
    BY Zenon, <2>3, <2>4, <2>5 DEF fair, x
<1> QED
  BY Zenon, <1>1 DEF replicateToAll

\* A heartbeat, a proposal or a retry sends what the leader has.
LEMMA LeaderEffects ==
    ASSUME NEW led, TypeGroups, NEW n \in Node, NEW m,
           \/ onHeartbeat(n) \/ retryAppend(n, m) \/ \E c \in Command : handlePropose(n, c)
    PROVE  Effects(led)
<1>1. /\ role[n] = "leader" /\ UNCHANGED <<electionVars, applyVars, matchIndex, acked>>
      /\ UNCHANGED <<role, currentTerm, commitIndex>>
  BY Zenon DEF onHeartbeat, retryAppend, handlePropose, currentReply, leaderVars, clientVars,
     electionVars, applyVars
<1>2. \E S : Added(S) /\ \A x \in S : fair(led, x)
  <2>1. \E lg, next :
           \/ transmit(messages, replicateToAll(n, currentTerm[n], lg, next, commitIndex[n]))
           \/ transmit(messages \ {m}, {replicateToPeer(n, m.src, currentTerm[n], lg, next,
                                                        commitIndex[n])})
    BY Zenon DEF onHeartbeat, retryAppend, handlePropose
  <2>2. PICK lg, next :
           \/ Added(replicateToAll(n, currentTerm[n], lg, next, commitIndex[n]))
           \/ Added({replicateToPeer(n, m.src, currentTerm[n], lg, next, commitIndex[n])})
    BY SMTT(30), <2>1, Sends
  <2> QED
    BY ZenonT(30), <1>1, <2>2, BroadcastFair
<1>3. CandidatesKept /\ ProgressKept
  BY Zenon, <1>1 DEF electionVars, CandidatesKept, ProgressKept, Evidence
<1> QED
  BY ZenonT(30), <1>1, <1>2, <1>3, PlainEffects

\* A vote counted was on its way, and a new leader starts with no progress.
LEMMA CountEffects ==
    ASSUME NEW led, TypeGroups, NEW n \in Node, NEW m \in messages, m.type = "vote_resp",
           m.dst = n, keepCollecting(n, m) \/ promoteToLeader(n, m)
    PROVE  Effects(led)
<1>1. /\ currentElection(n, m) /\ m.granted
      /\ voters' = [voters EXCEPT ![n] = @ \cup {m.src}]
      /\ UNCHANGED <<currentTerm, applyVars, acked>> /\ UNCHANGED commitIndex
      /\ \/ UNCHANGED <<role, matchIndex>>
         \/ /\ role' = [role EXCEPT ![n] = "leader"]
            /\ matchIndex' = [matchIndex EXCEPT ![n] = [p \in Node |-> 0]]
  BY Zenon DEF keepCollecting, promoteToLeader, countVote, clientVars, leaderVars, applyVars
<1>2. CandidatesKept
  <2> SUFFICES ASSUME NEW c \in Node, role'[c] = "candidate"
               PROVE  /\ role[c] = "candidate" /\ currentTerm'[c] = currentTerm[c]
                      /\ \A p \in voters'[c] : Evidence(c, p, currentTerm[c])
    BY Zenon DEF CandidatesKept
  <2>1. role[c] = "candidate"
    BY Zenon, <1>1 DEF TypeGroups, ElectionOK
  <2>2. grants(m, n, m.src, currentTerm[n])
    BY Zenon, <1>1 DEF grants, concerns, currentElection
  <2>3. \A p \in voters'[c] : p \in voters[c] \/ (c = n /\ p = m.src)
    BY Zenon, <1>1 DEF TypeGroups, ElectionOK
  <2> QED
    BY ZenonT(30), <1>1, <2>1, <2>2, <2>3 DEF Evidence
<1>3. ProgressKept
  BY <1>1 DEF ProgressKept, TypeGroups, ElectionOK, LeaderOK
<1>4. \E S : Added(S) /\ \A x \in S : fair(led, x)
  <2>1. CASE keepCollecting(n, m)
    BY <2>1, Sends DEF keepCollecting
  <2>2. CASE promoteToLeader(n, m)
    <3>1. role'[n] = "leader"
      BY Zenon, <2>2 DEF promoteToLeader, TypeGroups, ElectionOK
    <3>2. PICK lg, next :
             transmit(messages \ {m},
                      replicateToAll(n, currentTerm[n], lg, next, commitIndex[n]))
      BY Zenon, <2>2 DEF promoteToLeader
    <3>3. Added(replicateToAll(n, currentTerm[n], lg, next, commitIndex[n]))
      BY Zenon, <3>2, Sends
    <3>4. \A x \in replicateToAll(n, currentTerm[n], lg, next, commitIndex[n]) :
             fair(led, x)
      BY Zenon, <1>1, <3>1, BroadcastFair
    <3> QED
      BY Zenon, <3>3, <3>4
  <2> QED
    BY Zenon, <2>1, <2>2
<1> QED
  BY Zenon, <1>1, <1>2, <1>3, <1>4, PlainEffects

\* Every log is as up to date as itself.
LEMMA UpToDateSelf ==
    ASSUME NEW lg \in Seq(Entry)
    PROVE  upToDate(lg, lg)
<1>1. Len(lg) \in Nat
  BY Zenon, LenFacts
<1> QED
  BY <1>1 DEF upToDate

\* A node grants its vote to a candidate whose log, as the request describes it and
\* as it still is, is as up to date as its own.
LEMMA GrantEffects ==
    ASSUME NEW led, ElectionInv, RequestsCurrent, NEW n \in Node, NEW m \in messages,
           m.type = "vote_req", m.dst = n, grantVote(n, m)
    PROVE  Effects(led)
<1> DEFINE r == voteResponse(m, m.term, TRUE)
<1>1. TypeGroups /\ m.src \in Node /\ m.term \in Nat /\ UNCHANGED <<applyVars, acked, log>>
  BY Zenon, MessageFields DEF ElectionInv, TypeGroups, MessagesOK, grantVote
<1>2. /\ \A c \in Node \ {n} : /\ role'[c] = role[c] /\ currentTerm'[c] = currentTerm[c]
                               /\ voters'[c] = voters[c] /\ matchIndex'[c] = matchIndex[c]
      /\ \/ role'[n] = "follower"
         \/ UNCHANGED <<role, currentTerm, voters, matchIndex>>
  BY ZenonT(30), <1>1 DEF grantVote, forgetCandidacy, TypeGroups, ElectionOK, LeaderOK, leaderVars
<1>3. CandidatesKept /\ ProgressKept
  BY Zenon, <1>2 DEF CandidatesKept, ProgressKept, Evidence
<1>4. m.src # n
  <2>1. concerns(m, m.src, n, m.term)
    BY Zenon DEF concerns
  <2> QED
    BY Zenon, <1>1, <2>1 DEF ElectionInv, ElectionCore, BallotTerm
<1>5. ASSUME role'[m.src] = "candidate", currentTerm'[m.src] = m.term
      PROVE  upToDate(log'[m.src], log'[n])
  <2>1. role[m.src] = "candidate" /\ currentTerm[m.src] = m.term
    BY ZenonT(30), <1>1, <1>2, <1>4, <1>5
  <2>2. m.lastLogIndex = Len(log[m.src]) /\ m.lastLogTerm = lastLogTerm(m.src)
    BY Zenon, <2>1 DEF RequestsCurrent
  <2>3. candidateLogUpToDate(n, m.lastLogTerm, m.lastLogIndex)
    BY Zenon DEF grantVote, votable
  <2> QED
    BY Zenon, <1>1, <2>2, <2>3 DEF candidateLogUpToDate, lastLogTerm, upToDate
<1>6. fair(led, r)
  BY Zenon, <1>5 DEF voteResponse, fair, fairBallot, fairMatch, candid
<1>7. Added({r})
  BY Zenon, Sends DEF grantVote
<1> HIDE DEF r
<1>8. \A x \in {r} : fair(led, x)
  BY Zenon, <1>6
<1> QED
  BY ZenonT(30), <1>1, <1>3, <1>7, <1>8, PlainEffects

\* A new candidacy: its only vote is the candidate's own, and its requests describe
\* the candidate's log.
LEMMA TimeoutEffects ==
    ASSUME NEW led, ElectionInv, NEW n \in Node, onElectionTimeout(n)
    PROVE  Effects(led)
<1> DEFINE request(p) == [type |-> "vote_req", src |-> n, dst |-> p, awaited |-> TRUE,
                          term |-> currentTerm[n] + 1, lastLogIndex |-> Len(log[n]),
                          lastLogTerm |-> lastLogTerm(n)]
<1>1. TypeGroups /\ UNCHANGED <<applyVars, acked, log, matchIndex>>
  BY Zenon DEF ElectionInv, onElectionTimeout, clientVars, leaderVars
<1>2. /\ \A c \in Node \ {n} : /\ role'[c] = role[c] /\ currentTerm'[c] = currentTerm[c]
                               /\ voters'[c] = voters[c]
      /\ role'[n] = "candidate" /\ currentTerm'[n] = currentTerm[n] + 1 /\ voters'[n] = {n}
  BY Zenon, <1>1 DEF onElectionTimeout, TypeGroups, ElectionOK
<1>3. \A x \in messages' : x \in messages \/ \E p \in peers(n) : x = request(p)
  <2>1. transmit(messages, {request(p) : p \in peers(n)})
    BY Zenon DEF onElectionTimeout
  <2> QED
    BY <2>1, Sends DEF Added
<1>4. VotesChecked
  <2> SUFFICES ASSUME NEW c \in Node, NEW p \in Node, role'[c] = "candidate",
                      Evidence(c, p, currentTerm[c])'
               PROVE  \/ /\ role[c] = "candidate" /\ currentTerm'[c] = currentTerm[c]
                         /\ Evidence(c, p, currentTerm[c])
                      \/ upToDate(log'[c], log'[p])
    BY Zenon DEF VotesChecked
  <2>1. \A m \in messages' : grants(m, c, p, currentTerm'[c]) => m \in messages
    BY <1>3 DEF grants
  <2>2. CASE c # n
    BY Zenon, <1>2, <2>1, <2>2 DEF Evidence, grants, concerns
  <2>3. CASE c = n
    <3>1. ASSUME NEW m \in messages, grants(m, n, p, currentTerm[n] + 1) PROVE FALSE
      <4>1. currentTerm[n] \in Nat /\ currentTerm[n] + 1 \in Nat
        BY <1>1 DEF TypeGroups, ElectionOK
      <4>2. currentTerm[n] + 1 <= currentTerm[n]
        BY Zenon, <3>1, <4>1 DEF grants, ElectionInv, ElectionCore, BallotTerm
      <4> QED
        BY <4>1, <4>2
    <3>2. p = n
      BY Zenon, <1>2, <2>1, <2>3, <3>1 DEF Evidence, grants, concerns
    <3>3. log'[n] \in Seq(Entry)
      BY Zenon, <1>1 DEF TypeGroups, LogOK
    <3> QED
      BY Zenon, <2>3, <3>2, <3>3, UpToDateSelf
  <2> QED
    BY Zenon, <2>2, <2>3
<1>5. RequestsMove
  <2>1. \A x \in messages : survives(x, x)
    BY Zenon DEF survives
  <2> QED
    BY <1>1, <1>3, <2>1 DEF RequestsMove, lastLogTerm
<1>6. ProgressMoves(led) /\ Told
  <2>1. ProgressKept
    BY Zenon, <1>1, <1>2 DEF ProgressKept
  <2>2. \A x \in messages' : passed(x) \/ (fairMatch(led, x) /\ candid(x))
    BY <1>3 DEF passed, survives, fairMatch, candid
  <2> QED
    BY Zenon, <2>1, <2>2, FairMatchStep DEF Told, passed, candid
<1> QED
  BY Zenon, <1>1, <1>4, <1>5, <1>6, ApplyQuiet DEF Effects, CommitMoves

\* A restart goes back to the saved commit index.
LEMMA RecoverEffects ==
    ASSUME NEW led, TypeGroups, NEW n \in Node, recover(n)
    PROVE  Effects(led)
<1>1. /\ role'[n] = "follower" /\ UNCHANGED <<currentTerm, savedCommit, acked>>
      /\ \A c \in Node \ {n} : /\ role'[c] = role[c] /\ voters'[c] = voters[c]
                               /\ matchIndex'[c] = matchIndex[c]
                               /\ commitIndex'[c] = commitIndex[c]
                               /\ lastApplied'[c] = lastApplied[c]
      /\ commitIndex'[n] = savedCommit[n]
      /\ lastApplied'[n] = larger(lastApplied[n], savedCommit[n])
  BY Zenon DEF recover, forgetCandidacy, TypeGroups, ElectionOK, LeaderOK, ApplyOK
<1>2. CandidatesKept /\ ProgressKept
  BY Zenon, <1>1 DEF CandidatesKept, ProgressKept, Evidence
<1>3. Reached(led)
  <2> SUFFICES ASSUME NEW p \in Node,
                      NEW c \in {commitIndex'[p], savedCommit'[p], lastApplied'[p]}
               PROVE  \E b \in Nat : c <= b /\ Supported(led, p, b)
    BY Zenon DEF Reached
  <2>1. c \in {commitIndex[p], savedCommit[p], lastApplied[p]}
    BY Zenon, <1>1 DEF larger
  <2>2. c \in Nat /\ c <= c
    BY <2>1 DEF TypeGroups, ApplyOK
  <2> QED
    BY Zenon, <2>1, <2>2 DEF Supported
<1>4. Answered
  BY Zenon, <1>1 DEF Answered
<1>5. \A x \in messages' : passed(x)
  BY Zenon, RecoverTraffic DEF TypeGroups, passed
<1> QED
  BY Zenon, <1>2, <1>3, <1>4, <1>5, FairEffects

\* commitAndApply reaches no further than the index it is given, or than it was, and
\* hands out results of entries it has applied.
LEMMA CommitReached ==
    ASSUME NEW led, ApplyOK, NEW n \in Node, NEW commit \in Nat, NEW lg, NEW ws,
           commitAndApply(n, commit, lg, ws), lg = log'[n], Supported(led, n, commit)
    PROVE  Reached(led) /\ Answered /\ commitIndex'[n] = commit
<1>1. PICK saveFails \in BOOLEAN, applyFails \in BOOLEAN :
         /\ commitIndex' = [commitIndex EXCEPT ![n] = commit]
         /\ savedCommit' = [savedCommit EXCEPT ![n] =
                              IF saveFails THEN @ ELSE commit]
         /\ \E upto \in IF applyFails THEN lastApplied[n]..(commit - 1)
                                      ELSE {larger(lastApplied[n], commit)} :
               LET served == {w \in ws : w[1] \in (lastApplied[n] + 1)..upto}
               IN  /\ lastApplied' = [lastApplied EXCEPT ![n] = upto]
                   /\ acked' = acked \cup {<<w[1], lg[w[1]]>> : w \in served}
  BY Zenon DEF commitAndApply
<1>2. PICK upto \in IF applyFails THEN lastApplied[n]..(commit - 1)
                                  ELSE {larger(lastApplied[n], commit)} :
         LET served == {w \in ws : w[1] \in (lastApplied[n] + 1)..upto}
         IN  /\ lastApplied' = [lastApplied EXCEPT ![n] = upto]
             /\ acked' = acked \cup {<<w[1], lg[w[1]]>> : w \in served}
  BY Zenon, <1>1
<1>3. lastApplied[n] \in Nat /\ upto \in Nat /\ (upto = lastApplied[n] \/ upto <= commit)
  BY <1>2 DEF larger, ApplyOK
<1>4. /\ \A p \in Node \ {n} : /\ commitIndex'[p] = commitIndex[p]
                               /\ savedCommit'[p] = savedCommit[p]
                               /\ lastApplied'[p] = lastApplied[p]
      /\ commitIndex'[n] = commit /\ savedCommit'[n] \in {savedCommit[n], commit}
      /\ lastApplied'[n] = upto
  BY Zenon, <1>1, <1>2 DEF ApplyOK
<1>5. Reached(led)
  <2> SUFFICES ASSUME NEW p \in Node,
                      NEW c \in {commitIndex'[p], savedCommit'[p], lastApplied'[p]}
               PROVE  \E b \in Nat : c <= b /\ Supported(led, p, b)
    BY Zenon DEF Reached
  <2>1. CASE c \in {commitIndex[p], savedCommit[p], lastApplied[p]}
    <3>1. c \in Nat /\ c <= c
      BY <2>1 DEF ApplyOK
    <3> QED
      BY Zenon, <2>1, <3>1 DEF Supported
  <2>2. CASE p = n /\ c <= commit
    BY Zenon, <2>2
  <2> QED
    BY SMTT(30), <1>3, <1>4, <2>1, <2>2
<1>6. Answered
  <2> SUFFICES ASSUME NEW a \in acked', a \notin acked
               PROVE  a[1] \in 1..lastApplied'[n] /\ a[2] = log'[n][a[1]]
    BY Zenon DEF Answered
  <2>1. PICK w \in ws : w[1] \in (lastApplied[n] + 1)..upto /\ a = <<w[1], lg[w[1]]>>
    BY Zenon, <1>2
  <2>2. w[1] \in 1..upto
    BY <1>3, <2>1
  <2> QED
    BY Zenon, <1>4, <2>1, <2>2
<1> QED
  BY ZenonT(30), <1>4, <1>5, <1>6

\* Accepting an AppendEntries: the answer reports a match the follower has, and the
\* commit index it follows lies within that match.
LEMMA AcceptEffects ==
    ASSUME NEW own, NEW led, StepFrom(own, led), NEW n \in Node, NEW m \in messages,
           m.type = "append_req", m.dst = n, NEW dup, acceptAppend(n, m, dup)
    PROVE  Effects(led)
<1> DEFINE match == m.prevLogIndex + Len(m.entries)
           commit == smaller(m.leaderCommit, match)
           r == appendResponse(m, m.term, TRUE, match, 0, 0)
           lead == led[m.term]
           lg == log'[n]
<1>1. /\ m \in AppendEntriesRequest /\ m.term \in Nat /\ m.leaderCommit \in Nat
      /\ match \in Nat /\ TypeGroups
  <2>1. m \in AppendEntriesRequest
    BY Zenon, MessageFields DEF StepFrom, ElectionInv, TypeGroups, MessagesOK
  <2> QED
    BY Zenon, <2>1, RequestExtent DEF AppendEntriesRequest, StepFrom, ElectionInv
<1>2. /\ currentTerm'[n] = m.term /\ role'[n] = "follower" /\ agree(lg, lead, match)
  BY Zenon, AcceptMerges DEF StepFrom
<1>3. CandidatesKept /\ ProgressKept
  BY Zenon, <1>1, ElectionQuiet DEF acceptAppend, follow
<1>4. commit \in Nat /\ commit <= match /\ commit <= m.leaderCommit
  BY <1>1 DEF smaller
<1>5. fair(led, r) /\ Added({r})
  <2>1. fair(led, r)
    BY Zenon, <1>2 DEF fair, fairBallot, fairMatch, candid, appendResponse
  <2>2. replyOrDuplicate(m, r, dup)
    BY Zenon DEF acceptAppend, matchedUpTo
  <2> QED
    BY Zenon, <2>1, <2>2, Sends
<1>6. \A x \in messages' : passed(x) \/ fair(led, x)
  <2> HIDE DEF r
  <2> QED
    BY <1>5, StillPassed
<1>7. Reached(led) /\ Answered
  <2>1. IF commit > commitIndex[n]
        THEN \E ws : commitAndApply(n, commit, lg, ws)
        ELSE UNCHANGED <<applyVars, acked>>
    BY Zenon DEF acceptAppend, matchedUpTo
  <2>2. CASE UNCHANGED <<applyVars, acked>>
    BY Zenon, <1>1, <2>2, ApplyQuiet
  <2>3. ASSUME NEW ws, commitAndApply(n, commit, lg, ws)
        PROVE  Reached(led) /\ Answered
    <3>1. led \in [Nat -> Seq(Entry)] /\ log'[n] \in Seq(Entry)
      BY Zenon DEF StepFrom, ElectionInv, TypeGroups, LogOK, LogInv, History
    <3>2. Len(lg) \in Nat /\ Len(lead) \in Nat
      BY Zenon, <1>1, <3>1, LenFacts
    <3> HIDE DEF lg, lead, match, commit
    <3>3. agree(lg, lead, commit)
      BY ZenonT(30), <1>1, <1>2, <1>4, <3>2, AgreeLower
    <3>4. Supported(led, n, commit)
      BY Zenon, <1>2, <1>4, <3>3 DEF Supported, lg, lead
    <3>5. lg = log'[n] /\ ApplyOK
      BY Zenon, <1>1 DEF lg, TypeGroups
    <3> QED
      BY Zenon, <1>4, <2>3, <3>4, <3>5, CommitReached
  <2> QED
    BY Zenon, <2>1, <2>2, <2>3
<1> QED
  BY Zenon, <1>3, <1>6, <1>7, FairEffects

\* The index advanceCommit settles on is the old one, or holds an entry of the
\* leader's term that a majority, itself included, has reported to match.
LEMMA CandidateSupported ==
    ASSUME NEW led, NEW n \in Node, log[n] \in Seq(Entry), commitIndex[n] \in Nat,
           NEW match \in [Node -> Nat], match = matchIndex'[n],
           UNCHANGED <<role, currentTerm, log>>, role[n] = "leader",
           NEW commit, commit = commitCandidate(n, [match EXCEPT ![n] = Len(log[n])])
    PROVE  commit \in Nat /\ Supported(led, n, commit)
<1> DEFINE matches == [match EXCEPT ![n] = Len(log[n])]
           v == majorityMatch(matches)
           Q == {p \in Node : matches[p] >= v}
<1>1. matches \in [Node -> Nat] /\ \A p \in Node : p # n => matches[p] = match[p]
  BY Zenon, LenFacts
<1> HIDE DEF matches
<1>2. v \in Nat /\ Cardinality(Q) >= quorum
  BY Zenon, <1>1, MajorityMatchType
<1>3. Q \in Majorities
  BY Zenon, <1>2 DEF Majorities
<1>4. \A p \in Q : p = n \/ v <= match[p]
  BY ZenonT(30), <1>1, <1>2
<1>5. commit = IF v > commitIndex[n] /\ holds(log[n], v, currentTerm[n])
               THEN v ELSE commitIndex[n]
  BY Zenon DEF commitCandidate, matches
<1> HIDE DEF v, Q
<1>6. CASE commit = commitIndex[n]
  BY Zenon, <1>6 DEF Supported
<1>7. CASE commit = v /\ holds(log[n], v, currentTerm[n])
  <2>1. role'[n] = "leader" /\ holds(log'[n], v, currentTerm'[n])
    BY Zenon, <1>7
  <2>2. \E P \in Majorities : \A p \in P : p = n \/ v <= matchIndex'[n][p]
    BY Zenon, <1>3, <1>4
  <2> QED
    BY ZenonT(30), <1>2, <1>7, <2>1, <2>2 DEF Supported
<1> QED
  BY Zenon, <1>5, <1>6, <1>7

\* A reply that records progress: the leader's match index is the one reported, and
\* what it commits and broadcasts is supported.
LEMMA ProgressEffects ==
    ASSUME NEW own, NEW led, StepFrom(own, led), NEW n \in Node, NEW m \in messages,
           m.type = "append_resp", m.dst = n, recordProgress(n, m)
    PROVE  Effects(led)
<1> DEFINE match == matchIndex'[n]
           matches == [match EXCEPT ![n] = Len(log[n])]
           commit == commitCandidate(n, matches)
<1>1. /\ TypeGroups /\ TypeGroups' /\ log[n] \in Seq(Entry) /\ commitIndex[n] \in Nat
      /\ match \in [Node -> Nat] /\ m.src \in Node
      /\ matchIndex \in [Node -> [Node -> Nat]] /\ ApplyOK
  BY Zenon, MessageFields DEF StepFrom, ElectionInv, TypeGroups, LogOK, ApplyOK, LeaderOK, MessagesOK
<1>2. /\ role[n] = "leader" /\ m.reqTerm = currentTerm[n] /\ m.success
      /\ UNCHANGED <<role, currentTerm, voters, log>>
      /\ \/ matchIndex' = [matchIndex EXCEPT ![n][m.src] = m.matchIndex]
         \/ UNCHANGED matchIndex
  BY Zenon DEF recordProgress, currentReply, electionVars, leaderVars
<1>3. CandidatesKept
  BY Zenon, <1>2 DEF CandidatesKept, Evidence
<1>4. ProgressKept
  <2>1. \A l, p \in Node : \/ matchIndex'[l][p] = matchIndex[l][p]
                           \/ l = n /\ p = m.src /\ matchIndex'[l][p] = m.matchIndex
    <3>1. CASE matchIndex' = [matchIndex EXCEPT ![n][m.src] = m.matchIndex]
      <4>1. /\ matchIndex'[n] = [matchIndex[n] EXCEPT ![m.src] = m.matchIndex]
            /\ \A l \in Node \ {n} : matchIndex'[l] = matchIndex[l]
        BY Zenon, <1>1, <3>1
      <4>2. /\ matchIndex'[n][m.src] = m.matchIndex
            /\ \A p \in Node \ {m.src} : matchIndex'[n][p] = matchIndex[n][p]
        <5>1. matchIndex[n] \in [Node -> Nat]
          BY Zenon, <1>1
        <5> QED
          BY ZenonT(30), <1>1, <4>1, <5>1
      <4> QED
        BY Zenon, <4>1, <4>2
    <3> QED
      BY Zenon, <1>2, <3>1
  <2> QED
    BY ZenonT(30), <1>2, <2>1 DEF ProgressKept
<1>5. IF commit > commitIndex[n]
      THEN /\ commitAndApply(n, commit, log[n], waiters[n])
           /\ transmit(messages \ {m},
                       replicateToAll(n, currentTerm[n], log[n], nextIndex'[n], commit))
      ELSE discard(m) /\ UNCHANGED <<applyVars, acked>>
  BY Zenon DEF recordProgress, clientVars
<1>6. commit \in Nat /\ Supported(led, n, commit)
  <2>1. PICK mt \in [Node -> Nat] : mt = matchIndex'[n]
    BY Zenon, <1>1
  <2>2. PICK c : c = commitCandidate(n, [mt EXCEPT ![n] = Len(log[n])])
    BY Zenon
  <2>3. c \in Nat /\ Supported(led, n, c)
    BY ZenonT(30), <1>1, <1>2, <2>1, <2>2, CandidateSupported
  <2> QED
    BY Zenon, <2>1, <2>2, <2>3
<1> HIDE DEF commit
<1>7. CASE discard(m) /\ UNCHANGED <<applyVars, acked>>
  <2>1. Added({})
    BY Zenon, <1>7, Sends
  <2> QED
    BY ZenonT(30), <1>1, <1>3, <1>4, <1>7, <2>1, PlainEffects
<1>8. CASE /\ commitAndApply(n, commit, log[n], waiters[n])
           /\ transmit(messages \ {m},
                       replicateToAll(n, currentTerm[n], log[n], nextIndex'[n], commit))
  <2>1. Reached(led) /\ Answered /\ commitIndex'[n] = commit
    BY ZenonT(30), <1>1, <1>2, <1>6, <1>8, CommitReached
  <2>2. Added(replicateToAll(n, currentTerm[n], log[n], nextIndex'[n], commit))
    BY Zenon, <1>8, Sends
  <2>3. \A x \in replicateToAll(n, currentTerm[n], log[n], nextIndex'[n], commit) : fair(led, x)
    BY Zenon, <1>2, <2>1, BroadcastFair
  <2>4. \A x \in messages' : passed(x) \/ fair(led, x)
    BY Zenon, <2>2, <2>3, StillPassed
  <2> QED
    BY Zenon, <1>3, <1>4, <2>1, <2>4, FairEffects
<1> QED
  BY ZenonT(30), <1>5, <1>7, <1>8

\* Every step has only the effects accounted for.
LEMMA NextEffects ==
    ASSUME NEW own, NEW led, StepFrom(own, led), RequestsCurrent, [Next]_vars
    PROVE  Effects(led)
<1>1. ElectionInv /\ TypeGroups
  BY Zenon DEF StepFrom, ElectionInv
<1>2. CASE UNCHANGED vars
  BY Zenon, <1>1, <1>2, StutterEffects
<1>3. ASSUME NEW n \in Node,
             \/ candidacyFails(n) \/ onElectionTimeout(n) \/ onHeartbeat(n) \/ recover(n)
      PROVE  Effects(led)
  BY ZenonT(30), <1>1, <1>2, <1>3, TimeoutEffects, LeaderEffects, RecoverEffects DEF candidacyFails
<1>4. ASSUME NEW n \in Node, NEW c \in Command, handlePropose(n, c) PROVE Effects(led)
  BY Zenon, <1>1, <1>4, LeaderEffects
<1>5. ASSUME NEW n \in Node, NEW m \in messages, handleRequestVote(n, m) PROVE Effects(led)
  BY ZenonT(30), <1>1, <1>5, RefuseEffects, GrantEffects DEF handleRequestVote
<1>6. ASSUME NEW n \in Node, NEW m \in messages, handleVoteResponse(n, m) PROVE Effects(led)
  BY ZenonT(30), <1>1, <1>6, DropEffects, CountEffects DEF handleVoteResponse
<1>7. ASSUME NEW n \in Node, NEW m \in messages, NEW dup, handleAppendEntries(n, m, dup)
      PROVE  Effects(led)
  BY ZenonT(30), <1>1, <1>7, RefuseEffects, AcceptEffects DEF handleAppendEntries
<1>8. ASSUME NEW n \in Node, NEW m \in messages, handleAppendResponse(n, m) PROVE Effects(led)
  BY ZenonT(30), <1>1, <1>8, DropEffects, LeaderEffects, ProgressEffects DEF handleAppendResponse
<1> QED
  BY ZenonT(30), <1>2, <1>3, <1>4, <1>5, <1>6, <1>7, <1>8 DEF Next

------------------------------------------------------------------------------
(* Waiters                                                                  *)

\* The waiters of a node are gone after the step, or some of those it had are left
\* and everything they depend on is as it was.
WaitersKept(p) ==
    \/ waiters'[p] = {}
    \/ /\ waiters'[p] \subseteq waiters[p] /\ UNCHANGED <<role[p], currentTerm[p]>>
       /\ UNCHANGED <<lastApplied[p], log[p]>>

\* Waiters that are kept still own their entries.
LEMMA KeptWaiters ==
    ASSUME WaiterOwnsEntry, \A p \in Node : WaitersKept(p)
    PROVE  WaiterOwnsEntry'
BY DEF WaiterOwnsEntry, WaitersKept

\* Stepping down leaves no waiter.
LEMMA StepDownWaiters ==
    ASSUME WaiterOwnsEntry, NEW n \in Node
    PROVE  waitersAfterStepDown(n) = {}
BY Zenon DEF WaiterOwnsEntry, waitersAfterStepDown

\* A node that does not lead has no waiter.
LEMMA OnlyLeadersWait ==
    ASSUME WaiterOwnsEntry, NEW n \in Node, role[n] # "leader"
    PROVE  waiters[n] = {}
BY Zenon DEF WaiterOwnsEntry

\* Elections fail the waiters of a leader that steps down and find none elsewhere.
LEMMA ElectionWaiters ==
    ASSUME TypeGroups, WaiterOwnsEntry, NEW n \in Node, NEW m,
           \/ onElectionTimeout(n) \/ recover(n) \/ stepDown(n, m) \/ denyVote(n, m)
           \/ grantVote(n, m) \/ keepCollecting(n, m) \/ promoteToLeader(n, m)
    PROVE  WaiterOwnsEntry'
<1> USE DEF TypeGroups, ElectionOK, LogOK, ApplyOK, WaitersOK
<1>1. \A p \in Node \ {n} : WaitersKept(p)
  <2>1. CASE onElectionTimeout(n) \/ recover(n) \/ stepDown(n, m)
    BY ZenonT(30), <2>1 DEF onElectionTimeout, recover, stepDown, becomeFollower, WaitersKept, clientVars,
       applyVars
  <2>2. CASE denyVote(n, m) \/ grantVote(n, m)
    <3>1. /\ UNCHANGED <<lastApplied, log>>
          /\ \/ UNCHANGED <<role, currentTerm, waiters>>
             \/ /\ \E r : role' = [role EXCEPT ![n] = r]
                /\ \E t : currentTerm' = [currentTerm EXCEPT ![n] = t]
                /\ waiters' = [waiters EXCEPT ![n] = waitersAfterStepDown(n)]
      BY ZenonT(30), <2>2 DEF denyVote, grantVote, becomeFollower, electionVars, applyVars
    <3> QED
      BY Zenon, <3>1 DEF WaitersKept
  <2>3. CASE keepCollecting(n, m) \/ promoteToLeader(n, m)
    <3>1. /\ UNCHANGED <<currentTerm, waiters, lastApplied>>
          /\ \E r : role' = [role EXCEPT ![n] = r]
          /\ \E new : log' = [log EXCEPT ![n] = new]
      <4>1. role = [role EXCEPT ![n] = role[n]] /\ log = [log EXCEPT ![n] = log[n]]
        BY Zenon
      <4> QED
        BY ZenonT(30), <2>3, <4>1 DEF keepCollecting, promoteToLeader, clientVars, applyVars
    <3> QED
      BY ZenonT(30), <3>1 DEF WaitersKept
  <2> QED
    BY ZenonT(30), <2>1, <2>2, <2>3
<1>2. WaitersKept(n)
  <2>1. CASE onElectionTimeout(n) \/ keepCollecting(n, m) \/ promoteToLeader(n, m)
    <3>1. role[n] # "leader" /\ UNCHANGED waiters
      BY ZenonT(30), <2>1 DEF onElectionTimeout, keepCollecting, promoteToLeader, countVote,
         currentElection, clientVars
    <3> QED
      BY ZenonT(30), <3>1, OnlyLeadersWait DEF WaitersKept
  <2>2. CASE recover(n) \/ stepDown(n, m)
    BY ZenonT(30), <2>2, StepDownWaiters DEF recover, stepDown, WaitersKept
  <2>3. CASE denyVote(n, m) \/ grantVote(n, m)
    <3>1. \/ waiters' = [waiters EXCEPT ![n] = waitersAfterStepDown(n)]
          \/ UNCHANGED <<role, currentTerm, waiters, lastApplied, log>>
      BY ZenonT(30), <2>3 DEF denyVote, grantVote, electionVars, applyVars
    <3> QED
      BY ZenonT(30), <3>1, StepDownWaiters DEF WaitersKept
  <2> QED
    BY ZenonT(30), <2>1, <2>2, <2>3
<1> QED
  BY ZenonT(30), <1>1, <1>2, KeptWaiters

\* Following a leader fails the waiters; other traffic leaves them alone.
LEMMA FollowerWaiters ==
    ASSUME TypeGroups, WaiterOwnsEntry, NEW n \in Node, NEW m, NEW dup,
           \/ rejectAppend(n, m, dup) \/ failAppend(n, m, dup) \/ acceptAppend(n, m, dup)
    PROVE  WaiterOwnsEntry'
<1> USE DEF TypeGroups, ElectionOK, LogOK, ApplyOK, WaitersOK
<1>1. becomeFollower(n, m.term, m.src)
  BY Zenon DEF rejectAppend, failAppend, acceptAppend, follow
<1>2. /\ waiters'[n] = {} /\ \A p \in Node \ {n} : waiters'[p] = waiters[p]
      /\ \A p \in Node \ {n} : lastApplied'[p] = lastApplied[p] /\ log'[p] = log[p]
  <2>1. CASE rejectAppend(n, m, dup) \/ failAppend(n, m, dup)
    <3>1. /\ waiters' = [waiters EXCEPT ![n] = waitersAfterStepDown(n)]
          /\ UNCHANGED <<log, lastApplied>>
      BY Zenon, <2>1 DEF rejectAppend, failAppend, applyVars
    <3> QED
      BY ZenonT(30), <3>1, StepDownWaiters
  <2>2. CASE acceptAppend(n, m, dup)
    <3>1. /\ \E new : log' = [log EXCEPT ![n] = new]
          /\ \/ \E commit, lg : commitAndApply(n, commit, lg, waitersAfterStepDown(n))
             \/ /\ waiters' = [waiters EXCEPT ![n] = waitersAfterStepDown(n)]
                /\ UNCHANGED applyVars
      BY Zenon, <2>2 DEF acceptAppend
    <3>2. \E ws \in SUBSET waitersAfterStepDown(n) : waiters' = [waiters EXCEPT ![n] = ws]
      BY Zenon, <3>1 DEF commitAndApply
    <3>3. \E upto : lastApplied' = [lastApplied EXCEPT ![n] = upto]
      <4>1. CASE UNCHANGED applyVars
        BY ZenonT(30), <4>1 DEF applyVars
      <4> QED
        BY ZenonT(30), <3>1, <4>1 DEF commitAndApply
    <3> QED
      BY SMTT(30), <3>1, <3>2, <3>3, StepDownWaiters
  <2> QED
    BY ZenonT(30), <2>1, <2>2
<1>3. \A p \in Node \ {n} : role'[p] = role[p] /\ currentTerm'[p] = currentTerm[p]
  BY Zenon, <1>1 DEF becomeFollower
<1> QED
  BY ZenonT(30), <1>2, <1>3, KeptWaiters DEF WaitersKept

\* What no handler below touches.
LEMMA IdleWaiters ==
    ASSUME WaiterOwnsEntry, UNCHANGED <<role, currentTerm, waiters, lastApplied, log>>
    PROVE  WaiterOwnsEntry'
BY Zenon, KeptWaiters DEF WaitersKept

\* The waiter of a proposal owns the entry the leader has just appended, beyond
\* everything it has applied.
LEMMA ProposeWaiters ==
    ASSUME TypeGroups, WaiterOwnsEntry, NEW n \in Node, NEW c \in Command, handlePropose(n, c),
           lastApplied[n] <= Len(log[n])
    PROVE  WaiterOwnsEntry'
<1> DEFINE e == [term |-> currentTerm[n], command |-> c]
           k == Len(log[n]) + 1
<1>1. /\ log[n] \in Seq(Entry) /\ e \in Entry /\ Len(log[n]) \in Nat /\ lastApplied[n] \in Nat
  BY Zenon, LenFacts DEF TypeGroups, ElectionOK, LogOK, ApplyOK, Entry
<1>2. /\ role[n] = "leader" /\ UNCHANGED <<role, currentTerm, lastApplied>>
      /\ log'[n] = Append(log[n], e) /\ \A p \in Node \ {n} : log'[p] = log[p]
      /\ waiters'[n] = {w \in waiters[n] : w[1] # k} \cup {<<k, c>>}
      /\ \A p \in Node \ {n} : waiters'[p] = waiters[p]
  BY Zenon DEF handlePropose, electionVars, applyVars, TypeGroups, LogOK, WaitersOK
<1>3. Len(log'[n]) = k /\ log'[n][k] = e /\ \A i \in 1..Len(log[n]) : log'[n][i] = log[n][i]
  BY SMTT(30), <1>1, <1>2, AppendFacts
<1> HIDE DEF e, k
<1>4. ASSUME NEW w \in waiters'[n]
      PROVE  /\ role'[n] = "leader" /\ lastApplied'[n] < w[1] /\ w[1] <= Len(log'[n])
             /\ log'[n][w[1]] = [term |-> currentTerm'[n], command |-> w[2]]
  <2>1. CASE w = <<k, c>>
    BY SMTT(30), <1>1, <1>2, <1>3, <2>1 DEF e, k
  <2>2. CASE w \in waiters[n]
    <3>1. /\ lastApplied[n] < w[1] /\ w[1] <= Len(log[n]) /\ w[1] \in Nat
          /\ log[n][w[1]] = [term |-> currentTerm[n], command |-> w[2]]
      BY <2>2 DEF WaiterOwnsEntry, TypeGroups, WaitersOK
    <3>2. w[1] \in 1..Len(log[n]) /\ w[1] <= k
      BY SMTT(30), <1>1, <3>1 DEF k
    <3> QED
      BY Zenon, <1>2, <1>3, <3>1, <3>2
  <2> QED
    BY Zenon, <1>2, <2>1, <2>2
<1>5. ASSUME NEW p \in Node \ {n}, NEW w \in waiters'[p]
      PROVE  /\ role'[p] = "leader" /\ lastApplied'[p] < w[1] /\ w[1] <= Len(log'[p])
             /\ log'[p][w[1]] = [term |-> currentTerm'[p], command |-> w[2]]
  BY <1>2 DEF WaiterOwnsEntry
<1> QED
  BY ZenonT(30), <1>4, <1>5 DEF WaiterOwnsEntry

\* Applying serves the waiters of what it applies and leaves the later ones.
LEMMA ProgressWaiters ==
    ASSUME TypeGroups, TypeGroups', WaiterOwnsEntry, NEW n \in Node, NEW m,
           recordProgress(n, m)
    PROVE  WaiterOwnsEntry'
<1>1. UNCHANGED <<role, currentTerm, log>>
  BY Zenon DEF recordProgress, electionVars
<1>2. \/ \E commit, lg : commitAndApply(n, commit, lg, waiters[n])
      \/ UNCHANGED <<applyVars, waiters>>
  BY Zenon DEF recordProgress, clientVars
<1>3. CASE UNCHANGED <<applyVars, waiters>>
  BY Zenon, <1>1, <1>3, IdleWaiters DEF applyVars
<1>4. ASSUME NEW commit, NEW lg, commitAndApply(n, commit, lg, waiters[n])
      PROVE  WaiterOwnsEntry'
  <2>1. PICK upto :
           /\ lastApplied' = [lastApplied EXCEPT ![n] = upto]
           /\ waiters' = [waiters EXCEPT ![n] =
                            waiters[n] \ {w \in waiters[n] : w[1] \in (lastApplied[n] + 1)..upto}]
    BY Zenon, <1>4 DEF commitAndApply
  <2>2. /\ lastApplied'[n] = upto /\ upto \in Nat /\ lastApplied[n] \in Nat
        /\ \A p \in Node \ {n} : lastApplied'[p] = lastApplied[p] /\ waiters'[p] = waiters[p]
        /\ \A w \in waiters'[n] : /\ w \in waiters[n] /\ w[1] \in Nat
                                   /\ w[1] \notin (lastApplied[n] + 1)..upto
    BY Zenon, <2>1 DEF TypeGroups, ApplyOK, WaitersOK
  <2>3. ASSUME NEW w \in waiters'[n] PROVE upto < w[1]
    <3>1. w \in waiters[n] /\ w[1] \in Nat /\ w[1] \notin (lastApplied[n] + 1)..upto
      BY Zenon, <2>2
    <3>2. lastApplied[n] < w[1]
      BY Zenon, <3>1 DEF WaiterOwnsEntry
    <3> QED
      BY <2>2, <3>1, <3>2
  <2> QED
    BY ZenonT(30), <1>1, <2>2, <2>3 DEF WaiterOwnsEntry
<1> QED
  BY Zenon, <1>2, <1>3, <1>4

\* No step lets a waiter lose its entry.
LEMMA NextWaiters ==
    ASSUME SomePast, WaiterOwnsEntry, [Next]_vars
    PROVE  WaiterOwnsEntry'
<1>1. TypeGroups /\ TypeGroups'
  BY Zenon, NextElection DEF SomePast, ElectionInv
<1>2. CASE UNCHANGED vars
  BY Zenon, <1>2, IdleWaiters DEF vars, electionVars, applyVars, clientVars
<1>3. ASSUME NEW n \in Node, candidacyFails(n) \/ onHeartbeat(n) PROVE WaiterOwnsEntry'
  BY Zenon, <1>3, IdleWaiters DEF candidacyFails, onHeartbeat, vars, electionVars, applyVars, clientVars
<1>4. ASSUME NEW n \in Node, onElectionTimeout(n) \/ recover(n) PROVE WaiterOwnsEntry'
  BY Zenon, <1>1, <1>4, ElectionWaiters
<1>5. ASSUME NEW n \in Node, NEW c \in Command, handlePropose(n, c) PROVE WaiterOwnsEntry'
  <2>1. lastApplied[n] <= Len(log[n])
    <3>1. PICK led, snap : Backed(led, snap, lastApplied[n], log[n], currentTerm[n])
      BY Zenon DEF SomePast, CommitInv, CommitsBacked
    <3>2. Len(log[n]) \in Nat
      BY Zenon, <1>1, LenFacts DEF TypeGroups, LogOK
    <3> QED
      BY <3>1, <3>2 DEF Backed, agree
  <2> QED
    BY Zenon, <1>1, <1>5, <2>1, ProposeWaiters
<1>6. ASSUME NEW n \in Node, NEW m \in messages,
             handleRequestVote(n, m) \/ handleVoteResponse(n, m)
      PROVE  WaiterOwnsEntry'
  <2>1. CASE refuseVote(n, m) \/ ignoreVote(n, m)
    BY Zenon, <2>1, IdleWaiters DEF refuseVote, ignoreVote, electionVars, applyVars, clientVars
  <2> QED
    BY Zenon, <1>1, <1>6, <2>1, ElectionWaiters DEF handleRequestVote, handleVoteResponse
<1>7. ASSUME NEW n \in Node, NEW m \in messages, NEW dup, handleAppendEntries(n, m, dup)
      PROVE  WaiterOwnsEntry'
  <2>1. CASE refuseAppend(n, m, dup)
    BY Zenon, <2>1, IdleWaiters DEF refuseAppend, electionVars, applyVars, clientVars
  <2> QED
    BY Zenon, <1>1, <1>7, <2>1, FollowerWaiters DEF handleAppendEntries
<1>8. ASSUME NEW n \in Node, NEW m \in messages, handleAppendResponse(n, m)
      PROVE  WaiterOwnsEntry'
  <2>1. CASE ignoreReply(n, m) \/ retryAppend(n, m)
    BY Zenon, <2>1, IdleWaiters DEF ignoreReply, retryAppend, electionVars, applyVars, clientVars
  <2> QED
    BY Zenon, <1>1, <1>8, <2>1, ElectionWaiters, ProgressWaiters DEF handleAppendResponse
<1> QED
  BY ZenonT(30), <1>2, <1>3, <1>4, <1>5, <1>6, <1>7, <1>8 DEF Next

------------------------------------------------------------------------------
(* Clusters                                                                 *)

kin(a, b) == (a \in Foreign) <=> (b \in Foreign)

\* Whom a node follows, voted for or counted is a member of its own cluster.
KinNodes ==
    \A n \in Node :
        /\ leaderID[n] # Nil => kin(n, leaderID[n])
        /\ votedFor[n] # Nil => kin(n, votedFor[n])
        /\ \A p \in voters[n] : kin(n, p)

\* A vote is granted within a cluster.
KinVotes ==
    \A m \in messages : m.type = "vote_resp" /\ m.granted => kin(m.src, m.dst)

\* Every entry of a log comes from a leader of the cluster.
KinLogs(own, led) ==
    /\ \A n \in Node : \A i \in 1..Len(log[n]) : kin(n, own[log[n][i].term])
    /\ \A t \in Nat : \A i \in 1..Len(led[t]) : kin(own[t], own[led[t][i].term])

\* What a leader appends is of its term.
OwnEntries ==
    \A n \in Node : role'[n] = "leader" =>
        \A i \in (Len(log[n]) + 1)..Len(log'[n]) : log'[n][i].term = currentTerm'[n]

\* A node that leaves its election alone, or that steps down to nobody or to a
\* leader of its cluster.
LEMMA KinFollower ==
    ASSUME TypeGroups, KinNodes
    PROVE  /\ UNCHANGED electionVars => KinNodes'
           /\ \A n \in Node : \A term, leader :
                 /\ becomeFollower(n, term, leader)
                 /\ leader = Nil \/ kin(n, leader)
                 => KinNodes'
<1>1. UNCHANGED electionVars => KinNodes'
  BY Zenon DEF electionVars, KinNodes
<1>2. ASSUME NEW n \in Node, NEW term, NEW leader, becomeFollower(n, term, leader),
             leader = Nil \/ kin(n, leader)
      PROVE  KinNodes'
  <2> SUFFICES ASSUME NEW p \in Node
               PROVE  /\ leaderID'[p] # Nil => kin(p, leaderID'[p])
                      /\ votedFor'[p] # Nil => kin(p, votedFor'[p])
                      /\ \A q \in voters'[p] : kin(p, q)
    BY Zenon DEF KinNodes
  <2>1. /\ leaderID'[p] = IF p = n THEN leader ELSE leaderID[p]
        /\ votedFor'[p] \in {Nil, votedFor[p]}
        /\ voters'[p] = IF p = n THEN {} ELSE voters[p]
    BY Zenon, <1>2 DEF becomeFollower, forgetCandidacy, TypeGroups, ElectionOK
  <2> QED
    BY Zenon, <1>2, <2>1 DEF KinNodes
<1> QED
  BY Zenon, <1>1, <1>2

\* A step that sends nothing about a vote grants none.
LEMMA KinQuiet ==
    ASSUME KinVotes, NoNewBallot
    PROVE  KinVotes'
BY Zenon DEF KinVotes, NoNewBallot

\* Votes are granted within a cluster.
LEMMA RequestVoteKin ==
    ASSUME TypeGroups, KinNodes, KinVotes, NEW n \in Node, NEW m \in messages,
           handleRequestVote(n, m)
    PROVE  KinNodes' /\ KinVotes'
<1>1. m.dst = n /\ m.src \in Node /\ m.term \in Nat
  BY Zenon, MessageFields DEF handleRequestVote, TypeGroups, MessagesOK
<1>2. ASSUME NEW term, reply(m, voteResponse(m, term, FALSE)) PROVE KinVotes'
  BY <1>2 DEF reply, transmit, voteResponse, KinVotes
<1>3. CASE refuseVote(n, m)
  BY Zenon, <1>2, <1>3, KinFollower DEF refuseVote
<1>4. CASE denyVote(n, m)
  <2>1. KinVotes'
    BY Zenon, <1>2, <1>4 DEF denyVote
  <2>2. CASE m.term > currentTerm[n]
    <3>1. becomeFollower(n, m.term, Nil)
      BY Zenon, <1>4, <2>2 DEF denyVote
    <3> QED
      BY Zenon, <2>1, <3>1, KinFollower
  <2>3. CASE ~(m.term > currentTerm[n])
    BY Zenon, <1>4, <2>1, <2>3, KinFollower DEF denyVote
  <2> QED
    BY Zenon, <2>2, <2>3
<1>5. CASE grantVote(n, m)
  <2>1. kin(n, m.src)
    BY Zenon, <1>1, <1>5 DEF grantVote, sameCluster, kin
  <2>2. KinVotes'
    BY SMTT(30), <1>1, <1>5, <2>1 DEF grantVote, reply, transmit, voteResponse, KinVotes, kin
  <2>3. /\ votedFor' = [votedFor EXCEPT ![n] = m.src]
        /\ leaderID' = [leaderID EXCEPT ![n] = Nil] \/ UNCHANGED leaderID
        /\ voters' = [voters EXCEPT ![n] = {}] \/ UNCHANGED voters
    BY Zenon, <1>5 DEF grantVote, forgetCandidacy
  <2>4. KinNodes'
    BY Zenon, <2>1, <2>3 DEF KinNodes, TypeGroups, ElectionOK
  <2> QED
    BY Zenon, <2>2, <2>4
<1> QED
  BY Zenon, <1>3, <1>4, <1>5 DEF handleRequestVote

\* Only votes of the cluster are counted.
LEMMA VoteResponseKin ==
    ASSUME TypeGroups, KinNodes, KinVotes, NEW n \in Node, NEW m \in messages,
           handleVoteResponse(n, m)
    PROVE  KinNodes' /\ KinVotes'
<1>1. m.dst = n /\ m.type = "vote_resp"
  BY Zenon DEF handleVoteResponse
<1>2. CASE stepDown(n, m) \/ ignoreVote(n, m)
  BY ZenonT(30), <1>2, KinFollower, AppendTraffic, KinQuiet DEF stepDown, ignoreVote
<1>3. CASE keepCollecting(n, m) \/ promoteToLeader(n, m)
  <2>1. NoNewBallot
    <3>1. CASE keepCollecting(n, m)
      BY Zenon, <3>1, AppendTraffic DEF keepCollecting
    <3>2. CASE promoteToLeader(n, m)
      <4> DEFINE sent == replicateToAll(n, currentTerm[n], log'[n], nextIndex'[n],
                                        commitIndex[n])
      <4>1. transmit(messages \ {m}, sent)
        BY Zenon, <3>2 DEF promoteToLeader
      <4> QED
        BY ZenonT(30), <4>1, AppendTraffic
    <3> QED
      BY Zenon, <1>3, <3>1, <3>2
  <2>2. /\ m.granted /\ voters' = [voters EXCEPT ![n] = @ \cup {m.src}]
        /\ UNCHANGED votedFor
        /\ leaderID' = [leaderID EXCEPT ![n] = n] \/ UNCHANGED leaderID
    BY Zenon, <1>3 DEF keepCollecting, promoteToLeader, countVote
  <2>3. kin(n, m.src)
    BY Zenon, <1>1, <2>2 DEF KinVotes, kin
  <2>4. KinNodes'
    BY SMTT(30), <2>2, <2>3 DEF KinNodes, TypeGroups, ElectionOK, kin
  <2> QED
    BY Zenon, <2>1, <2>4, KinQuiet
<1> QED
  BY Zenon, <1>2, <1>3 DEF handleVoteResponse

\* A node follows a leader of its cluster.
LEMMA AppendEntriesKin ==
    ASSUME TypeGroups, KinNodes, KinVotes, NEW n \in Node, NEW m \in messages, NEW dup,
           handleAppendEntries(n, m, dup)
    PROVE  KinNodes' /\ KinVotes'
<1>1. KinVotes'
  BY ZenonT(30), AppendTraffic, KinQuiet
     DEF handleAppendEntries, refuseAppend, rejectAppend, failAppend, acceptAppend
<1>2. CASE refuseAppend(n, m, dup)
  BY Zenon, <1>1, <1>2, KinFollower DEF refuseAppend
<1>3. CASE ~refuseAppend(n, m, dup)
  <2>1. follow(n, m) /\ m.dst = n
    BY Zenon, <1>3 DEF handleAppendEntries, rejectAppend, failAppend, acceptAppend
  <2>2. becomeFollower(n, m.term, m.src) /\ kin(n, m.src)
    BY Zenon, <2>1 DEF follow, sameCluster, kin
  <2> QED
    BY Zenon, <1>1, <2>2, KinFollower
<1> QED
  BY Zenon, <1>2, <1>3

\* The other handlers follow, vote for and count nobody else.
LEMMA QuietKin ==
    ASSUME TypeGroups, KinNodes, KinVotes, NEW n \in Node,
           \/ onElectionTimeout(n) \/ onHeartbeat(n) \/ recover(n)
           \/ \E c \in Command : handlePropose(n, c)
           \/ \E m \in messages : handleAppendResponse(n, m)
    PROVE  KinNodes' /\ KinVotes'
<1>1. CASE onElectionTimeout(n)
  <2>1. KinVotes'
    BY SMTT(30), <1>1 DEF onElectionTimeout, transmit, KinVotes
  <2>2. KinNodes'
    BY ZenonT(30), <1>1 DEF onElectionTimeout, KinNodes, TypeGroups, ElectionOK, kin
  <2> QED
    BY ZenonT(30), <2>1, <2>2
<1>2. CASE recover(n)
  <2>1. KinNodes'
    BY Zenon, <1>2 DEF recover, forgetCandidacy, KinNodes, TypeGroups, ElectionOK
  <2>2. \A x \in messages' : \E k \in messages : survives(k, x)
    BY Zenon, <1>2, RecoverTraffic DEF TypeGroups
  <2>3. KinVotes'
    BY <2>2 DEF KinVotes, survives
  <2> QED
    BY Zenon, <2>1, <2>3
<1>3. CASE onHeartbeat(n)
  BY Zenon, <1>3, KinFollower, AppendTraffic, KinQuiet DEF onHeartbeat
<1>4. ASSUME NEW c \in Command, handlePropose(n, c) PROVE KinNodes' /\ KinVotes'
  BY Zenon, <1>4, KinFollower, AppendTraffic, KinQuiet DEF handlePropose
<1>5. ASSUME NEW m \in messages, handleAppendResponse(n, m) PROVE KinNodes' /\ KinVotes'
  <2>1. NoNewBallot
    <3>1. CASE stepDown(n, m) \/ ignoreReply(n, m)
      BY Zenon, <3>1, AppendTraffic DEF stepDown, ignoreReply
    <3>2. CASE retryAppend(n, m)
      BY SMTT(30), <3>2, AppendTraffic DEF retryAppend
    <3>3. CASE recordProgress(n, m)
      BY Zenon, <3>3, AppendTraffic DEF recordProgress
    <3> QED
      BY Zenon, <1>5, <3>1, <3>2, <3>3 DEF handleAppendResponse
  <2>2. KinNodes'
    BY Zenon, <1>5, KinFollower
       DEF handleAppendResponse, stepDown, ignoreReply, retryAppend, recordProgress
  <2> QED
    BY Zenon, <2>1, <2>2, KinQuiet
<1> QED
  BY ZenonT(30), <1>1, <1>2, <1>3, <1>4, <1>5

\* Every handler keeps the clusters apart, as far as terms and votes go.
LEMMA NextKin ==
    ASSUME TypeGroups, KinNodes, KinVotes, [Next]_vars
    PROVE  KinNodes' /\ KinVotes'
<1>1. CASE UNCHANGED vars
  BY Zenon, <1>1, KinFollower DEF vars, KinVotes
<1>2. ASSUME NEW n \in Node, NEW m \in messages, NEW dup \in Duplicates,
             handleAppendEntries(n, m, dup)
      PROVE  KinNodes' /\ KinVotes'
  BY Zenon, <1>2, AppendEntriesKin
<1> QED
  BY ZenonT(30), <1>1, <1>2, RequestVoteKin, VoteResponseKin, QuietKin DEF Next, candidacyFails

\* What a leader appends is of its term.
LEMMA NextOwnEntries ==
    ASSUME TypeGroups, [Next]_vars
    PROVE  OwnEntries
<1>1. ASSUME NEW n \in Node PROVE log[n] \in Seq(Entry) /\ Len(log[n]) \in Nat
  BY Zenon, LenFacts DEF TypeGroups, LogOK
<1>2. ASSUME UNCHANGED log PROVE OwnEntries
  BY SMTT(30), <1>1, <1>2 DEF OwnEntries
<1>3. ASSUME NEW n \in Node, NEW e \in Entry, e.term = currentTerm[n],
             log' = [log EXCEPT ![n] = Append(@, e)], UNCHANGED currentTerm
      PROVE  OwnEntries
  <2> SUFFICES ASSUME NEW p \in Node, NEW i \in (Len(log[p]) + 1)..Len(log'[p])
               PROVE  log'[p][i].term = currentTerm'[p]
    BY Zenon DEF OwnEntries
  <2>1. CASE p = n
    <3>1. log'[n] = Append(log[n], e)
      BY Zenon, <1>3 DEF TypeGroups, LogOK
    <3>2. i = Len(log[n]) + 1 /\ log'[n][i] = e
      BY SMTT(30), <1>1, <2>1, <3>1, AppendFacts
    <3> QED
      BY ZenonT(30), <1>3, <2>1, <3>2
  <2>2. CASE p # n
    BY SMTT(30), <1>1, <1>3, <2>2 DEF TypeGroups, LogOK
  <2> QED
    BY Zenon, <2>1, <2>2
<1>4. ASSUME NEW n \in Node, NEW m, promoteToLeader(n, m) PROVE OwnEntries
  <2>1. [term |-> currentTerm[n], command |-> Noop] \in Entry
    BY Zenon DEF Entry, TypeGroups, ElectionOK
  <2> QED
    BY ZenonT(30), <1>2, <1>3, <1>4, <2>1 DEF promoteToLeader
<1>5. ASSUME NEW n \in Node, NEW c \in Command, handlePropose(n, c) PROVE OwnEntries
  <2>1. [term |-> currentTerm[n], command |-> c] \in Entry
    BY Zenon DEF Entry, TypeGroups, ElectionOK
  <2> QED
    BY ZenonT(30), <1>3, <1>5, <2>1 DEF handlePropose, electionVars
<1>6. ASSUME NEW n \in Node, NEW m, NEW dup, acceptAppend(n, m, dup) PROVE OwnEntries
  <2>1. /\ role'[n] = "follower"
        /\ \A p \in Node \ {n} : log'[p] = log[p]
    BY Zenon, <1>6 DEF acceptAppend, follow, becomeFollower, TypeGroups, ElectionOK, LogOK
  <2> QED
    BY SMTT(30), <1>1, <2>1 DEF OwnEntries
<1>7. ASSUME NEW n \in Node, NEW m, NEW dup,
             handleAppendEntries(n, m, dup), ~acceptAppend(n, m, dup)
      PROVE  OwnEntries
  BY Zenon, <1>2, <1>7 DEF handleAppendEntries, refuseAppend, rejectAppend, failAppend
<1>8. ASSUME NEW n \in Node, NEW m,
             \/ handleRequestVote(n, m)
             \/ handleVoteResponse(n, m) /\ ~promoteToLeader(n, m)
             \/ handleAppendResponse(n, m)
      PROVE  OwnEntries
  <2>1. UNCHANGED log
    BY Zenon, <1>8 DEF handleRequestVote, refuseVote, denyVote, grantVote,
          handleVoteResponse, stepDown, ignoreVote, keepCollecting,
          handleAppendResponse, ignoreReply, retryAppend, recordProgress
  <2> QED
    BY Zenon, <1>2, <2>1
<1>9. ASSUME NEW n \in Node, onElectionTimeout(n) \/ onHeartbeat(n) \/ recover(n)
      PROVE  OwnEntries
  BY ZenonT(30), <1>2, <1>9 DEF onElectionTimeout, onHeartbeat, recover
<1>10. CASE UNCHANGED vars
  BY Zenon, <1>2, <1>10 DEF vars
<1> QED
  BY ZenonT(30), <1>4, <1>5, <1>6, <1>7, <1>8, <1>9, <1>10 DEF Next, candidacyFails

\* An entry of a log that traces back to the history was appended by a leader.
LEMMA EntryOwned ==
    ASSUME NEW own, NEW led, History(own, led), NEW lg \in Seq(Entry), Traced(led, lg),
           NEW i \in 1..Len(lg)
    PROVE  lg[i].term \in Nat /\ own[lg[i].term] # Nil
<1>1. lg[i] \in Entry /\ Len(lg) \in Nat
  BY Zenon, ElementFacts, LenFacts
<1>2. PICK u \in Nat : u = lg[i].term
  BY Zenon, <1>1 DEF Entry
<1>3. i <= Len(led[u])
  BY Zenon, <1>2 DEF Traced, agree
<1>4. led[u] # <<>>
  BY SMTT(30), <1>1, <1>3
<1> QED
  BY Zenon, <1>2, <1>4 DEF History

\* A step that moves logs and histories as RaftLogProofs shows keeps every log to
\* the leaders of its cluster.
LEMMA KinLogsStep ==
    ASSUME NEW own, NEW led, NEW own2, NEW led2, TypeGroups, TypeGroups',
           LogInv(own, led), LogInv(own2, led2)', Grown(own, led, own2, led2),
           LogMoves(own, led), KinNodes', OwnEntries, KinLogs(own, led)
    PROVE  KinLogs(own2, led2)'
<1>1. \A u \in Nat : own[u] # Nil => own2[u] = own[u]
  BY DEF Grown
<1>2. ASSUME NEW t \in Nat PROVE led[t] \in Seq(Entry) /\ Len(led[t]) \in Nat
  BY Zenon, LenFacts DEF LogInv, History
<1>3. ASSUME NEW n \in Node, NEW i \in 1..Len(log[n])
      PROVE  kin(n, own2[log[n][i].term])
  <2>1. log[n] \in Seq(Entry) /\ Traced(led, log[n]) /\ History(own, led)
    BY Zenon DEF TypeGroups, LogOK, LogInv, LogsTraced
  <2>2. own[log[n][i].term] # Nil /\ log[n][i].term \in Nat
    BY Zenon, <2>1, EntryOwned
  <2> QED
    BY Zenon, <1>1, <2>2 DEF KinLogs
<1>4. ASSUME NEW t \in Nat, NEW i \in 1..Len(led[t])
      PROVE  own2[t] = own[t] /\ kin(own[t], own2[led[t][i].term])
  <2>1. led[t] \in Seq(Entry) /\ Traced(led, led[t]) /\ History(own, led)
    BY Zenon, <1>2 DEF LogInv, History
  <2>2. own[led[t][i].term] # Nil /\ led[t][i].term \in Nat
    BY Zenon, <2>1, EntryOwned
  <2>3. own[t] # Nil
    BY <2>1 DEF History
  <2> QED
    BY Zenon, <1>1, <2>2, <2>3 DEF KinLogs
<1>5. ASSUME NEW n \in Node, NEW i \in 1..Len(log'[n])
      PROVE  kin(n, own2[log'[n][i].term])
  <2>1. Len(log[n]) \in Nat /\ Len(log'[n]) \in Nat /\ currentTerm'[n] \in Nat
    BY Zenon, LenFacts DEF TypeGroups, LogOK, ElectionOK
  <2>2. CASE log'[n] = log[n]
    BY Zenon, <1>3, <2>2
  <2>3. CASE /\ log'[n] # log[n] /\ role'[n] = "leader"
             /\ agree(log[n], log'[n], Len(log[n]))
    <3>1. CASE i <= Len(log[n])
      <4>1. i \in 1..Len(log[n]) /\ log'[n][i] = log[n][i]
        BY SMTT(30), <2>1, <2>3, <3>1 DEF agree
      <4> QED
        BY Zenon, <1>3, <4>1
    <3>2. CASE ~(i <= Len(log[n]))
      <4>1. log'[n][i].term = currentTerm'[n]
        BY SMTT(30), <2>1, <2>3, <3>2 DEF OwnEntries
      <4>2. own2[currentTerm'[n]] = n
        BY Zenon, <2>3 DEF LogInv, Leading
      <4> QED
        BY Zenon, <4>1, <4>2 DEF kin
    <3> QED
      BY Zenon, <3>1, <3>2
  <2>4. CASE /\ log'[n] # log[n] /\ own[currentTerm'[n]] # Nil
             /\ leaderID'[n] = own[currentTerm'[n]]
             /\ merges(log[n], log'[n], led[currentTerm'[n]])
    <3> DEFINE t == currentTerm'[n]
    <3>1. agree(log'[n], led[t], Len(log'[n]))
      BY Zenon, <2>4 DEF merges
    <3>2. i \in 1..Len(led[t]) /\ log'[n][i] = led[t][i]
      BY SMTT(30), <1>2, <2>1, <3>1 DEF agree
    <3>3. kin(n, own[t])
      BY Zenon, <2>4 DEF KinNodes
    <3>4. kin(own[t], own2[led[t][i].term])
      BY ZenonT(30), <1>4, <2>1, <3>2
    <3> QED
      BY Zenon, <3>2, <3>3, <3>4 DEF kin
  <2> QED
    BY ZenonT(30), <2>2, <2>3, <2>4 DEF LogMoves
<1>6. ASSUME NEW t \in Nat, NEW i \in 1..Len(led2[t])
      PROVE  kin(own2[t], own2[led2[t][i].term])
  <2>1. CASE own2[t] = own[t] /\ led2[t] = led[t]
    BY Zenon, <1>4, <2>1
  <2>2. CASE \E n \in Node : own2[t] = n /\ led2[t] = log'[n]
    BY Zenon, <1>5, <2>2
  <2> QED
    BY <2>1, <2>2 DEF Grown
<1> QED
  BY ZenonT(30), <1>5, <1>6 DEF KinLogs

==============================================================================

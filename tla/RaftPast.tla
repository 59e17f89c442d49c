------------------------------ MODULE RaftPast -------------------------------
(****************************************************************************)
(* What is committed stays: no later leader lacks it, no log drops it, no   *)
(* two nodes apply different entries.  To the history of RaftHistory the    *)
(* argument adds                                                            *)
(*    snap[p][t]   the log p has in term t, or had when it left t           *)
(* An entry (i, t) is Chosen once a majority had it while in term t, and    *)
(* Lost once a majority left t without it; it cannot be both.  A voter      *)
(* grants its vote only to a log that holds what the voter retained, so     *)
(* every leader of a later term has (i, t) or (i, t) is Lost (Safe), and a  *)
(* commit index is always Backed by an entry that is Chosen.                *)
(****************************************************************************)
EXTENDS RaftHistory

Snapshots(snap) ==
    /\ snap \in [Node -> [Nat -> Seq(Entry)]]
    /\ \A p \in Node :
          /\ snap[p][currentTerm[p]] = log[p]
          /\ \A t \in Nat : t > currentTerm[p] => snap[p][t] = <<>>

Chosen(snap, i, t) == \E Q \in Majorities : \A p \in Q : holds(snap[p][t], i, t)

Lost(snap, i, t) ==
    \E Q \in Majorities : \A p \in Q : currentTerm[p] > t /\ ~holds(snap[p][t], i, t)

\* What a node had in a term it still has, unless the entry can no longer be chosen.
Retained(snap) ==
    \A p \in Node : \A t, i \in Nat :
        t < currentTerm[p] /\ holds(snap[p][t], i, t)
            => holds(log[p], i, t) \/ Lost(snap, i, t)

\* A candidate has what its voters had.
VotersHeld(snap) ==
    \A c, p \in Node : \A t, i \in Nat :
        role[c] = "candidate" /\ Evidence(c, p, currentTerm[c])
            /\ t < currentTerm[c] /\ holds(snap[p][t], i, t)
                => holds(log[c], i, t) \/ Lost(snap, i, t)

\* A RequestVote of a candidacy that is still running describes the candidate's log.
RequestsCurrent ==
    \A m \in messages :
        m.type = "vote_req" /\ role[m.src] = "candidate" /\ currentTerm[m.src] = m.term
            => m.lastLogIndex = Len(log[m.src]) /\ m.lastLogTerm = lastLogTerm(m.src)

\* The leader of a later term has the entry, unless it can no longer be chosen.
Safe(own, led, snap) ==
    \A u, t, i \in Nat :
        own[u] # Nil /\ t < u => holds(led[u], i, t) \/ Lost(snap, i, t)

\* What a leader counts as matching, or will on an answer in flight, the follower
\* had in the leader's term.
Matched(led, snap) ==
    /\ \A l, p \in Node : role[l] = "leader" =>
          agree(snap[p][currentTerm[l]], led[currentTerm[l]], matchIndex[l][p])
    /\ \A m \in messages : m.type = "append_resp" /\ m.success =>
          agree(snap[m.src][m.reqTerm], led[m.reqTerm], m.matchIndex)

\* The log agrees up to c with that of a leader, of no later term than u, of which
\* an own entry at c or beyond is chosen.
Backed(led, snap, c, lg, u) ==
    \/ c = 0
    \/ \E t \in 0..u, v \in Nat :
          c <= v /\ Chosen(snap, v, t) /\ holds(led[t], v, t) /\ agree(lg, led[t], c)

\* The entry e at index i is one a leader had at or before an own entry that is chosen.
BackedEntry(led, snap, i, e) ==
    \E t, v \in Nat :
        i \in 1..v /\ Chosen(snap, v, t) /\ holds(led[t], v, t) /\ led[t][i] = e

CommitsBacked(led, snap) ==
    /\ \A n \in Node :
          \A c \in {commitIndex[n], savedCommit[n], lastApplied[n]} :
             Backed(led, snap, c, log[n], currentTerm[n])
    /\ \A m \in messages : m.type = "append_req" =>
          Backed(led, snap, m.leaderCommit, led[m.term], m.term)
    /\ \A a \in acked : BackedEntry(led, snap, a[1], a[2])

CommitInv(own, led, snap) ==
    /\ Snapshots(snap) /\ Retained(snap) /\ VotersHeld(snap) /\ RequestsCurrent
    /\ Safe(own, led, snap) /\ Matched(led, snap) /\ CommitsBacked(led, snap)

SomePast == ElectionInv /\ \E own, led, snap : LogInv(own, led) /\ CommitInv(own, led, snap)

------------------------------------------------------------------------------
(* What a step does beyond logs and terms                                   *)

\* Log a is at least as up to date as b: what candidateLogUpToDate compares.
upToDate(a, b) ==
    \/ termAt(a, Len(a)) > termAt(b, Len(b))
    \/ termAt(a, Len(a)) = termAt(b, Len(b)) /\ Len(a) >= Len(b)

\* A vote that counts for a candidate after the step counted for this candidacy
\* before, or its voter compared the logs in the step.
VotesChecked ==
    \A c, p \in Node :
        role'[c] = "candidate" /\ Evidence(c, p, currentTerm[c])' =>
            \/ /\ role[c] = "candidate" /\ currentTerm'[c] = currentTerm[c]
               /\ Evidence(c, p, currentTerm[c])
            \/ upToDate(log'[c], log'[p])

\* RequestVotes in flight were in flight, or describe the log of a candidate.
RequestsMove ==
    \A m \in messages' : m.type = "vote_req" =>
        \/ \E k \in messages : survives(k, m)
        \/ m.lastLogIndex = Len(log'[m.src]) /\ m.lastLogTerm = lastLogTerm(m.src)'

\* The match indexes of leaders after the step: as they were, reset, or taken from
\* an answer; and an answer that reports a match is sent by a node that has it.
ProgressMoves(led) ==
    /\ \A l, p \in Node : role'[l] = "leader" =>
          \/ matchIndex'[l][p] = 0
          \/ /\ role[l] = "leader" /\ currentTerm'[l] = currentTerm[l]
             /\ \/ matchIndex'[l][p] = matchIndex[l][p]
                \/ \E m \in messages :
                      /\ m.type = "append_resp" /\ m.success /\ m.src = p
                      /\ m.reqTerm = currentTerm[l] /\ m.matchIndex = matchIndex'[l][p]
    /\ \A m \in messages' : m.type = "append_resp" /\ m.success =>
          \/ m \in messages
          \/ /\ currentTerm'[m.src] = m.reqTerm
             /\ agree(log'[m.src], led[m.reqTerm], m.matchIndex)

\* Index b is one n had reached; or the request it accepted in the step says so, and
\* its log matches that far; or n leads, b holds an entry of its term, and a majority
\* has reported to match that far.
Supported(led, n, b) ==
    \/ b \in {commitIndex[n], savedCommit[n], lastApplied[n]}
    \/ \E m \in messages :
          /\ m.type = "append_req" /\ m.term = currentTerm'[n]
          /\ b <= m.leaderCommit /\ agree(log'[n], led[m.term], b)
    \/ /\ role'[n] = "leader" /\ holds(log'[n], b, currentTerm'[n])
       /\ \E Q \in Majorities : \A p \in Q : p = n \/ b <= matchIndex'[n][p]

\* How far nodes have got after the step is supported.
Reached(led) ==
    \A n \in Node : \A c \in {commitIndex'[n], savedCommit'[n], lastApplied'[n]} :
        \E b \in Nat : c <= b /\ Supported(led, n, b)

\* Leaders tell others how far they have got themselves.
Told ==
    \A m \in messages' : m.type = "append_req" =>
        \/ \E k \in messages : survives(k, m)
        \/ /\ role'[m.src] = "leader" /\ m.term = currentTerm'[m.src]
           /\ m.leaderCommit = commitIndex'[m.src]

\* A new result is that of an entry its node has applied.
Answered ==
    \A a \in acked' :
        \/ a \in acked
        \/ \E n \in Node : a[1] \in 1..lastApplied'[n] /\ a[2] = log'[n][a[1]]

CommitMoves(led) == Reached(led) /\ Told /\ Answered

\* What a step does beyond logs and terms.
Effects(led) == VotesChecked /\ RequestsMove /\ ProgressMoves(led) /\ CommitMoves(led)

==============================================================================

----------------------------- MODULE RaftHistory -----------------------------
(****************************************************************************)
(* What holds of Raft between any two steps: the type of each group of      *)
(* variables, why at most one node leads a term, and why logs match.  The   *)
(* last is no fact about one state: it follows from what the leaders of all *)
(* terms so far had in their logs, and is stated over a history,            *)
(*    own[t]   the leader of term t, Nil while there is none                *)
(*    led[t]   the log it has, or had when it stopped leading t.            *)
(* Some history fits every reachable state (SomeHistory): a step extends    *)
(* the history it starts from.                                              *)
(****************************************************************************)
EXTENDS Raft

------------------------------------------------------------------------------
(* The type of each group of variables                                      *)

Message == RequestVoteRequest \cup RequestVoteResponse
             \cup AppendEntriesRequest \cup AppendEntriesResponse

ElectionOK ==
    /\ role \in [Node -> {"follower", "candidate", "leader"}]
    /\ currentTerm \in [Node -> Nat]
    /\ votedFor \in [Node -> Node \cup {Nil}]
    /\ leaderID \in [Node -> Node \cup {Nil}]
    /\ votesGranted \in [Node -> Nat]
    /\ voters \in [Node -> SUBSET Node]

LogOK == log \in [Node -> Seq(Entry)]

ApplyOK ==
    /\ commitIndex \in [Node -> Nat]
    /\ savedCommit \in [Node -> Nat]
    /\ lastApplied \in [Node -> Nat]

LeaderOK ==
    /\ nextIndex \in [Node -> [Node -> Nat \ {0}]]
    /\ matchIndex \in [Node -> [Node -> Nat]]

WaitersOK == waiters \in [Node -> SUBSET (Nat \X Command)]

AckedOK == acked \subseteq Nat \X Entry

MessagesOK == messages \subseteq Message

FailuresOK == failures \in Nat

TypeGroups ==
    /\ ElectionOK /\ LogOK /\ ApplyOK /\ LeaderOK
    /\ WaitersOK /\ AckedOK /\ MessagesOK /\ FailuresOK

------------------------------------------------------------------------------
(* Elections                                                                *)

\* The message m belongs to the vote that c asks of p in its election of term t.
concerns(m, c, p, t) ==
    \/ m.type = "vote_req" /\ m.src = c /\ m.dst = p /\ m.term = t
    \/ m.type = "vote_resp" /\ m.dst = c /\ m.src = p /\ m.reqTerm = t

grants(m, c, p, t) == m.type = "vote_resp" /\ m.granted /\ concerns(m, c, p, t)

\* p voted for c in term t and has not been in a later term, or has left t.
Cast(c, p, t) ==
    currentTerm[p] > t \/ (currentTerm[p] = t /\ votedFor[p] = c)

\* A granted vote of p for c in term t is on its way or has been counted.
Evidence(c, p, t) ==
    \/ \E m \in messages : grants(m, c, p, t)
    \/ t = currentTerm[c] /\ p \in voters[c]

\* A candidate asks others only, and in terms it has reached.
BallotTerm ==
    \A c, p \in Node, t \in Nat, m \in messages :
        concerns(m, c, p, t) => t <= currentTerm[c] /\ c # p

\* One message at most is in flight for each vote asked: a request is consumed
\* by its answer.
BallotUnique ==
    \A c, p \in Node, t \in Nat, m, k \in messages :
        concerns(m, c, p, t) /\ concerns(k, c, p, t) => m = k

\* Nothing is in flight any more for a vote that has been counted.
CountedOnce ==
    \A c, p \in Node, m \in messages :
        p \in voters[c] /\ p # c => ~concerns(m, c, p, currentTerm[c])

EvidenceCast ==
    \A c, p \in Node, t \in Nat : Evidence(c, p, t) => Cast(c, p, t)

EvidenceExclusive ==
    \A c, d, p \in Node, t \in Nat : Evidence(c, p, t) /\ Evidence(d, p, t) => c = d

\* The counter is the number of voters, and a leader has a quorum of them.
Tally ==
    \A n \in Node :
        /\ votesGranted[n] = Cardinality(voters[n])
        /\ role[n] = "leader" => votesGranted[n] >= quorum

\* What the handlers keep, over a well-typed state.
ElectionCore ==
    /\ BallotTerm /\ BallotUnique /\ CountedOnce
    /\ EvidenceCast /\ EvidenceExclusive /\ Tally

ElectionInv == TypeGroups /\ ElectionCore

------------------------------------------------------------------------------
(* What a step does to terms, votes and ballots                             *)

\* Terms only grow, and a vote stands for its term.
VotesKept ==
    \A n \in Node :
        /\ currentTerm'[n] >= currentTerm[n]
        /\ currentTerm'[n] = currentTerm[n] /\ votedFor[n] # Nil
              => votedFor'[n] = votedFor[n]

\* The vote of p for c in term t is the one p holds after the step.
Fresh(c, p, t) == currentTerm'[p] = t /\ votedFor'[p] = c

\* A granted vote comes into being as the vote its voter holds after the step.
EvidenceGrows ==
    \A c, p \in Node, t \in Nat :
        Evidence(c, p, t)' => Evidence(c, p, t) \/ Fresh(c, p, t)

\* A candidacy is the one it was, or of a later term.
CandidaciesMove ==
    \A n \in Node : role'[n] = "candidate" =>
        \/ currentTerm'[n] > currentTerm[n]
        \/ role[n] = "candidate" /\ currentTerm'[n] = currentTerm[n]

ElectionStep == VotesKept /\ EvidenceGrows /\ CandidaciesMove

\* The election of n is left alone, or given up.
CandidacyKeptOrLeft ==
    \A n \in Node :
        \/ /\ currentTerm'[n] = currentTerm[n] /\ role'[n] = role[n]
           /\ voters'[n] = voters[n] /\ votesGranted'[n] = votesGranted[n]
        \/ role'[n] = "follower" /\ voters'[n] = {} /\ votesGranted'[n] = 0

\* Every ballot in flight after the step was in flight before it; it carries a
\* granted vote only if it did, or if the voter has just cast it.
BallotsKept ==
    \A c, p \in Node, t \in Nat, m \in messages' :
        concerns(m, c, p, t) =>
            \E k \in messages :
                /\ concerns(k, c, p, t)
                /\ grants(m, c, p, t) => grants(k, c, p, t) \/ Fresh(c, p, t)

\* The candidate side of a step: elections are left alone or given up, terms and
\* votes stand.
CandidateQuiet == VotesKept /\ CandidacyKeptOrLeft

\* The step sends no RequestVote and no answer to one.
NoNewBallot ==
    \A m \in messages' : m \in messages \/ m.type \in {"append_req", "append_resp"}

------------------------------------------------------------------------------
(* Logs                                                                     *)

Majorities == {Q \in SUBSET Node : Cardinality(Q) >= quorum}

\* Both logs reach index k and are equal up to it.
agree(a, b, k) == k <= Len(a) /\ k <= Len(b) /\ \A j \in 1..k : a[j] = b[j]

\* Every entry stands where the leader of its term had it, after the same entries.
Traced(led, lg) == \A i \in 1..Len(lg) : agree(lg, led[lg[i].term], i)

TermsUpTo(lg, t) == \A i \in 1..Len(lg) : lg[i].term <= t

History(own, led) ==
    /\ own \in [Nat -> Node \cup {Nil}]
    /\ led \in [Nat -> Seq(Entry)]
    /\ \A t \in Nat :
          /\ own[t] = Nil => led[t] = <<>>
          /\ Traced(led, led[t]) /\ TermsUpTo(led[t], t)

\* The vote of p in term t went to c and can count for nobody else.
Settled(c, p, t) == Cast(c, p, t) /\ \A d \in Node : Evidence(d, p, t) => d = c

\* The leader of a term got a majority of its votes, and is past its candidacy.
Elected(own) ==
    \A t \in Nat : own[t] # Nil =>
        /\ \E Q \in Majorities : \A p \in Q : Settled(own[t], p, t)
        /\ \/ currentTerm[own[t]] > t
           \/ currentTerm[own[t]] = t /\ role[own[t]] # "candidate"

Leading(own, led) ==
    \A n \in Node : role[n] = "leader" =>
        own[currentTerm[n]] = n /\ led[currentTerm[n]] = log[n]

LogsTraced(led) ==
    \A n \in Node : Traced(led, log[n]) /\ TermsUpTo(log[n], currentTerm[n])

\* The entries are those of the log that follow index prev.
piece(lg, prev, entries) ==
    /\ prev + Len(entries) <= Len(lg)
    /\ \A k \in 1..Len(entries) : entries[k] = lg[prev + k]

\* An AppendEntries carries a piece of its sender's log, and an answer to one
\* speaks of indexes that log reaches.
MessageTraced(own, led, m) ==
    /\ m.type = "append_req" =>
          /\ own[m.term] = m.src
          /\ piece(led[m.term], m.prevLogIndex, m.entries)
          /\ m.prevLogTerm = termAt(led[m.term], m.prevLogIndex)
    /\ m.type = "append_resp" =>
          /\ own[m.reqTerm] = m.dst
          /\ m.matchIndex <= Len(led[m.reqTerm])
          /\ m.conflictIndex <= Len(led[m.reqTerm]) + 1

MessagesTraced(own, led) == \A m \in messages : MessageTraced(own, led, m)

LogInv(own, led) ==
    /\ History(own, led) /\ Elected(own) /\ Leading(own, led) /\ LogsTraced(led)
    /\ MessagesTraced(own, led) /\ NextIndexInLog

SomeHistory == ElectionInv /\ \E own, led : LogInv(own, led)

\* new is lg with entries laid after index prev: lg kept up to c, where its terms
\* first differ from theirs, and then the entries; or lg itself when none differs.
overlays(lg, prev, entries, new) ==
    \E c \in prev..(prev + Len(entries)) :
        /\ c <= Len(lg)
        /\ \A j \in (prev + 1)..c : lg[j].term = entries[j - prev].term
        /\ \/ new = lg /\ c = prev + Len(entries)
           \/ /\ c < prev + Len(entries) /\ Len(new) = prev + Len(entries)
              /\ \A j \in 1..c : new[j] = lg[j]
              /\ \A j \in (c + 1)..Len(new) : new[j] = entries[j - prev]
              /\ ~holds(lg, c + 1, entries[c + 1 - prev].term)

\* new is lg merged with the log of the leader whose AppendEntries was accepted.
merges(lg, new, lead) ==
    /\ new = lg \/ agree(new, lead, Len(new))
    /\ \A k \in Nat : agree(lg, lead, k) => agree(new, lead, k)

------------------------------------------------------------------------------
(* How the history moves with a step                                        *)

\* What a step may do to a log: a leader appends, a follower merges.
LogMoves(own, led) ==
    \A n \in Node :
        \/ agree(log[n], log'[n], Len(log[n])) /\ (role'[n] # "leader" => log'[n] = log[n])
        \/ /\ role'[n] = "follower" /\ own[currentTerm'[n]] # Nil
           /\ leaderID'[n] = own[currentTerm'[n]]
           /\ merges(log[n], log'[n], led[currentTerm'[n]])

\* A term's leader and log are what they were, or the leader n of the term has
\* just been elected or appended to its log.
Grown(own, led, own2, led2) ==
    \A t \in Nat :
        \/ own2[t] = own[t] /\ led2[t] = led[t]
        \/ \E n \in Node :
              /\ own2[t] = n /\ led2[t] = log'[n] /\ role'[n] = "leader"
              /\ currentTerm[n] = t /\ currentTerm'[n] = t
              /\ agree(led[t], led2[t], Len(led[t]))
              /\ agree(log[n], log'[n], Len(log[n]))
              /\ \/ own[t] = n /\ role[n] = "leader"
                 \/ /\ own[t] = Nil /\ role[n] = "candidate"
                    /\ \E Q \in Majorities : \A p \in Q : Evidence(n, p, t)

\* Every log of the history after the step extends the one before it.
Extends(own, led, own2, led2) ==
    \A t \in Nat : /\ own[t] # Nil => own2[t] = own[t]
                   /\ agree(led[t], led2[t], Len(led[t]))

\* What a leader does to its log: nothing, or one append in its term.
grows(lg, new, t) == new = lg \/ \E e \in Entry : e.term = t /\ new = Append(lg, e)

\* Whatever is in flight after the step was in flight before or is traced.
TracedTraffic(own, led) ==
    \A m \in messages' : m \in messages \/ MessageTraced(own, led, m)

\* The history with the term that n leads brought up to date.
Recorded(own, led, own2, led2, n) ==
    /\ own2 = [own EXCEPT ![currentTerm[n]] = n]
    /\ led2 = [led EXCEPT ![currentTerm[n]] = log'[n]]

\* A step of Raft, as far as elections go, from a state that the history fits.
StepFrom(own, led) == ElectionInv /\ ElectionInv' /\ ElectionStep /\ LogInv(own, led)

\* Who leads after the step led before it, with the same log and progress.
LeadersKept ==
    \A l \in Node : role'[l] = "leader" =>
        /\ role[l] = "leader" /\ currentTerm'[l] = currentTerm[l] /\ log'[l] = log[l]
        /\ nextIndex'[l] = nextIndex[l] /\ matchIndex'[l] = matchIndex[l]

\* x is m, or the request m of a process that has restarted: nobody awaits it.
survives(m, x) ==
    /\ x.type = m.type /\ x.src = m.src /\ x.dst = m.dst
    /\ m.type = "vote_req" =>
          x.term = m.term /\ x.lastLogIndex = m.lastLogIndex /\ x.lastLogTerm = m.lastLogTerm
    /\ m.type = "append_req" =>
          /\ x.term = m.term /\ x.prevLogIndex = m.prevLogIndex
          /\ x.prevLogTerm = m.prevLogTerm /\ x.entries = m.entries
          /\ x.leaderCommit = m.leaderCommit
    /\ m.type \in {"vote_resp", "append_resp"} => x = m

==============================================================================

-------------------------------- MODULE Raft --------------------------------
(***************************************************************************)
(* The consensus node of internal/raft: election, log replication, commit, *)
(* apply, proposal waiters, recovery.  A node is one event-loop goroutine  *)
(* (node.go run), so every handler is one atomic action; RPCs are issued   *)
(* from goroutines of their own and may be lost, delayed or reordered; an  *)
(* AppendEntries repeated by a heartbeat arrives twice.                    *)
(*                                                                         *)
(* Store.  Term, vote, log and applied checkpoint are written before the   *)
(* memory copy is assigned and the two never differ, so one variable stands *)
(* for both.  The commit index is assigned first and its write may fail    *)
(* unnoticed, hence savedCommit.  StoreFaults names the writes that can    *)
(* fail.  A crash between two writes of a handler leaves on disk what the  *)
(* failure of the later ones leaves, so faults followed by recover cover   *)
(* it.  A write whose failure changes nothing (candidacy, proposal append) *)
(* needs no action.                                                        *)
(*                                                                         *)
(* Timers.  electionCh is armed exactly when the node is not leader and    *)
(* heartbeatCh exactly when it is; either may fire at any time.            *)
(***************************************************************************)
EXTENDS Integers, Sequences, FiniteSets

CONSTANTS
    Node,         \* the members of the cluster
    Foreign,      \* members configured with another cluster id
    Command,      \* client commands
    Nil,          \* the empty node id
    Noop,         \* the entry a new leader appends
    StoreFaults,  \* store writes that may fail
    Duplicates,   \* may an AppendEntries arrive twice: a set of BOOLEANs
    MaxBody,      \* entries that fit the 64 KiB body of an AppendEntries
    MaxTerm,      \* bound: terms
    MaxLog,       \* bound: no proposal is accepted by a log this long
    MaxInFlight,  \* bound: RPC messages in flight that will be delivered
    MaxFailures   \* bound: crashes and failed store writes

ASSUME NodeAssumption == IsFiniteSet(Node) /\ Node # {} /\ Nil \notin Node

ASSUME BoundAssumption ==
    /\ MaxTerm \in Nat /\ MaxLog \in Nat /\ MaxInFlight \in Nat
    /\ MaxBody \in Nat /\ MaxFailures \in Nat
    /\ Foreign \subseteq Node
    /\ Noop \notin Command
    /\ StoreFaults \subseteq {"term", "vote", "noop", "log", "commit", "apply"}
    /\ Duplicates \subseteq BOOLEAN

VARIABLES
    role, currentTerm, votedFor, leaderID,
    votesGranted,    \* votes counted in the running election
    voters,          \* model only: whose votes those were
    log,             \* entries [term, command], indexed from 1
    commitIndex, savedCommit, lastApplied,
    nextIndex, matchIndex,
    waiters,         \* pairs <<index, command>>: proposals awaiting a result
    acked,           \* model only: <<index, entry>> whose result was delivered
    messages,        \* RPCs in flight
    failures         \* model only: crashes and failed writes so far

electionVars == <<role, currentTerm, votedFor, leaderID, votesGranted, voters>>
applyVars == <<commitIndex, savedCommit, lastApplied>>
leaderVars == <<nextIndex, matchIndex>>
clientVars == <<waiters, acked>>
vars == <<electionVars, log, applyVars, leaderVars, clientVars, messages,
          failures>>

-----------------------------------------------------------------------------
(* Values                                                                  *)

Entry == [term : Nat, command : Command \cup {Noop}]

RequestVoteRequest ==
    [type : {"vote_req"}, src : Node, dst : Node, awaited : BOOLEAN,
     term : Nat, lastLogIndex : Nat, lastLogTerm : Nat]

\* reqTerm is voteResult.term, the term the sending goroutine was started in.
RequestVoteResponse ==
    [type : {"vote_resp"}, src : Node, dst : Node,
     reqTerm : Nat, term : Nat, granted : BOOLEAN]

AppendEntriesRequest ==
    [type : {"append_req"}, src : Node, dst : Node, awaited : BOOLEAN,
     term : Nat, prevLogIndex : Nat, prevLogTerm : Nat,
     entries : Seq(Entry), leaderCommit : Nat]

AppendEntriesResponse ==
    [type : {"append_resp"}, src : Node, dst : Node,
     reqTerm : Nat, term : Nat, success : BOOLEAN,
     matchIndex : Nat, conflictTerm : Nat, conflictIndex : Nat]

quorum == Cardinality(Node) \div 2 + 1

larger(a, b) == IF a < b THEN b ELSE a
smaller(a, b) == IF a < b THEN a ELSE b

\* The term of the entry at index i; 0 for the sentinel and for a missing entry.
termAt(lg, i) == IF i \in 1..Len(lg) THEN lg[i].term ELSE 0

\* The log has an entry at index i, of the given term.
holds(lg, i, term) == i \in 1..Len(lg) /\ lg[i].term = term

lastLogTerm(n) == termAt(log[n], Len(log[n]))

peers(n) == Node \ {n}

\* Planted bug: the cluster id of a request is not compared.
anyCluster(m) == TRUE

\* Both ends are configured with the same cluster id.
sameCluster(m) == (m.src \in Foreign) <=> (m.dst \in Foreign)

-----------------------------------------------------------------------------
(* Network                                                                 *)

\* Replaces the messages in flight by rest plus whatever part of sent will
\* ever be delivered.  A lost request or response is an RPC error, which both
\* response handlers ignore.
transmit(rest, sent) ==
    \E kept \in SUBSET sent :
        /\ Cardinality(rest \cup kept) <= MaxInFlight
        /\ messages' = rest \cup kept

\* The answer r to request m, unless the sender restarted in the meantime.
reply(m, r) == transmit(messages \ {m}, IF m.awaited THEN {r} ELSE {})

\* Heartbeats repeat an AppendEntries, and equal ones are one element of messages:
\* with dup another copy stays in flight, and the answer to this one is lost.
replyOrDuplicate(m, r, dup) ==
    IF dup THEN UNCHANGED messages ELSE reply(m, r)

discard(m) == messages' = messages \ {m}

voteResponse(m, term, granted) ==
    [type |-> "vote_resp", src |-> m.dst, dst |-> m.src,
     reqTerm |-> m.term, term |-> term, granted |-> granted]

appendResponse(m, term, success, match, hintTerm, hintIndex) ==
    [type |-> "append_resp", src |-> m.dst, dst |-> m.src,
     reqTerm |-> m.term, term |-> term, success |-> success,
     matchIndex |-> match, conflictTerm |-> hintTerm,
     conflictIndex |-> hintIndex]

\* Planted bug: the previous index is one too low.
replicateOneBack(n, p, term, lg, next, commit) ==
    [type |-> "append_req", src |-> n, dst |-> p, awaited |-> TRUE,
     term |-> term, prevLogIndex |-> next - 2,
     prevLogTerm |-> termAt(lg, next - 2),
     entries |-> SubSeq(lg, next, Len(lg)), leaderCommit |-> commit]

\* The AppendEntries that leader n of the given term builds for p.
replicateToPeer(n, p, term, lg, next, commit) ==
    [type |-> "append_req", src |-> n, dst |-> p, awaited |-> TRUE,
     term |-> term, prevLogIndex |-> next - 1,
     prevLogTerm |-> termAt(lg, next - 1),
     entries |-> SubSeq(lg, next, Len(lg)), leaderCommit |-> commit]

replicateToAll(n, term, lg, next, commit) ==
    {replicateToPeer(n, p, term, lg, next[p], commit) : p \in peers(n)}

-----------------------------------------------------------------------------
(* Store                                                                   *)

\* The write w is attempted and fails.
storeFails(w) ==
    /\ w \in StoreFaults /\ failures < MaxFailures
    /\ failures' = failures + 1

-----------------------------------------------------------------------------
(* Role transitions                                                        *)

\* Progress maps and vote count are read only by a leader or a candidate and
\* rebuilt when one is made; the model clears them instead of keeping leftovers.
forgetCandidacy(n) ==
    /\ votesGranted' = [votesGranted EXCEPT ![n] = 0]
    /\ voters' = [voters EXCEPT ![n] = {}]
    /\ nextIndex' = [nextIndex EXCEPT ![n] = [p \in Node |-> 1]]
    /\ matchIndex' = [matchIndex EXCEPT ![n] = [p \in Node |-> 0]]

\* Planted bug: stepping down does not fail the waiters.
waitersKept(n) == waiters[n]

\* What failWaiters leaves registered on n when it steps down.
waitersAfterStepDown(n) == IF role[n] = "leader" THEN {} ELSE waiters[n]

\* Planted bug: the vote is cleared on every step-down, in the same term too.
becomeFollowerForgettingVote(n, term, leader) ==
    /\ currentTerm' = [currentTerm EXCEPT ![n] = larger(@, term)]
    /\ votedFor' = [votedFor EXCEPT ![n] = Nil]
    /\ role' = [role EXCEPT ![n] = "follower"]
    /\ leaderID' = [leaderID EXCEPT ![n] = leader]
    /\ forgetCandidacy(n)

\* All of becomeFollower but the waiters, which its callers assign.
becomeFollower(n, term, leader) ==
    /\ currentTerm' = [currentTerm EXCEPT ![n] = larger(@, term)]
    /\ votedFor' = [votedFor EXCEPT ![n] = IF term > currentTerm[n] THEN Nil ELSE @]
    /\ role' = [role EXCEPT ![n] = "follower"]
    /\ leaderID' = [leaderID EXCEPT ![n] = leader]
    /\ forgetCandidacy(n)

\* A response carried a higher term than ours.
stepDown(n, m) ==
    /\ m.term > currentTerm[n]
    /\ becomeFollower(n, m.term, Nil)
    /\ waiters' = [waiters EXCEPT ![n] = waitersAfterStepDown(n)]
    /\ discard(m)
    /\ UNCHANGED <<log, applyVars, acked, failures>>

-----------------------------------------------------------------------------
(* Election                                                                *)

candidateLogUpToDate(n, term, index) ==
    IF term # lastLogTerm(n) THEN term > lastLogTerm(n)
                             ELSE index >= Len(log[n])

\* The election timer of n fires: becomeCandidate, then one RequestVote a peer.
onElectionTimeout(n) ==
    /\ role[n] # "leader"
    /\ currentTerm[n] < MaxTerm
    /\ currentTerm' = [currentTerm EXCEPT ![n] = @ + 1]
    /\ votedFor' = [votedFor EXCEPT ![n] = n]
    /\ role' = [role EXCEPT ![n] = "candidate"]
    /\ leaderID' = [leaderID EXCEPT ![n] = Nil]
    /\ votesGranted' = [votesGranted EXCEPT ![n] = 1]
    /\ voters' = [voters EXCEPT ![n] = {n}]
    /\ transmit(messages,
                {[type |-> "vote_req", src |-> n, dst |-> p, awaited |-> TRUE,
                  term |-> currentTerm[n] + 1, lastLogIndex |-> Len(log[n]),
                  lastLogTerm |-> lastLogTerm(n)] : p \in peers(n)})
    /\ UNCHANGED <<log, applyVars, leaderVars, clientVars, failures>>

\* SetTermAndVote failed in becomeCandidate: only the timer is re-armed.
candidacyFails(n) ==
    /\ role[n] # "leader"
    /\ UNCHANGED vars

\* Another cluster, a stale term, or a new term that could not be persisted:
\* answered with the old term and nothing changed.
refused(m) ==
    \/ ~sameCluster(m) /\ UNCHANGED failures
    \/ m.term < currentTerm[m.dst] /\ UNCHANGED failures
    \/ sameCluster(m) /\ m.term > currentTerm[m.dst] /\ storeFails("term")

\* Planted bug: an earlier vote of the term is not looked at.
votableAgain(m) == candidateLogUpToDate(m.dst, m.lastLogTerm, m.lastLogIndex)

\* No vote for another candidate in this term, and the candidate's log is good.
votable(m) ==
    /\ m.term > currentTerm[m.dst] \/ votedFor[m.dst] \in {Nil, m.src}
    /\ candidateLogUpToDate(m.dst, m.lastLogTerm, m.lastLogIndex)

refuseVote(n, m) ==
    /\ refused(m)
    /\ reply(m, voteResponse(m, currentTerm[n], FALSE))
    /\ UNCHANGED <<electionVars, log, applyVars, leaderVars, clientVars>>

\* The new term is adopted but the vote is withheld, or could not be persisted.
denyVote(n, m) ==
    /\ sameCluster(m) /\ m.term >= currentTerm[n]
    /\ \/ ~votable(m) /\ UNCHANGED failures
       \/ votable(m) /\ storeFails("vote")
    /\ IF m.term > currentTerm[n]
       THEN /\ becomeFollower(n, m.term, Nil)
            /\ waiters' = [waiters EXCEPT ![n] = waitersAfterStepDown(n)]
       ELSE UNCHANGED <<electionVars, leaderVars, waiters>>
    /\ reply(m, voteResponse(m, m.term, FALSE))
    /\ UNCHANGED <<log, applyVars, acked>>

\* persistVote in the current term, after stepping down to a higher one.
grantVote(n, m) ==
    /\ sameCluster(m) /\ m.term >= currentTerm[n]
    /\ votable(m)
    /\ votedFor' = [votedFor EXCEPT ![n] = m.src]
    /\ IF m.term > currentTerm[n]
       THEN /\ currentTerm' = [currentTerm EXCEPT ![n] = m.term]
            /\ role' = [role EXCEPT ![n] = "follower"]
            /\ leaderID' = [leaderID EXCEPT ![n] = Nil]
            /\ forgetCandidacy(n)
            /\ waiters' = [waiters EXCEPT ![n] = waitersAfterStepDown(n)]
       ELSE UNCHANGED <<currentTerm, role, leaderID, votesGranted, voters,
                        leaderVars, waiters>>
    /\ reply(m, voteResponse(m, m.term, TRUE))
    /\ UNCHANGED <<log, applyVars, acked, failures>>

handleRequestVote(n, m) ==
    /\ m.type = "vote_req" /\ m.dst = n
    /\ refuseVote(n, m) \/ denyVote(n, m) \/ grantVote(n, m)

\* Planted bug: answers to an earlier election of the same node count.
anyElection(n, m) == role[n] = "candidate"

\* The vote of m belongs to the election n is running.
currentElection(n, m) == role[n] = "candidate" /\ m.reqTerm = currentTerm[n]

\* An answer to an election that is over, or a refusal.
ignoreVote(n, m) ==
    /\ m.term <= currentTerm[n]
    /\ ~(currentElection(n, m) /\ m.granted)
    /\ discard(m)
    /\ UNCHANGED <<electionVars, log, applyVars, leaderVars, clientVars, failures>>

countVote(n, m) ==
    /\ m.term <= currentTerm[n] /\ currentElection(n, m) /\ m.granted
    /\ votesGranted' = [votesGranted EXCEPT ![n] = @ + 1]
    /\ voters' = [voters EXCEPT ![n] = @ \cup {m.src}]

keepCollecting(n, m) ==
    /\ countVote(n, m)
    /\ votesGranted[n] + 1 < quorum
    /\ discard(m)
    /\ UNCHANGED <<role, currentTerm, votedFor, leaderID, log, applyVars,
                   leaderVars, clientVars, failures>>

\* Planted bug: the no-op is taken to have been appended.
nextIndexPastNoop(n) == Len(log[n]) + 2

\* Where becomeLeader starts every follower, the no-op not appended yet.
initialNextIndex(n) == Len(log[n]) + 1

\* becomeLeader, the no-op of the new term (whose append may fail) and the
\* first replication round.
promoteToLeader(n, m) ==
    /\ countVote(n, m)
    /\ votesGranted[n] + 1 >= quorum
    /\ role' = [role EXCEPT ![n] = "leader"]
    /\ leaderID' = [leaderID EXCEPT ![n] = n]
    /\ nextIndex' = [nextIndex EXCEPT ![n] = [p \in Node |-> initialNextIndex(n)]]
    /\ matchIndex' = [matchIndex EXCEPT ![n] = [p \in Node |-> 0]]
    /\ \/ /\ log' = [log EXCEPT ![n] =
                       Append(@, [term |-> currentTerm[n], command |-> Noop])]
          /\ UNCHANGED failures
       \/ storeFails("noop") /\ UNCHANGED log
    /\ transmit(messages \ {m},
                replicateToAll(n, currentTerm[n], log'[n], nextIndex'[n],
                               commitIndex[n]))
    /\ UNCHANGED <<currentTerm, votedFor, applyVars, clientVars>>

handleVoteResponse(n, m) ==
    /\ m.type = "vote_resp" /\ m.dst = n
    /\ \/ stepDown(n, m)
       \/ ignoreVote(n, m)
       \/ keepCollecting(n, m)
       \/ promoteToLeader(n, m)

-----------------------------------------------------------------------------
(* Commit and apply                                                        *)

\* commitIndex of n moves to commit; entries are applied in order and the
\* results handed to those of the waiters ws that are registered for them.
\* A failed SetCommitIndex is only logged, a failed apply stops the loop.
commitAndApply(n, commit, lg, ws) ==
    \E saveFails, applyFails \in BOOLEAN :
        /\ saveFails => "commit" \in StoreFaults
        /\ applyFails => "apply" \in StoreFaults
        /\ failures' = failures + (IF saveFails THEN 1 ELSE 0)
                                + (IF applyFails THEN 1 ELSE 0)
        /\ failures' <= MaxFailures
        /\ commitIndex' = [commitIndex EXCEPT ![n] = commit]
        /\ savedCommit' = [savedCommit EXCEPT ![n] =
                             IF saveFails THEN @ ELSE commit]
        /\ \E upto \in IF applyFails THEN lastApplied[n]..(commit - 1)
                                     ELSE {larger(lastApplied[n], commit)} :
              LET served == {w \in ws : w[1] \in (lastApplied[n] + 1)..upto}
              IN  /\ lastApplied' = [lastApplied EXCEPT ![n] = upto]
                  /\ waiters' = [waiters EXCEPT ![n] = ws \ served]
                  /\ acked' = acked \cup {<<w[1], lg[w[1]]>> : w \in served}

-----------------------------------------------------------------------------
(* Replication                                                             *)

\* The leader appends a command of a caller of Propose and registers a waiter.
\* Any other node answers ErrNotLeader and changes nothing.
handlePropose(n, c) ==
    /\ role[n] = "leader"
    /\ Len(log[n]) < MaxLog
    /\ log' = [log EXCEPT ![n] =
                 Append(@, [term |-> currentTerm[n], command |-> c])]
    /\ waiters' = [waiters EXCEPT ![n] =
                     {w \in @ : w[1] # Len(log[n]) + 1}
                         \cup {<<Len(log[n]) + 1, c>>}]
    /\ transmit(messages, replicateToAll(n, currentTerm[n], log'[n],
                                         nextIndex[n], commitIndex[n]))
    /\ UNCHANGED <<electionVars, applyVars, leaderVars, acked, failures>>

onHeartbeat(n) ==
    /\ role[n] = "leader"
    /\ transmit(messages, replicateToAll(n, currentTerm[n], log[n],
                                         nextIndex[n], commitIndex[n]))
    /\ UNCHANGED <<electionVars, log, applyVars, leaderVars, clientVars, failures>>

\* The first index of the run of entries of the same term that ends at from.
firstIndexOfTerm(lg, from) ==
    CHOOSE i \in 1..from :
        /\ \A j \in i..from : lg[j].term = lg[from].term
        /\ i = 1 \/ lg[i - 1].term # lg[from].term

\* The highest index of an entry of the given term, 0 if there is none.
lastIndexWithTerm(lg, term) ==
    CHOOSE i \in 0..Len(lg) :
        /\ i > 0 => lg[i].term = term
        /\ \A j \in (i + 1)..Len(lg) : lg[j].term # term

\* The position in entries of the first one the log does not hold, one past the
\* end if it holds them all.
reconcileEntries(lg, prev, entries) ==
    CHOOSE k \in 1..(Len(entries) + 1) :
        /\ \A i \in 1..(k - 1) : holds(lg, prev + i, entries[i].term)
        /\ k <= Len(entries) => ~holds(lg, prev + k, entries[k].term)

\* Planted bug: the suffix is replaced whether or not it conflicts.
overwriteAlways(lg, prev, entries) == SubSeq(lg, 1, prev) \o entries

\* The log once everything from that position on has replaced what was there.
overwriteEntries(lg, prev, entries) ==
    LET k == reconcileEntries(lg, prev, entries)
    IN  IF k > Len(entries)
        THEN lg
        ELSE SubSeq(lg, 1, prev + k - 1) \o SubSeq(entries, k, Len(entries))

\* Planted bug: any entry at prevLogIndex will do.
prevLogPresent(n, m) == m.prevLogIndex <= Len(log[n])

\* The log holds the entry the new ones follow; index 0 always matches.
prevLogMatches(n, m) ==
    m.prevLogIndex = 0 \/ holds(log[n], m.prevLogIndex, m.prevLogTerm)

refuseAppend(n, m, dup) ==
    /\ refused(m)
    /\ replyOrDuplicate(m, appendResponse(m, currentTerm[n], FALSE, 0, 0, 0), dup)
    /\ UNCHANGED <<electionVars, log, applyVars, leaderVars, clientVars>>

\* The sender is the leader of the term: follow it.
follow(n, m) ==
    /\ sameCluster(m) /\ m.term >= currentTerm[n]
    /\ becomeFollower(n, m.term, m.src)

\* The log does not hold the entry before the new ones: hint where to back up.
rejectAppend(n, m, dup) ==
    /\ follow(n, m)
    /\ ~prevLogMatches(n, m)
    /\ waiters' = [waiters EXCEPT ![n] = waitersAfterStepDown(n)]
    /\ LET short == m.prevLogIndex > Len(log[n])
           hintTerm == IF short THEN 0 ELSE log[n][m.prevLogIndex].term
           hintIndex == IF short THEN Len(log[n]) + 1
                        ELSE firstIndexOfTerm(log[n], m.prevLogIndex)
       IN  replyOrDuplicate(m, appendResponse(m, m.term, FALSE, 0, hintTerm,
                                              hintIndex), dup)
    /\ UNCHANGED <<log, applyVars, acked, failures>>

\* OverwriteEntries failed: an answer without hints.
failAppend(n, m, dup) ==
    /\ storeFails("log")
    /\ follow(n, m)
    /\ prevLogMatches(n, m)
    /\ reconcileEntries(log[n], m.prevLogIndex, m.entries) <= Len(m.entries)
    /\ waiters' = [waiters EXCEPT ![n] = waitersAfterStepDown(n)]
    /\ replyOrDuplicate(m, appendResponse(m, m.term, FALSE, 0, 0, 0), dup)
    /\ UNCHANGED <<log, applyVars, acked>>

\* Planted bug: everything the follower holds is reported as matching.
matchWholeLog(lg, m) == Len(lg)

\* What the answer reports as matching: the request's own extent.
matchedUpTo(lg, m) == m.prevLogIndex + Len(m.entries)

\* The entries are merged into the log and the leader's commit index followed,
\* no further than this request is known to match.
acceptAppend(n, m, dup) ==
    /\ follow(n, m)
    /\ prevLogMatches(n, m)
    /\ log' = [log EXCEPT ![n] =
                 overwriteEntries(@, m.prevLogIndex, m.entries)]
    /\ LET match == matchedUpTo(log'[n], m)
           commit == smaller(m.leaderCommit, match)
       IN  /\ IF commit > commitIndex[n]
              THEN commitAndApply(n, commit, log'[n], waitersAfterStepDown(n))
              ELSE /\ waiters' = [waiters EXCEPT ![n] = waitersAfterStepDown(n)]
                   /\ UNCHANGED <<applyVars, acked, failures>>
           /\ replyOrDuplicate(m, appendResponse(m, m.term, TRUE, match, 0, 0),
                               dup)

\* A body over the 64 KiB cap is answered 413 before the node sees it.
handleAppendEntries(n, m, dup) ==
    /\ m.type = "append_req" /\ m.dst = n
    /\ Len(m.entries) <= MaxBody
    /\ \/ refuseAppend(n, m, dup)
       \/ rejectAppend(n, m, dup)
       \/ failAppend(n, m, dup)
       \/ acceptAppend(n, m, dup)

\* The reply m is for a request leader n sent in its current term.
currentReply(n, m) ==
    /\ m.term <= currentTerm[n]
    /\ role[n] = "leader" /\ m.reqTerm = currentTerm[n]

ignoreReply(n, m) ==
    /\ m.term <= currentTerm[n] /\ ~currentReply(n, m)
    /\ discard(m)
    /\ UNCHANGED <<electionVars, log, applyVars, leaderVars, clientVars, failures>>

\* Planted bug: the follower's hint is taken for the last index it holds.
backupPastHint(n, m) == m.conflictIndex + 1

\* Where the conflict hints move nextIndex.
backupNextIndex(n, m) ==
    LET known == lastIndexWithTerm(log[n], m.conflictTerm)
    IN  larger(1, IF m.conflictTerm # 0 /\ known > 0 THEN known + 1
                                                     ELSE m.conflictIndex)

retryAppend(n, m) ==
    /\ currentReply(n, m) /\ ~m.success
    /\ nextIndex' = [nextIndex EXCEPT ![n][m.src] = backupNextIndex(n, m)]
    /\ transmit(messages \ {m},
                {replicateToPeer(n, m.src, currentTerm[n], log[n],
                                 nextIndex'[n][m.src], commitIndex[n])})
    /\ UNCHANGED <<electionVars, log, applyVars, matchIndex, clientVars, failures>>

\* Planted bug: the furthest follower decides.
furthestMatch(matches) ==
    CHOOSE v \in {matches[p] : p \in Node} : \A p \in Node : matches[p] <= v

\* matches sorted in descending order, at position quorum - 1.
majorityMatch(matches) ==
    CHOOSE v \in {matches[p] : p \in Node} :
        /\ Cardinality({p \in Node : matches[p] >= v}) >= quorum
        /\ Cardinality({p \in Node : matches[p] > v}) < quorum

\* Planted bug: an entry of an older term is committed by count.
commitByCount(n, matches) == larger(commitIndex[n], majorityMatch(matches))

\* The index advanceCommit of n settles on, given everyone's match index.
commitCandidate(n, matches) ==
    LET v == majorityMatch(matches)
    IN  IF v > commitIndex[n] /\ holds(log[n], v, currentTerm[n])
        THEN v ELSE commitIndex[n]

\* A follower's progress is recorded; a new majority commits, applies, and is
\* broadcast.
recordProgress(n, m) ==
    /\ currentReply(n, m) /\ m.success
    /\ IF m.matchIndex > matchIndex[n][m.src]
       THEN /\ matchIndex' = [matchIndex EXCEPT ![n][m.src] = m.matchIndex]
            /\ nextIndex' = [nextIndex EXCEPT ![n][m.src] = m.matchIndex + 1]
       ELSE UNCHANGED leaderVars
    /\ LET commit == commitCandidate(n, [matchIndex'[n] EXCEPT ![n] = Len(log[n])])
       IN  IF commit > commitIndex[n]
           THEN /\ commitAndApply(n, commit, log[n], waiters[n])
                /\ transmit(messages \ {m},
                            replicateToAll(n, currentTerm[n], log[n],
                                           nextIndex'[n], commit))
           ELSE /\ discard(m)
                /\ UNCHANGED <<applyVars, clientVars, failures>>
    /\ UNCHANGED <<electionVars, log>>

handleAppendResponse(n, m) ==
    /\ m.type = "append_resp" /\ m.dst = n
    /\ \/ stepDown(n, m)
       \/ ignoreReply(n, m)
       \/ retryAppend(n, m)
       \/ recordProgress(n, m)

-----------------------------------------------------------------------------
(* Crash and recovery                                                      *)

\* The process of n dies and starts again from its store; committed entries
\* that were not applied are replayed before it serves.  Its goroutines are
\* gone: nobody awaits its RPCs, and callers of Propose got ErrStopped.
recover(n) ==
    /\ failures < MaxFailures
    /\ failures' = failures + 1
    /\ role' = [role EXCEPT ![n] = "follower"]
    /\ leaderID' = [leaderID EXCEPT ![n] = Nil]
    /\ forgetCandidacy(n)
    /\ commitIndex' = [commitIndex EXCEPT ![n] = savedCommit[n]]
    /\ lastApplied' = [lastApplied EXCEPT ![n] = larger(@, savedCommit[n])]
    /\ waiters' = [waiters EXCEPT ![n] = {}]
    /\ messages' =
          {IF m.src = n /\ m.type \in {"vote_req", "append_req"}
           THEN [m EXCEPT !.awaited = FALSE] ELSE m :
              m \in {k \in messages :
                        ~(k.dst = n /\ k.type \in {"vote_resp", "append_resp"})}}
    /\ UNCHANGED <<currentTerm, votedFor, log, savedCommit, acked>>

-----------------------------------------------------------------------------
Init ==
    /\ role = [n \in Node |-> "follower"]
    /\ currentTerm = [n \in Node |-> 0]
    /\ votedFor = [n \in Node |-> Nil]
    /\ leaderID = [n \in Node |-> Nil]
    /\ votesGranted = [n \in Node |-> 0]
    /\ voters = [n \in Node |-> {}]
    /\ log = [n \in Node |-> <<>>]
    /\ commitIndex = [n \in Node |-> 0]
    /\ savedCommit = [n \in Node |-> 0]
    /\ lastApplied = [n \in Node |-> 0]
    /\ nextIndex = [n \in Node |-> [p \in Node |-> 1]]
    /\ matchIndex = [n \in Node |-> [p \in Node |-> 0]]
    /\ waiters = [n \in Node |-> {}]
    /\ acked = {}
    /\ messages = {}
    /\ failures = 0

Next ==
    \E n \in Node :
        \/ onElectionTimeout(n)
        \/ candidacyFails(n)
        \/ onHeartbeat(n)
        \/ recover(n)
        \/ \E c \in Command : handlePropose(n, c)
        \/ \E m \in messages :
              \/ handleRequestVote(n, m)
              \/ handleVoteResponse(n, m)
              \/ \E dup \in Duplicates : handleAppendEntries(n, m, dup)
              \/ handleAppendResponse(n, m)

Spec == Init /\ [][Next]_vars

-----------------------------------------------------------------------------
(* Properties                                                              *)

\* Every variable of a node keeps the type its Go field has.
TypeOK ==
    /\ role \in [Node -> {"follower", "candidate", "leader"}]
    /\ currentTerm \in [Node -> Nat]
    /\ votedFor \in [Node -> Node \cup {Nil}]
    /\ leaderID \in [Node -> Node \cup {Nil}]
    /\ votesGranted \in [Node -> Nat]
    /\ voters \in [Node -> SUBSET Node]
    /\ log \in [Node -> Seq(Entry)]
    /\ commitIndex \in [Node -> Nat]
    /\ savedCommit \in [Node -> Nat]
    /\ lastApplied \in [Node -> Nat]
    /\ nextIndex \in [Node -> [Node -> Nat \ {0}]]
    /\ matchIndex \in [Node -> [Node -> Nat]]
    /\ waiters \in [Node -> SUBSET (Nat \X Command)]
    /\ acked \subseteq Nat \X Entry
    /\ messages \subseteq RequestVoteRequest \cup RequestVoteResponse
                     \cup AppendEntriesRequest \cup AppendEntriesResponse
    /\ failures \in Nat

\* At most one node leads a term: handleVoteResponse promotes on a bare count
\* of granted votes, across restarts, lost writes and late answers.
ElectionSafety ==
    \A a, b \in Node :
        role[a] = "leader" /\ role[b] = "leader" /\ currentTerm[a] = currentTerm[b]
            => a = b

\* votesGranted is a bare counter fed by answers to any election: every vote it
\* counts is a different node's, cast for n in the term n now stands or leads in.
CountedVotesWereCast ==
    \A n \in Node :
        /\ votesGranted[n] = Cardinality(voters[n])
        /\ \A p \in voters[n] :
              \/ currentTerm[p] > currentTerm[n]
              \/ currentTerm[p] = currentTerm[n] /\ votedFor[p] = n

\* Two logs that hold an entry of the same term at the same index agree up to
\* that index: what the prevLogIndex check and reconcileEntries are for.
LogMatching ==
    \A a, b \in Node :
        \A i \in 1..smaller(Len(log[a]), Len(log[b])) :
            log[a][i].term = log[b][i].term
                => \A j \in 1..i : log[a][j] = log[b][j]

\* No two nodes ever apply, or may still apply, different entries at an index.
StateMachineSafety ==
    \A a, b \in Node :
        \A i \in 1..smaller(larger(commitIndex[a], lastApplied[a]),
                            larger(commitIndex[b], lastApplied[b])) :
            log[a][i] = log[b][i]

\* A leader holds everything committed on any node whose term is not newer.
LeaderCompleteness ==
    \A l, n \in Node :
        role[l] = "leader" /\ currentTerm[l] >= currentTerm[n]
            => \A i \in 1..commitIndex[n] :
                  i <= Len(log[l]) /\ log[l][i] = log[n][i]

\* A result handed to a caller of Propose is on a majority of the logs, where
\* no later leader, restart or failed write removes it.
AcknowledgedSurvives ==
    \A a \in acked :
        Cardinality({n \in Node : a[1] <= Len(log[n]) /\ log[n][a[1]] = a[2]})
            >= quorum

\* A registered proposal sits in its leader's log at the index it waits for, so
\* applyCommitted hands it the result of its own command.
WaiterOwnsEntry ==
    \A n \in Node : \A w \in waiters[n] :
        /\ role[n] = "leader" /\ lastApplied[n] < w[1] /\ w[1] <= Len(log[n])
        /\ log[n][w[1]] = [term |-> currentTerm[n], command |-> w[2]]

\* What a leader believes a follower holds, the follower does hold: stale,
\* duplicated and reordered replies never inflate matchIndex.
MatchIndexSound ==
    \A l, p \in Node :
        role[l] = "leader" /\ currentTerm[p] = currentTerm[l] =>
            /\ matchIndex[l][p] <= smaller(Len(log[l]), Len(log[p]))
            /\ \A i \in 1..matchIndex[l][p] : log[l][i] = log[p][i]

\* nextIndex stays within the leader's log plus one, so replicateToPeer never
\* sends a previous index it has no term for.
NextIndexInLog ==
    \A l, p \in Node :
        role[l] = "leader" => nextIndex[l][p] \in 1..(Len(log[l]) + 1)

\* Members of two clusters never mix: what a node logs, follows or counts as a
\* vote comes from its own cluster (terms do leak, through responses).
ClustersKeptApart ==
    \A n, p \in Node :
        (n \in Foreign) # (p \in Foreign) =>
            /\ leaderID[n] # p /\ votedFor[n] # p /\ p \notin voters[n]
            /\ role[p] = "leader" =>
                  \A i \in 1..Len(log[n]) : log[n][i].term # currentTerm[p]

\* Terms never go back and a vote, once cast, stands for its term, over crashes
\* and failed writes.
VoteStands ==
    [][\A n \in Node :
          /\ currentTerm'[n] >= currentTerm[n]
          /\ currentTerm'[n] = currentTerm[n] /\ votedFor[n] # Nil
                => votedFor'[n] = votedFor[n]]_vars

\* OverwriteEntries never drops an entry the node has applied or knows to be
\* committed, even when the commit checkpoint on disk lags.
CommittedNeverTruncated ==
    [][\A n \in Node :
          \A i \in 1..larger(commitIndex[n], lastApplied[n]) :
              i <= Len(log'[n]) /\ log'[n][i] = log[n][i]]_vars
=============================================================================

------------------------------- MODULE Waiters -------------------------------
(****************************************************************************)
(* Propose and the event loop of one node: how the goroutine of a request   *)
(* hands a command to the loop, waits for its entry to be applied, and      *)
(* gives up (internal/raft/waiters.go, the loop and Stop of node.go, the    *)
(* delivery in apply.go).                                                   *)
(*                                                                          *)
(* A caller's three selects are its three program counters.  proposeCh and  *)
(* deregisterCh are unbuffered, so a hand-over is one step of caller and    *)
(* loop together; the registration and the outcome go over channels with    *)
(* room for one value, modelled as a variable that is `none' when empty.    *)
(* The rest of the cluster is nondeterministic: this node may lose its      *)
(* leadership, have the unapplied end of its log replaced by another        *)
(* leader, and lead again (Raft.tla has that part in full).                 *)
(****************************************************************************)
EXTENDS Integers, Sequences, FiniteSets

CONSTANTS
  Caller,      \* goroutines calling Propose, one command each
  Deadline,    \* the callers whose context has a deadline
  MaxLog,      \* bound on the length of the log
  MaxReigns    \* bound on the number of times this node leads

\* The entry of another proposer, a leader's no-op, and the empty channel.
foreign == "foreign"
none == [kind |-> "none"]

ASSUME CallerAssumption == foreign \notin Caller /\ Deadline \subseteq Caller
ASSUME BoundsAssumption == MaxLog \in Nat /\ MaxReigns \in Nat

VARIABLES
  pc,          \* where each caller is in Propose
  resp,        \* the registration channel of each caller (env.resp)
  index,       \* reg.index of each caller, 0 before it has one
  ch,          \* the outcome channel of each caller (waiter.ch)
  answer,      \* what Propose returned
  leading,     \* n.role = RoleLeader
  reigns,      \* how often this node has become the leader
  log,         \* whose command each entry holds
  applied,     \* n.lastApplied
  waiters,     \* n.waiters: log index -> the caller registered under it
  cancelled,   \* n.ctx is done
  running      \* the event loop has not returned

callerVars == <<pc, resp, index, ch, answer>>
raftVars == <<leading, reigns, log, applied>>
vars == <<callerVars, raftVars, waiters, cancelled, running>>

registration(i) == [kind |-> "registered", index |-> i]
failure(err) == [kind |-> "error", err |-> err]
result(entry) == [kind |-> "result", of |-> entry]

Init ==
  /\ pc = [c \in Caller |-> "submitting"]
  /\ resp = [c \in Caller |-> none]
  /\ index = [c \in Caller |-> 0]
  /\ ch = [c \in Caller |-> none]
  /\ answer = [c \in Caller |-> none]
  /\ leading = TRUE
  /\ reigns = 1
  /\ log = <<foreign>>
  /\ applied = 0
  /\ waiters = << >>
  /\ cancelled = FALSE
  /\ running = TRUE

------------------------------------------------------------------------------
(* The caller.  When several cases of a select are ready Go picks any one,  *)
(* so each case is an action of its own.                                    *)

return(c, a) ==
  /\ pc' = [pc EXCEPT ![c] = "returned"]
  /\ answer' = [answer EXCEPT ![c] = a]

\* The second select takes the registration off env.resp.
takeRegistration(c) ==
  /\ pc[c] = "submitted"
  /\ resp[c] # none
  /\ resp' = [resp EXCEPT ![c] = none]
  /\ \/ /\ resp[c].kind = "registered"
        /\ pc' = [pc EXCEPT ![c] = "waiting"]
        /\ index' = [index EXCEPT ![c] = resp[c].index]
        /\ UNCHANGED answer
     \/ /\ resp[c].kind = "error"
        /\ return(c, resp[c])
        /\ UNCHANGED index
  /\ UNCHANGED <<ch, raftVars, waiters, cancelled, running>>

\* The third select takes the outcome.
takeOutcome(c) ==
  /\ pc[c] = "waiting"
  /\ ch[c] # none
  /\ ch' = [ch EXCEPT ![c] = none]
  /\ return(c, ch[c])
  /\ UNCHANGED <<resp, index, raftVars, waiters, cancelled, running>>

\* ctx.Done.  The first two selects return the context's own error and leave
\* whatever the loop did with the envelope; the third goes on to deregister.
expire(c) ==
  /\ c \in Deadline
  /\ \/ /\ pc[c] \in {"submitting", "submitted"}
        /\ return(c, failure("DeadlineExceeded"))
     \/ /\ pc[c] = "waiting"
        /\ pc' = [pc EXCEPT ![c] = "leaving"]
        /\ UNCHANGED answer
  /\ UNCHANGED <<resp, index, ch, raftVars, waiters, cancelled, running>>

\* Planted bug: deregisterWaiter sends outside a select.
seeStopUnlessLeaving(c) ==
  /\ cancelled
  /\ pc[c] \in {"submitting", "submitted", "waiting"}
  /\ return(c, failure("ErrStopped"))
  /\ UNCHANGED <<resp, index, ch, raftVars, waiters, cancelled, running>>

\* n.ctx.Done, in each of the selects and in deregisterWaiter.
seeStop(c) ==
  /\ cancelled
  /\ \/ /\ pc[c] \in {"submitting", "submitted", "waiting"}
        /\ return(c, failure("ErrStopped"))
     \/ /\ pc[c] = "leaving"
        /\ return(c, failure("ErrProposalTimeout"))
  /\ UNCHANGED <<resp, index, ch, raftVars, waiters, cancelled, running>>

------------------------------------------------------------------------------
(* The event loop.                                                          *)

without(f, S) == [i \in DOMAIN f \ S |-> f[i]]

\* The loop sends without a select: it blocks for good when a channel it sends
\* on still holds a value, so a step that sends requires all of them empty.
roomFor(S) == \A i \in S : ch[waiters[i]] = none

\* Each waiter at an index in S gets the outcome for its index.
deliver(S, outcome) ==
  ch' = [c \in Caller |->
           IF \E i \in S : waiters[i] = c
           THEN outcome[CHOOSE i \in S : waiters[i] = c]
           ELSE ch[c]]

handlePropose(c) ==
  /\ running
  /\ pc[c] = "submitting"
  /\ pc' = [pc EXCEPT ![c] = "submitted"]
  /\ \/ /\ ~leading
        /\ resp' = [resp EXCEPT ![c] = failure("ErrNotLeader")]
        /\ UNCHANGED <<log, waiters>>
     \/ /\ leading /\ Len(log) < MaxLog
        /\ log' = Append(log, c)
        /\ waiters' = [i \in DOMAIN waiters \cup {Len(log')} |->
                         IF i = Len(log') THEN c ELSE waiters[i]]
        /\ resp' = [resp EXCEPT ![c] = registration(Len(log'))]
     \/ /\ leading     \* AppendEntries fails
        /\ resp' = [resp EXCEPT ![c] = failure("storage")]
        /\ UNCHANGED <<log, waiters>>
  /\ UNCHANGED <<index, ch, answer, leading, reigns, applied, cancelled, running>>

\* Planted bug: the delivered waiter stays registered.
deliverAndKeep(k) ==
  LET due == DOMAIN waiters \cap (applied + 1)..k
  IN  /\ running
      /\ roomFor(due)
      /\ applied' = k
      /\ deliver(due, [i \in due |-> result(log[i])])
      /\ UNCHANGED <<pc, resp, index, answer, leading, reigns, log, waiters, cancelled, running>>

\* applyCommitted after the commit index has moved: entries up to k are
\* applied, each result sent to the waiter at its index, if there is one.
applyCommitted(k) ==
  LET due == DOMAIN waiters \cap (applied + 1)..k
  IN  /\ running
      /\ roomFor(due)
      /\ applied' = k
      /\ deliver(due, [i \in due |-> result(log[i])])
      /\ waiters' = without(waiters, due)
      /\ UNCHANGED <<pc, resp, index, answer, leading, reigns, log, cancelled, running>>

\* Planted bug: stepping down leaves the waiters registered.
stepDownQuietly ==
  /\ running
  /\ leading
  /\ leading' = FALSE
  /\ UNCHANGED <<callerVars, reigns, log, applied, waiters, cancelled, running>>

\* becomeFollower of a leader: failWaiters answers and clears every waiter.
stepDown ==
  /\ running
  /\ leading
  /\ roomFor(DOMAIN waiters)
  /\ leading' = FALSE
  /\ deliver(DOMAIN waiters, [i \in DOMAIN waiters |-> failure("ErrNotLeader")])
  /\ waiters' = << >>
  /\ UNCHANGED <<pc, resp, index, answer, reigns, log, applied, cancelled, running>>

\* A follower takes another leader's entry after its first k entries; a
\* committed entry is never removed (Raft.tla).
overwrite(k) ==
  /\ running
  /\ ~leading
  /\ k < MaxLog
  /\ log' = Append(SubSeq(log, 1, k), foreign)
  /\ UNCHANGED <<callerVars, leading, reigns, applied, waiters, cancelled, running>>

\* promoteToLeader: win an election and append the no-op of the term.
lead ==
  /\ running
  /\ ~leading
  /\ reigns < MaxReigns
  /\ Len(log) < MaxLog
  /\ leading' = TRUE
  /\ reigns' = reigns + 1
  /\ log' = Append(log, foreign)
  /\ UNCHANGED <<callerVars, applied, waiters, cancelled, running>>

\* The loop takes an index off deregisterCh and drops the waiter it finds there.
deregisterWaiter(c) ==
  /\ running
  /\ pc[c] = "leaving"
  /\ waiters' = without(waiters, {index[c]})
  /\ return(c, failure("ErrProposalTimeout"))
  /\ UNCHANGED <<resp, index, ch, raftVars, cancelled, running>>

\* Stop cancels n.ctx; the loop returns when its select next picks that case,
\* which it need not do while other cases are ready.
Stop ==
  /\ ~cancelled
  /\ cancelled' = TRUE
  /\ UNCHANGED <<callerVars, raftVars, waiters, running>>

loopReturns ==
  /\ cancelled
  /\ running
  /\ running' = FALSE
  /\ UNCHANGED <<callerVars, raftVars, waiters, cancelled>>

------------------------------------------------------------------------------
caller(c) ==
  \/ takeRegistration(c)
  \/ takeOutcome(c)
  \/ expire(c)
  \/ seeStop(c)

loop ==
  \/ \E c \in Caller : handlePropose(c)
  \/ \E k \in applied + 1..Len(log) : applyCommitted(k)
  \/ stepDown
  \/ \E k \in applied..Len(log) : overwrite(k)
  \/ lead
  \/ \E c \in Caller : deregisterWaiter(c)
  \/ loopReturns

Next ==
  \/ \E c \in Caller : caller(c)
  \/ loop
  \/ Stop

Spec == Init /\ [][Next]_vars

\* A goroutine whose select has a ready case takes one, a deadline passes, and
\* the loop, which sleeps only in its own select, takes the envelope or the
\* index a caller holds out to it.  Nothing is assumed of elections, of other
\* leaders or of commits.
FairSpec ==
  /\ Spec
  /\ \A c \in Caller :
       WF_vars(caller(c)) /\ WF_vars(handlePropose(c)) /\ WF_vars(deregisterWaiter(c))

------------------------------------------------------------------------------
\* Propose returns the state machine's result for the caller's own command
\* and no other: the waiter found at an index when the entry there is applied
\* belongs to the proposer of that entry, however often the leadership and
\* the entry at that index have changed in between (applyCommitted,
\* failWaiters).
ResultIsOwn ==
  \A c \in Caller : answer[c].kind = "result" => answer[c].of = c

\* The event loop never blocks on a waiter: every channel it may still send
\* to is empty.  It sends outside any select, so one full channel would stop
\* the node for good (applyCommitted, failWaiters).
LoopNeverBlocks == roomFor(DOMAIN waiters)

\* The registered waiters all stand at unapplied indexes that hold
\* their callers' commands, and a follower has none: what makes it safe to
\* look a waiter up by index alone.
WaitersMatchLog ==
  /\ ~leading => DOMAIN waiters = {}
  /\ \A i \in DOMAIN waiters : i > applied /\ log[i] = waiters[i]

\* Every call of Propose with a deadline returns, whether or not the node
\* keeps a leader or a quorum, is overtaken by another leader or is stopped
\* while the call is handing over its index (deregisterWaiter).
ProposeReturns == \A c \in Deadline : <>(pc[c] = "returned")

==============================================================================

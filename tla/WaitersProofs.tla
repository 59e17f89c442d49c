---------------------------- MODULE WaitersProofs ----------------------------
(****************************************************************************)
(* For any number of callers, any log and any number of reigns: a caller    *)
(* gets its own result, and the event loop never blocks on a waiter.        *)
(*                                                                          *)
(* Neither property is inductive.  The invariant adds that a caller is      *)
(* registered at most once and not before it submitted, and that its        *)
(* channel is empty as long as it is registered.                            *)
(****************************************************************************)
EXTENDS Waiters, TLAPS

Place == {"submitting", "submitted", "waiting", "leaving", "returned"}
Error == {"ErrNotLeader", "storage", "DeadlineExceeded", "ErrStopped", "ErrProposalTimeout"}
Outcome == {none} \cup {failure(e) : e \in Error} \cup {result(e) : e \in Caller \cup {foreign}}
Registration == {none} \cup {failure(e) : e \in Error} \cup {registration(i) : i \in Nat}

Shapes ==
  /\ pc \in [Caller -> Place]
  /\ resp \in [Caller -> Registration]
  /\ ch \in [Caller -> Outcome]
  /\ answer \in [Caller -> Outcome]
  /\ log \in Seq(Caller \cup {foreign})
  /\ applied \in 0..Len(log)
  /\ waiters \in [DOMAIN waiters -> Caller]
  /\ DOMAIN waiters \subseteq 1..Len(log)

RegisteredOnce == \A i, j \in DOMAIN waiters : waiters[i] = waiters[j] => i = j

EmptyUntilSent ==
  /\ \A c \in Caller : pc[c] = "submitting" => ch[c] = none
  /\ \A i \in DOMAIN waiters : pc[waiters[i]] # "submitting" /\ ch[waiters[i]] = none

OutcomeIsOwn ==
  \A c \in Caller : /\ ch[c].kind = "result" => ch[c].of = c
                    /\ answer[c].kind = "result" => answer[c].of = c

WaitersInv == Shapes /\ WaitersMatchLog /\ RegisteredOnce /\ EmptyUntilSent /\ OutcomeIsOwn

\* Records of different kinds differ, and a failure is nobody's result.
LEMMA Kinds ==
  /\ none.kind = "none"
  /\ \A e : failure(e).kind = "error" /\ failure(e) # none
  /\ \A e : result(e).kind = "result" /\ result(e).of = e /\ result(e) # none
  /\ \A i : registration(i).kind = "registered" /\ registration(i) # none
<1>1. none.kind = "none"
  BY DEF none
<1>2. \A e : failure(e).kind = "error" /\ failure(e) # none
  BY <1>1 DEF failure
<1>3. \A e : result(e).kind = "result" /\ result(e).of = e /\ result(e) # none
  BY <1>1 DEF result
<1>4. \A i : registration(i).kind = "registered" /\ registration(i) # none
  BY <1>1 DEF registration
<1> QED
  BY <1>1, <1>2, <1>3, <1>4

\* The invariant holds before anyone proposed.
LEMMA WaitersInit == Init => WaitersInv
<1> SUFFICES ASSUME Init PROVE WaitersInv
  OBVIOUS
<1>1. DOMAIN waiters = {}
  BY DEF Init
<1>2. Shapes
  <2>1. waiters \in [DOMAIN waiters -> Caller]
    <3>1. waiters = [i \in {} |-> waiters[i]]
      BY <1>1 DEF Init
    <3> QED
      BY <1>1, <3>1
  <2>2. log \in Seq(Caller \cup {foreign}) /\ Len(log) = 1
    BY DEF Init
  <2>3. none \in Outcome /\ none \in Registration
    BY DEF Outcome, Registration
  <2> QED
    BY <1>1, <2>1, <2>2, <2>3 DEF Init, Shapes, Place
<1>3. OutcomeIsOwn
  BY Kinds DEF Init, OutcomeIsOwn
<1> QED
  BY <1>1, <1>2, <1>3 DEF Init, WaitersInv, WaitersMatchLog, RegisteredOnce, EmptyUntilSent

\* What a caller does on its own: it touches no registration, takes its own
\* outcome off its channel, and never goes back to submitting.
LEMMA CallerStep ==
  ASSUME WaitersInv, NEW c \in Caller, caller(c)
  PROVE  WaitersInv'
<1> USE DEF WaitersInv
<1>1. CASE takeRegistration(c)
  <2>1. resp[c].kind = "error" => resp[c] \in Outcome
    BY Kinds DEF Shapes, Registration, Outcome
  <2>2. Shapes'
    BY <1>1, <2>1 DEF takeRegistration, return, Shapes, raftVars, Place, Registration
  <2>3. OutcomeIsOwn'
    BY <1>1, Kinds DEF takeRegistration, return, Shapes, OutcomeIsOwn
  <2>4. EmptyUntilSent'
    BY <1>1 DEF takeRegistration, return, Shapes, EmptyUntilSent
  <2> QED
    BY <1>1, <2>2, <2>3, <2>4 DEF takeRegistration, raftVars, WaitersMatchLog, RegisteredOnce
<1>2. CASE takeOutcome(c)
  <2>1. Shapes'
    BY <1>2 DEF takeOutcome, return, Shapes, raftVars, Place, Outcome
  <2>2. OutcomeIsOwn'
    BY <1>2, Kinds DEF takeOutcome, return, Shapes, OutcomeIsOwn
  <2>3. EmptyUntilSent'
    BY <1>2 DEF takeOutcome, return, Shapes, EmptyUntilSent
  <2> QED
    BY <1>2, <2>1, <2>2, <2>3 DEF takeOutcome, raftVars, WaitersMatchLog, RegisteredOnce
<1>3. CASE expire(c) \/ seeStop(c)
  <2>1. \A e \in Error : failure(e) \in Outcome
    BY DEF Outcome
  <2>2. failure("DeadlineExceeded") \in Outcome /\ failure("ErrStopped") \in Outcome
          /\ failure("ErrProposalTimeout") \in Outcome
    BY <2>1 DEF Error
  <2>3. pc' \in [Caller -> Place] /\ answer' \in [Caller -> Outcome]
    <3>1. \/ pc' = [pc EXCEPT ![c] = "returned"]
          \/ pc' = [pc EXCEPT ![c] = "leaving"]
      BY <1>3 DEF expire, seeStop, return
    <3>2. \/ answer' = answer
          \/ answer' = [answer EXCEPT ![c] = failure("DeadlineExceeded")]
          \/ answer' = [answer EXCEPT ![c] = failure("ErrStopped")]
          \/ answer' = [answer EXCEPT ![c] = failure("ErrProposalTimeout")]
      BY <1>3 DEF expire, seeStop, return
    <3>3. pc' \in [Caller -> Place]
      BY <3>1 DEF Shapes, Place
    <3>4. answer' \in [Caller -> Outcome]
      BY <2>2, <3>2 DEF Shapes
    <3> QED
      BY <3>3, <3>4
  <2>4. Shapes'
    BY <1>3, <2>3 DEF expire, seeStop, Shapes, raftVars
  <2>5. OutcomeIsOwn'
    <3>1. \A d \in Caller : answer'[d] = answer[d] \/ \E e : answer'[d] = failure(e)
      BY <1>3 DEF expire, seeStop, return, Shapes
    <3>2. UNCHANGED ch
      BY <1>3 DEF expire, seeStop
    <3> QED
      BY <3>1, <3>2, Kinds DEF OutcomeIsOwn
  <2>6. EmptyUntilSent'
    BY <1>3 DEF expire, seeStop, return, Shapes, EmptyUntilSent
  <2> QED
    BY <1>3, <2>4, <2>5, <2>6 DEF expire, seeStop, raftVars, WaitersMatchLog, RegisteredOnce
<1> QED
  BY <1>1, <1>2, <1>3 DEF caller

\* A waiter is found under one index only, so that what the loop sends to the
\* waiters at S reaches each of them with the outcome for its own index.
LEMMA ChosenIndex ==
  ASSUME WaitersInv, NEW S \in SUBSET DOMAIN waiters, NEW i \in S
  PROVE  (CHOOSE j \in S : waiters[j] = waiters[i]) = i /\ waiters[i] \in Caller
<1>1. (CHOOSE j \in S : waiters[j] = waiters[i]) = i
  BY DEF WaitersInv, RegisteredOnce
<1>2. waiters[i] \in Caller
  BY DEF WaitersInv, Shapes
<1> QED
  BY <1>1, <1>2

\* A proposal is registered under the index of its own entry, beyond every
\* registered index; its caller was not registered before.
LEMMA HandlePropose ==
  ASSUME WaitersInv, NEW c \in Caller, handlePropose(c)
  PROVE  WaitersInv'
<1> USE DEF WaitersInv
<1>1. pc' \in [Caller -> Place] /\ \A d \in Caller : pc'[d] = "submitting" => pc[d] = "submitting" /\ d # c
  BY DEF handlePropose, Shapes, Place
<1>2. OutcomeIsOwn'
  BY DEF handlePropose, OutcomeIsOwn
<1>3. CASE UNCHANGED <<log, waiters>>
  <2>1. failure("ErrNotLeader") \in Registration /\ failure("storage") \in Registration
    BY DEF Registration, Error
  <2>2. resp' \in [Caller -> Registration]
    BY <1>3, <2>1 DEF handlePropose, Shapes
  <2>3. Shapes'
    BY <1>1, <1>3, <2>2 DEF handlePropose, Shapes
  <2>4. EmptyUntilSent'
    BY <1>1, <1>3 DEF handlePropose, EmptyUntilSent, Shapes
  <2> QED
    BY <1>2, <1>3, <2>3, <2>4 DEF handlePropose, WaitersMatchLog, RegisteredOnce
<1>4. CASE /\ leading
           /\ log' = Append(log, c)
           /\ waiters' = [i \in DOMAIN waiters \cup {Len(log')} |->
                            IF i = Len(log') THEN c ELSE waiters[i]]
           /\ resp' = [resp EXCEPT ![c] = registration(Len(log'))]
  <2>1. /\ log' \in Seq(Caller \cup {foreign}) /\ Len(log') = Len(log) + 1 /\ Len(log) \in Nat
        /\ log'[Len(log')] = c /\ \A i \in 1..Len(log) : log'[i] = log[i]
    BY <1>4 DEF Shapes
  <2>2. /\ DOMAIN waiters' = DOMAIN waiters \cup {Len(log')}
        /\ waiters'[Len(log')] = c /\ Len(log') \notin DOMAIN waiters
        /\ \A i \in DOMAIN waiters : waiters'[i] = waiters[i]
        /\ \A i \in DOMAIN waiters : waiters[i] \in Caller /\ waiters[i] # c
    BY <1>4, <2>1 DEF Shapes, handlePropose, EmptyUntilSent
  <2>3. Shapes'
    <3>1. registration(Len(log')) \in Registration
      BY <2>1 DEF Registration
    <3>2. resp' \in [Caller -> Registration]
      BY <1>4, <3>1 DEF Shapes
    <3>3. waiters' \in [DOMAIN waiters' -> Caller] /\ DOMAIN waiters' \subseteq 1..Len(log')
      BY <1>4, <2>1, <2>2 DEF Shapes
    <3> QED
      BY <1>1, <2>1, <3>2, <3>3 DEF handlePropose, Shapes
  <2>4. WaitersMatchLog'
    BY <1>4, <2>1, <2>2 DEF handlePropose, WaitersMatchLog, Shapes
  <2>5. RegisteredOnce'
    BY <2>2 DEF RegisteredOnce
  <2>6. EmptyUntilSent'
    BY <1>1, <2>2 DEF handlePropose, EmptyUntilSent, Shapes
  <2> QED
    BY <1>2, <2>3, <2>4, <2>5, <2>6
<1> QED
  BY <1>3, <1>4 DEF handlePropose

\* The loop applies entries: the waiters it delivers to leave, each with the
\* result of its own entry.
LEMMA ApplyCommitted ==
  ASSUME WaitersInv, NEW k \in applied + 1..Len(log), applyCommitted(k)
  PROVE  WaitersInv'
<1> USE DEF WaitersInv
<1> DEFINE due == DOMAIN waiters \cap (applied + 1)..k
           own(i) == result(log[i])
<1>1. ch' = [c \in Caller |-> IF \E i \in due : waiters[i] = c
                             THEN [i \in due |-> own(i)][CHOOSE i \in due : waiters[i] = c]
                             ELSE ch[c]]
  BY DEF applyCommitted, deliver
<1>2. due \in SUBSET DOMAIN waiters
  OBVIOUS
<1> HIDE DEF own, due
<1>3. /\ \A i \in due : ch'[waiters[i]] = own(i)
      /\ \A c \in Caller : (\A i \in due : waiters[i] # c) => ch'[c] = ch[c]
      /\ ch' = [c \in Caller |-> ch'[c]]
  <2>1. \A i \in due : (CHOOSE j \in due : waiters[j] = waiters[i]) = i /\ waiters[i] \in Caller
    BY <1>2, ChosenIndex
  <2> QED
    BY <1>1, <2>1
<1>4. /\ DOMAIN waiters' = DOMAIN waiters \ due
      /\ waiters' = [i \in DOMAIN waiters \ due |-> waiters[i]]
  BY DEF applyCommitted, without, due
<1>5. \A i \in due : own(i) = result(waiters[i]) /\ waiters[i] \in Caller
  BY <1>2 DEF own, WaitersMatchLog, Shapes
<1>6. Shapes'
  <2>1. \A c \in Caller : result(c) \in Outcome
    BY DEF Outcome
  <2>2. \A c \in Caller : ch'[c] \in Outcome
    BY <1>3, <1>5, <2>1 DEF Shapes
  <2>3. ch' \in [Caller -> Outcome]
    BY <1>3, <2>2
  <2>4. waiters' \in [DOMAIN waiters' -> Caller] /\ DOMAIN waiters' \subseteq 1..Len(log)
    BY <1>4 DEF Shapes
  <2>5. applied' \in 0..Len(log)
    BY DEF applyCommitted, Shapes
  <2> QED
    BY <2>3, <2>4, <2>5 DEF applyCommitted, Shapes
<1>7. WaitersMatchLog'
  <2>1. \A i \in DOMAIN waiters \ due : i > k
    BY DEF due, WaitersMatchLog, Shapes
  <2> QED
    BY <1>4, <2>1 DEF applyCommitted, WaitersMatchLog
<1>8. RegisteredOnce'
  BY <1>4 DEF RegisteredOnce
<1>9. EmptyUntilSent'
  <2>1. \A i \in DOMAIN waiters \ due : ch'[waiters[i]] = none
    BY <1>2, <1>3 DEF EmptyUntilSent, RegisteredOnce, Shapes
  <2>2. \A c \in Caller : pc[c] = "submitting" => ch'[c] = none
    BY <1>2, <1>3 DEF EmptyUntilSent
  <2> QED
    BY <1>4, <2>1, <2>2 DEF applyCommitted, EmptyUntilSent
<1>10. OutcomeIsOwn'
  <2>1. \A c \in Caller : ch'[c].kind = "result" => ch'[c].of = c
    BY <1>3, <1>5, Kinds DEF OutcomeIsOwn
  <2> QED
    BY <2>1 DEF applyCommitted, OutcomeIsOwn
<1> QED
  BY <1>6, <1>7, <1>8, <1>9, <1>10

\* A leader that steps down fails and clears every waiter.
LEMMA StepDown ==
  ASSUME WaitersInv, stepDown
  PROVE  WaitersInv'
<1> USE DEF WaitersInv
<1>1. ch' = [c \in Caller |->
               IF \E i \in DOMAIN waiters : waiters[i] = c
               THEN [i \in DOMAIN waiters |-> failure("ErrNotLeader")]
                      [CHOOSE i \in DOMAIN waiters : waiters[i] = c]
               ELSE ch[c]]
  BY DEF stepDown, deliver
<1>2. ch' = [c \in Caller |-> IF \E i \in DOMAIN waiters : waiters[i] = c
                             THEN failure("ErrNotLeader")
                             ELSE ch[c]]
  <2>1. \A c \in Caller : (\E i \in DOMAIN waiters : waiters[i] = c)
          => (CHOOSE i \in DOMAIN waiters : waiters[i] = c) \in DOMAIN waiters
    OBVIOUS
  <2> QED
    BY <1>1, <2>1
<1>3. DOMAIN waiters' = {} /\ waiters' \in [DOMAIN waiters' -> Caller]
  <2>1. DOMAIN waiters' = {} /\ waiters' = [i \in {} |-> waiters'[i]]
    BY DEF stepDown
  <2> QED
    BY <2>1
<1>4. failure("ErrNotLeader") \in Outcome
  BY DEF Outcome, Error
<1>5. \A c \in Caller : ch'[c] = ch[c] \/ ch'[c] = failure("ErrNotLeader")
  BY <1>2
<1>6. ch' \in [Caller -> Outcome]
  BY <1>2, <1>4, <1>5 DEF Shapes
<1>7. Shapes'
  BY <1>3, <1>6 DEF stepDown, Shapes
<1>8. OutcomeIsOwn'
  BY <1>5, Kinds DEF stepDown, OutcomeIsOwn
<1>9. EmptyUntilSent'
  BY <1>2, <1>3 DEF stepDown, EmptyUntilSent
<1> QED
  BY <1>3, <1>7, <1>8, <1>9 DEF WaitersMatchLog, RegisteredOnce

\* A waiter whose caller gives up is dropped, or another one that stands under
\* the index it gives: fewer waiters, nothing sent.
LEMMA DeregisterWaiter ==
  ASSUME WaitersInv, NEW c \in Caller, deregisterWaiter(c)
  PROVE  WaitersInv'
<1> USE DEF WaitersInv
<1>1. /\ DOMAIN waiters' = DOMAIN waiters \ {index[c]}
      /\ waiters' = [i \in DOMAIN waiters \ {index[c]} |-> waiters[i]]
  BY DEF deregisterWaiter, without
<1>2. failure("ErrProposalTimeout") \in Outcome
  BY DEF Outcome, Error
<1>3. pc' \in [Caller -> Place] /\ answer' \in [Caller -> Outcome]
  BY <1>2 DEF deregisterWaiter, return, Shapes, Place
<1>4. Shapes'
  BY <1>1, <1>3 DEF deregisterWaiter, raftVars, Shapes
<1>5. EmptyUntilSent'
  BY <1>1 DEF deregisterWaiter, return, EmptyUntilSent, Shapes
<1>6. OutcomeIsOwn'
  BY Kinds DEF deregisterWaiter, return, OutcomeIsOwn, Shapes
<1>7. WaitersMatchLog' /\ RegisteredOnce'
  BY <1>1 DEF deregisterWaiter, raftVars, WaitersMatchLog, RegisteredOnce
<1> QED
  BY <1>4, <1>5, <1>6, <1>7

\* A follower's log changes, or it becomes the leader: it has no waiters.
LEMMA FollowerStep ==
  ASSUME WaitersInv, lead \/ \E k \in applied..Len(log) : overwrite(k)
  PROVE  WaitersInv'
<1> USE DEF WaitersInv
<1>1. DOMAIN waiters = {} /\ UNCHANGED <<callerVars, applied, waiters>>
  BY DEF lead, overwrite, WaitersMatchLog
<1>2. log' \in Seq(Caller \cup {foreign}) /\ applied \in 0..Len(log')
  <2>1. CASE lead
    BY <2>1 DEF lead, Shapes
  <2>2. ASSUME NEW k \in applied..Len(log), overwrite(k)
        PROVE  log' \in Seq(Caller \cup {foreign}) /\ applied \in 0..Len(log')
    <3>1. k \in 0..Len(log) /\ applied <= k
      BY <2>2 DEF Shapes
    <3>2. SubSeq(log, 1, k) \in Seq(Caller \cup {foreign}) /\ Len(SubSeq(log, 1, k)) = k
      BY <3>1 DEF Shapes
    <3> QED
      BY <2>2, <3>1, <3>2 DEF overwrite, Shapes
  <2> QED
    BY <2>1, <2>2
<1>3. Shapes'
  BY <1>1, <1>2 DEF callerVars, Shapes
<1> QED
  BY <1>1, <1>3 DEF callerVars, WaitersMatchLog, RegisteredOnce, EmptyUntilSent, OutcomeIsOwn

\* Every step keeps the invariant.
LEMMA WaitersStep == WaitersInv /\ [Next]_vars => WaitersInv'
<1> SUFFICES ASSUME WaitersInv, [Next]_vars PROVE WaitersInv'
  OBVIOUS
<1>1. CASE \E c \in Caller : caller(c)
  BY <1>1, CallerStep
<1>2. CASE \E c \in Caller : handlePropose(c)
  BY <1>2, HandlePropose
<1>3. CASE \E k \in applied + 1..Len(log) : applyCommitted(k)
  BY <1>3, ApplyCommitted
<1>4. CASE stepDown
  BY <1>4, StepDown
<1>5. CASE lead \/ \E k \in applied..Len(log) : overwrite(k)
  BY <1>5, FollowerStep
<1>6. CASE \E c \in Caller : deregisterWaiter(c)
  BY <1>6, DeregisterWaiter
<1>7. CASE loopReturns \/ Stop \/ UNCHANGED vars
  BY <1>7 DEF loopReturns, Stop, vars, callerVars, raftVars, WaitersInv, Shapes,
              WaitersMatchLog, RegisteredOnce, EmptyUntilSent, OutcomeIsOwn
<1> QED
  BY <1>1, <1>2, <1>3, <1>4, <1>5, <1>6, <1>7 DEF Next, loop

\* The invariant holds in every state a node and its callers reach.
LEMMA WaitersInvariant == Spec => []WaitersInv
BY WaitersInit, WaitersStep, PTL DEF Spec

\* However often leadership and the log change under a call of Propose, the
\* result it returns is the one of its own command (applyCommitted looks the
\* waiter up by index alone, failWaiters clears them all).
THEOREM ResultsAreOwn == Spec => []ResultIsOwn
<1>1. WaitersInv => ResultIsOwn
  BY DEF WaitersInv, OutcomeIsOwn, ResultIsOwn
<1> QED
  BY <1>1, WaitersInvariant, PTL

\* No send of the event loop ever finds a full channel: the sends of
\* applyCommitted and failWaiters, outside any select, cannot stop the node.
THEOREM LoopIsFree == Spec => []LoopNeverBlocks
<1>1. WaitersInv => LoopNeverBlocks
  BY DEF WaitersInv, EmptyUntilSent, LoopNeverBlocks, roomFor
<1> QED
  BY <1>1, WaitersInvariant, PTL

\* The registered waiters stand at unapplied indexes that hold their callers'
\* commands, and a follower has none.
THEOREM WaitersFollowLog == Spec => []WaitersMatchLog
<1>1. WaitersInv => WaitersMatchLog
  BY DEF WaitersInv
<1> QED
  BY <1>1, WaitersInvariant, PTL
=============================================================================

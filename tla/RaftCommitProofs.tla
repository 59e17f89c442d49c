-------------------------- MODULE RaftCommitProofs ---------------------------
(****************************************************************************)
(* The past of RaftPast after a step.  Whatever a step does, if it moves    *)
(* logs as RaftLogProofs shows and the rest as RaftEffectProofs shows, then *)
(* a past that fits the state before it extends to one that fits after it.  *)
(* Then what such a past implies of the state it fits.                      *)
(****************************************************************************)
EXTENDS RaftElectionProofs, RaftPast

------------------------------------------------------------------------------
(* Logs and entries                                                         *)

\* A log that agrees beyond an entry has it.
LEMMA HoldsAgree ==
    ASSUME NEW a \in Seq(Entry), NEW b \in Seq(Entry), NEW k \in Nat, agree(a, b, k),
           NEW i, NEW t, holds(a, i, t), i <= k
    PROVE  holds(b, i, t)
<1>1. Len(a) \in Nat /\ Len(b) \in Nat /\ k <= Len(b) /\ \A j \in 1..k : a[j] = b[j]
  BY Zenon, LenFacts DEF agree
<1>2. i \in 1..k /\ i \in 1..Len(b) /\ a[i].term = t
  BY <1>1 DEF holds
<1> QED
  BY Zenon, <1>1, <1>2 DEF holds

\* An extension of a log has all its entries.
LEMMA HoldsExtends ==
    ASSUME NEW a \in Seq(Entry), NEW b \in Seq(Entry), agree(a, b, Len(a)),
           NEW i, NEW t, holds(a, i, t)
    PROVE  holds(b, i, t)
<1>1. Len(a) \in Nat
  BY Zenon, LenFacts
<1>2. i <= Len(a)
  BY <1>1 DEF holds
<1> QED
  BY ZenonT(30), <1>1, <1>2, HoldsAgree

\* An entry of a traced log is one of the leader of its term.
LEMMA HoldsTraced ==
    ASSUME NEW led \in [Nat -> Seq(Entry)], NEW a \in Seq(Entry), Traced(led, a),
           NEW i, NEW t, holds(a, i, t)
    PROVE  agree(a, led[t], i) /\ holds(led[t], i, t) /\ i \in Nat /\ t \in Nat
<1>1. i \in 1..Len(a) /\ a[i].term = t
  BY Zenon DEF holds
<1>2. agree(a, led[t], i)
  BY Zenon, <1>1 DEF Traced
<1>3. t \in Nat /\ i \in Nat /\ i <= i
  BY SMTT(30), <1>1, EntryTerm
<1>4. led[t] \in Seq(Entry)
  BY Zenon, <1>3
<1>5. holds(led[t], i, t)
  BY Zenon, <1>2, <1>3, <1>4, HoldsAgree
<1> QED
  BY Zenon, <1>2, <1>3, <1>5

\* Traced logs that have an entry in common agree up to it.
LEMMA HoldsBoth ==
    ASSUME NEW led \in [Nat -> Seq(Entry)], NEW a \in Seq(Entry), NEW b \in Seq(Entry),
           Traced(led, a), Traced(led, b), NEW i, NEW t, holds(a, i, t), holds(b, i, t)
    PROVE  agree(a, b, i)
<1>1. i \in 1..Len(a) /\ i \in 1..Len(b) /\ a[i].term = b[i].term
  BY Zenon DEF holds
<1>2. Len(b) \in Nat
  BY Zenon, LenFacts
<1>3. i <= Len(b)
  BY <1>1, <1>2
<1> QED
  BY Zenon, <1>1, <1>3, TracedMatch

\* An entry the leader has too, an accepted AppendEntries does not drop.
LEMMA MergeKeeps ==
    ASSUME NEW led \in [Nat -> Seq(Entry)], NEW a \in Seq(Entry), NEW b \in Seq(Entry),
           NEW new \in Seq(Entry), Traced(led, a), Traced(led, b), merges(a, new, b),
           NEW i, NEW t, holds(a, i, t), holds(b, i, t)
    PROVE  holds(new, i, t)
<1>1. i \in Nat /\ i <= i
  <2>1. i \in Nat
    BY Zenon, HoldsTraced
  <2> QED
    BY <2>1
<1>2. agree(a, b, i)
  BY Zenon, HoldsBoth
<1>3. agree(new, b, i)
  BY Zenon, <1>1, <1>2 DEF merges
<1>4. agree(b, new, i)
  BY ZenonT(30), <1>3, AgreeTrans
<1> QED
  BY Zenon, <1>1, <1>4, HoldsAgree

------------------------------------------------------------------------------
(* A step, and the history after it                                         *)

\* The log each node has in its term after the step is recorded.
Advanced(snap, snap2) ==
    /\ snap2 \in [Node -> [Nat -> Seq(Entry)]]
    /\ \A p \in Node : \A t \in Nat :
          snap2[p][t] = IF currentTerm'[p] = t THEN log'[p] ELSE snap[p][t]

\* A step between states that the histories own, led, snap and own2, led2, snap2 fit.
Advance(own, led, snap, own2, led2, snap2) ==
    /\ StepFrom(own, led) /\ LogMoves(own, led) /\ Grown(own, led, own2, led2)
    /\ LogInv(own2, led2)' /\ CommitInv(own, led, snap) /\ Advanced(snap, snap2)

\* The types that the lemmas below draw on.
LEMMA AdvanceTypes ==
    ASSUME NEW own, NEW led, NEW snap, NEW own2, NEW led2, NEW snap2,
           Advance(own, led, snap, own2, led2, snap2)
    PROVE  /\ own \in [Nat -> Node \cup {Nil}] /\ led \in [Nat -> Seq(Entry)]
           /\ own2 \in [Nat -> Node \cup {Nil}] /\ led2 \in [Nat -> Seq(Entry)]
           /\ snap \in [Node -> [Nat -> Seq(Entry)]]
           /\ snap2 \in [Node -> [Nat -> Seq(Entry)]]
           /\ \A n \in Node : /\ log[n] \in Seq(Entry) /\ log'[n] \in Seq(Entry)
                              /\ currentTerm[n] \in Nat /\ currentTerm'[n] \in Nat
                              /\ currentTerm'[n] >= currentTerm[n]
                              /\ Traced(led, log[n])
           /\ \A t \in Nat : Traced(led, led[t])
BY ZenonT(30) DEF Advance, StepFrom, LogInv, History, LogsTraced, ElectionInv, TypeGroups, LogOK,
   ElectionOK, ElectionStep, VotesKept, CommitInv, Snapshots, Advanced

\* Every leader's log extends the one before the step.
LEMMA AdvanceExtends ==
    ASSUME NEW own, NEW led, NEW snap, NEW own2, NEW led2, NEW snap2,
           Advance(own, led, snap, own2, led2, snap2)
    PROVE  Extends(own, led, own2, led2)
<1> SUFFICES ASSUME NEW t \in Nat
             PROVE  (own[t] # Nil => own2[t] = own[t]) /\ agree(led[t], led2[t], Len(led[t]))
  BY Zenon DEF Extends
<1>1. led[t] \in Seq(Entry)
  BY Zenon, AdvanceTypes
<1>2. agree(led[t], led[t], Len(led[t]))
  BY Zenon, <1>1, AgreeSelf
<1> QED
  BY <1>2 DEF Advance, Grown

\* How the log of one node moves, seen from its entries: it keeps those that the
\* leader it follows, if any, has too.
LEMMA LogKeeps ==
    ASSUME NEW own, NEW led, NEW snap, NEW own2, NEW led2, NEW snap2,
           Advance(own, led, snap, own2, led2, snap2), NEW p \in Node,
           NEW i, NEW t, holds(log[p], i, t),
           own[currentTerm'[p]] # Nil => holds(led[currentTerm'[p]], i, t)
    PROVE  holds(log'[p], i, t)
<1> DEFINE u == currentTerm'[p]
           a == log[p]
           new == log'[p]
           lead == led[u]
<1>1. /\ a \in Seq(Entry) /\ new \in Seq(Entry) /\ lead \in Seq(Entry)
      /\ led \in [Nat -> Seq(Entry)] /\ Traced(led, a) /\ Traced(led, lead)
  BY Zenon, AdvanceTypes
<1>2. agree(a, new, Len(a)) \/ (own[u] # Nil /\ merges(a, new, lead))
  BY Zenon DEF Advance, LogMoves
<1>3. holds(a, i, t) /\ (own[u] # Nil => holds(lead, i, t))
  BY Zenon
<1> HIDE DEF u, a, new, lead
<1>4. holds(new, i, t)
  BY ZenonT(30), <1>1, <1>2, <1>3, HoldsExtends, MergeKeeps
<1> QED
  BY Zenon, <1>4 DEF new

\* What a node had in a term it has in the record after the step.
LEMMA SnapshotKeeps ==
    ASSUME NEW own, NEW led, NEW snap, NEW own2, NEW led2, NEW snap2,
           Advance(own, led, snap, own2, led2, snap2), NEW p \in Node,
           NEW i, NEW t \in Nat, holds(snap[p][t], i, t)
    PROVE  holds(snap2[p][t], i, t)
<1>1. CASE currentTerm'[p] # t
  BY Zenon, <1>1 DEF Advance, Advanced
<1>2. CASE currentTerm'[p] = t
  <2>1. snap2[p][t] = log'[p]
    BY Zenon, <1>2 DEF Advance, Advanced
  <2>2. currentTerm[p] \in Nat /\ currentTerm[p] <= t
    BY Zenon, <1>2, AdvanceTypes
  <2>3. currentTerm[p] = t
    <3> SUFFICES ASSUME currentTerm[p] # t PROVE FALSE
      BY Zenon
    <3>1. t > currentTerm[p]
      BY <2>2
    <3>2. snap[p][t] = <<>>
      BY Zenon, <3>1 DEF Advance, CommitInv, Snapshots
    <3> QED
      BY <3>2 DEF holds
  <2>4. snap[p][t] = log[p]
    BY Zenon, <2>3 DEF Advance, CommitInv, Snapshots
  <2>5. holds(log[p], i, t)
    BY Zenon, <2>4
  <2>6. holds(led[t], i, t)
    <3>1. /\ led \in [Nat -> Seq(Entry)] /\ log[p] \in Seq(Entry) /\ Traced(led, log[p])
      BY Zenon, AdvanceTypes
    <3> QED
      BY Zenon, <2>5, <3>1, HoldsTraced
  <2>7. holds(log'[p], i, t)
    BY Zenon, <1>2, <2>5, <2>6, LogKeeps
  <2> QED
    BY Zenon, <2>1, <2>7
<1> QED
  BY Zenon, <1>1, <1>2

\* What is chosen stays chosen and what is lost stays lost.
LEMMA ChosenLostStep ==
    ASSUME NEW own, NEW led, NEW snap, NEW own2, NEW led2, NEW snap2,
           Advance(own, led, snap, own2, led2, snap2), NEW i, NEW t \in Nat
    PROVE  /\ Chosen(snap, i, t) => Chosen(snap2, i, t)
           /\ Lost(snap, i, t) => Lost(snap2, i, t)'
<1>1. ASSUME Chosen(snap, i, t) PROVE Chosen(snap2, i, t)
  <2>1. PICK Q \in Majorities : \A p \in Q : holds(snap[p][t], i, t)
    BY Zenon, <1>1 DEF Chosen
  <2>2. \A p \in Q : holds(snap2[p][t], i, t)
    BY Zenon, <2>1, SnapshotKeeps DEF Majorities
  <2> QED
    BY Zenon, <2>2 DEF Chosen
<1>2. ASSUME Lost(snap, i, t) PROVE Lost(snap2, i, t)'
  <2>1. PICK Q \in Majorities : \A p \in Q : currentTerm[p] > t /\ ~holds(snap[p][t], i, t)
    BY Zenon, <1>2 DEF Lost
  <2>2. ASSUME NEW p \in Q PROVE currentTerm'[p] > t /\ ~holds(snap2[p][t], i, t)
    <3>1. p \in Node /\ currentTerm[p] > t
      BY Zenon, <2>1 DEF Majorities
    <3>2. currentTerm'[p] > t /\ currentTerm'[p] # t
      <4>1. /\ currentTerm[p] \in Nat /\ currentTerm'[p] \in Nat
            /\ currentTerm'[p] >= currentTerm[p]
        BY Zenon, <3>1, AdvanceTypes
      <4> QED
        BY <3>1, <4>1
    <3>3. snap2[p][t] = snap[p][t]
      BY Zenon, <3>1, <3>2 DEF Advance, Advanced
    <3> QED
      BY Zenon, <2>1, <3>2, <3>3
  <2> QED
    BY Zenon, <2>2 DEF Lost, Majorities, quorum
<1> QED
  BY Zenon, <1>1, <1>2

\* What a node has it keeps, unless the entry is lost: the leader whose request it
\* accepts has the entry too.
LEMMA EntryKept ==
    ASSUME NEW own, NEW led, NEW snap, NEW own2, NEW led2, NEW snap2,
           Advance(own, led, snap, own2, led2, snap2), NEW p \in Node,
           NEW i \in Nat, NEW t \in Nat, t <= currentTerm[p], holds(log[p], i, t)
    PROVE  holds(log'[p], i, t) \/ Lost(snap, i, t)
<1> DEFINE u == currentTerm'[p]
<1>1. u \in Nat /\ t <= u
  <2>1. /\ currentTerm[p] \in Nat /\ currentTerm'[p] \in Nat
        /\ currentTerm'[p] >= currentTerm[p]
    BY Zenon, AdvanceTypes
  <2> QED
    BY <2>1
<1>2. CASE t = u
  <2>1. /\ led \in [Nat -> Seq(Entry)] /\ log[p] \in Seq(Entry) /\ Traced(led, log[p])
    BY Zenon, AdvanceTypes
  <2>2. holds(led[t], i, t)
    BY Zenon, <2>1, HoldsTraced
  <2> QED
    BY ZenonT(30), <1>2, <2>2, LogKeeps
<1>3. CASE t # u
  <2>1. t < u
    BY <1>1, <1>3
  <2>2. own[u] # Nil => holds(led[u], i, t) \/ Lost(snap, i, t)
    BY Zenon, <1>1, <2>1 DEF Advance, CommitInv, Safe
  <2> QED
    BY Zenon, <2>2, LogKeeps
<1> QED
  BY Zenon, <1>2, <1>3

\* The records after the step are those of the nodes' logs and terms after it.
LEMMA SnapshotsStep ==
    ASSUME NEW own, NEW led, NEW snap, NEW own2, NEW led2, NEW snap2,
           Advance(own, led, snap, own2, led2, snap2)
    PROVE  Snapshots(snap2)'
<1>1. \A p \in Node : /\ currentTerm[p] \in Nat /\ currentTerm'[p] \in Nat
                      /\ currentTerm'[p] >= currentTerm[p]
  BY Zenon, AdvanceTypes
<1>2. ASSUME NEW p \in Node PROVE snap2[p][currentTerm'[p]] = log'[p]
  BY Zenon, <1>1 DEF Advance, Advanced
<1>3. ASSUME NEW p \in Node, NEW t \in Nat, t > currentTerm'[p] PROVE snap2[p][t] = <<>>
  <2>1. t > currentTerm[p] /\ t # currentTerm'[p]
    BY <1>1, <1>3
  <2>2. snap2[p][t] = snap[p][t]
    BY Zenon, <2>1 DEF Advance, Advanced
  <2> QED
    BY Zenon, <2>1, <2>2 DEF Advance, CommitInv, Snapshots
<1>4. snap2 \in [Node -> [Nat -> Seq(Entry)]]
  BY Zenon DEF Advance, Advanced
<1> QED
  BY Zenon, <1>2, <1>3, <1>4 DEF Snapshots

\* No accepted AppendEntries drops what may still be chosen.
LEMMA RetainedStep ==
    ASSUME NEW own, NEW led, NEW snap, NEW own2, NEW led2, NEW snap2,
           Advance(own, led, snap, own2, led2, snap2)
    PROVE  Retained(snap2)'
<1> SUFFICES ASSUME NEW p \in Node, NEW t \in Nat, NEW i \in Nat, t < currentTerm'[p],
                    holds(snap2[p][t], i, t)
             PROVE  holds(log'[p], i, t) \/ Lost(snap2, i, t)'
  BY Zenon DEF Retained
<1>1. /\ currentTerm[p] \in Nat /\ currentTerm'[p] \in Nat
      /\ currentTerm'[p] >= currentTerm[p]
  BY Zenon, AdvanceTypes
<1>2. holds(snap[p][t], i, t)
  <2>1. currentTerm'[p] # t
    BY <1>1
  <2>2. snap2[p][t] = snap[p][t]
    BY Zenon, <2>1 DEF Advance, Advanced
  <2> QED
    BY Zenon, <2>2
<1>3. t <= currentTerm[p]
  <2> SUFFICES ASSUME t > currentTerm[p] PROVE FALSE
    BY <1>1
  <2>1. snap[p][t] = <<>>
    BY Zenon DEF Advance, CommitInv, Snapshots
  <2> QED
    BY SMTT(30), <1>2, <2>1 DEF holds
<1>4. holds(log[p], i, t) \/ Lost(snap, i, t)
  <2>1. CASE t = currentTerm[p]
    BY Zenon, <1>2, <2>1 DEF Advance, CommitInv, Snapshots
  <2>2. CASE t < currentTerm[p]
    BY Zenon, <1>2, <2>2 DEF Advance, CommitInv, Retained
  <2> QED
    BY SMTT(30), <1>1, <1>3, <2>1, <2>2
<1>5. holds(log'[p], i, t) \/ Lost(snap, i, t)
  BY Zenon, <1>3, <1>4, EntryKept
<1> QED
  BY ZenonT(30), <1>5, ChosenLostStep

\* A leader's election: either a voter had the entry, and then so does the leader,
\* or the voters are a majority that left the term without it.
LEMMA SafeStep ==
    ASSUME NEW own, NEW led, NEW snap, NEW own2, NEW led2, NEW snap2,
           Advance(own, led, snap, own2, led2, snap2)
    PROVE  Safe(own2, led2, snap2)'
<1> SUFFICES ASSUME NEW u \in Nat, NEW t \in Nat, NEW i \in Nat, own2[u] # Nil, t < u
             PROVE  holds(led2[u], i, t) \/ Lost(snap2, i, t)'
  BY Zenon DEF Safe
<1>1. led \in [Nat -> Seq(Entry)] /\ led2 \in [Nat -> Seq(Entry)]
  BY Zenon, AdvanceTypes
<1> SUFFICES holds(led2[u], i, t) \/ Lost(snap, i, t)
  BY Zenon, ChosenLostStep
<1>2. CASE own[u] # Nil
  <2>1. holds(led[u], i, t) \/ Lost(snap, i, t)
    BY Zenon, <1>2 DEF Advance, CommitInv, Safe
  <2>2. led[u] \in Seq(Entry) /\ led2[u] \in Seq(Entry) /\ agree(led[u], led2[u], Len(led[u]))
    BY ZenonT(30), <1>1, AdvanceExtends DEF Extends
  <2> QED
    BY ZenonT(30), <2>1, <2>2, HoldsExtends
<1>3. CASE own[u] = Nil
  <2>1. PICK n \in Node :
           /\ led2[u] = log'[n] /\ role[n] = "candidate" /\ currentTerm[n] = u
           /\ agree(log[n], log'[n], Len(log[n]))
           /\ \E Q \in Majorities : \A p \in Q : Evidence(n, p, u)
    BY ZenonT(30), <1>3 DEF Advance, Grown
  <2>2. PICK Q \in Majorities : \A p \in Q : Evidence(n, p, u)
    BY Zenon, <2>1
  <2>3. CASE \E p \in Q : holds(snap[p][t], i, t)
    <3>1. PICK p \in Q : holds(snap[p][t], i, t)
      BY Zenon, <2>3
    <3>2. p \in Node /\ Evidence(n, p, currentTerm[n]) /\ t < currentTerm[n]
      BY Zenon, <2>1, <2>2 DEF Majorities
    <3>3. holds(log[n], i, t) \/ Lost(snap, i, t)
      BY ZenonT(30), <2>1, <3>1, <3>2 DEF Advance, CommitInv, VotersHeld
    <3>4. log[n] \in Seq(Entry) /\ log'[n] \in Seq(Entry)
      BY Zenon, AdvanceTypes
    <3>5. holds(log'[n], i, t) \/ Lost(snap, i, t)
      BY ZenonT(30), <2>1, <3>3, <3>4, HoldsExtends
    <3> QED
      BY Zenon, <2>1, <3>5
  <2>4. CASE \A p \in Q : ~holds(snap[p][t], i, t)
    <3>1. ASSUME NEW p \in Q PROVE currentTerm[p] > t
      <4>1. p \in Node /\ Evidence(n, p, u)
        BY Zenon, <2>2 DEF Majorities
      <4>2. Cast(n, p, u)
        BY Zenon, <4>1 DEF Advance, StepFrom, ElectionInv, ElectionCore, EvidenceCast
      <4>3. currentTerm[p] \in Nat
        BY Zenon, <4>1, AdvanceTypes
      <4> QED
        BY SMTT(30), <4>2, <4>3 DEF Cast
    <3> QED
      BY Zenon, <2>4, <3>1 DEF Lost
  <2> QED
    BY Zenon, <2>3, <2>4
<1> QED
  BY Zenon, <1>2, <1>3

------------------------------------------------------------------------------
(* Votes                                                                    *)

\* The terms of a traced log do not go down.
LEMMA TermsMonotone ==
    ASSUME NEW own, NEW led, History(own, led), NEW a \in Seq(Entry), Traced(led, a),
           NEW i \in 1..Len(a), NEW j \in 1..Len(a), i <= j
    PROVE  a[i].term <= a[j].term
<1> DEFINE t == a[j].term
<1>1. t \in Nat /\ j \in Nat /\ Len(a) \in Nat /\ led[t] \in Seq(Entry)
  BY Zenon, EntryTerm, LenFacts DEF History
<1>2. agree(a, led[t], j) /\ TermsUpTo(led[t], t)
  BY Zenon, <1>1 DEF Traced, History
<1> HIDE DEF t
<1>3. i \in 1..j /\ i \in 1..Len(led[t])
  BY SMTT(30), <1>1, <1>2, LenFacts DEF agree
<1>4. a[i] = led[t][i] /\ led[t][i].term <= t
  BY ZenonT(30), <1>2, <1>3 DEF agree, TermsUpTo
<1> QED
  BY Zenon, <1>4 DEF t

\* The last entry of a nonempty traced log: no earlier one has a later term, and
\* the whole log is the beginning of the log of the leader of that term.
LEMMA LastTerm ==
    ASSUME NEW own, NEW led, History(own, led), NEW a \in Seq(Entry), Traced(led, a),
           NEW i, NEW t, holds(a, i, t), NEW lt, lt = termAt(a, Len(a))
    PROVE  /\ i \in 1..Len(a) /\ Len(a) \in 1..Len(a) /\ t \in Nat /\ lt \in Nat
           /\ a[Len(a)].term = lt /\ t <= lt /\ agree(a, led[lt], Len(a))
<1>1. i \in 1..Len(a) /\ a[i].term = t /\ Len(a) \in Nat
  BY Zenon, LenFacts DEF holds
<1>2. Len(a) \in 1..Len(a) /\ i <= Len(a)
  BY <1>1
<1>3. a[Len(a)].term = lt
  BY Zenon, <1>2 DEF termAt
<1>4. t \in Nat /\ lt \in Nat
  BY Zenon, <1>1, <1>2, <1>3, EntryTerm
<1>5. t <= lt
  BY ZenonT(30), <1>1, <1>2, <1>3, TermsMonotone
<1>6. agree(a, led[lt], Len(a))
  BY Zenon, <1>2, <1>3 DEF Traced
<1> QED
  BY ZenonT(30), <1>1, <1>2, <1>3, <1>4, <1>5, <1>6

\* A log that is up to date has the entry too, unless the leader of a later term
\* did not.
LEMMA UpToDateHolds ==
    ASSUME NEW own, NEW led, History(own, led), NEW a \in Seq(Entry), NEW b \in Seq(Entry),
           Traced(led, a), Traced(led, b), upToDate(a, b), NEW i, NEW t, holds(b, i, t)
    PROVE  holds(a, i, t) \/ \E u \in Nat : own[u] # Nil /\ t < u /\ ~holds(led[u], i, t)
<1>1. PICK la, lb : la = termAt(a, Len(a)) /\ lb = termAt(b, Len(b))
  BY Zenon
<1>2. /\ i \in 1..Len(b) /\ t \in Nat /\ lb \in Nat /\ b[Len(b)].term = lb /\ t <= lb
      /\ agree(b, led[lb], Len(b)) /\ Len(a) \in Nat /\ Len(b) \in Nat
  BY SMTT(30), <1>1, LastTerm, LenFacts
<1>3. la > lb \/ (la = lb /\ Len(a) >= Len(b))
  BY Zenon, <1>1 DEF upToDate
<1>4. Len(a) \in 1..Len(a) /\ la = a[Len(a)].term
  <2>1. CASE la > lb
    <3>1. la # 0
      BY SMTT(30), <1>2, <2>1
    <3> QED
      BY ZenonT(30), <1>1, <1>2, <3>1 DEF termAt
  <2>2. CASE la = lb /\ Len(a) >= Len(b)
    BY SMTT(30), <1>1, <1>2, <2>2 DEF termAt
  <2> QED
    BY Zenon, <1>3, <2>1, <2>2
<1>5. la \in Nat /\ led \in [Nat -> Seq(Entry)]
  BY Zenon, <1>4, EntryTerm DEF History
<1>6. agree(a, led[la], Len(a)) /\ led[la] \in Seq(Entry)
  BY Zenon, <1>4, <1>5 DEF Traced
<1>7. CASE la = t
  <2>1. lb = t /\ Len(a) >= Len(b) /\ i <= Len(b) /\ i \in Nat
    <3>1. t \in Nat /\ lb \in Nat /\ t <= lb
      BY Zenon, <1>2
    <3>2. la = lb /\ Len(a) >= Len(b)
      BY SMTT(30), <1>3, <1>7, <3>1
    <3>3. i \in 1..Len(b) /\ Len(b) \in Nat
      BY Zenon, <1>2
    <3> QED
      BY SMTT(30), <1>7, <3>2, <3>3
  <2>2. i <= Len(a)
    BY SMTT(30), <1>2, <2>1
  <2>3. holds(led[t], i, t)
    BY Zenon, <1>5, HoldsTraced
  <2>4. agree(led[la], a, Len(a))
    BY ZenonT(30), <1>6, AgreeTrans
  <2> QED
    BY ZenonT(30), <1>2, <1>6, <1>7, <2>2, <2>3, <2>4, HoldsAgree
<1>8. CASE la # t
  <2>1. t < la
    BY SMTT(30), <1>2, <1>3, <1>5, <1>8
  <2>2. own[la] # Nil
    <3> SUFFICES ASSUME own[la] = Nil PROVE FALSE
      BY Zenon
    <3>1. led[la] = <<>>
      BY Zenon, <1>5 DEF History
    <3> QED
      BY SMTT(30), <1>4, <1>6, <3>1 DEF agree
  <2>3. ASSUME holds(led[la], i, t) PROVE holds(a, i, t)
    <3>1. i \in 1..Len(led[la]) /\ led[la][i].term = t /\ Len(led[la]) \in Nat
      BY ZenonT(30), <1>6, <2>3, LenFacts DEF holds
    <3>2. Len(a) \in 1..Len(led[la]) /\ led[la][Len(a)].term = la
      BY SMTT(30), <1>2, <1>4, <1>6, <3>1 DEF agree
    <3>3. i <= Len(a)
      <4> SUFFICES ASSUME Len(a) <= i PROVE FALSE
        BY SMTT(30), <1>2, <3>1
      <4>1. Traced(led, led[la])
        BY Zenon, <1>5 DEF History
      <4>2. led[la][Len(a)].term <= led[la][i].term
        BY ZenonT(30), <1>6, <3>1, <3>2, <4>1, TermsMonotone
      <4> QED
        BY SMTT(30), <1>2, <1>5, <2>1, <3>1, <3>2, <4>2
    <3>4. agree(led[la], a, Len(a))
      BY Zenon, <1>6, AgreeTrans
    <3> QED
      BY ZenonT(30), <1>2, <1>6, <2>3, <3>3, <3>4, HoldsAgree
  <2> QED
    BY ZenonT(30), <1>5, <2>1, <2>2, <2>3
<1> QED
  BY ZenonT(30), <1>7, <1>8

\* A candidate still has what its voters had, those of the step included.
LEMMA VotersHeldStep ==
    ASSUME NEW own, NEW led, NEW snap, NEW own2, NEW led2, NEW snap2,
           Advance(own, led, snap, own2, led2, snap2), VotesChecked
    PROVE  VotersHeld(snap2)'
<1> SUFFICES ASSUME NEW c \in Node, NEW p \in Node, NEW t \in Nat, NEW i \in Nat,
                    role'[c] = "candidate", Evidence(c, p, currentTerm[c])',
                    t < currentTerm'[c], holds(snap2[p][t], i, t)
             PROVE  holds(log'[c], i, t) \/ Lost(snap2, i, t)'
  BY Zenon DEF VotersHeld
<1>1. /\ currentTerm[p] \in Nat /\ currentTerm'[p] \in Nat /\ currentTerm'[c] \in Nat
      /\ log'[c] \in Seq(Entry) /\ log'[p] \in Seq(Entry)
  BY Zenon, AdvanceTypes
<1>2. currentTerm'[p] >= currentTerm'[c] /\ currentTerm'[p] > t
  <2>1. Cast(c, p, currentTerm[c])'
    BY Zenon, <1>1 DEF Advance, StepFrom, ElectionInv, ElectionCore, EvidenceCast
  <2> QED
    BY SMTT(30), <1>1, <2>1 DEF Cast
<1>3. CASE /\ role[c] = "candidate" /\ currentTerm'[c] = currentTerm[c]
           /\ Evidence(c, p, currentTerm[c])
  <2>1. currentTerm'[p] # t
    BY <1>1, <1>2
  <2>2. holds(snap[p][t], i, t)
    <3>1. snap2[p][t] = snap[p][t]
      BY Zenon, <2>1 DEF Advance, Advanced
    <3> QED
      BY Zenon, <3>1
  <2>3. holds(log[c], i, t) \/ Lost(snap, i, t)
    BY Zenon, <1>3, <2>2 DEF Advance, CommitInv, VotersHeld
  <2>4. log'[c] = log[c]
    BY Zenon DEF Advance, LogMoves
  <2> QED
    BY ZenonT(30), <2>3, <2>4, ChosenLostStep
<1>4. CASE upToDate(log'[c], log'[p])
  <2>1. holds(log'[p], i, t) \/ Lost(snap2, i, t)'
    <3>1. Retained(snap2)'
      BY Zenon, RetainedStep
    <3> QED
      BY Zenon, <1>2, <3>1 DEF Retained
  <2>2. History(own2, led2) /\ Traced(led2, log'[c]) /\ Traced(led2, log'[p])
    BY Zenon DEF Advance, LogInv, LogsTraced, History, Traced, TermsUpTo
  <2>3. CASE holds(log'[p], i, t)
    <3>1. \/ holds(log'[c], i, t)
          \/ \E u \in Nat : own2[u] # Nil /\ t < u /\ ~holds(led2[u], i, t)
      BY ZenonT(30), <1>1, <1>4, <2>2, <2>3, UpToDateHolds
    <3>2. Safe(own2, led2, snap2)'
      BY Zenon, SafeStep
    <3> QED
      BY Zenon, <3>1, <3>2 DEF Safe
  <2> QED
    BY Zenon, <2>1, <2>3
<1> QED
  BY Zenon, <1>3, <1>4 DEF VotesChecked

------------------------------------------------------------------------------
(* Progress                                                                 *)

\* Agreement survives extending the second log.
LEMMA AgreeExtends ==
    ASSUME NEW a, NEW b \in Seq(Entry), NEW c \in Seq(Entry), NEW k \in Nat,
           agree(a, b, k), agree(b, c, Len(b))
    PROVE  agree(a, c, k)
<1>1. Len(b) \in Nat /\ Len(c) \in Nat /\ k <= Len(b)
  BY Zenon, LenFacts DEF agree
<1>2. agree(b, c, k)
  BY Zenon, <1>1, AgreeLower
<1> QED
  BY Zenon, <1>2, AgreeTrans

\* What a node has recorded for a term agrees as far with the leader of the term
\* after a step as before it.
LEMMA AgreementKept ==
    ASSUME NEW own, NEW led, NEW snap, NEW own2, NEW led2, NEW snap2,
           Advance(own, led, snap, own2, led2, snap2), NEW p \in Node, NEW t \in Nat,
           NEW k \in Nat, agree(snap[p][t], led[t], k)
    PROVE  agree(snap2[p][t], led2[t], k)
<1>1. /\ led \in [Nat -> Seq(Entry)] /\ led2 \in [Nat -> Seq(Entry)]
      /\ log[p] \in Seq(Entry) /\ log'[p] \in Seq(Entry)
      /\ currentTerm[p] \in Nat /\ currentTerm'[p] \in Nat /\ currentTerm'[p] >= currentTerm[p]
  BY Zenon, AdvanceTypes
<1>2. led[t] \in Seq(Entry) /\ led2[t] \in Seq(Entry) /\ agree(led[t], led2[t], Len(led[t]))
  BY ZenonT(30), <1>1, AdvanceExtends DEF Extends
<1>3. agree(snap2[p][t], led[t], k)
  <2>1. CASE currentTerm'[p] # t
    <3>1. snap2[p][t] = snap[p][t]
      BY Zenon, <2>1 DEF Advance, Advanced
    <3> QED
      BY Zenon, <3>1
  <2>2. CASE currentTerm'[p] = t /\ currentTerm[p] = t
    <3>1. snap[p][t] = log[p] /\ snap2[p][t] = log'[p]
      BY Zenon, <2>2 DEF Advance, Advanced, CommitInv, Snapshots
    <3>2. agree(log[p], led[t], k)
      BY Zenon, <3>1
    <3>3. agree(log[p], log'[p], Len(log[p])) \/ merges(log[p], log'[p], led[t])
      BY Zenon, <2>2 DEF Advance, LogMoves
    <3>4. CASE agree(log[p], log'[p], Len(log[p]))
      <4>1. agree(led[t], log[p], k)
        BY Zenon, <3>2, AgreeTrans
      <4>2. agree(led[t], log'[p], k)
        BY ZenonT(30), <1>1, <3>4, <4>1, AgreeExtends
      <4> QED
        BY Zenon, <3>1, <4>2, AgreeTrans
    <3>5. CASE merges(log[p], log'[p], led[t])
      BY ZenonT(30), <3>1, <3>2, <3>5 DEF merges
    <3> QED
      BY Zenon, <3>3, <3>4, <3>5
  <2>3. CASE currentTerm'[p] = t /\ currentTerm[p] # t
    <3>1. t > currentTerm[p]
      <4>1. /\ currentTerm[p] \in Nat /\ currentTerm'[p] \in Nat
            /\ currentTerm'[p] >= currentTerm[p] /\ currentTerm'[p] # currentTerm[p]
        BY Zenon, <1>1, <2>3
      <4>2. currentTerm'[p] > currentTerm[p]
        BY <4>1
      <4> QED
        BY Zenon, <2>3, <4>2
    <3>2. snap[p][t] = <<>>
      BY Zenon, <3>1 DEF Advance, CommitInv, Snapshots
    <3>3. k = 0
      BY <3>2 DEF agree
    <3>4. snap2[p][t] = log'[p]
      BY Zenon, <2>3 DEF Advance, Advanced
    <3>5. Len(log'[p]) \in Nat /\ Len(led[t]) \in Nat
      BY Zenon, <1>1, <1>2, LenFacts
    <3> QED
      BY SMTT(30), <3>3, <3>4, <3>5 DEF agree
  <2> QED
    BY ZenonT(30), <2>1, <2>2, <2>3
<1> QED
  BY ZenonT(30), <1>2, <1>3, AgreeExtends

\* Every match index stays sound for the term it was reported in.
LEMMA MatchedStep ==
    ASSUME NEW own, NEW led, NEW snap, NEW own2, NEW led2, NEW snap2,
           Advance(own, led, snap, own2, led2, snap2), ProgressMoves(led)
    PROVE  Matched(led2, snap2)'
<1>1. /\ led \in [Nat -> Seq(Entry)] /\ led2 \in [Nat -> Seq(Entry)]
      /\ snap2 \in [Node -> [Nat -> Seq(Entry)]]
      /\ \A n \in Node : currentTerm'[n] \in Nat /\ currentTerm[n] \in Nat
  BY Zenon, AdvanceTypes
<1>2. messages \subseteq Message /\ messages' \subseteq Message
  BY Zenon DEF Advance, StepFrom, ElectionInv, TypeGroups, MessagesOK
<1>3. ASSUME NEW m \in messages, m.type = "append_resp", m.success
      PROVE  agree(snap2[m.src][m.reqTerm], led2[m.reqTerm], m.matchIndex)
  <2>1. m.src \in Node /\ m.reqTerm \in Nat /\ m.matchIndex \in Nat
    BY ZenonT(30), <1>2, <1>3, MessageFields DEF AppendEntriesResponse
  <2>2. agree(snap[m.src][m.reqTerm], led[m.reqTerm], m.matchIndex)
    BY ZenonT(30), <1>3 DEF Advance, CommitInv, Matched
  <2> QED
    BY ZenonT(30), <2>1, <2>2, AgreementKept
<1>4. ASSUME NEW l \in Node, NEW p \in Node, role'[l] = "leader"
      PROVE  agree(snap2[p][currentTerm'[l]], led2[currentTerm'[l]], matchIndex'[l][p])
  <2>1. CASE matchIndex'[l][p] = 0
    <3>1. snap2[p][currentTerm'[l]] \in Seq(Entry) /\ led2[currentTerm'[l]] \in Seq(Entry)
      BY Zenon, <1>1
    <3>2. \A a, b \in Seq(Entry) : agree(a, b, 0)
      BY LenFacts DEF agree
    <3> QED
      BY ZenonT(30), <2>1, <3>1, <3>2
  <2>2. CASE /\ role[l] = "leader" /\ currentTerm'[l] = currentTerm[l]
             /\ matchIndex'[l][p] = matchIndex[l][p]
    <3>1. agree(snap[p][currentTerm[l]], led[currentTerm[l]], matchIndex[l][p])
      BY ZenonT(30), <2>2 DEF Advance, CommitInv, Matched
    <3>2. matchIndex[l][p] \in Nat /\ currentTerm[l] \in Nat
      BY SMTT(30), <1>1 DEF Advance, StepFrom, ElectionInv, TypeGroups, LeaderOK
    <3>3. agree(snap2[p][currentTerm[l]], led2[currentTerm[l]], matchIndex[l][p])
      BY ZenonT(30), <3>1, <3>2, AgreementKept
    <3> QED
      BY ZenonT(30), <2>2, <3>3
  <2>3. ASSUME currentTerm'[l] = currentTerm[l], NEW m \in messages, m.type = "append_resp",
               m.success, m.src = p, m.reqTerm = currentTerm[l],
               m.matchIndex = matchIndex'[l][p]
        PROVE  agree(snap2[p][currentTerm'[l]], led2[currentTerm'[l]], matchIndex'[l][p])
    BY Zenon, <1>3, <2>3
  <2> QED
    BY SMTT(30), <1>4, <2>1, <2>2, <2>3 DEF ProgressMoves
<1>5. ASSUME NEW m \in messages', m.type = "append_resp", m.success
      PROVE  agree(snap2[m.src][m.reqTerm], led2[m.reqTerm], m.matchIndex)
  <2>1. CASE m \in messages
    BY ZenonT(30), <1>3, <1>5, <2>1
  <2>2. CASE /\ currentTerm'[m.src] = m.reqTerm
             /\ agree(log'[m.src], led[m.reqTerm], m.matchIndex)
    <3> DEFINE t == m.reqTerm
               k == m.matchIndex
               lg == snap2[m.src][t]
    <3>1. m.src \in Node /\ t \in Nat /\ k \in Nat
      BY ZenonT(30), <1>2, <1>5, MessageFields DEF AppendEntriesResponse
    <3>2. lg = log'[m.src]
      BY ZenonT(30), <2>2, <3>1 DEF Advance, Advanced
    <3>3. led[t] \in Seq(Entry) /\ led2[t] \in Seq(Entry) /\ agree(led[t], led2[t], Len(led[t]))
      BY ZenonT(30), <1>1, <3>1, AdvanceExtends DEF Extends
    <3>4. agree(lg, led[t], k)
      BY Zenon, <2>2, <3>2
    <3> HIDE DEF t, k, lg
    <3>5. agree(lg, led2[t], k)
      BY ZenonT(30), <3>1, <3>3, <3>4, AgreeExtends
    <3> QED
      BY Zenon, <3>5 DEF t, k, lg
  <2> QED
    BY ZenonT(30), <1>5, <2>1, <2>2 DEF ProgressMoves
<1> QED
  BY Zenon, <1>4, <1>5 DEF Matched

------------------------------------------------------------------------------
(* Commits                                                                  *)

\* A majority that had an entry in its term meets every majority that left the term.
LEMMA ChosenNotLost ==
    ASSUME NEW snap, NEW i, NEW t, Chosen(snap, i, t)
    PROVE  ~Lost(snap, i, t)
<1> SUFFICES ASSUME Lost(snap, i, t) PROVE FALSE
  BY Zenon
<1>1. PICK P \in Majorities : \A p \in P : holds(snap[p][t], i, t)
  BY Zenon DEF Chosen
<1>2. PICK Q \in Majorities : \A p \in Q : ~holds(snap[p][t], i, t)
  BY Zenon DEF Lost
<1>3. PICK p \in Node : p \in P /\ p \in Q
  BY ZenonT(30), MajoritiesMeet
<1> QED
  BY ZenonT(30), <1>1, <1>2, <1>3

\* Every later leader agrees with the leader of a chosen entry up to it.
LEMMA ChosenLeads ==
    ASSUME NEW own, NEW led, NEW snap, History(own, led), Safe(own, led, snap),
           NEW v \in Nat, NEW t \in Nat, Chosen(snap, v, t), holds(led[t], v, t),
           NEW u \in Nat, t <= u, own[u] # Nil
    PROVE  agree(led[t], led[u], v)
<1>1. /\ led \in [Nat -> Seq(Entry)] /\ led[t] \in Seq(Entry) /\ led[u] \in Seq(Entry)
      /\ Traced(led, led[t]) /\ Traced(led, led[u])
  BY Zenon DEF History
<1>2. holds(led[u], v, t)
  <2>1. CASE t = u
    BY Zenon, <2>1
  <2>2. CASE t # u
    <3>1. t < u
      BY <2>2
    <3> QED
      BY Zenon, <3>1, ChosenNotLost DEF Safe
  <2> QED
    BY ZenonT(30), <2>1, <2>2
<1> QED
  BY Zenon, <1>1, <1>2, HoldsBoth

\* A leader with an entry in its log is the leader of a term.
LEMMA HolderLeads ==
    ASSUME NEW own, NEW led, History(own, led), NEW t \in Nat, NEW v, NEW s,
           holds(led[t], v, s)
    PROVE  own[t] # Nil
<1> SUFFICES ASSUME own[t] = Nil PROVE FALSE
  BY Zenon
<1>1. led[t] = <<>>
  BY Zenon DEF History
<1> QED
  BY <1>1 DEF holds

\* What backs an index backs every lower one.
LEMMA BackedLower ==
    ASSUME NEW led \in [Nat -> Seq(Entry)], NEW snap, NEW lg \in Seq(Entry), NEW u \in Nat,
           NEW c \in Nat, NEW d \in Nat, d <= c, Backed(led, snap, c, lg, u)
    PROVE  Backed(led, snap, d, lg, u)
<1>1. CASE c = 0
  BY <1>1 DEF Backed
<1>2. ASSUME NEW t \in 0..u, NEW v \in Nat, c <= v, Chosen(snap, v, t), holds(led[t], v, t),
             agree(lg, led[t], c)
      PROVE  Backed(led, snap, d, lg, u)
  <2>1. d <= v
    BY <1>2
  <2>2. led[t] \in Seq(Entry) /\ Len(lg) \in Nat /\ Len(led[t]) \in Nat
    <3>1. t \in Nat
      OBVIOUS
    <3>2. led[t] \in Seq(Entry)
      BY Zenon, <3>1
    <3> QED
      BY Zenon, <3>2, LenFacts
  <2>3. agree(lg, led[t], d)
    BY ZenonT(30), <1>2, <2>2, AgreeLower
  <2> QED
    BY ZenonT(30), <1>2, <2>1, <2>3 DEF Backed
<1> QED
  BY Zenon, <1>1, <1>2 DEF Backed

\* new agrees with whatever backs c in lg.
Preserves(led, snap, c, lg, u, new) ==
    \A t \in 0..u : \A v \in Nat :
        c <= v /\ Chosen(snap, v, t) /\ holds(led[t], v, t) /\ agree(lg, led[t], c)
            => agree(new, led[t], c)

\* What backs an index before a step backs it after, in a log that preserves it.
LEMMA BackedLeads ==
    ASSUME NEW own, NEW led, NEW snap, NEW own2, NEW led2, NEW snap2,
           Advance(own, led, snap, own2, led2, snap2), NEW u \in Nat, NEW c \in Nat,
           NEW lg \in Seq(Entry), NEW new \in Seq(Entry), NEW u2 \in Nat, u <= u2,
           Preserves(led, snap, c, lg, u, new), Backed(led, snap, c, lg, u)
    PROVE  Backed(led2, snap2, c, new, u2)
<1>1. CASE c = 0
  BY Zenon, <1>1 DEF Backed
<1>2. ASSUME NEW t \in 0..u, NEW v \in Nat, c <= v, Chosen(snap, v, t), holds(led[t], v, t),
             agree(lg, led[t], c)
      PROVE  Backed(led2, snap2, c, new, u2)
  <2>1. t \in Nat /\ t \in 0..u2
    OBVIOUS
  <2>2. led \in [Nat -> Seq(Entry)] /\ led2 \in [Nat -> Seq(Entry)]
    BY Zenon, AdvanceTypes
  <2>3. led[t] \in Seq(Entry) /\ led2[t] \in Seq(Entry) /\ agree(led[t], led2[t], Len(led[t]))
    BY ZenonT(30), <2>1, <2>2, AdvanceExtends DEF Extends
  <2>4. Chosen(snap2, v, t)
    BY ZenonT(30), <1>2, <2>1, ChosenLostStep
  <2>5. holds(led2[t], v, t)
    BY ZenonT(30), <1>2, <2>3, HoldsExtends
  <2>6. agree(new, led[t], c)
    BY Zenon, <1>2 DEF Preserves
  <2>7. agree(new, led2[t], c)
    BY Zenon, <2>3, <2>6, AgreeExtends
  <2> QED
    BY ZenonT(30), <1>2, <2>1, <2>4, <2>5, <2>7 DEF Backed
<1> QED
  BY Zenon, <1>1, <1>2 DEF Backed

\* A node keeps what it knows to be committed: every leader whose request it may
\* accept has it too.
LEMMA BackedStep ==
    ASSUME NEW own, NEW led, NEW snap, NEW own2, NEW led2, NEW snap2,
           Advance(own, led, snap, own2, led2, snap2), NEW n \in Node, NEW c \in Nat,
           Backed(led, snap, c, log[n], currentTerm[n])
    PROVE  /\ Backed(led2, snap2, c, log'[n], currentTerm'[n])
           /\ \A j \in 1..c : j <= Len(log'[n]) /\ log'[n][j] = log[n][j]
<1> DEFINE lg == log[n]
           new == log'[n]
           u == currentTerm[n]
           u2 == currentTerm'[n]
<1>1. /\ led \in [Nat -> Seq(Entry)] /\ lg \in Seq(Entry) /\ new \in Seq(Entry)
      /\ u \in Nat /\ u2 \in Nat /\ u2 >= u
  BY Zenon, AdvanceTypes
<1>2. agree(lg, new, Len(lg)) \/ (own[u2] # Nil /\ merges(lg, new, led[u2]))
  BY Zenon DEF Advance, LogMoves
<1>3. History(own, led) /\ Safe(own, led, snap)
  BY Zenon DEF Advance, StepFrom, LogInv, CommitInv
<1>4. Backed(led, snap, c, lg, u)
  BY Zenon
<1> HIDE DEF lg, new, u, u2
<1>5. ASSUME NEW t \in 0..u, NEW v \in Nat, c <= v, Chosen(snap, v, t), holds(led[t], v, t),
             agree(lg, led[t], c)
      PROVE  agree(new, led[t], c) /\ agree(lg, new, c)
  <2>1. t \in Nat /\ t <= u2 /\ led[t] \in Seq(Entry) /\ Len(lg) \in Nat /\ Len(new) \in Nat
    <3>1. t \in Nat /\ t <= u
      BY SMTT(30), <1>1
    <3>2. t <= u2
      BY SMTT(30), <1>1, <3>1
    <3>3. led[t] \in Seq(Entry)
      BY ZenonT(30), <1>1, <3>1
    <3> QED
      BY ZenonT(30), <1>1, <3>1, <3>2, <3>3, LenFacts
  <2>2. CASE agree(lg, new, Len(lg))
    <3>1. c <= Len(lg)
      BY Zenon, <1>5 DEF agree
    <3>2. agree(lg, new, c)
      BY ZenonT(30), <2>1, <2>2, <3>1, AgreeLower
    <3> QED
      BY ZenonT(30), <1>5, <3>2, AgreeTrans
  <2>3. CASE own[u2] # Nil /\ merges(lg, new, led[u2])
    <3>1. agree(led[t], led[u2], v)
      BY ZenonT(30), <1>1, <1>3, <1>5, <2>1, <2>3, ChosenLeads
    <3>2. led[u2] \in Seq(Entry) /\ Len(led[t]) \in Nat /\ Len(led[u2]) \in Nat
      BY ZenonT(30), <1>1, <2>1, LenFacts
    <3>3. agree(led[t], led[u2], c)
      BY ZenonT(30), <1>5, <3>1, <3>2, AgreeLower
    <3>4. agree(lg, led[u2], c)
      BY Zenon, <1>5, <3>3, AgreeTrans
    <3>5. agree(new, led[u2], c)
      BY Zenon, <2>3, <3>4 DEF merges
    <3> QED
      BY ZenonT(30), <3>3, <3>4, <3>5, AgreeTrans
  <2> QED
    BY ZenonT(30), <1>2, <2>2, <2>3
<1>6. Backed(led2, snap2, c, new, u2)
  <2>1. Preserves(led, snap, c, lg, u, new)
    BY Zenon, <1>5 DEF Preserves
  <2>2. u <= u2
    BY ZenonT(30), <1>1
  <2> QED
    BY ZenonT(30), <1>1, <1>4, <2>1, <2>2, BackedLeads
<1>7. \A j \in 1..c : j <= Len(new) /\ new[j] = lg[j]
  <2>1. CASE c = 0
    BY SMTT(30), <2>1
  <2>2. CASE c # 0
    <3>1. agree(lg, new, c)
      BY ZenonT(30), <1>4, <1>5, <2>2 DEF Backed
    <3>2. Len(new) \in Nat
      BY Zenon, <1>1, LenFacts
    <3> QED
      BY SMTT(30), <3>1, <3>2 DEF agree
  <2> QED
    BY Zenon, <2>1, <2>2
<1> QED
  BY Zenon, <1>6, <1>7 DEF lg, new, u, u2

\* A majority of matching logs chooses the leader's entry.
LEMMA MajorityChooses ==
    ASSUME NEW led \in [Nat -> Seq(Entry)], NEW snap \in [Node -> [Nat -> Seq(Entry)]],
           NEW n \in Node, NEW t \in Nat, NEW lg, led[t] = lg, snap[n][t] = lg,
           NEW match \in [Node -> Nat], \A p \in Node : agree(snap[p][t], led[t], match[p]),
           NEW b \in Nat, holds(lg, b, t),
           NEW Q \in Majorities, \A p \in Q : p = n \/ b <= match[p]
    PROVE  Backed(led, snap, b, lg, t)
<1>1. led[t] \in Seq(Entry) /\ holds(led[t], b, t)
  BY Zenon
<1>2. ASSUME NEW p \in Q PROVE holds(snap[p][t], b, t)
  <2>1. p \in Node
    BY Zenon DEF Majorities
  <2>2. CASE p = n
    BY Zenon, <2>2
  <2>3. CASE p # n
    <3>1. b <= match[p] /\ match[p] \in Nat
      BY Zenon, <2>1, <2>3
    <3>2. snap[p][t] \in Seq(Entry) /\ agree(led[t], snap[p][t], match[p])
      BY Zenon, <2>1, AgreeTrans
    <3> QED
      BY ZenonT(30), <1>1, <3>1, <3>2, HoldsAgree
  <2> QED
    BY ZenonT(30), <2>2, <2>3
<1>3. Chosen(snap, b, t)
  BY Zenon, <1>2 DEF Chosen
<1>4. agree(lg, led[t], b)
  <2>1. agree(led[t], led[t], Len(led[t])) /\ Len(led[t]) \in Nat
    BY ZenonT(30), <1>1, AgreeSelf, LenFacts
  <2>2. b <= Len(led[t])
    BY <1>1, <2>1 DEF holds
  <2>3. agree(led[t], led[t], b)
    BY ZenonT(30), <2>1, <2>2, AgreeLower
  <2> QED
    BY Zenon, <2>3
<1>5. t \in 0..t /\ b <= b
  OBVIOUS
<1> QED
  BY ZenonT(30), <1>1, <1>3, <1>4, <1>5 DEF Backed

\* What is supported is backed.
LEMMA SupportBacks ==
    ASSUME NEW own, NEW led, NEW snap, NEW own2, NEW led2, NEW snap2,
           Advance(own, led, snap, own2, led2, snap2), ProgressMoves(led),
           NEW n \in Node, NEW b \in Nat, Supported(led, n, b)
    PROVE  Backed(led2, snap2, b, log'[n], currentTerm'[n])
<1>1. /\ led \in [Nat -> Seq(Entry)] /\ led2 \in [Nat -> Seq(Entry)]
      /\ snap2 \in [Node -> [Nat -> Seq(Entry)]] /\ log'[n] \in Seq(Entry)
      /\ currentTerm'[n] \in Nat
  BY Zenon, AdvanceTypes
<1>2. CASE b \in {commitIndex[n], savedCommit[n], lastApplied[n]}
  <2>1. Backed(led, snap, b, log[n], currentTerm[n])
    BY Zenon, <1>2 DEF Advance, CommitInv, CommitsBacked
  <2> QED
    BY ZenonT(30), <2>1, BackedStep
<1>3. ASSUME NEW m \in messages, m.type = "append_req", m.term = currentTerm'[n],
             b <= m.leaderCommit, agree(log'[n], led[m.term], b)
      PROVE  Backed(led2, snap2, b, log'[n], currentTerm'[n])
  <2> DEFINE u == currentTerm'[n]
             c == m.leaderCommit
             new == log'[n]
  <2>1. c \in Nat /\ led[u] \in Seq(Entry)
    <3>1. m \in AppendEntriesRequest
      BY ZenonT(30), <1>3, MessageFields DEF Advance, StepFrom, ElectionInv, TypeGroups, MessagesOK
    <3> QED
      BY ZenonT(30), <1>1, <3>1 DEF AppendEntriesRequest
  <2>2. Backed(led, snap, c, led[u], u)
    <3>1. Backed(led, snap, m.leaderCommit, led[m.term], m.term)
      BY Zenon, <1>3 DEF Advance, CommitInv, CommitsBacked
    <3> QED
      BY ZenonT(30), <1>3, <3>1
  <2>3. b <= c /\ agree(new, led[u], b) /\ new \in Seq(Entry) /\ u \in Nat /\ u <= u
    <3>1. agree(new, led[u], b)
      BY Zenon, <1>3
    <3>2. \A k \in Nat : k <= k
      OBVIOUS
    <3> QED
      BY Zenon, <1>1, <1>3, <3>1, <3>2
  <2> HIDE DEF u, c, new
  <2>4. Backed(led, snap, b, led[u], u)
    BY ZenonT(30), <1>1, <2>1, <2>2, <2>3, BackedLower
  <2>5. Preserves(led, snap, b, led[u], u, new)
    BY ZenonT(30), <2>3, AgreeTrans DEF Preserves
  <2>6. Backed(led2, snap2, b, new, u)
    BY ZenonT(30), <2>1, <2>3, <2>4, <2>5, BackedLeads
  <2> QED
    BY Zenon, <2>6 DEF u, new
<1>4. ASSUME role'[n] = "leader", holds(log'[n], b, currentTerm'[n]),
             NEW Q \in Majorities, \A p \in Q : p = n \/ b <= matchIndex'[n][p]
      PROVE  Backed(led2, snap2, b, log'[n], currentTerm'[n])
  <2>1. Matched(led2, snap2)' /\ Snapshots(snap2)' /\ Leading(own2, led2)' /\ LeaderOK'
    BY Zenon, MatchedStep, SnapshotsStep
       DEF Advance, LogInv, StepFrom, ElectionInv, TypeGroups
  <2> DEFINE t == currentTerm'[n]
             lg == log'[n]
             match == matchIndex'[n]
  <2>2. /\ led2[t] = lg /\ snap2[n][t] = lg /\ match \in [Node -> Nat] /\ t \in Nat
        /\ \A p \in Node : agree(snap2[p][t], led2[t], match[p])
        /\ holds(lg, b, t) /\ \A p \in Q : p = n \/ b <= match[p]
    BY ZenonT(30), <1>1, <1>4, <2>1 DEF Leading, Snapshots, LeaderOK, Matched
  <2> HIDE DEF t, lg, match
  <2>3. Backed(led2, snap2, b, lg, t)
    BY ZenonT(30), <1>1, <2>2, MajorityChooses
  <2> QED
    BY Zenon, <2>3 DEF t, lg
<1> QED
  BY ZenonT(30), <1>2, <1>3, <1>4 DEF Supported

\* An entry a node may apply is one that a chosen entry vouches for.
LEMMA BackedGives ==
    ASSUME NEW led, NEW snap, NEW c \in Nat, NEW lg, NEW u \in Nat,
           Backed(led, snap, c, lg, u), NEW i \in 1..c
    PROVE  BackedEntry(led, snap, i, lg[i])
<1>1. PICK t \in 0..u, v \in Nat :
         c <= v /\ Chosen(snap, v, t) /\ holds(led[t], v, t) /\ agree(lg, led[t], c)
  BY DEF Backed
<1>2. i \in 1..v /\ t \in Nat /\ led[t][i] = lg[i]
  BY <1>1 DEF agree
<1> QED
  BY Zenon, <1>1, <1>2 DEF BackedEntry

\* Commit indexes, the requests that carry them and the results handed out stay
\* backed.
LEMMA CommitsStep ==
    ASSUME NEW own, NEW led, NEW snap, NEW own2, NEW led2, NEW snap2,
           Advance(own, led, snap, own2, led2, snap2), ProgressMoves(led), CommitMoves(led)
    PROVE  CommitsBacked(led2, snap2)'
<1>1. /\ led \in [Nat -> Seq(Entry)] /\ led2 \in [Nat -> Seq(Entry)]
      /\ \A n \in Node : log'[n] \in Seq(Entry) /\ currentTerm'[n] \in Nat
  BY Zenon, AdvanceTypes
<1>2. \A n \in Node : /\ commitIndex'[n] \in Nat /\ savedCommit'[n] \in Nat
                      /\ lastApplied'[n] \in Nat
  BY Zenon DEF Advance, StepFrom, ElectionInv, TypeGroups, ApplyOK
<1>3. ASSUME NEW n \in Node, NEW c \in {commitIndex'[n], savedCommit'[n], lastApplied'[n]}
      PROVE  Backed(led2, snap2, c, log'[n], currentTerm'[n])
  <2>1. PICK b \in Nat : c <= b /\ Supported(led, n, b)
    BY Zenon DEF CommitMoves, Reached
  <2>2. Backed(led2, snap2, b, log'[n], currentTerm'[n])
    BY Zenon, <2>1, SupportBacks
  <2>3. c \in Nat
    BY Zenon, <1>2
  <2>4. log'[n] \in Seq(Entry) /\ currentTerm'[n] \in Nat
    BY Zenon, <1>1
  <2> QED
    BY ZenonT(30), <1>1, <2>1, <2>2, <2>3, <2>4, BackedLower
<1>4. ASSUME NEW k \in messages, k.type = "append_req"
      PROVE  Backed(led2, snap2, k.leaderCommit, led2[k.term], k.term)
  <2> DEFINE u == k.term
             c == k.leaderCommit
  <2>1. u \in Nat /\ c \in Nat
    <3>1. k \in AppendEntriesRequest
      BY ZenonT(30), <1>4, MessageFields DEF Advance, StepFrom, ElectionInv, TypeGroups, MessagesOK
    <3> QED
      BY Zenon, <3>1 DEF AppendEntriesRequest
  <2>2. Backed(led, snap, c, led[u], u)
    BY ZenonT(30), <1>4 DEF Advance, CommitInv, CommitsBacked
  <2> HIDE DEF u, c
  <2>3. led[u] \in Seq(Entry) /\ led2[u] \in Seq(Entry) /\ agree(led[u], led2[u], Len(led[u]))
    BY ZenonT(30), <1>1, <2>1, AdvanceExtends DEF Extends
  <2>4. Preserves(led, snap, c, led[u], u, led2[u])
    <3> SUFFICES ASSUME NEW t \in 0..u, agree(led[u], led[t], c)
                 PROVE  agree(led2[u], led[t], c)
      BY Zenon DEF Preserves
    <3>1. agree(led[t], led[u], c)
      BY Zenon, AgreeTrans
    <3>2. agree(led[t], led2[u], c)
      BY ZenonT(30), <2>1, <2>3, <3>1, AgreeExtends
    <3> QED
      BY ZenonT(30), <3>2, AgreeTrans
  <2>5. u <= u
    BY SMTT(30), <2>1
  <2>6. Backed(led2, snap2, c, led2[u], u)
    BY ZenonT(30), <2>1, <2>2, <2>3, <2>4, <2>5, BackedLeads
  <2> QED
    BY Zenon, <2>6 DEF u, c
<1>5. ASSUME NEW m \in messages', m.type = "append_req"
      PROVE  Backed(led2, snap2, m.leaderCommit, led2[m.term], m.term)
  <2>1. ASSUME NEW k \in messages, survives(k, m)
        PROVE  Backed(led2, snap2, m.leaderCommit, led2[m.term], m.term)
    <3>1. k.type = "append_req" /\ m.leaderCommit = k.leaderCommit /\ m.term = k.term
      BY ZenonT(30), <1>5, <2>1 DEF survives
    <3> QED
      BY ZenonT(30), <1>4, <3>1
  <2>2. CASE /\ role'[m.src] = "leader" /\ m.term = currentTerm'[m.src]
             /\ m.leaderCommit = commitIndex'[m.src]
    <3>1. m.src \in Node
      BY Zenon, MessageFields DEF Advance, StepFrom, ElectionInv, TypeGroups, MessagesOK
    <3>2. led2[m.term] = log'[m.src]
      BY Zenon, <2>2, <3>1 DEF Advance, LogInv, Leading
    <3>3. Backed(led2, snap2, commitIndex'[m.src], log'[m.src], currentTerm'[m.src])
      BY ZenonT(30), <1>3, <3>1
    <3> QED
      BY ZenonT(30), <2>2, <3>2, <3>3
  <2> QED
    BY ZenonT(30), <1>5, <2>1, <2>2 DEF CommitMoves, Told
<1>6. ASSUME NEW a \in acked' PROVE BackedEntry(led2, snap2, a[1], a[2])
  <2>1. CASE a \in acked
    <3>1. PICK t \in Nat, v \in Nat :
             a[1] \in 1..v /\ Chosen(snap, v, t) /\ holds(led[t], v, t) /\ led[t][a[1]] = a[2]
      BY Zenon, <2>1 DEF Advance, CommitInv, CommitsBacked, BackedEntry
    <3>2. led[t] \in Seq(Entry) /\ led2[t] \in Seq(Entry) /\ agree(led[t], led2[t], Len(led[t]))
      BY Zenon, <1>1, AdvanceExtends DEF Extends
    <3>3. Chosen(snap2, v, t)
      BY Zenon, <3>1, ChosenLostStep
    <3>4. holds(led2[t], v, t)
      BY ZenonT(30), <3>1, <3>2, HoldsExtends
    <3>5. led2[t][a[1]] = led[t][a[1]]
      <4>1. v \in 1..Len(led[t]) /\ Len(led[t]) \in Nat
        BY ZenonT(30), <3>1, <3>2, LenFacts DEF holds
      <4>2. a[1] \in 1..Len(led[t])
        BY SMTT(30), <3>1, <4>1
      <4> QED
        BY ZenonT(30), <3>2, <4>2 DEF agree
    <3> QED
      BY ZenonT(30), <3>1, <3>3, <3>4, <3>5 DEF BackedEntry
  <2>2. ASSUME NEW n \in Node, a[1] \in 1..lastApplied'[n], a[2] = log'[n][a[1]]
        PROVE  BackedEntry(led2, snap2, a[1], a[2])
    <3>1. Backed(led2, snap2, lastApplied'[n], log'[n], currentTerm'[n])
      BY ZenonT(30), <1>3
    <3>2. BackedEntry(led2, snap2, a[1], log'[n][a[1]])
      BY ZenonT(30), <1>1, <1>2, <2>2, <3>1, BackedGives
    <3> QED
      BY ZenonT(30), <2>2, <3>2
  <2> QED
    BY ZenonT(30), <2>1, <2>2 DEF CommitMoves, Answered
<1> QED
  BY ZenonT(30), <1>3, <1>5, <1>6 DEF CommitsBacked

\* The requests of a running candidacy stay accurate: a candidate's log stands still,
\* and those of its earlier candidacies have earlier terms.
LEMMA RequestsStep ==
    ASSUME NEW own, NEW led, NEW snap, NEW own2, NEW led2, NEW snap2,
           Advance(own, led, snap, own2, led2, snap2), RequestsMove
    PROVE  RequestsCurrent'
<1> SUFFICES ASSUME NEW m \in messages', m.type = "vote_req", role'[m.src] = "candidate",
                    currentTerm'[m.src] = m.term
             PROVE  m.lastLogIndex = Len(log'[m.src]) /\ m.lastLogTerm = lastLogTerm(m.src)'
  BY Zenon DEF RequestsCurrent
<1>1. ASSUME NEW k \in messages, survives(k, m)
      PROVE  m.lastLogIndex = Len(log'[m.src]) /\ m.lastLogTerm = lastLogTerm(m.src)'
  <2>1. /\ k.type = "vote_req" /\ k.src = m.src /\ k.term = m.term
        /\ k.lastLogIndex = m.lastLogIndex /\ k.lastLogTerm = m.lastLogTerm
    BY ZenonT(30), <1>1 DEF survives
  <2>2. k.src \in Node /\ k.dst \in Node /\ k.term \in Nat
    BY Zenon, MessageFields DEF Advance, StepFrom, ElectionInv, TypeGroups, MessagesOK
  <2>3. k.term <= currentTerm[k.src]
    <3>1. concerns(k, k.src, k.dst, k.term)
      BY Zenon, <2>1 DEF concerns
    <3> QED
      BY ZenonT(30), <2>2, <3>1 DEF Advance, StepFrom, ElectionInv, ElectionCore, BallotTerm
  <2>4. role[k.src] = "candidate" /\ currentTerm[k.src] = k.term
    <3>1. currentTerm[k.src] \in Nat
      BY Zenon, <2>2, AdvanceTypes
    <3>2. \/ currentTerm'[k.src] > currentTerm[k.src]
          \/ role[k.src] = "candidate" /\ currentTerm'[k.src] = currentTerm[k.src]
      BY Zenon, <2>1, <2>2 DEF Advance, StepFrom, ElectionStep, CandidaciesMove
    <3> QED
      BY SMTT(30), <2>1, <2>2, <2>3, <3>1, <3>2
  <2>5. k.lastLogIndex = Len(log[k.src]) /\ k.lastLogTerm = lastLogTerm(k.src)
    BY ZenonT(30), <2>1, <2>4 DEF Advance, CommitInv, RequestsCurrent
  <2>6. log'[k.src] = log[k.src]
    BY ZenonT(30), <2>1, <2>2 DEF Advance, LogMoves
  <2> QED
    BY ZenonT(30), <2>1, <2>5, <2>6 DEF lastLogTerm
<1> QED
  BY Zenon, <1>1 DEF RequestsMove

\* The invariant moves with the history.
LEMMA AdvanceCommit ==
    ASSUME NEW own, NEW led, NEW snap, NEW own2, NEW led2, NEW snap2,
           Advance(own, led, snap, own2, led2, snap2), Effects(led)
    PROVE  CommitInv(own2, led2, snap2)'
<1>1. VotesChecked /\ RequestsMove /\ ProgressMoves(led) /\ CommitMoves(led)
  BY Zenon DEF Effects
<1>2. Snapshots(snap2)' /\ Retained(snap2)' /\ Safe(own2, led2, snap2)'
  BY Zenon, SnapshotsStep, RetainedStep, SafeStep
<1>3. VotersHeld(snap2)' /\ RequestsCurrent'
  BY ZenonT(30), <1>1, VotersHeldStep, RequestsStep
<1>4. Matched(led2, snap2)' /\ CommitsBacked(led2, snap2)'
  BY ZenonT(30), <1>1, MatchedStep, CommitsStep
<1> QED
  BY ZenonT(30), <1>2, <1>3, <1>4 DEF CommitInv

------------------------------------------------------------------------------
(* What a past implies                                                      *)

\* Backed entries at the same index are equal: the later of their two leaders has
\* what the earlier one got chosen.
LEMMA BackedSame ==
    ASSUME NEW own, NEW led, NEW snap, History(own, led), Safe(own, led, snap), NEW i,
           NEW e, NEW f, BackedEntry(led, snap, i, e), BackedEntry(led, snap, i, f)
    PROVE  e = f
<1>1. PICK t \in Nat, v \in Nat :
         i \in 1..v /\ Chosen(snap, v, t) /\ holds(led[t], v, t) /\ led[t][i] = e
  BY Zenon DEF BackedEntry
<1>2. PICK u \in Nat, w \in Nat :
         i \in 1..w /\ Chosen(snap, w, u) /\ holds(led[u], w, u) /\ led[u][i] = f
  BY Zenon DEF BackedEntry
<1>3. own[t] # Nil /\ own[u] # Nil
  BY Zenon, <1>1, <1>2, HolderLeads
<1>4. CASE t <= u
  <2>1. agree(led[t], led[u], v)
    BY Zenon, <1>1, <1>3, <1>4, ChosenLeads
  <2> QED
    BY ZenonT(30), <1>1, <1>2, <2>1 DEF agree
<1>5. CASE u <= t
  <2>1. agree(led[u], led[t], w)
    BY Zenon, <1>2, <1>3, <1>5, ChosenLeads
  <2> QED
    BY ZenonT(30), <1>1, <1>2, <2>1 DEF agree
<1> QED
  BY SMTT(30), <1>4, <1>5

\* What a node has committed or applied is backed.
LEMMA ReachedBacked ==
    ASSUME NEW own, NEW led, NEW snap, ElectionInv, CommitInv(own, led, snap), NEW n \in Node
    PROVE  LET c == larger(commitIndex[n], lastApplied[n])
           IN  c \in Nat /\ Backed(led, snap, c, log[n], currentTerm[n])
BY Zenon DEF CommitInv, CommitsBacked, larger, ElectionInv, TypeGroups, ApplyOK

\* A chosen entry is still held by every node of its majority.
LEMMA ChosenHeld ==
    ASSUME NEW snap, ElectionInv, Snapshots(snap), Retained(snap), NEW p \in Node,
           NEW v \in Nat, NEW t \in Nat, Chosen(snap, v, t), holds(snap[p][t], v, t)
    PROVE  holds(log[p], v, t)
<1>1. currentTerm[p] \in Nat /\ ~Lost(snap, v, t)
  BY ZenonT(30), ChosenNotLost DEF ElectionInv, TypeGroups, ElectionOK
<1>2. CASE t > currentTerm[p]
  <2>1. snap[p][t] = <<>>
    BY Zenon, <1>2 DEF Snapshots
  <2>2. ~holds(<<>>, v, t)
    BY DEF holds
  <2> QED
    BY Zenon, <2>1, <2>2
<1>3. CASE t = currentTerm[p]
  BY Zenon, <1>3 DEF Snapshots
<1>4. CASE t < currentTerm[p]
  BY Zenon, <1>1, <1>4 DEF Retained
<1> QED
  BY SMTT(30), <1>1, <1>2, <1>3, <1>4

------------------------------------------------------------------------------
(* What the past implies                                                    *)

\* Two nodes that reach an index have the same entry there: both are backed by a chosen one.
LEMMA PastAgrees == SomePast => StateMachineSafety
<1> DEFINE c(n) == larger(commitIndex[n], lastApplied[n])
<1> SUFFICES ASSUME ElectionInv, NEW own, NEW led, NEW snap, LogInv(own, led),
                    CommitInv(own, led, snap), NEW a \in Node, NEW b \in Node,
                    NEW i \in 1..smaller(c(a), c(b))
             PROVE  log[a][i] = log[b][i]
  BY ZenonT(30) DEF SomePast, StateMachineSafety
<1>1. /\ c(a) \in Nat /\ Backed(led, snap, c(a), log[a], currentTerm[a])
      /\ c(b) \in Nat /\ Backed(led, snap, c(b), log[b], currentTerm[b])
      /\ currentTerm[a] \in Nat /\ currentTerm[b] \in Nat
  BY ZenonT(30), ReachedBacked DEF ElectionInv, TypeGroups, ElectionOK
<1> HIDE DEF c
<1>2. i \in 1..c(a) /\ i \in 1..c(b)
  BY SMTT(30), <1>1 DEF smaller
<1>3. BackedEntry(led, snap, i, log[a][i]) /\ BackedEntry(led, snap, i, log[b][i])
  BY ZenonT(30), <1>1, <1>2, BackedGives
<1>4. History(own, led) /\ Safe(own, led, snap)
  BY Zenon DEF LogInv, CommitInv
<1> QED
  BY ZenonT(30), <1>3, <1>4, BackedSame

\* A leader has what is committed in no later term: it was chosen, and its log agrees.
LEMMA PastLeads == SomePast => LeaderCompleteness
<1> SUFFICES ASSUME ElectionInv, NEW own, NEW led, NEW snap, LogInv(own, led),
                    CommitInv(own, led, snap), NEW l \in Node, NEW n \in Node,
                    role[l] = "leader", currentTerm[l] >= currentTerm[n],
                    NEW i \in 1..commitIndex[n]
             PROVE  i <= Len(log[l]) /\ log[l][i] = log[n][i]
  BY ZenonT(30) DEF SomePast, LeaderCompleteness
<1> DEFINE c == commitIndex[n]
           u == currentTerm[l]
<1>1. /\ c \in Nat /\ u \in Nat /\ currentTerm[n] \in Nat
      /\ Backed(led, snap, c, log[n], currentTerm[n])
  BY ZenonT(30) DEF CommitInv, CommitsBacked, ElectionInv, TypeGroups, ApplyOK, ElectionOK
<1>2. own[u] # Nil /\ led[u] = log[l]
  BY ZenonT(30), NodeAssumption DEF LogInv, Leading
<1>3. PICK t \in 0..currentTerm[n], v \in Nat :
         c <= v /\ Chosen(snap, v, t) /\ holds(led[t], v, t) /\ agree(log[n], led[t], c)
  BY SMTT(30), <1>1 DEF Backed
<1>4. t \in Nat /\ t <= u
  BY SMTT(30), <1>1
<1>5. History(own, led) /\ Safe(own, led, snap)
  BY ZenonT(30) DEF LogInv, CommitInv
<1>6. agree(led[t], led[u], v)
  BY ZenonT(30), <1>1, <1>2, <1>3, <1>4, <1>5, ChosenLeads
<1>7. Len(log[l]) \in Nat /\ i \in 1..v
  BY SMTT(30), <1>1, <1>3, LenFacts DEF ElectionInv, TypeGroups, LogOK
<1> QED
  BY SMTT(30), <1>2, <1>3, <1>6, <1>7 DEF agree

\* What was answered was chosen, and the majority that chose it still holds it.
LEMMA PastAcknowledged == SomePast => AcknowledgedSurvives
<1> SUFFICES ASSUME ElectionInv, NEW own, NEW led, NEW snap, LogInv(own, led),
                    CommitInv(own, led, snap), NEW a \in acked
             PROVE  Cardinality({n \in Node : a[1] <= Len(log[n]) /\ log[n][a[1]] = a[2]})
                       >= quorum
  BY ZenonT(30) DEF SomePast, AcknowledgedSurvives
<1> DEFINE i == a[1]
           holders == {n \in Node : i <= Len(log[n]) /\ log[n][i] = a[2]}
<1>1. PICK t \in Nat, v \in Nat :
         i \in 1..v /\ Chosen(snap, v, t) /\ holds(led[t], v, t) /\ led[t][i] = a[2]
  BY ZenonT(30) DEF CommitInv, CommitsBacked, BackedEntry
<1>2. PICK Q \in Majorities : \A p \in Q : holds(snap[p][t], v, t)
  BY ZenonT(30), <1>1 DEF Chosen
<1>3. ASSUME NEW p \in Q PROVE p \in holders
  <2>1. p \in Node
    BY ZenonT(30), <1>2 DEF Majorities
  <2>2. holds(log[p], v, t)
    BY ZenonT(30), <1>1, <1>2, <2>1, ChosenHeld DEF CommitInv
  <2>3. led \in [Nat -> Seq(Entry)] /\ log[p] \in Seq(Entry) /\ Traced(led, log[p])
    BY ZenonT(30), <2>1 DEF LogInv, History, LogsTraced, ElectionInv, TypeGroups, LogOK
  <2>4. agree(log[p], led[t], v)
    BY ZenonT(30), <2>2, <2>3, HoldsTraced
  <2>5. Len(log[p]) \in Nat
    BY ZenonT(30), <2>3, LenFacts
  <2> QED
    BY SMTT(30), <1>1, <2>1, <2>4, <2>5 DEF agree
<1>4. Q \in SUBSET holders /\ holders \in SUBSET Node /\ Cardinality(Q) >= quorum
  BY ZenonT(30), <1>3 DEF Majorities
<1> HIDE DEF holders
<1>5. IsFiniteSet(holders)
  BY ZenonT(30), <1>4, NodeAssumption, FS_Subset
<1>6. Cardinality(Q) <= Cardinality(holders) /\ IsFiniteSet(Q)
  BY ZenonT(30), <1>4, <1>5, FS_Subset
<1>7. Cardinality(Q) \in Nat /\ Cardinality(holders) \in Nat /\ quorum \in Nat
  BY SMTT(30), <1>5, <1>6, FS_CardinalityType, QuorumRange
<1>8. Cardinality(holders) >= quorum
  BY SMTT(30), <1>4, <1>6, <1>7
<1> QED
  BY ZenonT(30), <1>8 DEF holders

\* What a leader counts as stored by a node of its term, the node's log holds.
LEMMA PastMatches == SomePast => MatchIndexSound
<1> SUFFICES ASSUME ElectionInv, NEW own, NEW led, NEW snap, LogInv(own, led),
                    CommitInv(own, led, snap), NEW l \in Node, NEW p \in Node,
                    role[l] = "leader", currentTerm[p] = currentTerm[l]
             PROVE  /\ matchIndex[l][p] <= smaller(Len(log[l]), Len(log[p]))
                    /\ \A i \in 1..matchIndex[l][p] : log[l][i] = log[p][i]
  BY ZenonT(30) DEF SomePast, MatchIndexSound
<1>1. snap[p][currentTerm[l]] = log[p] /\ led[currentTerm[l]] = log[l]
  BY ZenonT(30) DEF CommitInv, Snapshots, LogInv, Leading
<1>2. agree(log[p], log[l], matchIndex[l][p])
  BY ZenonT(30), <1>1 DEF CommitInv, Matched
<1> QED
  BY ZenonT(30), <1>2 DEF agree, smaller

==============================================================================

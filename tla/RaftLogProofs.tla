---------------------------- MODULE RaftLogProofs ----------------------------
(****************************************************************************)
(* Logs with an entry of the same term at the same index agree up to it:    *)
(* every log traces back to the leaders of RaftHistory, handler by handler. *)
(* Then what a step applies, as a step of ReplicatedLog.                    *)
(****************************************************************************)
EXTENDS RaftElectionProofs, RaftRefinement

------------------------------------------------------------------------------
(* How the history moves with a step                                        *)

\* A prefix of a traced log is traced, and has no later terms.
LEMMA TracedPrefix ==
    ASSUME NEW led \in [Nat -> Seq(Entry)], NEW a \in Seq(Entry), NEW b \in Seq(Entry),
           NEW t \in Nat, Traced(led, b), TermsUpTo(b, t), agree(a, b, Len(a))
    PROVE  Traced(led, a) /\ TermsUpTo(a, t)
<1> SUFFICES ASSUME NEW i \in 1..Len(a)
             PROVE  agree(a, led[a[i].term], i) /\ a[i].term <= t
  BY Zenon DEF Traced, TermsUpTo
<1>1. a[i] = b[i] /\ i \in 1..Len(b) /\ i <= Len(a) /\ i \in Nat
  BY LenFacts DEF agree
<1>2. agree(b, led[b[i].term], i) /\ b[i].term <= t
  BY Zenon, <1>1 DEF Traced, TermsUpTo
<1>3. agree(a, b, i)
  BY Zenon, <1>1, AgreeLower, LenFacts
<1> QED
  BY Zenon, <1>1, <1>2, <1>3, AgreeTrans

\* A settled vote stays settled: a later vote of the same node is of a later term.
LEMMA SettledStep ==
    ASSUME ElectionInv, ElectionOK', ElectionStep, NEW c \in Node, NEW p \in Node,
           NEW t \in Nat, Settled(c, p, t)
    PROVE  Settled(c, p, t)'
<1>1. currentTerm[p] \in Nat /\ currentTerm'[p] \in Nat /\ c # Nil
  BY Zenon, NodeAssumption DEF ElectionInv, TypeGroups, ElectionOK
<1>2. Cast(c, p, t)'
  BY <1>1 DEF Settled, Cast, ElectionStep, VotesKept
<1>3. ASSUME NEW d \in Node, Evidence(d, p, t)' PROVE d = c
  <2>1. CASE Evidence(d, p, t)
    BY Zenon, <2>1 DEF Settled
  <2>2. CASE Fresh(d, p, t)
    BY <1>2, <2>2 DEF Fresh, Cast
  <2> QED
    BY Zenon, <1>3, <2>1, <2>2 DEF ElectionStep, EvidenceGrows
<1> QED
  BY Zenon, <1>2, <1>3 DEF Settled

\* A leader stays elected in its term, whatever becomes of it.
LEMMA ElectedStep ==
    ASSUME ElectionInv, ElectionOK', ElectionStep, NEW own \in [Nat -> Node \cup {Nil}],
           Elected(own)
    PROVE  Elected(own)'
<1> SUFFICES ASSUME NEW t \in Nat, own[t] # Nil
             PROVE  /\ \E Q \in Majorities : \A p \in Q : Settled(own[t], p, t)'
                    /\ \/ currentTerm'[own[t]] > t
                       \/ currentTerm'[own[t]] = t /\ role'[own[t]] # "candidate"
  BY Zenon DEF Elected, Majorities, quorum
<1> DEFINE c == own[t]
<1>1. c \in Node
  BY Zenon
<1>2. currentTerm[c] \in Nat /\ currentTerm'[c] \in Nat /\ currentTerm'[c] >= currentTerm[c]
  BY Zenon, <1>1 DEF ElectionInv, TypeGroups, ElectionOK, ElectionStep, VotesKept
<1>3. PICK Q \in Majorities : \A p \in Q : Settled(c, p, t)
  BY Zenon DEF Elected
<1>4. currentTerm[c] > t \/ (currentTerm[c] = t /\ role[c] # "candidate")
  BY Zenon DEF Elected
<1> HIDE DEF c
<1>5. \A p \in Q : Settled(c, p, t)'
  BY Zenon, <1>1, <1>3, SettledStep DEF Majorities
<1>6. currentTerm'[c] > t \/ (currentTerm'[c] = t /\ role'[c] # "candidate")
  BY <1>1, <1>2, <1>4 DEF ElectionStep, CandidaciesMove
<1> QED
  BY Zenon, <1>5, <1>6 DEF c

\* A log's terms stay below a term that grows.
LEMMA TermsUpToGrows ==
    ASSUME NEW lg \in Seq(Entry), NEW t \in Nat, NEW u \in Nat, t <= u, TermsUpTo(lg, t)
    PROVE  TermsUpTo(lg, u)
<1> SUFFICES ASSUME NEW i \in 1..Len(lg) PROVE lg[i].term <= u
  BY Zenon DEF TermsUpTo
<1>1. lg[i].term \in Nat /\ lg[i].term <= t
  BY Zenon, EntryTerm DEF TermsUpTo
<1> QED
  BY <1>1

\* What is traced to a history is traced to every extension of it.
LEMMA TracedExtends ==
    ASSUME NEW own, NEW own2, NEW led \in [Nat -> Seq(Entry)], NEW led2 \in [Nat -> Seq(Entry)],
           Extends(own, led, own2, led2), NEW lg \in Seq(Entry), Traced(led, lg)
    PROVE  Traced(led2, lg)
<1> SUFFICES ASSUME NEW i \in 1..Len(lg) PROVE agree(lg, led2[lg[i].term], i)
  BY Zenon DEF Traced
<1> DEFINE t == lg[i].term
<1>1. t \in Nat /\ i \in Nat
  BY Zenon, EntryTerm
<1>2. agree(lg, led[t], i)
  BY Zenon DEF Traced
<1>3. agree(led[t], led2[t], Len(led[t]))
  BY Zenon, <1>1 DEF Extends
<1> HIDE DEF t
<1>4. /\ led[t] \in Seq(Entry) /\ led2[t] \in Seq(Entry)
      /\ Len(led[t]) \in Nat /\ Len(led2[t]) \in Nat /\ i <= Len(led[t])
  BY Zenon, <1>1, <1>2, LenFacts DEF agree
<1>5. agree(led[t], led2[t], i)
  BY ZenonT(30), <1>1, <1>3, <1>4, AgreeLower
<1> QED
  BY Zenon, <1>2, <1>5, AgreeTrans DEF t

\* What a request says of a log is true of every extension of the log.
LEMMA PieceExtends ==
    ASSUME NEW a \in Seq(Entry), NEW b \in Seq(Entry), agree(a, b, Len(a)),
           NEW entries \in Seq(Entry), NEW prev \in Nat, piece(a, prev, entries)
    PROVE  piece(b, prev, entries) /\ termAt(b, prev) = termAt(a, prev)
<1>1. /\ Len(a) \in Nat /\ Len(b) \in Nat /\ Len(entries) \in Nat
      /\ Len(a) <= Len(b) /\ \A j \in 1..Len(a) : a[j] = b[j]
  BY Zenon, LenFacts DEF agree
<1>2. prev + Len(entries) <= Len(a) /\ \A k \in 1..Len(entries) : entries[k] = a[prev + k]
  BY Zenon DEF piece
<1>3. \A k \in 1..Len(entries) : prev + k \in 1..Len(a)
  BY <1>1, <1>2
<1>4. piece(b, prev, entries)
  BY <1>1, <1>2, <1>3 DEF piece
<1>5. prev <= Len(a)
  BY <1>1, <1>2
<1>6. termAt(b, prev) = termAt(a, prev)
  BY <1>1, <1>5 DEF termAt
<1> QED
  BY Zenon, <1>4, <1>6

\* An index that a log reaches is reached by every extension of it.
LEMMA BoundExtends ==
    ASSUME NEW a \in Seq(Entry), NEW b \in Seq(Entry), agree(a, b, Len(a)), NEW i \in Nat
    PROVE  (i <= Len(a) => i <= Len(b)) /\ (i <= Len(a) + 1 => i <= Len(b) + 1)
<1>1. Len(a) \in Nat /\ Len(b) \in Nat /\ Len(a) <= Len(b)
  BY Zenon, LenFacts DEF agree
<1> QED
  BY <1>1

\* So is every message in flight: a leader's log only grows.
LEMMA MessageExtends ==
    ASSUME NEW own \in [Nat -> Node \cup {Nil}], NEW own2,
           NEW led \in [Nat -> Seq(Entry)], NEW led2 \in [Nat -> Seq(Entry)],
           Extends(own, led, own2, led2), NEW m \in Message, MessageTraced(own, led, m)
    PROVE  MessageTraced(own2, led2, m)
<1>1. CASE m.type = "append_req"
  <2> DEFINE a == led[m.term]
             b == led2[m.term]
             prev == m.prevLogIndex
             entries == m.entries
  <2>1. m.term \in Nat /\ m.src # Nil /\ entries \in Seq(Entry) /\ prev \in Nat
    BY Zenon, <1>1, MessageFields, NodeAssumption DEF AppendEntriesRequest
  <2>2. own[m.term] = m.src /\ piece(a, prev, entries) /\ m.prevLogTerm = termAt(a, prev)
    BY Zenon, <1>1 DEF MessageTraced
  <2>3. own2[m.term] = m.src /\ agree(a, b, Len(a))
    BY Zenon, <2>1, <2>2 DEF Extends
  <2>4. a \in Seq(Entry) /\ b \in Seq(Entry)
    BY Zenon, <2>1
  <2>5. piece(b, prev, entries) /\ termAt(b, prev) = termAt(a, prev)
    <3> HIDE DEF a, b, prev, entries
    <3> QED
      BY SMTT(30), <2>1, <2>2, <2>3, <2>4, PieceExtends
  <2> QED
    BY Zenon, <1>1, <2>2, <2>3, <2>5 DEF MessageTraced
<1>2. CASE m.type = "append_resp"
  <2> DEFINE a == led[m.reqTerm]
             b == led2[m.reqTerm]
             match == m.matchIndex
             hint == m.conflictIndex
  <2>1. m.reqTerm \in Nat /\ m.dst # Nil /\ match \in Nat /\ hint \in Nat
    BY Zenon, <1>2, MessageFields, NodeAssumption DEF AppendEntriesResponse
  <2>2. own[m.reqTerm] = m.dst /\ match <= Len(a) /\ hint <= Len(a) + 1
    BY Zenon, <1>2 DEF MessageTraced
  <2>3. own2[m.reqTerm] = m.dst /\ agree(a, b, Len(a))
    BY Zenon, <2>1, <2>2 DEF Extends
  <2>4. a \in Seq(Entry) /\ b \in Seq(Entry)
    BY Zenon, <2>1
  <2>5. match <= Len(b) /\ hint <= Len(b) + 1
    <3> HIDE DEF a, b, match, hint
    <3> QED
      BY Zenon, <2>1, <2>2, <2>3, <2>4, BoundExtends
  <2> QED
    BY Zenon, <1>2, <2>3, <2>5 DEF MessageTraced
<1>3. CASE m.type \notin {"append_req", "append_resp"}
  BY Zenon, <1>3 DEF MessageTraced
<1> QED
  BY Zenon, <1>1, <1>2, <1>3

\* A step in which nobody is elected and no leader appends keeps the invariant for
\* the history it had.
LEMMA QuietLogStep ==
    ASSUME ElectionInv, TypeGroups', ElectionStep, NEW own, NEW led, LogInv(own, led),
           LogMoves(own, led),
           \A n \in Node : role'[n] = "leader" =>
              role[n] = "leader" /\ currentTerm'[n] = currentTerm[n] /\ log'[n] = log[n],
           MessagesTraced(own, led)', NextIndexInLog'
    PROVE  LogInv(own, led)'
<1> USE DEF LogInv
<1>1. /\ own \in [Nat -> Node \cup {Nil}] /\ led \in [Nat -> Seq(Entry)]
      /\ \A n \in Node : /\ log[n] \in Seq(Entry) /\ log'[n] \in Seq(Entry)
                         /\ currentTerm[n] \in Nat /\ currentTerm'[n] \in Nat
                         /\ currentTerm'[n] >= currentTerm[n]
  BY Zenon DEF History, ElectionInv, TypeGroups, LogOK, ElectionOK, ElectionStep, VotesKept
<1>2. Elected(own)'
  BY Zenon, <1>1, ElectedStep DEF TypeGroups
<1>3. Leading(own, led)'
  BY Zenon, <1>1 DEF Leading
<1>4. LogsTraced(led)'
  <2> SUFFICES ASSUME NEW n \in Node
               PROVE  Traced(led, log'[n]) /\ TermsUpTo(log'[n], currentTerm'[n])
    BY Zenon DEF LogsTraced
  <2>1. CASE log'[n] = log[n]
    <3>1. Traced(led, log[n]) /\ TermsUpTo(log[n], currentTerm[n])
      BY Zenon DEF LogsTraced
    <3>2. currentTerm[n] <= currentTerm'[n]
      BY Zenon, <1>1
    <3>3. TermsUpTo(log[n], currentTerm'[n])
      BY Zenon, <1>1, <3>1, <3>2, TermsUpToGrows
    <3> QED
      BY Zenon, <2>1, <3>1, <3>3
  <2>2. CASE agree(log'[n], led[currentTerm'[n]], Len(log'[n]))
    <3> DEFINE t == currentTerm'[n]
    <3>1. Traced(led, led[t]) /\ TermsUpTo(led[t], t) /\ led[t] \in Seq(Entry) /\ t \in Nat
      BY Zenon, <1>1 DEF History
    <3> QED
      BY Zenon, <1>1, <2>2, <3>1, TracedPrefix
  <2> QED
    BY Zenon, <2>1, <2>2 DEF LogMoves, merges
<1>5. History(own, led)'
  BY Zenon DEF History, Traced, TermsUpTo
<1> QED
  BY Zenon, <1>2, <1>3, <1>4, <1>5

\* The log of a leader that appends stays traced.
LEMMA GrowsTraced ==
    ASSUME NEW lg \in Seq(Entry), NEW new, NEW t \in Nat, grows(lg, new, t)
    PROVE  /\ new \in Seq(Entry) /\ agree(lg, new, Len(lg))
           /\ TermsUpTo(lg, t) => TermsUpTo(new, t)
           /\ \A led2 \in [Nat -> Seq(Entry)] :
                 Traced(led2, lg) /\ led2[t] = new => Traced(led2, new)
<1>1. CASE new = lg
  BY <1>1, LenFacts DEF agree
<1>2. ASSUME NEW e \in Entry, e.term = t, new = Append(lg, e)
      PROVE  /\ new \in Seq(Entry) /\ agree(lg, new, Len(lg))
             /\ TermsUpTo(lg, t) => TermsUpTo(new, t)
             /\ \A led2 \in [Nat -> Seq(Entry)] :
                   Traced(led2, lg) /\ led2[t] = new => Traced(led2, new)
  <2>1. /\ new \in Seq(Entry) /\ Len(new) = Len(lg) + 1 /\ Len(lg) \in Nat
        /\ \A i \in 1..Len(lg) : new[i] = lg[i]
        /\ new[Len(lg) + 1] = e
    BY <1>2, AppendFacts, LenFacts
  <2>2. agree(lg, new, Len(lg))
    BY <2>1 DEF agree
  <2>3. TermsUpTo(lg, t) => TermsUpTo(new, t)
    BY <1>2, <2>1 DEF TermsUpTo
  <2>4. ASSUME NEW led2 \in [Nat -> Seq(Entry)], Traced(led2, lg), led2[t] = new
        PROVE  Traced(led2, new)
    <3> SUFFICES ASSUME NEW i \in 1..Len(new) PROVE agree(new, led2[new[i].term], i)
      BY Zenon DEF Traced
    <3>1. CASE i = Len(new)
      <4>1. new[i].term = t
        BY Zenon, <1>2, <2>1, <3>1
      <4> QED
        BY SMTT(30), <2>1, <2>4, <3>1, <4>1 DEF agree
    <3>2. CASE i # Len(new)
      <4>1. i \in 1..Len(lg) /\ i <= Len(lg) /\ i \in Nat /\ Len(new) \in Nat
        BY <2>1, <3>2
      <4>2. new[i] = lg[i] /\ agree(lg, led2[lg[i].term], i)
        BY ZenonT(30), <2>1, <2>4, <4>1 DEF Traced
      <4>3. agree(lg, new, i)
        BY Zenon, <2>1, <2>2, <4>1, AgreeLower
      <4> QED
        BY Zenon, <4>2, <4>3, AgreeTrans
    <3> QED
      BY Zenon, <3>1, <3>2
  <2> QED
    BY Zenon, <2>1, <2>2, <2>3, <2>4
<1> QED
  BY Zenon, <1>1, <1>2 DEF grows

\* A candidate with a majority of votes is the first leader of its term.
LEMMA TermVacant ==
    ASSUME ElectionInv, NEW own \in [Nat -> Node \cup {Nil}], Elected(own),
           NEW n \in Node, role[n] = "candidate", NEW Q \in Majorities,
           \A p \in Q : Evidence(n, p, currentTerm[n])
    PROVE  own[currentTerm[n]] = Nil
<1> DEFINE t == currentTerm[n]
           c == own[t]
<1>1. t \in Nat
  BY Zenon DEF ElectionInv, TypeGroups, ElectionOK
<1> SUFFICES ASSUME c # Nil PROVE FALSE
  BY Zenon
<1>2. PICK P \in Majorities : \A p \in P : Settled(c, p, t)
  BY Zenon, <1>1 DEF Elected
<1>3. currentTerm[c] > t \/ (currentTerm[c] = t /\ role[c] # "candidate")
  BY Zenon, <1>1 DEF Elected
<1>4. PICK p \in Node : p \in P /\ p \in Q
  BY Zenon, <1>2, MajoritiesMeet
<1>5. n = c
  BY Zenon, <1>2, <1>4 DEF Settled
<1> QED
  BY SMTT(30), <1>1, <1>3, <1>5

\* A step in which n, elected by it or before, leads its term and may append to its
\* log: the history with the term of n brought up to date.
LEMMA LeaderLogStep ==
    ASSUME ElectionInv, ElectionInv', ElectionStep, NEW own, NEW led, LogInv(own, led),
           NEW n \in Node, role'[n] = "leader", UNCHANGED currentTerm,
           NEW own2, NEW led2, Recorded(own, led, own2, led2, n),
           grows(log[n], log'[n], currentTerm[n]),
           \A p \in Node \ {n} : role'[p] = role[p] /\ log'[p] = log[p]
                                 /\ nextIndex'[p] = nextIndex[p],
           \/ role[n] = "leader"
           \/ /\ role[n] = "candidate"
              /\ \E Q \in Majorities : \A p \in Q :
                    Evidence(n, p, currentTerm[n]) /\ Evidence(n, p, currentTerm[n])',
           \A p \in Node : nextIndex'[n][p] \in 1..(Len(log'[n]) + 1),
           TracedTraffic(own2, led2)
    PROVE  LogInv(own2, led2)' /\ Grown(own, led, own2, led2) /\ LogMoves(own, led)
<1> DEFINE t == currentTerm[n]
<1> USE DEF LogInv
<1>1. /\ own \in [Nat -> Node \cup {Nil}] /\ led \in [Nat -> Seq(Entry)] /\ t \in Nat
      /\ \A p \in Node : log[p] \in Seq(Entry) /\ log'[p] \in Seq(Entry) /\ currentTerm[p] \in Nat
      /\ messages \subseteq Message /\ n # Nil
  BY Zenon, NodeAssumption DEF History, ElectionInv, TypeGroups, LogOK, ElectionOK, MessagesOK
<1>2. /\ own2 \in [Nat -> Node \cup {Nil}] /\ led2 \in [Nat -> Seq(Entry)]
      /\ own2[t] = n /\ led2[t] = log'[n]
      /\ \A u \in Nat \ {t} : own2[u] = own[u] /\ led2[u] = led[u]
  BY Zenon, <1>1 DEF Recorded
<1>3. \/ own[t] = n /\ led[t] = log[n] /\ role[n] = "leader"
      \/ /\ own[t] = Nil /\ led[t] = <<>> /\ role[n] = "candidate"
         /\ \E Q \in Majorities : \A p \in Q : Evidence(n, p, t) /\ Evidence(n, p, t)'
  <2>1. CASE role[n] = "leader"
    BY Zenon, <2>1 DEF Leading
  <2>2. ASSUME role[n] = "candidate", NEW Q \in Majorities,
               \A p \in Q : Evidence(n, p, t) /\ Evidence(n, p, t)'
        PROVE  own[t] = Nil /\ led[t] = <<>>
    <3>1. own[t] = Nil
      BY Zenon, <1>1, <2>2, TermVacant
    <3> QED
      BY Zenon, <1>1, <3>1 DEF History
  <2> QED
    BY Zenon, <2>1, <2>2
<1>4. agree(log[n], log'[n], Len(log[n]))
  BY Zenon, <1>1, GrowsTraced
<1>5. agree(led[t], led2[t], Len(led[t]))
  <2>1. agree(<<>>, log'[n], Len(<<>>))
    BY Zenon, <1>1, AgreeSelf
  <2> QED
    BY Zenon, <1>2, <1>3, <1>4, <2>1
<1>6. Extends(own, led, own2, led2)
  <2> SUFFICES ASSUME NEW u \in Nat
               PROVE  /\ own[u] # Nil => own2[u] = own[u]
                      /\ agree(led[u], led2[u], Len(led[u]))
    BY Zenon DEF Extends
  <2>1. CASE u = t
    BY ZenonT(30), <1>2, <1>3, <1>5, <2>1
  <2>2. CASE u # t
    <3>1. led[u] \in Seq(Entry) /\ led2[u] = led[u] /\ own2[u] = own[u]
      BY ZenonT(30), <1>1, <1>2, <2>2
    <3> QED
      BY Zenon, <3>1, AgreeSelf
  <2> QED
    BY Zenon, <2>1, <2>2
<1>7. \A lg \in Seq(Entry) : Traced(led, lg) => Traced(led2, lg)
  BY ZenonT(30), <1>1, <1>2, <1>6, TracedExtends
<1>8. Traced(led2, log'[n]) /\ TermsUpTo(log'[n], t)
  <2>1. Traced(led, log[n]) /\ TermsUpTo(log[n], t)
    BY Zenon DEF LogsTraced
  <2> QED
    BY ZenonT(30), <1>1, <1>2, <1>7, <2>1, GrowsTraced
<1>9. History(own2, led2)
  <2> SUFFICES ASSUME NEW u \in Nat
               PROVE  /\ own2[u] = Nil => led2[u] = <<>>
                      /\ Traced(led2, led2[u]) /\ TermsUpTo(led2[u], u)
    BY Zenon, <1>2 DEF History
  <2>1. CASE u = t
    BY Zenon, <1>1, <1>2, <1>8, <2>1
  <2>2. CASE u # t
    <3>1. /\ own[u] = Nil => led[u] = <<>>
          /\ Traced(led, led[u]) /\ TermsUpTo(led[u], u) /\ led[u] \in Seq(Entry)
      BY Zenon, <1>1 DEF History
    <3> QED
      BY Zenon, <1>2, <1>7, <2>2, <3>1
  <2> QED
    BY Zenon, <2>1, <2>2
<1>10. Elected(own2)'
  <2>1. Elected(own)'
    BY Zenon, <1>1, ElectedStep DEF ElectionInv, TypeGroups
  <2> SUFFICES ASSUME NEW u \in Nat, own2[u] # Nil
               PROVE  /\ \E Q \in Majorities : \A p \in Q : Settled(own2[u], p, u)'
                      /\ \/ currentTerm'[own2[u]] > u
                         \/ currentTerm'[own2[u]] = u /\ role'[own2[u]] # "candidate"
    BY Zenon DEF Elected, Majorities, quorum
  <2>2. CASE own2[u] = own[u]
    <3>1. /\ \E Q \in Majorities : \A p \in Q : Settled(own[u], p, u)'
          /\ \/ currentTerm'[own[u]] > u
             \/ currentTerm'[own[u]] = u /\ role'[own[u]] # "candidate"
      BY Zenon, <2>1, <2>2 DEF Elected, Majorities, quorum
    <3> QED
      BY Zenon, <2>2, <3>1
  <2>3. CASE own2[u] # own[u]
    <3>1. u = t /\ own2[u] = n
      BY Zenon, <1>2, <2>3
    <3>2. PICK Q \in Majorities : \A p \in Q : Evidence(n, p, t)'
      BY ZenonT(30), <1>2, <1>3, <2>3, <3>1
    <3>3. \A p \in Q : Settled(n, p, t)'
      <4> TAKE p \in Q
      <4>1. p \in Node /\ Evidence(n, p, t)'
        BY Zenon, <3>2 DEF Majorities
      <4> QED
        BY ZenonT(30), <1>1, <4>1 DEF ElectionInv, ElectionCore, EvidenceCast, EvidenceExclusive, Settled
    <3>4. currentTerm'[n] = t /\ role'[n] # "candidate"
      BY Zenon
    <3> QED
      BY Zenon, <3>1, <3>3, <3>4
  <2> QED
    BY Zenon, <2>2, <2>3
<1>11. Leading(own2, led2)'
  <2> SUFFICES ASSUME NEW p \in Node, role'[p] = "leader"
               PROVE  own2[currentTerm[p]] = p /\ led2[currentTerm[p]] = log'[p]
    BY Zenon DEF Leading
  <2>1. CASE p = n
    BY Zenon, <1>2, <2>1
  <2>2. CASE p # n
    <3>1. own[currentTerm[p]] = p /\ led[currentTerm[p]] = log'[p]
      BY Zenon, <2>2 DEF Leading
    <3>2. currentTerm[p] # t
      BY ZenonT(30), <1>3, <2>2, <3>1, NodeAssumption
    <3> QED
      BY ZenonT(30), <1>1, <1>2, <3>1, <3>2
  <2> QED
    BY Zenon, <2>1, <2>2
<1>12. LogsTraced(led2)'
  <2> SUFFICES ASSUME NEW p \in Node
               PROVE  Traced(led2, log'[p]) /\ TermsUpTo(log'[p], currentTerm[p])
    BY Zenon DEF LogsTraced
  <2>1. CASE p = n
    BY Zenon, <1>8, <2>1
  <2>2. CASE p # n
    <3>1. Traced(led, log[p]) /\ TermsUpTo(log[p], currentTerm[p]) /\ log'[p] = log[p]
      BY Zenon, <2>2 DEF LogsTraced
    <3> QED
      BY Zenon, <1>1, <1>7, <3>1
  <2> QED
    BY Zenon, <2>1, <2>2
<1>13. MessagesTraced(own2, led2)'
  <2>1. ASSUME NEW m \in messages PROVE MessageTraced(own2, led2, m)
    <3>1. m \in Message /\ MessageTraced(own, led, m)
      BY Zenon, <1>1 DEF MessagesTraced
    <3> QED
      BY ZenonT(30), <1>1, <1>2, <1>6, <3>1, MessageExtends
  <2> QED
    BY Zenon, <2>1 DEF MessagesTraced, TracedTraffic
<1>14. NextIndexInLog'
  BY Zenon DEF NextIndexInLog
<1>15. Grown(own, led, own2, led2)
  <2> SUFFICES ASSUME NEW u \in Nat
               PROVE  \/ own2[u] = own[u] /\ led2[u] = led[u]
                      \/ \E k \in Node :
                            /\ own2[u] = k /\ led2[u] = log'[k] /\ role'[k] = "leader"
                            /\ currentTerm[k] = u /\ currentTerm'[k] = u
                            /\ agree(led[u], led2[u], Len(led[u]))
                            /\ agree(log[k], log'[k], Len(log[k]))
                            /\ \/ own[u] = k /\ role[k] = "leader"
                               \/ /\ own[u] = Nil /\ role[k] = "candidate"
                                  /\ \E Q \in Majorities : \A p \in Q : Evidence(k, p, u)
    BY Zenon DEF Grown
  <2>1. CASE u # t
    BY Zenon, <1>2, <2>1
  <2>2. CASE u = t
    BY Zenon, <1>2, <1>3, <1>4, <1>5, <2>2
  <2> QED
    BY Zenon, <2>1, <2>2
<1>16. LogMoves(own, led)
  <2>1. ASSUME NEW p \in Node \ {n} PROVE agree(log[p], log'[p], Len(log[p]))
    <3>1. log'[p] = log[p] /\ log[p] \in Seq(Entry)
      BY Zenon, <1>1
    <3> QED
      BY Zenon, <3>1, AgreeSelf
  <2> QED
    BY Zenon, <1>4, <2>1 DEF LogMoves
<1>17. History(own2, led2)'
  BY Zenon, <1>9 DEF History, Traced, TermsUpTo
<1> QED
  BY ZenonT(30), <1>10, <1>11, <1>12, <1>13, <1>14, <1>15, <1>16, <1>17

------------------------------------------------------------------------------
(* Messages sent                                                            *)

\* replicateToPeer sends a piece of the leader's log.
LEMMA ReplicateTraced ==
    ASSUME NEW own, NEW led, NEW n, NEW p, NEW t, NEW lg \in Seq(Entry),
           own[t] = n, led[t] = lg, NEW next \in 1..(Len(lg) + 1), NEW commit
    PROVE  MessageTraced(own, led, replicateToPeer(n, p, t, lg, next, commit))
<1> DEFINE entries == SubSeq(lg, next, Len(lg))
<1>1. Len(lg) \in Nat
  BY Zenon, LenFacts
<1>2. Len(entries) = Len(lg) - next + 1 /\ \A k \in 1..Len(entries) : entries[k] = lg[(next - 1) + k]
  <2>1. /\ Len(entries) = IF next <= Len(lg) THEN Len(lg) - next + 1 ELSE 0
        /\ \A k \in 1..(Len(lg) - next + 1) : entries[k] = lg[next + k - 1]
    BY <1>1, SubSeqFacts
  <2> HIDE DEF entries
  <2>2. Len(entries) = Len(lg) - next + 1
    BY <1>1, <2>1
  <2>3. \A k \in 1..Len(entries) : next + k - 1 = (next - 1) + k
    BY <1>1, <2>2
  <2> QED
    BY Zenon, <2>1, <2>2, <2>3
<1> HIDE DEF entries
<1>3. piece(lg, next - 1, entries)
  BY <1>1, <1>2 DEF piece
<1> QED
  BY Zenon, <1>3 DEF MessageTraced, replicateToPeer, entries

\* The indexes a piece of a log speaks of are indexes of the log.
LEMMA PieceBounds ==
    ASSUME NEW lg \in Seq(Entry), NEW entries \in Seq(Entry), NEW prev \in Nat,
           piece(lg, prev, entries), NEW match \in Nat, match <= prev + Len(entries),
           NEW hint \in Nat, hint <= prev + 1
    PROVE  match <= Len(lg) /\ hint <= Len(lg) + 1 /\ prev <= Len(lg)
<1>1. Len(lg) \in Nat /\ Len(entries) \in Nat /\ prev + Len(entries) <= Len(lg)
  BY Zenon, LenFacts DEF piece
<1> QED
  BY <1>1

\* An answer to a traced AppendEntries that speaks of no index beyond the request,
\* or of the one after its previous index, is traced.
LEMMA ResponseTraced ==
    ASSUME NEW own, NEW led \in [Nat -> Seq(Entry)], NEW m \in AppendEntriesRequest,
           MessageTraced(own, led, m), NEW term, NEW success, NEW hintTerm,
           NEW match \in Nat, match <= m.prevLogIndex + Len(m.entries),
           NEW hint \in Nat, hint <= m.prevLogIndex + 1
    PROVE  MessageTraced(own, led, appendResponse(m, term, success, match, hintTerm, hint))
<1> DEFINE prev == m.prevLogIndex
           entries == m.entries
           lg == led[m.term]
<1>1. /\ m.type = "append_req" /\ m.term \in Nat /\ prev \in Nat /\ entries \in Seq(Entry)
      /\ lg \in Seq(Entry)
  BY Zenon DEF AppendEntriesRequest
<1>2. own[m.term] = m.src /\ piece(lg, prev, entries)
  BY Zenon, <1>1 DEF MessageTraced
<1>3. match <= prev + Len(entries) /\ hint <= prev + 1
  BY Zenon
<1> HIDE DEF prev, entries, lg
<1>4. match <= Len(lg) /\ hint <= Len(lg) + 1
  BY Zenon, <1>1, <1>2, <1>3, PieceBounds
<1> QED
  BY Zenon, <1>2, <1>4 DEF MessageTraced, appendResponse, lg

\* What transmit, reply and discard leave in flight.
LEMMA TrafficTraced ==
    ASSUME NEW own, NEW led
    PROVE  /\ \A m : discard(m) => TracedTraffic(own, led)
           /\ UNCHANGED messages => TracedTraffic(own, led)
           /\ \A sent : \A rest \in SUBSET messages :
                 transmit(rest, sent) /\ (\A x \in sent : MessageTraced(own, led, x))
                    => TracedTraffic(own, led)
           /\ \A m, r : reply(m, r) /\ MessageTraced(own, led, r) => TracedTraffic(own, led)
           /\ \A m, r, dup : replyOrDuplicate(m, r, dup) /\ MessageTraced(own, led, r)
                    => TracedTraffic(own, led)
<1>1. \A sent : \A rest \in SUBSET messages :
         transmit(rest, sent) /\ (\A x \in sent : MessageTraced(own, led, x))
            => TracedTraffic(own, led)
  BY Zenon DEF transmit, TracedTraffic
<1>2. \A m, r : reply(m, r) /\ MessageTraced(own, led, r) => TracedTraffic(own, led)
  BY <1>1 DEF reply
<1> QED
  BY Zenon, <1>1, <1>2 DEF discard, replyOrDuplicate, TracedTraffic

\* An answer to a RequestVote says nothing of a log.
LEMMA VoteReplyTraced ==
    ASSUME NEW own, NEW led, NEW m, NEW term, NEW granted
    PROVE  MessageTraced(own, led, voteResponse(m, term, granted))
BY Zenon DEF MessageTraced, voteResponse

\* A leader's AppendEntries to every peer are traced.
LEMMA BroadcastTraced ==
    ASSUME NEW own, NEW led, NEW n \in Node, NEW t, NEW lg \in Seq(Entry),
           own[t] = n, led[t] = lg, NEW next,
           \A p \in Node : next[p] \in 1..(Len(lg) + 1), NEW commit
    PROVE  \A x \in replicateToAll(n, t, lg, next, commit) : MessageTraced(own, led, x)
<1> SUFFICES ASSUME NEW p \in peers(n)
             PROVE  MessageTraced(own, led, replicateToPeer(n, p, t, lg, next[p], commit))
  BY Zenon DEF replicateToAll
<1> QED
  BY Zenon, ReplicateTraced DEF peers

------------------------------------------------------------------------------
(* The handlers                                                             *)

\* A step that leaves leaders alone keeps the invariant.
LEMMA KeptLogStep ==
    ASSUME NEW own, NEW led, StepFrom(own, led), LogMoves(own, led), LeadersKept,
           TracedTraffic(own, led)
    PROVE  LogInv(own, led)'
<1>1. NextIndexInLog'
  BY Zenon DEF StepFrom, LogInv, NextIndexInLog, LeadersKept
<1>2. MessagesTraced(own, led)'
  BY Zenon DEF StepFrom, LogInv, MessagesTraced, TracedTraffic
<1> QED
  BY Zenon, <1>1, <1>2, QuietLogStep DEF StepFrom, LeadersKept, ElectionInv

\* Nothing moves in a step that leaves the logs alone.
LEMMA LogUnmoved ==
    ASSUME LogOK, UNCHANGED log, NEW own, NEW led
    PROVE  LogMoves(own, led)
<1>1. \A n \in Node : log'[n] = log[n] /\ agree(log[n], log[n], Len(log[n]))
  BY Zenon, AgreeSelf DEF LogOK
<1> QED
  BY Zenon, <1>1 DEF LogMoves

\* becomeFollower concerns no leader but n, which stops being one.
LEMMA FollowerLeaders ==
    ASSUME TypeGroups, NEW n \in Node, NEW term, NEW leader, becomeFollower(n, term, leader),
           \A p \in Node \ {n} : log'[p] = log[p]
    PROVE  LeadersKept /\ role'[n] = "follower"
BY Zenon DEF TypeGroups, ElectionOK, LeaderOK, becomeFollower, forgetCandidacy, LeadersKept

\* Stepping down on a response keeps the invariant.
LEMMA StepDownLog ==
    ASSUME NEW own, NEW led, StepFrom(own, led), NEW n \in Node, NEW m, stepDown(n, m)
    PROVE  LogInv(own, led)' /\ LogMoves(own, led) /\ LeadersKept
<1>1. LogMoves(own, led)
  BY Zenon, LogUnmoved DEF StepFrom, ElectionInv, TypeGroups, stepDown
<1>2. LeadersKept
  BY Zenon, FollowerLeaders DEF StepFrom, ElectionInv, stepDown
<1>3. TracedTraffic(own, led)
  BY Zenon, TrafficTraced DEF stepDown
<1> QED
  BY ZenonT(30), <1>1, <1>2, <1>3, KeptLogStep

\* Neither starting an election nor answering a RequestVote touches a log.
LEMMA ElectionLog ==
    ASSUME NEW own, NEW led, StepFrom(own, led), NEW n \in Node,
           onElectionTimeout(n) \/ \E m \in messages : handleRequestVote(n, m)
    PROVE  LogInv(own, led)' /\ LogMoves(own, led) /\ LeadersKept
<1> USE DEF StepFrom, ElectionInv, TypeGroups
<1>1. CASE onElectionTimeout(n)
  <2>1. LogMoves(own, led)
    BY Zenon, <1>1, LogUnmoved DEF onElectionTimeout
  <2>2. LeadersKept
    BY ZenonT(30), <1>1 DEF onElectionTimeout, LeadersKept, leaderVars, ElectionOK
  <2>3. TracedTraffic(own, led)
    <3> DEFINE req(p) == [type |-> "vote_req", src |-> n, dst |-> p, awaited |-> TRUE,
                          term |-> currentTerm[n] + 1, lastLogIndex |-> Len(log[n]),
                          lastLogTerm |-> lastLogTerm(n)]
    <3>1. \A p : MessageTraced(own, led, req(p))
      BY Zenon DEF MessageTraced
    <3>2. transmit(messages, {req(p) : p \in peers(n)})
      BY Zenon, <1>1 DEF onElectionTimeout
    <3> HIDE DEF req
    <3> QED
      BY Zenon, <3>1, <3>2 DEF transmit, TracedTraffic
  <2> QED
    BY ZenonT(30), <2>1, <2>2, <2>3, KeptLogStep
<1>2. ASSUME NEW m \in messages, handleRequestVote(n, m)
      PROVE  LogInv(own, led)' /\ LogMoves(own, led) /\ LeadersKept
  <2>1. UNCHANGED log
    BY Zenon, <1>2 DEF handleRequestVote, refuseVote, denyVote, grantVote
  <2>2. LogMoves(own, led)
    BY Zenon, <2>1, LogUnmoved
  <2>3. TracedTraffic(own, led)
    BY Zenon, <1>2, TrafficTraced, VoteReplyTraced
       DEF handleRequestVote, refuseVote, denyVote, grantVote
  <2>4. LeadersKept
    <3>1. CASE refuseVote(n, m)
      BY Zenon, <2>1, <3>1 DEF refuseVote, LeadersKept, electionVars, leaderVars
    <3>2. CASE denyVote(n, m)
      <4>1. CASE m.term > currentTerm[n]
        BY ZenonT(30), <2>1, <3>2, <4>1, FollowerLeaders DEF denyVote
      <4>2. CASE ~(m.term > currentTerm[n])
        BY ZenonT(30), <2>1, <3>2, <4>2 DEF denyVote, LeadersKept, electionVars, leaderVars
      <4> QED
        BY Zenon, <4>1, <4>2
    <3>3. CASE grantVote(n, m)
      <4>1. CASE m.term > currentTerm[n]
        <5>1. /\ currentTerm' = [currentTerm EXCEPT ![n] = m.term]
              /\ role' = [role EXCEPT ![n] = "follower"]
              /\ nextIndex' = [nextIndex EXCEPT ![n] = [p \in Node |-> 1]]
              /\ matchIndex' = [matchIndex EXCEPT ![n] = [p \in Node |-> 0]]
          BY Zenon, <3>3, <4>1 DEF grantVote, forgetCandidacy
        <5>2. role'[n] # "leader"
          BY Zenon, <5>1 DEF ElectionOK
        <5>3. \A l \in Node : l = n \/ /\ role'[l] = role[l]
                                       /\ currentTerm'[l] = currentTerm[l]
                                       /\ nextIndex'[l] = nextIndex[l]
                                       /\ matchIndex'[l] = matchIndex[l]
          BY ZenonT(30), <5>1 DEF ElectionOK, LeaderOK
        <5> QED
          BY Zenon, <2>1, <5>2, <5>3 DEF LeadersKept
      <4>2. CASE ~(m.term > currentTerm[n])
        BY Zenon, <2>1, <3>3, <4>2 DEF grantVote, LeadersKept, leaderVars
      <4> QED
        BY Zenon, <4>1, <4>2
    <3> QED
      BY ZenonT(30), <1>2, <3>1, <3>2, <3>3 DEF handleRequestVote
  <2> QED
    BY ZenonT(30), <2>2, <2>3, <2>4, KeptLogStep
<1> QED
  BY Zenon, <1>1, <1>2

\* Counting a vote that does not decide the election touches no log.
LEMMA CollectLog ==
    ASSUME NEW own, NEW led, StepFrom(own, led), NEW n \in Node, NEW m \in messages,
           ignoreVote(n, m) \/ keepCollecting(n, m)
    PROVE  LogInv(own, led)' /\ LogMoves(own, led) /\ LeadersKept
<1> USE DEF StepFrom, ElectionInv, TypeGroups
<1>1. LogMoves(own, led)
  BY Zenon, LogUnmoved DEF ignoreVote, keepCollecting
<1>2. LeadersKept
  BY Zenon DEF ignoreVote, keepCollecting, LeadersKept, electionVars, leaderVars
<1>3. TracedTraffic(own, led)
  BY Zenon, TrafficTraced DEF ignoreVote, keepCollecting
<1> QED
  BY Zenon, <1>1, <1>2, <1>3, KeptLogStep

\* The vote that decides the election: the winner is the first leader of its term,
\* and its log, with the no-op or without, becomes the log of the term.
LEMMA PromoteLog ==
    ASSUME NEW own, NEW led, StepFrom(own, led), NEW n \in Node, NEW m \in messages,
           m.type = "vote_resp", m.dst = n, promoteToLeader(n, m),
           NEW own2, NEW led2, Recorded(own, led, own2, led2, n)
    PROVE  LogInv(own2, led2)' /\ Grown(own, led, own2, led2) /\ LogMoves(own, led)
<1> DEFINE t == currentTerm[n]
<1> USE DEF StepFrom
<1>1. /\ role \in [Node -> {"follower", "candidate", "leader"}] /\ t \in Nat
      /\ log[n] \in Seq(Entry) /\ log \in [Node -> Seq(Entry)] /\ log'[n] \in Seq(Entry)
      /\ voters \in [Node -> SUBSET Node] /\ m \in Message
      /\ own \in [Nat -> Node \cup {Nil}] /\ led \in [Nat -> Seq(Entry)]
      /\ nextIndex \in [Node -> [Node -> Nat \ {0}]]
  BY Zenon DEF ElectionInv, TypeGroups, ElectionOK, LogOK, MessagesOK, LeaderOK, LogInv, History
<1>2. /\ role[n] = "candidate" /\ m.reqTerm = t /\ m.granted
      /\ voters' = [voters EXCEPT ![n] = @ \cup {m.src}]
      /\ role' = [role EXCEPT ![n] = "leader"] /\ UNCHANGED currentTerm
      /\ nextIndex' = [nextIndex EXCEPT ![n] = [p \in Node |-> initialNextIndex(n)]]
  BY Zenon DEF promoteToLeader, countVote, currentElection
<1>3. grows(log[n], log'[n], t) /\ \A p \in Node \ {n} : log'[p] = log[p]
  <2>1. ASSUME log' = [log EXCEPT ![n] = Append(@, [term |-> t, command |-> Noop])]
        PROVE  grows(log[n], log'[n], t) /\ \A p \in Node \ {n} : log'[p] = log[p]
    <3>1. log'[n] = Append(log[n], [term |-> t, command |-> Noop])
      BY Zenon, <1>1, <2>1
    <3>2. [term |-> t, command |-> Noop] \in Entry
      BY Zenon, <1>1 DEF Entry
    <3> QED
      BY Zenon, <1>1, <2>1, <3>1, <3>2 DEF grows
  <2>2. CASE UNCHANGED log
    BY Zenon, <2>2 DEF grows
  <2> QED
    BY Zenon, <2>1, <2>2 DEF promoteToLeader
<1>4. \E Q \in Majorities : \A p \in Q : Evidence(n, p, t) /\ Evidence(n, p, t)'
  <2>1. voters'[n] = voters[n] \cup {m.src} /\ m.src \in Node
    BY Zenon, <1>1, <1>2, MessageFields
  <2>2. voters'[n] \in Majorities
    <3>1. votesGranted'[n] = Cardinality(voters'[n]) /\ votesGranted'[n] >= quorum
      BY Zenon, <1>1, <1>2 DEF ElectionInv, ElectionCore, Tally
    <3> QED
      BY ZenonT(30), <1>1, <2>1, <3>1 DEF Majorities
  <2>3. \A p \in voters'[n] : Evidence(n, p, t)'
    BY Zenon, <1>2 DEF Evidence
  <2>4. \A p \in voters'[n] : Evidence(n, p, t)
    BY Zenon, <1>2, <2>1 DEF Evidence, grants, concerns
  <2> QED
    BY ZenonT(30), <2>2, <2>3, <2>4
<1>5. \A p \in Node : nextIndex'[n][p] \in 1..(Len(log'[n]) + 1)
  <2>1. agree(log[n], log'[n], Len(log[n]))
    BY Zenon, <1>1, <1>3, GrowsTraced
  <2>2. Len(log[n]) \in Nat /\ Len(log'[n]) \in Nat /\ Len(log[n]) <= Len(log'[n])
    BY ZenonT(30), <1>1, <2>1, LenFacts DEF agree
  <2>3. \A p \in Node : nextIndex'[n][p] = Len(log[n]) + 1
    BY Zenon, <1>1, <1>2 DEF initialNextIndex
  <2> QED
    BY <2>2, <2>3
<1>6. TracedTraffic(own2, led2)
  <2>1. own2[t] = n /\ led2[t] = log'[n]
    BY Zenon, <1>1 DEF Recorded
  <2>2. \A x \in replicateToAll(n, t, log'[n], nextIndex'[n], commitIndex[n]) :
           MessageTraced(own2, led2, x)
    BY ZenonT(30), <1>1, <1>5, <2>1, BroadcastTraced
  <2>3. transmit(messages \ {m},
                 replicateToAll(n, t, log'[n], nextIndex'[n], commitIndex[n]))
    BY Zenon DEF promoteToLeader
  <2> QED
    BY Zenon, <2>2, <2>3, TrafficTraced
<1>7. /\ role'[n] = "leader"
      /\ \A p \in Node \ {n} : role'[p] = role[p] /\ log'[p] = log[p]
                               /\ nextIndex'[p] = nextIndex[p]
  BY ZenonT(30), <1>1, <1>2, <1>3
<1> QED
  BY ZenonT(30), <1>2, <1>3, <1>4, <1>5, <1>6, <1>7, LeaderLogStep

\* A proposal extends the log of the leader's term.
LEMMA ProposeLog ==
    ASSUME NEW own, NEW led, StepFrom(own, led), NEW n \in Node, NEW c \in Command,
           handlePropose(n, c), NEW own2, NEW led2, Recorded(own, led, own2, led2, n)
    PROVE  LogInv(own2, led2)' /\ Grown(own, led, own2, led2) /\ LogMoves(own, led)
<1> DEFINE t == currentTerm[n]
<1> USE DEF StepFrom
<1>1. /\ t \in Nat /\ log[n] \in Seq(Entry) /\ log \in [Node -> Seq(Entry)]
      /\ log'[n] \in Seq(Entry)
      /\ own \in [Nat -> Node \cup {Nil}] /\ led \in [Nat -> Seq(Entry)]
  BY Zenon DEF ElectionInv, TypeGroups, ElectionOK, LogOK, LogInv, History
<1>2. /\ role[n] = "leader" /\ UNCHANGED <<role, currentTerm, nextIndex>>
      /\ log' = [log EXCEPT ![n] = Append(@, [term |-> t, command |-> c])]
  BY Zenon DEF handlePropose, electionVars, leaderVars
<1>3. grows(log[n], log'[n], t) /\ \A p \in Node \ {n} : log'[p] = log[p]
  <2>1. log'[n] = Append(log[n], [term |-> t, command |-> c])
    BY Zenon, <1>1, <1>2
  <2>2. [term |-> t, command |-> c] \in Entry
    BY Zenon, <1>1 DEF Entry
  <2> QED
    BY ZenonT(30), <1>1, <1>2, <2>1, <2>2 DEF grows
<1>4. \A p \in Node : nextIndex'[n][p] \in 1..(Len(log'[n]) + 1)
  <2>1. agree(log[n], log'[n], Len(log[n]))
    BY ZenonT(30), <1>1, <1>3, GrowsTraced
  <2>2. Len(log[n]) \in Nat /\ Len(log'[n]) \in Nat /\ Len(log[n]) <= Len(log'[n])
    BY ZenonT(30), <1>1, <2>1, LenFacts DEF agree
  <2>3. \A p \in Node : nextIndex'[n][p] \in 1..(Len(log[n]) + 1)
    BY ZenonT(30), <1>2 DEF LogInv, NextIndexInLog
  <2> QED
    BY SMTT(30), <2>2, <2>3
<1>5. TracedTraffic(own2, led2)
  <2>1. own2[t] = n /\ led2[t] = log'[n]
    BY Zenon, <1>1 DEF Recorded
  <2>2. \A x \in replicateToAll(n, t, log'[n], nextIndex'[n], commitIndex[n]) :
           MessageTraced(own2, led2, x)
    BY ZenonT(30), <1>1, <1>4, <2>1, BroadcastTraced
  <2>3. transmit(messages, replicateToAll(n, t, log'[n], nextIndex'[n], commitIndex[n]))
    BY Zenon, <1>2 DEF handlePropose
  <2> QED
    BY Zenon, <2>2, <2>3, TrafficTraced
<1> QED
  BY ZenonT(30), <1>2, <1>3, <1>4, <1>5, LeaderLogStep

\* A heartbeat repeats pieces of the leader's log.
LEMMA HeartbeatLog ==
    ASSUME NEW own, NEW led, StepFrom(own, led), NEW n \in Node, onHeartbeat(n)
    PROVE  LogInv(own, led)' /\ LogMoves(own, led) /\ LeadersKept
<1> USE DEF StepFrom
<1>1. LogMoves(own, led)
  BY Zenon, LogUnmoved DEF onHeartbeat, ElectionInv, TypeGroups
<1>2. LeadersKept
  BY Zenon DEF onHeartbeat, LeadersKept, electionVars, leaderVars
<1>3. TracedTraffic(own, led)
  <2>1. /\ own[currentTerm[n]] = n /\ led[currentTerm[n]] = log[n]
        /\ \A p \in Node : nextIndex[n][p] \in 1..(Len(log[n]) + 1)
        /\ log[n] \in Seq(Entry)
    BY Zenon DEF onHeartbeat, LogInv, Leading, NextIndexInLog, ElectionInv, TypeGroups, LogOK
  <2>2. \A x \in replicateToAll(n, currentTerm[n], log[n], nextIndex[n], commitIndex[n]) :
           MessageTraced(own, led, x)
    BY ZenonT(30), <2>1, BroadcastTraced
  <2> QED
    BY Zenon, <2>2, TrafficTraced DEF onHeartbeat
<1> QED
  BY ZenonT(30), <1>1, <1>2, <1>3, KeptLogStep

\* The hint of a rejected AppendEntries is no further than its previous index.
LEMMA RejectHint ==
    ASSUME NEW lg \in Seq(Entry), NEW prev \in Nat, prev > Len(lg) \/ prev \in 1..Len(lg)
    PROVE  LET hint == IF prev > Len(lg) THEN Len(lg) + 1 ELSE firstIndexOfTerm(lg, prev)
           IN  hint \in Nat /\ hint <= prev + 1
<1>1. Len(lg) \in Nat
  BY Zenon, LenFacts
<1>2. CASE prev > Len(lg)
  BY <1>1, <1>2
<1>3. CASE ~(prev > Len(lg))
  <2>1. firstIndexOfTerm(lg, prev) \in 1..prev
    BY ZenonT(30), <1>3, FirstIndexType
  <2> QED
    BY SMTT(30), <1>1, <1>3, <2>1
<1> QED
  BY ZenonT(30), <1>2, <1>3

\* Handling an AppendEntries keeps the invariant, whichever way it is answered.
LEMMA AppendEntriesLog ==
    ASSUME NEW own, NEW led, StepFrom(own, led), NEW n \in Node, NEW m \in messages,
           NEW dup \in BOOLEAN, handleAppendEntries(n, m, dup)
    PROVE  LogInv(own, led)' /\ LogMoves(own, led) /\ LeadersKept
<1> USE DEF StepFrom
<1>1. /\ m.type = "append_req" /\ m \in AppendEntriesRequest
      /\ led \in [Nat -> Seq(Entry)] /\ MessageTraced(own, led, m)
      /\ m.prevLogIndex \in Nat /\ m.entries \in Seq(Entry) /\ m.term \in Nat
      /\ log[n] \in Seq(Entry)
  BY Zenon, MessageFields DEF handleAppendEntries, ElectionInv, TypeGroups, MessagesOK, LogInv,
     History, MessagesTraced, AppendEntriesRequest, LogOK
<1>2. 0 \in Nat /\ 0 <= m.prevLogIndex + Len(m.entries) /\ 0 <= m.prevLogIndex + 1
  BY Zenon, <1>1, RequestExtent
<1>3. \A term, success, hintTerm :
         MessageTraced(own, led, appendResponse(m, term, success, 0, hintTerm, 0))
  BY Zenon, <1>1, <1>2, ResponseTraced
<1>4. CASE refuseAppend(n, m, dup)
  <2>1. LogMoves(own, led)
    BY ZenonT(30), <1>4, LogUnmoved DEF refuseAppend, ElectionInv, TypeGroups
  <2>2. LeadersKept
    BY Zenon, <1>4 DEF refuseAppend, LeadersKept, electionVars, leaderVars
  <2>3. TracedTraffic(own, led)
    BY Zenon, <1>3, <1>4, TrafficTraced DEF refuseAppend
  <2> QED
    BY ZenonT(30), <2>1, <2>2, <2>3, KeptLogStep
<1>5. CASE rejectAppend(n, m, dup)
  <2>1. LogMoves(own, led)
    BY ZenonT(30), <1>5, LogUnmoved DEF rejectAppend, ElectionInv, TypeGroups
  <2>2. LeadersKept
    BY ZenonT(30), <1>5, FollowerLeaders DEF rejectAppend, follow, ElectionInv
  <2> DEFINE lg == log[n]
             prev == m.prevLogIndex
             hint == IF prev > Len(lg) THEN Len(lg) + 1 ELSE firstIndexOfTerm(lg, prev)
  <2>3. hint \in Nat /\ hint <= prev + 1
    <3>1. prev # 0 /\ prev \in Nat /\ lg \in Seq(Entry)
      BY Zenon, <1>1, <1>5 DEF rejectAppend, prevLogMatches
    <3> HIDE DEF lg, prev
    <3>2. prev > Len(lg) \/ prev \in 1..Len(lg)
      BY <3>1, LenFacts
    <3> QED
      BY Zenon, <3>1, <3>2, RejectHint
  <2>4. PICK hintTerm :
           replyOrDuplicate(m, appendResponse(m, m.term, FALSE, 0, hintTerm, hint), dup)
    BY Zenon, <1>5 DEF rejectAppend
  <2> HIDE DEF hint
  <2>5. MessageTraced(own, led, appendResponse(m, m.term, FALSE, 0, hintTerm, hint))
    BY Zenon, <1>1, <1>2, <2>3, ResponseTraced
  <2>6. TracedTraffic(own, led)
    BY Zenon, <2>4, <2>5, TrafficTraced
  <2> QED
    BY ZenonT(30), <2>1, <2>2, <2>6, KeptLogStep
<1>6. CASE failAppend(n, m, dup)
  <2>1. LogMoves(own, led)
    BY ZenonT(30), <1>6, LogUnmoved DEF failAppend, ElectionInv, TypeGroups
  <2>2. LeadersKept
    BY Zenon, <1>6, FollowerLeaders DEF failAppend, follow, ElectionInv
  <2>3. TracedTraffic(own, led)
    BY Zenon, <1>3, <1>6, TrafficTraced DEF failAppend
  <2> QED
    BY ZenonT(30), <2>1, <2>2, <2>3, KeptLogStep
<1>7. CASE acceptAppend(n, m, dup)
  <2>1. /\ currentTerm'[n] = m.term /\ role'[n] = "follower"
        /\ own[m.term] = m.src /\ leaderID'[n] = m.src
        /\ \A p \in Node \ {n} : log'[p] = log[p]
        /\ merges(log[n], log'[n], led[m.term])
    <3>1. ElectionInv /\ LogInv(own, led) /\ m.type = "append_req"
      BY Zenon, <1>1
    <3> HIDE DEF StepFrom
    <3> QED
      BY ZenonT(60), <1>7, <3>1, AcceptMerges
  <2>2. LogMoves(own, led)
    <3>1. m.src # Nil
      BY Zenon, <1>1, NodeAssumption DEF AppendEntriesRequest
    <3>2. ASSUME NEW p \in Node \ {n}
          PROVE  agree(log[p], log'[p], Len(log[p])) /\ log'[p] = log[p]
      BY Zenon, <2>1, AgreeSelf DEF ElectionInv, TypeGroups, LogOK
    <3> QED
      BY Zenon, <2>1, <3>1, <3>2 DEF LogMoves
  <2>3. LeadersKept
    BY Zenon, <1>7, <2>1, FollowerLeaders DEF acceptAppend, follow, ElectionInv
  <2> DEFINE match == m.prevLogIndex + Len(m.entries)
  <2>4. replyOrDuplicate(m, appendResponse(m, m.term, TRUE, match, 0, 0), dup)
    BY Zenon, <1>7 DEF acceptAppend, matchedUpTo
  <2>5. match \in Nat /\ match <= m.prevLogIndex + Len(m.entries)
    BY Zenon, <1>1, RequestExtent
  <2> HIDE DEF match
  <2>6. MessageTraced(own, led, appendResponse(m, m.term, TRUE, match, 0, 0))
    BY ZenonT(30), <1>1, <1>2, <2>5, ResponseTraced
  <2>7. TracedTraffic(own, led)
    BY Zenon, <2>4, <2>6, TrafficTraced
  <2> QED
    BY ZenonT(30), <2>2, <2>3, <2>7, KeptLogStep
<1> QED
  BY ZenonT(30), <1>4, <1>5, <1>6, <1>7 DEF handleAppendEntries

\* Where the hints of a rejection move nextIndex: no further than one past the log.
LEMMA BackupInLog ==
    ASSUME NEW n, NEW m, log[n] \in Seq(Entry), m.conflictIndex \in Nat,
           m.conflictIndex <= Len(log[n]) + 1
    PROVE  backupNextIndex(n, m) \in 1..(Len(log[n]) + 1)
<1> DEFINE known == lastIndexWithTerm(log[n], m.conflictTerm)
           hint == m.conflictIndex
           len == Len(log[n])
<1>1. known \in 0..len /\ len \in Nat /\ hint \in Nat /\ hint <= len + 1
  BY Zenon, LastIndexType, LenFacts
<1>2. backupNextIndex(n, m) = larger(1, IF m.conflictTerm # 0 /\ known > 0 THEN known + 1 ELSE hint)
  BY Zenon DEF backupNextIndex
<1> HIDE DEF known, hint, len
<1> QED
  BY SMTT(30), <1>1, <1>2 DEF larger, len

\* Only the reply's sender moves in the leader's progress, and stays in the log.
LEMMA ProgressInLog ==
    ASSUME NEW own, NEW led, StepFrom(own, led), NEW n \in Node, NEW m \in messages,
           m.type = "append_resp", m.dst = n, retryAppend(n, m) \/ recordProgress(n, m)
    PROVE  /\ \A p \in Node : nextIndex'[n][p] \in 1..(Len(log[n]) + 1)
           /\ \A l \in Node \ {n} : nextIndex'[l] = nextIndex[l]
           /\ own[currentTerm[n]] = n /\ led[currentTerm[n]] = log[n]
           /\ role[n] = "leader" /\ log[n] \in Seq(Entry) /\ m.src \in Node
           /\ MessageTraced(own, led, m) /\ m.reqTerm = currentTerm[n]
<1> USE DEF StepFrom
<1>1. /\ role[n] = "leader" /\ m.reqTerm = currentTerm[n] /\ currentTerm[n] \in Nat
      /\ log[n] \in Seq(Entry) /\ Len(log[n]) \in Nat /\ m \in AppendEntriesResponse
      /\ nextIndex \in [Node -> [Node -> Nat \ {0}]]
  BY ZenonT(30), MessageFields, LenFacts DEF ElectionInv, TypeGroups, ElectionOK, LogOK,
     LeaderOK, MessagesOK, retryAppend, recordProgress, currentReply
<1>2. own[currentTerm[n]] = n /\ led[currentTerm[n]] = log[n]
  BY Zenon, <1>1 DEF LogInv, Leading
<1>3. \A p \in Node : nextIndex[n][p] \in 1..(Len(log[n]) + 1)
  BY Zenon, <1>1 DEF LogInv, NextIndexInLog
<1>4. m.src \in Node /\ m.matchIndex \in Nat /\ m.conflictIndex \in Nat
  BY Zenon, <1>1 DEF AppendEntriesResponse
<1>5. MessageTraced(own, led, m)
  BY Zenon DEF LogInv, MessagesTraced
<1>6. m.matchIndex <= Len(log[n]) /\ m.conflictIndex <= Len(log[n]) + 1
  BY ZenonT(30), <1>1, <1>2, <1>5 DEF MessageTraced
<1>7. CASE retryAppend(n, m)
  <2>1. backupNextIndex(n, m) \in 1..(Len(log[n]) + 1)
    BY ZenonT(30), <1>1, <1>4, <1>6, BackupInLog
  <2>2. nextIndex' = [nextIndex EXCEPT ![n][m.src] = backupNextIndex(n, m)]
    BY Zenon, <1>7 DEF retryAppend
  <2>3. \A l \in Node \ {n} : nextIndex'[l] = nextIndex[l]
    BY Zenon, <1>1, <2>2
  <2>4. \A p \in Node : nextIndex'[n][p] = IF p = m.src THEN backupNextIndex(n, m)
                                                        ELSE nextIndex[n][p]
    BY Zenon, <1>1, <1>4, <2>2
  <2> QED
    BY ZenonT(30), <1>1, <1>2, <1>3, <1>4, <1>5, <2>1, <2>3, <2>4
<1>8. CASE recordProgress(n, m)
  <2>1. m.matchIndex + 1 \in 1..(Len(log[n]) + 1)
    BY SMTT(30), <1>1, <1>4, <1>6
  <2>2. \/ nextIndex' = [nextIndex EXCEPT ![n][m.src] = m.matchIndex + 1]
        \/ UNCHANGED nextIndex
    BY Zenon, <1>8 DEF recordProgress, leaderVars
  <2>3. \A l \in Node \ {n} : nextIndex'[l] = nextIndex[l]
    BY Zenon, <1>1, <2>2
  <2>4. \A p \in Node : nextIndex'[n][p] \in {m.matchIndex + 1, nextIndex[n][p]}
    <3>1. CASE nextIndex' = [nextIndex EXCEPT ![n][m.src] = m.matchIndex + 1]
      <4>1. nextIndex'[n] = [nextIndex[n] EXCEPT ![m.src] = m.matchIndex + 1]
        BY Zenon, <1>1, <3>1
      <4>2. nextIndex[n] \in [Node -> Nat \ {0}]
        BY Zenon, <1>1
      <4> QED
        BY Zenon, <4>1, <4>2
    <3>2. CASE UNCHANGED nextIndex
      BY Zenon, <3>2
    <3> QED
      BY Zenon, <2>2, <3>1, <3>2
  <2> QED
    BY ZenonT(30), <1>1, <1>2, <1>3, <1>4, <1>5, <2>1, <2>3, <2>4
<1> QED
  BY Zenon, <1>7, <1>8

\* Handling an answer to an AppendEntries keeps the invariant.
LEMMA AppendResponseLog ==
    ASSUME NEW own, NEW led, StepFrom(own, led), NEW n \in Node, NEW m \in messages,
           handleAppendResponse(n, m)
    PROVE  LogInv(own, led)' /\ LogMoves(own, led)
<1> USE DEF StepFrom
<1>1. CASE stepDown(n, m)
  BY Zenon, <1>1, StepDownLog
<1>2. CASE ~stepDown(n, m)
  <2>1. UNCHANGED <<log, role, currentTerm>>
    BY Zenon, <1>2 DEF handleAppendResponse, ignoreReply, retryAppend, recordProgress, electionVars
  <2>2. LogMoves(own, led)
    BY ZenonT(30), <2>1, LogUnmoved DEF ElectionInv, TypeGroups
  <2>3. CASE ignoreReply(n, m)
    <3>1. LeadersKept
      BY Zenon, <2>3 DEF ignoreReply, LeadersKept, electionVars, leaderVars
    <3>2. TracedTraffic(own, led)
      BY ZenonT(30), <2>3, TrafficTraced DEF ignoreReply
    <3> QED
      BY ZenonT(30), <2>2, <3>1, <3>2, KeptLogStep
  <2>4. CASE retryAppend(n, m) \/ recordProgress(n, m)
    <3>1. /\ \A p \in Node : nextIndex'[n][p] \in 1..(Len(log[n]) + 1)
          /\ \A l \in Node \ {n} : nextIndex'[l] = nextIndex[l]
          /\ own[currentTerm[n]] = n /\ led[currentTerm[n]] = log[n]
          /\ log[n] \in Seq(Entry) /\ m.src \in Node
      <4>1. m.type = "append_resp" /\ m.dst = n
        BY Zenon DEF handleAppendResponse
      <4> HIDE DEF StepFrom
      <4> QED
        BY SMTT(30), <2>4, <4>1, ProgressInLog
    <3>2. NextIndexInLog'
      BY ZenonT(30), <2>1, <3>1 DEF LogInv, NextIndexInLog
    <3>3. \A commit :
             \A x \in replicateToAll(n, currentTerm[n], log[n], nextIndex'[n], commit) :
                MessageTraced(own, led, x)
      BY Zenon, <3>1, BroadcastTraced
    <3>4. \A commit : MessageTraced(own, led,
             replicateToPeer(n, m.src, currentTerm[n], log[n], nextIndex'[n][m.src], commit))
      BY Zenon, <3>1, ReplicateTraced
    <3>5. TracedTraffic(own, led)
      <4>1. CASE retryAppend(n, m)
        <5> DEFINE r == replicateToPeer(n, m.src, currentTerm[n], log[n],
                                        nextIndex'[n][m.src], commitIndex[n])
        <5>1. transmit(messages \ {m}, {r}) /\ MessageTraced(own, led, r)
          BY ZenonT(30), <3>4, <4>1 DEF retryAppend
        <5>2. PICK sent : transmit(messages \ {m}, sent) /\ sent = {r}
          BY Zenon, <5>1
        <5>3. \A x \in sent : MessageTraced(own, led, x)
          BY Zenon, <5>1, <5>2
        <5> QED
          BY Zenon, <5>2, <5>3, TrafficTraced
      <4>2. CASE recordProgress(n, m)
        <5>1. \/ discard(m)
              \/ \E commit : transmit(messages \ {m},
                    replicateToAll(n, currentTerm[n], log[n], nextIndex'[n], commit))
          BY Zenon, <4>2 DEF recordProgress
        <5>2. CASE discard(m)
          BY ZenonT(30), <5>2, TrafficTraced
        <5>3. ASSUME NEW commit, transmit(messages \ {m},
                        replicateToAll(n, currentTerm[n], log[n], nextIndex'[n], commit))
              PROVE  TracedTraffic(own, led)
          BY ZenonT(30), <3>3, <5>3, TrafficTraced
        <5> QED
          BY ZenonT(30), <5>1, <5>2, <5>3
      <4> QED
        BY ZenonT(30), <2>4, <4>1, <4>2
    <3>6. MessagesTraced(own, led)'
      BY ZenonT(30), <3>5 DEF LogInv, MessagesTraced, TracedTraffic
    <3> QED
      BY ZenonT(30), <2>1, <2>2, <3>2, <3>6, QuietLogStep DEF ElectionInv
  <2> QED
    BY Zenon, <1>2, <2>3, <2>4 DEF handleAppendResponse
<1> QED
  BY Zenon, <1>1, <1>2

\* A restart touches no log, and what its process had sent stays true.
LEMMA RecoverLog ==
    ASSUME NEW own, NEW led, StepFrom(own, led), NEW n \in Node, recover(n)
    PROVE  LogInv(own, led)' /\ LogMoves(own, led) /\ LeadersKept
<1> USE DEF StepFrom
<1>1. LogMoves(own, led)
  BY ZenonT(30), LogUnmoved DEF recover, ElectionInv, TypeGroups
<1>2. LeadersKept
  BY ZenonT(30) DEF recover, forgetCandidacy, LeadersKept, ElectionInv, TypeGroups, ElectionOK, LeaderOK
<1>3. TracedTraffic(own, led)
  <2> SUFFICES ASSUME NEW x \in messages' PROVE MessageTraced(own, led, x)
    BY Zenon DEF TracedTraffic
  <2>1. PICK m \in messages : survives(m, x)
    BY Zenon, RecoverTraffic DEF ElectionInv, TypeGroups
  <2>2. MessageTraced(own, led, m)
    BY Zenon DEF LogInv, MessagesTraced
  <2> QED
    BY Zenon, <2>1, <2>2 DEF survives, MessageTraced
<1> QED
  BY ZenonT(30), <1>1, <1>2, <1>3, KeptLogStep

\* Nothing is logged in the initial state: the empty history fits it.
LEMMA InitLog ==
    ASSUME Init
    PROVE  ElectionInv /\ \E own, led : LogInv(own, led) /\ \A t \in Nat : own[t] = Nil
<1> DEFINE own == [t \in Nat |-> Nil]
           led == [t \in Nat |-> <<>>]
<1>1. /\ own \in [Nat -> Node \cup {Nil}] /\ led \in [Nat -> Seq(Entry)]
      /\ \A t \in Nat : own[t] = Nil /\ led[t] = <<>>
  OBVIOUS
<1> HIDE DEF own, led
<1>2. \A t : Traced(led, <<>>) /\ TermsUpTo(<<>>, t)
  <2>1. 1..Len(<<>>) = {}
    OBVIOUS
  <2> QED
    BY Zenon, <2>1 DEF Traced, TermsUpTo
<1>3. History(own, led) /\ Elected(own)
  BY Zenon, <1>1, <1>2 DEF History, Elected
<1>4. Leading(own, led) /\ MessagesTraced(own, led) /\ NextIndexInLog
  BY Zenon DEF Init, Leading, MessagesTraced, NextIndexInLog
<1>5. LogsTraced(led)
  BY Zenon, <1>2 DEF Init, LogsTraced
<1>6. LogInv(own, led)
  BY ZenonT(30), <1>3, <1>4, <1>5 DEF LogInv
<1> QED
  BY ZenonT(30), <1>1, <1>6, InitElection

\* A history that nothing was added to has grown.
LEMMA GrownSelf ==
    ASSUME NEW own, NEW led
    PROVE  Grown(own, led, own, led)
BY Zenon DEF Grown

\* Every step extends the history it starts from.
LEMMA NextLog ==
    ASSUME NEW own, NEW led, ElectionInv, LogInv(own, led), [Next]_vars
    PROVE  /\ StepFrom(own, led)
           /\ \E own2, led2 : LogInv(own2, led2)' /\ Grown(own, led, own2, led2)
           /\ LogMoves(own, led)
<1> DEFINE Goal == /\ \E own2, led2 : LogInv(own2, led2)' /\ Grown(own, led, own2, led2)
                   /\ LogMoves(own, led)
<1>1. StepFrom(own, led)
  BY Zenon, NextElection DEF StepFrom
<1> SUFFICES Goal
  BY Zenon, <1>1
<1>2. ASSUME LogInv(own, led)', LogMoves(own, led) PROVE Goal
  BY ZenonT(30), <1>2, GrownSelf
<1>3. ASSUME NEW n, \A own2, led2 : Recorded(own, led, own2, led2, n) =>
                LogInv(own2, led2)' /\ Grown(own, led, own2, led2) /\ LogMoves(own, led)
      PROVE  Goal
  <2>1. \E own2, led2 : Recorded(own, led, own2, led2, n)
    BY Zenon DEF Recorded
  <2> QED
    BY ZenonT(30), <1>3, <2>1
<1> HIDE DEF Goal
<1>4. CASE UNCHANGED vars
  <2>1. LogMoves(own, led)
    BY ZenonT(30), <1>4, LogUnmoved DEF vars, ElectionInv, TypeGroups
  <2>2. LeadersKept /\ TracedTraffic(own, led)
    BY Zenon, <1>4 DEF vars, electionVars, leaderVars, LeadersKept, TracedTraffic
  <2> QED
    BY ZenonT(30), <1>1, <1>2, <2>1, <2>2, KeptLogStep
<1>5. ASSUME NEW n \in Node,
             \/ candidacyFails(n) \/ onElectionTimeout(n) \/ onHeartbeat(n) \/ recover(n)
      PROVE  Goal
  BY ZenonT(30), <1>1, <1>2, <1>4, <1>5, ElectionLog, HeartbeatLog, RecoverLog DEF candidacyFails
<1>6. ASSUME NEW n \in Node, NEW c \in Command, handlePropose(n, c) PROVE Goal
  BY ZenonT(30), <1>1, <1>3, <1>6, ProposeLog
<1>7. ASSUME NEW n \in Node, NEW m \in messages, handleVoteResponse(n, m) PROVE Goal
  <2>1. m.type = "vote_resp" /\ m.dst = n
    BY ZenonT(30), <1>7 DEF handleVoteResponse
  <2>2. CASE promoteToLeader(n, m)
    BY ZenonT(30), <1>1, <1>3, <2>1, <2>2, PromoteLog
  <2>3. CASE ~promoteToLeader(n, m)
    BY ZenonT(30), <1>1, <1>2, <1>7, <2>3, StepDownLog, CollectLog DEF handleVoteResponse
  <2> QED
    BY ZenonT(30), <2>2, <2>3
<1>8. ASSUME NEW n \in Node, NEW m \in messages,
             \/ handleRequestVote(n, m) \/ handleAppendResponse(n, m)
             \/ \E dup \in Duplicates : handleAppendEntries(n, m, dup)
      PROVE  Goal
  <2>1. \A dup \in Duplicates : dup \in BOOLEAN
    BY Zenon, BoundAssumption
  <2> QED
    BY ZenonT(30), <1>1, <1>2, <1>8, <2>1, ElectionLog, AppendEntriesLog, AppendResponseLog
<1> QED
  BY ZenonT(30), <1>4, <1>5, <1>6, <1>7, <1>8 DEF Next

------------------------------------------------------------------------------
(* What the history implies                                                 *)

\* Some history fits every reachable state.
THEOREM HistoryExists == Spec => []SomeHistory
<1>1. Init => SomeHistory
  BY ZenonT(30), InitLog DEF SomeHistory
<1>2. SomeHistory /\ [Next]_vars => SomeHistory'
  <2> SUFFICES ASSUME ElectionInv, NEW own, NEW led, LogInv(own, led), [Next]_vars
               PROVE  SomeHistory'
    BY Zenon DEF SomeHistory
  <2>1. ElectionInv'
    BY Zenon, NextLog DEF StepFrom
  <2>2. PICK own2, led2 : LogInv(own2, led2)'
    BY Zenon, NextLog
  <2> QED
    BY Zenon, <2>1, <2>2 DEF SomeHistory
<1> QED
  BY <1>1, <1>2, PTL DEF Spec

\* Logs traced to one history match.
LEMMA HistoryMatches == SomeHistory => LogMatching
<1> SUFFICES ASSUME ElectionInv, NEW own, NEW led, LogInv(own, led),
                    NEW a \in Node, NEW b \in Node,
                    NEW i \in 1..smaller(Len(log[a]), Len(log[b])),
                    log[a][i].term = log[b][i].term, NEW j \in 1..i
             PROVE  log[a][j] = log[b][j]
  BY Zenon DEF SomeHistory, LogMatching
<1>1. /\ log[a] \in Seq(Entry) /\ log[b] \in Seq(Entry) /\ led \in [Nat -> Seq(Entry)]
      /\ Traced(led, log[a]) /\ Traced(led, log[b])
  BY Zenon DEF ElectionInv, TypeGroups, LogOK, LogInv, History, LogsTraced
<1>2. Len(log[a]) \in Nat /\ Len(log[b]) \in Nat
  BY ZenonT(30), <1>1, LenFacts
<1>3. i \in 1..Len(log[a]) /\ i <= Len(log[b])
  BY SMTT(30), <1>2 DEF smaller
<1>4. agree(log[a], log[b], i)
  BY ZenonT(30), <1>1, <1>3, TracedMatch
<1> QED
  BY ZenonT(30), <1>4 DEF agree

\* Two logs that hold an entry of the same term at the same index agree up to it:
\* the prevLogIndex check and reconcileEntries suffice, for any number of nodes,
\* terms and entries, over crashes, failed writes and stale or repeated requests.
THEOREM LogsMatch == Spec => []LogMatching
<1>1. SomeHistory => LogMatching
  BY Zenon, HistoryMatches
<1> QED
  BY <1>1, HistoryExists, PTL

\* replicateToPeer never reads past the leader's log, wherever hints of old
\* rejections and progress of old answers have moved nextIndex.
THEOREM NextIndexStaysInLog == Spec => []NextIndexInLog
<1>1. SomeHistory => NextIndexInLog
  BY Zenon DEF SomeHistory, LogInv
<1> QED
  BY <1>1, HistoryExists, PTL

------------------------------------------------------------------------------
(* Applied prefixes                                                         *)

\* Among finitely many nodes one has applied most.
LEMMA FurthestExists ==
    ASSUME NEW la \in [Node -> Nat]
    PROVE  \E n \in Node : \A p \in Node : la[p] <= la[n]
<1> DEFINE ahead(n) == {p \in Node : la[p] > la[n]}
           T == {Cardinality(ahead(n)) : n \in Node}
<1>1. ASSUME NEW n \in Node
      PROVE  IsFiniteSet(ahead(n)) /\ Cardinality(ahead(n)) \in Nat
  BY ZenonT(30), NodeAssumption, FS_Subset, FS_CardinalityType
<1> HIDE DEF ahead
<1>2. T \subseteq Nat /\ T # {}
  BY ZenonT(30), <1>1, NodeAssumption
<1>3. \E x \in T : \A y \in T : x <= y
  BY ZenonT(30), <1>2, LeastNat
<1>4. PICK n \in Node : \A p \in Node : Cardinality(ahead(n)) <= Cardinality(ahead(p))
  BY ZenonT(30), <1>3
<1>5. ASSUME NEW p \in Node, ~(la[p] <= la[n]) PROVE FALSE
  <2>1. la[p] \in Nat /\ la[n] \in Nat
    BY ZenonT(30)
  <2>2. ahead(p) \subseteq ahead(n) /\ p \in ahead(n) /\ p \notin ahead(p)
    BY SMTT(30), <1>5, <2>1 DEF ahead
  <2>3. ahead(p) # ahead(n)
    BY Zenon, <2>2
  <2>4. Cardinality(ahead(p)) < Cardinality(ahead(n))
    <3>1. PICK P, N : P = ahead(p) /\ N = ahead(n)
      BY ZenonT(30)
    <3>2. IsFiniteSet(N) /\ P \subseteq N /\ P # N
      BY ZenonT(30), <1>1, <2>2, <2>3, <3>1
    <3>3. Cardinality(P) \in Nat /\ Cardinality(N) \in Nat
      BY ZenonT(30), <1>1, <3>1
    <3>4. Cardinality(P) <= Cardinality(N) /\ Cardinality(P) # Cardinality(N)
      BY ZenonT(30), <3>2, FS_Subset
    <3> QED
      BY SMTT(30), <3>1, <3>3, <3>4
  <2> QED
    BY SMTT(30), <1>1, <1>4, <2>4
<1> QED
  BY ZenonT(30), <1>5

\* A stretch of a log, entry by entry.
LEMMA Stretch ==
    ASSUME NEW S, NEW s \in Seq(S), NEW j \in Nat, NEW k \in Nat, j <= k, k <= Len(s)
    PROVE  /\ SubSeq(s, j + 1, k) \in Seq(S) /\ Len(SubSeq(s, j + 1, k)) = k - j
           /\ \A i \in 1..(k - j) : SubSeq(s, j + 1, k)[i] = s[j + i]
<1>1. \A i \in (j + 1)..k : s[i] \in S
  BY SMTT(30), LenFacts
<1> QED
  BY SMTT(30), <1>1

\* A log is a log it starts with, and what comes after that.
LEMMA StartsWith ==
    ASSUME NEW S, NEW s \in Seq(S), NEW o \in Seq(S), NEW t \in Seq(S),
           Len(o) <= Len(s), Len(t) = Len(s) - Len(o),
           \A i \in 1..Len(o) : s[i] = o[i], \A i \in 1..Len(t) : t[i] = s[Len(o) + i]
    PROVE  s = o \o t
<1>1. /\ o \o t \in Seq(S) /\ Len(o \o t) = Len(s)
      /\ \A i \in 1..Len(s) : (o \o t)[i] = IF i <= Len(o) THEN o[i] ELSE t[i - Len(o)]
  OBVIOUS
<1>2. ASSUME NEW i \in 1..Len(s) PROVE (o \o t)[i] = s[i]
  <2>1. CASE i <= Len(o)
    BY SMTT(30), <1>1, <2>1
  <2>2. CASE ~(i <= Len(o))
    <3>1. i - Len(o) \in 1..Len(t) /\ Len(o) + (i - Len(o)) = i
      BY SMTT(30), <2>2
    <3> QED
      BY Zenon, <1>1, <2>2, <3>1
  <2> QED
    BY Zenon, <2>1, <2>2
<1> QED
  BY SMTT(30), <1>1, <1>2

\* What comes after a prefix.
LEMMA AfterPrefix ==
    ASSUME NEW old \in Seq(Entry), NEW new \in Seq(Entry), Len(old) <= Len(new),
           \A i \in 1..Len(old) : new[i] = old[i]
    PROVE  /\ SubSeq(new, Len(old) + 1, Len(new)) \in Seq(Entry)
           /\ new = old \o SubSeq(new, Len(old) + 1, Len(new))
           /\ Len(SubSeq(new, Len(old) + 1, Len(new))) = Len(new) - Len(old)
<1> DEFINE tail == SubSeq(new, Len(old) + 1, Len(new))
<1>1. Len(old) \in Nat /\ Len(new) \in Nat
  BY ZenonT(30), LenFacts
<1>2. /\ tail \in Seq(Entry) /\ Len(tail) = Len(new) - Len(old)
      /\ \A i \in 1..(Len(new) - Len(old)) : tail[i] = new[Len(old) + i]
  BY SMTT(30), <1>1, Stretch
<1> HIDE DEF tail
<1>3. new = old \o tail
  <2>1. \A i \in 1..Len(tail) : tail[i] = new[Len(old) + i]
    BY Zenon, <1>2
  <2> QED
    BY ZenonT(30), <1>2, <2>1, StartsWith
<1> QED
  BY ZenonT(30), <1>2, <1>3 DEF tail

\* The first entries of a log.
LEMMA HeadOf ==
    ASSUME NEW a \in Seq(Entry), NEW j \in Nat, j <= Len(a)
    PROVE  /\ SubSeq(a, 1, j) \in Seq(Entry) /\ Len(SubSeq(a, 1, j)) = j
           /\ \A i \in 1..j : SubSeq(a, 1, j)[i] = a[i]
<1>1. /\ SubSeq(a, 0 + 1, j) \in Seq(Entry) /\ Len(SubSeq(a, 0 + 1, j)) = j - 0
      /\ \A i \in 1..(j - 0) : SubSeq(a, 0 + 1, j)[i] = a[0 + i]
  BY SMTT(30), Stretch
<1> QED
  BY SMTT(30), <1>1

\* At most one node applies entries in a step, and only what it applies is answered.
AppliesOnce ==
    \/ UNCHANGED <<lastApplied, acked>>
    \/ \E r \in Node :
          /\ lastApplied' = [lastApplied EXCEPT ![r] = lastApplied'[r]]
          /\ lastApplied'[r] > lastApplied[r]
          /\ acked \subseteq acked'
          /\ \A a \in acked' \ acked :
                \E i \in (lastApplied[r] + 1)..lastApplied'[r] : a = <<i, log'[r][i]>>

\* commitAndApply applies on its node alone and answers with what it applies.
LEMMA CommitApplies ==
    ASSUME TypeGroups, NEW n \in Node, NEW commit \in Nat, NEW lg, NEW ws, log'[n] = lg,
           commitAndApply(n, commit, lg, ws)
    PROVE  AppliesOnce
<1>1. lastApplied \in [Node -> Nat] /\ lastApplied[n] \in Nat
  BY Zenon DEF TypeGroups, ApplyOK
<1>2. PICK upto :
         /\ upto \in lastApplied[n]..(commit - 1) \/ upto = larger(lastApplied[n], commit)
         /\ lastApplied' = [lastApplied EXCEPT ![n] = upto]
         /\ acked' = acked \cup
               {<<w[1], lg[w[1]]>> : w \in {w \in ws : w[1] \in (lastApplied[n] + 1)..upto}}
  BY ZenonT(30) DEF commitAndApply
<1>3. upto \in Nat /\ upto >= lastApplied[n] /\ lastApplied'[n] = upto
  BY SMTT(30), <1>1, <1>2 DEF larger
<1>4. CASE upto = lastApplied[n]
  <2>1. (lastApplied[n] + 1)..upto = {}
    BY SMTT(30), <1>1, <1>4
  <2>2. acked' = acked
    BY ZenonT(30), <1>2, <2>1
  <2>3. lastApplied' = lastApplied
    BY ZenonT(30), <1>1, <1>2, <1>4
  <2> QED
    BY ZenonT(30), <2>2, <2>3 DEF AppliesOnce
<1>5. CASE upto # lastApplied[n]
  <2>1. \A a \in acked' \ acked : \E i \in (lastApplied[n] + 1)..upto : a = <<i, log'[n][i]>>
    BY ZenonT(30), <1>2
  <2> QED
    <3>1. lastApplied' = [lastApplied EXCEPT ![n] = lastApplied'[n]] /\ acked \subseteq acked'
      BY ZenonT(30), <1>2, <1>3
    <3>2. lastApplied'[n] > lastApplied[n]
      BY SMTT(30), <1>1, <1>3, <1>5
    <3> QED
      BY ZenonT(30), <1>3, <2>1, <3>1, <3>2 DEF AppliesOnce
<1> QED
  BY Zenon, <1>4, <1>5

\* Applying is all that moves lastApplied, and answers come of it.
LEMMA NextApplies ==
    ASSUME TypeGroups, TypeGroups', [Next]_vars
    PROVE  AppliesOnce
<1>1. ASSUME UNCHANGED <<lastApplied, acked>> PROVE AppliesOnce
  BY ZenonT(30), <1>1 DEF AppliesOnce
<1>2. CASE UNCHANGED vars
  BY ZenonT(30), <1>1, <1>2 DEF vars, applyVars, clientVars
<1>3. ASSUME NEW n \in Node, onElectionTimeout(n) \/ onHeartbeat(n) PROVE AppliesOnce
  BY ZenonT(30), <1>1, <1>3 DEF onElectionTimeout, onHeartbeat, applyVars, clientVars
<1>4. ASSUME NEW n \in Node, recover(n) PROVE AppliesOnce
  <2>1. /\ lastApplied \in [Node -> Nat] /\ lastApplied[n] \in Nat /\ savedCommit[n] \in Nat
        /\ lastApplied' = [lastApplied EXCEPT ![n] = larger(lastApplied[n], savedCommit[n])]
        /\ acked' = acked
    BY ZenonT(30), <1>4 DEF recover, TypeGroups, ApplyOK
  <2>2. CASE lastApplied[n] < savedCommit[n]
    <3>1. lastApplied' = [lastApplied EXCEPT ![n] = lastApplied'[n]]
      BY ZenonT(30), <2>1
    <3>2. lastApplied'[n] > lastApplied[n]
      BY ZenonT(30), <2>1, <2>2 DEF larger
    <3> QED
      BY ZenonT(30), <2>1, <3>1, <3>2 DEF AppliesOnce
  <2>3. CASE ~(lastApplied[n] < savedCommit[n])
    <3>1. lastApplied' = lastApplied
      BY ZenonT(30), <2>1, <2>3 DEF larger
    <3> QED
      BY ZenonT(30), <1>1, <2>1, <3>1
  <2> QED
    BY ZenonT(30), <2>2, <2>3
<1>5. ASSUME NEW n \in Node, NEW c \in Command, handlePropose(n, c) PROVE AppliesOnce
  BY ZenonT(30), <1>1, <1>5 DEF handlePropose, applyVars
<1>6. ASSUME NEW n \in Node, NEW m \in messages, handleRequestVote(n, m) \/ handleVoteResponse(n, m)
      PROVE  AppliesOnce
  <2>1. UNCHANGED <<applyVars, acked>>
    BY ZenonT(30), <1>6 DEF handleRequestVote, refuseVote, denyVote, grantVote,
          handleVoteResponse, stepDown, ignoreVote, keepCollecting, promoteToLeader, clientVars
  <2> QED
    BY ZenonT(30), <1>1, <2>1 DEF applyVars
<1>7. ASSUME NEW n \in Node, NEW m \in messages, NEW dup, handleAppendEntries(n, m, dup)
      PROVE  AppliesOnce
  <2>1. CASE ~acceptAppend(n, m, dup)
    BY ZenonT(30), <1>1, <1>7, <2>1
       DEF handleAppendEntries, refuseAppend, rejectAppend, failAppend, applyVars, clientVars
  <2>2. CASE acceptAppend(n, m, dup)
    <3> DEFINE commit == smaller(m.leaderCommit, matchedUpTo(log'[n], m))
    <3>1. \/ commitAndApply(n, commit, log'[n], waitersAfterStepDown(n))
          \/ UNCHANGED <<applyVars, acked>>
      BY Zenon, <2>2 DEF acceptAppend
    <3>2. commit \in Nat
      <4>1. m \in AppendEntriesRequest
        BY ZenonT(30), <1>7, MessageFields DEF TypeGroups, MessagesOK, handleAppendEntries
      <4>2. m.leaderCommit \in Nat /\ m.prevLogIndex \in Nat /\ Len(m.entries) \in Nat
        BY ZenonT(30), <4>1, LenFacts DEF AppendEntriesRequest
      <4> QED
        BY SMTT(30), <4>2 DEF smaller, matchedUpTo
    <3> HIDE DEF commit
    <3> QED
      BY ZenonT(30), <1>1, <3>1, <3>2, CommitApplies DEF applyVars
  <2> QED
    BY ZenonT(30), <2>1, <2>2
<1>8. ASSUME NEW n \in Node, NEW m \in messages, handleAppendResponse(n, m)
      PROVE  AppliesOnce
  <2>1. CASE stepDown(n, m) \/ ignoreReply(n, m) \/ retryAppend(n, m)
    BY ZenonT(30), <1>1, <2>1 DEF stepDown, ignoreReply, retryAppend, applyVars, clientVars
  <2>2. CASE recordProgress(n, m)
    <3> DEFINE commit == commitCandidate(n, [matchIndex'[n] EXCEPT ![n] = Len(log[n])])
    <3>1. \/ commitAndApply(n, commit, log[n], waiters[n]) /\ commit > commitIndex[n]
          \/ UNCHANGED <<applyVars, clientVars>>
      BY Zenon, <2>2 DEF recordProgress
    <3>2. log' = log
      BY ZenonT(30), <2>2 DEF recordProgress
    <3> HIDE DEF commit
    <3>3. CASE UNCHANGED <<applyVars, clientVars>>
      BY ZenonT(30), <1>1, <3>3 DEF applyVars, clientVars
    <3>4. CASE commitAndApply(n, commit, log[n], waiters[n]) /\ commit > commitIndex[n]
      <4>1. commitIndex' = [commitIndex EXCEPT ![n] = commit]
        BY ZenonT(30), <3>4 DEF commitAndApply
      <4>2. commit \in Nat
        BY ZenonT(30), <4>1 DEF TypeGroups, ApplyOK
      <4> QED
        BY ZenonT(30), <3>2, <3>4, <4>2, CommitApplies
    <3> QED
      BY ZenonT(30), <3>1, <3>3, <3>4
  <2> QED
    BY ZenonT(30), <1>8, <2>1, <2>2 DEF handleAppendResponse
<1> QED
  BY ZenonT(30), <1>2, <1>3, <1>4, <1>5, <1>6, <1>7, <1>8 DEF Next, candidacyFails

------------------------------------------------------------------------------
(* A step of the log that is applied                                        *)

\* Every node has in its log what it has applied.
AppliedInLog == \A n \in Node : lastApplied[n] <= Len(log[n])

\* Nothing applied is ever replaced.
AppliedStays == \A n \in Node : \A i \in 1..lastApplied[n] : log'[n][i] = log[n][i]

\* A step of Raft is a step of ReplicatedLog, or none.
LEMMA RefinementStep ==
    ASSUME TypeGroups, TypeGroups', AppliesOnce, StateMachineSafety', AppliedStays,
           AppliedInLog, AppliedInLog'
    PROVE  [Log!Next]_(Log!logVars)
<1> DEFINE f == furthest
           g == furthest'
           old == SubSeq(log[f], 1, lastApplied[f])
           new == SubSeq(log'[g], 1, lastApplied'[g])
           tail == SubSeq(new, Len(old) + 1, Len(new))
<1>1. /\ f \in Node /\ lastApplied[f] \in Nat
      /\ \A p \in Node : lastApplied[p] \in Nat /\ lastApplied[p] <= lastApplied[f]
  <2>1. lastApplied \in [Node -> Nat]
    BY ZenonT(30) DEF TypeGroups, ApplyOK
  <2>2. \E n \in Node : \A p \in Node : lastApplied[p] <= lastApplied[n]
    BY ZenonT(30), <2>1, FurthestExists
  <2>3. furthest \in Node /\ \A p \in Node : lastApplied[p] <= lastApplied[furthest]
    BY ZenonT(30), <2>2 DEF furthest
  <2> QED
    BY ZenonT(30), <2>1, <2>3
<1>2. /\ g \in Node /\ lastApplied'[g] \in Nat
      /\ \A p \in Node : lastApplied'[p] \in Nat /\ lastApplied'[p] <= lastApplied'[g]
  <2>1. lastApplied' \in [Node -> Nat]
    BY ZenonT(30) DEF TypeGroups, ApplyOK
  <2>2. \E n \in Node : \A p \in Node : lastApplied'[p] <= lastApplied'[n]
    BY ZenonT(30), <2>1, FurthestExists
  <2>3. furthest' \in Node /\ \A p \in Node : lastApplied'[p] <= lastApplied'[furthest']
    BY ZenonT(30), <2>2 DEF furthest
  <2> QED
    BY ZenonT(30), <2>1, <2>3
<1> HIDE DEF f, g
<1>3. \A p \in Node : lastApplied'[p] >= lastApplied[p]
  <2>1. CASE UNCHANGED lastApplied
    BY SMTT(30), <1>1, <2>1
  <2>2. ASSUME NEW r \in Node, lastApplied' = [lastApplied EXCEPT ![r] = lastApplied'[r]],
               lastApplied'[r] > lastApplied[r]
        PROVE  \A p \in Node : lastApplied'[p] >= lastApplied[p]
    <3>1. \A p \in Node : p = r \/ lastApplied'[p] = lastApplied[p]
      BY ZenonT(30), <2>2 DEF TypeGroups, ApplyOK
    <3> QED
      BY SMTT(30), <1>1, <1>2, <2>2, <3>1
  <2> QED
    BY ZenonT(30), <2>1, <2>2 DEF AppliesOnce
<1>4. /\ log[f] \in Seq(Entry) /\ log'[g] \in Seq(Entry)
      /\ lastApplied[f] <= Len(log[f]) /\ lastApplied'[g] <= Len(log'[g])
      /\ lastApplied[f] <= lastApplied'[g]
  BY SMTT(30), <1>1, <1>2, <1>3 DEF TypeGroups, LogOK, AppliedInLog
<1>5. ASSUME NEW a \in Node, NEW b \in Node, NEW i \in Nat, i >= 1,
             i <= lastApplied'[a], i <= lastApplied'[b]
      PROVE  log'[a][i] = log'[b][i]
  <2>1. /\ commitIndex'[a] \in Nat /\ commitIndex'[b] \in Nat
        /\ lastApplied'[a] \in Nat /\ lastApplied'[b] \in Nat
    BY ZenonT(30) DEF TypeGroups, ApplyOK
  <2>2. i \in 1..smaller(larger(commitIndex'[a], lastApplied'[a]),
                         larger(commitIndex'[b], lastApplied'[b]))
    BY SMTT(30), <1>5, <2>1 DEF smaller, larger
  <2> QED
    BY ZenonT(30), <2>2 DEF StateMachineSafety
<1>6. ASSUME NEW i \in 1..lastApplied[f] PROVE log[f][i] = log'[g][i]
  <2>1. log'[f][i] = log[f][i]
    BY ZenonT(30), <1>1 DEF AppliedStays
  <2>2. i \in Nat /\ i >= 1 /\ i <= lastApplied'[f] /\ i <= lastApplied'[g]
    BY SMTT(30), <1>1, <1>2, <1>3, <1>4
  <2> QED
    BY ZenonT(30), <1>1, <1>2, <1>5, <2>1, <2>2
<1>7. /\ tail \in Seq(Entry) /\ new = old \o tail
      /\ tail = <<>> <=> lastApplied[f] = lastApplied'[g]
      /\ Len(old) = lastApplied[f] /\ Len(new) = lastApplied'[g]
      /\ \A i \in 1..lastApplied'[g] : new[i] = log'[g][i]
  <2>1. /\ old \in Seq(Entry) /\ Len(old) = lastApplied[f]
        /\ \A i \in 1..lastApplied[f] : old[i] = log[f][i]
    BY ZenonT(30), <1>1, <1>4, HeadOf DEF old
  <2>2. /\ new \in Seq(Entry) /\ Len(new) = lastApplied'[g]
        /\ \A i \in 1..lastApplied'[g] : new[i] = log'[g][i]
    BY ZenonT(30), <1>2, <1>4, HeadOf DEF new
  <2>3. Len(old) <= Len(new) /\ \A i \in 1..Len(old) : new[i] = old[i]
    <3> HIDE DEF old, new
    <3>1. Len(old) <= Len(new)
      BY ZenonT(30), <1>4, <2>1, <2>2
    <3>2. ASSUME NEW i \in 1..lastApplied[f] PROVE new[i] = old[i]
      <4>1. i \in 1..lastApplied'[g]
        BY SMTT(30), <1>1, <1>2, <1>4
      <4> QED
        BY ZenonT(30), <1>6, <2>1, <2>2, <4>1
    <3> QED
      BY ZenonT(30), <2>1, <3>1, <3>2
  <2>4. tail \in Seq(Entry) /\ new = old \o tail /\ Len(tail) = Len(new) - Len(old)
    <3> HIDE DEF old, new
    <3> QED
      BY ZenonT(30), <2>1, <2>2, <2>3, AfterPrefix DEF tail
  <2> HIDE DEF old, new, tail
  <2>5. tail = <<>> <=> lastApplied[f] = lastApplied'[g]
    BY SMTT(30), <1>1, <1>2, <2>1, <2>2, <2>4
  <2> QED
    BY ZenonT(30), <2>1, <2>2, <2>4, <2>5
<1> SUFFICES \/ \E r \in Node :
                   /\ lastApplied'[r] > lastApplied[r]
                   /\ tail \in Seq(Entry)
                   /\ new = old \o tail
                   /\ IF tail = <<>> THEN lastApplied'[r] <= Len(old)
                                     ELSE lastApplied'[r] = Len(new)
                   /\ lastApplied' = [lastApplied EXCEPT ![r] = lastApplied'[r]]
                   /\ acked \subseteq acked'
                   /\ acked' \ acked \subseteq
                         {<<i, new[i]>> : i \in (lastApplied[r] + 1)..lastApplied'[r]}
             \/ new = old /\ lastApplied' = lastApplied /\ acked' = acked
  BY ZenonT(30) DEF Log!Next, Log!applyUpTo, Log!logVars, f, g
<1> HIDE DEF old, new, tail
<1>8. CASE UNCHANGED <<lastApplied, acked>>
  <2>1. lastApplied[f] = lastApplied'[g]
    BY SMTT(30), <1>1, <1>2, <1>8
  <2>2. tail = <<>> /\ old \in Seq(Entry)
    <3>1. \A i \in 1..lastApplied[f] : log[f][i] \in Entry
      BY SMTT(30), <1>1, <1>4, ElementFacts
    <3> QED
      BY SMTT(30), <1>1, <1>7, <2>1, <3>1, SubSeqFacts DEF old
  <2>3. new = old
    BY SMTT(30), <1>7, <2>2
  <2> QED
    BY ZenonT(30), <1>8, <2>3
<1>9. ASSUME NEW r \in Node,
             /\ lastApplied' = [lastApplied EXCEPT ![r] = lastApplied'[r]]
             /\ lastApplied'[r] > lastApplied[r]
             /\ acked \subseteq acked'
             /\ \A a \in acked' \ acked :
                   \E i \in (lastApplied[r] + 1)..lastApplied'[r] : a = <<i, log'[r][i]>>
      PROVE  /\ IF tail = <<>> THEN lastApplied'[r] <= Len(old)
                               ELSE lastApplied'[r] = Len(new)
             /\ acked' \ acked \subseteq
                   {<<i, new[i]>> : i \in (lastApplied[r] + 1)..lastApplied'[r]}
  <2>1. IF tail = <<>> THEN lastApplied'[r] <= Len(old) ELSE lastApplied'[r] = Len(new)
    <3>1. CASE lastApplied[f] = lastApplied'[g]
      BY ZenonT(30), <1>2, <1>7, <3>1
    <3>2. CASE lastApplied[f] # lastApplied'[g]
      <4>1. g = r
        <5>1. ASSUME g # r PROVE FALSE
          <6>1. lastApplied'[g] = lastApplied[g]
            BY ZenonT(30), <1>2, <1>9, <5>1 DEF TypeGroups, ApplyOK
          <6> QED
            BY SMTT(30), <1>1, <1>2, <1>4, <3>2, <6>1
        <5> QED
          BY ZenonT(30), <5>1
      <4> QED
        BY ZenonT(30), <1>7, <3>2, <4>1
    <3> QED
      BY ZenonT(30), <3>1, <3>2
  <2>2. ASSUME NEW i \in (lastApplied[r] + 1)..lastApplied'[r] PROVE new[i] = log'[r][i]
    <3>1. i \in Nat /\ i >= 1 /\ i <= lastApplied'[r] /\ i <= lastApplied'[g] /\ i \in 1..lastApplied'[g]
      BY SMTT(30), <1>1, <1>2
    <3> QED
      BY ZenonT(30), <1>2, <1>5, <1>7, <3>1
  <2> QED
    BY ZenonT(30), <1>9, <2>1, <2>2
<1> QED
  BY ZenonT(30), <1>7, <1>8, <1>9 DEF AppliesOnce

==============================================================================

------------------------- MODULE RaftElectionProofs --------------------------
(****************************************************************************)
(* The types of Raft and its elections, for any number of nodes, terms,     *)
(* entries and messages, and the lemmas on logs the other proofs share.     *)
(* The operators that CHOOSE an index search a range, so a least element of *)
(* a set of naturals is what each of them comes down to.                    *)
(*    At most one node leads a term.  handleVoteResponse counts granted     *)
(* votes without remembering whose they are, so the argument has two parts: *)
(* every RPC of an election is answered at most once, so the counter is     *)
(* the number of voters (BallotUnique, CountedOnce, Tally); and a vote that *)
(* was granted in a term excludes every other candidate of that term, for   *)
(* as long as the answer is in flight or counted (EvidenceExclusive).       *)
(****************************************************************************)
EXTENDS RaftHistory, FiniteSetTheorems, WellFoundedInduction, TLAPS

\* The length of a log and the entries at its indexes.
LEMMA LenFacts ==
    ASSUME NEW S, NEW s \in Seq(S)
    PROVE  Len(s) \in Nat /\ s \in [1..Len(s) -> S] /\ DOMAIN s = 1..Len(s)
BY SMT

\* An entry of a log.
LEMMA ElementFacts ==
    ASSUME NEW S, NEW s \in Seq(S), NEW n \in 1..Len(s)
    PROVE  s[n] \in S
BY SMT

\* A stretch of a log.
LEMMA SubSeqFacts ==
    ASSUME NEW S, NEW s, NEW m \in Int, NEW n \in Int, \A i \in m..n : s[i] \in S
    PROVE  /\ SubSeq(s, m, n) \in Seq(S)
           /\ Len(SubSeq(s, m, n)) = IF m <= n THEN n - m + 1 ELSE 0
           /\ \A i \in 1..n - m + 1 : SubSeq(s, m, n)[i] = s[m + i - 1]
BY SMT

\* A log with one more entry.
LEMMA AppendFacts ==
    ASSUME NEW S, NEW s \in Seq(S), NEW e \in S
    PROVE  /\ Append(s, e) \in Seq(S)
           /\ Len(Append(s, e)) = Len(s) + 1
           /\ \A i \in 1..Len(s) : Append(s, e)[i] = s[i]
           /\ Append(s, e)[Len(s) + 1] = e
BY SMT

\* Two stretches of a log, one after the other.
LEMMA ConcatFacts ==
    ASSUME NEW S, NEW s \in Seq(S), NEW t \in Seq(S)
    PROVE  /\ s \o t \in Seq(S)
           /\ Len(s \o t) = Len(s) + Len(t)
           /\ \A i \in 1..Len(s) + Len(t) :
                 (s \o t)[i] = IF i <= Len(s) THEN s[i] ELSE t[i - Len(s)]
BY SMT

\* A nonempty set of naturals has a least element.
LEMMA LeastNat ==
    ASSUME NEW T, T \subseteq Nat, T # {}
    PROVE  \E x \in T : \A y \in T : x <= y
<1> DEFINE below == {0..x : x \in T}
           order == StrictSubsetOrdering(Nat)
<1>1. below \subseteq FiniteSubsetsOf(Nat)
  <2>1. \A x \in T : 0..x \subseteq Nat /\ IsFiniteSet(0..x)
    BY FS_Interval
  <2> QED
    BY Zenon, <2>1 DEF FiniteSubsetsOf
<1>2. \E X \in below : \A Y \in below : ~ (<<Y, X>> \in order)
  <2>1. IsWellFoundedOn(order, FiniteSubsetsOf(Nat))
    BY Zenon, FS_StrictSubsetOrderingWellFounded
  <2>2. below # {}
    BY Zenon
  <2> HIDE DEF below, order
  <2> QED
    BY Zenon, <1>1, <2>1, <2>2, WFMin
<1>3. PICK x \in T : \A y \in T : ~ (<<0..y, 0..x>> \in order)
  BY Zenon, <1>2
<1>4. \A y \in T : y < x => <<0..y, 0..x>> \in order
  <2> SUFFICES ASSUME NEW y \in T, y < x
               PROVE  <<0..y, 0..x>> \in order
    BY Zenon
  <2>1. 0..y \subseteq 0..x /\ x \in 0..x /\ x \notin 0..y
    OBVIOUS
  <2> QED
    BY <2>1 DEF StrictSubsetOrdering
<1> HIDE DEF order
<1>5. \A y \in T : ~(y < x)
  BY Zenon, <1>3, <1>4
<1> QED
  BY <1>5

\* termAt, which reads the term of a log entry, is a natural number.
LEMMA TermAtType ==
    ASSUME NEW lg \in Seq(Entry), NEW i
    PROVE  termAt(lg, i) \in Nat
<1>1. CASE i \in 1..Len(lg)
  <2>1. lg[i] \in Entry
    BY Zenon, <1>1, ElementFacts
  <2> QED
    BY Zenon, <1>1, <2>1 DEF termAt, Entry
<1>2. CASE i \notin 1..Len(lg)
  BY Zenon, <1>2 DEF termAt
<1> QED
  BY Zenon, <1>1, <1>2

\* firstIndexOfTerm, the conflict hint of handleAppendEntries, lies in the log.
LEMMA FirstIndexType ==
    ASSUME NEW lg \in Seq(Entry), NEW from \in 1..Len(lg)
    PROVE  firstIndexOfTerm(lg, from) \in 1..from
<1> DEFINE run == {i \in 1..from : \A j \in i..from : lg[j].term = lg[from].term}
<1>1. from \in run /\ run \subseteq Nat
  OBVIOUS
<1>2. PICK i \in run : \A y \in run : i <= y
  <2> HIDE DEF run
  <2> QED
    BY Zenon, <1>1, LeastNat
<1>3. i = 1 \/ lg[i - 1].term # lg[from].term
  <2> SUFFICES ASSUME i # 1, lg[i - 1].term = lg[from].term
               PROVE  FALSE
    BY Zenon
  <2>1. i - 1 \in run
    BY <1>2
  <2> QED
    BY <2>1, <1>2
<1> QED
  BY Zenon, <1>2, <1>3 DEF firstIndexOfTerm

\* lastIndexWithTerm, the leader's search of backupNextIndex, stays in the log.
LEMMA LastIndexType ==
    ASSUME NEW lg \in Seq(Entry), NEW term
    PROVE  lastIndexWithTerm(lg, term) \in 0..Len(lg)
<1> DEFINE above == {i \in 0..Len(lg) : \A j \in (i + 1)..Len(lg) : lg[j].term # term}
<1>1. Len(lg) \in above /\ above \subseteq Nat
  OBVIOUS
<1>2. PICK i \in above : \A y \in above : i <= y
  <2> HIDE DEF above
  <2> QED
    BY Zenon, <1>1, LeastNat
<1>3. i > 0 => lg[i].term = term
  <2> SUFFICES ASSUME i > 0, lg[i].term # term
               PROVE  FALSE
    BY Zenon
  <2>1. i - 1 \in 0..Len(lg) /\ \A j \in i..Len(lg) : lg[j].term # term
    BY <1>2
  <2>2. i - 1 \in above
    BY <2>1
  <2>3. i \in Nat
    BY Zenon, <1>1
  <2> HIDE DEF above
  <2> QED
    BY <2>2, <2>3, <1>2
<1> QED
  BY Zenon, <1>2, <1>3 DEF lastIndexWithTerm

\* reconcileEntries finds a position in the entries, or one past their end;
\* everything before it is in the log already, and the entry there is not.
LEMMA ReconcileType ==
    ASSUME NEW lg \in Seq(Entry), NEW entries \in Seq(Entry), NEW prev \in Nat
    PROVE  LET k == reconcileEntries(lg, prev, entries)
           IN  /\ k \in 1..(Len(entries) + 1)
               /\ \A i \in 1..(k - 1) : holds(lg, prev + i, entries[i].term)
               /\ k <= Len(entries) => ~holds(lg, prev + k, entries[k].term)
<1> DEFINE bad == {k \in 1..(Len(entries) + 1) :
                      k <= Len(entries) => ~holds(lg, prev + k, entries[k].term)}
<1>1. Len(entries) + 1 \in bad /\ bad \subseteq Nat
  OBVIOUS
<1>2. PICK k \in bad : \A y \in bad : k <= y
  <2> HIDE DEF bad
  <2> QED
    BY Zenon, <1>1, LeastNat
<1>3. \A i \in 1..(k - 1) : holds(lg, prev + i, entries[i].term)
  BY <1>2
<1> QED
  BY Zenon, <1>2, <1>3 DEF reconcileEntries

\* The log that OverwriteEntries leaves is a log and holds the whole request.
LEMMA OverwriteType ==
    ASSUME NEW lg \in Seq(Entry), NEW entries \in Seq(Entry),
           NEW prev \in 0..Len(lg)
    PROVE  LET new == overwriteEntries(lg, prev, entries)
           IN  new \in Seq(Entry) /\ prev + Len(entries) <= Len(new)
<1> DEFINE k == reconcileEntries(lg, prev, entries)
<1>1. /\ k \in 1..(Len(entries) + 1)
      /\ \A i \in 1..(k - 1) : holds(lg, prev + i, entries[i].term)
  BY ReconcileType
<1>2. overwriteEntries(lg, prev, entries) =
         IF k > Len(entries)
         THEN lg
         ELSE SubSeq(lg, 1, prev + k - 1) \o SubSeq(entries, k, Len(entries))
  BY Zenon DEF overwriteEntries
<1> HIDE DEF k
<1>3. prev + k - 1 \in 0..Len(lg)
  <2>1. CASE k = 1
    BY <1>1, <2>1
  <2>2. CASE k > 1
    <3>1. holds(lg, prev + (k - 1), entries[k - 1].term)
      BY <1>1, <2>2
    <3> QED
      BY <1>1, <2>2, <3>1 DEF holds
  <2> QED
    BY <1>1, <2>1, <2>2
<1>4. CASE k > Len(entries)
  BY <1>1, <1>2, <1>3, <1>4
<1>5. CASE ~(k > Len(entries))
  <2>1. /\ SubSeq(lg, 1, prev + k - 1) \in Seq(Entry)
        /\ Len(SubSeq(lg, 1, prev + k - 1)) = prev + k - 1
    BY SMTT(30), <1>1, <1>3, SubSeqFacts, ElementFacts
  <2>2. /\ SubSeq(entries, k, Len(entries)) \in Seq(Entry)
        /\ Len(SubSeq(entries, k, Len(entries))) = Len(entries) - k + 1
    BY <1>1, <1>5, SubSeqFacts, ElementFacts
  <2> DEFINE a == SubSeq(lg, 1, prev + k - 1)
             b == SubSeq(entries, k, Len(entries))
  <2> HIDE DEF a, b
  <2>3. a \o b \in Seq(Entry) /\ Len(a \o b) = Len(a) + Len(b)
    BY Zenon, <2>1, <2>2, ConcatFacts DEF a, b
  <2>4. Len(a) = prev + k - 1 /\ Len(b) = Len(entries) - k + 1
    BY Zenon, <2>1, <2>2 DEF a, b
  <2>5. k \in Int /\ prev \in Int /\ Len(entries) \in Int
    BY <1>1
  <2>6. Len(a \o b) = prev + Len(entries)
    BY <2>3, <2>4, <2>5
  <2>7. overwriteEntries(lg, prev, entries) = a \o b
    BY Zenon, <1>2, <1>5 DEF a, b
  <2> QED
    BY <2>3, <2>5, <2>6, <2>7
<1> QED
  BY Zenon, <1>4, <1>5

\* A quorum is at least one node and at most all of them.
LEMMA QuorumRange == quorum \in 1..Cardinality(Node) /\ Cardinality(Node) \in Nat
<1>1. Cardinality(Node) \in Nat /\ Cardinality(Node) # 0
  BY Zenon, NodeAssumption, FS_CardinalityType, FS_EmptySet
<1> QED
  BY <1>1 DEF quorum

\* majorityMatch, the element that advanceCommit takes from the sorted match
\* indexes, exists, and a quorum has reached it.
LEMMA MajorityMatchType ==
    ASSUME NEW matches \in [Node -> Nat]
    PROVE  /\ majorityMatch(matches) \in Nat
           /\ Cardinality({p \in Node : matches[p] >= majorityMatch(matches)}) >= quorum
<1> DEFINE atLeast(v) == {p \in Node : matches[p] >= v}
           more(v) == {p \in Node : matches[p] > v}
           values == {matches[p] : p \in Node}
           supported == {v \in values : Cardinality(atLeast(v)) >= quorum}
           counts == {Cardinality(atLeast(v)) : v \in supported}
<1>1. \A S \in SUBSET Node : IsFiniteSet(S) /\ Cardinality(S) \in Nat
  BY Zenon, NodeAssumption, FS_Subset, FS_CardinalityType
<1>2. values \subseteq Nat /\ values # {}
  BY Zenon, NodeAssumption
<1>3. supported # {}
  <2> HIDE DEF values
  <2>1. PICK v \in values : \A w \in values : v <= w
    BY Zenon, <1>2, LeastNat
  <2>2. atLeast(v) = Node
    BY Zenon, <2>1, <1>2 DEF values
  <2> QED
    BY <2>1, <2>2, QuorumRange
<1>4. counts \subseteq Nat /\ counts # {}
  BY ZenonT(60), <1>1, <1>3
<1>5. PICK v \in supported :
         \A w \in supported : Cardinality(atLeast(v)) <= Cardinality(atLeast(w))
  <2>1. PICK c \in counts : \A d \in counts : c <= d
    <3> HIDE DEF counts
    <3> QED
      BY Zenon, <1>4, LeastNat
  <2>2. PICK v \in supported : c = Cardinality(atLeast(v))
    BY Zenon
  <2>3. \A w \in supported : Cardinality(atLeast(w)) \in counts
    BY Zenon
  <2> HIDE DEF supported, counts, atLeast
  <2> QED
    BY Zenon, <2>1, <2>2, <2>3
<1>6. Cardinality(more(v)) < quorum
  <2> SUFFICES ASSUME Cardinality(more(v)) >= quorum
               PROVE  FALSE
    BY <1>1, QuorumRange
  <2> DEFINE larger_values == {matches[p] : p \in more(v)}
  <2>1. more(v) # {}
    BY QuorumRange, FS_EmptySet
  <2>2. PICK w \in larger_values : \A x \in larger_values : w <= x
    <3>1. larger_values \subseteq Nat /\ larger_values # {}
      BY Zenon, <2>1
    <3> HIDE DEF larger_values
    <3> QED
      BY Zenon, <3>1, LeastNat
  <2>3. v \in Nat /\ w \in Nat /\ w > v /\ w \in values
    BY Zenon, <2>2
  <2>4. atLeast(w) = more(v)
    BY <2>2, <2>3
  <2>5. w \in supported
    BY Zenon, <2>3, <2>4
  <2>6. PICK p \in Node : matches[p] = v
    BY Zenon
  <2>7. more(v) \subseteq atLeast(v) /\ p \in atLeast(v) /\ p \notin more(v)
    BY <2>3, <2>6
  <2>8. Cardinality(more(v)) < Cardinality(atLeast(v))
    <3>1. /\ Cardinality(more(v)) <= Cardinality(atLeast(v))
          /\ Cardinality(atLeast(v)) = Cardinality(more(v)) => atLeast(v) = more(v)
      <4>1. IsFiniteSet(atLeast(v)) /\ more(v) \in SUBSET atLeast(v)
        BY Zenon, <1>1, <2>7
      <4> HIDE DEF atLeast, more
      <4> QED
        BY Zenon, <4>1, FS_Subset
    <3>2. Cardinality(more(v)) \in Nat /\ Cardinality(atLeast(v)) \in Nat
      BY Zenon, <1>1
    <3> QED
      BY SMTT(30), <3>1, <3>2, <2>7
  <2>9. Cardinality(atLeast(v)) <= Cardinality(more(v))
    BY Zenon, <1>5, <2>4, <2>5
  <2>10. Cardinality(more(v)) \in Nat /\ Cardinality(atLeast(v)) \in Nat
    BY Zenon, <1>1
  <2> QED
    BY <2>8, <2>9, <2>10
<1>7. \E x \in values : Cardinality(atLeast(x)) >= quorum /\ Cardinality(more(x)) < quorum
  BY Zenon, <1>5, <1>6
<1>8. /\ majorityMatch(matches) \in values
      /\ Cardinality(atLeast(majorityMatch(matches))) >= quorum
  BY Zenon, <1>7 DEF majorityMatch
<1> QED
  BY Zenon, <1>2, <1>8

------------------------------------------------------------------------------
(* Logs that agree                                                          *)

\* Two majorities share a node: why one quorum of votes, or of matching logs,
\* excludes another.
LEMMA MajoritiesMeet ==
    ASSUME NEW P \in Majorities, NEW Q \in Majorities
    PROVE  \E p \in Node : p \in P /\ p \in Q
<1>1. P \subseteq Node /\ Q \subseteq Node /\ Cardinality(P) >= quorum /\ Cardinality(Q) >= quorum
  BY Zenon DEF Majorities
<1>2. /\ Cardinality(P) \in Nat /\ Cardinality(Q) \in Nat /\ Cardinality(Node) \in Nat
  BY Zenon, <1>1, NodeAssumption, FS_Subset, FS_CardinalityType
<1>3. Cardinality(P) + Cardinality(Q) > Cardinality(Node)
  BY <1>1, <1>2 DEF quorum
<1>4. P \cap Q # {}
  BY Zenon, <1>1, <1>3, NodeAssumption, FS_MajoritiesIntersect
<1> QED
  BY Zenon, <1>1, <1>4

\* Agreement up to an index is agreement up to every lower one.
LEMMA AgreeLower ==
    ASSUME NEW a, NEW b, Len(a) \in Nat, Len(b) \in Nat,
           NEW k \in Nat, NEW i \in Nat, i <= k, agree(a, b, k)
    PROVE  agree(a, b, i)
BY DEF agree

\* Agreement is symmetric and transitive.
LEMMA AgreeTrans ==
    ASSUME NEW a, NEW b, NEW c, NEW k, agree(a, b, k)
    PROVE  agree(b, a, k) /\ (agree(b, c, k) => agree(a, c, k))
BY Zenon DEF agree

\* Every log extends itself and the empty one.
LEMMA AgreeSelf ==
    ASSUME NEW a \in Seq(Entry)
    PROVE  agree(a, a, Len(a)) /\ agree(<<>>, a, Len(<<>>))
<1>1. Len(a) \in Nat /\ Len(<<>>) = 0
  BY Zenon, LenFacts
<1> QED
  BY <1>1 DEF agree

\* Logs traced to the same history that hold the same term at an index agree up to
\* it: one comparison of terms, as in prevLogMatches, vouches for all before.
LEMMA TracedMatch ==
    ASSUME NEW led \in [Nat -> Seq(Entry)], NEW a \in Seq(Entry), NEW b \in Seq(Entry),
           Traced(led, a), Traced(led, b),
           NEW i \in 1..Len(a), i <= Len(b), a[i].term = b[i].term
    PROVE  agree(a, b, i)
<1>1. i \in 1..Len(b)
  OBVIOUS
<1>2. agree(a, led[a[i].term], i) /\ agree(b, led[a[i].term], i)
  BY Zenon, <1>1 DEF Traced
<1> QED
  BY Zenon, <1>2 DEF agree

\* An entry of a log has a term.
LEMMA EntryTerm ==
    ASSUME NEW lg \in Seq(Entry), NEW i \in 1..Len(lg)
    PROVE  lg[i] \in Entry /\ lg[i].term \in Nat /\ i \in Nat
<1>1. lg[i] \in Entry
  BY Zenon, ElementFacts
<1>2. lg[i].term \in Nat
  BY Zenon, <1>1 DEF Entry
<1> QED
  BY <1>1, <1>2, LenFacts

\* What overwriteEntries leaves: the log itself when it holds all the entries, or
\* its part before the first conflict followed by the rest of the entries.
LEMMA OverwriteContent ==
    ASSUME NEW lg \in Seq(Entry), NEW entries \in Seq(Entry), NEW prev \in 0..Len(lg)
    PROVE  overlays(lg, prev, entries, overwriteEntries(lg, prev, entries))
<1> DEFINE new == overwriteEntries(lg, prev, entries)
<1> DEFINE k == reconcileEntries(lg, prev, entries)
           cut == prev + k - 1
           a == SubSeq(lg, 1, cut)
           b == SubSeq(entries, k, Len(entries))
<1>1. /\ k \in 1..(Len(entries) + 1)
      /\ \A i \in 1..(k - 1) : holds(lg, prev + i, entries[i].term)
      /\ k <= Len(entries) => ~holds(lg, prev + k, entries[k].term)
  BY ReconcileType
<1>2. new = IF k > Len(entries) THEN lg ELSE a \o b
  BY Zenon DEF overwriteEntries
<1> HIDE DEF k, new
<1> SUFFICES overlays(lg, prev, entries, new)
  BY Zenon DEF new
<1> USE DEF overlays
<1>3. cut \in prev..(prev + Len(entries)) /\ cut <= Len(lg)
  <2>1. CASE k = 1
    BY <1>1, <2>1
  <2>2. CASE k > 1
    <3>1. holds(lg, prev + (k - 1), entries[k - 1].term)
      BY <1>1, <2>2
    <3> QED
      BY SMTT(30), <1>1, <2>2, <3>1 DEF holds
  <2> QED
    BY <1>1, <2>1, <2>2
<1>4. ASSUME NEW j \in (prev + 1)..cut PROVE lg[j].term = entries[j - prev].term
  <2>1. j - prev \in 1..(k - 1) /\ prev + (j - prev) = j
    BY <1>1
  <2>2. holds(lg, prev + (j - prev), entries[j - prev].term)
    BY Zenon, <1>1, <2>1
  <2> QED
    BY Zenon, <2>1, <2>2 DEF holds
<1>5. CASE k > Len(entries)
  <2>1. new = lg /\ cut = prev + Len(entries)
    BY SMTT(30), <1>1, <1>2, <1>5
  <2> HIDE DEF cut
  <2> QED
    BY Zenon, <1>3, <1>4, <2>1
<1>6. CASE ~(k > Len(entries))
  <2>1. /\ a \in Seq(Entry) /\ Len(a) = cut /\ \A j \in 1..cut : a[j] = lg[j]
    BY SMTT(30), <1>1, <1>3, SubSeqFacts, ElementFacts
  <2>2. /\ b \in Seq(Entry) /\ Len(b) = Len(entries) - k + 1
        /\ \A j \in 1..(Len(entries) - k + 1) : b[j] = entries[k + j - 1]
    BY <1>1, <1>6, SubSeqFacts, ElementFacts
  <2>3. /\ cut \in Nat /\ k \in Nat /\ prev \in Nat /\ Len(entries) \in Nat
        /\ cut = prev + k - 1
    BY <1>1, <1>3
  <2> HIDE DEF a, b, cut
  <2>0. new = a \o b
    BY Zenon, <1>2, <1>6
  <2>4. /\ Len(new) = Len(a) + Len(b)
        /\ \A j \in 1..(Len(a) + Len(b)) :
              new[j] = IF j <= Len(a) THEN a[j] ELSE b[j - Len(a)]
    BY ZenonT(30), <2>0, <2>1, <2>2, ConcatFacts
  <2>5. Len(new) = prev + Len(entries) /\ cut < prev + Len(entries)
    <3>1. Len(new) = cut + (Len(entries) - k + 1)
      BY Zenon, <2>1, <2>2, <2>4
    <3>2. k <= Len(entries)
      BY <1>6, <2>3
    <3> QED
      BY <2>3, <3>1, <3>2
  <2>6. ASSUME NEW j \in 1..cut PROVE new[j] = lg[j]
    <3>1. j \in 1..(Len(a) + Len(b)) /\ j <= Len(a)
      BY <2>1, <2>2, <2>3
    <3>2. new[j] = a[j] /\ a[j] = lg[j]
      BY Zenon, <2>1, <2>4, <3>1
    <3> QED
      BY Zenon, <3>2
  <2>7. ASSUME NEW j \in (cut + 1)..Len(new) PROVE new[j] = entries[j - prev]
    <3>1. j \in 1..(Len(a) + Len(b)) /\ ~(j <= Len(a)) /\ j - cut \in 1..(Len(entries) - k + 1)
      BY SMTT(30), <2>1, <2>2, <2>3, <2>4
    <3>2. new[j] = b[j - cut] /\ b[j - cut] = entries[k + (j - cut) - 1]
      BY Zenon, <2>1, <2>2, <2>4, <3>1
    <3>3. k + (j - cut) - 1 = j - prev
      BY <2>3, <3>1
    <3> QED
      BY Zenon, <3>2, <3>3
  <2>8. ~holds(lg, cut + 1, entries[cut + 1 - prev].term)
    <3>1. cut + 1 = prev + k /\ cut + 1 - prev = k /\ k <= Len(entries)
      BY <1>6, <2>3
    <3> QED
      BY Zenon, <1>1, <3>1
  <2> QED
    BY Zenon, <1>3, <1>4, <2>5, <2>6, <2>7, <2>8
<1> QED
  BY Zenon, <1>5, <1>6

\* An index among the b that follow a, counted from a.
LEMMA Shifted ==
    ASSUME NEW a \in Nat, NEW b \in Nat, NEW j \in (a + 1)..(a + b)
    PROVE  j - a \in 1..b /\ a + (j - a) = j
OBVIOUS

\* Merging an AppendEntries of the leader whose log is lead makes the log agree
\* with it as far as the request reaches, drops nothing that agreed with it
\* before, and cuts the log only at the end of the request.
LEMMA OverwriteMerges ==
    ASSUME NEW led \in [Nat -> Seq(Entry)], NEW lg \in Seq(Entry), NEW lead \in Seq(Entry),
           NEW entries \in Seq(Entry), NEW prev \in Nat,
           Traced(led, lg), Traced(led, lead), agree(lg, lead, prev),
           piece(lead, prev, entries), NEW new, new = overwriteEntries(lg, prev, entries)
    PROVE  agree(new, lead, prev + Len(entries)) /\ merges(lg, new, lead)
<1> USE DEF piece
<1> DEFINE end == prev + Len(entries)
<1>1. prev \in 0..Len(lg)
  BY DEF agree
<1>2. new \in Seq(Entry) /\ Len(new) \in Nat
  BY Zenon, <1>1, OverwriteType, LenFacts
<1>0. overlays(lg, prev, entries, new)
  BY Zenon, <1>1, OverwriteContent
<1>3. PICK c \in prev..end :
         /\ c <= Len(lg)
         /\ \A j \in (prev + 1)..c : lg[j].term = entries[j - prev].term
         /\ \/ new = lg /\ c = end
            \/ /\ c < end /\ Len(new) = end
               /\ \A j \in 1..c : new[j] = lg[j]
               /\ \A j \in (c + 1)..Len(new) : new[j] = entries[j - prev]
               /\ ~holds(lg, c + 1, entries[c + 1 - prev].term)
  BY Zenon, <1>0 DEF overlays
<1>4. /\ end \in Nat /\ c \in Nat /\ prev <= c /\ c <= end /\ end <= Len(lead)
      /\ Len(lead) \in Nat /\ Len(lg) \in Nat
  <2>1. Len(lead) \in Nat /\ Len(lg) \in Nat /\ Len(entries) \in Nat
    BY Zenon, LenFacts
  <2>2. c \in prev..end
    BY Zenon, <1>3
  <2> QED
    BY <2>1, <2>2
<1>5. \A j \in (prev + 1)..end : entries[j - prev] = lead[j]
  <2> TAKE j \in (prev + 1)..end
  <2>1. j - prev \in 1..Len(entries) /\ prev + (j - prev) = j
    BY Zenon, Shifted, LenFacts
  <2> QED
    BY Zenon, <2>1
<1> HIDE DEF end
<1>6. agree(lg, lead, c)
  <2>1. CASE c = prev
    BY Zenon, <2>1
  <2>2. CASE c # prev
    <3>1. c \in (prev + 1)..c /\ c \in (prev + 1)..end /\ c \in 1..Len(lg) /\ c <= Len(lead)
      BY <1>3, <1>4, <2>2
    <3>2. lg[c].term = lead[c].term
      BY Zenon, <1>3, <1>5, <3>1
    <3> QED
      BY Zenon, <3>1, <3>2, TracedMatch
  <2> QED
    BY Zenon, <2>1, <2>2
<1>7. CASE new = lg /\ c = end
  BY Zenon, <1>6, <1>7 DEF end, merges
<1>8. CASE /\ c < end /\ Len(new) = end
           /\ \A j \in 1..c : new[j] = lg[j]
           /\ \A j \in (c + 1)..Len(new) : new[j] = entries[j - prev]
           /\ ~holds(lg, c + 1, entries[c + 1 - prev].term)
  <2>1. \A j \in 1..end : new[j] = lead[j]
    <3> TAKE j \in 1..end
    <3>1. CASE j <= c
      <4>1. j \in 1..c
        BY <1>4, <3>1
      <4> QED
        BY Zenon, <1>6, <1>8, <4>1 DEF agree
    <3>2. CASE ~(j <= c)
      <4>1. j \in (c + 1)..Len(new) /\ j \in (prev + 1)..end
        BY <1>3, <1>4, <1>8, <3>2
      <4> QED
        BY Zenon, <1>5, <1>8, <4>1
    <3> QED
      BY Zenon, <3>1, <3>2
  <2>2. agree(new, lead, end)
    BY <1>4, <1>8, <2>1 DEF agree
  <2>3. ASSUME NEW k \in Nat, agree(lg, lead, k) PROVE agree(new, lead, k)
    <3>1. k <= c
      <4> SUFFICES ASSUME c < k PROVE FALSE
        BY <1>4
      <4>1. c < end /\ k <= Len(lg)
        BY Zenon, <1>8, <2>3 DEF agree
      <4>2. c + 1 \in 1..k /\ c + 1 \in (prev + 1)..end /\ c + 1 \in 1..Len(lg)
        BY <1>4, <4>1
      <4>3. PICK j \in (prev + 1)..end : j = c + 1
        BY Zenon, <4>2
      <4>4. lg[j] = lead[j] /\ entries[j - prev] = lead[j]
        BY Zenon, <1>5, <2>3, <4>2, <4>3 DEF agree
      <4>5. ~holds(lg, j, entries[j - prev].term)
        BY <1>4, <1>8, <4>3 DEF holds
      <4> QED
        BY Zenon, <4>2, <4>3, <4>4, <4>5 DEF holds
    <3>2. k <= end
      BY <1>4, <3>1
    <3> QED
      BY Zenon, <1>2, <1>4, <2>2, <3>2, AgreeLower
  <2> QED
    BY Zenon, <1>8, <2>2, <2>3 DEF end, merges
<1> QED
  BY Zenon, <1>3, <1>7, <1>8

------------------------------------------------------------------------------
(* The types of the parts that handlers share                               *)

\* The groups together are the type invariant.
LEMMA GroupsAreTypeOK == TypeOK <=> TypeGroups
BY Zenon DEF TypeGroups, TypeOK, ElectionOK, LogOK, ApplyOK, LeaderOK, WaitersOK, AckedOK,
       MessagesOK, FailuresOK, Message

\* What the handlers read of any message.
LEMMA MessageFields ==
    ASSUME NEW m \in Message
    PROVE  /\ m.src \in Node /\ m.dst \in Node /\ m.term \in Nat
           /\ m.type \in {"vote_req", "vote_resp", "append_req", "append_resp"}
           /\ m.type = "vote_req" => m \in RequestVoteRequest
           /\ m.type = "vote_resp" => m \in RequestVoteResponse
           /\ m.type = "append_req" => m \in AppendEntriesRequest
           /\ m.type = "append_resp" => m \in AppendEntriesResponse
BY Zenon DEF Message, RequestVoteRequest, RequestVoteResponse, AppendEntriesRequest,
       AppendEntriesResponse

\* transmit puts nothing but typed messages in flight.
LEMMA TransmitType ==
    ASSUME NEW rest, NEW sent, rest \subseteq Message, sent \subseteq Message,
           transmit(rest, sent)
    PROVE  MessagesOK'
BY Zenon DEF transmit, MessagesOK, Message, RequestVoteRequest, RequestVoteResponse,
       AppendEntriesRequest, AppendEntriesResponse, Entry

\* The request that replicateToPeer builds is a typed AppendEntries.
LEMMA ReplicateType ==
    ASSUME NEW n \in Node, NEW p \in Node, NEW term \in Nat,
           NEW lg \in Seq(Entry), NEW next \in Nat \ {0}, NEW commit \in Nat
    PROVE  replicateToPeer(n, p, term, lg, next, commit) \in Message
<1>1. SubSeq(lg, next, Len(lg)) \in Seq(Entry)
  <2>1. \A i \in next..Len(lg) : lg[i] \in Entry
    BY ElementFacts
  <2>2. next \in Int /\ Len(lg) \in Int
    OBVIOUS
  <2> QED
    BY Zenon, <2>1, <2>2, SubSeqFacts
<1>2. termAt(lg, next - 1) \in Nat
  BY Zenon, TermAtType
<1> QED
  BY <1>1, <1>2 DEF replicateToPeer, Message, AppendEntriesRequest

\* replicateToAll builds one such request for each peer.
LEMMA ReplicateAllType ==
    ASSUME NEW n \in Node, NEW term \in Nat, NEW lg \in Seq(Entry),
           NEW next \in [Node -> Nat \ {0}], NEW commit \in Nat
    PROVE  replicateToAll(n, term, lg, next, commit) \subseteq Message
BY ReplicateType DEF replicateToAll, peers

\* The answer of handleRequestVote is a typed response.
LEMMA VoteResponseType ==
    ASSUME NEW m \in Message, NEW term \in Nat, NEW granted \in BOOLEAN
    PROVE  voteResponse(m, term, granted) \in Message
BY Zenon, MessageFields DEF voteResponse, Message, RequestVoteResponse

\* The answer of handleAppendEntries is a typed response.
LEMMA AppendResponseType ==
    ASSUME NEW m \in Message, NEW term \in Nat, NEW success \in BOOLEAN,
           NEW match \in Nat, NEW hintTerm \in Nat, NEW hintIndex \in Nat
    PROVE  appendResponse(m, term, success, match, hintTerm, hintIndex) \in Message
BY Zenon, MessageFields DEF appendResponse, Message, AppendEntriesResponse

\* Consuming a message, with or without a typed answer, keeps the network typed.
LEMMA ReplyType ==
    ASSUME MessagesOK, NEW m, NEW r \in Message
    PROVE  /\ reply(m, r) => MessagesOK'
           /\ \A dup \in BOOLEAN : replyOrDuplicate(m, r, dup) => MessagesOK'
           /\ discard(m) => MessagesOK'
<1>1. ASSUME reply(m, r) PROVE MessagesOK'
  <2>1. messages \ {m} \subseteq Message
    BY Zenon DEF MessagesOK
  <2>2. (IF m.awaited THEN {r} ELSE {}) \subseteq Message
    BY Zenon
  <2> QED
    BY Zenon, <1>1, <2>1, <2>2, TransmitType DEF reply
<1>2. UNCHANGED messages => MessagesOK'
  BY Zenon DEF MessagesOK, Message, RequestVoteRequest, RequestVoteResponse,
         AppendEntriesRequest, AppendEntriesResponse, Entry
<1>3. discard(m) => MessagesOK'
  BY Zenon DEF discard, MessagesOK, Message, RequestVoteRequest, RequestVoteResponse,
         AppendEntriesRequest, AppendEntriesResponse, Entry
<1> QED
  BY Zenon, <1>1, <1>2, <1>3 DEF replyOrDuplicate

\* Clearing the progress maps keeps them typed.
LEMMA ForgetType ==
    ASSUME LeaderOK, NEW n \in Node, forgetCandidacy(n)
    PROVE  LeaderOK'
BY DEF LeaderOK, forgetCandidacy

\* becomeFollower keeps the election and progress variables typed.
LEMMA BecomeFollowerType ==
    ASSUME ElectionOK, LeaderOK, NEW n \in Node, NEW term \in Nat,
           NEW leader \in Node \cup {Nil}, becomeFollower(n, term, leader)
    PROVE  ElectionOK' /\ LeaderOK'
<1>1. larger(currentTerm[n], term) \in Nat
  BY Zenon DEF larger, ElectionOK
<1>2. ElectionOK'
  BY Zenon, <1>1 DEF ElectionOK, becomeFollower, forgetCandidacy
<1>3. LeaderOK'
  BY Zenon, ForgetType DEF becomeFollower
<1> QED
  BY Zenon, <1>2, <1>3

\* commitAndApply keeps the checkpoints typed and acknowledges only entries the
\* log has: the commit index it is given is within the log.
LEMMA CommitAndApplyType ==
    ASSUME ApplyOK, WaitersOK, AckedOK, FailuresOK,
           NEW n \in Node, NEW lg \in Seq(Entry), NEW commit \in 0..Len(lg),
           NEW ws \in SUBSET (Nat \X Command), commitAndApply(n, commit, lg, ws)
    PROVE  ApplyOK' /\ WaitersOK' /\ AckedOK' /\ FailuresOK'
<1>1. PICK saveFails \in BOOLEAN, applyFails \in BOOLEAN :
         /\ failures' = failures + (IF saveFails THEN 1 ELSE 0)
                                 + (IF applyFails THEN 1 ELSE 0)
         /\ commitIndex' = [commitIndex EXCEPT ![n] = commit]
         /\ savedCommit' = [savedCommit EXCEPT ![n] =
                              IF saveFails THEN @ ELSE commit]
         /\ \E upto \in IF applyFails THEN lastApplied[n]..(commit - 1)
                                      ELSE {larger(lastApplied[n], commit)} :
               LET served == {w \in ws : w[1] \in (lastApplied[n] + 1)..upto}
               IN  /\ lastApplied' = [lastApplied EXCEPT ![n] = upto]
                   /\ waiters' = [waiters EXCEPT ![n] = ws \ served]
                   /\ acked' = acked \cup {<<w[1], lg[w[1]]>> : w \in served}
  BY Zenon DEF commitAndApply
<1>2. PICK upto \in IF applyFails THEN lastApplied[n]..(commit - 1)
                                  ELSE {larger(lastApplied[n], commit)} :
         LET served == {w \in ws : w[1] \in (lastApplied[n] + 1)..upto}
         IN  /\ lastApplied' = [lastApplied EXCEPT ![n] = upto]
             /\ waiters' = [waiters EXCEPT ![n] = ws \ served]
             /\ acked' = acked \cup {<<w[1], lg[w[1]]>> : w \in served}
  BY Zenon, <1>1
<1>3. commit \in Nat /\ lastApplied[n] \in Nat
  BY DEF ApplyOK
<1>4. upto \in Nat /\ (upto <= lastApplied[n] \/ upto <= commit)
  BY <1>2, <1>3 DEF larger
<1>5. ApplyOK'
  BY Zenon, <1>1, <1>2, <1>3, <1>4 DEF ApplyOK
<1>6. FailuresOK'
  BY <1>1 DEF FailuresOK
<1>7. WaitersOK'
  BY Zenon, <1>2 DEF WaitersOK
<1>8. AckedOK'
  <2> SUFFICES ASSUME NEW w \in ws, w[1] \in (lastApplied[n] + 1)..upto
               PROVE  <<w[1], lg[w[1]]>> \in Nat \X Entry
    BY <1>2 DEF AckedOK, Entry
  <2>1. w[1] \in 1..Len(lg)
    BY <1>3, <1>4
  <2> QED
    BY Zenon, <2>1, ElementFacts
<1> QED
  BY Zenon, <1>5, <1>6, <1>7, <1>8

\* A group of variables that a handler leaves alone keeps its type.
LEMMA UnchangedTypes ==
    /\ ElectionOK /\ UNCHANGED electionVars => ElectionOK'
    /\ LogOK /\ UNCHANGED log => LogOK'
    /\ ApplyOK /\ UNCHANGED applyVars => ApplyOK'
    /\ LeaderOK /\ UNCHANGED leaderVars => LeaderOK'
    /\ WaitersOK /\ UNCHANGED waiters => WaitersOK'
    /\ AckedOK /\ UNCHANGED acked => AckedOK'
    /\ MessagesOK /\ UNCHANGED messages => MessagesOK'
    /\ FailuresOK /\ UNCHANGED failures => FailuresOK'
<1>1. ElectionOK /\ UNCHANGED electionVars => ElectionOK'
  BY Zenon DEF ElectionOK, electionVars
<1>2. LogOK /\ UNCHANGED log => LogOK'
  BY Zenon DEF LogOK, Entry
<1>3. ApplyOK /\ UNCHANGED applyVars => ApplyOK'
  BY Zenon DEF ApplyOK, applyVars
<1>4. LeaderOK /\ UNCHANGED leaderVars => LeaderOK'
  BY Zenon DEF LeaderOK, leaderVars
<1>5. /\ WaitersOK /\ UNCHANGED waiters => WaitersOK'
      /\ AckedOK /\ UNCHANGED acked => AckedOK'
      /\ FailuresOK /\ UNCHANGED failures => FailuresOK'
  BY Zenon DEF WaitersOK, AckedOK, FailuresOK, Entry
<1>6. MessagesOK /\ UNCHANGED messages => MessagesOK'
  BY Zenon DEF MessagesOK, Message, RequestVoteRequest, RequestVoteResponse,
         AppendEntriesRequest, AppendEntriesResponse, Entry
<1> QED
  BY Zenon, <1>1, <1>2, <1>3, <1>4, <1>5, <1>6

\* failWaiters leaves typed waiters.
LEMMA StepDownWaitersType ==
    ASSUME WaitersOK, NEW n \in Node
    PROVE  /\ waitersAfterStepDown(n) \in SUBSET (Nat \X Command)
           /\ waiters' = [waiters EXCEPT ![n] = waitersAfterStepDown(n)] => WaitersOK'
<1>1. waitersAfterStepDown(n) \in SUBSET (Nat \X Command)
  BY Zenon DEF WaitersOK, waitersAfterStepDown
<1> QED
  BY Zenon, <1>1 DEF WaitersOK

------------------------------------------------------------------------------
(* The types after each handler                                             *)

\* A step-down on a response of a higher term keeps the types.
LEMMA StepDownType ==
    ASSUME TypeGroups, NEW n \in Node, NEW m \in messages, stepDown(n, m)
    PROVE  TypeGroups'
<1> USE DEF TypeGroups
<1>1. m \in Message /\ m.term \in Nat
  BY Zenon, MessageFields DEF MessagesOK
<1>2. ElectionOK' /\ LeaderOK'
  BY Zenon, <1>1, BecomeFollowerType DEF stepDown
<1>3. WaitersOK' /\ MessagesOK'
  BY Zenon, <1>1, StepDownWaitersType, ReplyType DEF stepDown
<1>4. LogOK' /\ ApplyOK' /\ AckedOK' /\ FailuresOK'
  BY Zenon, UnchangedTypes DEF stepDown
<1> QED
  BY Zenon, <1>2, <1>3, <1>4

\* Starting an election keeps the types.
LEMMA ElectionTimeoutType ==
    ASSUME TypeGroups, NEW n \in Node, onElectionTimeout(n)
    PROVE  TypeGroups'
<1> USE DEF TypeGroups
<1>1. ElectionOK'
  BY DEF onElectionTimeout, ElectionOK
<1>2. MessagesOK'
  <2> DEFINE req(p) == [type |-> "vote_req", src |-> n, dst |-> p, awaited |-> TRUE,
                        term |-> currentTerm[n] + 1, lastLogIndex |-> Len(log[n]),
                        lastLogTerm |-> lastLogTerm(n)]
  <2>1. log[n] \in Seq(Entry)
    BY Zenon DEF LogOK
  <2>2. Len(log[n]) \in Nat /\ lastLogTerm(n) \in Nat
    BY Zenon, <2>1, TermAtType, LenFacts DEF lastLogTerm
  <2>3. currentTerm[n] + 1 \in Nat
    BY DEF ElectionOK
  <2>4. \A p \in peers(n) : req(p) \in Message
    BY Zenon, <2>2, <2>3 DEF peers, Message, RequestVoteRequest
  <2>5. {req(p) : p \in peers(n)} \subseteq Message
    BY Zenon, <2>4
  <2>6. messages \subseteq Message
    BY Zenon DEF MessagesOK
  <2> QED
    BY Zenon, <2>5, <2>6, TransmitType DEF onElectionTimeout
<1>3. LogOK' /\ ApplyOK' /\ LeaderOK' /\ WaitersOK' /\ AckedOK' /\ FailuresOK'
  BY Zenon, UnchangedTypes DEF onElectionTimeout, clientVars
<1> QED
  BY Zenon, <1>1, <1>2, <1>3

\* Answering a RequestVote keeps the types.
LEMMA RequestVoteType ==
    ASSUME TypeGroups, NEW n \in Node, NEW m \in messages, handleRequestVote(n, m)
    PROVE  TypeGroups'
<1> USE DEF TypeGroups
<1>1. /\ m \in Message /\ m.term \in Nat /\ m.src \in Node
      /\ currentTerm[n] \in Nat
  BY Zenon, MessageFields DEF MessagesOK, ElectionOK
<1>2. CASE refuseVote(n, m)
  <2>1. MessagesOK'
    BY Zenon, <1>1, <1>2, VoteResponseType, ReplyType DEF refuseVote
  <2>2. FailuresOK'
    BY <1>2 DEF refuseVote, refused, storeFails, FailuresOK
  <2>3. ElectionOK' /\ LogOK' /\ ApplyOK' /\ LeaderOK' /\ WaitersOK' /\ AckedOK'
    BY Zenon, <1>2, UnchangedTypes DEF refuseVote, clientVars
  <2> QED
    BY Zenon, <2>1, <2>2, <2>3
<1>3. CASE denyVote(n, m)
  <2>1. MessagesOK'
    BY ZenonT(60), <1>1, <1>3, VoteResponseType, ReplyType DEF denyVote
  <2>2. FailuresOK'
    BY <1>3 DEF denyVote, storeFails, FailuresOK
  <2>3. ElectionOK' /\ LeaderOK' /\ WaitersOK'
    BY Zenon, <1>1, <1>3, BecomeFollowerType, StepDownWaitersType, UnchangedTypes
       DEF denyVote
  <2>4. LogOK' /\ ApplyOK' /\ AckedOK'
    BY Zenon, <1>3, UnchangedTypes DEF denyVote
  <2> QED
    BY Zenon, <2>1, <2>2, <2>3, <2>4
<1>4. CASE grantVote(n, m)
  <2>1. MessagesOK'
    BY Zenon, <1>1, <1>4, VoteResponseType, ReplyType DEF grantVote
  <2>2. ElectionOK' /\ LeaderOK'
    <3>1. CASE m.term > currentTerm[n]
      <4>1. ElectionOK'
        BY <1>1, <1>4, <3>1 DEF grantVote, forgetCandidacy, ElectionOK
      <4>2. LeaderOK'
        BY Zenon, <1>4, <3>1, ForgetType DEF grantVote
      <4> QED
        BY ZenonT(30), <4>1, <4>2
    <3>2. CASE ~(m.term > currentTerm[n])
      <4>1. ElectionOK'
        BY Zenon, <1>1, <1>4, <3>2 DEF grantVote, ElectionOK
      <4> QED
        BY Zenon, <4>1, <1>4, <3>2, UnchangedTypes DEF grantVote
    <3> QED
      BY Zenon, <3>1, <3>2
  <2>3. WaitersOK'
    BY Zenon, <1>4, StepDownWaitersType, UnchangedTypes DEF grantVote
  <2>4. LogOK' /\ ApplyOK' /\ AckedOK' /\ FailuresOK'
    BY Zenon, <1>4, UnchangedTypes DEF grantVote
  <2> QED
    BY Zenon, <2>1, <2>2, <2>3, <2>4
<1> QED
  BY Zenon, <1>2, <1>3, <1>4 DEF handleRequestVote

\* Counting a vote, and the promotion it may bring, keeps the types.
LEMMA VoteResponseStepType ==
    ASSUME TypeGroups, NEW n \in Node, NEW m \in messages, handleVoteResponse(n, m)
    PROVE  TypeGroups'
<1> USE DEF TypeGroups
<1>1. /\ m \in Message /\ m.src \in Node
      /\ log[n] \in Seq(Entry) /\ Len(log[n]) \in Nat
      /\ currentTerm[n] \in Nat /\ commitIndex[n] \in Nat
  BY Zenon, MessageFields, LenFacts DEF MessagesOK, ElectionOK, LogOK, ApplyOK
<1>2. CASE stepDown(n, m)
  BY Zenon, <1>2, StepDownType
<1>3. CASE ignoreVote(n, m)
  <2>1. MessagesOK'
    BY Zenon, <1>1, <1>3, ReplyType DEF ignoreVote
  <2> QED
    BY Zenon, <2>1, <1>3, UnchangedTypes DEF ignoreVote, clientVars
<1>4. CASE keepCollecting(n, m)
  <2>1. MessagesOK'
    BY ZenonT(60), <1>1, <1>4, ReplyType DEF keepCollecting
  <2>2. ElectionOK'
    <3>1. /\ votesGranted' = [votesGranted EXCEPT ![n] = @ + 1]
          /\ voters' = [voters EXCEPT ![n] = @ \cup {m.src}]
          /\ UNCHANGED <<role, currentTerm, votedFor, leaderID>>
      BY Zenon, <1>4 DEF keepCollecting, countVote
    <3> QED
      BY <1>1, <3>1 DEF ElectionOK
  <2> QED
    BY Zenon, <2>1, <2>2, <1>4, UnchangedTypes DEF keepCollecting, clientVars
<1>5. CASE promoteToLeader(n, m)
  <2>1. ElectionOK'
    BY <1>1, <1>5 DEF promoteToLeader, countVote, ElectionOK
  <2>2. LeaderOK' /\ nextIndex'[n] \in [Node -> Nat \ {0}]
    <3>1. /\ nextIndex' = [nextIndex EXCEPT ![n] = [p \in Node |-> initialNextIndex(n)]]
          /\ matchIndex' = [matchIndex EXCEPT ![n] = [p \in Node |-> 0]]
      BY Zenon, <1>5 DEF promoteToLeader
    <3>2. initialNextIndex(n) \in Nat \ {0}
      BY <1>1 DEF initialNextIndex
    <3> QED
      BY Zenon, <3>1, <3>2 DEF LeaderOK
  <2>3. LogOK' /\ log'[n] \in Seq(Entry)
    <3>1. [term |-> currentTerm[n], command |-> Noop] \in Entry
      BY Zenon, <1>1 DEF Entry
    <3>2. Append(log[n], [term |-> currentTerm[n], command |-> Noop]) \in Seq(Entry)
      BY <1>1, <3>1
    <3>3. log \in [Node -> Seq(Entry)]
      BY Zenon DEF LogOK
    <3>4. log' \in [Node -> Seq(Entry)]
      BY ZenonT(60), <1>1, <1>5, <3>2, <3>3 DEF promoteToLeader
    <3> QED
      BY Zenon, <3>4 DEF LogOK, Entry
  <2>4. MessagesOK'
    <3>1. replicateToAll(n, currentTerm[n], log'[n], nextIndex'[n], commitIndex[n])
             \subseteq Message
      BY Zenon, <1>1, <2>2, <2>3, ReplicateAllType
    <3>2. messages \ {m} \subseteq Message
      BY ZenonT(30) DEF MessagesOK
    <3> QED
      BY Zenon, <1>5, <3>1, <3>2, TransmitType DEF promoteToLeader
  <2>5. FailuresOK'
    BY <1>5 DEF promoteToLeader, storeFails, FailuresOK
  <2>6. ApplyOK' /\ WaitersOK' /\ AckedOK'
    BY Zenon, <1>5, UnchangedTypes DEF promoteToLeader, clientVars
  <2> QED
    BY ZenonT(30), <2>1, <2>2, <2>3, <2>4, <2>5, <2>6
<1> QED
  BY Zenon, <1>2, <1>3, <1>4, <1>5 DEF handleVoteResponse

\* Accepting a proposal keeps the types.
LEMMA ProposeType ==
    ASSUME TypeGroups, NEW n \in Node, NEW c \in Command, handlePropose(n, c)
    PROVE  TypeGroups'
<1> USE DEF TypeGroups
<1>1. /\ log[n] \in Seq(Entry) /\ Len(log[n]) \in Nat
      /\ currentTerm[n] \in Nat /\ commitIndex[n] \in Nat
      /\ nextIndex[n] \in [Node -> Nat \ {0}]
  BY Zenon, LenFacts DEF ElectionOK, LogOK, ApplyOK, LeaderOK
<1>2. LogOK' /\ log'[n] \in Seq(Entry)
  <2>1. [term |-> currentTerm[n], command |-> c] \in Entry
    BY Zenon, <1>1 DEF Entry
  <2>2. Append(log[n], [term |-> currentTerm[n], command |-> c]) \in Seq(Entry)
    BY Zenon, <1>1, <2>1, AppendFacts
  <2>3. log \in [Node -> Seq(Entry)]
    BY Zenon DEF LogOK
  <2>4. log' \in [Node -> Seq(Entry)]
    BY Zenon, <2>2, <2>3 DEF handlePropose
  <2> QED
    BY ZenonT(60), <2>4 DEF LogOK, Entry
<1>3. WaitersOK'
  BY <1>1 DEF handlePropose, WaitersOK
<1>4. MessagesOK'
  <2>1. replicateToAll(n, currentTerm[n], log'[n], nextIndex[n], commitIndex[n])
           \subseteq Message
    BY Zenon, <1>1, <1>2, ReplicateAllType
  <2>2. messages \subseteq Message
    BY Zenon DEF MessagesOK
  <2> QED
    BY Zenon, <2>1, <2>2, TransmitType DEF handlePropose
<1>5. ElectionOK' /\ ApplyOK' /\ LeaderOK' /\ AckedOK' /\ FailuresOK'
  BY ZenonT(60), UnchangedTypes DEF handlePropose
<1> QED
  BY Zenon, <1>2, <1>3, <1>4, <1>5

\* A heartbeat keeps the types.
LEMMA HeartbeatType ==
    ASSUME TypeGroups, NEW n \in Node, onHeartbeat(n)
    PROVE  TypeGroups'
<1> USE DEF TypeGroups
<1>1. /\ log[n] \in Seq(Entry) /\ currentTerm[n] \in Nat /\ commitIndex[n] \in Nat
      /\ nextIndex[n] \in [Node -> Nat \ {0}]
  BY Zenon DEF ElectionOK, LogOK, ApplyOK, LeaderOK
<1>2. MessagesOK'
  <2>1. replicateToAll(n, currentTerm[n], log[n], nextIndex[n], commitIndex[n])
           \subseteq Message
    BY ZenonT(60), <1>1, ReplicateAllType
  <2>2. messages \subseteq Message
    BY Zenon DEF MessagesOK
  <2> QED
    BY Zenon, <2>1, <2>2, TransmitType DEF onHeartbeat
<1> QED
  BY Zenon, <1>2, UnchangedTypes DEF onHeartbeat, clientVars

\* Answering an AppendEntries, with everything that follows from accepting it,
\* keeps the types.
LEMMA AppendEntriesType ==
    ASSUME TypeGroups, NEW n \in Node, NEW m \in messages, NEW dup \in BOOLEAN,
           handleAppendEntries(n, m, dup)
    PROVE  TypeGroups'
<1> USE DEF TypeGroups
<1>1. /\ m \in Message /\ m.term \in Nat /\ m.src \in Node
      /\ m \in AppendEntriesRequest
  BY Zenon, MessageFields DEF MessagesOK, handleAppendEntries
<1>2. /\ m.prevLogIndex \in Nat /\ m.entries \in Seq(Entry) /\ m.leaderCommit \in Nat
      /\ log[n] \in Seq(Entry) /\ Len(log[n]) \in Nat /\ Len(m.entries) \in Nat
      /\ currentTerm[n] \in Nat /\ commitIndex[n] \in Nat
  BY Zenon, <1>1, LenFacts DEF AppendEntriesRequest, LogOK, ElectionOK, ApplyOK
<1>3. follow(n, m) => ElectionOK' /\ LeaderOK'
  BY Zenon, <1>1, BecomeFollowerType DEF follow
<1>4. CASE refuseAppend(n, m, dup)
  <2>1. MessagesOK'
    BY Zenon, <1>1, <1>2, <1>4, AppendResponseType, ReplyType DEF refuseAppend
  <2>2. FailuresOK'
    BY <1>4 DEF refuseAppend, refused, storeFails, FailuresOK
  <2>3. ElectionOK' /\ LogOK' /\ ApplyOK' /\ LeaderOK' /\ WaitersOK' /\ AckedOK'
    BY Zenon, <1>4, UnchangedTypes DEF refuseAppend, clientVars
  <2> QED
    BY Zenon, <2>1, <2>2, <2>3
<1>5. CASE rejectAppend(n, m, dup)
  <2> DEFINE short == m.prevLogIndex > Len(log[n])
             hintTerm == IF short THEN 0 ELSE log[n][m.prevLogIndex].term
             hintIndex == IF short THEN Len(log[n]) + 1
                          ELSE firstIndexOfTerm(log[n], m.prevLogIndex)
  <2>1. hintTerm \in Nat /\ hintIndex \in Nat
    <3>1. CASE short
      BY <1>2, <3>1
    <3>2. CASE ~short
      <4>1. m.prevLogIndex \in 1..Len(log[n])
        BY <1>2, <1>5, <3>2 DEF rejectAppend, prevLogMatches
      <4>2. log[n][m.prevLogIndex] \in Entry
        BY Zenon, <1>2, <4>1, ElementFacts
      <4>3. firstIndexOfTerm(log[n], m.prevLogIndex) \in Nat
        BY <1>2, <4>1, FirstIndexType
      <4> QED
        BY Zenon, <3>2, <4>2, <4>3 DEF Entry
    <3> QED
      BY Zenon, <3>1, <3>2
  <2>2. replyOrDuplicate(m, appendResponse(m, m.term, FALSE, 0, hintTerm, hintIndex),
                         dup)
    BY Zenon, <1>5 DEF rejectAppend
  <2> HIDE DEF short, hintTerm, hintIndex
  <2>3. MessagesOK'
    BY ZenonT(60), <1>1, <2>1, <2>2, AppendResponseType, ReplyType
  <2>4. WaitersOK' /\ ElectionOK' /\ LeaderOK'
    BY Zenon, <1>3, <1>5, StepDownWaitersType DEF rejectAppend
  <2>5. LogOK' /\ ApplyOK' /\ AckedOK' /\ FailuresOK'
    BY Zenon, <1>5, UnchangedTypes DEF rejectAppend
  <2> QED
    BY Zenon, <2>3, <2>4, <2>5
<1>6. CASE failAppend(n, m, dup)
  <2>1. MessagesOK'
    BY Zenon, <1>1, <1>6, AppendResponseType, ReplyType DEF failAppend
  <2>2. WaitersOK' /\ ElectionOK' /\ LeaderOK'
    BY ZenonT(60), <1>3, <1>6, StepDownWaitersType DEF failAppend
  <2>3. FailuresOK'
    BY <1>6 DEF failAppend, storeFails, FailuresOK
  <2>4. LogOK' /\ ApplyOK' /\ AckedOK'
    BY Zenon, <1>6, UnchangedTypes DEF failAppend
  <2> QED
    BY Zenon, <2>1, <2>2, <2>3, <2>4
<1>7. CASE acceptAppend(n, m, dup)
  <2> DEFINE lg == overwriteEntries(log[n], m.prevLogIndex, m.entries)
             match == m.prevLogIndex + Len(m.entries)
             commit == smaller(m.leaderCommit, match)
  <2>1. m.prevLogIndex \in 0..Len(log[n])
    <3>1. prevLogMatches(n, m)
      BY Zenon, <1>7 DEF acceptAppend
    <3> QED
      BY <1>2, <3>1 DEF prevLogMatches, holds
  <2>2. lg \in Seq(Entry) /\ Len(lg) >= match
    BY ZenonT(30), <1>2, <2>1, OverwriteType
  <2>3. log' = [log EXCEPT ![n] = lg]
    BY Zenon, <1>7 DEF acceptAppend
  <2>4. log'[n] = lg
    BY Zenon, <2>3 DEF LogOK
  <2>5. LogOK'
    <3> HIDE DEF lg
    <3> QED
      BY Zenon, <2>2, <2>3 DEF LogOK, Entry
  <2>6. match \in Nat /\ commit \in 0..Len(lg)
    <3> HIDE DEF lg
    <3> QED
      BY SMTT(30), <1>2, <2>2, LenFacts DEF smaller
  <2>7. /\ IF commit > commitIndex[n]
           THEN commitAndApply(n, commit, lg, waitersAfterStepDown(n))
           ELSE /\ waiters' = [waiters EXCEPT ![n] = waitersAfterStepDown(n)]
                /\ UNCHANGED <<applyVars, acked, failures>>
        /\ replyOrDuplicate(m, appendResponse(m, m.term, TRUE, match, 0, 0), dup)
    BY Zenon, <1>7, <2>4 DEF acceptAppend, matchedUpTo
  <2> HIDE DEF lg, match, commit
  <2>8. MessagesOK'
    BY ZenonT(60), <1>1, <2>6, <2>7, AppendResponseType, ReplyType
  <2>9. ApplyOK' /\ WaitersOK' /\ AckedOK' /\ FailuresOK'
    BY ZenonT(30), <2>2, <2>6, <2>7, CommitAndApplyType, StepDownWaitersType, UnchangedTypes
  <2> QED
    BY ZenonT(30), <1>3, <1>7, <2>5, <2>8, <2>9 DEF acceptAppend
<1> QED
  BY Zenon, <1>4, <1>5, <1>6, <1>7 DEF handleAppendEntries

\* Handling an AppendEntries answer, up to the commit it may cause, keeps the
\* types: the index advanceCommit settles on is within the leader's log.
LEMMA AppendResponseStepType ==
    ASSUME TypeGroups, NEW n \in Node, NEW m \in messages, handleAppendResponse(n, m)
    PROVE  TypeGroups'
<1> USE DEF TypeGroups
<1>1. /\ m \in Message /\ m.src \in Node /\ m \in AppendEntriesResponse
  BY Zenon, MessageFields DEF MessagesOK, handleAppendResponse
<1>2. /\ m.conflictIndex \in Nat /\ m.matchIndex \in Nat
      /\ log[n] \in Seq(Entry) /\ Len(log[n]) \in Nat
      /\ currentTerm[n] \in Nat /\ commitIndex[n] \in Nat
      /\ messages \subseteq Message /\ messages \ {m} \subseteq Message
  BY ZenonT(60), <1>1, LenFacts
     DEF AppendEntriesResponse, LogOK, ElectionOK, ApplyOK, MessagesOK
<1>3. CASE stepDown(n, m)
  BY Zenon, <1>3, StepDownType
<1>4. CASE ignoreReply(n, m)
  <2>1. MessagesOK'
    BY Zenon, <1>1, <1>4, ReplyType DEF ignoreReply
  <2> QED
    BY Zenon, <2>1, <1>4, UnchangedTypes DEF ignoreReply, clientVars
<1>5. CASE retryAppend(n, m)
  <2>1. backupNextIndex(n, m) \in Nat \ {0}
    <3>1. lastIndexWithTerm(log[n], m.conflictTerm) \in Nat
      BY <1>2, LastIndexType
    <3> QED
      BY SMTT(30), <1>2, <3>1 DEF backupNextIndex, larger
  <2>2. /\ nextIndex' = [nextIndex EXCEPT ![n][m.src] = backupNextIndex(n, m)]
        /\ UNCHANGED matchIndex
    BY Zenon, <1>5 DEF retryAppend
  <2>3. LeaderOK' /\ nextIndex'[n][m.src] \in Nat \ {0}
    BY Zenon, <1>1, <2>1, <2>2 DEF LeaderOK
  <2>4. MessagesOK'
    <3>1. replicateToPeer(n, m.src, currentTerm[n], log[n], nextIndex'[n][m.src],
                          commitIndex[n]) \in Message
      BY Zenon, <1>1, <1>2, <2>3, ReplicateType
    <3> QED
      BY ZenonT(30), <1>2, <1>5, <3>1, TransmitType DEF retryAppend
  <2>5. ElectionOK' /\ LogOK' /\ ApplyOK' /\ WaitersOK' /\ AckedOK' /\ FailuresOK'
    BY Zenon, <1>5, UnchangedTypes DEF retryAppend, clientVars
  <2> QED
    BY Zenon, <2>3, <2>4, <2>5
<1>6. CASE recordProgress(n, m)
  <2>1. LeaderOK' /\ nextIndex'[n] \in [Node -> Nat \ {0}] /\ matchIndex'[n] \in [Node -> Nat]
    <3>1. CASE m.matchIndex > matchIndex[n][m.src]
      <4>1. /\ matchIndex' = [matchIndex EXCEPT ![n][m.src] = m.matchIndex]
            /\ nextIndex' = [nextIndex EXCEPT ![n][m.src] = m.matchIndex + 1]
        BY Zenon, <1>6, <3>1 DEF recordProgress
      <4>2. m.matchIndex + 1 \in Nat \ {0}
        BY <1>2
      <4> QED
        BY Zenon, <1>1, <1>2, <4>1, <4>2 DEF LeaderOK
    <3>2. CASE ~(m.matchIndex > matchIndex[n][m.src])
      BY ZenonT(60), <1>6, <3>2 DEF recordProgress, leaderVars, LeaderOK
    <3> QED
      BY Zenon, <3>1, <3>2
  <2> DEFINE matches == [matchIndex'[n] EXCEPT ![n] = Len(log[n])]
             commit == commitCandidate(n, matches)
  <2>2. matches \in [Node -> Nat]
    BY Zenon, <1>2, <2>1
  <2>3. commit \in Nat /\ (commit > commitIndex[n] => commit \in 0..Len(log[n]))
    <3> HIDE DEF matches
    <3>1. majorityMatch(matches) \in Nat
      BY Zenon, <2>2, MajorityMatchType
    <3> QED
      BY <1>2, <3>1 DEF commitCandidate, holds
  <2>4. IF commit > commitIndex[n]
        THEN /\ commitAndApply(n, commit, log[n], waiters[n])
             /\ transmit(messages \ {m},
                         replicateToAll(n, currentTerm[n], log[n], nextIndex'[n], commit))
        ELSE /\ discard(m)
             /\ UNCHANGED <<applyVars, clientVars, failures>>
    BY Zenon, <1>6 DEF recordProgress
  <2> HIDE DEF matches, commit
  <2>5. CASE commit > commitIndex[n]
    <3>1. waiters[n] \in SUBSET (Nat \X Command)
      BY Zenon DEF WaitersOK
    <3>2. ApplyOK' /\ WaitersOK' /\ AckedOK' /\ FailuresOK'
      BY ZenonT(60), <1>2, <2>3, <2>4, <2>5, <3>1, CommitAndApplyType
    <3>3. replicateToAll(n, currentTerm[n], log[n], nextIndex'[n], commit) \subseteq Message
      BY Zenon, <1>2, <2>1, <2>3, ReplicateAllType
    <3>4. MessagesOK'
      BY ZenonT(60), <1>2, <2>4, <2>5, <3>3, TransmitType
    <3> QED
      BY Zenon, <1>6, <2>1, <3>2, <3>4, UnchangedTypes DEF recordProgress
  <2>6. CASE ~(commit > commitIndex[n])
    <3>1. MessagesOK'
      BY ZenonT(60), <1>1, <2>4, <2>6, ReplyType
    <3>2. ApplyOK' /\ WaitersOK' /\ AckedOK' /\ FailuresOK'
      BY Zenon, <2>4, <2>6, UnchangedTypes DEF clientVars
    <3> QED
      BY ZenonT(30), <1>6, <2>1, <3>1, <3>2, UnchangedTypes DEF recordProgress
  <2> QED
    BY Zenon, <2>5, <2>6
<1> QED
  BY Zenon, <1>3, <1>4, <1>5, <1>6 DEF handleAppendResponse

\* A restart keeps the types.
LEMMA RecoverType ==
    ASSUME TypeGroups, NEW n \in Node, recover(n)
    PROVE  TypeGroups'
<1> USE DEF TypeGroups
<1>1. ElectionOK'
  BY Zenon DEF recover, forgetCandidacy, ElectionOK
<1>2. LeaderOK'
  BY Zenon, ForgetType DEF recover
<1>3. ApplyOK'
  BY Zenon DEF recover, larger, ApplyOK
<1>4. MessagesOK'
  <2> DEFINE stale(m) == IF m.src = n /\ m.type \in {"vote_req", "append_req"}
                         THEN [m EXCEPT !.awaited = FALSE] ELSE m
             kept == {k \in messages :
                         ~(k.dst = n /\ k.type \in {"vote_resp", "append_resp"})}
  <2>1. \A m \in Message : stale(m) \in Message
    <3> SUFFICES ASSUME NEW m \in Message
                 PROVE  stale(m) \in Message
      BY Zenon
    <3>1. CASE m.type = "vote_req"
      <4>1. m \in RequestVoteRequest
        BY Zenon, <3>1, MessageFields
      <4>2. [m EXCEPT !.awaited = FALSE] \in RequestVoteRequest
        BY Zenon, <4>1 DEF RequestVoteRequest
      <4> QED
        BY ZenonT(30), <4>2 DEF Message
    <3>2. CASE m.type = "append_req"
      <4>1. m \in AppendEntriesRequest
        BY Zenon, <3>2, MessageFields
      <4>2. [m EXCEPT !.awaited = FALSE] \in AppendEntriesRequest
        BY ZenonT(60), <4>1 DEF AppendEntriesRequest
      <4> QED
        BY Zenon, <4>2 DEF Message
    <3> QED
      BY Zenon, <3>1, <3>2
  <2>2. kept \subseteq Message
    BY Zenon DEF MessagesOK
  <2>3. messages' = {stale(m) : m \in kept}
    BY Zenon DEF recover
  <2> HIDE DEF stale, kept
  <2>4. {stale(m) : m \in kept} \subseteq Message
    BY Zenon, <2>1, <2>2
  <2> HIDE DEF Message
  <2> QED
    BY Zenon, <2>3, <2>4 DEF MessagesOK, Message, RequestVoteRequest, RequestVoteResponse,
                      AppendEntriesRequest, AppendEntriesResponse, Entry
<1>5. WaitersOK' /\ FailuresOK'
  BY DEF recover, WaitersOK, FailuresOK
<1>6. LogOK' /\ AckedOK'
  BY Zenon, UnchangedTypes DEF recover
<1> QED
  BY Zenon, <1>1, <1>2, <1>3, <1>4, <1>5, <1>6

------------------------------------------------------------------------------
(* Type correctness                                                         *)

\* The initial state, an empty data directory on every node, is well typed.
LEMMA InitType == Init => TypeGroups
BY DEF Init, TypeGroups, ElectionOK, LogOK, ApplyOK, LeaderOK, WaitersOK, AckedOK,
       MessagesOK, FailuresOK, Message

\* Every step of every node keeps the state well typed.
LEMMA NextType ==
    ASSUME TypeGroups, [Next]_vars
    PROVE  TypeGroups'
<1>1. CASE UNCHANGED vars
  BY Zenon, <1>1, UnchangedTypes DEF vars, clientVars, TypeGroups
<1>2. ASSUME NEW n \in Node, candidacyFails(n)
      PROVE  TypeGroups'
  BY Zenon, <1>1, <1>2 DEF candidacyFails
<1>3. ASSUME NEW n \in Node, NEW m \in messages, NEW dup \in Duplicates,
             handleAppendEntries(n, m, dup)
      PROVE  TypeGroups'
  BY Zenon, <1>3, BoundAssumption, AppendEntriesType
<1> QED
  BY ZenonT(30), <1>1, <1>2, <1>3, ElectionTimeoutType, HeartbeatType, RecoverType, ProposeType,
     RequestVoteType, VoteResponseStepType, AppendResponseStepType DEF Next

\* The node's fields keep their types in every reachable state: indexes and terms
\* are natural numbers, nextIndex is never 0 (so replicateToPeer's previous index
\* does not wrap), a result is only handed out for an entry the log has.
THEOREM TypeCorrect == Spec => []TypeOK
<1>1. Init => TypeGroups
  BY Zenon, InitType
<1>2. TypeGroups /\ [Next]_vars => TypeGroups'
  BY Zenon, NextType
<1>3. Spec => []TypeGroups
  BY <1>1, <1>2, PTL DEF Spec
<1>4. TypeGroups => TypeOK
  BY Zenon, GroupsAreTypeOK
<1> QED
  BY <1>3, <1>4, PTL

------------------------------------------------------------------------------
(* What a step does to terms, votes and ballots                             *)

\* If terms and votes stand and new evidence comes from votes held after the
\* step, evidence stays truthful and exclusive: persistVote runs before the
\* answer is sent.
LEMMA EvidenceStep ==
    ASSUME ElectionOK, ElectionOK', VotesKept, EvidenceCast, EvidenceExclusive,
           EvidenceGrows
    PROVE  EvidenceCast' /\ EvidenceExclusive'
<1>1. \A c, p \in Node, t \in Nat : Evidence(c, p, t) => Cast(c, p, t)'
  <2> SUFFICES ASSUME NEW c \in Node, NEW p \in Node, NEW t \in Nat, Evidence(c, p, t)
               PROVE  Cast(c, p, t)'
    BY Zenon
  <2>1. Cast(c, p, t)
    BY Zenon DEF EvidenceCast
  <2>2. c # Nil
    BY Zenon, NodeAssumption
  <2>3. currentTerm[p] \in Nat /\ currentTerm'[p] \in Nat
    BY Zenon DEF ElectionOK
  <2> QED
    BY SMTT(30), <2>1, <2>2, <2>3 DEF Cast, VotesKept
<1>2. \A c, p \in Node, t \in Nat : Fresh(c, p, t) => Cast(c, p, t)'
  BY Zenon DEF Fresh, Cast
<1>3. EvidenceCast'
  BY Zenon, <1>1, <1>2 DEF EvidenceCast, EvidenceGrows
<1>4. EvidenceExclusive'
  <2> SUFFICES ASSUME NEW c \in Node, NEW d \in Node, NEW p \in Node, NEW t \in Nat,
                      Evidence(c, p, t)', Evidence(d, p, t)'
               PROVE  c = d
    BY Zenon DEF EvidenceExclusive
  <2>1. Cast(c, p, t)' /\ Cast(d, p, t)'
    BY Zenon, <1>3 DEF EvidenceCast
  <2>2. CASE Fresh(c, p, t) \/ Fresh(d, p, t)
    BY <2>1, <2>2 DEF Fresh, Cast
  <2>3. CASE Evidence(c, p, t) /\ Evidence(d, p, t)
    BY Zenon, <2>3 DEF EvidenceExclusive
  <2> QED
    BY Zenon, <2>2, <2>3 DEF EvidenceGrows
<1> QED
  BY Zenon, <1>3, <1>4

\* A step that starts no election and counts no vote keeps the invariant.
LEMMA FollowerStep ==
    ASSUME ElectionOK, ElectionOK', ElectionCore, VotesKept, CandidacyKeptOrLeft,
           BallotsKept, BallotUnique'
    PROVE  ElectionCore' /\ ElectionStep
<1> USE DEF ElectionCore
<1>1. BallotTerm'
  <2> SUFFICES ASSUME NEW c \in Node, NEW p \in Node, NEW t \in Nat,
                      NEW m \in messages', concerns(m, c, p, t)
               PROVE  t <= currentTerm'[c] /\ c # p
    BY Zenon DEF BallotTerm
  <2>1. PICK k \in messages : concerns(k, c, p, t)
    BY Zenon DEF BallotsKept
  <2>2. t <= currentTerm[c] /\ c # p
    BY Zenon, <2>1 DEF BallotTerm
  <2>3. currentTerm[c] \in Nat /\ currentTerm'[c] \in Nat /\ currentTerm'[c] >= currentTerm[c]
    BY Zenon DEF ElectionOK, VotesKept
  <2> QED
    BY <2>2, <2>3
<1>2. CountedOnce'
  <2> SUFFICES ASSUME NEW c \in Node, NEW p \in Node, NEW m \in messages',
                      p \in voters'[c], p # c, concerns(m, c, p, currentTerm'[c])
               PROVE  FALSE
    BY Zenon DEF CountedOnce
  <2>1. currentTerm'[c] = currentTerm[c] /\ p \in voters[c]
    BY Zenon DEF CandidacyKeptOrLeft
  <2>2. currentTerm[c] \in Nat
    BY Zenon DEF ElectionOK
  <2>3. PICK k \in messages : concerns(k, c, p, currentTerm[c])
    BY Zenon, <2>1, <2>2 DEF BallotsKept
  <2> QED
    BY Zenon, <2>1, <2>3 DEF CountedOnce
<1>3. EvidenceGrows
  <2> SUFFICES ASSUME NEW c \in Node, NEW p \in Node, NEW t \in Nat, Evidence(c, p, t)'
               PROVE  Evidence(c, p, t) \/ Fresh(c, p, t)
    BY Zenon DEF EvidenceGrows
  <2>1. CASE t = currentTerm'[c] /\ p \in voters'[c]
    <3>1. currentTerm'[c] = currentTerm[c] /\ p \in voters[c]
      BY Zenon, <2>1 DEF CandidacyKeptOrLeft
    <3> QED
      BY Zenon, <2>1, <3>1 DEF Evidence
  <2>2. ASSUME NEW m \in messages', grants(m, c, p, t)
        PROVE  Evidence(c, p, t) \/ Fresh(c, p, t)
    <3>1. concerns(m, c, p, t)
      BY Zenon, <2>2 DEF grants
    <3>2. PICK k \in messages : grants(k, c, p, t) \/ Fresh(c, p, t)
      BY Zenon, <2>2, <3>1 DEF BallotsKept
    <3> QED
      BY Zenon, <3>2 DEF Evidence
  <2> QED
    BY Zenon, <2>1, <2>2 DEF Evidence
<1>4. EvidenceCast' /\ EvidenceExclusive'
  BY Zenon, <1>3, EvidenceStep
<1>5. Tally'
  BY Zenon, FS_EmptySet DEF Tally, CandidacyKeptOrLeft
<1>6. CandidaciesMove
  BY Zenon DEF CandidacyKeptOrLeft, CandidaciesMove
<1> QED
  BY ZenonT(30), <1>1, <1>2, <1>3, <1>4, <1>5, <1>6 DEF ElectionStep

\* A step that puts no ballot in flight keeps the invariant.
LEMMA QuietStep ==
    ASSUME ElectionOK, ElectionOK', ElectionCore, CandidateQuiet, NoNewBallot
    PROVE  ElectionCore' /\ ElectionStep
<1>1. \A c, p, t, m : concerns(m, c, p, t) => m.type \notin {"append_req", "append_resp"}
  BY Zenon DEF concerns
<1>2. BallotsKept
  BY Zenon, <1>1 DEF BallotsKept, NoNewBallot
<1>3. BallotUnique'
  <2> SUFFICES ASSUME NEW c \in Node, NEW p \in Node, NEW t \in Nat,
                      NEW m \in messages', NEW k \in messages',
                      concerns(m, c, p, t), concerns(k, c, p, t)
               PROVE  m = k
    BY Zenon DEF BallotUnique
  <2>1. m \in messages /\ k \in messages
    BY Zenon, <1>1 DEF NoNewBallot
  <2> QED
    BY Zenon, <2>1 DEF BallotUnique, ElectionCore
<1> QED
  BY Zenon, <1>2, <1>3, FollowerStep DEF CandidateQuiet

\* Handlers that leave the election variables alone are quiet.
LEMMA UnchangedQuiet ==
    ASSUME ElectionOK, UNCHANGED electionVars
    PROVE  CandidateQuiet /\ ElectionOK'
<1>1. CandidateQuiet
  BY DEF electionVars, ElectionOK, CandidateQuiet, VotesKept, CandidacyKeptOrLeft
<1> QED
  BY Zenon, <1>1, UnchangedTypes

\* becomeFollower is quiet: it moves the term forward only, and forgets the vote
\* only with the term it was cast in.
LEMMA BecomeFollowerQuiet ==
    ASSUME ElectionOK, NEW n \in Node, NEW term \in Nat, NEW leader,
           becomeFollower(n, term, leader)
    PROVE  CandidateQuiet
<1>1. \A q \in Node : currentTerm[q] \in Nat
  BY Zenon DEF ElectionOK
<1>2. VotesKept
  BY <1>1 DEF VotesKept, becomeFollower, larger, ElectionOK
<1>3. CandidacyKeptOrLeft
  <2>1. CASE term > currentTerm[n]
    BY Zenon, <2>1 DEF CandidacyKeptOrLeft, becomeFollower, forgetCandidacy, ElectionOK
  <2>2. CASE ~(term > currentTerm[n])
    BY Zenon, <2>2 DEF CandidacyKeptOrLeft, becomeFollower, forgetCandidacy, ElectionOK
  <2> QED
    BY Zenon, <2>1, <2>2
<1> QED
  BY Zenon, <1>2, <1>3 DEF CandidateQuiet

\* What goes to all peers is one AppendEntries each.
LEMMA RoundOfAppends ==
    ASSUME NEW n, NEW term, NEW lg, NEW next, NEW commit,
           NEW x \in replicateToAll(n, term, lg, next, commit)
    PROVE  x.type = "append_req"
<1>1. PICK p \in peers(n) : x = replicateToPeer(n, p, term, lg, next[p], commit)
  BY Zenon DEF replicateToAll
<1> QED
  BY Zenon, <1>1 DEF replicateToPeer

\* Consuming a message and sending AppendEntries traffic puts no ballot in flight.
LEMMA AppendTraffic ==
    ASSUME NEW m
    PROVE  /\ discard(m) => NoNewBallot
           /\ UNCHANGED messages => NoNewBallot
           /\ \A n, term, lg, next, commit : \A rest \in SUBSET messages :
                 transmit(rest, replicateToAll(n, term, lg, next, commit)) => NoNewBallot
           /\ \A n, q, term, lg, next, commit : \A rest \in SUBSET messages :
                 transmit(rest, {replicateToPeer(n, q, term, lg, next, commit)})
                     => NoNewBallot
           /\ \A dup, term, success, match, hintTerm, hintIndex :
                 replyOrDuplicate(m, appendResponse(m, term, success, match, hintTerm,
                                                    hintIndex), dup) => NoNewBallot
<1>1. discard(m) => NoNewBallot
  BY Zenon DEF discard, NoNewBallot
<1>2. UNCHANGED messages => NoNewBallot
  BY Zenon DEF NoNewBallot
<1>3. \A sent : \A rest \in SUBSET messages :
         (\A x \in sent : x.type \in {"append_req", "append_resp"}) /\ transmit(rest, sent)
             => NoNewBallot
  BY Zenon DEF transmit, NoNewBallot
<1>4. \A n, q, term, lg, next, commit :
         replicateToPeer(n, q, term, lg, next, commit).type = "append_req"
  BY Zenon DEF replicateToPeer
<1>5. ASSUME NEW rest \in SUBSET messages, NEW n, NEW term, NEW lg, NEW next, NEW commit,
             transmit(rest, replicateToAll(n, term, lg, next, commit))
      PROVE  NoNewBallot
  BY Zenon, <1>3, <1>4, <1>5 DEF replicateToAll
<1>6. ASSUME NEW dup, NEW term, NEW success, NEW match, NEW hintTerm, NEW hintIndex,
             replyOrDuplicate(m, appendResponse(m, term, success, match, hintTerm,
                                                hintIndex), dup)
      PROVE  NoNewBallot
  <2> DEFINE r == appendResponse(m, term, success, match, hintTerm, hintIndex)
  <2>1. r.type = "append_resp"
    BY Zenon DEF appendResponse
  <2>2. ASSUME reply(m, r) PROVE NoNewBallot
    <3> HIDE DEF r
    <3> QED
      BY Zenon, <1>3, <2>1, <2>2 DEF reply
  <2> QED
    BY Zenon, <1>2, <1>6, <2>2 DEF replyOrDuplicate
<1>7. \A n, q, term, lg, next, commit : \A rest \in SUBSET messages :
         transmit(rest, {replicateToPeer(n, q, term, lg, next, commit)}) => NoNewBallot
  BY Zenon, <1>3, <1>4
<1> QED
  BY Zenon, <1>1, <1>2, <1>5, <1>6, <1>7

\* Answering a RequestVote replaces the request by the answer to the same ballot.
LEMMA VoteReplyBallots ==
    ASSUME BallotUnique, NEW m \in messages, m.type = "vote_req",
           NEW term, NEW granted, reply(m, voteResponse(m, term, granted)),
           granted => Fresh(m.src, m.dst, m.term)
    PROVE  BallotsKept /\ BallotUnique'
<1> DEFINE r == voteResponse(m, term, granted)
<1>1. \A x \in messages' : x \in messages \ {m} \/ x = r
  BY Zenon DEF reply, transmit
<1>2. \A c, p, t : concerns(r, c, p, t) <=> concerns(m, c, p, t)
  BY Zenon DEF concerns, voteResponse
<1>3. \A c, p, t : concerns(m, c, p, t) => c = m.src /\ p = m.dst /\ t = m.term
  BY Zenon DEF concerns
<1>4. \A c, p, t : grants(r, c, p, t) => Fresh(c, p, t)
  <2> SUFFICES ASSUME NEW c, NEW p, NEW t, grants(r, c, p, t)
               PROVE  Fresh(c, p, t)
    BY Zenon
  <2>1. concerns(r, c, p, t) /\ granted
    BY Zenon DEF grants, voteResponse
  <2>2. c = m.src /\ p = m.dst /\ t = m.term
    BY Zenon, <1>2, <1>3, <2>1
  <2>3. Fresh(m.src, m.dst, m.term)
    BY Zenon, <2>1
  <2> QED
    BY Zenon, <2>2, <2>3 DEF Fresh
<1> HIDE DEF r
<1>5. BallotsKept
  BY ZenonT(30), <1>1, <1>2, <1>4 DEF BallotsKept
<1>6. BallotUnique'
  <2> SUFFICES ASSUME NEW c \in Node, NEW p \in Node, NEW t \in Nat,
                      NEW x \in messages', NEW y \in messages',
                      concerns(x, c, p, t), concerns(y, c, p, t)
               PROVE  x = y
    BY Zenon DEF BallotUnique
  <2>1. ASSUME NEW z \in messages \ {m}, concerns(z, c, p, t) PROVE ~concerns(m, c, p, t)
    BY Zenon, <2>1 DEF BallotUnique
  <2>2. CASE x = r \/ y = r
    BY Zenon, <1>1, <1>2, <2>1, <2>2
  <2>3. CASE x \in messages /\ y \in messages
    BY Zenon, <2>3 DEF BallotUnique
  <2> QED
    BY Zenon, <1>1, <2>2, <2>3
<1> QED
  BY Zenon, <1>5, <1>6

------------------------------------------------------------------------------
(* Elections, handler by handler                                            *)

\* Stepping down on a response of a higher term keeps the invariant.
LEMMA StepDownElection ==
    ASSUME ElectionInv, ElectionOK', NEW n \in Node, NEW m \in messages, stepDown(n, m)
    PROVE  ElectionCore' /\ ElectionStep
<1>1. m.term \in Nat
  BY Zenon, MessageFields DEF ElectionInv, TypeGroups, MessagesOK
<1>2. CandidateQuiet
  BY Zenon, <1>1, BecomeFollowerQuiet DEF stepDown, ElectionInv, TypeGroups
<1>3. NoNewBallot
  BY Zenon, AppendTraffic DEF stepDown
<1> QED
  BY Zenon, <1>2, <1>3, QuietStep DEF ElectionInv, TypeGroups

\* A candidate starts an election in a term it has never asked a vote in.
LEMMA ElectionTimeoutElection ==
    ASSUME ElectionInv, ElectionOK', NEW n \in Node, onElectionTimeout(n)
    PROVE  ElectionCore' /\ ElectionStep
<1> USE DEF ElectionInv, ElectionCore, TypeGroups
<1> DEFINE req(p) == [type |-> "vote_req", src |-> n, dst |-> p, awaited |-> TRUE,
                      term |-> currentTerm[n] + 1, lastLogIndex |-> Len(log[n]),
                      lastLogTerm |-> lastLogTerm(n)]
<1>1. /\ \A q \in Node : currentTerm[q] \in Nat
      /\ currentTerm' = [currentTerm EXCEPT ![n] = @ + 1]
      /\ votedFor' = [votedFor EXCEPT ![n] = n]
      /\ role' = [role EXCEPT ![n] = "candidate"]
      /\ votesGranted' = [votesGranted EXCEPT ![n] = 1]
      /\ voters' = [voters EXCEPT ![n] = {n}]
  BY Zenon DEF onElectionTimeout, ElectionOK
<1>2. \A x \in messages' : x \in messages \/ \E q \in Node \ {n} : x = req(q)
  BY Zenon DEF onElectionTimeout, transmit, peers
<1>3. \A q, c, p, t : concerns(req(q), c, p, t) <=>
                         c = n /\ p = q /\ t = currentTerm[n] + 1
  BY ZenonT(30) DEF concerns
<1>4. \A q, c, p, t : ~grants(req(q), c, p, t)
  BY Zenon DEF grants
<1>5. \A q \in Node : /\ currentTerm'[q] \in Nat /\ currentTerm'[q] >= currentTerm[q]
                      /\ q # n => currentTerm'[q] = currentTerm[q]
      /\ currentTerm'[n] = currentTerm[n] + 1
  BY <1>1 DEF ElectionOK
<1>6. \A p \in Node, t \in Nat, x \in messages :
         concerns(x, n, p, t) => t <= currentTerm[n] /\ t # currentTerm[n] + 1
  BY <1>1 DEF BallotTerm
<1> HIDE DEF req
<1>7. BallotTerm'
  <2> SUFFICES ASSUME NEW c \in Node, NEW p \in Node, NEW t \in Nat,
                      NEW m \in messages', concerns(m, c, p, t)
               PROVE  t <= currentTerm'[c] /\ c # p
    BY Zenon DEF BallotTerm
  <2>1. CASE m \in messages
    <3>1. t <= currentTerm[c] /\ c # p
      BY Zenon, <2>1 DEF BallotTerm
    <3> QED
      BY <1>1, <1>5, <3>1
  <2>2. ASSUME NEW q \in Node \ {n}, m = req(q) PROVE t <= currentTerm'[c] /\ c # p
    <3>1. c = n /\ p = q /\ t = currentTerm[n] + 1
      BY Zenon, <1>3, <2>2
    <3> QED
      BY <1>1, <1>5, <3>1
  <2> QED
    BY Zenon, <1>2, <2>1, <2>2
<1>8. BallotUnique'
  <2> SUFFICES ASSUME NEW c \in Node, NEW p \in Node, NEW t \in Nat,
                      NEW x \in messages', NEW y \in messages',
                      concerns(x, c, p, t), concerns(y, c, p, t)
               PROVE  x = y
    BY Zenon DEF BallotUnique
  <2>1. CASE c = n /\ t = currentTerm[n] + 1
    <3>1. x \notin messages /\ y \notin messages
      BY Zenon, <1>6, <2>1
    <3>2. PICK q \in Node \ {n}, s \in Node \ {n} : x = req(q) /\ y = req(s)
      BY Zenon, <1>2, <3>1
    <3>3. q = p /\ s = p
      BY ZenonT(30), <1>3, <3>2
    <3> QED
      BY Zenon, <3>2, <3>3
  <2>2. CASE ~(c = n /\ t = currentTerm[n] + 1)
    <3>1. x \in messages /\ y \in messages
      BY <1>2, <1>3, <2>2
    <3> QED
      BY Zenon, <3>1 DEF BallotUnique
  <2> QED
    BY Zenon, <2>1, <2>2
<1>9. CountedOnce'
  <2> SUFFICES ASSUME NEW c \in Node, NEW p \in Node, NEW m \in messages',
                      p \in voters'[c], p # c, concerns(m, c, p, currentTerm'[c])
               PROVE  FALSE
    BY Zenon DEF CountedOnce
  <2>1. c # n /\ voters'[c] = voters[c] /\ currentTerm'[c] = currentTerm[c]
    BY <1>1, <1>5 DEF ElectionOK
  <2>2. ASSUME NEW q \in Node \ {n}, m = req(q) PROVE FALSE
    BY Zenon, <1>3, <2>1, <2>2
  <2>3. m \in messages
    BY Zenon, <1>2, <2>2
  <2> QED
    BY Zenon, <2>1, <2>3 DEF CountedOnce
<1>10. VotesKept
  BY <1>1, <1>5 DEF VotesKept, ElectionOK
<1>11. EvidenceGrows
  <2> SUFFICES ASSUME NEW c \in Node, NEW p \in Node, NEW t \in Nat, Evidence(c, p, t)'
               PROVE  Evidence(c, p, t) \/ Fresh(c, p, t)
    BY Zenon DEF EvidenceGrows
  <2>1. CASE t = currentTerm'[c] /\ p \in voters'[c]
    <3>1. CASE c = n
      <4>1. p = n /\ votedFor'[n] = n
        BY Zenon, <1>1, <2>1, <3>1 DEF ElectionOK
      <4> QED
        BY Zenon, <2>1, <3>1, <4>1 DEF Fresh
    <3>2. CASE c # n
      <4>1. voters'[c] = voters[c] /\ currentTerm'[c] = currentTerm[c]
        BY Zenon, <1>1, <1>5, <3>2 DEF ElectionOK
      <4> QED
        BY Zenon, <2>1, <4>1 DEF Evidence
    <3> QED
      BY Zenon, <3>1, <3>2
  <2>2. ASSUME NEW m \in messages', grants(m, c, p, t) PROVE Evidence(c, p, t)
    <3>1. m \in messages
      BY <1>2, <1>4, <2>2
    <3> QED
      BY Zenon, <2>2, <3>1 DEF Evidence
  <2> QED
    BY Zenon, <2>1, <2>2 DEF Evidence
<1>12. EvidenceCast' /\ EvidenceExclusive'
  BY Zenon, <1>10, <1>11, EvidenceStep
<1>13. Tally'
  <2> SUFFICES ASSUME NEW q \in Node
               PROVE  /\ votesGranted'[q] = Cardinality(voters'[q])
                      /\ role'[q] = "leader" => votesGranted'[q] >= quorum
    BY Zenon DEF Tally
  <2>1. CASE q = n
    <3>1. Cardinality({n}) = 1
      BY Zenon, FS_Singleton
    <3> QED
      BY Zenon, <1>1, <2>1, <3>1 DEF ElectionOK
  <2>2. CASE q # n
    BY Zenon, <1>1, <2>2 DEF Tally, ElectionOK
  <2> QED
    BY Zenon, <2>1, <2>2
<1>14. CandidaciesMove
  BY <1>1, <1>5 DEF CandidaciesMove, ElectionOK
<1> QED
  BY ZenonT(30), <1>7, <1>8, <1>9, <1>10, <1>11, <1>12, <1>13, <1>14 DEF ElectionStep

\* handleRequestVote keeps the invariant: it grants at most one candidate a term.
LEMMA RequestVoteElection ==
    ASSUME ElectionInv, ElectionOK', NEW n \in Node, NEW m \in messages,
           handleRequestVote(n, m)
    PROVE  ElectionCore' /\ ElectionStep
<1> USE DEF ElectionInv, ElectionCore, TypeGroups
<1>1. /\ m.type = "vote_req" /\ m.dst = n /\ m.term \in Nat /\ m.src \in Node
      /\ \A q \in Node : currentTerm[q] \in Nat
  BY Zenon, MessageFields DEF handleRequestVote, MessagesOK, ElectionOK
<1>2. CASE refuseVote(n, m)
  <2>1. CandidateQuiet
    BY Zenon, <1>2, UnchangedQuiet DEF refuseVote
  <2>2. BallotsKept /\ BallotUnique'
    BY Zenon, <1>1, <1>2, VoteReplyBallots DEF refuseVote
  <2> QED
    BY Zenon, <2>1, <2>2, FollowerStep DEF CandidateQuiet
<1>3. CASE denyVote(n, m)
  <2>1. CandidateQuiet
    BY Zenon, <1>1, <1>3, UnchangedQuiet, BecomeFollowerQuiet DEF denyVote
  <2>2. BallotsKept /\ BallotUnique'
    BY Zenon, <1>1, <1>3, VoteReplyBallots DEF denyVote
  <2> QED
    BY Zenon, <2>1, <2>2, FollowerStep DEF CandidateQuiet
<1>4. CASE grantVote(n, m)
  <2>1. /\ votedFor' = [votedFor EXCEPT ![n] = m.src]
        /\ votable(m) /\ m.term >= currentTerm[n]
        /\ reply(m, voteResponse(m, m.term, TRUE))
    BY ZenonT(60), <1>4 DEF grantVote
  <2>2. CASE m.term > currentTerm[n]
    <3>1. /\ currentTerm' = [currentTerm EXCEPT ![n] = m.term]
          /\ role' = [role EXCEPT ![n] = "follower"]
          /\ votesGranted' = [votesGranted EXCEPT ![n] = 0]
          /\ voters' = [voters EXCEPT ![n] = {}]
      BY ZenonT(30), <1>4, <2>2 DEF grantVote, forgetCandidacy
    <3>2. VotesKept
      BY SMTT(30), <1>1, <2>1, <2>2, <3>1 DEF VotesKept, ElectionOK
    <3>3. CandidacyKeptOrLeft
      BY Zenon, <3>1 DEF CandidacyKeptOrLeft, ElectionOK
    <3>4. Fresh(m.src, m.dst, m.term)
      BY Zenon, <1>1, <2>1, <3>1 DEF Fresh, ElectionOK
    <3>5. BallotsKept /\ BallotUnique'
      BY ZenonT(60), <1>1, <2>1, <3>4, VoteReplyBallots
    <3> QED
      BY Zenon, <3>2, <3>3, <3>5, FollowerStep
  <2>3. CASE ~(m.term > currentTerm[n])
    <3>1. UNCHANGED <<currentTerm, role, votesGranted, voters>>
      BY Zenon, <1>4, <2>3 DEF grantVote
    <3>2. m.term = currentTerm[n] /\ votedFor[n] \in {Nil, m.src}
      <4>1. m.term = currentTerm[n]
        BY <1>1, <2>1, <2>3
      <4>2. votedFor[n] \in {Nil, m.src}
        BY Zenon, <1>1, <2>1, <2>3 DEF votable
      <4> QED
        BY Zenon, <4>1, <4>2
    <3>3. VotesKept
      <4> SUFFICES ASSUME NEW q \in Node
                   PROVE  /\ currentTerm'[q] >= currentTerm[q]
                          /\ votedFor[q] # Nil => votedFor'[q] = votedFor[q]
        BY Zenon DEF VotesKept
      <4>1. currentTerm'[q] = currentTerm[q] /\ currentTerm[q] \in Nat
        BY Zenon, <1>1, <3>1
      <4>2. votedFor'[q] = IF q = n THEN m.src ELSE votedFor[q]
        BY Zenon, <2>1 DEF ElectionOK
      <4> QED
        BY <3>2, <4>1, <4>2
    <3>4. CandidacyKeptOrLeft
      BY Zenon, <3>1 DEF CandidacyKeptOrLeft
    <3>5. Fresh(m.src, m.dst, m.term)
      BY Zenon, <1>1, <2>1, <3>1, <3>2 DEF Fresh, ElectionOK
    <3>6. BallotsKept /\ BallotUnique'
      BY Zenon, <1>1, <2>1, <3>5, VoteReplyBallots
    <3> QED
      BY Zenon, <3>3, <3>4, <3>6, FollowerStep
  <2> QED
    BY Zenon, <2>2, <2>3
<1> QED
  BY Zenon, <1>2, <1>3, <1>4 DEF handleRequestVote

\* Counting a vote of the running election: the voter is a new one, and its
\* answer is no longer in flight.
LEMMA CountVoteElection ==
    ASSUME ElectionInv, ElectionOK', NEW n \in Node, NEW m \in messages,
           m.type = "vote_resp", m.dst = n, countVote(n, m),
           UNCHANGED <<currentTerm, votedFor>>, m \notin messages', NoNewBallot,
           \A q \in Node : role'[q] = role[q]
                           \/ (q = n /\ votesGranted[n] + 1 >= quorum)
    PROVE  ElectionCore' /\ ElectionStep
<1> USE DEF ElectionInv, ElectionCore, TypeGroups
<1>1. /\ m.src \in Node /\ currentTerm[n] \in Nat /\ m.reqTerm = currentTerm[n]
      /\ m.granted
      /\ votesGranted' = [votesGranted EXCEPT ![n] = @ + 1]
      /\ voters' = [voters EXCEPT ![n] = @ \cup {m.src}]
  BY Zenon, MessageFields DEF countVote, currentElection, ElectionOK, MessagesOK
<1>2. concerns(m, n, m.src, currentTerm[n]) /\ grants(m, n, m.src, currentTerm[n])
  BY Zenon, <1>1 DEF concerns, grants
<1>3. m.src # n /\ m.src \notin voters[n]
  BY Zenon, <1>1, <1>2 DEF BallotTerm, CountedOnce
<1>5. BallotTerm'
  <2> SUFFICES ASSUME NEW c \in Node, NEW p \in Node, NEW t \in Nat,
                      NEW x \in messages', concerns(x, c, p, t)
               PROVE  t <= currentTerm'[c] /\ c # p
    BY Zenon DEF BallotTerm
  <2>1. x \in messages
    BY Zenon DEF NoNewBallot, concerns
  <2> QED
    BY Zenon, <2>1 DEF BallotTerm
<1>6. BallotUnique'
  <2> SUFFICES ASSUME NEW c \in Node, NEW p \in Node, NEW t \in Nat,
                      NEW x \in messages', NEW y \in messages',
                      concerns(x, c, p, t), concerns(y, c, p, t)
               PROVE  x = y
    BY Zenon DEF BallotUnique
  <2>1. x \in messages /\ y \in messages
    BY Zenon DEF NoNewBallot, concerns
  <2> QED
    BY Zenon, <2>1 DEF BallotUnique
<1>7. CountedOnce'
  <2> SUFFICES ASSUME NEW c \in Node, NEW p \in Node, NEW x \in messages',
                      p \in voters'[c], p # c, concerns(x, c, p, currentTerm[c])
               PROVE  FALSE
    BY Zenon DEF CountedOnce
  <2>1. x \in messages /\ x # m
    BY Zenon DEF NoNewBallot, concerns
  <2>2. CASE p \in voters[c]
    BY Zenon, <2>1, <2>2 DEF CountedOnce
  <2>3. CASE p \notin voters[c]
    <3>1. c = n /\ p = m.src
      BY ZenonT(30), <1>1, <2>3 DEF ElectionOK
    <3> QED
      BY Zenon, <1>1, <1>2, <2>1, <3>1 DEF BallotUnique
  <2> QED
    BY Zenon, <2>2, <2>3
<1>8. VotesKept
  BY DEF VotesKept, ElectionOK
<1>9. \A c, p \in Node, t \in Nat : Evidence(c, p, t)' => Evidence(c, p, t)
  <2> SUFFICES ASSUME NEW c \in Node, NEW p \in Node, NEW t \in Nat, Evidence(c, p, t)'
               PROVE  Evidence(c, p, t)
    BY ZenonT(60)
  <2>1. CASE t = currentTerm[c] /\ p \in voters'[c]
    <3>1. p \in voters[c] \/ (c = n /\ p = m.src)
      BY Zenon, <1>1, <2>1 DEF ElectionOK
    <3> QED
      BY Zenon, <1>2, <2>1, <3>1 DEF Evidence
  <2>2. ASSUME NEW x \in messages', grants(x, c, p, t) PROVE Evidence(c, p, t)
    <3>1. x \in messages
      BY Zenon, <2>2 DEF NoNewBallot, grants
    <3> QED
      BY Zenon, <2>2, <3>1 DEF Evidence
  <2> QED
    BY Zenon, <2>1, <2>2 DEF Evidence
<1>10. EvidenceCast' /\ EvidenceExclusive' /\ EvidenceGrows
  <2>1. EvidenceGrows
    BY Zenon, <1>9 DEF EvidenceGrows
  <2> QED
    BY ZenonT(60), <1>8, <2>1, EvidenceStep
<1>11. Tally'
  <2> SUFFICES ASSUME NEW q \in Node
               PROVE  /\ votesGranted'[q] = Cardinality(voters'[q])
                      /\ role'[q] = "leader" => votesGranted'[q] >= quorum
    BY ZenonT(30) DEF Tally
  <2>1. CASE q = n
    <3>1. voters[n] \subseteq Node /\ IsFiniteSet(voters[n])
      BY SMTT(30), NodeAssumption, FS_Subset DEF ElectionOK
    <3>2. Cardinality(voters[n] \cup {m.src}) = Cardinality(voters[n]) + 1
      BY ZenonT(60), <1>3, <3>1, FS_AddElement
    <3>3. /\ votesGranted'[n] = votesGranted[n] + 1
          /\ voters'[n] = voters[n] \cup {m.src}
      BY Zenon, <1>1 DEF ElectionOK
    <3>4. /\ votesGranted[n] = Cardinality(voters[n])
          /\ role[n] = "leader" => votesGranted[n] >= quorum
      BY Zenon DEF Tally
    <3>5. votesGranted[n] \in Nat /\ quorum \in Nat
      BY SMTT(30), QuorumRange DEF ElectionOK
    <3> QED
      BY SMTT(30), <2>1, <3>2, <3>3, <3>4, <3>5
  <2>2. CASE q # n
    BY <1>1, <2>2 DEF Tally, ElectionOK
  <2> QED
    BY Zenon, <2>1, <2>2
<1>12. CandidaciesMove
  BY Zenon DEF CandidaciesMove, countVote, currentElection
<1> QED
  BY ZenonT(30), <1>5, <1>6, <1>7, <1>8, <1>10, <1>11, <1>12 DEF ElectionStep

\* handleVoteResponse keeps the invariant, promotion included.
LEMMA VoteResponseElection ==
    ASSUME ElectionInv, ElectionOK', NEW n \in Node, NEW m \in messages,
           handleVoteResponse(n, m)
    PROVE  ElectionCore' /\ ElectionStep
<1> USE DEF ElectionInv, TypeGroups
<1>1. m.type = "vote_resp" /\ m.dst = n
  BY Zenon DEF handleVoteResponse
<1>2. CASE stepDown(n, m)
  BY Zenon, <1>2, StepDownElection
<1>3. CASE ignoreVote(n, m)
  <2>1. CandidateQuiet /\ NoNewBallot
    BY Zenon, <1>3, UnchangedQuiet, AppendTraffic DEF ignoreVote
  <2> QED
    BY Zenon, <2>1, QuietStep
<1>4. CASE keepCollecting(n, m)
  <2>1. NoNewBallot /\ m \notin messages'
    BY Zenon, <1>4, AppendTraffic DEF keepCollecting, discard
  <2>2. UNCHANGED <<currentTerm, votedFor>> /\ countVote(n, m)
    BY Zenon, <1>4 DEF keepCollecting
  <2>3. \A q \in Node : role'[q] = role[q] \/ (q = n /\ votesGranted[n] + 1 >= quorum)
    BY Zenon, <1>4 DEF keepCollecting
  <2> QED
    BY Zenon, <1>1, <2>1, <2>2, <2>3, CountVoteElection
<1>5. CASE promoteToLeader(n, m)
  <2> DEFINE sent == replicateToAll(n, currentTerm[n], log'[n], nextIndex'[n],
                                    commitIndex[n])
  <2>1. transmit(messages \ {m}, sent)
    BY Zenon, <1>5 DEF promoteToLeader
  <2>2. NoNewBallot
    BY ZenonT(60), <2>1, AppendTraffic
  <2>3. \A x \in sent : x.type = "append_req"
    BY ZenonT(30), RoundOfAppends
  <2>4. m \notin messages'
    <3> HIDE DEF sent
    <3> QED
      BY Zenon, <1>1, <2>1, <2>3 DEF transmit
  <2>5. UNCHANGED <<currentTerm, votedFor>> /\ countVote(n, m)
    BY ZenonT(60), <1>5 DEF promoteToLeader
  <2>6. \A q \in Node : role'[q] = role[q] \/ (q = n /\ votesGranted[n] + 1 >= quorum)
    BY Zenon, <1>5 DEF promoteToLeader, ElectionOK
  <2> QED
    BY Zenon, <1>1, <2>2, <2>4, <2>5, <2>6, CountVoteElection
<1> QED
  BY Zenon, <1>2, <1>3, <1>4, <1>5 DEF handleVoteResponse

\* Replication keeps the invariant: it touches elections through becomeFollower
\* only, and sends no ballot.
LEMMA ReplicationElection ==
    ASSUME ElectionInv, ElectionOK', NEW n \in Node
    PROVE  /\ onHeartbeat(n) => (ElectionCore' /\ ElectionStep)
           /\ \A c \in Command : handlePropose(n, c) => (ElectionCore' /\ ElectionStep)
           /\ \A m \in messages : handleAppendResponse(n, m) => (ElectionCore' /\ ElectionStep)
           /\ \A m \in messages, dup \in BOOLEAN :
                 handleAppendEntries(n, m, dup) => (ElectionCore' /\ ElectionStep)
<1> USE DEF ElectionInv, TypeGroups
<1>1. onHeartbeat(n) => (ElectionCore' /\ ElectionStep)
  BY ZenonT(60), UnchangedQuiet, AppendTraffic, QuietStep DEF onHeartbeat
<1>2. ASSUME NEW c \in Command, handlePropose(n, c)
      PROVE  ElectionCore' /\ ElectionStep
  BY Zenon, <1>2, UnchangedQuiet, AppendTraffic, QuietStep DEF handlePropose
<1>3. ASSUME NEW m \in messages, handleAppendResponse(n, m)
      PROVE  ElectionCore' /\ ElectionStep
  <2>1. CASE stepDown(n, m)
    BY Zenon, <2>1, StepDownElection
  <2>2. CASE ignoreReply(n, m)
    BY ZenonT(30), <2>2, UnchangedQuiet, AppendTraffic, QuietStep DEF ignoreReply
  <2>3. CASE retryAppend(n, m)
    <3>1. CandidateQuiet
      BY Zenon, <2>3, UnchangedQuiet DEF retryAppend
    <3>2. NoNewBallot
      BY <2>3, AppendTraffic DEF retryAppend
    <3> QED
      BY ZenonT(30), <3>1, <3>2, QuietStep
  <2>4. CASE recordProgress(n, m)
    <3>1. CandidateQuiet
      BY Zenon, <2>4, UnchangedQuiet DEF recordProgress
    <3>2. NoNewBallot
      BY Zenon, <2>4, AppendTraffic DEF recordProgress
    <3> QED
      BY Zenon, <3>1, <3>2, QuietStep
  <2> QED
    BY Zenon, <1>3, <2>1, <2>2, <2>3, <2>4 DEF handleAppendResponse
<1>4. ASSUME NEW m \in messages, NEW dup \in BOOLEAN, handleAppendEntries(n, m, dup)
      PROVE  ElectionCore' /\ ElectionStep
  <2>1. m.term \in Nat
    BY Zenon, MessageFields DEF MessagesOK
  <2>2. follow(n, m) => CandidateQuiet
    BY Zenon, <2>1, BecomeFollowerQuiet DEF follow
  <2>3. CandidateQuiet
    BY ZenonT(60), <1>4, <2>2, UnchangedQuiet
       DEF handleAppendEntries, refuseAppend, rejectAppend, failAppend, acceptAppend
  <2>4. NoNewBallot
    BY ZenonT(60), <1>4, AppendTraffic
       DEF handleAppendEntries, refuseAppend, rejectAppend, failAppend, acceptAppend
  <2> QED
    BY Zenon, <2>3, <2>4, QuietStep
<1> QED
  BY Zenon, <1>1, <1>2, <1>3, <1>4

\* A restart keeps the invariant: term and vote come back from the store, and no
\* answer to an earlier election reaches the new process.
LEMMA RecoverElection ==
    ASSUME ElectionInv, ElectionOK', NEW n \in Node, recover(n)
    PROVE  ElectionCore' /\ ElectionStep
<1> USE DEF ElectionInv, ElectionCore, TypeGroups
<1> DEFINE stale(m) == IF m.src = n /\ m.type \in {"vote_req", "append_req"}
                       THEN [m EXCEPT !.awaited = FALSE] ELSE m
<1>1. \A x \in messages' : \E m \in messages : x = stale(m)
  BY Zenon DEF recover
<1>2. ASSUME NEW m \in messages, NEW c, NEW p, NEW t
      PROVE  /\ concerns(stale(m), c, p, t) <=> concerns(m, c, p, t)
             /\ grants(stale(m), c, p, t) => grants(m, c, p, t)
  <2>1. m \in Message
    BY Zenon DEF MessagesOK
  <2>2. CASE m.type = "vote_req"
    <3>1. m \in RequestVoteRequest
      BY Zenon, <2>1, <2>2, MessageFields
    <3> QED
      BY Zenon, <2>2, <3>1 DEF RequestVoteRequest, concerns, grants
  <2>3. CASE m.type = "append_req"
    <3>1. m \in AppendEntriesRequest
      BY Zenon, <2>1, <2>3, MessageFields
    <3> QED
      BY Zenon, <2>3, <3>1 DEF AppendEntriesRequest, concerns, grants
  <2> QED
    BY Zenon, <2>2, <2>3
<1> HIDE DEF stale
<1>3. VotesKept
  BY DEF recover, VotesKept, ElectionOK
<1>4. CandidacyKeptOrLeft
  BY Zenon DEF recover, forgetCandidacy, CandidacyKeptOrLeft, ElectionOK
<1>5. BallotsKept
  <2> SUFFICES ASSUME NEW c \in Node, NEW p \in Node, NEW t \in Nat,
                      NEW x \in messages', concerns(x, c, p, t)
               PROVE  \E k \in messages :
                         /\ concerns(k, c, p, t)
                         /\ grants(x, c, p, t) => grants(k, c, p, t) \/ Fresh(c, p, t)
    BY Zenon DEF BallotsKept
  <2>1. PICK m \in messages : x = stale(m)
    BY Zenon, <1>1
  <2> QED
    BY Zenon, <1>2, <2>1
<1>6. BallotUnique'
  <2> SUFFICES ASSUME NEW c \in Node, NEW p \in Node, NEW t \in Nat,
                      NEW x \in messages', NEW y \in messages',
                      concerns(x, c, p, t), concerns(y, c, p, t)
               PROVE  x = y
    BY Zenon DEF BallotUnique
  <2>1. PICK m \in messages, k \in messages : x = stale(m) /\ y = stale(k)
    BY Zenon, <1>1
  <2>2. m = k
    BY ZenonT(30), <1>2, <2>1 DEF BallotUnique
  <2> QED
    BY Zenon, <2>1, <2>2
<1> QED
  BY Zenon, <1>3, <1>4, <1>5, <1>6, FollowerStep

------------------------------------------------------------------------------
(* Election safety                                                          *)

\* No election has begun in the initial state.
LEMMA InitElection == Init => ElectionInv
<1> SUFFICES ASSUME Init PROVE ElectionCore
  BY Zenon, InitType DEF ElectionInv
<1>1. BallotTerm /\ BallotUnique /\ CountedOnce
  BY Zenon DEF Init, BallotTerm, BallotUnique, CountedOnce
<1>2. EvidenceCast /\ EvidenceExclusive
  BY Zenon DEF Init, EvidenceCast, EvidenceExclusive, Evidence
<1>3. Tally
  BY Zenon, FS_EmptySet DEF Init, Tally
<1> QED
  BY Zenon, <1>1, <1>2, <1>3 DEF ElectionCore

\* Every step of every node keeps the invariant, lets votes stand and starts
\* candidacies in new terms only.
LEMMA NextElection ==
    ASSUME ElectionInv, [Next]_vars
    PROVE  ElectionInv' /\ ElectionStep
<1>1. TypeGroups' /\ ElectionOK'
  BY Zenon, NextType DEF ElectionInv, TypeGroups
<1>2. CASE UNCHANGED vars
  <2>1. CandidateQuiet /\ NoNewBallot
    BY Zenon, <1>2, UnchangedQuiet, AppendTraffic DEF vars, ElectionInv, TypeGroups
  <2> QED
    BY Zenon, <1>1, <2>1, QuietStep DEF ElectionInv, TypeGroups
<1>3. ASSUME NEW n \in Node, candidacyFails(n)
      PROVE  ElectionInv' /\ ElectionStep
  BY Zenon, <1>2, <1>3 DEF candidacyFails
<1>4. ASSUME NEW n \in Node, NEW m \in messages, NEW dup \in Duplicates,
             handleAppendEntries(n, m, dup)
      PROVE  ElectionInv' /\ ElectionStep
  BY Zenon, <1>1, <1>4, BoundAssumption, ReplicationElection DEF ElectionInv
<1>5. ASSUME NEW n \in Node, NEW m \in messages,
             \/ handleRequestVote(n, m) \/ handleVoteResponse(n, m)
             \/ handleAppendResponse(n, m)
      PROVE  ElectionInv' /\ ElectionStep
  <2>1. ElectionCore' /\ ElectionStep
    BY Zenon, <1>1, <1>5, RequestVoteElection, VoteResponseElection, ReplicationElection
  <2> QED
    BY Zenon, <1>1, <2>1 DEF ElectionInv
<1>6. ASSUME NEW n \in Node,
             \/ onElectionTimeout(n) \/ onHeartbeat(n) \/ recover(n)
             \/ \E c \in Command : handlePropose(n, c)
      PROVE  ElectionInv' /\ ElectionStep
  <2>1. ElectionCore' /\ ElectionStep
    BY Zenon, <1>1, <1>6, ElectionTimeoutElection, RecoverElection, ReplicationElection
  <2> QED
    BY Zenon, <1>1, <2>1 DEF ElectionInv
<1> QED
  BY Zenon, <1>2, <1>3, <1>4, <1>5, <1>6 DEF Next

\* Two quorums of voters of the same term share a voter, which evidence forbids.
LEMMA InvImpliesElectionSafety == ElectionInv => ElectionSafety
<1> SUFFICES ASSUME ElectionInv, NEW a \in Node, NEW b \in Node,
                    role[a] = "leader", role[b] = "leader",
                    currentTerm[a] = currentTerm[b]
             PROVE  a = b
  BY Zenon DEF ElectionSafety
<1> USE DEF ElectionInv, ElectionCore, TypeGroups
<1>1. /\ voters[a] \subseteq Node /\ voters[b] \subseteq Node
      /\ IsFiniteSet(voters[a]) /\ IsFiniteSet(voters[b])
      /\ currentTerm[a] \in Nat
  BY Zenon, NodeAssumption, FS_Subset DEF ElectionOK
<1>2. Cardinality(voters[a]) >= quorum /\ Cardinality(voters[b]) >= quorum
  BY Zenon DEF Tally
<1>3. voters[a] \cap voters[b] # {}
  <2>1. /\ Cardinality(voters[a]) \in Nat /\ Cardinality(voters[b]) \in Nat
        /\ Cardinality(Node) \in Nat
    BY Zenon, <1>1, NodeAssumption, FS_CardinalityType
  <2>2. Cardinality(voters[a]) + Cardinality(voters[b]) > Cardinality(Node)
    BY <1>2, <2>1 DEF quorum
  <2> QED
    BY Zenon, <1>1, <2>2, NodeAssumption, FS_MajoritiesIntersect
<1>4. PICK p \in Node : p \in voters[a] /\ p \in voters[b]
  BY Zenon, <1>1, <1>3
<1>5. Evidence(a, p, currentTerm[a]) /\ Evidence(b, p, currentTerm[a])
  BY Zenon, <1>4 DEF Evidence
<1> QED
  BY Zenon, <1>1, <1>4, <1>5 DEF EvidenceExclusive

\* Every vote in the counter is a different node's, cast in the term it counts in.
LEMMA InvImpliesCountedVotes == ElectionInv => CountedVotesWereCast
<1> SUFFICES ASSUME ElectionInv, NEW n \in Node
             PROVE  /\ votesGranted[n] = Cardinality(voters[n])
                    /\ \A p \in voters[n] :
                          \/ currentTerm[p] > currentTerm[n]
                          \/ currentTerm[p] = currentTerm[n] /\ votedFor[p] = n
  BY Zenon DEF CountedVotesWereCast
<1> USE DEF ElectionInv, ElectionCore, TypeGroups
<1>1. votesGranted[n] = Cardinality(voters[n])
  BY Zenon DEF Tally
<1>2. ASSUME NEW p \in voters[n] PROVE Cast(n, p, currentTerm[n])
  <2>1. p \in Node /\ currentTerm[n] \in Nat
    BY Zenon, <1>2 DEF ElectionOK
  <2> QED
    BY Zenon, <1>2, <2>1 DEF EvidenceCast, Evidence
<1> QED
  BY Zenon, <1>1, <1>2 DEF Cast

\* The election invariant holds in every reachable state.
THEOREM ElectionInvariant == Spec => []ElectionInv
<1>1. Init => ElectionInv
  BY Zenon, InitElection
<1>2. ElectionInv /\ [Next]_vars => ElectionInv'
  BY Zenon, NextElection
<1> QED
  BY <1>1, <1>2, PTL DEF Spec

\* At most one node leads a term, for any cluster size and any number of crashes,
\* restarts, failed writes, lost, delayed or reordered messages.
THEOREM LeaderUnique == Spec => []ElectionSafety
<1>1. ElectionInv => ElectionSafety
  BY Zenon, InvImpliesElectionSafety
<1> QED
  BY <1>1, ElectionInvariant, PTL

\* The bare counter votesGranted never counts a vote twice, nor one that was cast
\* for another node or in another term.
THEOREM VotesCounted == Spec => []CountedVotesWereCast
<1>1. ElectionInv => CountedVotesWereCast
  BY Zenon, InvImpliesCountedVotes
<1> QED
  BY <1>1, ElectionInvariant, PTL

\* Terms never go back, and a vote persisted by persistVote or becomeCandidate
\* stands for its term.
THEOREM VotesStand == Spec => VoteStands
<1>1. ElectionInv /\ [Next]_vars => VotesKept
  BY Zenon, NextElection DEF ElectionStep
<1>2. VotesKept => [VotesKept]_vars
  BY Zenon
<1>3. Spec => [][VotesKept]_vars
  BY <1>1, <1>2, ElectionInvariant, PTL DEF Spec
<1> QED
  BY <1>3, PTL DEF VoteStands, VotesKept

------------------------------------------------------------------------------
(* Requests                                                                 *)

\* An AppendEntries that passes prevLogMatches: the follower's log agrees with the
\* leader's up to the previous index, not at it only.
LEMMA PrevAgrees ==
    ASSUME NEW own, NEW led, ElectionInv, LogInv(own, led), NEW n \in Node,
           NEW m \in messages, m.type = "append_req", prevLogMatches(n, m)
    PROVE  agree(log[n], led[m.term], m.prevLogIndex)
<1> DEFINE lg == log[n]
           lead == led[m.term]
           prev == m.prevLogIndex
           entries == m.entries
<1>1. /\ m.term \in Nat /\ prev \in Nat /\ entries \in Seq(Entry)
      /\ lg \in Seq(Entry) /\ lead \in Seq(Entry) /\ led \in [Nat -> Seq(Entry)]
  BY Zenon, MessageFields DEF ElectionInv, TypeGroups, MessagesOK, LogOK, AppendEntriesRequest,
     LogInv, History
<1>2. piece(lead, prev, entries) /\ m.prevLogTerm = termAt(lead, prev)
  BY Zenon DEF LogInv, MessagesTraced, MessageTraced
<1>3. Traced(led, lg) /\ Traced(led, lead)
  BY Zenon, <1>1 DEF LogInv, LogsTraced, History
<1>4. prev = 0 \/ holds(lg, prev, termAt(lead, prev))
  BY Zenon, <1>2 DEF prevLogMatches
<1> HIDE DEF lg, lead, prev, entries
<1>5. prev <= Len(lead) /\ Len(lg) \in Nat /\ Len(lead) \in Nat
  <2>1. Len(lg) \in Nat /\ Len(lead) \in Nat /\ Len(entries) \in Nat
    BY Zenon, <1>1, LenFacts
  <2>2. prev + Len(entries) <= Len(lead)
    BY Zenon, <1>2 DEF piece
  <2> QED
    BY <1>1, <2>1, <2>2
<1>6. CASE prev = 0
  BY <1>5, <1>6 DEF agree, lg, lead, prev
<1>7. CASE prev # 0
  <2>1. prev \in 1..Len(lg) /\ prev \in 1..Len(lead)
    BY <1>1, <1>4, <1>5, <1>7 DEF holds
  <2>2. lg[prev].term = lead[prev].term
    BY Zenon, <1>4, <1>7, <2>1 DEF holds, termAt
  <2>3. agree(lg, lead, prev)
    BY Zenon, <1>1, <1>3, <1>5, <2>1, <2>2, TracedMatch
  <2> QED
    BY Zenon, <2>3 DEF lg, lead, prev
<1> QED
  BY Zenon, <1>6, <1>7

\* Accepting an AppendEntries merges the sender's log into the follower's, in the
\* sender's term.
LEMMA AcceptMerges ==
    ASSUME NEW own, NEW led, ElectionInv, LogInv(own, led), NEW n \in Node,
           NEW m \in messages, m.type = "append_req", NEW dup, acceptAppend(n, m, dup)
    PROVE  /\ currentTerm'[n] = m.term /\ role'[n] = "follower"
           /\ own[m.term] = m.src /\ leaderID'[n] = m.src
           /\ \A p \in Node \ {n} : log'[p] = log[p]
           /\ merges(log[n], log'[n], led[m.term])
           /\ agree(log'[n], led[m.term], m.prevLogIndex + Len(m.entries))
<1> DEFINE lg == log[n]
           lead == led[m.term]
           prev == m.prevLogIndex
           entries == m.entries
           new == overwriteEntries(lg, prev, entries)
<1>1. /\ m.term \in Nat /\ m.src \in Node /\ prev \in Nat /\ entries \in Seq(Entry)
      /\ lg \in Seq(Entry) /\ lead \in Seq(Entry) /\ led \in [Nat -> Seq(Entry)]
      /\ log \in [Node -> Seq(Entry)] /\ currentTerm[n] \in Nat
      /\ currentTerm \in [Node -> Nat]
      /\ role \in [Node -> {"follower", "candidate", "leader"}]
      /\ leaderID \in [Node -> Node \cup {Nil}]
  BY Zenon, MessageFields DEF ElectionInv, TypeGroups, MessagesOK, LogOK, AppendEntriesRequest,
     LogInv, History, ElectionOK
<1>2. own[m.term] = m.src /\ piece(lead, prev, entries)
  BY Zenon DEF LogInv, MessagesTraced, MessageTraced
<1>3. Traced(led, lg) /\ Traced(led, lead)
  BY Zenon, <1>1 DEF LogInv, LogsTraced, History
<1>4. agree(lg, lead, prev)
  BY Zenon, PrevAgrees DEF acceptAppend
<1>5. log' = [log EXCEPT ![n] = new]
  BY Zenon DEF acceptAppend
<1>6. log'[n] = new /\ \A p \in Node \ {n} : log'[p] = log[p]
  BY Zenon, <1>1, <1>5
<1>7. currentTerm'[n] = m.term /\ role'[n] = "follower" /\ leaderID'[n] = m.src
  <2>1. m.term >= currentTerm[n] /\ becomeFollower(n, m.term, m.src)
    BY Zenon DEF acceptAppend, follow
  <2>2. /\ currentTerm'[n] = larger(currentTerm[n], m.term) /\ role'[n] = "follower"
        /\ leaderID'[n] = m.src
    BY Zenon, <1>1, <2>1 DEF becomeFollower
  <2>3. \A a, b \in Nat : b >= a => larger(a, b) = b
    BY DEF larger
  <2>4. larger(currentTerm[n], m.term) = m.term
    BY Zenon, <1>1, <2>1, <2>3
  <2> QED
    BY Zenon, <2>2, <2>4
<1> HIDE DEF lg, lead, prev, entries
<1>8. agree(new, lead, prev + Len(entries)) /\ merges(lg, new, lead)
  BY Zenon, <1>1, <1>2, <1>3, <1>4, OverwriteMerges
<1> QED
  BY Zenon, <1>2, <1>6, <1>7, <1>8 DEF lg, lead, prev, entries

\* How far a request reaches is a number.
LEMMA RequestExtent ==
    ASSUME NEW prev \in Nat, NEW entries \in Seq(Entry)
    PROVE  /\ prev + Len(entries) \in Nat /\ prev + Len(entries) <= prev + Len(entries)
           /\ 0 \in Nat /\ 0 <= prev + Len(entries) /\ 0 <= prev + 1
<1>1. Len(entries) \in Nat
  BY Zenon, LenFacts
<1> QED
  BY <1>1

\* A restart adds nothing to what is in flight.
LEMMA RecoverTraffic ==
    ASSUME MessagesOK, NEW n \in Node, recover(n), NEW x \in messages'
    PROVE  \E m \in messages : survives(m, x)
<1> DEFINE stale(m) == IF m.src = n /\ m.type \in {"vote_req", "append_req"}
                       THEN [m EXCEPT !.awaited = FALSE] ELSE m
<1>1. PICK m \in messages : x = stale(m)
  BY Zenon DEF recover
<1>2. m \in Message
  BY Zenon DEF MessagesOK
<1>3. CASE m.type = "vote_req"
  <2>1. m \in RequestVoteRequest
    BY Zenon, <1>2, <1>3, MessageFields
  <2> QED
    BY Zenon, <1>1, <1>3, <2>1 DEF RequestVoteRequest, survives
<1>4. CASE m.type = "append_req"
  <2>1. m \in AppendEntriesRequest
    BY Zenon, <1>2, <1>4, MessageFields
  <2> QED
    BY Zenon, <1>1, <1>4, <2>1 DEF AppendEntriesRequest, survives
<1>5. CASE m.type \notin {"vote_req", "append_req"}
  BY Zenon, <1>1, <1>5 DEF survives
<1> QED
  BY Zenon, <1>3, <1>4, <1>5

==============================================================================

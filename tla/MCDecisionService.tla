------------------------- MODULE MCDecisionService -------------------------
(* DecisionService under two loads small enough for TLC: two calls of one    *)
(* attempt each that contend for a bucket and perhaps for a key, and one     *)
(* call of any shape with a retry and a partition.                           *)
EXTENDS DecisionService, TLC

VARIABLE load   \* chosen at the start

Symmetry == Permutations(Node) \cup Permutations(Caller) \cup Permutations(Key)
            \cup Permutations(Content)

calling == {c \in Caller : request[c] # None}

underLoad ==
    \/ /\ load = "contending"
       /\ cut = {}
       /\ \A c \in calling : request[c].shape = "valid" /\ tries[c] = 1
    \/ load = "alone" /\ Cardinality(calling) <= 1

LoadInit == Init /\ load \in {"contending", "alone"}

LoadNext == Next /\ UNCHANGED load /\ underLoad'

LoadSpec == LoadInit /\ [][LoadNext]_<<vars, load>>
=============================================================================

---------------------------- MODULE ReplicatedLog ----------------------------
(***************************************************************************)
(* What the consensus layer promises the state machine and the callers of  *)
(* Propose, without nodes that lead, vote or exchange messages: replicas    *)
(* apply prefixes of one history, and a caller is only answered with what   *)
(* the history holds.  Raft implements it (RaftRefinement), DecisionService *)
(* is built on it.                                                          *)
(***************************************************************************)
EXTENDS Integers, Sequences

CONSTANTS
    Replica,     \* the nodes
    Value        \* what an entry can hold

VARIABLES
    history,     \* the entries applied by some replica, in order
    applied,     \* how many of them each replica has applied
    answered     \* <<index, entry>> whose result a caller was given

logVars == <<history, applied, answered>>

Init ==
    /\ history = <<>>
    /\ applied = [r \in Replica |-> 0]
    /\ answered = {}

\* Replica r applies its entries up to index k.  Those nobody applied before
\* (new) are decided by that, and r gives callers the results of some.
applyUpTo(r, k, new) ==
    /\ k > applied[r]
    /\ new \in Seq(Value)
    /\ history' = history \o new
    /\ IF new = <<>> THEN k <= Len(history) ELSE k = Len(history')
    /\ applied' = [applied EXCEPT ![r] = k]
    /\ answered \subseteq answered'
    /\ answered' \ answered \subseteq {<<i, history'[i]>> : i \in (applied[r] + 1)..k}

\* Which entries a step decided can be read off the state it leads to.
Next ==
    \E r \in Replica :
        applyUpTo(r, applied'[r], SubSeq(history', Len(history) + 1, Len(history')))

Spec == Init /\ [][Next]_logVars
=============================================================================

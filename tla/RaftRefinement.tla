--------------------------- MODULE RaftRefinement ----------------------------
(****************************************************************************)
(* Raft implements ReplicatedLog: what is applied on the node that is       *)
(* furthest ahead is the history.                                           *)
(****************************************************************************)
EXTENDS Raft

furthest == CHOOSE n \in Node : \A p \in Node : lastApplied[p] <= lastApplied[n]

Log == INSTANCE ReplicatedLog WITH
    Replica <- Node, Value <- Entry,
    history <- SubSeq(log[furthest], 1, lastApplied[furthest]),
    applied <- lastApplied, answered <- acked

\* Over leader changes, crashes and failed writes, nodes apply prefixes of one
\* history that only grows, no entry is applied again or skipped by a restart,
\* and applyCommitted answers a caller only with an entry it applies.
ImplementsReplicatedLog == Log!Spec
==============================================================================

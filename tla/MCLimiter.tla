------------------------------ MODULE MCLimiter -----------------------------
(***************************************************************************)
(* Limiter for TLC.  Every sequence of commands of one of three loads is   *)
(* applied, up to the length of the load.                                  *)
(***************************************************************************)
EXTENDS Limiter, TLC

VARIABLE load   \* chosen at the start: the ids and times its commands have

\* Ids are only compared, so permuting them maps behaviours to behaviours.
IDSymmetry == Permutations(RequestID) \cup Permutations(ClientID)
                  \cup Permutations(KeyPrefix) \cup Permutations(PolicyID)

slow == [capacity |-> 2, refill |-> 1, interval |-> 3, maxCost |-> 2]
fast == [capacity |-> 1, refill |-> 2, interval |-> 1, maxCost |-> 1]
unsound == [capacity |-> 1, refill |-> 1, interval |-> 1, maxCost |-> 2]

creation(l, limits) ==
    [type : {"create_policy"}, id : l.policies, limits : limits, active : {TRUE}]

clientCreation(l, allowed) ==
    [type : {"create_client"}, id : l.clients, prefix : l.prefixes, allowed : allowed]

revocation(l) == [type : {"revoke_client"}, id : l.clients]

update(l, limits) ==
    [type : {"update_policy"}, id : l.policies, limits : limits, expected : {1, 2},
     ts : l.times]

deciding(l, costs) ==
    [type : {"decide"}, client : l.clients, policy : l.policies, subject : Subject,
     request : l.requests, cost : costs, ts : l.times]

one(S) == {{x} : x \in S}

\* Decisions racing edits of their policy.
EditLoads ==
    [kind : {"edits"}, policies : one(PolicyID), clients : one(ClientID),
     prefixes : one(KeyPrefix), requests : {RequestID}, times : {{0, 1, 2, 4}}, length : {7}]

EditCommands(l) ==
    creation(l, {slow}) \cup clientCreation(l, {{"*"}}) \cup deciding(l, {1, 2})
        \cup update(l, {slow, fast})

\* Retries, reused keys, revocation and retention.
ReplayLoads ==
    [kind : {"replay"}, policies : one(PolicyID), clients : {ClientID},
     prefixes : {KeyPrefix}, requests : one(RequestID), times : {0..3}, length : {6}]

ReplayCommands(l) ==
    creation(l, {slow}) \cup clientCreation(l, {{"*"}}) \cup deciding(l, {1, 2})
        \cup revocation(l)
        \cup [type : {"prune"}, keep : {0, 1}, ts : l.times]

\* Administration of two policies and two clients.
AdminLoads ==
    [kind : {"admin"}, policies : {PolicyID}, clients : {ClientID},
     prefixes : {KeyPrefix}, requests : one(RequestID), times : {{0}}, length : {6}]

AdminCommands(l) ==
    creation(l, {slow, unsound})
        \cup clientCreation(l, {{"*"}} \cup one(PolicyID))
        \cup revocation(l)
        \cup [type : {"set_policy_active"}, id : l.policies, active : BOOLEAN,
              expected : {1, 2}]
        \cup update(l, {fast, unsound})
        \cup deciding(l, {1})

commands(l) ==
    CASE l.kind = "edits" -> EditCommands(l)
      [] l.kind = "replay" -> ReplayCommands(l)
      [] l.kind = "admin" -> AdminCommands(l)

Loads == EditLoads \cup ReplayLoads \cup AdminLoads

\* Every command of some load.
AllCommands == UNION {commands(l) : l \in Loads}

LoadInit == Init /\ load \in Loads

LoadNext ==
    /\ lastApplied < load.length
    /\ \E c \in commands(load) : Apply(c)
    /\ UNCHANGED load

LoadSpec == LoadInit /\ [][LoadNext]_<<vars, load>>
=============================================================================

--------------------------- MODULE DecisionLedger ---------------------------
(***************************************************************************)
(* What POST /v1/decisions promises one API client, without nodes, logs,   *)
(* forwarding or retries: an idempotency key is decided at most once, while *)
(* the client is active and within the capacity of its bucket, and a call  *)
(* is told nothing about its key that the ledger does not say.              *)
(***************************************************************************)
EXTENDS Integers, FiniteSets

CONSTANTS
    Caller,       \* calls of Client.Decide
    Key,          \* idempotency keys
    Content,      \* what a request asks for (its digest)
    Capacity,     \* requests the bucket can admit
    Undecided,    \* a key without a decision
    Unanswered    \* a call that has not returned

VARIABLES
    client,       \* the API client: "absent", "active" or "revoked"
    ledger,       \* the decision of each key
    answers       \* what each call returned

ledgerVars == <<client, ledger, answers>>

Init ==
    /\ client = "absent"
    /\ ledger = [k \in Key |-> Undecided]
    /\ answers = [c \in Caller |-> Unanswered]

decided == {k \in Key : ledger[k] # Undecided}

admitted == {k \in decided : ledger[k].allowed}

create ==
    /\ client = "absent" /\ client' = "active"
    /\ UNCHANGED <<ledger, answers>>

revoke ==
    /\ client = "active" /\ client' = "revoked"
    /\ UNCHANGED <<ledger, answers>>

\* Key k is decided for a request with content x, later than every other key.
decide(k, x, at) ==
    /\ client = "active"
    /\ k \notin decided
    /\ \A j \in decided : ledger[j].at < at
    /\ ledger' = [ledger EXCEPT ![k] =
                    [content |-> x, at |-> at,
                     allowed |-> Cardinality(admitted) < Capacity]]
    /\ UNCHANGED <<client, answers>>

\* An answer is a decision of the ledger, a conflict with it, or no decision.
justified(a) ==
    \/ /\ a.code \in {200, 429}
       /\ a.key \in decided
       /\ ledger[a.key] = [content |-> a.content, at |-> a.at, allowed |-> (a.code = 200)]
    \/ /\ a.code = 409
       /\ a.key \in decided
       /\ ledger[a.key].content # a.content
    \/ a.code \notin {200, 409, 429}

answer(c) ==
    /\ answers[c] = Unanswered
    /\ answers' = [answers EXCEPT ![c] = answers'[c]]
    /\ answers'[c] # Unanswered
    /\ justified(answers'[c])
    /\ UNCHANGED <<client, ledger>>

Next ==
    \/ create
    \/ revoke
    \/ \E k \in Key, x \in Content : ledger'[k] # Undecided /\ decide(k, x, ledger'[k].at)
    \/ \E c \in Caller : answer(c)

Spec == Init /\ [][Next]_ledgerVars
=============================================================================

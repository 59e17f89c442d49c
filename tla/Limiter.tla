------------------------------- MODULE Limiter ------------------------------
(***************************************************************************)
(* The deterministic state machine of internal/limiter: what applying one  *)
(* committed command does to the policies, clients, token buckets,         *)
(* idempotency records and audits of the store.  Each command is applied in *)
(* one storage transaction that also advances last_applied, so a command   *)
(* is one action and a crash never splits it.  A rejected command advances *)
(* last_applied and changes nothing else; the reject codes are left out.   *)
(*                                                                         *)
(* Tables are functions on the keys present.  Identifiers and names are    *)
(* well-formed model values; an ill-formed one is rejected exactly like    *)
(* limits that fail validation.  Timestamps are what leaders' clocks said, *)
(* so they may go back from one command to the next.                       *)
(***************************************************************************)
EXTENDS TokenBucket, FiniteSets, FiniteSetsExt

CONSTANTS
    PolicyID, ClientID, Subject, RequestID, KeyPrefix,
    Command,       \* the committed commands a run tries, any number of times
    MaxCapacity, MaxRefill, MinInterval, MaxInterval,   \* bounds of validation.go
    TTL,           \* idempotencyTTLms
    DefaultKeep,   \* defaultAuditKeepMax
    Scale,         \* model only: a common multiple of the intervals
    MaxIndex       \* bound: entries applied

ASSUME LimiterAssumption ==
    /\ {MaxCapacity, MaxRefill, MinInterval, MaxInterval, TTL, DefaultKeep,
        Scale} \subseteq Nat \ {0}
    /\ MaxIndex \in Nat
    /\ MaxCapacity * MilliPerToken * MaxInterval + MaxRefill * MilliPerToken
          <= MaxInt
    /\ \A i \in MinInterval..MaxInterval : Scale % i = 0

\* What the fields of a command hold when it reaches the state machine.
ASSUME CommandAssumption ==
    \A c \in Command :
        /\ c.type \in {"update_policy", "decide", "prune"} => c.ts \in 0..MaxInt
        /\ c.type = "decide" => c.cost \in Int

VARIABLES
    policies,      \* id -> [limits, active, version]
    clients,       \* id -> [prefix, allowed, active]
    prefixes,      \* key prefix -> client id
    buckets,       \* <<policy, subject>> -> bucket
    idempotency,   \* <<client, request>> -> decision record
    audits,        \* log index -> event
    lastApplied,
    decisions,     \* model only: every decision ever handed to a caller
    ledger,        \* model only: <<policy, subject>> -> [clock, minted]
    prunes,        \* model only: <<log index, timestamp>> of applied prunes
    edits          \* model only: [policy, expected, index] of applied edits

adminVars == <<policies, clients, prefixes, edits>>
decideVars == <<buckets, idempotency, decisions, ledger>>
vars == <<adminVars, decideVars, audits, prunes, lastApplied>>

-----------------------------------------------------------------------------
(* Tables                                                                  *)

put(table, key, value) ==
    [k \in DOMAIN table \cup {key} |-> IF k = key THEN value ELSE table[k]]

without(table, keys) == [k \in DOMAIN table \ keys |-> table[k]]

index == lastApplied + 1

\* An audit of the command being applied.
audit(event) == audits' = put(audits, index, event)

\* The admin event kinds carry no data that any other state depends on.
writeAdminAudit == audit([kind |-> "admin"])

-----------------------------------------------------------------------------
(* Policies                                                                *)

validatePolicyFields(l) ==
    /\ l.capacity \in 1..MaxCapacity
    /\ l.refill \in 1..MaxRefill
    /\ l.interval \in MinInterval..MaxInterval
    /\ l.maxCost \in 1..l.capacity

createPolicyValid(c) ==
    /\ validatePolicyFields(c.limits)
    /\ c.id \notin DOMAIN policies

applyCreatePolicy(c) ==
    /\ c.type = "create_policy" /\ createPolicyValid(c)
    /\ policies' = put(policies, c.id, [limits |-> c.limits, active |-> c.active,
                                        version |-> 1])
    /\ writeAdminAudit
    /\ UNCHANGED <<clients, prefixes, edits, decideVars, prunes>>

\* Planted bug: the edit names no version.
anyVersion(c) == c.id \in DOMAIN policies

\* Optimistic concurrency: the edit was made against the version in force.
versionMatches(c) ==
    c.id \in DOMAIN policies /\ policies[c.id].version = c.expected

edited(c) == edits' = edits \cup {[policy |-> c.id, expected |-> c.expected,
                                   index |-> index]}

\* Planted bug: elapsed time is left to the new rate.
convertWithoutRefill(b, old, new, now) ==
    [b EXCEPT !.tokens = IF @ > capMilli(new) THEN capMilli(new) ELSE @,
              !.remainder = IF old.interval # new.interval THEN 0 ELSE @]

\* Planted bug: the remainder of the old interval is kept.
convertKeepingRemainder(b, old, new, now) ==
    LET r == refillBucket(b, old, now)
    IN  [r EXCEPT !.tokens = IF @ > capMilli(new) THEN capMilli(new) ELSE @]

\* A bucket under the new limits: refilled under the old ones up to the edit,
\* clamped, and without a remainder that counts parts of another interval.
convert(b, old, new, now) ==
    LET r == refillBucket(b, old, now)
    IN  [tokens |-> IF r.tokens > capMilli(new) THEN capMilli(new) ELSE r.tokens,
         remainder |-> IF old.interval # new.interval THEN 0 ELSE r.remainder,
         lastRefill |-> r.lastRefill]

\* Model only: the ledger of bucket k accrues up to now under limits l.
accrue(k, l, now) ==
    LET entry == ledger[k]
        clock == IF now > entry.clock THEN now ELSE entry.clock
    IN  [clock |-> clock,
         minted |-> entry.minted + (clock - entry.clock) * l.refill
                                     * MilliPerToken * (Scale \div l.interval)]

updateValid(c) == versionMatches(c) /\ validatePolicyFields(c.limits)

applyUpdatePolicy(c) ==
    /\ c.type = "update_policy" /\ updateValid(c)
    /\ LET old == policies[c.id]
       IN  /\ policies' = [policies EXCEPT
                 ![c.id] = [limits |-> c.limits, active |-> old.active,
                            version |-> old.version + 1]]
           /\ buckets' = [k \in DOMAIN buckets |->
                 IF k[1] = c.id THEN convert(buckets[k], old.limits, c.limits, c.ts)
                                ELSE buckets[k]]
           /\ ledger' = [k \in DOMAIN ledger |->
                 IF k[1] = c.id THEN accrue(k, old.limits, c.ts) ELSE ledger[k]]
    /\ edited(c)
    /\ writeAdminAudit
    /\ UNCHANGED <<clients, prefixes, idempotency, decisions, prunes>>

applySetPolicyActive(c) ==
    /\ c.type = "set_policy_active" /\ versionMatches(c)
    /\ LET old == policies[c.id]
       IN  policies' = [policies EXCEPT
              ![c.id] = [limits |-> old.limits, active |-> c.active,
                         version |-> old.version + 1]]
    /\ edited(c)
    /\ writeAdminAudit
    /\ UNCHANGED <<clients, prefixes, decideVars, prunes>>

-----------------------------------------------------------------------------
(* Clients                                                                 *)

\* Planted bug: a prefix in use is not noticed.
createClientAnyPrefix(c) ==
    /\ c.allowed # {} /\ c.id \notin DOMAIN clients
    /\ c.allowed = {"*"} \/ c.allowed \subseteq DOMAIN policies

createClientValid(c) ==
    /\ c.allowed # {}
    /\ c.id \notin DOMAIN clients
    /\ c.prefix \notin DOMAIN prefixes
    /\ c.allowed = {"*"} \/ c.allowed \subseteq DOMAIN policies

applyCreateClient(c) ==
    /\ c.type = "create_client" /\ createClientValid(c)
    /\ clients' = put(clients, c.id, [prefix |-> c.prefix, allowed |-> c.allowed,
                                      active |-> TRUE])
    /\ prefixes' = put(prefixes, c.prefix, c.id)
    /\ writeAdminAudit
    /\ UNCHANGED <<policies, edits, decideVars, prunes>>

revocable(c) == c.id \in DOMAIN clients /\ clients[c.id].active

\* Revoking an already revoked client reports success and writes nothing.
applyRevokeClient(c) ==
    /\ c.type = "revoke_client" /\ revocable(c)
    /\ clients' = [clients EXCEPT ![c.id] = [@ EXCEPT !.active = FALSE]]
    /\ writeAdminAudit
    /\ UNCHANGED <<policies, prefixes, edits, decideVars, prunes>>

AllowsPolicy(client, p) == "*" \in client.allowed \/ p \in client.allowed

-----------------------------------------------------------------------------
(* Decisions                                                               *)

requestDigest(c) == <<c.policy, c.subject, c.cost>>

\* The key under which a decision is recorded.
requestKey(c) == <<c.client, c.request>>

\* A retry: the key is known and was used for the same content.
replayable(c) ==
    /\ requestKey(c) \in DOMAIN idempotency
    /\ idempotency[requestKey(c)].digest = requestDigest(c)

\* A new key, a client that may use the policy, and a cost the policy allows.
chargeable(c) ==
    /\ c.cost >= 1
    /\ requestKey(c) \notin DOMAIN idempotency
    /\ c.client \in DOMAIN clients
    /\ clients[c.client].active
    /\ AllowsPolicy(clients[c.client], c.policy)
    /\ c.policy \in DOMAIN policies
    /\ policies[c.policy].active
    /\ c.cost <= policies[c.policy].limits.maxCost

loadOrInitBucket(k, l, now) ==
    IF k \in DOMAIN buckets THEN buckets[k] ELSE initBucket(l, now)

\* A retried request gets the recorded decision and is not charged.
replayDecision(c) ==
    /\ c.type = "decide" /\ replayable(c)
    /\ decisions' = decisions \cup {idempotency[requestKey(c)]}
    /\ UNCHANGED <<adminVars, buckets, idempotency, ledger, audits, prunes>>

\* A new request refills and charges the bucket; a denial is recorded as well.
applyDecide(c) ==
    /\ c.type = "decide" /\ chargeable(c)
    /\ LET k == <<c.policy, c.subject>>
           l == policies[c.policy].limits
           s == spend(refillBucket(loadOrInitBucket(k, l, c.ts), l, c.ts),
                      c.cost, l)
           record == [key |-> requestKey(c), digest |-> requestDigest(c),
                      allowed |-> s.allowed, remaining |-> s.bucket.tokens,
                      observed |-> c.ts, expires |-> c.ts + TTL, index |-> index]
       IN  /\ buckets' = put(buckets, k, s.bucket)
           /\ idempotency' = put(idempotency, record.key, record)
           /\ decisions' = decisions \cup {record}
           /\ ledger' = put(ledger, k,
                 IF k \in DOMAIN ledger THEN accrue(k, l, c.ts)
                 ELSE [clock |-> c.ts, minted |-> capMilli(l) * Scale])
           /\ audit([kind |-> "decision", key |-> record.key,
                     allowed |-> s.allowed, remaining |-> s.bucket.tokens])
    /\ UNCHANGED <<adminVars, prunes>>

-----------------------------------------------------------------------------
(* Retention                                                               *)

\* Planted bug: the age of a record is not looked at.
observedBy(now) == {k \in DOMAIN idempotency : idempotency[k].observed <= now}

expiredBy(now) == {k \in DOMAIN idempotency : idempotency[k].expires <= now}

\* The audits beyond the newest keep.
oldestAudits(keep) ==
    {i \in DOMAIN audits :
        Cardinality({j \in DOMAIN audits : j > i}) >= keep}

applyPrune(c) ==
    /\ c.type = "prune"
    /\ idempotency' = without(idempotency, expiredBy(c.ts))
    /\ audits' = without(audits, oldestAudits(IF c.keep <= 0 THEN DefaultKeep
                                                             ELSE c.keep))
    /\ prunes' = prunes \cup {<<index, c.ts>>}
    /\ UNCHANGED <<adminVars, buckets, decisions, ledger>>

-----------------------------------------------------------------------------
(* Every early return that changes nothing: the rejections, the revocation of
   a revoked client, and the no-op entries of the log.                     *)

accepted(c) ==
    CASE c.type = "create_policy" -> createPolicyValid(c)
      [] c.type = "update_policy" -> updateValid(c)
      [] c.type = "set_policy_active" -> versionMatches(c)
      [] c.type = "create_client" -> createClientValid(c)
      [] c.type = "revoke_client" -> revocable(c)
      [] c.type = "decide" -> replayable(c) \/ chargeable(c)
      [] c.type = "prune" -> TRUE

reject(c) ==
    /\ ~accepted(c)
    /\ UNCHANGED <<adminVars, decideVars, audits, prunes>>

applyTx(c) ==
    \/ applyCreatePolicy(c)
    \/ applyUpdatePolicy(c)
    \/ applySetPolicyActive(c)
    \/ applyCreateClient(c)
    \/ applyRevokeClient(c)
    \/ replayDecision(c)
    \/ applyDecide(c)
    \/ applyPrune(c)
    \/ reject(c)

\* The next committed entry is applied, together with the applied checkpoint.
Apply(c) ==
    /\ lastApplied < MaxIndex
    /\ lastApplied' = index
    /\ applyTx(c)

none == [k \in {} |-> 0]

Init ==
    /\ policies = none /\ clients = none /\ prefixes = none /\ buckets = none
    /\ idempotency = none /\ audits = none /\ ledger = none
    /\ lastApplied = 0
    /\ decisions = {} /\ prunes = {} /\ edits = {}

Next == \E c \in Command : Apply(c)

Spec == Init /\ [][Next]_vars

-----------------------------------------------------------------------------
(* Properties                                                              *)

\* A balance stays between empty and the capacity in force, and the remainder
\* counts parts of the interval in force, whatever edits came in between.
BucketsInRange ==
    \A k \in DOMAIN buckets :
        /\ buckets[k].tokens \in 0..capMilli(policies[k[1]].limits)
        /\ buckets[k].remainder \in 0..(policies[k[1]].limits.interval - 1)

spent(k) ==
    LET charges == {d \in decisions : d.allowed /\ <<d.digest[1], d.digest[2]>> = k}
    IN  MapThenSumSet(LAMBDA d : d.digest[3] * MilliPerToken, charges)

\* The decisions handed out for a subject never grant more than a full bucket
\* plus what each policy version accrued while it was in force: applyUpdatePolicy
\* applies no rate to time that passed under another.
NeverOverGranted ==
    \A k \in DOMAIN buckets :
        LET parts == Scale \div policies[k[1]].limits.interval
        IN  (spent(k) + buckets[k].tokens) * Scale + buckets[k].remainder * parts
                <= ledger[k].minted

\* A request is decided once: two different decisions under one key have between
\* them a prune at or past the expiry of the first, whatever was edited, revoked
\* or retried meanwhile.
OneDecisionPerKey ==
    \A a, b \in decisions :
        a.key = b.key /\ a.index < b.index =>
            \E p \in prunes : p[1] \in a.index..b.index /\ p[2] >= a.observed + TTL

\* No edit of a policy is lost: every applied edit was made against a version no
\* other applied edit was made against, and each one counts.
NoLostEdit ==
    /\ \A a, b \in edits : a.policy = b.policy /\ a.expected = b.expected => a = b
    /\ \A p \in DOMAIN policies :
          policies[p].version = 1 + Cardinality({e \in edits : e.policy = p})

\* The prefix index and the client table agree, so authentication by key prefix
\* finds exactly the client the key was made for.
PrefixFindsClient ==
    /\ \A x \in DOMAIN prefixes : clients[prefixes[x]].prefix = x
    /\ \A c \in DOMAIN clients : prefixes[clients[c].prefix] = c
=============================================================================

-------------------------- MODULE DecisionService --------------------------
(***************************************************************************)
(* A decision from Client.Decide (pkg/client) through any node, once over  *)
(* to the leader it knows (internal/api/decision.go), through Propose and   *)
(* the applied log, and back, with the retries of the client and an admin   *)
(* who creates and revokes the API client meanwhile.                        *)
(*                                                                          *)
(* The consensus layer is what ReplicatedLog promises.  Leadership changes  *)
(* freely: several nodes may believe they lead, a follower may take any     *)
(* other node for the leader, and an accepted entry may commit late or      *)
(* never.  All requests are of one client for one bucket and fall within    *)
(* one refill interval.                                                     *)
(***************************************************************************)
EXTENDS Integers, Sequences, FiniteSets

CONSTANTS
    Node,
    Caller,        \* calls of Client.Decide
    Key,           \* idempotency keys
    Content,       \* what a request asks for (its digest)
    Shape,         \* subset of {"valid", "oversized", "unkeyed"}
    Capacity,      \* requests the bucket can admit
    MaxRetries,    \* Client.maxRetries
    Partitions,    \* whether a node may be cut off from the others
    None

ASSUME BoundsAssumption == Capacity \in Nat /\ MaxRetries \in Nat
ASSUME ShapeAssumption == Shape \subseteq {"valid", "oversized", "unkeyed"}

VARIABLES
    history,       \* the entries applied by some node, in order
    applied,       \* how many of them each node has applied
    state,         \* the store of each node: client, bucket, idempotency records
    pending,       \* entries accepted by a leader that may still commit
    leads,         \* nodes whose Status says leader
    cut,           \* nodes cut off from the others
    admin,         \* where the two admin requests are
    request,       \* what each call asks for
    tries,         \* attempts each call has made
    handler,       \* the request handler of each attempt, at its last node
    answer         \* what each call returned

logVars == <<history, applied, state, pending>>
clusterVars == <<leads, cut>>
callVars == <<request, tries, answer>>
vars == <<logVars, clusterVars, admin, callVars, handler>>

Attempt == Caller \X (1 .. MaxRetries + 1)
Request == [key : Key, content : Content, shape : Shape]

Entry == [op : {"decide"}, attempt : Attempt]
         \cup [op : {"create", "revoke"}, attempt : {None}]
decideEntry(a) == [op |-> "decide", attempt |-> a]
adminEntry(op) == [op |-> op, attempt |-> None]

\* A response: its status and, for a decision, its log index.  Status 0 is no
\* response at all, a network error or timeout of the client.
status(code) == [code |-> code, at |-> 0]

idle == [stage |-> "idle", node |-> None, forwarded |-> FALSE, reply |-> status(0)]

blank == [client |-> "absent", spent |-> 0, decided |-> [k \in Key |-> None]]

Init ==
    /\ history = <<>>
    /\ applied = [n \in Node |-> 0]
    /\ state = [n \in Node |-> blank]
    /\ pending = {}
    /\ leads = {}
    /\ cut = {}
    /\ admin = [op \in {"create", "revoke"} |-> "unsent"]
    /\ request = [c \in Caller |-> None]
    /\ tries = [c \in Caller |-> 0]
    /\ handler = [a \in Attempt |-> idle]
    /\ answer = [c \in Caller |-> None]

-----------------------------------------------------------------------------
(* The state machine: the state and the response after an entry.           *)

\* writeReject: the status of a rejection, a conflict or a client that is not active.
writeReject(reason) == status(IF reason = "conflict" THEN 409 ELSE 401)

verdict(d) == [code |-> IF d.allowed THEN 200 ELSE 429, at |-> d.at]

\* A planted bug: the idempotency record is not consulted before the bucket.
applyDecideAnew(st, r, i) ==
    LET d == [content |-> r.content, allowed |-> st.spent < Capacity, at |-> i]
    IN  CASE st.client # "active" -> [state |-> st, reply |-> writeReject(st.client)]
          [] OTHER -> [state |-> [st EXCEPT !.decided[r.key] = d,
                                            !.spent = @ + (IF d.allowed THEN 1 ELSE 0)],
                       reply |-> verdict(d)]

\* A planted bug: only the handler checks that the client is active.
applyDecideTrusting(st, r, i) ==
    LET prior == st.decided[r.key]
        d == [content |-> r.content, allowed |-> st.spent < Capacity, at |-> i]
    IN  CASE prior # None /\ prior.content # r.content -> [state |-> st, reply |-> writeReject("conflict")]
          [] prior # None -> [state |-> st, reply |-> verdict(prior)]
          [] OTHER -> [state |-> [st EXCEPT !.decided[r.key] = d,
                                            !.spent = @ + (IF d.allowed THEN 1 ELSE 0)],
                       reply |-> verdict(d)]

\* The idempotency record is looked up first, then the client and the bucket.
applyDecide(st, r, i) ==
    LET prior == st.decided[r.key]
        d == [content |-> r.content, allowed |-> st.spent < Capacity, at |-> i]
    IN  CASE prior # None /\ prior.content # r.content -> [state |-> st, reply |-> writeReject("conflict")]
          [] prior # None -> [state |-> st, reply |-> verdict(prior)]
          [] prior = None /\ st.client # "active" -> [state |-> st, reply |-> writeReject(st.client)]
          [] OTHER -> [state |-> [st EXCEPT !.decided[r.key] = d,
                                            !.spent = @ + (IF d.allowed THEN 1 ELSE 0)],
                       reply |-> verdict(d)]

applyTx(st, e, i) ==
    CASE e.op = "create" /\ st.client = "absent" -> [state |-> [st EXCEPT !.client = "active"],
                                                     reply |-> status(201)]
      [] e.op = "revoke" /\ st.client # "absent" -> [state |-> [st EXCEPT !.client = "revoked"],
                                                     reply |-> status(200)]
      [] e.op = "decide" -> applyDecide(st, request[e.attempt[1]], i)

-----------------------------------------------------------------------------
(* The handlers of a node.                                                 *)

\* A response is kept for a call that still waits for it, and lost otherwise.
concluded(a, resp) ==
    IF a[2] = tries[a[1]] /\ answer[a[1]] = None
    THEN [handler[a] EXCEPT !.stage = "replied", !.reply = resp]
    ELSE idle

reply(a, code) == handler' = [handler EXCEPT ![a] = concluded(a, status(code))]

connected(n, m) == n \notin cut /\ m \notin cut

\* The API key is checked against this node's store.
Authenticate(st) == st.client = "active"

\* processLocally up to Propose.
processLocally(a, r, st) ==
    CASE r.shape = "unkeyed" -> reply(a, 422)
      [] r.shape # "unkeyed" /\ ~Authenticate(st) -> reply(a, 401)
      [] r.shape = "oversized" /\ Authenticate(st) -> reply(a, 413)
      [] r.shape = "valid" /\ Authenticate(st) ->
            handler' = [handler EXCEPT ![a].stage = "accepted"]

\* The follower reads the whole body before it forwards the request.
forward(a, r, leader) ==
    IF r.shape = "oversized" THEN reply(a, 400)
    ELSE IF ~connected(handler[a].node, leader) THEN reply(a, 503)
    ELSE handler' = [handler EXCEPT ![a].node = leader, ![a].forwarded = TRUE]

\* hint is the leader this node knows, or None.
handleDecision(a, hint) ==
    LET n == handler[a].node
        r == request[a[1]]
    IN  /\ handler[a].stage = "arrived"
        /\ IF n \in leads THEN processLocally(a, r, state[n])
           ELSE IF handler[a].forwarded \/ hint = None THEN reply(a, 503)
           ELSE forward(a, r, hint)
        /\ UNCHANGED <<logVars, clusterVars, admin, callVars>>

\* What a leader that is cut off appends reaches no other node.
accept(n, e) == pending' = IF n \in cut THEN pending ELSE pending \cup {e}

propose(a) ==
    /\ handler[a].stage = "accepted"
    /\ IF handler[a].node \in leads
       THEN /\ accept(handler[a].node, decideEntry(a))
            /\ handler' = [handler EXCEPT ![a].stage = "proposed"]
       ELSE reply(a, 503) /\ UNCHANGED pending
    /\ UNCHANGED <<history, applied, state, clusterVars, admin, callVars>>

\* The proposal timeout: the entry stays where it is.
timeOut(a) ==
    /\ handler[a].stage \in {"accepted", "proposed"}
    /\ reply(a, 504)
    /\ UNCHANGED <<logVars, clusterVars, admin, callVars>>

-----------------------------------------------------------------------------
(* The cluster.                                                            *)

Log == INSTANCE ReplicatedLog WITH Replica <- Node, Value <- Entry, answered <- {}

\* The store of node n after entry e, and the result for whoever waits there.
deliver(n, e) ==
    LET i == applied[n] + 1
        result == applyTx(state[n], e, i)
        a == e.attempt
    IN  /\ state' = [state EXCEPT ![n] = result.state]
        /\ IF e.op = "decide"
           THEN /\ handler' = IF handler[a].stage = "proposed" /\ handler[a].node = n
                              THEN [handler EXCEPT ![a] = concluded(a, result.reply)]
                              ELSE handler
                /\ UNCHANGED admin
           ELSE /\ admin' = IF admin[e.op] = n THEN [admin EXCEPT ![e.op] = "done"] ELSE admin
                /\ UNCHANGED handler

\* Node n applies the next entry; the first node to apply it decides it.
apply(n) ==
    /\ n \notin cut
    /\ \/ /\ applied[n] < Len(history)
          /\ Log!applyUpTo(n, applied[n] + 1, <<>>)
          /\ deliver(n, history[applied[n] + 1])
          /\ UNCHANGED pending
       \/ /\ applied[n] = Len(history)
          /\ \E e \in pending :
                /\ Log!applyUpTo(n, applied[n] + 1, <<e>>)
                /\ deliver(n, e)
                /\ pending' = pending \ {e}
    /\ UNCHANGED <<clusterVars, callVars>>

elect(n) ==
    /\ n \notin leads \cup cut
    /\ leads' = leads \cup {n}
    /\ UNCHANGED <<logVars, cut, admin, callVars, handler>>

\* becomeFollower fails what waits: 503 for decisions and admin requests.
stepDown(n) ==
    /\ n \in leads
    /\ leads' = leads \ {n}
    /\ handler' = [a \in Attempt |->
                     IF handler[a].stage = "proposed" /\ handler[a].node = n
                     THEN concluded(a, status(503))
                     ELSE handler[a]]
    /\ admin' = [op \in DOMAIN admin |-> IF admin[op] = n THEN "failed" ELSE admin[op]]
    /\ UNCHANGED <<logVars, cut, callVars>>

partition(n) ==
    /\ Partitions
    /\ cut = {}
    /\ cut' = {n}
    /\ UNCHANGED <<logVars, leads, admin, callVars, handler>>

-----------------------------------------------------------------------------
(* The admin and the client.                                               *)

\* createClient and revokeClient, on a leader.  The API key is shown once the
\* creation is applied, and it is revoked after that.
adminPropose(op, n) ==
    /\ admin[op] = "unsent"
    /\ op = "revoke" => admin["create"] = "done"
    /\ n \in leads
    /\ accept(n, adminEntry(op))
    /\ admin' = [admin EXCEPT ![op] = n]
    /\ UNCHANGED <<history, applied, state, clusterVars, callVars, handler>>

\* What the handlers hold once call c does not listen to its last attempt.
unheard(c) ==
    [a \in Attempt |->
        IF a = <<c, tries[c]>> /\ handler[a].stage = "replied" THEN idle ELSE handler[a]]

\* Client.do: the request reaches some node.
do(c, n) ==
    /\ tries' = [tries EXCEPT ![c] = @ + 1]
    /\ handler' = [unheard(c) EXCEPT ![<<c, tries[c] + 1>>].stage = "arrived",
                                     ![<<c, tries[c] + 1>>].node = n]

Decide(c, r, n) ==
    /\ request[c] = None
    /\ admin["create"] = "done"
    /\ request' = [request EXCEPT ![c] = r]
    /\ do(c, n)
    /\ UNCHANGED <<logVars, clusterVars, admin, answer>>

attempts(r) == IF r.shape = "unkeyed" THEN 1 ELSE 1 + MaxRetries

\* The loop of Decide after a response: 503, 504 and network errors are retried.
respond(c, resp, n) ==
    /\ request[c] # None /\ answer[c] = None
    /\ IF resp.code \in {0, 503, 504} /\ tries[c] < attempts(request[c])
       THEN do(c, n) /\ UNCHANGED answer
       ELSE /\ answer' = [answer EXCEPT ![c] = resp]
            /\ handler' = unheard(c)
            /\ UNCHANGED tries
    /\ UNCHANGED <<logVars, clusterVars, admin, request>>

current(c) == handler[<<c, tries[c]>>]

receive(c, n) ==
    /\ tries[c] > 0 /\ current(c).stage = "replied"
    /\ respond(c, current(c).reply, n)

\* The forwarding node waits two seconds for the leader, whose handler goes on.
forwardFails(c, n) ==
    /\ tries[c] > 0 /\ current(c).forwarded
    /\ respond(c, status(503), n)

\* The response is lost or late, or the node it was sent to dies.
lose(c, n) == tries[c] > 0 /\ respond(c, status(0), n)

Next ==
    \/ \E n \in Node : apply(n) \/ elect(n) \/ stepDown(n) \/ partition(n)
    \/ \E op \in {"create", "revoke"}, n \in Node : adminPropose(op, n)
    \/ \E c \in Caller, n \in Node :
          \/ \E r \in Request : Decide(c, r, n)
          \/ receive(c, n) \/ forwardFails(c, n) \/ lose(c, n)
    \/ \E a \in Attempt :
          \/ \E hint \in (Node \cup {None}) \ {handler[a].node} : handleDecision(a, hint)
          \/ propose(a) \/ timeOut(a)

Spec == Init /\ [][Next]_vars

-----------------------------------------------------------------------------
(* Properties.                                                             *)

\* What all nodes hold once they have applied the history.
final == state[CHOOSE n \in Node : applied[n] = Len(history)]

Ledger == INSTANCE DecisionLedger WITH
    Undecided <- None,
    Unanswered <- None,
    client <- final.client,
    ledger <- final.decided,
    answers <- [c \in Caller |->
                  IF answer[c] = None THEN None
                  ELSE [key |-> request[c].key, content |-> request[c].content,
                        code |-> answer[c].code, at |-> answer[c].at]]

\* The endpoint as its callers see it is the ledger: whatever is forwarded, timed
\* out, lost, committed late and retried, a key is decided once, the bucket admits
\* no more than it holds, and 200, 429 and 409 are answered from that decision
\* (applyDecide looks the key up before the bucket; Decide retries with the key).
ImplementsLedger == Ledger!Spec

\* After a revocation was acknowledged nothing is decided any more, not even for
\* requests authenticated earlier or on a node that has not applied it, or
\* entries accepted before it that commit late (applyDecide checks the client again).
RevocationIsFinal ==
    [][admin["revoke"] = "done" => final'.decided = final.decided]_vars
=============================================================================

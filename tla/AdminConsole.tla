---------------------------- MODULE AdminConsole ----------------------------
(***************************************************************************)
(* The admin of the cluster at work: the dashboard of internal/dashboard   *)
(* in one browser with several tabs, the JSON API of internal/api/admin.go *)
(* under the same session, and what becomes of the commands they propose.  *)
(*                                                                          *)
(* One policy and its bucket, and any number of API clients.  Pages are     *)
(* read from the store of any node, which may be behind.  A proposed        *)
(* command is applied in some order with the others, late, or never.        *)
(***************************************************************************)
EXTENDS Integers, Sequences, FiniteSets

CONSTANTS
    Tab,          \* tabs that show the dashboard
    Script,       \* callers of the JSON API, with the cookies of the browser
    Operation,    \* subset of AllOperations
    MaxForms,     \* bound on the requests submitted
    MaxSessions   \* bound on the sign-ins

AllOperations == {"createPolicy", "updatePolicy", "activation",
                  "createClient", "revokeClient", "testDecision"}

ASSUME OperationAssumption == Operation \subseteq AllOperations
ASSUME BoundsAssumption == MaxForms \in Nat /\ MaxSessions \in Nat

User == Tab \cup Script

VARIABLES
    session,      \* the session of the browser's cookies, 0 for none
    sessions,     \* sessions issued
    flash,        \* the flash cookie: the form it is about, 0 for none
    screen,       \* what each tab or script has in front of it
    forms,        \* the requests proposed, in order, and what became of them
    policy,       \* version (0 for absent) and activity of the policy
    clients,      \* the API clients, by the form that created them; 0 is "admin"
    charged       \* the bucket of the policy has been charged

store == <<policy, clients, charged>>
cookies == <<session, sessions, flash>>
vars == <<cookies, screen, forms, store>>

edits == {"updatePolicy", "activation"}

\* The page a user is on: the CSRF token it carries, the version it shows.
page(csrf, version) == [at |-> "page", csrf |-> csrf, version |-> version]
away(at) == [at |-> at, csrf |-> 0, version |-> 0]

Init ==
    /\ session = 0
    /\ sessions = 0
    /\ flash = 0
    /\ screen = [u \in User |-> away("login")]
    /\ forms = <<>>
    /\ policy = [version |-> 0, active |-> FALSE]
    /\ clients = [i \in 0 .. MaxForms |-> "absent"]
    /\ charged = FALSE

-----------------------------------------------------------------------------
(* Sessions and pages.                                                     *)

\* Sign-in with the admin token: new cookies, and the overview page.
loginPost(t) ==
    /\ screen[t].at = "login"
    /\ sessions < MaxSessions
    /\ sessions' = sessions + 1
    /\ session' = sessions + 1
    /\ screen' = [screen EXCEPT ![t] = away("redirected")]
    /\ UNCHANGED <<flash, forms, store>>

\* Eight hours after it was issued the session is no longer accepted.
expire ==
    /\ session # 0
    /\ session' = 0
    /\ UNCHANGED <<sessions, flash, screen, forms, store>>

\* A planted bug: the flash cookie is read and not cleared.
getKeepingFlash(u, version) ==
    /\ screen[u].at # "waiting"
    /\ version \in 0 .. policy.version
    /\ screen' = [screen EXCEPT ![u] = IF session = 0 THEN away("login") ELSE page(session, version)]
    /\ forms' = IF flash = 0 \/ session = 0 THEN forms ELSE [forms EXCEPT ![flash].shown = @ + 1]
    /\ UNCHANGED <<cookies, store>>

\* What the flash message is about has been shown to the user.
shown(f) == IF f = 0 THEN forms ELSE [forms EXCEPT ![f].shown = @ + 1]

\* A page or listing, from the store of a node that may lag; loginGet and page
\* redirect by whether there is a session.  Only pages show the flash message,
\* and within the 30 seconds its cookie lives.
get(u, version) ==
    /\ screen[u].at # "waiting"
    /\ version \in 0 .. policy.version
    /\ IF session = 0
       THEN screen' = [screen EXCEPT ![u] = away("login")] /\ UNCHANGED <<flash, forms>>
       ELSE /\ screen' = [screen EXCEPT ![u] = page(session, version)]
            /\ IF u \in Tab THEN forms' = shown(flash) /\ flash' = 0
               ELSE UNCHANGED <<flash, forms>>
    /\ UNCHANGED <<session, sessions, store>>

-----------------------------------------------------------------------------
(* Requests that change something.                                         *)

FromRequest == session # 0

VerifyCSRFToken(u) == screen[u].csrf = session

\* form and requireAdmin: a session, and the CSRF token of that session.
authorised(u) == FromRequest /\ VerifyCSRFToken(u)

\* Without a session the user is sent to the login page, with the token of an
\* earlier session the request is forbidden.
turnedAway(u) ==
    /\ screen[u].at = "page"
    /\ ~authorised(u)
    /\ screen' = [screen EXCEPT ![u] = away(IF session = 0 THEN "login" ELSE "forbidden")]
    /\ UNCHANGED <<cookies, forms, store>>

logoutPost(t) ==
    /\ screen[t].at = "page"
    /\ authorised(t)
    /\ session' = 0
    /\ screen' = [screen EXCEPT ![t] = away("login")]
    /\ UNCHANGED <<sessions, flash, forms, store>>

\* Client i is generated by the handler of form i, a client to revoke is one that
\* is listed, and the client of a test decision is "admin".
addressed(op, client) ==
    CASE op = "createClient" -> client = Len(forms) + 1
      [] op = "revokeClient" -> clients[client] # "absent"
      [] OTHER -> client = 0

\* Propose: the command of a request that waits for its outcome.
proposed(u, op, client, active) ==
    [user |-> u, op |-> op, client |-> client, active |-> active, version |-> screen[u].version,
     stage |-> "queued", told |-> "nothing", shown |-> 0]

\* Each operation becomes a command.  The forms for the policy and the test are on a
\* page that lists it; whether it is to be active is up to the form.
submit(u, op, client, active) ==
    /\ screen[u].at = "page"
    /\ authorised(u)
    /\ Len(forms) < MaxForms
    /\ op = "testDecision" => u \in Tab
    /\ op \in edits \cup {"testDecision"} => screen[u].version > 0
    /\ addressed(op, client)
    /\ active => op \in {"createPolicy", "activation"}
    /\ forms' = Append(forms, proposed(u, op, client, active))
    /\ screen' = [screen EXCEPT ![u].at = "waiting"]
    /\ UNCHANGED <<cookies, store>>

waiting(f) == forms[f].told = "nothing"

\* The response to form f: the flash cookie and a redirect, the status for a
\* script, or the page with a new client's key, which also shows a flash message.
respond(f, told, stage) ==
    LET u == forms[f].user
        keyPage == u \in Tab /\ forms[f].op = "createClient" /\ told = "applied"
        known == IF keyPage THEN shown(flash) ELSE forms
    IN  /\ forms' = [known EXCEPT ![f].told = told, ![f].stage = stage]
        /\ screen' = [screen EXCEPT ![u] =
                        IF keyPage THEN page(screen[u].csrf, policy.version)
                        ELSE away(IF u \in Tab THEN "redirected" ELSE "answered")]
        /\ flash' = IF keyPage THEN 0 ELSE IF u \in Tab THEN f ELSE flash

\* Any error of Propose: not the leader, leadership lost, timeout.  The command may
\* be in the log.
unavailable(f) ==
    /\ waiting(f)
    /\ respond(f, "unavailable", forms[f].stage)
    /\ UNCHANGED <<session, sessions, store>>

-----------------------------------------------------------------------------
(* The state machine.                                                      *)

\* A planted bug: an edit is accepted whatever version it was made to.
editable(f) == policy.version > 0

current(f) == policy.version > 0 /\ policy.version = f.version

\* Whether the command of form f is applied or rejected.
accepted(f) ==
    CASE f.op = "createPolicy" -> policy.version = 0
      [] f.op \in edits -> current(f)
      [] f.op = "createClient" -> clients[f.client] = "absent"
      [] f.op = "revokeClient" -> clients[f.client] # "absent"
      [] f.op = "testDecision" -> clients[f.client] = "active" /\ policy.version > 0 /\ policy.active

\* What an accepted command does to the store.
effect(f) ==
    /\ policy' = CASE f.op = "createPolicy" -> [version |-> 1, active |-> f.active]
                   [] f.op = "updatePolicy" -> [policy EXCEPT !.version = @ + 1]
                   [] f.op = "activation" -> [version |-> policy.version + 1, active |-> f.active]
                   [] OTHER -> policy
    /\ clients' = CASE f.op = "createClient" -> [clients EXCEPT ![f.client] = "active"]
                    [] f.op = "revokeClient" -> [clients EXCEPT ![f.client] = "revoked"]
                    [] OTHER -> clients
    /\ charged' = (charged \/ f.op = "testDecision")

\* A planted bug: the answer says that a command was applied when it was handled.
applyOptimistic(f) ==
    /\ forms[f].stage = "queued"
    /\ IF accepted(forms[f]) THEN effect(forms[f]) ELSE UNCHANGED store
    /\ LET stage == IF accepted(forms[f]) THEN "applied" ELSE "rejected"
       IN  IF waiting(f) THEN respond(f, "applied", stage)
           ELSE forms' = [forms EXCEPT ![f].stage = stage] /\ UNCHANGED <<flash, screen>>
    /\ UNCHANGED <<session, sessions>>

\* The command of form f is applied, now or after its form was given up.
apply(f) ==
    /\ forms[f].stage = "queued"
    /\ IF accepted(forms[f]) THEN effect(forms[f]) ELSE UNCHANGED store
    /\ LET stage == IF accepted(forms[f]) THEN "applied" ELSE "rejected"
       IN  IF waiting(f) THEN respond(f, stage, stage)
           ELSE forms' = [forms EXCEPT ![f].stage = stage] /\ UNCHANGED <<flash, screen>>
    /\ UNCHANGED <<session, sessions>>

Next ==
    \/ \E t \in Tab : loginPost(t) \/ logoutPost(t)
    \/ expire
    \/ \E u \in User :
          \/ turnedAway(u)
          \/ \E v \in 0 .. policy.version : get(u, v)
          \/ \E op \in Operation, i \in 0 .. MaxForms, b \in BOOLEAN : submit(u, op, i, b)
    \/ \E f \in DOMAIN forms : unavailable(f) \/ apply(f)

Spec == Init /\ [][Next]_vars

-----------------------------------------------------------------------------
(* Properties.                                                             *)

\* Of all edits made to one version of the policy, in tabs with old pages, by
\* scripts or once more after "Cluster unavailable; retry.", at most one is applied
\* (expected_version).
OneEditPerVersion ==
    \A f, g \in DOMAIN forms :
        /\ forms[f].op \in edits /\ forms[g].op \in edits
        /\ forms[f].stage = "applied" /\ forms[g].stage = "applied"
        /\ forms[f].version = forms[g].version
        => f = g

\* Who was told that a command was applied or rejected was told the truth, whatever
\* commits late in between (flashResult and the handlers of the JSON API).
ToldIsTrue ==
    \A f \in DOMAIN forms :
        forms[f].told \in {"applied", "rejected"} => forms[f].stage = forms[f].told

\* With one tab open, an outcome is shown there at most once, whatever else the
\* browser's cookies are used for in between: sign-ins, other pages, the page with a
\* new key, scripts (setFlash, takeFlash).
FlashIsOneShot == \A f \in DOMAIN forms : forms[f].shown <= 1
=============================================================================

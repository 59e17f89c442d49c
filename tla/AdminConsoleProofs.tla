------------------------- MODULE AdminConsoleProofs -------------------------
(****************************************************************************)
(* For any number of tabs, scripts and requests: of the edits made to one   *)
(* version of the policy at most one is applied, an outcome reported to the *)
(* admin is the outcome the command had, and it is shown once at most.      *)
(*                                                                          *)
(* The first is not inductive: the invariant adds that an edit that was     *)
(* applied was made to a version below the present one.  Nor is the last:   *)
(* the flash cookie is about a request that was answered and not yet shown. *)
(****************************************************************************)
EXTENDS AdminConsole, TLAPS

Stage == {"queued", "applied", "rejected"}
Told == {"nothing", "applied", "rejected", "unavailable"}
Form == [user : User, op : AllOperations, client : 0 .. MaxForms, active : BOOLEAN,
         version : Nat, stage : Stage, told : Told, shown : Nat]
Screen == [at : {"login", "page", "forbidden", "waiting", "redirected", "answered"},
           csrf : Nat, version : Nat]

Shapes ==
    /\ forms \in Seq(Form)
    /\ flash \in 0 .. Len(forms)
    /\ policy \in [version : Nat, active : BOOLEAN]
    /\ screen \in [User -> Screen]
    /\ sessions \in Nat /\ session \in Nat

AppliedIsPast ==
    \A f \in DOMAIN forms :
        forms[f].op \in edits /\ forms[f].stage = "applied" => forms[f].version < policy.version

AdminInv == Shapes /\ AppliedIsPast /\ OneEditPerVersion /\ ToldIsTrue

\* Nothing has been submitted yet.
LEMMA AdminInit == Init => AdminInv
<1> SUFFICES ASSUME Init PROVE AdminInv
  OBVIOUS
<1>1. forms \in Seq(Form) /\ Len(forms) = 0 /\ DOMAIN forms = {}
  BY DEF Init
<1>2. Shapes
  BY <1>1 DEF Init, Shapes, Screen, away
<1> QED
  BY <1>1, <1>2 DEF AdminInv, AppliedIsPast, OneEditPerVersion, ToldIsTrue

\* Showing the flash message changes no request but for the count of it.
LEMMA ShownKeeps ==
  ASSUME Shapes, NEW g \in 0 .. Len(forms)
  PROVE  /\ shown(g) \in Seq(Form) /\ Len(shown(g)) = Len(forms)
         /\ \A f \in DOMAIN forms :
              /\ shown(g)[f].op = forms[f].op /\ shown(g)[f].version = forms[f].version
              /\ shown(g)[f].stage = forms[f].stage /\ shown(g)[f].told = forms[f].told
<1>1. CASE g = 0
  BY <1>1 DEF shown, Shapes
<1>2. CASE g # 0
  <2>1. g \in DOMAIN forms /\ forms[g] \in Form
    BY <1>2 DEF Shapes
  <2>2. [forms[g] EXCEPT !.shown = @ + 1] \in Form
    BY <2>1 DEF Form
  <2>3. shown(g) = [forms EXCEPT ![g] = [forms[g] EXCEPT !.shown = @ + 1]]
    BY <1>2 DEF shown
  <2>4. shown(g) \in Seq(Form) /\ Len(shown(g)) = Len(forms)
    BY <2>1, <2>2, <2>3 DEF Shapes
  <2>5. \A f \in DOMAIN forms :
           shown(g)[f] = IF f = g THEN [forms[g] EXCEPT !.shown = @ + 1] ELSE forms[f]
    BY <2>3
  <2> QED
    BY <2>1, <2>4, <2>5 DEF Form
<1> QED
  BY <1>1, <1>2

\* A response changes what one request was told and its stage, and nothing
\* else the properties speak of.
LEMMA RespondKeeps ==
  ASSUME Shapes, NEW f \in DOMAIN forms, NEW told \in Told, NEW stage \in Stage,
         respond(f, told, stage)
  PROVE  /\ forms' \in Seq(Form) /\ Len(forms') = Len(forms)
         /\ flash' \in 0 .. Len(forms)
         /\ screen' \in [User -> Screen]
         /\ \A g \in DOMAIN forms :
              /\ forms'[g].op = forms[g].op /\ forms'[g].version = forms[g].version
              /\ forms'[g].stage = IF g = f THEN stage ELSE forms[g].stage
              /\ forms'[g].told = IF g = f THEN told ELSE forms[g].told
<1> DEFINE u == forms[f].user
           keyPage == u \in Tab /\ forms[f].op = "createClient" /\ told = "applied"
           known == IF keyPage THEN shown(flash) ELSE forms
<1>1. /\ forms' = [known EXCEPT ![f].told = told, ![f].stage = stage]
      /\ screen' = [screen EXCEPT ![u] =
                      IF keyPage THEN page(screen[u].csrf, policy.version)
                      ELSE away(IF u \in Tab THEN "redirected" ELSE "answered")]
      /\ flash' = IF keyPage THEN 0 ELSE IF u \in Tab THEN f ELSE flash
  BY DEF respond
<1>2. f \in 1 .. Len(forms) /\ Len(forms) \in Nat /\ forms[f] \in Form
  BY DEF Shapes
<1>3. flash' \in 0 .. Len(forms)
  BY <1>1, <1>2 DEF Shapes
<1>4. /\ known \in Seq(Form) /\ Len(known) = Len(forms)
      /\ \A g \in DOMAIN forms :
           /\ known[g].op = forms[g].op /\ known[g].version = forms[g].version
           /\ known[g].stage = forms[g].stage /\ known[g].told = forms[g].told
  BY ShownKeeps DEF Shapes
<1>5. u \in User
  BY <1>2 DEF Form
<1> HIDE DEF known
<1>6. known[f] \in Form /\ DOMAIN known = DOMAIN forms /\ f \in DOMAIN known
  BY <1>2, <1>4
<1>7. [[known[f] EXCEPT !.told = told] EXCEPT !.stage = stage] \in Form
  BY <1>6 DEF Form
<1>8. forms' = [known EXCEPT ![f] = [[known[f] EXCEPT !.told = told] EXCEPT !.stage = stage]]
  BY <1>1, <1>6
<1>9. forms' \in Seq(Form) /\ Len(forms') = Len(forms)
  BY <1>4, <1>6, <1>7, <1>8
<1>10. \A g \in DOMAIN forms :
         forms'[g] = IF g = f THEN [[known[f] EXCEPT !.told = told] EXCEPT !.stage = stage]
                     ELSE known[g]
  BY <1>6, <1>8
<1>11. /\ forms'[f].op = known[f].op /\ forms'[f].version = known[f].version
       /\ forms'[f].stage = stage /\ forms'[f].told = told
  BY <1>6, <1>10 DEF Form
<1>12. \A g \in DOMAIN forms :
         /\ forms'[g].op = forms[g].op /\ forms'[g].version = forms[g].version
         /\ forms'[g].stage = IF g = f THEN stage ELSE forms[g].stage
         /\ forms'[g].told = IF g = f THEN told ELSE forms[g].told
  BY <1>4, <1>10, <1>11
<1>13. screen' \in [User -> Screen]
  BY <1>1, <1>5 DEF Shapes, Screen, page, away
<1> QED
  BY <1>3, <1>9, <1>12, <1>13

\* Sign-ins, sign-outs, pages and refusals leave every request as it is.
LEMMA BrowsingStep ==
  ASSUME AdminInv,
         \/ \E t \in Tab : loginPost(t) \/ logoutPost(t)
         \/ expire
         \/ \E u \in User : turnedAway(u) \/ \E v \in 0 .. policy.version : get(u, v)
  PROVE  AdminInv'
<1> USE DEF AdminInv
<1>1. /\ forms' \in Seq(Form) /\ Len(forms') = Len(forms) /\ DOMAIN forms' = DOMAIN forms
      /\ \A f \in DOMAIN forms :
           /\ forms'[f].op = forms[f].op /\ forms'[f].version = forms[f].version
           /\ forms'[f].stage = forms[f].stage /\ forms'[f].told = forms[f].told
  <2>1. forms' = forms \/ forms' = shown(flash)
    BY DEF loginPost, logoutPost, expire, turnedAway, get
  <2>2. CASE forms' = forms
    BY <2>2 DEF Shapes
  <2>3. CASE forms' = shown(flash)
    BY <2>3, ShownKeeps DEF Shapes
  <2> QED
    BY <2>1, <2>2, <2>3
<1>2. policy' = policy
  BY DEF loginPost, logoutPost, expire, turnedAway, get, store
<1>3. flash' \in 0 .. Len(forms)
  BY DEF loginPost, logoutPost, expire, turnedAway, get, cookies, Shapes
<1>4. sessions' \in Nat /\ session' \in Nat
  BY DEF loginPost, logoutPost, expire, turnedAway, get, cookies, Shapes
<1>5. screen' \in [User -> Screen]
  <2>1. \A at \in {"login", "forbidden", "redirected"} : away(at) \in Screen
    BY DEF away, Screen
  <2>2. \A v \in 0 .. policy.version : page(session, v) \in Screen
    BY DEF page, Screen, Shapes
  <2>3. CASE \E t \in Tab : loginPost(t) \/ logoutPost(t)
    BY <2>1, <2>3 DEF loginPost, logoutPost, Shapes
  <2>4. CASE expire
    BY <2>4 DEF expire, Shapes
  <2>5. ASSUME NEW u \in User, turnedAway(u)
        PROVE  screen' \in [User -> Screen]
    BY <2>1, <2>5 DEF turnedAway, Shapes
  <2>6. ASSUME NEW u \in User, NEW v \in 0 .. policy.version, get(u, v)
        PROVE  screen' \in [User -> Screen]
    BY <2>1, <2>2, <2>6 DEF get, Shapes
  <2> QED
    BY <2>3, <2>4, <2>5, <2>6
<1>6. Shapes'
  BY <1>1, <1>2, <1>3, <1>4, <1>5 DEF Shapes
<1>7. AppliedIsPast' /\ OneEditPerVersion' /\ ToldIsTrue'
  BY <1>1, <1>2 DEF AppliedIsPast, OneEditPerVersion, ToldIsTrue
<1> QED
  BY <1>6, <1>7

\* A new request has no outcome yet.
LEMMA SubmitStep ==
  ASSUME AdminInv, NEW u \in User, NEW op \in Operation, NEW i \in 0 .. MaxForms,
         NEW b \in BOOLEAN, submit(u, op, i, b)
  PROVE  AdminInv'
<1> USE DEF AdminInv
<1> DEFINE new == [user |-> u, op |-> op, client |-> i, active |-> b,
                   version |-> screen[u].version, stage |-> "queued", told |-> "nothing", shown |-> 0]
<1>1. screen[u] \in Screen
  BY DEF Shapes
<1>2. new \in Form
  BY <1>1, OperationAssumption DEF Form, Screen, Stage, Told
<1>3. forms' = Append(forms, new)
  BY DEF submit, proposed
<1>4. new.stage = "queued" /\ new.told = "nothing"
  OBVIOUS
<1> HIDE DEF new
<1>5. /\ forms' \in Seq(Form) /\ Len(forms') = Len(forms) + 1 /\ Len(forms) \in Nat
      /\ DOMAIN forms = 1 .. Len(forms) /\ DOMAIN forms' = 1 .. Len(forms) + 1
      /\ forms'[Len(forms) + 1] = new /\ \A f \in DOMAIN forms : forms'[f] = forms[f]
  BY <1>2, <1>3 DEF Shapes
<1>6. \A f \in DOMAIN forms' : f \in DOMAIN forms \/ forms'[f] = new
  BY <1>5
<1>7. screen' \in [User -> Screen]
  <2>1. [screen[u] EXCEPT !.at = "waiting"] \in Screen
    BY <1>1 DEF Screen
  <2> QED
    BY <2>1 DEF submit, Shapes
<1>8. Shapes'
  BY <1>5, <1>7 DEF submit, cookies, store, Shapes
<1>9. AppliedIsPast'
  BY <1>4, <1>5, <1>6 DEF submit, store, AppliedIsPast
<1>10. OneEditPerVersion'
  BY <1>4, <1>5, <1>6 DEF OneEditPerVersion
<1>11. ToldIsTrue'
  BY <1>4, <1>5, <1>6 DEF ToldIsTrue
<1> QED
  BY <1>8, <1>9, <1>10, <1>11

\* A request that is answered with "unavailable" keeps its stage.
LEMMA UnavailableStep ==
  ASSUME AdminInv, NEW f \in DOMAIN forms, unavailable(f)
  PROVE  AdminInv'
<1> USE DEF AdminInv
<1>1. forms[f].stage \in Stage /\ "unavailable" \in Told
  <2>1. forms[f] \in Form
    BY DEF Shapes
  <2> QED
    BY <2>1 DEF Form, Told
<1>2. respond(f, "unavailable", forms[f].stage)
  BY DEF unavailable
<1>3. /\ forms' \in Seq(Form) /\ Len(forms') = Len(forms)
      /\ flash' \in 0 .. Len(forms)
      /\ screen' \in [User -> Screen]
      /\ \A g \in DOMAIN forms :
           /\ forms'[g].op = forms[g].op /\ forms'[g].version = forms[g].version
           /\ forms'[g].stage = forms[g].stage
           /\ forms'[g].told = IF g = f THEN "unavailable" ELSE forms[g].told
  BY <1>1, <1>2, RespondKeeps
<1>4. DOMAIN forms' = DOMAIN forms
  BY <1>3 DEF Shapes
<1>5. Shapes'
  BY <1>3 DEF unavailable, store, Shapes
<1>6. AppliedIsPast' /\ OneEditPerVersion'
  BY <1>3, <1>4 DEF unavailable, store, AppliedIsPast, OneEditPerVersion
<1>7. ToldIsTrue'
  BY <1>3, <1>4 DEF ToldIsTrue
<1> QED
  BY <1>5, <1>6, <1>7

\* An edit is accepted only for the present version, and then moves it on;
\* no command moves it back.
LEMMA EffectOnVersion ==
  ASSUME Shapes, NEW f \in Form, IF accepted(f) THEN effect(f) ELSE UNCHANGED store
  PROVE  /\ policy' \in [version : Nat, active : BOOLEAN]
         /\ policy'.version >= policy.version
         /\ accepted(f) /\ f.op \in edits =>
              f.version = policy.version /\ policy'.version = policy.version + 1
<1>1. CASE ~accepted(f)
  BY <1>1 DEF Shapes, store
<1>2. CASE accepted(f)
  <2>1. f.op \in AllOperations
    BY DEF Form
  <2>2. effect(f)
    BY <1>2
  <2>3. CASE f.op = "createPolicy"
    <3>1. policy.version = 0
      BY <1>2, <2>3 DEF accepted, edits
    <3>2. policy' = [version |-> 1, active |-> f.active] /\ f.active \in BOOLEAN
      BY <2>2, <2>3 DEF effect, Form
    <3> QED
      BY <2>3, <3>1, <3>2 DEF edits
  <2>4. CASE f.op \in edits
    <3>1. f.version = policy.version
      BY <1>2, <2>4 DEF accepted, edits, current
    <3>2. CASE f.op = "updatePolicy"
      <4>1. policy' = [policy EXCEPT !.version = @ + 1]
        BY <2>2, <3>2 DEF effect
      <4> QED
        BY <3>1, <4>1 DEF Shapes
    <3>3. CASE f.op = "activation"
      <4>1. policy' = [version |-> policy.version + 1, active |-> f.active] /\ f.active \in BOOLEAN
        BY <2>2, <3>3 DEF effect, Form
      <4> QED
        BY <3>1, <4>1 DEF Shapes
    <3> QED
      BY <2>4, <3>2, <3>3 DEF edits
  <2>5. CASE f.op \in {"createClient", "revokeClient", "testDecision"}
    <3>1. policy' = policy
      BY <2>2, <2>5 DEF effect
    <3> QED
      BY <2>5, <3>1 DEF Shapes, edits
  <2> QED
    BY <2>1, <2>3, <2>4, <2>5 DEF AllOperations, edits
<1> QED
  BY <1>1, <1>2

\* A command that is applied, while its request waits or long after.
LEMMA ApplyStep ==
  ASSUME AdminInv, NEW f \in DOMAIN forms, apply(f)
  PROVE  AdminInv'
<1> USE DEF AdminInv
<1> DEFINE stage == IF accepted(forms[f]) THEN "applied" ELSE "rejected"
<1>1. forms[f] \in Form /\ f \in 1 .. Len(forms) /\ Len(forms) \in Nat /\ forms[f].stage = "queued"
  BY DEF Shapes, apply
<1>2. /\ policy' \in [version : Nat, active : BOOLEAN]
      /\ policy'.version >= policy.version
      /\ accepted(forms[f]) /\ forms[f].op \in edits =>
           forms[f].version = policy.version /\ policy'.version = policy.version + 1
  BY <1>1, EffectOnVersion DEF apply
<1>3. stage \in Stage /\ stage \in Told /\ (stage = "applied" => accepted(forms[f]))
  BY DEF Stage, Told
<1>4. IF waiting(f) THEN respond(f, stage, stage)
      ELSE forms' = [forms EXCEPT ![f].stage = stage] /\ UNCHANGED <<flash, screen>>
  BY DEF apply
<1> HIDE DEF stage
<1>5. /\ forms' \in Seq(Form) /\ Len(forms') = Len(forms)
      /\ flash' \in 0 .. Len(forms)
      /\ screen' \in [User -> Screen]
      /\ \A g \in DOMAIN forms :
           /\ forms'[g].op = forms[g].op /\ forms'[g].version = forms[g].version
           /\ forms'[g].stage = IF g = f THEN stage ELSE forms[g].stage
           /\ forms'[g].told = IF g = f /\ waiting(f) THEN stage ELSE forms[g].told
  <2>1. CASE waiting(f)
    BY <1>3, <1>4, <2>1, RespondKeeps
  <2>2. CASE ~waiting(f)
    <3>1. [forms[f] EXCEPT !.stage = stage] \in Form
      BY <1>1, <1>3 DEF Form
    <3>2. forms' = [forms EXCEPT ![f] = [forms[f] EXCEPT !.stage = stage]]
      BY <1>4, <2>2
    <3>3. forms' \in Seq(Form) /\ Len(forms') = Len(forms)
      BY <1>1, <3>1, <3>2 DEF Shapes
    <3>4. \A g \in DOMAIN forms :
            forms'[g] = IF g = f THEN [forms[f] EXCEPT !.stage = stage] ELSE forms[g]
      BY <3>2
    <3>5. /\ forms'[f].op = forms[f].op /\ forms'[f].version = forms[f].version
          /\ forms'[f].stage = stage /\ forms'[f].told = forms[f].told
      BY <1>1, <3>4 DEF Form
    <3> QED
      BY <1>4, <2>2, <3>3, <3>4, <3>5 DEF Shapes
  <2> QED
    BY <2>1, <2>2
<1>6. DOMAIN forms' = DOMAIN forms
  BY <1>5 DEF Shapes
<1>7. Shapes'
  BY <1>2, <1>5 DEF apply, Shapes
<1>8. \A g \in DOMAIN forms : forms[g].version \in Nat /\ policy.version \in Nat
  <2>1. \A g \in DOMAIN forms : forms[g] \in Form
    BY DEF Shapes
  <2>2. policy.version \in Nat
    BY DEF Shapes
  <2> QED
    BY <2>1, <2>2 DEF Form
<1>9. AppliedIsPast'
  <2>1. policy'.version \in Nat
    BY <1>2
  <2>2. ASSUME NEW g \in DOMAIN forms, forms'[g].op \in edits, forms'[g].stage = "applied"
        PROVE  forms'[g].version < policy'.version
    <3>1. /\ forms[g].op \in edits /\ forms'[g].version = forms[g].version
          /\ IF g = f THEN stage = "applied" ELSE forms[g].stage = "applied"
      BY <1>5, <2>2
    <3>2. forms[g].version \in Nat /\ policy.version \in Nat
      BY <1>8
    <3>3. policy'.version >= policy.version
      BY <1>2
    <3>4. CASE g = f
      <4>1. forms[g].version = policy.version /\ policy'.version = policy.version + 1
        BY <1>2, <1>3, <3>1, <3>4
      <4> QED
        BY <3>1, <3>2, <4>1
    <3>5. CASE g # f
      <4>1. forms[g].version < policy.version
        BY <3>1, <3>5 DEF AppliedIsPast
      <4> QED
        BY <2>1, <3>1, <3>2, <3>3, <4>1
    <3> QED
      BY <3>4, <3>5
  <2> QED
    BY <1>6, <2>2 DEF AppliedIsPast
<1>10. OneEditPerVersion'
  <2>1. \A g \in DOMAIN forms : forms[g].op \in edits /\ forms[g].stage = "applied"
          => forms[g].version # policy.version
    BY <1>8 DEF AppliedIsPast
  <2> QED
    BY <1>2, <1>3, <1>5, <1>6, <2>1 DEF OneEditPerVersion
<1>11. ToldIsTrue'
  <2>1. ~waiting(f) => forms[f].told \notin {"applied", "rejected"}
    BY <1>1 DEF ToldIsTrue
  <2> QED
    BY <1>5, <1>6, <2>1 DEF ToldIsTrue
<1> QED
  BY <1>7, <1>9, <1>10, <1>11

\* Every step keeps the invariant.
LEMMA AdminStep == AdminInv /\ [Next]_vars => AdminInv'
<1> SUFFICES ASSUME AdminInv, [Next]_vars PROVE AdminInv'
  OBVIOUS
<1>1. CASE \/ \E t \in Tab : loginPost(t) \/ logoutPost(t)
           \/ expire
           \/ \E u \in User : turnedAway(u) \/ \E v \in 0 .. policy.version : get(u, v)
  BY <1>1, BrowsingStep
<1>2. CASE \E u \in User, op \in Operation, i \in 0 .. MaxForms, b \in BOOLEAN : submit(u, op, i, b)
  BY <1>2, SubmitStep
<1>3. CASE \E f \in DOMAIN forms : unavailable(f)
  BY <1>3, UnavailableStep
<1>4. CASE \E f \in DOMAIN forms : apply(f)
  BY <1>4, ApplyStep
<1>5. CASE UNCHANGED vars
  BY <1>5 DEF vars, cookies, store, AdminInv, Shapes, AppliedIsPast, OneEditPerVersion, ToldIsTrue
<1> QED
  BY <1>1, <1>2, <1>3, <1>4, <1>5 DEF Next

\* The invariant holds in every state the console reaches.
LEMMA AdminInvariant == Spec => []AdminInv
BY AdminInit, AdminStep, PTL DEF Spec

\* Two edits that were made to the same version of the policy are never both
\* applied, in whatever order and however late the log delivers them
\* (expected_version in the state machine).
THEOREM EditsDoNotCollide == Spec => []OneEditPerVersion
<1>1. AdminInv => OneEditPerVersion
  BY DEF AdminInv
<1> QED
  BY <1>1, AdminInvariant, PTL

\* What the admin is told of a command, applied or rejected, is what became of
\* it, also when it commits after others (flashResult, the JSON handlers).
THEOREM ReportsAreTrue == Spec => []ToldIsTrue
<1>1. AdminInv => ToldIsTrue
  BY DEF AdminInv
<1> QED
  BY <1>1, AdminInvariant, PTL

-----------------------------------------------------------------------------
(* The flash message                                                        *)

\* A request that is not answered, or that the cookie is about, was not shown.
FlashInv ==
    /\ flash # 0 => forms[flash].told # "nothing"
    /\ \A f \in DOMAIN forms :
          /\ forms[f].shown \in 0 .. 1
          /\ forms[f].told = "nothing" \/ f = flash => forms[f].shown = 0

\* Showing the flash message counts for the request it is about and for no other.
LEMMA ShownCounts ==
  ASSUME Shapes, NEW g \in 0 .. Len(forms)
  PROVE  \A f \in DOMAIN forms :
            shown(g)[f].shown = IF f = g THEN forms[f].shown + 1 ELSE forms[f].shown
<1>1. CASE g = 0
  BY <1>1 DEF shown, Shapes
<1>2. CASE g # 0
  <2>1. g \in DOMAIN forms /\ forms[g] \in Form
    BY <1>2 DEF Shapes
  <2>2. shown(g) = [forms EXCEPT ![g] = [forms[g] EXCEPT !.shown = @ + 1]]
    BY <1>2 DEF shown
  <2>3. [forms[g] EXCEPT !.shown = @ + 1].shown = forms[g].shown + 1
    BY <2>1 DEF Form
  <2> QED
    BY <2>1, <2>2, <2>3
<1> QED
  BY <1>1, <1>2

\* A page takes the cookie with the message it shows.
LEMMA FlashTaken ==
  ASSUME Shapes, FlashInv, forms' = shown(flash), flash' = 0
  PROVE  FlashInv'
<1>1. /\ shown(flash) \in Seq(Form) /\ Len(shown(flash)) = Len(forms)
      /\ \A f \in DOMAIN forms : shown(flash)[f].told = forms[f].told
  BY ShownKeeps DEF Shapes
<1>2. \A f \in DOMAIN forms :
         shown(flash)[f].shown = IF f = flash THEN forms[f].shown + 1 ELSE forms[f].shown
  BY ShownCounts DEF Shapes
<1>3. DOMAIN forms' = DOMAIN forms /\ \A f \in DOMAIN forms : f # 0
  BY <1>1 DEF Shapes
<1> QED
  BY <1>1, <1>2, <1>3 DEF FlashInv

\* A response sets the cookie for the request it answers, or shows the message there
\* was with the new key.
LEMMA RespondFlash ==
  ASSUME Shapes, FlashInv, NEW f \in DOMAIN forms, waiting(f),
         NEW told \in Told \ {"nothing"}, NEW stage \in Stage, respond(f, told, stage)
  PROVE  FlashInv'
<1> DEFINE u == forms[f].user
           keyPage == u \in Tab /\ forms[f].op = "createClient" /\ told = "applied"
           known == IF keyPage THEN shown(flash) ELSE forms
<1>1. /\ forms' = [known EXCEPT ![f].told = told, ![f].stage = stage]
      /\ flash' = IF keyPage THEN 0 ELSE IF u \in Tab THEN f ELSE flash
  BY DEF respond
<1>2. /\ shown(flash) \in Seq(Form) /\ Len(shown(flash)) = Len(forms)
      /\ \A g \in DOMAIN forms :
            shown(flash)[g].shown = IF g = flash THEN forms[g].shown + 1 ELSE forms[g].shown
  BY ShownKeeps, ShownCounts DEF Shapes
<1>3. /\ DOMAIN forms = 1 .. Len(forms) /\ forms \in Seq(Form)
      /\ f # 0 /\ f # flash /\ forms[f].shown = 0
  BY DEF Shapes, FlashInv, waiting
<1>4. /\ known \in Seq(Form) /\ Len(known) = Len(forms) /\ known[f].shown = 0
      /\ \A g \in DOMAIN forms :
            /\ known[g].shown \in 0 .. 1 /\ known[g].told = forms[g].told
            /\ ~keyPage => known[g].shown = forms[g].shown
            /\ forms[g].told = "nothing" => known[g].shown = 0
  <2>1. CASE keyPage
    <3>1. \A g \in DOMAIN forms : known[g].told = forms[g].told
      BY <2>1, ShownKeeps DEF Shapes
    <3>2. \A g \in DOMAIN forms :
            known[g].shown = IF g = flash THEN forms[g].shown + 1 ELSE forms[g].shown
      BY <1>2, <2>1
    <3> QED
      BY <1>2, <1>3, <2>1, <3>1, <3>2 DEF FlashInv
  <2>2. CASE ~keyPage
    BY <1>3, <2>2 DEF FlashInv
  <2> QED
    BY <2>1, <2>2
<1> HIDE DEF known, keyPage
<1>5. known[f] \in Form /\ DOMAIN known = DOMAIN forms /\ f \in DOMAIN known
  BY <1>3, <1>4
<1>6. forms' = [known EXCEPT ![f] = [[known[f] EXCEPT !.told = told] EXCEPT !.stage = stage]]
  BY <1>1, <1>5
<1>7. /\ forms'[f].told = told /\ forms'[f].shown = known[f].shown
      /\ DOMAIN forms' = DOMAIN forms
      /\ \A g \in DOMAIN forms : g # f => forms'[g] = known[g]
  BY <1>5, <1>6 DEF Form
<1>8. \A g \in DOMAIN forms' :
         /\ forms'[g].shown \in 0 .. 1
         /\ forms'[g].told = "nothing" => forms'[g].shown = 0
  BY <1>4, <1>7
<1>9. \A g \in DOMAIN forms' : g = flash' => forms'[g].shown = 0
  BY <1>1, <1>3, <1>4, <1>7 DEF FlashInv
<1>10. flash' # 0 => forms'[flash'].told # "nothing"
  <2>1. CASE flash' = f
    BY <2>1, <1>7
  <2>2. CASE flash' = flash /\ flash # 0
    BY <2>2, <1>3, <1>4, <1>7 DEF FlashInv, Shapes
  <2> QED
    BY <2>1, <2>2, <1>1
<1> QED
  BY <1>8, <1>9, <1>10 DEF FlashInv

\* Every step keeps the cookie about an answered request that was not yet shown.
LEMMA FlashStep == AdminInv /\ FlashInv /\ [Next]_vars => FlashInv'
<1> SUFFICES ASSUME Shapes, FlashInv, [Next]_vars PROVE FlashInv'
  BY DEF AdminInv
<1>1. CASE UNCHANGED <<flash, forms>>
  BY <1>1 DEF FlashInv
<1>2. ASSUME NEW u \in User, NEW v \in 0 .. policy.version, get(u, v) PROVE FlashInv'
  <2>1. UNCHANGED <<flash, forms>> \/ (forms' = shown(flash) /\ flash' = 0)
    BY <1>2 DEF get
  <2> QED
    BY <2>1, <1>1, FlashTaken
<1>3. ASSUME NEW u \in User, NEW op \in Operation, NEW i \in 0 .. MaxForms, NEW b \in BOOLEAN,
             submit(u, op, i, b)
      PROVE  FlashInv'
  <2> DEFINE new == proposed(u, op, i, b)
  <2>1. new.told = "nothing" /\ new.shown = 0
    BY DEF proposed
  <2>2. forms' = Append(forms, new) /\ flash' = flash
    BY <1>3 DEF submit, cookies
  <2> HIDE DEF new
  <2>3. /\ DOMAIN forms = 1 .. Len(forms) /\ DOMAIN forms' = 1 .. Len(forms) + 1
        /\ Len(forms) \in Nat /\ flash \in 0 .. Len(forms)
        /\ forms'[Len(forms) + 1] = new /\ \A f \in DOMAIN forms : forms'[f] = forms[f]
    BY <2>2 DEF Shapes
  <2>4. \A f \in DOMAIN forms' : f \in DOMAIN forms \/ forms'[f] = new
    BY <2>3
  <2>5. flash # 0 => flash \in DOMAIN forms
    BY <2>3
  <2> QED
    BY <2>1, <2>2, <2>3, <2>4, <2>5 DEF FlashInv
<1>4. ASSUME NEW f \in DOMAIN forms, unavailable(f) PROVE FlashInv'
  <2>1. forms[f] \in Form
    BY DEF Shapes
  <2>2. forms[f].stage \in Stage /\ "unavailable" \in Told \ {"nothing"}
    BY <2>1 DEF Form, Told
  <2> QED
    BY <1>4, <2>2, RespondFlash DEF unavailable
<1>5. ASSUME NEW f \in DOMAIN forms, apply(f) PROVE FlashInv'
  <2> DEFINE stage == IF accepted(forms[f]) THEN "applied" ELSE "rejected"
  <2>1. stage \in Stage /\ stage \in Told \ {"nothing"}
    BY DEF Stage, Told
  <2>2. IF waiting(f) THEN respond(f, stage, stage)
        ELSE forms' = [forms EXCEPT ![f].stage = stage] /\ UNCHANGED <<flash, screen>>
    BY <1>5 DEF apply
  <2> HIDE DEF stage
  <2>3. CASE waiting(f)
    BY <2>1, <2>2, <2>3, RespondFlash
  <2>4. CASE ~waiting(f)
    <3>1. forms[f] \in Form /\ forms \in Seq(Form)
      BY DEF Shapes
    <3>2. forms' = [forms EXCEPT ![f] = [forms[f] EXCEPT !.stage = stage]] /\ flash' = flash
      BY <2>2, <2>4
    <3>3. /\ DOMAIN forms' = DOMAIN forms
          /\ \A g \in DOMAIN forms :
                forms'[g].told = forms[g].told /\ forms'[g].shown = forms[g].shown
      BY <3>1, <3>2 DEF Form
    <3>4. flash # 0 => flash \in DOMAIN forms
      BY DEF Shapes
    <3> QED
      BY <3>2, <3>3, <3>4 DEF FlashInv
  <2> QED
    BY <2>3, <2>4
<1>6. CASE \/ \E t \in Tab : loginPost(t) \/ logoutPost(t)
           \/ expire
           \/ \E u \in User : turnedAway(u)
           \/ UNCHANGED vars
  BY <1>1, <1>6 DEF loginPost, logoutPost, expire, turnedAway, vars, cookies
<1> QED
  BY <1>2, <1>3, <1>4, <1>5, <1>6 DEF Next

\* An outcome is shown on a page at most once, whatever else the browser's cookies are
\* used for in between (setFlash, takeFlash).
THEOREM FlashShownOnce == Spec => []FlashIsOneShot
<1>1. Init => FlashInv
  BY DEF Init, FlashInv
<1>2. Spec => []FlashInv
  BY <1>1, FlashStep, AdminInvariant, PTL DEF Spec
<1>3. FlashInv => FlashIsOneShot
  BY DEF FlashInv, FlashIsOneShot
<1> QED
  BY <1>2, <1>3, PTL
=============================================================================

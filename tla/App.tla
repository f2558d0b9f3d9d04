-------------------------------- MODULE App --------------------------------
(* The shell of the single-page application (App.tsx): the session it hears  *)
(* of from Supabase, the user it loads, the route and the active workspace,  *)
(* and the handlers of the layout and of the pages that load the user again. *)
(* Every call goes through authFetch (lib/api.ts), which answers a 401 with  *)
(* one token refresh, one retry and else a local sign-out. The handler that  *)
(* a first render gave to Supabase's listener keeps that render's state.     *)
EXTENDS Naturals, FiniteSets

CONSTANTS
    Tenants,    \* workspaces
    None,       \* no workspace, no user
    MaxNet,     \* bound: calls out at once
    MaxUser     \* bound: what the user, Supabase's timers and the network's faults do

ASSUME ShellAssumption == MaxUser \in Nat

VARIABLES
    account,    \* the server's truth about the one account
    auth,       \* Supabase's session in this browser: "none", "stale", "fresh"
    app,        \* App's state, with the route that the address bar shows too
    past,       \* routes in the history of this page
    hint,       \* localStorage's active workspace
    calls,      \* calls out
    left        \* what of that may still happen (bound)

vars == <<account, auth, app, past, hint, calls, left>>

Statuses == {"pending", "plan_active", "complete"}
Routes   == {"root", "admin", "invite"} \cup Tenants
Users    == [status : Statuses, tenants : SUBSET Tenants]

(* A call to /me, or one that a page follows with a call to /me. "was" is    *)
(* the active workspace of the render that made it, "token" what it carries, *)
(* "tried" whether it is the retry, "answer" what came back.                 *)
Calls ==
    [op : {"me", "create", "drop", "redeem", "onboard"}, was : Tenants \cup {None},
     at : Tenants \cup {None}, token : {"none", "stale", "fresh"}, tried : BOOLEAN,
     answer : {"", "ok", "refused", "failed"}, me : Users \cup {None}]

TypeOK ==
    /\ account \in [alive : BOOLEAN, status : Statuses, tenants : SUBSET Tenants]
    /\ auth \in {"none", "stale", "fresh"}
    /\ app \in [boot : 0 .. 2, session : BOOLEAN, user : Users \cup {None},
                loading : BOOLEAN, route : Routes, active : Tenants \cup {None},
                first : Tenants \cup {None}]
    /\ past \subseteq Routes
    /\ hint \in Tenants \cup {None}
    /\ calls \subseteq Calls
    /\ left \in 0 .. MaxUser

(* "first" is the active workspace of the first render. *)
Init ==
    /\ account \in [alive : {TRUE}, status : Statuses, tenants : SUBSET Tenants]
    /\ auth \in {"none", "stale", "fresh"}
    /\ hint \in Tenants \cup {None}
    /\ \E r \in Routes :
          app = [boot |-> 2, session |-> FALSE, user |-> None, loading |-> TRUE,
                 route |-> r, active |-> hint, first |-> hint]
    /\ past = {}
    /\ calls = {}
    /\ left = MaxUser

-----------------------------------------------------------------------------
(* Calls and the session. *)

Call(op, was, at, token) ==
    [op |-> op, was |-> was, at |-> at, token |-> token, tried |-> FALSE,
     answer |-> "", me |-> None]

LoadUser(was, token) == {Call("me", was, None, token)}

Room == Cardinality(calls) < MaxNet

UserActs == left > 0 /\ left' = left - 1

\* Mutant: the end of a session forgets the user only.
Heard_UserOnly(a, token) ==
    IF token # "none" THEN [a EXCEPT !.session = TRUE]
    ELSE [a EXCEPT !.user = None, !.loading = FALSE]

(* What a session, or its end, does to the state. *)
Heard(a, token) ==
    IF token # "none" THEN [a EXCEPT !.session = TRUE]
    ELSE [a EXCEPT !.session = FALSE, !.user = None, !.loading = FALSE]

LoadsFor(token) == IF token = "none" THEN {} ELSE LoadUser(app.first, token)

(* getSession's promise and the listener's first event. *)
Boot ==
    /\ app.boot > 0 /\ Room
    /\ app' = [Heard(app, auth) EXCEPT !.boot = @ - 1]
    /\ calls' = calls \cup LoadsFor(auth)
    /\ UNCHANGED <<account, auth, past, hint, left>>

(* Supabase refreshes a token by its own timer, or tells of the session anew *)
(* when the tab is looked at again.                                          *)
AuthEvent ==
    /\ UserActs /\ Room
    /\ app.boot = 0 /\ auth # "none"
    /\ auth' = "fresh"
    /\ app' = Heard(app, "fresh")
    /\ calls' = calls \cup LoadsFor("fresh")
    /\ UNCHANGED <<account, past, hint>>

Expire ==
    /\ UserActs
    /\ auth = "fresh"
    /\ auth' = "stale"
    /\ UNCHANGED <<account, app, past, hint, calls>>

-----------------------------------------------------------------------------
(* What is drawn. *)

Page ==
    IF app.loading THEN "loading"
    ELSE IF app.route = "invite" THEN "invite"
    ELSE IF ~app.session THEN "landing"
    ELSE IF app.route # "root" THEN "page"
    ELSE IF app.user = None THEN "pending"
    ELSE app.user.status

Inside == Page \notin {"loading", "invite", "landing"}

Default(tenants) == IF tenants = {} THEN None ELSE CHOOSE t \in tenants : TRUE

\* Mutant: a user without a workspace is taken to one all the same.
Loaded_Nowhere(me, was) ==
    LET a    == [app EXCEPT !.user = me, !.loading = FALSE]
        home == IF was # None THEN was ELSE Default(me.tenants)
    IN  IF a.route \in Tenants THEN [a EXCEPT !.active = a.route]
        ELSE [a EXCEPT !.active = home,
                       !.route = IF @ = "root" /\ me.status = "complete" THEN home ELSE @]

(* loadUser's answer: the address decides the active workspace, then the     *)
(* hint of the render that asked, then the default; a complete user at "/"   *)
(* is taken to a workspace.                                                  *)
Loaded(me, was) ==
    LET a       == [app EXCEPT !.user = me, !.loading = FALSE]
        default == Default(me.tenants)
        home    == IF was # None THEN was ELSE default
        active  == IF was = None \/ was \notin me.tenants THEN default ELSE a.active
    IN  IF a.route \in Tenants THEN [a EXCEPT !.active = a.route]
        ELSE IF default = None THEN a
        ELSE [a EXCEPT !.active = active,
                       !.route = IF @ = "root" /\ me.status = "complete" THEN home ELSE @]

\* Mutant: a failed /me leaves the loading screen.
Unloaded_Loading == [app EXCEPT !.user = None]

Unloaded == [app EXCEPT !.user = None, !.loading = FALSE]

-----------------------------------------------------------------------------
(* Moving about. *)

Goto(a, route) ==
    /\ app' = [a EXCEPT !.route = route]
    /\ past' = past \cup {app.route}

Home ==
    IF app.user # None /\ app.user.status = "complete" /\ app.active # None
    THEN app.active ELSE "root"

GoHome ==
    /\ UserActs
    /\ Inside
    /\ Goto(app, Home)
    /\ UNCHANGED <<account, auth, hint, calls>>

(* onPop: only the route follows the address bar. *)
Back ==
    /\ UserActs
    /\ \E r \in past \ {app.route} : Goto(app, r)
    /\ UNCHANGED <<account, auth, hint, calls>>

Selected(a, t) == [a EXCEPT !.active = t]

SelectTenant ==
    /\ UserActs
    /\ Inside /\ app.user # None
    /\ \E t \in app.user.tenants :
          Goto(Selected(app, t), t) /\ hint' = t
    /\ UNCHANGED <<account, auth, calls>>

SignOut ==
    /\ UserActs
    /\ Inside
    /\ auth' = "none"
    /\ app' = Heard(app, "none")
    /\ UNCHANGED <<account, past, hint, calls>>

(* With a password, on the landing page, without leaving this page. *)
SignIn ==
    /\ UserActs /\ Room
    /\ Page = "landing"
    /\ auth' = "fresh"
    /\ app' = Heard(app, "fresh")
    /\ calls' = calls \cup LoadsFor("fresh")
    /\ UNCHANGED <<account, past, hint>>

-----------------------------------------------------------------------------
(* What the pages do that ends in refreshUser. *)

(* A workspace is created by the switcher or the drawer, dropped by the      *)
(* settings tab; a coupon is redeemed and the onboarding form sent at "/".   *)
Offers(op) ==
    \/ op = "create" /\ Inside /\ app.user # None /\ app.user.tenants # {}
    \/ op = "drop" /\ Inside /\ app.route \in Tenants
    \/ op = "redeem" /\ Page = "pending"
    \/ op = "onboard" /\ Page = "plan_active"

PageCall ==
    /\ UserActs /\ Room
    /\ \E op \in {"create", "drop", "redeem", "onboard"} :
          /\ Offers(op)
          /\ calls' = calls \cup
                {Call(op, app.active, IF op = "drop" THEN app.route ELSE None, auth)}
    /\ UNCHANGED <<account, auth, app, past, hint>>

(* The answer calls the refreshUser of the render that sent the call; one    *)
(* then selects what was created, or leaves what was dropped for "/".        *)
PageAnswered(c) ==
    /\ c.op # "me" /\ c.answer = "ok"
    /\ calls' = (calls \ {c}) \cup LoadUser(c.was, auth)
    /\ \/ c.op = "create" /\ Goto(Selected(app, c.at), c.at) /\ hint' = c.at
       \/ c.op = "drop" /\ Goto(app, "root") /\ UNCHANGED hint
       \/ c.op \in {"redeem", "onboard"} /\ UNCHANGED <<app, past, hint>>
    /\ UNCHANGED <<account, auth, left>>

MeAnswered(c) ==
    /\ c.op = "me" /\ c.answer = "ok"
    /\ app' = Loaded(c.me, c.was)
    /\ calls' = calls \ {c}
    /\ UNCHANGED <<account, auth, past, hint, left>>

(* getMe throws and the user is forgotten; a page shows its error. *)
Thrown(c) == IF c.op = "me" THEN Unloaded ELSE app

Failed(c) ==
    /\ c.answer = "failed"
    /\ app' = Thrown(c)
    /\ calls' = calls \ {c}
    /\ UNCHANGED <<account, auth, past, hint, left>>

\* Mutant: the retry may be retried.
Retried_Again(c) ==
    /\ c.answer = "refused" /\ auth # "none"
    /\ auth' = "fresh"
    /\ app' = Heard(app, "fresh")
    /\ calls' = (calls \ {c}) \cup LoadsFor("fresh") \cup
                   {[c EXCEPT !.token = "fresh", !.tried = TRUE, !.answer = ""]}
    /\ UNCHANGED <<account, past, hint, left>>

(* 401: the token is refreshed, of which the listener hears too, and the     *)
(* call sent once more.                                                      *)
Retried(c) ==
    /\ c.answer = "refused" /\ ~c.tried /\ auth # "none"
    /\ auth' = "fresh"
    /\ app' = Heard(app, "fresh")
    /\ calls' = (calls \ {c}) \cup LoadsFor("fresh") \cup
                   {[c EXCEPT !.token = "fresh", !.tried = TRUE, !.answer = ""]}
    /\ UNCHANGED <<account, past, hint, left>>

(* 401 again, no session, or Supabase refuses: the session is dropped. *)
Revoked(c) ==
    /\ c.answer = "refused"
    /\ auth' = "none"
    /\ app' = Heard(Thrown(c), "none")
    /\ calls' = calls \ {c}
    /\ UNCHANGED <<account, past, hint, left>>

-----------------------------------------------------------------------------
(* The server. *)

Effect(c) ==
    CASE c.op = "create"  -> {[account EXCEPT !.tenants = @ \cup {t}] :
                                 t \in Tenants \ account.tenants}
      [] c.op = "drop"    -> {[account EXCEPT !.tenants = @ \ {c.at}]}
      [] c.op = "redeem"  -> {[account EXCEPT !.status = IF @ = "pending" THEN "plan_active" ELSE @]}
      [] c.op = "onboard" -> {[account EXCEPT !.status = "complete"]}
      [] OTHER            -> {account}

(* A workspace more than the bound, or one that is not the user's, is no.    *)
Fits(c) ==
    /\ c.op = "create" => account.tenants # Tenants
    /\ c.op = "drop" => c.at \in account.tenants

Handle(c) ==
    /\ c.answer = "" /\ c.token = "fresh" /\ account.alive /\ Fits(c)
    /\ account' \in Effect(c)
    /\ LET me  == [status |-> account'.status, tenants |-> account'.tenants]
           new == account'.tenants \ account.tenants
       IN  calls' = (calls \ {c}) \cup
              {[c EXCEPT !.answer = "ok",
                         !.me = IF c.op = "me" THEN me ELSE None,
                         !.at = IF c.op = "create" THEN CHOOSE t \in new : TRUE ELSE @]}
    /\ UNCHANGED <<auth, app, past, hint, left>>

Refuse(c) ==
    /\ c.answer = "" /\ (c.token # "fresh" \/ ~account.alive)
    /\ calls' = (calls \ {c}) \cup {[c EXCEPT !.answer = "refused"]}
    /\ UNCHANGED <<account, auth, app, past, hint, left>>

Reject(c) ==
    /\ c.answer = "" /\ ~Fits(c)
    /\ calls' = (calls \ {c}) \cup {[c EXCEPT !.answer = "failed"]}
    /\ UNCHANGED <<account, auth, app, past, hint, left>>

(* Lost there or on the way back, or a server's error. *)
Lose(c) ==
    /\ UserActs
    /\ c.answer \in {"", "ok"}
    /\ calls' = (calls \ {c}) \cup {[c EXCEPT !.answer = "failed", !.me = None, !.at = None]}
    /\ UNCHANGED <<account, auth, app, past, hint>>

(* An administrator deletes the account. *)
Delete ==
    /\ account.alive
    /\ account' = [account EXCEPT !.alive = FALSE]
    /\ UNCHANGED <<auth, app, past, hint, calls, left>>

-----------------------------------------------------------------------------
Serve == \E c \in calls : Handle(c) \/ Refuse(c) \/ Reject(c)

Arrive(c) == PageAnswered(c) \/ MeAnswered(c) \/ Failed(c) \/ Retried(c) \/ Revoked(c)

Bounded ==
    \/ AuthEvent \/ Expire \/ GoHome \/ Back \/ SelectTenant \/ SignOut \/ SignIn
    \/ PageCall \/ (\E c \in calls : Lose(c))

Quiet == calls = {} /\ app.boot = 0 /\ UNCHANGED vars

Next == Bounded \/ Boot \/ Serve \/ (\E c \in calls : Arrive(c)) \/ Delete \/ Quiet

Spec == Init /\ [][Next]_vars

(* Every call is handled, and what comes back is heard; faults are finitely  *)
(* many, for a network that loses every retry could go on for ever.          *)
FairSpec ==
    /\ Spec
    /\ WF_vars(Boot) /\ WF_vars(Serve)
    /\ WF_vars(\E c \in calls : c.tried /\ (Handle(c) \/ Refuse(c)))
    /\ WF_vars(\E c \in calls : c.tried /\ Arrive(c))
    /\ WF_vars(\E c \in calls : Arrive(c))

-----------------------------------------------------------------------------
(* "Loading" waits for the first session or for a user that is being loaded: *)
(* what BootEnds rests on.                                                   *)
BootHasCause == app.loading => app.boot > 0 \/ \E c \in calls : c.op = "me"

(* "Loading" ends, with whatever answers, refusals and losses.               *)
BootEnds == app.loading ~> ~app.loading

(* "Try a token refresh once": refusals do not chase each other. Each        *)
(* refresh makes the listener load the user again, which may be refused in   *)
(* its turn; even for a deleted account the calls come to an end.            *)
Settles == <>[](calls = {})

(* "The app re-renders the landing page": without a session nothing of the   *)
(* signed-in application is drawn, whatever late answers bring.              *)
LandingWhenOut == auth = "none" => ~Inside

(* Does not hold (README): "Don't override a URL-parsed active tenant from a *)
(* different route": on a route without a workspace, a user that is loaded   *)
(* leaves the active one alone as long as it is one of theirs.               *)
ActiveKept ==
    [][app.route \notin Tenants /\ app'.route = app.route
       /\ app'.user # None /\ app'.user # app.user /\ app.active \in app'.user.tenants
       => app'.active = app.active]_vars
=============================================================================

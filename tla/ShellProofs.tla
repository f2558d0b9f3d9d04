----------------------------- MODULE ShellProofs -----------------------------
(***************************************************************************)
(* Proofs about the application's shell and the superadmin's panel, for    *)
(* any workspaces, agents and bounds: without a session nothing of the     *)
(* signed-in application is drawn, what is in progress in the panel has    *)
(* its cause, the panel is never blank, and every loading screen has       *)
(* something out that will end it.                                         *)
(***************************************************************************)
EXTENDS MCShell, TLAPS

USE ShellAssumption, PanelAssumption

----------------------------------------------------------------------------
(* The shell                                                               *)

Accounts == [alive : BOOLEAN, status : Statuses, tenants : SUBSET Tenants]

Tokens == {"none", "stale", "fresh"}

Apps == [boot : 0 .. 2, session : BOOLEAN, user : Users \cup {None}, loading : BOOLEAN,
         route : Routes, active : Tenants \cup {None}, first : Tenants \cup {None}]

\* A /me that was answered brings the user, a creation the workspace.
Sound(c) ==
    /\ c \in Calls
    /\ c.op = "me" /\ c.answer = "ok" => c.me \in Users
    /\ c.op = "create" /\ c.answer = "ok" => c.at \in Tenants

\* The session that App knows of is one that the browser has.
Signed == app.session => auth # "none"

ShellInv ==
    /\ account \in Accounts /\ auth \in Tokens /\ app \in Apps /\ past \subseteq Routes
    /\ hint \in Tenants \cup {None} /\ left \in 0 .. MaxUser
    /\ \A c \in calls : Sound(c)
    /\ Signed

\* What a session or its end does to App's state.
LEMMA HeardFields ==
    ASSUME NEW a \in Apps, NEW token
    PROVE  /\ Heard(a, token) \in Apps /\ Heard(a, token).boot = a.boot
           /\ Heard(a, token).session => token # "none"
BY DEF Heard, Apps

\* A call as it is made.
LEMMA CallSound ==
    ASSUME NEW op \in {"me", "create", "drop", "redeem", "onboard"},
           NEW was \in Tenants \cup {None}, NEW at \in Tenants \cup {None},
           NEW token \in Tokens
    PROVE  Sound(Call(op, was, at, token))
<1> DEFINE c == Call(op, was, at, token)
<1>1. c \in Calls /\ c.answer = ""
  BY DEF Call, Calls, Tokens
<1> HIDE DEF c
<1>2. Sound(c)
  BY <1>1 DEF Sound
<1>3. QED
  BY <1>2 DEF c

\* The calls that a session heard of makes.
LEMMA LoadsSound ==
    ASSUME ShellInv, NEW token \in Tokens, NEW was \in Tenants \cup {None}
    PROVE  /\ \A c \in LoadUser(was, token) : Sound(c)
           /\ \A c \in LoadsFor(token) : Sound(c)
<1>1. app.first \in Tenants \cup {None}
  BY DEF ShellInv, Apps
<1>2. QED
  BY <1>1, CallSound DEF LoadUser, LoadsFor

\* The user's budget, and that of timers and faults, stays in its bounds.
LEMMA UserLeft ==
    ASSUME left \in 0 .. MaxUser, UserActs
    PROVE  left' \in 0 .. MaxUser
BY DEF UserActs

\* The session is told of: by the first promise, a timer, a sign-in.
LEMMA SessionKeeps ==
    ASSUME ShellInv, Boot \/ AuthEvent \/ Expire \/ SignOut \/ SignIn
    PROVE  ShellInv'
<1>1. /\ account \in Accounts /\ auth \in Tokens /\ app \in Apps
      /\ left' \in 0 .. MaxUser /\ UNCHANGED <<account, past, hint>>
  BY UserLeft DEF ShellInv, Boot, AuthEvent, Expire, SignOut, SignIn
<1>2. CASE Boot
  <2> DEFINE a == Heard(app, auth)
  <2>1. /\ app' = [a EXCEPT !.boot = @ - 1] /\ app.boot > 0
        /\ UNCHANGED auth /\ calls' = calls \cup LoadsFor(auth)
    BY <1>2 DEF Boot
  <2>2. a \in Apps /\ a.boot = app.boot /\ (a.session => auth # "none")
    BY <1>1, HeardFields
  <2> HIDE DEF a
  <2>3. a.boot \in 0 .. 2 /\ a.boot > 0
    BY <2>1, <2>2 DEF Apps
  <2>4. a.boot - 1 \in 0 .. 2
    BY <2>3
  <2>5. app' \in Apps /\ app'.session = a.session
    BY <2>1, <2>2, <2>4 DEF Apps
  <2>6. \A c \in calls' : Sound(c)
    BY <1>1, <2>1, LoadsSound DEF ShellInv
  <2>7. QED
    BY <1>1, <2>1, <2>2, <2>5, <2>6 DEF ShellInv, Signed
<1>3. CASE AuthEvent \/ SignIn
  <2>1. /\ app' = Heard(app, "fresh") /\ auth' = "fresh"
        /\ calls' = calls \cup LoadsFor("fresh")
    BY <1>3 DEF AuthEvent, SignIn
  <2>2. app' \in Apps
    BY <1>1, <2>1, HeardFields
  <2>3. \A c \in calls' : Sound(c)
    BY <2>1, LoadsSound DEF ShellInv, Tokens
  <2>4. QED
    BY <1>1, <2>1, <2>2, <2>3 DEF ShellInv, Signed, Tokens
<1>4. CASE Expire
  <2>1. auth' = "stale" /\ UNCHANGED <<app, calls>>
    BY <1>4 DEF Expire
  <2>2. QED
    BY <1>1, <2>1 DEF ShellInv, Signed, Tokens
<1>5. CASE SignOut
  <2>1. app' = Heard(app, "none") /\ auth' = "none" /\ UNCHANGED calls
    BY <1>5 DEF SignOut
  <2>2. app' \in Apps /\ ~app'.session
    BY <1>1, <2>1, HeardFields DEF Apps
  <2>3. QED
    BY <1>1, <2>1, <2>2 DEF ShellInv, Signed, Tokens
<1>6. QED
  BY <1>2, <1>3, <1>4, <1>5

\* A route that the user goes to.
LEMMA GotoFields ==
    ASSUME app \in Apps, past \subseteq Routes, NEW a \in Apps, NEW r \in Routes, Goto(a, r)
    PROVE  app' \in Apps /\ app'.session = a.session /\ past' \subseteq Routes
BY DEF Goto, Apps

\* Moving about the application: the session is not touched.
LEMMA MoveKeeps ==
    ASSUME ShellInv, GoHome \/ Back \/ SelectTenant
    PROVE  ShellInv'
<1>1. /\ account \in Accounts /\ auth \in Tokens /\ app \in Apps /\ past \subseteq Routes
      /\ left' \in 0 .. MaxUser /\ UNCHANGED <<account, auth, calls>>
  BY UserLeft DEF ShellInv, GoHome, Back, SelectTenant
<1>2. CASE GoHome
  <2>1. Home \in Routes
    BY <1>1 DEF Home, Routes, Apps
  <2>2. Goto(app, Home) /\ UNCHANGED hint
    BY <1>2 DEF GoHome
  <2>3. QED
    BY <1>1, <2>1, <2>2, GotoFields DEF ShellInv, Signed
<1>3. CASE Back
  <2>1. (\E r \in Routes : Goto(app, r)) /\ UNCHANGED hint
    BY <1>1, <1>3 DEF Back
  <2>2. QED
    BY <1>1, <2>1, GotoFields DEF ShellInv, Signed
<1>4. CASE SelectTenant
  <2>1. PICK t \in app.user.tenants : Goto(Selected(app, t), t) /\ hint' = t
    BY <1>4 DEF SelectTenant
  <2>2. app.user # None
    BY <1>4 DEF SelectTenant
  <2>3. t \in Tenants
    BY <1>1, <2>1, <2>2 DEF Apps, Users
  <2>4. Selected(app, t) \in Apps /\ Selected(app, t).session = app.session /\ t \in Routes
    BY <1>1, <2>3 DEF Selected, Apps, Routes
  <2>5. QED
    BY <1>1, <2>1, <2>3, <2>4, GotoFields DEF ShellInv, Signed
<1>5. QED
  BY <1>2, <1>3, <1>4

\* A page calls.
LEMMA PageCallKeeps ==
    ASSUME ShellInv, PageCall
    PROVE  ShellInv'
<1>1. UserActs /\ UNCHANGED <<account, auth, app, past, hint>>
  BY DEF PageCall
<1>2. PICK op \in {"create", "drop", "redeem", "onboard"} :
          /\ Offers(op)
          /\ calls' = calls \cup
                {Call(op, app.active, IF op = "drop" THEN app.route ELSE None, auth)}
  BY DEF PageCall
<1> DEFINE at == IF op = "drop" THEN app.route ELSE None
<1>3. at \in Tenants \cup {None}
  BY <1>2 DEF Offers
<1>4. app.active \in Tenants \cup {None} /\ auth \in Tokens
  BY DEF ShellInv, Apps
<1> HIDE DEF at
<1>5. Sound(Call(op, app.active, at, auth))
  BY <1>3, <1>4, CallSound
<1>6. calls' = calls \cup {Call(op, app.active, at, auth)}
  BY <1>2 DEF at
<1>7. QED
  BY <1>1, <1>5, <1>6, UserLeft DEF ShellInv, Signed

\* The account the server knows of stays one, and a workspace is created when
\* there is room for it.
LEMMA EffectTyped ==
    ASSUME account \in Accounts, NEW c, Sound(c), NEW a \in Effect(c)
    PROVE  /\ a \in Accounts
           /\ c.op = "create" => \E t \in Tenants : t \in a.tenants \ account.tenants
<1>1. c \in Calls
  BY DEF Sound
<1>2. CASE c.op = "create"
  <2>1. PICK t \in Tenants \ account.tenants : a = [account EXCEPT !.tenants = @ \cup {t}]
    BY <1>2 DEF Effect
  <2>2. a \in Accounts /\ a.tenants = account.tenants \cup {t}
    BY <2>1 DEF Accounts
  <2>3. QED
    BY <2>1, <2>2
<1>3. CASE c.op = "drop"
  <2>1. a = [account EXCEPT !.tenants = @ \ {c.at}]
    BY <1>3 DEF Effect
  <2>2. QED
    BY <1>3, <2>1 DEF Accounts
<1>4. CASE c.op = "redeem"
  <2>1. a = [account EXCEPT !.status = IF @ = "pending" THEN "plan_active" ELSE @]
    BY <1>4 DEF Effect
  <2>2. QED
    BY <1>4, <2>1 DEF Accounts, Statuses
<1>5. CASE c.op = "onboard"
  <2>1. a = [account EXCEPT !.status = "complete"]
    BY <1>5 DEF Effect
  <2>2. QED
    BY <1>5, <2>1 DEF Accounts, Statuses
<1>6. CASE c.op = "me"
  BY <1>6 DEF Effect
<1>7. QED
  BY <1>1, <1>2, <1>3, <1>4, <1>5, <1>6 DEF Calls

\* The server's handling of a call, with its answer.
LEMMA HandleKeeps ==
    ASSUME ShellInv, NEW c \in calls, Handle(c)
    PROVE  ShellInv'
<1> DEFINE me   == [status |-> account'.status, tenants |-> account'.tenants]
           new  == account'.tenants \ account.tenants
           told == IF c.op = "me" THEN me ELSE None
           at   == IF c.op = "create" THEN CHOOSE t \in new : TRUE ELSE c.at
           q    == [c EXCEPT !.answer = "ok", !.me = told, !.at = at]
<1>1. /\ account' \in Effect(c) /\ UNCHANGED <<auth, app, past, hint, left>>
      /\ calls' = (calls \ {c}) \cup {q}
  BY DEF Handle
<1>2. /\ account \in Accounts /\ Sound(c) /\ c \in Calls
      /\ c.at \in Tenants \cup {None}
  BY DEF ShellInv, Sound, Calls
<1>3. /\ account' \in Accounts
      /\ c.op = "create" => \E t \in Tenants : t \in new
  BY <1>1, <1>2, EffectTyped
<1>4. me \in Users
  <2>1. account'.status \in Statuses /\ account'.tenants \in SUBSET Tenants
    BY <1>3 DEF Accounts
  <2>2. QED
    BY <2>1 DEF Users
<1> HIDE DEF me
<1>5. told \in Users \cup {None} /\ (c.op = "me" => told \in Users)
  BY <1>4
<1>6. at \in Tenants \cup {None} /\ (c.op = "create" => at \in Tenants)
  <2>1. CASE c.op = "create"
    <3>1. new \subseteq Tenants /\ \E t \in new : TRUE
      BY <1>3, <2>1 DEF Accounts
    <3> HIDE DEF new
    <3>2. (CHOOSE t \in new : TRUE) \in new
      BY <3>1
    <3>3. QED
      BY <2>1, <3>1, <3>2
  <2>2. CASE c.op # "create"
    BY <1>2, <2>2
  <2>3. QED
    BY <2>1, <2>2
<1> HIDE DEF told, at
<1>7. q \in Calls /\ q.op = c.op /\ q.me = told /\ q.at = at
  BY <1>2, <1>5, <1>6 DEF Calls
<1> HIDE DEF q
<1>8. Sound(q)
  BY <1>5, <1>6, <1>7 DEF Sound
<1>9. QED
  BY <1>1, <1>3, <1>8 DEF ShellInv, Signed

\* A call that the server refuses, rejects or never answers.
LEMMA RefusalKeeps ==
    ASSUME ShellInv, NEW c \in calls, Refuse(c) \/ Reject(c) \/ Lose(c)
    PROVE  ShellInv'
<1>1. UNCHANGED <<account, auth, app, past, hint>> /\ left' \in 0 .. MaxUser
  BY UserLeft DEF ShellInv, Refuse, Reject, Lose
<1>2. c \in Calls
  BY DEF ShellInv, Sound
<1>3. CASE Refuse(c) \/ Reject(c)
  <2>1. PICK told \in {"refused", "failed"} :
            calls' = (calls \ {c}) \cup {[c EXCEPT !.answer = told]}
    BY <1>3 DEF Refuse, Reject
  <2> DEFINE q == [c EXCEPT !.answer = told]
  <2>2. q \in Calls /\ q.answer # "ok"
    BY <1>2 DEF Calls
  <2>3. calls' = (calls \ {c}) \cup {q}
    BY <2>1
  <2> HIDE DEF q
  <2>4. QED
    BY <1>1, <2>2, <2>3 DEF ShellInv, Sound, Signed
<1>4. CASE Lose(c)
  <2> DEFINE q == [c EXCEPT !.answer = "failed", !.me = None, !.at = None]
  <2>1. calls' = (calls \ {c}) \cup {q}
    BY <1>4 DEF Lose
  <2>2. q \in Calls /\ q.answer # "ok"
    BY <1>2 DEF Calls
  <2> HIDE DEF q
  <2>3. QED
    BY <1>1, <2>1, <2>2 DEF ShellInv, Sound, Signed
<1>5. QED
  BY <1>3, <1>4

\* The account is deleted by an administrator.
LEMMA DeletedKeeps ==
    ASSUME ShellInv, Delete
    PROVE  ShellInv'
BY DEF ShellInv, Delete, Accounts, Signed

\* A page hears that what it asked for was done.
LEMMA PageAnsweredKeeps ==
    ASSUME ShellInv, NEW c \in calls, PageAnswered(c)
    PROVE  ShellInv'
<1>1. /\ c.answer = "ok" /\ UNCHANGED <<account, auth, left>>
      /\ calls' = (calls \ {c}) \cup LoadUser(c.was, auth)
      /\ \/ c.op = "create" /\ Goto(Selected(app, c.at), c.at) /\ hint' = c.at
         \/ c.op = "drop" /\ Goto(app, "root") /\ UNCHANGED hint
         \/ c.op \in {"redeem", "onboard"} /\ UNCHANGED <<app, past, hint>>
  BY DEF PageAnswered
<1>2. /\ Sound(c) /\ c.was \in Tenants \cup {None} /\ auth \in Tokens
      /\ app \in Apps /\ past \subseteq Routes /\ hint \in Tenants \cup {None}
  BY DEF ShellInv, Sound, Calls
<1>3. \A q \in calls' : Sound(q)
  BY <1>1, <1>2, LoadsSound DEF ShellInv
<1>4. /\ app' \in Apps /\ app'.session = app.session /\ past' \subseteq Routes
      /\ hint' \in Tenants \cup {None}
  <2>1. CASE c.op = "create"
    <3>1. Goto(Selected(app, c.at), c.at) /\ hint' = c.at
      BY <1>1, <2>1
    <3>2. c.at \in Tenants
      BY <1>1, <1>2, <2>1 DEF Sound
    <3>3. /\ Selected(app, c.at) \in Apps /\ Selected(app, c.at).session = app.session
          /\ c.at \in Routes
      BY <1>2, <3>2 DEF Selected, Apps, Routes
    <3>4. QED
      BY <1>2, <3>1, <3>2, <3>3, GotoFields
  <2>2. CASE c.op = "drop"
    <3>1. "root" \in Routes
      BY DEF Routes
    <3>2. QED
      BY <1>1, <1>2, <2>2, <3>1, GotoFields
  <2>3. CASE c.op \in {"redeem", "onboard"}
    BY <1>1, <1>2, <2>3
  <2>4. QED
    BY <1>1, <2>1, <2>2, <2>3
<1>5. QED
  BY <1>1, <1>3, <1>4 DEF ShellInv, Signed

\* The user loaded: where the address leads, the hint of the call, a default.
LEMMA LoadedFields ==
    ASSUME app \in Apps, NEW me \in Users, NEW was \in Tenants \cup {None}
    PROVE  Loaded(me, was) \in Apps /\ Loaded(me, was).session = app.session
<1> DEFINE a       == [app EXCEPT !.user = me, !.loading = FALSE]
           default == Default(me.tenants)
           home    == IF was # None THEN was ELSE default
           active  == IF was = None \/ was \notin me.tenants THEN default ELSE a.active
           goes    == IF a.route = "root" /\ me.status = "complete" THEN home ELSE a.route
<1>1. a \in Apps /\ a.session = app.session /\ a.active \in Tenants \cup {None}
  BY DEF Apps
<1>2. default # None => default \in Tenants
  <2>1. me.tenants \subseteq Tenants
    BY DEF Users
  <2>2. CASE me.tenants = {}
    BY <2>2 DEF Default
  <2>3. CASE me.tenants # {}
    <3>1. (CHOOSE t \in me.tenants : TRUE) \in me.tenants
      BY <2>3
    <3>2. QED
      BY <2>1, <2>3, <3>1 DEF Default
  <2>4. QED
    BY <2>2, <2>3
<1>3. Loaded(me, was) = IF a.route \in Tenants THEN [a EXCEPT !.active = a.route]
                        ELSE IF default = None THEN a
                        ELSE [a EXCEPT !.active = active, !.route = goes]
  BY DEF Loaded
<1> HIDE DEF a, default
<1>4. CASE a.route \in Tenants
  <2>1. Loaded(me, was) = [a EXCEPT !.active = a.route]
    BY <1>3, <1>4
  <2>2. QED
    BY <1>1, <1>4, <2>1 DEF Apps
<1>5. CASE a.route \notin Tenants /\ default = None
  BY <1>1, <1>3, <1>5
<1>6. CASE a.route \notin Tenants /\ default # None
  <2>1. Loaded(me, was) = [a EXCEPT !.active = active, !.route = goes]
    BY <1>3, <1>6
  <2>2. active \in Tenants \cup {None} /\ home \in Tenants /\ default \in Tenants
    BY <1>1, <1>2, <1>6
  <2>3. goes \in Routes
    BY <1>1, <2>2 DEF Apps, Routes
  <2> HIDE DEF active, goes
  <2>4. QED
    BY <1>1, <2>1, <2>2, <2>3 DEF Apps
<1>7. QED
  BY <1>4, <1>5, <1>6

\* Whatever else comes back: the user, an error, a refusal.
LEMMA AnswerKeeps ==
    ASSUME ShellInv, NEW c \in calls, MeAnswered(c) \/ Failed(c) \/ Retried(c) \/ Revoked(c)
    PROVE  ShellInv'
<1>1. UNCHANGED <<account, past, hint, left>>
  BY DEF MeAnswered, Failed, Retried, Revoked
<1>2. /\ Sound(c) /\ c \in Calls /\ c.was \in Tenants \cup {None} /\ auth \in Tokens
      /\ app \in Apps
  BY DEF ShellInv, Sound, Calls
<1>3. Thrown(c) \in Apps /\ Thrown(c).session = app.session
  BY <1>2 DEF Thrown, Unloaded, Apps
<1>4. CASE MeAnswered(c)
  <2>1. /\ app' = Loaded(c.me, c.was) /\ calls' = calls \ {c} /\ UNCHANGED auth
        /\ c.op = "me" /\ c.answer = "ok"
    BY <1>4 DEF MeAnswered
  <2>2. c.me \in Users
    BY <1>2, <2>1 DEF Sound
  <2>3. app' \in Apps /\ app'.session = app.session
    BY <1>2, <2>1, <2>2, LoadedFields
  <2>4. QED
    BY <1>1, <2>1, <2>3 DEF ShellInv, Signed
<1>5. CASE Failed(c)
  <2>1. app' = Thrown(c) /\ calls' = calls \ {c} /\ UNCHANGED auth
    BY <1>5 DEF Failed
  <2>2. QED
    BY <1>1, <1>3, <2>1 DEF ShellInv, Signed
<1>6. CASE Retried(c)
  <2> DEFINE q == [c EXCEPT !.token = "fresh", !.tried = TRUE, !.answer = ""]
  <2>1. /\ app' = Heard(app, "fresh") /\ auth' = "fresh"
        /\ calls' = (calls \ {c}) \cup LoadsFor("fresh") \cup {q}
    BY <1>6 DEF Retried
  <2>2. q \in Calls /\ q.answer = ""
    BY <1>2 DEF Calls
  <2> HIDE DEF q
  <2>3. Sound(q)
    BY <2>2 DEF Sound
  <2>4. app' \in Apps
    BY <1>2, <2>1, HeardFields
  <2>5. \A d \in LoadsFor("fresh") : Sound(d)
    BY LoadsSound DEF Tokens
  <2>6. QED
    BY <1>1, <2>1, <2>3, <2>4, <2>5 DEF ShellInv, Signed, Tokens
<1>7. CASE Revoked(c)
  <2>1. app' = Heard(Thrown(c), "none") /\ auth' = "none" /\ calls' = calls \ {c}
    BY <1>7 DEF Revoked
  <2>2. app' \in Apps /\ ~app'.session
    BY <1>3, <2>1, HeardFields DEF Apps
  <2>3. QED
    BY <1>1, <2>1, <2>2 DEF ShellInv, Signed, Tokens
<1>8. QED
  BY <1>4, <1>5, <1>6, <1>7

\* A step elsewhere leaves the shell as it is.
LEMMA ShellStutters ==
    ASSUME ShellInv, UNCHANGED vars
    PROVE  ShellInv'
BY DEF vars, ShellInv, Signed

\* Every step of the shell keeps it.
LEMMA ShellNext ==
    ASSUME ShellInv, Next
    PROVE  ShellInv'
<1>1. CASE Bounded
  BY <1>1, SessionKeeps, MoveKeeps, PageCallKeeps, RefusalKeeps DEF Bounded
<1>2. CASE Serve
  BY <1>2, HandleKeeps, RefusalKeeps DEF Serve
<1>3. CASE \E c \in calls : Arrive(c)
  BY <1>3, PageAnsweredKeeps, AnswerKeeps DEF Arrive
<1>4. CASE Quiet
  BY <1>4, ShellStutters DEF Quiet
<1>5. QED
  BY <1>1, <1>2, <1>3, <1>4, SessionKeeps, DeletedKeeps DEF Next

\* The shell starts with a session unheard of and nothing out.
LEMMA ShellStarts ==
    ASSUME Init
    PROVE  ShellInv
<1>1. /\ auth \in Tokens /\ hint \in Tenants \cup {None}
      /\ past = {} /\ calls = {} /\ left \in 0 .. MaxUser
  BY DEF Init, Tokens
<1>2. account \in Accounts
  BY DEF Init, Accounts
<1>3. PICK r \in Routes :
          app = [boot |-> 2, session |-> FALSE, user |-> None, loading |-> TRUE,
                 route |-> r, active |-> hint, first |-> hint]
  BY DEF Init
<1>4. app \in Apps /\ ~app.session
  BY <1>1, <1>3 DEF Apps
<1>5. QED
  BY <1>1, <1>2, <1>4 DEF ShellInv, Signed

\* What the shell promises follows: the landing page shows without a session.
LEMMA ShellPromises ==
    ASSUME ShellInv
    PROVE  TypeOK /\ LandingWhenOut
<1>1. calls \subseteq Calls
  BY DEF ShellInv, Sound
<1>2. TypeOK
  BY <1>1 DEF ShellInv, Accounts, Tokens, Apps, TypeOK
<1>3. LandingWhenOut
  BY DEF ShellInv, Signed, LandingWhenOut, Inside, Page
<1>4. QED
  BY <1>2, <1>3

----------------------------------------------------------------------------
(* The superadmin's panel                                                  *)

Admins ==
    [loading : BOOLEAN, known : BOOLEAN, error : BOOLEAN, rows : SUBSET Agents,
     tab : {"agents", "users", "coupons"}, selected : Agents \cup {None},
     detail : Agents \cup {None}, deleting : Agents \cup {None}, confirmed : BOOLEAN,
     deletingNow : BOOLEAN, switching : Agents \cup {None}, switchingNow : BOOLEAN]

TabStates ==
    [grant : Agents \cup {None}, granting : BOOLEAN, loading : BOOLEAN,
     create : {"off", "blank", "sent", "made"}]

\* An agent is deleted, or given another model, by its name.
Named(n) == \A r \in n : r.op \in {"delete", "switch"} => r.agent # None

DeleteCaused(a, n) ==
    a.deletingNow => \/ \E r \in n : r.op = "delete" /\ r.agent = a.deleting
                     \/ \E r \in n : r.op = "reload" /\ r.ends = "delete"

SwitchCaused(a, n) ==
    a.switchingNow => \/ \E r \in n : r.op = "switch" /\ r.agent = a.switching
                      \/ \E r \in n : r.op = "reload" /\ r.ends = "switch"

Drawable(a) == a.loading \/ a.error \/ a.known

\* A panel, its tab and its requests that fit one another.
Fit(a, t, n) ==
    /\ a \in Admins /\ t \in TabStates /\ n \subseteq Admin!Requests /\ Named(n)
    /\ DeleteCaused(a, n) /\ SwitchCaused(a, n) /\ Drawable(a)

AdminInv == server \subseteq Agents /\ aLeft \in 0 .. AdminUser /\ Fit(admin, tab, net)

\* A request as it is sent.
LEMMA SentFields ==
    ASSUME NEW op \in Admin!Ops, NEW agent \in Agents \cup {None}
    PROVE  /\ Admin!Sent(op, agent) \in Admin!Requests
           /\ Admin!Sent(op, agent).op = op /\ Admin!Sent(op, agent).agent = agent
BY DEF Admin!Sent, Admin!Requests

\* A request that nobody hears any longer.
LEMMA DeadFields ==
    ASSUME NEW r \in Admin!Requests, NEW q, q = [r EXCEPT !.alive = FALSE]
    PROVE  q \in Admin!Requests /\ q.op = r.op /\ q.agent = r.agent /\ q.ends = r.ends
BY DEF Admin!Requests

\* The same requests, heard or not.
Same(n, m) ==
    /\ \A r \in n : \E q \in m : q.op = r.op /\ q.agent = r.agent /\ q.ends = r.ends
    /\ \A q \in m : q \in Admin!Requests
                    /\ \E r \in n : q.op = r.op /\ q.agent = r.agent /\ q.ends = r.ends

\* What fits does not depend on who hears the requests.
LEMMA FitSame ==
    ASSUME NEW a, NEW t, NEW n, NEW m, Fit(a, t, n), Same(n, m)
    PROVE  Fit(a, t, m)
BY DEF Fit, Same, Named, DeleteCaused, SwitchCaused

\* One more request that names its agent if it must.
LEMMA FitMore ==
    ASSUME NEW a, NEW t, NEW n, NEW q \in Admin!Requests, Fit(a, t, n),
           q.op \in {"delete", "switch"} => q.agent # None
    PROVE  Fit(a, t, n \cup {q})
BY DEF Fit, Named, DeleteCaused, SwitchCaused

\* A request that nothing in progress waits for may go.
LEMMA FitLess ==
    ASSUME NEW a, NEW t, NEW n, NEW r, Fit(a, t, n), r.op \notin {"delete", "switch", "reload"}
    PROVE  Fit(a, t, n \ {r})
BY DEF Fit, Named, DeleteCaused, SwitchCaused

\* The tab's state is its own.
LEMMA FitTab ==
    ASSUME NEW a, NEW t, NEW u \in TabStates, NEW n, Fit(a, t, n)
    PROVE  Fit(a, u, n)
BY DEF Fit

\* A panel with the same modals, or fewer of them in progress.
LEMMA FitAdmin ==
    ASSUME NEW a, NEW b \in Admins, NEW t, NEW n, Fit(a, t, n), Drawable(b),
           b.deletingNow => a.deletingNow, b.deleting = a.deleting,
           b.switchingNow => a.switchingNow, b.switching = a.switching
    PROVE  Fit(b, t, n)
BY DEF Fit, DeleteCaused, SwitchCaused

\* A tab just mounted.
LEMMA FreshTyped == Admin!Fresh \in TabStates
BY DEF Admin!Fresh, TabStates

\* Some requests turned to answer nobody are the same requests.
LEMMA TurnedSame ==
    ASSUME NEW n, n \subseteq Admin!Requests, NEW P,
           NEW m, m = {IF r.op = P THEN [r EXCEPT !.alive = FALSE] ELSE r : r \in n}
    PROVE  Same(n, m)
<1> DEFINE turned(r) == IF r.op = P THEN [r EXCEPT !.alive = FALSE] ELSE r
<1>1. \A r \in n : /\ turned(r) \in Admin!Requests /\ turned(r).op = r.op
                   /\ turned(r).agent = r.agent /\ turned(r).ends = r.ends
  BY DeadFields
<1>2. m = {turned(r) : r \in n}
  OBVIOUS
<1> HIDE DEF turned
<1>3. QED
  BY <1>1, <1>2 DEF Same

\* What a handler leaves fits, and so does what is drawn of it.
LEMMA Rendered ==
    ASSUME NEW a, NEW t, NEW n, Fit(a, t, n), Admin!Render(a, t, n)
    PROVE  Fit(admin, tab, net)'
<1> DEFINE stays == Admin!Drawn(a) /\ Admin!Drawn(admin) /\ a.tab = admin.tab
           comes == Admin!Drawn(a) /\ ~stays
           dead  == {[r EXCEPT !.alive = FALSE] : r \in n}
           old   == IF stays THEN n ELSE dead
           s     == Admin!Sent("coupons", None)
           b     == [a EXCEPT !.confirmed = @ /\ Admin!Drawn(a)]
<1>1. /\ admin' = b /\ tab' = IF stays THEN t ELSE Admin!Fresh
      /\ net' = old \cup (IF comes /\ a.tab = "coupons" THEN {s} ELSE {})
  BY DEF Admin!Render
<1>2. a \in Admins /\ t \in TabStates /\ n \subseteq Admin!Requests /\ Drawable(a)
  BY DEF Fit
<1>3. Same(n, n)
  BY <1>2 DEF Same
<1>4. Same(n, dead)
  <2>1. \A r \in n : /\ [r EXCEPT !.alive = FALSE] \in Admin!Requests
                     /\ [r EXCEPT !.alive = FALSE].op = r.op
                     /\ [r EXCEPT !.alive = FALSE].agent = r.agent
                     /\ [r EXCEPT !.alive = FALSE].ends = r.ends
    BY <1>2, DeadFields
  <2>2. QED
    BY <2>1 DEF Same
<1>5. Fit(a, t, old)
  BY <1>3, <1>4, FitSame
<1>6. s \in Admin!Requests /\ s.op = "coupons"
  BY SentFields DEF Admin!Ops
<1> HIDE DEF stays, comes, dead, old, s
<1>7. Fit(a, t, net')
  BY <1>1, <1>5, <1>6, FitMore
<1>8. Fit(a, tab', net')
  BY <1>1, <1>2, <1>7, FreshTyped, FitTab
<1>9. /\ b \in Admins /\ b.deletingNow = a.deletingNow /\ b.deleting = a.deleting
      /\ b.switchingNow = a.switchingNow /\ b.switching = a.switching
      /\ b.loading = a.loading /\ b.error = a.error /\ b.known = a.known
  BY <1>2 DEF Admins
<1> HIDE DEF b
<1>10. Fit(b, tab', net')
  BY <1>2, <1>8, <1>9, FitAdmin DEF Drawable
<1>11. QED
  BY <1>1, <1>10

\* A reload, with the modal that awaits it: it becomes the modal's cause.
LEMMA ReloadFits ==
    ASSUME NEW a \in Admins, NEW t \in TabStates, NEW n, n \subseteq Admin!Requests,
           Named(n), NEW ends \in {"", "delete", "switch"},
           DeleteCaused(a, n) \/ ends = "delete", SwitchCaused(a, n) \/ ends = "switch",
           Admin!Reload(a, t, n, ends)
    PROVE  Fit(admin, tab, net)'
<1> DEFINE s == Admin!Sent("reload", None)
           q == [s EXCEPT !.ends = ends]
           b == [a EXCEPT !.loading = TRUE, !.error = FALSE]
<1>1. Admin!Render(b, t, n \cup {q})
  BY DEF Admin!Reload
<1>2. s \in Admin!Requests /\ s.op = "reload"
  <2>1. "reload" \in Admin!Ops
    BY DEF Admin!Ops
  <2> HIDE DEF q, b
  <2>2. QED
    BY <2>1, SentFields
<1> HIDE DEF s
<1>3. q \in Admin!Requests /\ q.op = "reload" /\ q.ends = ends
  BY <1>2 DEF Admin!Requests
<1>4. /\ b \in Admins /\ b.deletingNow = a.deletingNow /\ b.deleting = a.deleting
      /\ b.switchingNow = a.switchingNow /\ b.switching = a.switching /\ b.loading
  BY DEF Admins
<1> HIDE DEF q, b
<1>5. DeleteCaused(b, n \cup {q})
  BY <1>3, <1>4 DEF DeleteCaused
<1>6. SwitchCaused(b, n \cup {q})
  BY <1>3, <1>4 DEF SwitchCaused
<1>7. Fit(b, t, n \cup {q})
  BY <1>3, <1>4, <1>5, <1>6 DEF Fit, Named, Drawable
<1>8. QED
  BY <1>1, <1>7, Rendered

\* The administrator's budget stays in its bounds.
LEMMA AdminLeft ==
    ASSUME AdminInv, Admin!UserActs
    PROVE  aLeft' \in 0 .. AdminUser
<1>1. aLeft \in 0 .. AdminUser
  BY DEF AdminInv
<1>2. aLeft > 0 /\ aLeft' = aLeft - 1
  BY DEF Admin!UserActs
<1>3. QED
  BY <1>1, <1>2

\* The parts of what fits.
LEMMA AdminParts ==
    ASSUME AdminInv
    PROVE  /\ server \subseteq Agents /\ admin \in Admins /\ tab \in TabStates
           /\ net \subseteq Admin!Requests /\ Named(net) /\ DeleteCaused(admin, net)
           /\ SwitchCaused(admin, net) /\ Drawable(admin) /\ Fit(admin, tab, net)
BY DEF AdminInv, Fit

\* The overview is loaded again, or another tab shown.
LEMMA TabKeeps ==
    ASSUME AdminInv, Admin!Refresh \/ Admin!ShowTab
    PROVE  AdminInv'
<1>1. Admin!UserActs /\ UNCHANGED server
  BY DEF Admin!Refresh, Admin!ShowTab
<1>2. Fit(admin, tab, net)'
  <2>1. CASE Admin!Refresh
    <3>1. Admin!Reload(admin, tab, net, "")
      BY <2>1 DEF Admin!Refresh
    <3>2. QED
      BY <3>1, AdminParts, ReloadFits
  <2>2. CASE Admin!ShowTab
    <3>1. PICK name \in Admin!Tabs : Admin!Render([admin EXCEPT !.tab = name], tab, net)
      BY <2>2 DEF Admin!ShowTab
    <3> DEFINE b == [admin EXCEPT !.tab = name]
    <3>2. /\ b \in Admins /\ b.deletingNow = admin.deletingNow /\ b.deleting = admin.deleting
          /\ b.switchingNow = admin.switchingNow /\ b.switching = admin.switching
          /\ b.loading = admin.loading /\ b.error = admin.error /\ b.known = admin.known
      BY <3>1, AdminParts DEF Admins, Admin!Tabs
    <3>3. Admin!Render(b, tab, net)
      BY <3>1
    <3> HIDE DEF b
    <3>4. Fit(b, tab, net)
      BY <3>2, AdminParts, FitAdmin DEF Drawable
    <3>5. QED
      BY <3>3, <3>4, Rendered
  <2>3. QED
    BY <2>1, <2>2
<1>3. QED
  BY <1>1, <1>2, AdminLeft, AdminParts DEF AdminInv

\* A modal opened, confirmed by typing, cancelled, a detail closed: nothing of
\* what is in progress is touched, and no modal opens over another.
LEMMA ModalKeeps ==
    ASSUME AdminInv, \/ Admin!CloseDetail \/ Admin!OpenDelete \/ Admin!TypeAgentId
                     \/ Admin!CancelDelete \/ Admin!OpenSwitch \/ Admin!CancelSwitch
    PROVE  AdminInv'
<1>1. UNCHANGED <<server, tab, net>> /\ aLeft' \in 0 .. AdminUser
  BY AdminLeft DEF AdminInv, Admin!CloseDetail, Admin!OpenDelete, Admin!TypeAgentId,
     Admin!CancelDelete, Admin!OpenSwitch, Admin!CancelSwitch
<1>2. /\ admin \in Admins /\ tab \in TabStates /\ net \subseteq Admin!Requests
      /\ Named(net) /\ DeleteCaused(admin, net) /\ SwitchCaused(admin, net)
      /\ Drawable(admin) /\ Fit(admin, tab, net)
  BY AdminParts
<1>3. CASE Admin!CloseDetail
  <2>1. admin' = [admin EXCEPT !.selected = None, !.detail = None]
    BY <1>3 DEF Admin!CloseDetail
  <2>2. /\ admin' \in Admins /\ admin'.deletingNow = admin.deletingNow
        /\ admin'.deleting = admin.deleting /\ admin'.switchingNow = admin.switchingNow
        /\ admin'.switching = admin.switching /\ admin'.loading = admin.loading
        /\ admin'.error = admin.error /\ admin'.known = admin.known
    BY <1>2, <2>1 DEF Admins
  <2>3. Fit(admin', tab, net)
    BY <1>2, <2>2, FitAdmin DEF Drawable
  <2>4. QED
    BY <1>1, <2>3 DEF AdminInv
<1>4. CASE Admin!OpenDelete
  <2>1. PICK a \in admin.rows : admin' = [admin EXCEPT !.deleting = a, !.confirmed = FALSE]
    BY <1>4 DEF Admin!OpenDelete
  <2>2. admin.deleting = None
    BY <1>4 DEF Admin!OpenDelete, Admin!OnAgents, Admin!Covered
  <2>3. a \in Agents
    BY <1>2, <2>1 DEF Admins
  <2>4. /\ admin' \in Admins /\ admin'.deletingNow = admin.deletingNow
        /\ admin'.switchingNow = admin.switchingNow
        /\ admin'.switching = admin.switching /\ admin'.loading = admin.loading
        /\ admin'.error = admin.error /\ admin'.known = admin.known
    BY <1>2, <2>1, <2>3 DEF Admins
  <2>5. DeleteCaused(admin', net)
    BY <1>2, <2>2, <2>4 DEF DeleteCaused, Named
  <2>6. Fit(admin', tab, net)
    BY <1>2, <2>4, <2>5 DEF Fit, SwitchCaused, Drawable
  <2>7. QED
    BY <1>1, <2>6 DEF AdminInv
<1>5. CASE Admin!TypeAgentId
  <2>1. admin' = [admin EXCEPT !.confirmed = TRUE]
    BY <1>5 DEF Admin!TypeAgentId
  <2>2. /\ admin' \in Admins /\ admin'.deletingNow = admin.deletingNow
        /\ admin'.deleting = admin.deleting /\ admin'.switchingNow = admin.switchingNow
        /\ admin'.switching = admin.switching /\ admin'.loading = admin.loading
        /\ admin'.error = admin.error /\ admin'.known = admin.known
    BY <1>2, <2>1 DEF Admins
  <2>3. Fit(admin', tab, net)
    BY <1>2, <2>2, FitAdmin DEF Drawable
  <2>4. QED
    BY <1>1, <2>3 DEF AdminInv
<1>6. CASE Admin!CancelDelete
  <2>1. admin' = [admin EXCEPT !.deleting = None, !.confirmed = FALSE] /\ ~admin.deletingNow
    BY <1>6 DEF Admin!CancelDelete
  <2>2. /\ admin' \in Admins /\ ~admin'.deletingNow
        /\ admin'.switchingNow = admin.switchingNow
        /\ admin'.switching = admin.switching /\ admin'.loading = admin.loading
        /\ admin'.error = admin.error /\ admin'.known = admin.known
    BY <1>2, <2>1 DEF Admins
  <2>3. Fit(admin', tab, net)
    BY <1>2, <2>2 DEF Fit, DeleteCaused, SwitchCaused, Drawable
  <2>4. QED
    BY <1>1, <2>3 DEF AdminInv
<1>7. CASE Admin!OpenSwitch
  <2>1. PICK a \in admin.rows : admin' = [admin EXCEPT !.switching = a]
    BY <1>7 DEF Admin!OpenSwitch
  <2>2. admin.switching = None
    BY <1>7 DEF Admin!OpenSwitch, Admin!OnAgents, Admin!Covered
  <2>3. a \in Agents
    BY <1>2, <2>1 DEF Admins
  <2>4. /\ admin' \in Admins /\ admin'.deletingNow = admin.deletingNow
        /\ admin'.deleting = admin.deleting /\ admin'.switchingNow = admin.switchingNow
        /\ admin'.loading = admin.loading
        /\ admin'.error = admin.error /\ admin'.known = admin.known
    BY <1>2, <2>1, <2>3 DEF Admins
  <2>5. SwitchCaused(admin', net)
    BY <1>2, <2>2, <2>4 DEF SwitchCaused, Named
  <2>6. Fit(admin', tab, net)
    BY <1>2, <2>4, <2>5 DEF Fit, DeleteCaused, Drawable
  <2>7. QED
    BY <1>1, <2>6 DEF AdminInv
<1>8. CASE Admin!CancelSwitch
  <2>1. admin' = [admin EXCEPT !.switching = None] /\ ~admin.switchingNow
    BY <1>8 DEF Admin!CancelSwitch
  <2>2. /\ admin' \in Admins /\ admin'.deletingNow = admin.deletingNow
        /\ admin'.deleting = admin.deleting /\ ~admin'.switchingNow
        /\ admin'.loading = admin.loading
        /\ admin'.error = admin.error /\ admin'.known = admin.known
    BY <1>2, <2>1 DEF Admins
  <2>3. Fit(admin', tab, net)
    BY <1>2, <2>2 DEF Fit, DeleteCaused, SwitchCaused, Drawable
  <2>4. QED
    BY <1>1, <2>3 DEF AdminInv
<1>9. QED
  BY <1>3, <1>4, <1>5, <1>6, <1>7, <1>8

\* A request that nothing in progress depends on goes out.
LEMMA SendKeeps ==
    ASSUME AdminInv, NEW op \in Admin!Ops \ {"delete", "switch"},
           NEW agent \in Agents \cup {None}, net' = net \cup {Admin!Sent(op, agent)},
           UNCHANGED <<server, admin>>, tab' \in TabStates, Admin!UserActs
    PROVE  AdminInv'
<1> DEFINE q == Admin!Sent(op, agent)
<1>1. q \in Admin!Requests /\ q.op = op
  BY SentFields
<1>2. net' = net \cup {q}
  OBVIOUS
<1> HIDE DEF q
<1>3. Fit(admin, tab, net')
  BY <1>1, <1>2, AdminParts, FitMore
<1>4. Fit(admin, tab', net')
  BY <1>3, FitTab
<1>5. QED
  BY <1>4, AdminLeft, AdminParts DEF AdminInv

\* The details of an agent are asked for.
LEMMA SelectKeeps ==
    ASSUME AdminInv, Admin!SelectAgent
    PROVE  AdminInv'
<1>1. Admin!UserActs /\ UNCHANGED <<server, tab>>
  BY DEF Admin!SelectAgent
<1>2. PICK a \in admin.rows : /\ admin' = [admin EXCEPT !.selected = a]
                              /\ net' = net \cup {Admin!Sent("detail", a)}
  BY DEF Admin!SelectAgent
<1>3. a \in Agents /\ admin \in Admins
  BY <1>2, AdminParts DEF Admins
<1> DEFINE q == Admin!Sent("detail", a)
<1>4. q \in Admin!Requests /\ q.op = "detail"
  BY <1>3, SentFields DEF Admin!Ops
<1>5. net' = net \cup {q}
  BY <1>2
<1> HIDE DEF q
<1>6. Fit(admin, tab, net')
  BY <1>4, <1>5, AdminParts, FitMore
<1>7. /\ admin' \in Admins /\ admin'.deletingNow = admin.deletingNow
      /\ admin'.deleting = admin.deleting /\ admin'.switchingNow = admin.switchingNow
      /\ admin'.switching = admin.switching /\ admin'.loading = admin.loading
      /\ admin'.error = admin.error /\ admin'.known = admin.known
  BY <1>2, <1>3 DEF Admins
<1>8. Fit(admin', tab, net')
  BY <1>6, <1>7, AdminParts, FitAdmin DEF Drawable
<1>9. QED
  BY <1>1, <1>8, AdminLeft, AdminParts DEF AdminInv

\* The deletion goes out, and is its modal's cause.
LEMMA ConfirmDeleteKeeps ==
    ASSUME AdminInv, Admin!ConfirmDelete
    PROVE  AdminInv'
<1> DEFINE q == Admin!Sent("delete", admin.deleting)
<1>1. /\ Admin!UserActs /\ UNCHANGED <<server, tab>> /\ admin.deleting # None
      /\ admin' = [admin EXCEPT !.deletingNow = TRUE] /\ net' = net \cup {q}
  BY DEF Admin!ConfirmDelete
<1>2. admin \in Admins /\ admin.deleting \in Agents \cup {None}
  BY AdminParts DEF Admins
<1>3. q \in Admin!Requests /\ q.op = "delete" /\ q.agent = admin.deleting
  BY <1>2, SentFields DEF Admin!Ops
<1> HIDE DEF q
<1>4. Fit(admin, tab, net')
  BY <1>1, <1>3, AdminParts, FitMore
<1>5. /\ admin' \in Admins /\ admin'.deleting = admin.deleting
      /\ admin'.switchingNow = admin.switchingNow
      /\ admin'.switching = admin.switching /\ admin'.loading = admin.loading
      /\ admin'.error = admin.error /\ admin'.known = admin.known
  BY <1>1, <1>2 DEF Admins
<1>6. DeleteCaused(admin', net')
  BY <1>1, <1>3, <1>5 DEF DeleteCaused
<1>7. Fit(admin', tab, net')
  BY <1>4, <1>5, <1>6 DEF Fit, SwitchCaused, Drawable
<1>8. QED
  BY <1>1, <1>7, AdminLeft, AdminParts DEF AdminInv

\* The switch goes out, and is its modal's cause.
LEMMA ConfirmSwitchKeeps ==
    ASSUME AdminInv, Admin!ConfirmSwitch
    PROVE  AdminInv'
<1> DEFINE q == Admin!Sent("switch", admin.switching)
<1>1. /\ Admin!UserActs /\ UNCHANGED <<server, tab>> /\ admin.switching # None
      /\ admin' = [admin EXCEPT !.switchingNow = TRUE] /\ net' = net \cup {q}
  BY DEF Admin!ConfirmSwitch
<1>2. admin \in Admins /\ admin.switching \in Agents \cup {None}
  BY AdminParts DEF Admins
<1>3. q \in Admin!Requests /\ q.op = "switch" /\ q.agent = admin.switching
  BY <1>2, SentFields DEF Admin!Ops
<1> HIDE DEF q
<1>4. Fit(admin, tab, net')
  BY <1>1, <1>3, AdminParts, FitMore
<1>5. /\ admin' \in Admins /\ admin'.switching = admin.switching
      /\ admin'.deletingNow = admin.deletingNow
      /\ admin'.deleting = admin.deleting /\ admin'.loading = admin.loading
      /\ admin'.error = admin.error /\ admin'.known = admin.known
  BY <1>1, <1>2 DEF Admins
<1>6. SwitchCaused(admin', net')
  BY <1>1, <1>3, <1>5 DEF SwitchCaused
<1>7. Fit(admin', tab, net')
  BY <1>4, <1>5, <1>6 DEF Fit, DeleteCaused, Drawable
<1>8. QED
  BY <1>1, <1>7, AdminLeft, AdminParts DEF AdminInv

\* A key rotated, a user promoted, a coupon switched on or off or created.
LEMMA RequestKeeps ==
    ASSUME AdminInv, Admin!RotateKey \/ Admin!Promote \/ Admin!Grant \/ Admin!ToggleCoupon
                     \/ Admin!CreateCoupon
    PROVE  AdminInv'
<1>1. Admin!UserActs /\ UNCHANGED <<server, admin>> /\ tab \in TabStates
  BY AdminParts DEF Admin!RotateKey, Admin!Promote, Admin!Grant, Admin!ToggleCoupon,
     Admin!CreateCoupon
<1>2. CASE Admin!RotateKey
  <2>1. PICK a \in admin.rows : net' = net \cup {Admin!Sent("rotate", a)}
    BY <1>2 DEF Admin!RotateKey
  <2>2. a \in Agents /\ "rotate" \in Admin!Ops \ {"delete", "switch"}
    BY <2>1, AdminParts DEF Admins, Admin!Ops
  <2>3. tab' \in TabStates
    BY <1>1, <1>2 DEF Admin!RotateKey
  <2>4. QED
    BY <1>1, <2>1, <2>2, <2>3, SendKeeps
<1>3. CASE Admin!Promote
  <2>1. "promote" \in Admin!Ops \ {"delete", "switch"}
    BY DEF Admin!Ops
  <2>2. net' = net \cup {Admin!Sent("promote", None)} /\ tab' \in TabStates
    BY <1>1, <1>3 DEF Admin!Promote
  <2>3. QED
    BY <1>1, <2>1, <2>2, SendKeeps
<1>4. CASE Admin!Grant
  <2>1. "grant" \in Admin!Ops \ {"delete", "switch"} /\ tab.grant \in Agents \cup {None}
    BY <1>1 DEF Admin!Ops, TabStates
  <2>2. /\ net' = net \cup {Admin!Sent("grant", tab.grant)}
        /\ tab' = [tab EXCEPT !.granting = TRUE]
    BY <1>4 DEF Admin!Grant
  <2>3. tab' \in TabStates
    BY <1>1, <2>2 DEF TabStates
  <2>4. QED
    BY <1>1, <2>1, <2>2, <2>3, SendKeeps
<1>5. CASE Admin!ToggleCoupon
  <2>1. "toggle" \in Admin!Ops \ {"delete", "switch"}
    BY DEF Admin!Ops
  <2>2. net' = net \cup {Admin!Sent("toggle", None)} /\ tab' \in TabStates
    BY <1>1, <1>5 DEF Admin!ToggleCoupon
  <2>3. QED
    BY <1>1, <2>1, <2>2, SendKeeps
<1>6. CASE Admin!CreateCoupon
  <2>1. "create" \in Admin!Ops \ {"delete", "switch"}
    BY DEF Admin!Ops
  <2>2. /\ net' = net \cup {Admin!Sent("create", None)}
        /\ tab' = [tab EXCEPT !.create = "sent"]
    BY <1>6 DEF Admin!CreateCoupon
  <2>3. tab' \in TabStates
    BY <1>1, <2>2 DEF TabStates
  <2>4. QED
    BY <1>1, <2>1, <2>2, <2>3, SendKeeps
<1>7. QED
  BY <1>2, <1>3, <1>4, <1>5, <1>6

\* The grant's modal opened or closed, the coupon form shown or hidden: only
\* who hears an answer changes.
LEMMA FormKeeps ==
    ASSUME AdminInv, Admin!OpenGrant \/ Admin!CloseGrant \/ Admin!ToggleForm
    PROVE  AdminInv'
<1>1. UNCHANGED <<server, admin>> /\ aLeft' \in 0 .. AdminUser
  BY AdminLeft DEF Admin!OpenGrant, Admin!CloseGrant, Admin!ToggleForm
<1>2. tab \in TabStates /\ net \subseteq Admin!Requests /\ admin \in Admins
  BY AdminParts
<1>3. tab' \in TabStates
  <2>1. CASE Admin!OpenGrant
    <3>1. PICK a \in admin.rows : tab' = [tab EXCEPT !.grant = a, !.granting = FALSE]
      BY <2>1 DEF Admin!OpenGrant
    <3>2. a \in Agents
      BY <1>2, <3>1 DEF Admins
    <3>3. QED
      BY <1>2, <3>1, <3>2 DEF TabStates
  <2>2. CASE Admin!CloseGrant
    BY <1>2, <2>2 DEF Admin!CloseGrant, TabStates
  <2>3. CASE Admin!ToggleForm
    BY <1>2, <2>3 DEF Admin!ToggleForm, TabStates
  <2>4. QED
    BY <2>1, <2>2, <2>3
<1>4. Same(net, net')
  <2>1. CASE Admin!OpenGrant
    BY <1>2, <2>1 DEF Admin!OpenGrant, Same
  <2>2. CASE Admin!CloseGrant
    <3>1. net' = {IF r.op = "grant" THEN [r EXCEPT !.alive = FALSE] ELSE r : r \in net}
      BY <2>2 DEF Admin!CloseGrant
    <3>2. QED
      BY <1>2, <3>1, TurnedSame
  <2>3. CASE Admin!ToggleForm
    <3>1. net' = {IF r.op = "create" THEN [r EXCEPT !.alive = FALSE] ELSE r : r \in net}
      BY <2>3 DEF Admin!ToggleForm, Admin!Forgotten
    <3>2. QED
      BY <1>2, <3>1, TurnedSame
  <2>4. QED
    BY <2>1, <2>2, <2>3
<1>5. Fit(admin, tab', net')
  BY <1>3, <1>4, AdminParts, FitSame, FitTab
<1>6. QED
  BY <1>1, <1>5, AdminParts DEF AdminInv

\* The coupons' list is loaded again, over the panel as it is.
LEMMA LoadCouponsFits ==
    ASSUME NEW t \in TabStates, NEW n, Fit(admin, t, n), Admin!LoadCoupons(t, n)
    PROVE  Fit(admin, tab, net)'
<1> DEFINE u == [t EXCEPT !.loading = TRUE, !.create = IF @ = "off" THEN "off" ELSE "blank"]
           s == Admin!Sent("coupons", None)
           m == Admin!Forgotten(n)
<1>1. Admin!Render(admin, u, m \cup {s})
  BY DEF Admin!LoadCoupons
<1>2. u \in TabStates
  BY DEF TabStates
<1> HIDE DEF u
<1>3. n \subseteq Admin!Requests
  BY DEF Fit
<1>4. m = {IF r.op = "create" THEN [r EXCEPT !.alive = FALSE] ELSE r : r \in n}
  BY DEF Admin!Forgotten
<1> HIDE DEF m
<1>5. Same(n, m)
  BY <1>3, <1>4, TurnedSame
<1>6. s \in Admin!Requests /\ s.op = "coupons"
  BY SentFields DEF Admin!Ops
<1> HIDE DEF s
<1>7. Fit(admin, u, m \cup {s})
  BY <1>2, <1>5, <1>6, FitSame, FitTab, FitMore
<1>8. QED
  BY <1>1, <1>7, Rendered

\* The code that was made is dismissed.
LEMMA DismissKeeps ==
    ASSUME AdminInv, Admin!DismissCreated
    PROVE  AdminInv'
<1>1. Admin!UserActs /\ UNCHANGED server
  BY DEF Admin!DismissCreated
<1> DEFINE off == [tab EXCEPT !.create = "off"]
           blank == [tab EXCEPT !.create = "blank"]
<1>2. Admin!LoadCoupons(off, net) \/ Admin!Render(admin, blank, net)
  BY DEF Admin!DismissCreated
<1>3. off \in TabStates /\ blank \in TabStates
  BY AdminParts DEF TabStates
<1> HIDE DEF off, blank
<1>4. Fit(admin, off, net) /\ Fit(admin, blank, net)
  BY <1>3, AdminParts, FitTab
<1>5. Fit(admin, tab, net)'
  BY <1>2, <1>3, <1>4, LoadCouponsFits, Rendered
<1>6. QED
  BY <1>1, <1>5, AdminLeft, AdminParts DEF AdminInv

\* A reload's answer: the modal that awaited it is free.
LEMMA ReloadedKeeps ==
    ASSUME AdminInv, NEW r \in net, Admin!Reloaded(r)
    PROVE  AdminInv'
<1> DEFINE a == IF r.answer = "failed" THEN [admin EXCEPT !.error = TRUE]
                ELSE [admin EXCEPT !.known = TRUE, !.rows = r.snap]
           b == [a EXCEPT !.loading = FALSE]
           c == [b EXCEPT !.deletingNow = @ /\ r.ends # "delete",
                          !.switchingNow = @ /\ r.ends # "switch"]
<1>1. /\ r.op = "reload" /\ UNCHANGED <<server, aLeft>>
      /\ Admin!Render(c, tab, net \ {r})
  BY DEF Admin!Reloaded, Admin!Awaited
<1>2. r \in Admin!Requests /\ r.snap \in SUBSET Agents /\ admin \in Admins
  BY AdminParts DEF Admin!Requests
<1>3. /\ a \in Admins /\ a.deletingNow = admin.deletingNow /\ a.deleting = admin.deleting
      /\ a.switchingNow = admin.switchingNow /\ a.switching = admin.switching
      /\ a.error \/ a.known
  <2>1. CASE r.answer = "failed"
    <3>1. a = [admin EXCEPT !.error = TRUE]
      BY <2>1
    <3>2. QED
      BY <1>2, <3>1 DEF Admins
  <2>2. CASE r.answer # "failed"
    <3>1. a = [admin EXCEPT !.known = TRUE, !.rows = r.snap]
      BY <2>2
    <3>2. QED
      BY <1>2, <3>1 DEF Admins
  <2>3. QED
    BY <2>1, <2>2
<1> HIDE DEF a
<1>4. /\ b \in Admins /\ b.deletingNow = a.deletingNow /\ b.deleting = a.deleting
      /\ b.switchingNow = a.switchingNow /\ b.switching = a.switching
      /\ b.error = a.error /\ b.known = a.known
  BY <1>3 DEF Admins
<1> HIDE DEF b
<1>5. /\ c \in Admins /\ c.deleting = b.deleting /\ c.switching = b.switching
      /\ c.deletingNow => b.deletingNow /\ r.ends # "delete"
      /\ c.switchingNow => b.switchingNow /\ r.ends # "switch"
      /\ c.error = b.error /\ c.known = b.known
  <2> DEFINE still == b.deletingNow /\ r.ends # "delete"
             yet   == b.switchingNow /\ r.ends # "switch"
  <2>1. c = [b EXCEPT !.deletingNow = still, !.switchingNow = yet]
    OBVIOUS
  <2>2. still \in BOOLEAN /\ yet \in BOOLEAN
    OBVIOUS
  <2> HIDE DEF c, still, yet
  <2>3. /\ c \in Admins /\ c.deleting = b.deleting /\ c.switching = b.switching
        /\ c.deletingNow = still /\ c.switchingNow = yet
        /\ c.error = b.error /\ c.known = b.known
    BY <1>4, <2>1, <2>2 DEF Admins
  <2>4. QED
    BY <2>3 DEF still, yet
<1> HIDE DEF c
<1>6. DeleteCaused(c, net \ {r})
  BY <1>1, <1>3, <1>4, <1>5, AdminParts DEF DeleteCaused
<1>7. SwitchCaused(c, net \ {r})
  BY <1>1, <1>3, <1>4, <1>5, AdminParts DEF SwitchCaused
<1>8. Fit(c, tab, net \ {r})
  BY <1>3, <1>4, <1>5, <1>6, <1>7, AdminParts DEF Fit, Named, Drawable
<1>9. QED
  BY <1>1, <1>8, Rendered DEF AdminInv

\* The details' answer, or its error.
LEMMA DetailKeeps ==
    ASSUME AdminInv, NEW r \in net, Admin!DetailAnswered(r)
    PROVE  AdminInv'
<1>1. /\ r.op = "detail" /\ net' = net \ {r} /\ UNCHANGED <<server, tab, aLeft>>
      /\ admin' = IF r.answer = "ok" THEN [admin EXCEPT !.detail = r.agent]
                  ELSE [admin EXCEPT !.error = TRUE]
  BY DEF Admin!DetailAnswered
<1>2. admin \in Admins /\ r.agent \in Agents \cup {None}
  BY AdminParts DEF Admin!Requests
<1>3. /\ admin' \in Admins /\ admin'.deletingNow = admin.deletingNow
      /\ admin'.deleting = admin.deleting /\ admin'.switchingNow = admin.switchingNow
      /\ admin'.switching = admin.switching /\ admin'.loading = admin.loading
      /\ admin'.known = admin.known /\ (admin.error => admin'.error)
  <2>1. CASE r.answer = "ok"
    <3>1. admin' = [admin EXCEPT !.detail = r.agent]
      BY <1>1, <2>1
    <3>2. QED
      BY <1>2, <3>1 DEF Admins
  <2>2. CASE r.answer # "ok"
    <3>1. admin' = [admin EXCEPT !.error = TRUE]
      BY <1>1, <2>2
    <3>2. QED
      BY <1>2, <3>1 DEF Admins
  <2>3. QED
    BY <2>1, <2>2
<1>4. Fit(admin, tab, net \ {r})
  BY <1>1, AdminParts, FitLess
<1>5. Fit(admin', tab, net \ {r})
  BY <1>3, <1>4, AdminParts, FitAdmin DEF Drawable
<1>6. QED
  BY <1>1, <1>5 DEF AdminInv

\* The deletion's answer: the modal goes and its reload is awaited, or stays.
LEMMA DeleteAnsweredKeeps ==
    ASSUME AdminInv, NEW r \in net, Admin!DeleteAnswered(r)
    PROVE  AdminInv'
<1> DEFINE gone == [admin EXCEPT !.deleting = None, !.confirmed = FALSE]
           free == [admin EXCEPT !.deletingNow = FALSE]
<1>1. /\ r.op = "delete" /\ UNCHANGED <<server, aLeft>>
      /\ \/ Admin!Reload(gone, tab, net \ {r}, "delete")
         \/ Admin!Render(free, tab, net \ {r})
  BY DEF Admin!DeleteAnswered
<1>2. /\ gone \in Admins /\ gone.switchingNow = admin.switchingNow
      /\ gone.switching = admin.switching
  BY AdminParts DEF Admins
<1>3. /\ free \in Admins /\ ~free.deletingNow /\ free.switchingNow = admin.switchingNow
      /\ free.switching = admin.switching /\ free.loading = admin.loading
      /\ free.error = admin.error /\ free.known = admin.known
  BY AdminParts DEF Admins
<1> HIDE DEF gone, free
<1>4. Named(net \ {r}) /\ net \ {r} \subseteq Admin!Requests
  BY AdminParts DEF Named
<1>5. SwitchCaused(gone, net \ {r}) /\ SwitchCaused(free, net \ {r})
  BY <1>1, <1>2, <1>3, AdminParts DEF SwitchCaused
<1>6. Fit(free, tab, net \ {r})
  BY <1>3, <1>4, <1>5, AdminParts DEF Fit, DeleteCaused, Drawable
<1>7. Fit(admin, tab, net)'
  <2>1. CASE Admin!Reload(gone, tab, net \ {r}, "delete")
    BY <1>2, <1>4, <1>5, <2>1, AdminParts, ReloadFits
  <2>2. CASE Admin!Render(free, tab, net \ {r})
    BY <1>6, <2>2, Rendered
  <2>3. QED
    BY <1>1, <2>1, <2>2
<1>8. QED
  BY <1>1, <1>7 DEF AdminInv

\* The switch's answer, likewise.
LEMMA SwitchAnsweredKeeps ==
    ASSUME AdminInv, NEW r \in net, Admin!SwitchAnswered(r)
    PROVE  AdminInv'
<1> DEFINE gone == [admin EXCEPT !.switching = None]
           free == [admin EXCEPT !.switchingNow = FALSE]
<1>1. /\ r.op = "switch" /\ UNCHANGED <<server, aLeft>>
      /\ \/ Admin!Reload(gone, tab, net \ {r}, "switch")
         \/ Admin!Render(free, tab, net \ {r})
  BY DEF Admin!SwitchAnswered
<1>2. /\ gone \in Admins /\ gone.deletingNow = admin.deletingNow
      /\ gone.deleting = admin.deleting
  BY AdminParts DEF Admins
<1>3. /\ free \in Admins /\ ~free.switchingNow /\ free.deletingNow = admin.deletingNow
      /\ free.deleting = admin.deleting /\ free.loading = admin.loading
      /\ free.error = admin.error /\ free.known = admin.known
  BY AdminParts DEF Admins
<1> HIDE DEF gone, free
<1>4. Named(net \ {r}) /\ net \ {r} \subseteq Admin!Requests
  BY AdminParts DEF Named
<1>5. DeleteCaused(gone, net \ {r}) /\ DeleteCaused(free, net \ {r})
  BY <1>1, <1>2, <1>3, AdminParts DEF DeleteCaused
<1>6. Fit(free, tab, net \ {r})
  BY <1>3, <1>4, <1>5, AdminParts DEF Fit, SwitchCaused, Drawable
<1>7. Fit(admin, tab, net)'
  <2>1. CASE Admin!Reload(gone, tab, net \ {r}, "switch")
    BY <1>2, <1>4, <1>5, <2>1, AdminParts, ReloadFits
  <2>2. CASE Admin!Render(free, tab, net \ {r})
    BY <1>6, <2>2, Rendered
  <2>3. QED
    BY <1>1, <2>1, <2>2
<1>8. QED
  BY <1>1, <1>7 DEF AdminInv

\* A reload that no modal awaits.
LEMMA PlainReload ==
    ASSUME NEW n, Fit(admin, tab, n), Admin!Reload(admin, tab, n, "")
    PROVE  Fit(admin, tab, net)'
BY ReloadFits DEF Fit

\* A rotation, a promotion or a grant answered: the last two may reload.
LEMMA ChangeAnsweredKeeps ==
    ASSUME AdminInv, NEW r \in net, Admin!RotatedOrPromoted(r) \/ Admin!GrantAnswered(r)
    PROVE  AdminInv'
<1> DEFINE u == [tab EXCEPT !.granting = @ /\ ~r.alive]
<1>1. /\ r.op \in {"rotate", "promote", "grant"} /\ UNCHANGED <<server, aLeft>>
      /\ \/ Admin!Reload(admin, tab, net \ {r}, "")
         \/ Admin!Render(admin, tab, net \ {r})
         \/ Admin!Render(admin, u, net \ {r})
  BY DEF Admin!RotatedOrPromoted, Admin!GrantAnswered
<1>2. u \in TabStates
  BY AdminParts DEF TabStates
<1> HIDE DEF u
<1>3. Fit(admin, tab, net \ {r}) /\ Fit(admin, u, net \ {r})
  BY <1>1, <1>2, AdminParts, FitLess, FitTab
<1>4. Fit(admin, tab, net)'
  BY <1>1, <1>3, PlainReload, Rendered
<1>5. QED
  BY <1>1, <1>4 DEF AdminInv

\* The coupons tab hears of its list, of a change, of a coupon it made.
LEMMA CouponsAnsweredKeeps ==
    ASSUME AdminInv, NEW r \in net, Admin!CouponsAnswered(r)
    PROVE  AdminInv'
<1> DEFINE listed == [tab EXCEPT !.loading = FALSE]
           end    == IF r.answer = "ok" THEN "made" ELSE "blank"
           made   == [tab EXCEPT !.create = end]
           n      == net \ {r}
<1>1. r.op \in {"coupons", "toggle", "create"} /\ UNCHANGED <<server, aLeft>>
  BY DEF Admin!CouponsAnswered
<1>2. \/ Admin!Render(admin, tab, n) \/ Admin!Render(admin, listed, n)
      \/ Admin!LoadCoupons(tab, n) \/ Admin!Render(admin, made, n)
  BY DEF Admin!CouponsAnswered
<1>3. listed \in TabStates /\ made \in TabStates /\ tab \in TabStates
  BY AdminParts DEF TabStates
<1> HIDE DEF listed, end, made
<1>4. Fit(admin, tab, n) /\ Fit(admin, listed, n) /\ Fit(admin, made, n)
  BY <1>1, <1>3, AdminParts, FitLess, FitTab
<1> HIDE DEF n
<1>5. Fit(admin, tab, net)'
  BY <1>2, <1>3, <1>4, LoadCouponsFits, Rendered
<1>6. QED
  BY <1>1, <1>5 DEF AdminInv

\* The server's side of the panel: the request is out still, with its answer.
LEMMA ServedKeeps ==
    ASSUME AdminInv, NEW r \in net, Admin!Handle(r) \/ Admin!Fail(r)
    PROVE  AdminInv'
<1>1. UNCHANGED <<admin, tab, aLeft>> /\ server' \subseteq Agents
  BY AdminParts DEF Admin!Handle, Admin!Fail
<1>2. PICK told \in {"ok", "failed"}, snap \in SUBSET Agents :
          net' = (net \ {r}) \cup {[r EXCEPT !.answer = told, !.snap = snap]}
  <2>1. CASE Admin!Handle(r)
    <3> DEFINE seen == IF r.op = "reload" THEN server' ELSE {}
    <3>1. net' = (net \ {r}) \cup {[r EXCEPT !.answer = "ok", !.snap = seen]}
      BY <2>1 DEF Admin!Handle
    <3>2. seen \in SUBSET Agents
      BY <1>1
    <3> HIDE DEF seen
    <3>3. QED
      BY <3>1, <3>2
  <2>2. CASE Admin!Fail(r)
    BY <2>2 DEF Admin!Fail
  <2>3. QED
    BY <2>1, <2>2
<1> DEFINE q == [r EXCEPT !.answer = told, !.snap = snap]
<1>3. r \in Admin!Requests /\ net \subseteq Admin!Requests
  BY AdminParts
<1>4. q \in Admin!Requests /\ q.op = r.op /\ q.agent = r.agent /\ q.ends = r.ends
  BY <1>3 DEF Admin!Requests
<1>5. net' = (net \ {r}) \cup {q}
  BY <1>2
<1> HIDE DEF q
<1>6. Same(net, net')
  BY <1>3, <1>4, <1>5 DEF Same
<1>7. Fit(admin, tab, net')
  BY <1>6, AdminParts, FitSame
<1>8. QED
  BY <1>1, <1>7 DEF AdminInv

\* A step elsewhere leaves the panel as it is.
LEMMA AdminStutters ==
    ASSUME AdminInv, UNCHANGED aVars
    PROVE  AdminInv'
BY DEF aVars, AdminInv

\* Every step of the panel keeps it.
LEMMA AdminNext ==
    ASSUME AdminInv, Admin!Next
    PROVE  AdminInv'
<1>1. CASE Admin!User
  BY <1>1, TabKeeps, SelectKeeps, ModalKeeps, ConfirmDeleteKeeps, ConfirmSwitchKeeps,
     RequestKeeps, FormKeeps, DismissKeeps DEF Admin!User
<1>2. CASE Admin!Serve
  BY <1>2, ServedKeeps DEF Admin!Serve
<1>3. CASE Admin!Arrive
  BY <1>3, ReloadedKeeps, DetailKeeps, DeleteAnsweredKeeps, SwitchAnsweredKeeps,
     ChangeAnsweredKeeps, CouponsAnsweredKeeps DEF Admin!Arrive
<1>4. CASE Admin!Quiet
  BY <1>4, AdminStutters DEF Admin!Quiet, Admin!vars, aVars
<1>5. QED
  BY <1>1, <1>2, <1>3, <1>4 DEF Admin!Next

\* The panel starts loading its overview, with no modal.
LEMMA AdminStarts ==
    ASSUME Admin!Init
    PROVE  AdminInv
<1> DEFINE q == Admin!Sent("reload", None)
<1>1. server \subseteq Agents /\ aLeft \in 0 .. AdminUser /\ tab = Admin!Fresh
  BY DEF Admin!Init
<1>2. /\ admin \in Admins /\ admin.loading /\ ~admin.deletingNow /\ ~admin.switchingNow
  BY DEF Admin!Init, Admins, Admin!Tabs
<1>3. net = {q}
  BY DEF Admin!Init
<1>4. q \in Admin!Requests /\ q.op = "reload"
  BY SentFields DEF Admin!Ops
<1> HIDE DEF q
<1>5. Fit(admin, tab, net)
  BY <1>1, <1>2, <1>3, <1>4, FreshTyped
     DEF Fit, Named, DeleteCaused, SwitchCaused, Drawable
<1>6. QED
  BY <1>1, <1>5 DEF AdminInv

\* What the panel promises follows.
LEMMA AdminPromises ==
    ASSUME AdminInv
    PROVE  Admin!TypeOK /\ ProgressHasCause /\ PanelNeverBlank
<1>1. Admin!TypeOK
  BY DEF AdminInv, Fit, Admins, TabStates, Admin!TypeOK, Admin!Tabs
<1>2. ProgressHasCause
  BY DEF AdminInv, Fit, DeleteCaused, SwitchCaused, ProgressHasCause,
         Admin!ProgressHasCause, Admin!Out
<1>3. PanelNeverBlank
  BY DEF AdminInv, Fit, Drawable, PanelNeverBlank, Admin!PanelNeverBlank
<1>4. QED
  BY <1>1, <1>2, <1>3

----------------------------------------------------------------------------
(* The two together                                                        *)

BothInv == ShellInv /\ AdminInv

\* A step works on one of the two and leaves the other as it is.
LEMMA BothNext ==
    ASSUME BothInv, [MCNext]_mcVars
    PROVE  BothInv'
<1>1. CASE InShell(Next)
  BY <1>1, ShellNext, AdminStutters DEF InShell, BothInv
<1>2. CASE InPanel(Admin!Next)
  BY <1>2, ShellStutters, AdminNext DEF InPanel, BothInv
<1>3. CASE UNCHANGED mcVars
  BY <1>3, ShellStutters, AdminStutters DEF mcVars, BothInv
<1>4. QED
  BY <1>1, <1>2, <1>3 DEF MCNext

\* Shell and panel are what they should be in every state.
LEMMA BothAlways == MCSpec => []BothInv
<1>1. MCInit => BothInv
  BY ShellStarts, AdminStarts DEF MCInit, BothInv
<1>2. BothInv /\ [MCNext]_mcVars => BothInv'
  BY BothNext
<1>3. QED
  BY <1>1, <1>2, PTL DEF MCSpec

\* The states of the shell and of the panel keep their shape: no answer, late or
\* refused, takes the user to a workspace that is none.
THEOREM ShellTyped == MCSpec => []ShellTypeOK
<1>1. BothInv => ShellTypeOK
  BY ShellPromises, AdminPromises DEF BothInv, ShellTypeOK
<1>2. QED
  BY <1>1, BothAlways, PTL

\* Without a session nothing of the signed-in application is drawn, whatever
\* late answers, refreshes and refusals bring.
THEOREM SignedOutIsOutside == MCSpec => []LandingWhenOut
<1>1. BothInv => LandingWhenOut
  BY ShellPromises DEF BothInv
<1>2. QED
  BY <1>1, BothAlways, PTL

\* A deletion or a switch "in progress" has its request out, about the agent
\* that the modal names, or the reload that ends it, whoever the modal names.
THEOREM ProgressCaused == MCSpec => []ProgressHasCause
<1>1. BothInv => ProgressHasCause
  BY AdminPromises DEF BothInv
<1>2. QED
  BY <1>1, BothAlways, PTL

\* The panel has an overview to draw whenever it neither loads nor shows an
\* error.
THEOREM PanelDrawn == MCSpec => []PanelNeverBlank
<1>1. BothInv => PanelNeverBlank
  BY AdminPromises DEF BothInv
<1>2. QED
  BY <1>1, BothAlways, PTL----------------------------------------------------------------------------
(* What every loading screen waits for. The run checks that each gives way, *)
(* under fairness; that something is out that will end it is proved here.  *)

Boots(a, n) == a.loading => a.boot > 0 \/ \E q \in n : q.op = "me"

\* A user that is loaded is asked for with a /me.
LEMMA LoadsAsk ==
    ASSUME NEW was, NEW token, NEW n, LoadUser(was, token) \subseteq n
    PROVE  \E q \in n : q.op = "me"
<1>1. Call("me", was, None, token) \in n /\ Call("me", was, None, token).op = "me"
  BY DEF LoadUser, Call
<1>2. QED
  BY <1>1

\* The session heard of: its user is loaded, or without one nothing is awaited.
LEMMA SessionBoots ==
    ASSUME ShellInv, Boots(app, calls), Boot \/ AuthEvent \/ Expire \/ SignOut \/ SignIn
    PROVE  Boots(app, calls)'
<1>1. app \in Apps
  BY DEF ShellInv
<1>2. CASE Boot
  <2>1. /\ app' = [Heard(app, auth) EXCEPT !.boot = @ - 1]
        /\ calls' = calls \cup LoadsFor(auth)
    BY <1>2 DEF Boot
  <2>2. CASE auth = "none"
    <3>1. Heard(app, auth) \in Apps /\ ~Heard(app, auth).loading
      BY <1>1, <2>2 DEF Heard, Apps
    <3>2. ~app'.loading
      BY <2>1, <3>1 DEF Apps
    <3>3. QED
      BY <3>2 DEF Boots
  <2>3. CASE auth # "none"
    <3>1. LoadUser(app.first, auth) \subseteq calls'
      BY <2>1, <2>3 DEF LoadsFor
    <3>2. QED
      BY <3>1, LoadsAsk DEF Boots
  <2>4. QED
    BY <2>2, <2>3
<1>3. CASE AuthEvent \/ SignIn
  <2>1. calls' = calls \cup LoadsFor("fresh")
    BY <1>3 DEF AuthEvent, SignIn
  <2>2. LoadUser(app.first, "fresh") \subseteq calls'
    BY <2>1 DEF LoadsFor
  <2>3. QED
    BY <2>2, LoadsAsk DEF Boots
<1>4. CASE Expire
  BY <1>4 DEF Expire, Boots
<1>5. CASE SignOut
  <2>1. app' = Heard(app, "none")
    BY <1>5 DEF SignOut
  <2>2. ~app'.loading
    BY <1>1, <2>1 DEF Heard, Apps
  <2>3. QED
    BY <2>2 DEF Boots
<1>6. QED
  BY <1>2, <1>3, <1>4, <1>5

\* Moving about and calling from a page leaves what is awaited.
LEMMA MoveBoots ==
    ASSUME ShellInv, Boots(app, calls), GoHome \/ Back \/ SelectTenant \/ PageCall
    PROVE  Boots(app, calls)'
<1>1. app \in Apps
  BY DEF ShellInv
<1>2. calls \subseteq calls'
  BY DEF GoHome, Back, SelectTenant, PageCall
<1>3. app'.loading = app.loading /\ app'.boot = app.boot
  <2>1. CASE GoHome \/ Back
    <3>1. PICK r : app' = [app EXCEPT !.route = r]
      BY <2>1 DEF GoHome, Back, Goto
    <3>2. QED
      BY <1>1, <3>1 DEF Apps
  <2>2. CASE SelectTenant
    <3>1. PICK t : app' = [[app EXCEPT !.active = t] EXCEPT !.route = t]
      BY <2>2 DEF SelectTenant, Goto, Selected
    <3>2. QED
      BY <1>1, <3>1 DEF Apps
  <2>3. CASE PageCall
    BY <2>3 DEF PageCall
  <2>4. QED
    BY <2>1, <2>2, <2>3
<1>4. QED
  BY <1>2, <1>3 DEF Boots

\* The server's side: a call handled, refused, rejected or lost is still to
\* come back.
LEMMA ServedBoots ==
    ASSUME ShellInv, Boots(app, calls), NEW c \in calls,
           Handle(c) \/ Refuse(c) \/ Reject(c) \/ Lose(c)
    PROVE  Boots(app, calls)'
<1>1. c \in Calls
  BY DEF ShellInv, Sound
<1>2. UNCHANGED app
  BY DEF Handle, Refuse, Reject, Lose
<1>3. PICK q : calls' = (calls \ {c}) \cup {q} /\ q.op = c.op
  <2>1. CASE Handle(c)
    <3>1. PICK me, at : calls' = (calls \ {c}) \cup
                            {[c EXCEPT !.answer = "ok", !.me = me, !.at = at]}
      BY <2>1, Zenon DEF Handle
    <3>2. [c EXCEPT !.answer = "ok", !.me = me, !.at = at].op = c.op
      BY <1>1 DEF Calls
    <3>3. QED
      BY <3>1, <3>2
  <2>2. CASE Refuse(c) \/ Reject(c)
    <3>1. PICK told : calls' = (calls \ {c}) \cup {[c EXCEPT !.answer = told]}
      BY <2>2, Zenon DEF Refuse, Reject
    <3>2. [c EXCEPT !.answer = told].op = c.op
      BY <1>1 DEF Calls
    <3>3. QED
      BY <3>1, <3>2
  <2>3. CASE Lose(c)
    <3>1. calls' = (calls \ {c}) \cup
                       {[c EXCEPT !.answer = "failed", !.me = None, !.at = None]}
      BY <2>3 DEF Lose
    <3>2. [c EXCEPT !.answer = "failed", !.me = None, !.at = None].op = c.op
      BY <1>1 DEF Calls
    <3>3. QED
      BY <3>1, <3>2
  <2>4. QED
    BY <2>1, <2>2, <2>3
<1>4. (\E u \in calls : u.op = "me") => \E u \in calls' : u.op = "me"
  BY <1>3
<1>5. QED
  BY <1>2, <1>4 DEF Boots

\* An answer to /me, whatever it says, ends what it was awaited for; any other
\* leaves that alone, or has the user loaded again.
LEMMA ArrivedBoots ==
    ASSUME ShellInv, Boots(app, calls), NEW c \in calls, Arrive(c)
    PROVE  Boots(app, calls)'
<1>1. app \in Apps /\ c \in Calls
  BY DEF ShellInv, Sound
<1>2. CASE PageAnswered(c) \/ Retried(c)
  <2>1. \E was, token : LoadUser(was, token) \subseteq calls'
    <3>1. CASE PageAnswered(c)
      BY <3>1 DEF PageAnswered
    <3>2. CASE Retried(c)
      <4>1. LoadsFor("fresh") \subseteq calls'
        BY <3>2 DEF Retried
      <4>2. QED
        BY <4>1 DEF LoadsFor
    <3>3. QED
      BY <1>2, <3>1, <3>2
  <2>2. QED
    BY <2>1, LoadsAsk DEF Boots
<1>3. CASE MeAnswered(c)
  <2>1. app' = Loaded(c.me, c.was)
    BY <1>3 DEF MeAnswered
  <2> DEFINE a == [app EXCEPT !.user = c.me, !.loading = FALSE]
  <2>2. DOMAIN a = DOMAIN app /\ "loading" \in DOMAIN a /\ ~a.loading
    BY <1>1 DEF Apps
  <2>3. \/ app' = a \/ \E t : app' = [a EXCEPT !.active = t]
        \/ \E t, u : app' = [a EXCEPT !.active = t, !.route = u]
    BY <2>1, Zenon DEF Loaded
  <2> HIDE DEF a
  <2>4. ~app'.loading
    BY <2>2, <2>3
  <2>5. QED
    BY <2>4 DEF Boots
<1>4. CASE Failed(c)
  <2>1. app' = Thrown(c) /\ calls' = calls \ {c}
    BY <1>4 DEF Failed
  <2>2. CASE c.op = "me"
    <3>1. ~app'.loading
      BY <1>1, <2>1, <2>2 DEF Thrown, Unloaded, Apps
    <3>2. QED
      BY <3>1 DEF Boots
  <2>3. CASE c.op # "me"
    BY <2>1, <2>3 DEF Thrown, Boots
  <2>4. QED
    BY <2>2, <2>3
<1>5. CASE Revoked(c)
  <2>1. app' = Heard(Thrown(c), "none")
    BY <1>5 DEF Revoked
  <2>2. Thrown(c) \in Apps
    BY <1>1 DEF Thrown, Unloaded, Apps
  <2>3. ~app'.loading
    BY <2>1, <2>2 DEF Heard, Apps
  <2>4. QED
    BY <2>3 DEF Boots
<1>6. QED
  BY <1>2, <1>3, <1>4, <1>5 DEF Arrive

\* Every step of the shell.
LEMMA NextBoots ==
    ASSUME ShellInv, Boots(app, calls), Next
    PROVE  Boots(app, calls)'
<1>1. CASE Bounded
  BY <1>1, SessionBoots, MoveBoots, ServedBoots DEF Bounded
<1>2. CASE Serve
  BY <1>2, ServedBoots DEF Serve
<1>3. CASE Delete
  BY <1>3 DEF Delete, Boots
<1>4. CASE Quiet
  BY <1>4 DEF Quiet, vars, Boots
<1>5. QED
  BY <1>1, <1>2, <1>3, <1>4, SessionBoots, ArrivedBoots DEF Next
----------------------------------------------------------------------------
(* The panel's two loading screens                                         *)

Loads(a, t, n) ==
    /\ a.loading => \E q \in n : q.op = "reload"
    /\ Admin!Drawn(a) /\ a.tab = "coupons" /\ t.loading =>
           \E q \in n : q.op = "coupons" /\ q.alive

\* What a handler leaves: a tab that stays keeps the load that is out, and one
\* that comes sends its own.
LEMMA RenderedLoads ==
    ASSUME NEW a \in Admins, NEW t, NEW n, n \subseteq Admin!Requests,
           a.loading => \E q \in n : q.op = "reload",
           Admin!Drawn(admin) /\ a.tab = admin.tab => Loads(a, t, n),
           Admin!Render(a, t, n)
    PROVE  Loads(admin, tab, net)'
<1> DEFINE stays == Admin!Drawn(a) /\ Admin!Drawn(admin) /\ a.tab = admin.tab
           comes == Admin!Drawn(a) /\ ~stays
           dead  == {[r EXCEPT !.alive = FALSE] : r \in n}
           old   == IF stays THEN n ELSE dead
           s     == Admin!Sent("coupons", None)
           b     == [a EXCEPT !.confirmed = @ /\ Admin!Drawn(a)]
<1>1. /\ admin' = b /\ tab' = IF stays THEN t ELSE Admin!Fresh
      /\ net' = old \cup (IF comes /\ a.tab = "coupons" THEN {s} ELSE {})
  BY DEF Admin!Render
<1>2. b.loading = a.loading /\ b.known = a.known /\ b.tab = a.tab
  BY DEF Admins
<1>3. Admin!Drawn(b) <=> Admin!Drawn(a)
  BY <1>2 DEF Admin!Drawn
<1>4. \A r \in n : [r EXCEPT !.alive = FALSE].op = r.op
  BY DEF Admin!Requests
<1>5. s.op = "coupons" /\ s.alive
  BY DEF Admin!Sent
<1> HIDE DEF b, s
<1>6. b.loading => \E q \in net' : q.op = "reload"
  <2>1. (\E q \in n : q.op = "reload") => \E q \in old : q.op = "reload"
    BY <1>4
  <2>2. QED
    BY <1>1, <1>2, <2>1
<1>7. Admin!Drawn(b) /\ b.tab = "coupons" /\ tab'.loading =>
          \E q \in net' : q.op = "coupons" /\ q.alive
  <2>1. CASE stays
    <3>1. tab' = t /\ n \subseteq net' /\ Loads(a, t, n)
      BY <1>1, <2>1
    <3>2. QED
      BY <1>2, <1>3, <3>1 DEF Loads
  <2>2. CASE ~stays
    <3>1. Admin!Drawn(a) /\ a.tab = "coupons" => s \in net'
      BY <1>1, <2>2
    <3>2. QED
      BY <1>2, <1>3, <1>5, <3>1
  <2>3. QED
    BY <2>1, <2>2
<1>8. QED
  BY <1>1, <1>6, <1>7 DEF Loads, Admin!Drawn

\* A reload sent draws the loading screen over the panel, and is out to end it.
LEMMA ReloadLoads ==
    ASSUME NEW a \in Admins, NEW t, NEW n, n \subseteq Admin!Requests,
           NEW ends \in {"", "delete", "switch"}, Admin!Reload(a, t, n, ends)
    PROVE  Loads(admin, tab, net)'
<1> DEFINE s == Admin!Sent("reload", None)
           q == [s EXCEPT !.ends = ends]
           b == [a EXCEPT !.loading = TRUE, !.error = FALSE]
           m == n \cup {q}
<1>1. Admin!Render(b, t, m)
  BY DEF Admin!Reload
<1>2. s \in Admin!Requests /\ s.op = "reload"
  <2>1. "reload" \in Admin!Ops
    BY DEF Admin!Ops
  <2> HIDE DEF q, b, m
  <2>2. QED
    BY <2>1, SentFields
<1> HIDE DEF s
<1>3. q \in Admin!Requests /\ q.op = "reload"
  BY <1>2 DEF Admin!Requests
<1>4. b \in Admins /\ ~Admin!Drawn(b)
  BY DEF Admins, Admin!Drawn
<1> HIDE DEF q, b
<1>5. m \subseteq Admin!Requests /\ \E u \in m : u.op = "reload"
  BY <1>3
<1> HIDE DEF m
<1>6. Loads(b, t, m)
  BY <1>4, <1>5 DEF Loads
<1>7. QED
  BY <1>1, <1>4, <1>5, <1>6, RenderedLoads

\* A handler that leaves the screens as they are, and the requests that will
\* end them, whether it draws the panel again or not.
LEMMA PlainLoads ==
    ASSUME AdminInv, Loads(admin, tab, net),
           NEW a \in Admins, a.loading = admin.loading, a.known = admin.known,
           a.tab = admin.tab, NEW t, NEW n, n \subseteq Admin!Requests,
           \A q \in net : q.op = "reload" => q \in n,
           t.loading => tab.loading /\ \A q \in net : q.op = "coupons" /\ q.alive => q \in n,
           \/ Admin!Render(a, t, n)
           \/ admin' = a /\ tab' = t /\ net' = n
    PROVE  Loads(admin, tab, net)'
<1>1. Loads(a, t, n)
  BY DEF Loads, Admin!Drawn
<1>2. CASE Admin!Render(a, t, n)
  BY <1>1, <1>2, RenderedLoads DEF Loads
<1>3. CASE admin' = a /\ tab' = t /\ net' = n
  BY <1>1, <1>3 DEF Loads, Admin!Drawn
<1>4. QED
  BY <1>2, <1>3

\* The overview is loaded again, or another tab shown.
LEMMA TabLoads ==
    ASSUME AdminInv, Loads(admin, tab, net), Admin!Refresh \/ Admin!ShowTab
    PROVE  Loads(admin, tab, net)'
<1>1. CASE Admin!Refresh
  <2>1. Admin!Reload(admin, tab, net, "")
    BY <1>1 DEF Admin!Refresh
  <2>2. QED
    BY <2>1, AdminParts, ReloadLoads
<1>2. CASE Admin!ShowTab
  <2>1. PICK name \in Admin!Tabs \ {admin.tab} :
            Admin!Render([admin EXCEPT !.tab = name], tab, net)
    BY <1>2 DEF Admin!ShowTab
  <2> DEFINE b == [admin EXCEPT !.tab = name]
  <2>2. b \in Admins /\ b.loading = admin.loading /\ b.tab # admin.tab
    BY <2>1, AdminParts DEF Admins, Admin!Tabs
  <2>3. Admin!Render(b, tab, net)
    BY <2>1
  <2> HIDE DEF b
  <2>4. QED
    BY <2>2, <2>3, AdminParts, RenderedLoads DEF Loads
<1>3. QED
  BY <1>1, <1>2

\* Modals opened, confirmed and closed, requests sent: nothing that loads, and
\* none of the requests that end it, is touched.
LEMMA UserLoads ==
    ASSUME AdminInv, Loads(admin, tab, net),
           \/ Admin!SelectAgent \/ Admin!CloseDetail \/ Admin!OpenDelete
           \/ Admin!TypeAgentId \/ Admin!CancelDelete \/ Admin!ConfirmDelete
           \/ Admin!OpenSwitch \/ Admin!CancelSwitch \/ Admin!ConfirmSwitch
           \/ Admin!RotateKey \/ Admin!Promote \/ Admin!OpenGrant \/ Admin!Grant
           \/ Admin!ToggleCoupon \/ Admin!CreateCoupon
    PROVE  Loads(admin, tab, net)'
<1>1. admin \in Admins /\ tab \in TabStates
  BY AdminParts
<1>2. net \subseteq net'
  BY DEF Admin!SelectAgent, Admin!CloseDetail, Admin!OpenDelete, Admin!TypeAgentId,
         Admin!CancelDelete, Admin!ConfirmDelete, Admin!OpenSwitch, Admin!CancelSwitch,
         Admin!ConfirmSwitch, Admin!RotateKey, Admin!Promote, Admin!OpenGrant,
         Admin!Grant, Admin!ToggleCoupon, Admin!CreateCoupon
<1>3. /\ admin'.loading = admin.loading /\ admin'.known = admin.known
      /\ admin'.tab = admin.tab
  BY <1>1 DEF Admins,
         Admin!SelectAgent, Admin!CloseDetail, Admin!OpenDelete, Admin!TypeAgentId,
         Admin!CancelDelete, Admin!ConfirmDelete, Admin!OpenSwitch, Admin!CancelSwitch,
         Admin!ConfirmSwitch, Admin!RotateKey, Admin!Promote, Admin!OpenGrant,
         Admin!Grant, Admin!ToggleCoupon, Admin!CreateCoupon
<1>4. tab'.loading = tab.loading
  <2>1. CASE Admin!OpenGrant
    <3>1. PICK a : tab' = [tab EXCEPT !.grant = a, !.granting = FALSE]
      BY <2>1 DEF Admin!OpenGrant
    <3>2. QED
      BY <1>1, <3>1 DEF TabStates
  <2>2. CASE Admin!Grant \/ Admin!CreateCoupon
    BY <1>1, <2>2 DEF TabStates, Admin!Grant, Admin!CreateCoupon
  <2>3. CASE UNCHANGED tab
    BY <2>3
  <2>4. QED
    BY <2>1, <2>2, <2>3
       DEF Admin!SelectAgent, Admin!CloseDetail, Admin!OpenDelete, Admin!TypeAgentId,
           Admin!CancelDelete, Admin!ConfirmDelete, Admin!OpenSwitch, Admin!CancelSwitch,
           Admin!ConfirmSwitch, Admin!RotateKey, Admin!Promote, Admin!ToggleCoupon
<1>5. QED
  BY <1>2, <1>3, <1>4 DEF Loads, Admin!Drawn
\* Requests turned to answer nobody are of one operation; the others stay.
LEMMA TurnedStays ==
    ASSUME NEW n, NEW P,
           NEW m, m = {IF r.op = P THEN [r EXCEPT !.alive = FALSE] ELSE r : r \in n}
    PROVE  \A q \in n : q.op # P => q \in m
<1> DEFINE turned(r) == IF r.op = P THEN [r EXCEPT !.alive = FALSE] ELSE r
<1>1. \A q \in n : q.op # P => turned(q) = q
  OBVIOUS
<1>2. m = {turned(r) : r \in n}
  OBVIOUS
<1> HIDE DEF turned
<1>3. QED
  BY <1>1, <1>2

\* The grant's modal closed, the coupons' form shown or not.
LEMMA FormLoads ==
    ASSUME AdminInv, Loads(admin, tab, net), Admin!CloseGrant \/ Admin!ToggleForm
    PROVE  Loads(admin, tab, net)'
<1>1. admin' = admin /\ tab'.loading = tab.loading
  BY AdminParts DEF Admin!CloseGrant, Admin!ToggleForm, TabStates
<1>2. \A q \in net : q.op \in {"reload", "coupons"} => q \in net'
  <2>1. CASE Admin!CloseGrant
    <3>1. net' = {IF r.op = "grant" THEN [r EXCEPT !.alive = FALSE] ELSE r : r \in net}
      BY <2>1 DEF Admin!CloseGrant
    <3>2. QED
      BY <3>1, TurnedStays
  <2>2. CASE Admin!ToggleForm
    <3>1. net' = {IF r.op = "create" THEN [r EXCEPT !.alive = FALSE] ELSE r : r \in net}
      BY <2>2 DEF Admin!ToggleForm, Admin!Forgotten
    <3>2. QED
      BY <3>1, TurnedStays
  <2>3. QED
    BY <2>1, <2>2
<1>3. QED
  BY <1>1, <1>2 DEF Loads, Admin!Drawn

\* The coupons' list is loaded again: its request is out.
LEMMA ListLoads ==
    ASSUME AdminInv, Loads(admin, tab, net), NEW t \in TabStates,
           NEW n, n \subseteq Admin!Requests, \A q \in net : q.op = "reload" => q \in n,
           Admin!LoadCoupons(t, n)
    PROVE  Loads(admin, tab, net)'
<1> DEFINE u == [t EXCEPT !.loading = TRUE, !.create = IF @ = "off" THEN "off" ELSE "blank"]
           s == Admin!Sent("coupons", None)
           f == Admin!Forgotten(n)
           m == f \cup {s}
<1>1. Admin!Render(admin, u, m)
  BY DEF Admin!LoadCoupons
<1> HIDE DEF u
<1>2. f = {IF r.op = "create" THEN [r EXCEPT !.alive = FALSE] ELSE r : r \in n}
  BY DEF Admin!Forgotten
<1> HIDE DEF f
<1>3. f \subseteq Admin!Requests /\ \A q \in net : q.op = "reload" => q \in f
  <2>1. Same(n, f)
    BY <1>2, TurnedSame
  <2>2. \A q \in n : q.op # "create" => q \in f
    BY <1>2, TurnedStays
  <2>3. QED
    BY <2>1, <2>2 DEF Same
<1>4. s \in Admin!Requests
  BY SentFields DEF Admin!Ops
<1>5. s.op = "coupons" /\ s.alive
  BY DEF Admin!Sent
<1> HIDE DEF s
<1>6. m \subseteq Admin!Requests /\ Loads(admin, u, m)
  BY <1>3, <1>4, <1>5 DEF Loads
<1> HIDE DEF m
<1>7. QED
  BY <1>1, <1>6, AdminParts, RenderedLoads DEF Loads

\* The code that was made is dismissed.
LEMMA DismissLoads ==
    ASSUME AdminInv, Loads(admin, tab, net), Admin!DismissCreated
    PROVE  Loads(admin, tab, net)'
<1> DEFINE off == [tab EXCEPT !.create = "off"]
           blank == [tab EXCEPT !.create = "blank"]
<1>1. Admin!LoadCoupons(off, net) \/ Admin!Render(admin, blank, net)
  BY DEF Admin!DismissCreated
<1>2. off \in TabStates /\ blank.loading = tab.loading
  BY AdminParts DEF TabStates
<1> HIDE DEF off, blank
<1>3. QED
  BY <1>1, <1>2, AdminParts, ListLoads, PlainLoads

\* A reload's answer ends the loading screen, its own or another's.
LEMMA ReloadedLoads ==
    ASSUME AdminInv, Loads(admin, tab, net), NEW r \in net, Admin!Reloaded(r)
    PROVE  Loads(admin, tab, net)'
<1> DEFINE a == IF r.answer = "failed" THEN [admin EXCEPT !.error = TRUE]
                ELSE [admin EXCEPT !.known = TRUE, !.rows = r.snap]
           b == [a EXCEPT !.loading = FALSE]
           c == [b EXCEPT !.deletingNow = @ /\ r.ends # "delete",
                          !.switchingNow = @ /\ r.ends # "switch"]
<1>1. r.op = "reload" /\ Admin!Render(c, tab, net \ {r})
  BY DEF Admin!Reloaded, Admin!Awaited
<1>2. r.snap \in SUBSET Agents /\ admin \in Admins /\ net \subseteq Admin!Requests
  BY AdminParts DEF Admin!Requests
<1>3. a \in Admins
  <2>1. CASE r.answer = "failed"
    <3>1. a = [admin EXCEPT !.error = TRUE]
      BY <2>1
    <3>2. QED
      BY <1>2, <3>1 DEF Admins
  <2>2. CASE r.answer # "failed"
    <3>1. a = [admin EXCEPT !.known = TRUE, !.rows = r.snap]
      BY <2>2
    <3>2. QED
      BY <1>2, <3>1 DEF Admins
  <2>3. QED
    BY <2>1, <2>2
<1> HIDE DEF a
<1>4. b \in Admins /\ ~b.loading
  BY <1>3 DEF Admins
<1> HIDE DEF b
<1>5. c \in Admins /\ ~c.loading
  BY <1>4 DEF Admins
<1> HIDE DEF c
<1>6. Admin!Drawn(admin) /\ c.tab = admin.tab => Loads(c, tab, net \ {r})
  BY <1>1, <1>5 DEF Loads
<1>7. QED
  BY <1>1, <1>2, <1>5, <1>6, RenderedLoads

\* An agent's details, its deletion or its switch answered.
LEMMA AgentLoads ==
    ASSUME AdminInv, Loads(admin, tab, net), NEW r \in net,
           Admin!DetailAnswered(r) \/ Admin!DeleteAnswered(r) \/ Admin!SwitchAnswered(r)
    PROVE  Loads(admin, tab, net)'
<1> DEFINE gone  == [admin EXCEPT !.deleting = None, !.confirmed = FALSE]
           free  == [admin EXCEPT !.deletingNow = FALSE]
           done  == [admin EXCEPT !.switching = None]
           ended == [admin EXCEPT !.switchingNow = FALSE]
           n     == net \ {r}
<1>1. n \subseteq Admin!Requests /\ admin \in Admins
  BY AdminParts
<1>2. CASE Admin!DetailAnswered(r)
  <2>1. r.op = "detail" /\ tab' = tab /\ net' = n
    BY <1>2 DEF Admin!DetailAnswered
  <2>2. /\ admin'.loading = admin.loading /\ admin'.known = admin.known
        /\ admin'.tab = admin.tab
    <3>1. admin' = [admin EXCEPT !.detail = r.agent] \/ admin' = [admin EXCEPT !.error = TRUE]
      BY <1>2 DEF Admin!DetailAnswered
    <3>2. QED
      BY <1>1, <3>1 DEF Admins
  <2>3. QED
    BY <2>1, <2>2 DEF Loads, Admin!Drawn
<1>3. CASE Admin!DeleteAnswered(r)
  <2>1. /\ r.op = "delete"
        /\ Admin!Reload(gone, tab, n, "delete") \/ Admin!Render(free, tab, n)
    BY <1>3 DEF Admin!DeleteAnswered
  <2>2. /\ gone \in Admins /\ free \in Admins /\ free.loading = admin.loading
        /\ free.known = admin.known /\ free.tab = admin.tab
    BY <1>1 DEF Admins
  <2>3. \A q \in net : q.op # "delete" => q \in n
    BY <2>1
  <2> HIDE DEF gone, free, n
  <2>4. CASE Admin!Reload(gone, tab, n, "delete")
    BY <1>1, <2>2, <2>4, ReloadLoads
  <2>5. CASE Admin!Render(free, tab, n)
    BY <1>1, <2>2, <2>3, <2>5, PlainLoads
  <2>6. QED
    BY <2>1, <2>4, <2>5
<1>4. CASE Admin!SwitchAnswered(r)
  <2>1. /\ r.op = "switch"
        /\ Admin!Reload(done, tab, n, "switch") \/ Admin!Render(ended, tab, n)
    BY <1>4 DEF Admin!SwitchAnswered
  <2>2. /\ done \in Admins /\ ended \in Admins /\ ended.loading = admin.loading
        /\ ended.known = admin.known /\ ended.tab = admin.tab
    BY <1>1 DEF Admins
  <2>3. \A q \in net : q.op # "switch" => q \in n
    BY <2>1
  <2> HIDE DEF done, ended, n
  <2>4. CASE Admin!Reload(done, tab, n, "switch")
    BY <1>1, <2>2, <2>4, ReloadLoads
  <2>5. CASE Admin!Render(ended, tab, n)
    BY <1>1, <2>2, <2>3, <2>5, PlainLoads
  <2>6. QED
    BY <2>1, <2>4, <2>5
<1>5. QED
  BY <1>2, <1>3, <1>4

\* A rotation, a promotion or a grant answered.
LEMMA ChangeLoads ==
    ASSUME AdminInv, Loads(admin, tab, net), NEW r \in net,
           Admin!RotatedOrPromoted(r) \/ Admin!GrantAnswered(r)
    PROVE  Loads(admin, tab, net)'
<1> DEFINE u == [tab EXCEPT !.granting = @ /\ ~r.alive]
           n == net \ {r}
<1>1. /\ r.op \in {"rotate", "promote", "grant"}
      /\ \/ Admin!Reload(admin, tab, n, "") \/ Admin!Render(admin, tab, n)
         \/ Admin!Render(admin, u, n)
  BY DEF Admin!RotatedOrPromoted, Admin!GrantAnswered
<1>2. u.loading = tab.loading /\ admin \in Admins /\ n \subseteq Admin!Requests
  BY AdminParts DEF TabStates
<1>3. \A q \in net : q.op \in {"reload", "coupons"} => q \in n
  BY <1>1
<1> HIDE DEF u, n
<1>4. CASE Admin!Reload(admin, tab, n, "")
  BY <1>2, <1>4, ReloadLoads
<1>5. CASE Admin!Render(admin, tab, n) \/ Admin!Render(admin, u, n)
  BY <1>2, <1>3, <1>5, PlainLoads
<1>6. QED
  BY <1>1, <1>4, <1>5

\* The coupons tab hears of its list, of a change, of a coupon it made; what
\* comes for a tab that has gone is dropped.
LEMMA CouponsLoad ==
    ASSUME AdminInv, Loads(admin, tab, net), NEW r \in net, Admin!CouponsAnswered(r)
    PROVE  Loads(admin, tab, net)'
<1> DEFINE listed == [tab EXCEPT !.loading = FALSE]
           end    == IF r.answer = "ok" THEN "made" ELSE "blank"
           made   == [tab EXCEPT !.create = end]
           n      == net \ {r}
<1>1. r.op \in {"coupons", "toggle", "create"}
  BY DEF Admin!CouponsAnswered
<1>2. \/ (~r.alive \/ r.op # "coupons") /\ Admin!Render(admin, tab, n)
      \/ Admin!Render(admin, listed, n)
      \/ Admin!LoadCoupons(tab, n)
      \/ r.op = "create" /\ Admin!Render(admin, made, n)
  BY DEF Admin!CouponsAnswered
<1>3. ~listed.loading /\ made.loading = tab.loading /\ tab \in TabStates
  BY AdminParts DEF TabStates
<1>4. admin \in Admins /\ n \subseteq Admin!Requests
  BY AdminParts
<1>5. /\ \A q \in net : q.op = "reload" => q \in n
      /\ ~r.alive \/ r.op # "coupons" =>
             \A q \in net : q.op = "coupons" /\ q.alive => q \in n
  BY <1>1
<1> HIDE DEF listed, end, made, n
<1>6. CASE (~r.alive \/ r.op # "coupons") /\ Admin!Render(admin, tab, n)
  BY <1>4, <1>5, <1>6, PlainLoads
<1>7. CASE Admin!Render(admin, listed, n)
  BY <1>3, <1>4, <1>5, <1>7, PlainLoads
<1>8. CASE Admin!LoadCoupons(tab, n)
  BY <1>3, <1>4, <1>5, <1>8, ListLoads
<1>9. CASE r.op = "create" /\ Admin!Render(admin, made, n)
  BY <1>3, <1>4, <1>5, <1>9, PlainLoads
<1>10. QED
  BY <1>2, <1>6, <1>7, <1>8, <1>9

\* The server's side: a load that is handled or fails is still to come back.
LEMMA ServedLoads ==
    ASSUME AdminInv, Loads(admin, tab, net), NEW r \in net,
           Admin!Handle(r) \/ Admin!Fail(r)
    PROVE  Loads(admin, tab, net)'
<1>1. UNCHANGED <<admin, tab>>
  BY DEF Admin!Handle, Admin!Fail
<1>2. PICK told, snap : net' = (net \ {r}) \cup {[r EXCEPT !.answer = told, !.snap = snap]}
  BY Zenon DEF Admin!Handle, Admin!Fail
<1> DEFINE q == [r EXCEPT !.answer = told, !.snap = snap]
<1>3. q.op = r.op /\ q.alive = r.alive
  BY AdminParts DEF Admin!Requests
<1>4. net' = (net \ {r}) \cup {q}
  BY <1>2
<1> HIDE DEF q
<1>5. \A u \in net : \E v \in net' : v.op = u.op /\ v.alive = u.alive
  BY <1>3, <1>4
<1>6. QED
  BY <1>1, <1>5 DEF Loads, Admin!Drawn

\* Every step of the panel.
LEMMA NextLoads ==
    ASSUME AdminInv, Loads(admin, tab, net), Admin!Next
    PROVE  Loads(admin, tab, net)'
<1>1. CASE Admin!User
  BY <1>1, TabLoads, UserLoads, FormLoads, DismissLoads DEF Admin!User
<1>2. CASE Admin!Serve
  BY <1>2, ServedLoads DEF Admin!Serve
<1>3. CASE Admin!Arrive
  BY <1>3, ReloadedLoads, AgentLoads, ChangeLoads, CouponsLoad DEF Admin!Arrive
<1>4. CASE Admin!Quiet
  BY <1>4 DEF Admin!Quiet, Admin!vars, Loads, Admin!Drawn
<1>5. QED
  BY <1>1, <1>2, <1>3, <1>4 DEF Admin!Next

----------------------------------------------------------------------------
(* Both screens together                                                   *)

CauseInv == BothInv /\ Boots(app, calls) /\ Loads(admin, tab, net)

\* The shell starts before its first session, the panel behind its first reload.
LEMMA CausesStart ==
    ASSUME MCInit
    PROVE  Boots(app, calls) /\ Loads(admin, tab, net)
<1>1. app.boot > 0
  BY DEF MCInit, Init
<1>2. admin.loading /\ net = {Admin!Sent("reload", None)}
  BY DEF MCInit, Admin!Init
<1>3. Admin!Sent("reload", None).op = "reload"
  BY DEF Admin!Sent
<1>4. QED
  BY <1>1, <1>2, <1>3 DEF Boots, Loads, Admin!Drawn

\* Whatever loads keeps what will end it.
LEMMA CausesNext ==
    ASSUME CauseInv, [MCNext]_mcVars
    PROVE  CauseInv'
<1>1. BothInv'
  BY BothNext DEF CauseInv
<1>2. CASE InShell(Next)
  <2>1. Boots(app, calls)'
    BY <1>2, NextBoots DEF InShell, CauseInv, BothInv
  <2>2. Loads(admin, tab, net)'
    BY <1>2 DEF InShell, CauseInv, aVars, Loads, Admin!Drawn
  <2>3. QED
    BY <1>1, <2>1, <2>2 DEF CauseInv
<1>3. CASE InPanel(Admin!Next)
  <2>1. Boots(app, calls)'
    BY <1>3 DEF InPanel, CauseInv, vars, Boots
  <2>2. Loads(admin, tab, net)'
    BY <1>3, NextLoads DEF InPanel, CauseInv, BothInv
  <2>3. QED
    BY <1>1, <2>1, <2>2 DEF CauseInv
<1>4. CASE UNCHANGED mcVars
  BY <1>1, <1>4 DEF mcVars, vars, aVars, CauseInv, Boots, Loads, Admin!Drawn
<1>5. QED
  BY <1>2, <1>3, <1>4 DEF MCNext

\* They hold in every state.
LEMMA CausesAlways == MCSpec => []CauseInv
<1>1. MCInit => CauseInv
  BY ShellStarts, AdminStarts, CausesStart DEF MCInit, BothInv, CauseInv
<1>2. CauseInv /\ [MCNext]_mcVars => CauseInv'
  BY CausesNext
<1>3. QED
  BY <1>1, <1>2, PTL DEF MCSpec

\* The shell shows "Loading" only while the first session or a user's /me is
\* still awaited, however sessions come, go and are refused: ShellBoots then
\* rests on fairness alone.
THEOREM BootCaused == MCSpec => []BootHasCause
<1>1. CauseInv => BootHasCause
  BY DEF CauseInv, Boots, BootHasCause
<1>2. QED
  BY <1>1, CausesAlways, PTL

\* Each loading screen of the panel has its request out: the overview's reload,
\* and for the coupons a load that the tab now mounted sent itself, so that its
\* answer is not dropped; PanelLoads then rests on fairness alone.
THEOREM LoadsCaused == MCSpec => []Admin!LoadingHasCause
<1>1. CauseInv => Admin!LoadingHasCause
  BY DEF CauseInv, Loads, Admin!LoadingHasCause, Admin!Out, Admin!OnCoupons
<1>2. QED
  BY <1>1, CausesAlways, PTL
=============================================================================

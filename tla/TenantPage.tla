----------------------------- MODULE TenantPage -----------------------------
(* The workspace page (pages/TenantPage.tsx): the detail it loads, silently  *)
(* or behind a loading screen, the tabs that work on it, the form that       *)
(* creates an agent over a stream, the deletion of an agent, and the members *)
(* and settings tabs. A request keeps the workspace it was sent for: the     *)
(* page is not remounted when the user turns to another one.                 *)
EXTENDS Naturals, FiniteSets

CONSTANTS
    Tenants, Agents, Phones,
    None,       \* no tenant, agent or phone
    MaxNet,     \* bound: requests out at once
    MaxUser     \* bound: what the user does

ASSUME PageAssumption == None \notin Tenants \cup Agents \cup Phones /\ MaxUser \in Nat

VARIABLES
    server,     \* the workspaces: agents with their phones, plan, roles
    page,       \* TenantPage's own state
    dash,       \* DashboardTab's state, fresh whenever the tab is mounted
    net,        \* requests out, handled by the server or not
    left        \* what the user may still do (bound)

vars == <<server, page, dash, net, left>>

Tabs  == {"dashboard", "members", "settings"}
Roles == {"none", "invited", "member", "admin", "owner"}

(* A workspace: the user's role, one other person's, the plan, the agents. *)
Workspaces ==
    [me : {"member", "admin", "owner"}, other : Roles, plan : BOOLEAN,
     agents : [Agents -> Phones \cup {None, "absent"}]]

NoDetail == [of |-> None]

Ops == {"reload", "check", "provision", "delete", "redeem", "invite", "revoke",
        "remove", "role", "transfer", "save", "drop"}

(* "at" is the workspace, "arg" an agent or a phone, "alive" while the tab   *)
(* that sent it is mounted; a reload is "loud" behind the loading screen,    *)
(* and a redemption "closed" once its modal is.                              *)
Requests ==
    [op : Ops, at : Tenants, arg : Agents \cup Phones \cup {None}, alive : BOOLEAN,
     mode : {"plain", "loud", "closed"}, answer : {"", "failed", "ok", "no"},
     snap : Workspaces \cup {NoDetail}]

Sent(op, at, arg) ==
    [op |-> op, at |-> at, arg |-> arg, alive |-> TRUE, mode |-> "plain",
     answer |-> "", snap |-> NoDetail]

Loud(at) == [Sent("reload", at, None) EXCEPT !.mode = "loud"]

Fresh ==
    [form |-> FALSE, phone |-> None, available |-> "unknown", timer |-> FALSE,
     checking |-> FALSE, provisioning |-> FALSE,
     deleting |-> None, confirmed |-> FALSE, deletingNow |-> FALSE,
     redeem |-> FALSE, redeeming |-> FALSE]

TypeOK ==
    /\ server \in [Tenants -> Workspaces]
    /\ page \in [tenant : Tenants \cup {None}, tab : Tabs, loading : BOOLEAN,
                 error : BOOLEAN, of : Tenants \cup {None},
                 detail : Workspaces \cup {NoDetail}]
    /\ dash \in [form : BOOLEAN, phone : Phones \cup {None},
                 available : {"unknown", "ok", "no"}, timer : BOOLEAN, checking : BOOLEAN,
                 provisioning : BOOLEAN, deleting : Agents \cup {None},
                 confirmed : BOOLEAN, deletingNow : BOOLEAN,
                 redeem : BOOLEAN, redeeming : BOOLEAN]
    /\ net \subseteq Requests
    /\ left \in 0 .. MaxUser

(* Back from Google with ?google=connected the page loads twice, which one   *)
(* more request out stands for.                                              *)
Init ==
    /\ server \in [Tenants -> {w \in Workspaces :
                      /\ w.agents = [a \in Agents |-> "absent"]
                      /\ w.me = "owner" /\ w.other = "none"}]
    /\ \E t \in Tenants, twice \in BOOLEAN :
          /\ page = [tenant |-> t, tab |-> "dashboard", loading |-> TRUE, error |-> FALSE,
                     of |-> None, detail |-> NoDetail]
          /\ net = {Loud(t)} \cup (IF twice THEN {[Loud(t) EXCEPT !.alive = FALSE]} ELSE {})
    /\ dash = Fresh
    /\ left = MaxUser

-----------------------------------------------------------------------------
(* What is drawn. *)

Shown(p) == p.tenant # None /\ ~p.loading /\ ~p.error /\ p.detail # NoDetail

OnDashboard(p) == Shown(p) /\ p.tab = "dashboard"

AdminOrOwner == page.detail.me \in {"admin", "owner"}

(* The form is drawn only to an admin or owner of a workspace with a plan:   *)
(* an answered reload may take it off the screen, and bring it back.         *)
FormShown ==
    OnDashboard(page) /\ dash.form /\ AdminOrOwner /\ page.detail.plan

(* A modal that is drawn covers the page. Two are drawn when a form comes    *)
(* back beside one opened without it; then both are worked on.               *)
Covered == FormShown \/ dash.deleting # None \/ dash.redeem

Room == Cardinality(net) < MaxNet

UserActs == left > 0 /\ left' = left - 1

(* A handler leaves the page "p", the dashboard "d" and the requests "n": a  *)
(* dashboard that is no longer drawn is unmounted, its debounce timer        *)
(* cleared and its requests left to answer nobody.                           *)
Render(p, d, n) ==
    LET gone == OnDashboard(page) /\ ~OnDashboard(p)
    IN  /\ page' = p
        /\ dash' = IF gone THEN Fresh ELSE d
        /\ net'  = IF gone THEN {[r EXCEPT !.alive = FALSE] : r \in n} ELSE n

-----------------------------------------------------------------------------
(* reload, and moving about. *)

\* Mutant: turning to another workspace forgets the detail.
SwitchTenant_Forgets ==
    /\ UserActs /\ Room
    /\ page.tenant # None
    /\ \E t \in Tenants \ {page.tenant} :
          Render([page EXCEPT !.tenant = t, !.tab = "dashboard", !.loading = TRUE,
                              !.error = FALSE, !.of = None, !.detail = NoDetail],
                 dash, net \cup {Loud(t)})
    /\ UNCHANGED server

SwitchTenant ==
    /\ UserActs /\ Room
    /\ page.tenant # None
    /\ \E t \in Tenants \ {page.tenant} :
          Render([page EXCEPT !.tenant = t, !.tab = "dashboard", !.loading = TRUE,
                              !.error = FALSE],
                 dash, net \cup {Loud(t)})
    /\ UNCHANGED server

(* A tab's button, or the browser's Back, which no modal covers. *)
SwitchTab ==
    /\ UserActs
    /\ Shown(page)
    /\ \E tab \in Tabs \ {page.tab} : Render([page EXCEPT !.tab = tab], dash, net)
    /\ UNCHANGED server

\* Mutant: loading ends only with an answer, not in a "finally".
Reloaded_StillLoading(r) ==
    /\ r.op = "reload"
    /\ IF r.answer = "failed" THEN Render([page EXCEPT !.error = TRUE], dash, net \ {r})
       ELSE Render([page EXCEPT !.detail = r.snap, !.of = r.at,
                                !.loading = @ /\ r.mode # "loud"], dash, net \ {r})
    /\ UNCHANGED <<server, left>>

(* The detail is stored whatever workspace the page is at by now. *)
Reloaded(r) ==
    /\ r.op = "reload"
    /\ LET p == IF r.answer = "failed" THEN [page EXCEPT !.error = TRUE]
                ELSE [page EXCEPT !.detail = r.snap, !.of = r.at]
       IN  Render([p EXCEPT !.loading = @ /\ r.mode # "loud"], dash, net \ {r})
    /\ UNCHANGED <<server, left>>

(* onChanged: reload({silent: true}), with the error cleared at once. *)
Changed(r, d) ==
    Render([page EXCEPT !.error = FALSE], d, (net \ {r}) \cup {Sent("reload", r.at, None)})

-----------------------------------------------------------------------------
(* The form that creates an agent. *)

(* The two effects on the parsed number: forget the answer to the last one,  *)
(* and ask about this one after 400 ms; the cleanup stops timer and spinner. *)
Typed(d, phone) ==
    IF phone = d.phone THEN d
    ELSE [d EXCEPT !.phone = phone, !.available = "unknown",
                   !.timer = phone # None, !.checking = phone # None]

CanProvision ==
    dash.phone = None \/ (dash.available # "no" /\ ~dash.checking)

OpenForm ==
    /\ UserActs
    /\ OnDashboard(page) /\ ~Covered /\ AdminOrOwner /\ page.detail.plan
    /\ dash' = [dash EXCEPT !.form = TRUE]
    /\ UNCHANGED <<server, page, net>>

\* Mutant: the form can be closed over its stream.
CloseForm_Always ==
    /\ UserActs
    /\ OnDashboard(page) /\ dash.form
    /\ dash' = [dash EXCEPT !.form = FALSE]
    /\ UNCHANGED <<server, page, net>>

(* The cross, Cancel, the backdrop and Escape all mind the stream; Escape    *)
(* also closes a form that is not drawn.                                     *)
CloseForm ==
    /\ UserActs
    /\ OnDashboard(page) /\ dash.form /\ ~dash.provisioning
    /\ dash' = [dash EXCEPT !.form = FALSE]
    /\ UNCHANGED <<server, page, net>>

TypePhone ==
    /\ UserActs
    /\ FormShown /\ ~dash.provisioning
    /\ \E p \in (Phones \cup {None}) \ {dash.phone} : dash' = Typed(dash, p)
    /\ UNCHANGED <<server, page, net>>

AskAvailable ==
    /\ dash.timer /\ Room
    /\ dash' = [dash EXCEPT !.timer = FALSE]
    /\ net' = net \cup {Sent("check", page.tenant, dash.phone)}
    /\ UNCHANGED <<server, page, left>>

\* Mutant: a failed check is stored like an answer.
TellAvailable_Raw(r) ==
    /\ r.op = "check"
    /\ dash' = IF r.alive
               THEN [dash EXCEPT !.checking = FALSE, !.available = r.answer] ELSE dash
    /\ net' = net \ {r}
    /\ UNCHANGED <<server, page, left>>

TellAvailable(r) ==
    /\ r.op = "check"
    /\ dash' = IF r.alive
               THEN [dash EXCEPT !.checking = FALSE,
                                 !.available = IF r.answer = "failed" THEN "unknown" ELSE r.answer]
               ELSE dash
    /\ net' = net \ {r}
    /\ UNCHANGED <<server, page, left>>

Provision ==
    /\ UserActs /\ Room
    /\ FormShown /\ ~dash.provisioning /\ CanProvision
    /\ dash' = [dash EXCEPT !.provisioning = TRUE]
    /\ net' = net \cup {Sent("provision", page.tenant, dash.phone)}
    /\ UNCHANGED <<server, page>>

(* The stream's result, or its end without one: only the result empties and  *)
(* closes the form.                                                          *)
Provisioned(r) ==
    /\ r.op = "provision"
    /\ LET ended == IF r.alive THEN [dash EXCEPT !.provisioning = FALSE] ELSE dash
           done  == IF r.alive THEN Typed([ended EXCEPT !.form = FALSE], None) ELSE dash
       IN  IF r.answer = "ok" THEN Changed(r, done)
           ELSE Render(page, ended, net \ {r})
    /\ UNCHANGED <<server, left>>

-----------------------------------------------------------------------------
(* Deleting an agent: its id is typed before Delete is enabled, and nothing  *)
(* closes the modal while the deletion runs.                                 *)

OpenDelete ==
    /\ UserActs
    /\ OnDashboard(page) /\ ~Covered /\ AdminOrOwner
    /\ \E a \in Agents :
          /\ page.detail.agents[a] # "absent"
          /\ dash' = [dash EXCEPT !.deleting = a, !.confirmed = FALSE]
    /\ UNCHANGED <<server, page, net>>

TypeAgentId ==
    /\ OnDashboard(page) /\ dash.deleting # None /\ ~dash.confirmed /\ ~dash.deletingNow
    /\ dash' = [dash EXCEPT !.confirmed = TRUE]
    /\ UNCHANGED <<server, page, net, left>>

CancelDelete ==
    /\ UserActs
    /\ OnDashboard(page) /\ dash.deleting # None /\ ~dash.deletingNow
    /\ dash' = [dash EXCEPT !.deleting = None, !.confirmed = FALSE]
    /\ UNCHANGED <<server, page, net>>

ConfirmDelete ==
    /\ UserActs /\ Room
    /\ OnDashboard(page) /\ dash.confirmed /\ ~dash.deletingNow
    /\ dash' = [dash EXCEPT !.deletingNow = TRUE]
    /\ net' = net \cup {Sent("delete", page.tenant, dash.deleting)}
    /\ UNCHANGED <<server, page>>

Deleted(r) ==
    /\ r.op = "delete"
    /\ LET ended == IF r.alive THEN [dash EXCEPT !.deletingNow = FALSE] ELSE dash
           done  == IF r.alive
                    THEN [ended EXCEPT !.deleting = None, !.confirmed = FALSE] ELSE dash
       IN  IF r.answer = "ok" THEN Changed(r, done)
           ELSE Render(page, ended, net \ {r})
    /\ UNCHANGED <<server, left>>

-----------------------------------------------------------------------------
(* The plan's modal. *)

OpenRedeem ==
    /\ UserActs
    /\ OnDashboard(page) /\ ~Covered /\ AdminOrOwner
    /\ dash' = [dash EXCEPT !.redeem = TRUE, !.redeeming = FALSE]
    /\ UNCHANGED <<server, page, net>>

CloseRedeem ==
    /\ UserActs
    /\ OnDashboard(page) /\ dash.redeem
    /\ dash' = [dash EXCEPT !.redeem = FALSE, !.redeeming = FALSE]
    /\ net' = {IF r.op = "redeem" THEN [r EXCEPT !.mode = "closed"] ELSE r : r \in net}
    /\ UNCHANGED <<server, page>>

Redeem ==
    /\ UserActs /\ Room
    /\ OnDashboard(page) /\ dash.redeem /\ ~dash.redeeming
    /\ dash' = [dash EXCEPT !.redeeming = TRUE]
    /\ net' = net \cup {Sent("redeem", page.tenant, None)}
    /\ UNCHANGED <<server, page>>

(* onRedeemed closes the modal that is open by now, were it another one.     *)
Redeemed(r) ==
    /\ r.op = "redeem"
    /\ LET mine  == r.alive /\ r.mode # "closed"
           ended == IF mine THEN [dash EXCEPT !.redeeming = FALSE] ELSE dash
           done  == IF r.alive THEN [dash EXCEPT !.redeem = FALSE, !.redeeming = FALSE]
                    ELSE dash
       IN  IF r.answer = "ok" THEN Changed(r, done)
           ELSE Render(page, ended, net \ {r})
    /\ UNCHANGED <<server, left>>

-----------------------------------------------------------------------------
(* The members and settings tabs: one request, then a silent reload; an      *)
(* error is alerted or shown in the tab.                                     *)

TabOffers(op) ==
    LET d == page.detail
    IN  \/ /\ page.tab = "members" /\ AdminOrOwner
           /\ \/ op = "invite"
              \/ op = "revoke" /\ d.other = "invited"
        \/ /\ page.tab = "members" /\ d.me = "owner"
           /\ op \in {"remove", "role"} /\ d.other \in {"member", "admin"}
        \/ /\ page.tab = "settings" /\ d.me = "owner"
           /\ \/ op \in {"save", "drop"}
              \/ op = "transfer" /\ d.other \in {"member", "admin"}

TabRequest ==
    /\ UserActs /\ Room
    /\ Shown(page)
    /\ \E op \in Ops :
          /\ TabOffers(op)
          /\ net' = net \cup {[Sent(op, page.tenant, None) EXCEPT !.alive = FALSE]}
    /\ UNCHANGED <<server, page, dash>>

TabAnswered(r) ==
    /\ r.op \in {"invite", "revoke", "remove", "role", "transfer", "save", "drop"}
    /\ IF r.answer # "ok" THEN Render(page, dash, net \ {r})
       ELSE IF r.op = "drop"
       THEN Render([page EXCEPT !.tenant = None], dash, net \ {r})
       ELSE Changed(r, dash)
    /\ UNCHANGED <<server, left>>

-----------------------------------------------------------------------------
(* The server's side. *)

Bound(phone) == \E t \in Tenants, a \in Agents : server[t].agents[a] = phone

Effect(w, r) ==
    CASE r.op = "delete"   -> [w EXCEPT !.agents[r.arg] = "absent"]
      [] r.op = "redeem"   -> [w EXCEPT !.plan = TRUE]
      [] r.op = "invite" /\ w.other = "none"    -> [w EXCEPT !.other = "invited"]
      [] r.op = "revoke" /\ w.other = "invited" -> [w EXCEPT !.other = "none"]
      [] r.op = "remove"   -> [w EXCEPT !.other = "none"]
      [] r.op = "role"     -> [w EXCEPT !.other = IF @ = "admin" THEN "member" ELSE "admin"]
      [] r.op = "transfer" -> [w EXCEPT !.me = "admin", !.other = "owner"]
      [] OTHER -> w

(* Invited people accept on their own; the server refuses what no longer     *)
(* fits, and a phone that another agent has.                                 *)
Fits(w, r) ==
    CASE r.op = "provision" -> w.plan /\ (r.arg = None \/ ~Bound(r.arg))
      [] r.op \in {"remove", "role"} -> w.me = "owner" /\ w.other \in {"member", "admin"}
      [] r.op = "transfer"  -> w.me = "owner" /\ w.other \in {"member", "admin"}
      [] OTHER -> TRUE

After(r) ==
    IF r.op = "provision"
    THEN {[server EXCEPT ![r.at].agents[a] = r.arg] :
             a \in {b \in Agents : server[r.at].agents[b] = "absent"}}
    ELSE {[server EXCEPT ![r.at] = Effect(@, r)]}

(* Without the dashboard's half, which may fail alone, there is no plan. *)
Snaps(w) == {w, [w EXCEPT !.plan = FALSE]}

Handle(r) ==
    /\ r.answer = "" /\ Fits(server[r.at], r)
    /\ server' \in After(r)
    /\ LET told == IF r.op = "check" /\ Bound(r.arg) THEN "no" ELSE "ok"
       IN  \E snap \in IF r.op = "reload" THEN Snaps(server'[r.at]) ELSE {NoDetail} :
              net' = (net \ {r}) \cup {[r EXCEPT !.answer = told, !.snap = snap]}
    /\ UNCHANGED <<page, dash, left>>

Fail(r) ==
    /\ r.answer # "failed"
    /\ net' = (net \ {r}) \cup {[r EXCEPT !.answer = "failed", !.snap = NoDetail]}
    /\ UNCHANGED <<server, page, dash, left>>

Accept ==
    /\ \E t \in Tenants :
          /\ server[t].other = "invited"
          /\ server' = [server EXCEPT ![t].other = "member"]
    /\ UNCHANGED <<page, dash, net, left>>

-----------------------------------------------------------------------------
Serve == \E r \in net : Handle(r) \/ Fail(r)

Arrive ==
    \E r \in net :
        /\ r.answer # ""
        /\ \/ Reloaded(r) \/ TellAvailable(r) \/ Provisioned(r) \/ Deleted(r)
           \/ Redeemed(r) \/ TabAnswered(r)

User ==
    \/ SwitchTenant \/ SwitchTab \/ OpenForm \/ CloseForm \/ TypePhone \/ Provision
    \/ OpenDelete \/ TypeAgentId \/ CancelDelete \/ ConfirmDelete
    \/ OpenRedeem \/ CloseRedeem \/ Redeem \/ TabRequest

Quiet == net = {} /\ ~dash.timer /\ UNCHANGED vars

Next == User \/ AskAvailable \/ Serve \/ Arrive \/ Accept \/ Quiet

Spec == Init /\ [][Next]_vars

(* Requests are handled and answered, timers fire; the user owes nothing. *)
FairSpec == Spec /\ WF_vars(AskAvailable) /\ WF_vars(Serve) /\ WF_vars(Arrive)

-----------------------------------------------------------------------------
(* A page that is neither loading nor showing an error has a detail to show: *)
(* "if (!detail) return null" never blanks it.                               *)
NeverBlank ==
    page.tenant # None /\ ~page.loading /\ ~page.error => page.detail # NoDetail

Mine(op) == {r \in net : r.op = op /\ r.alive}

(* What the dashboard is doing is on the screen with it and can still        *)
(* finish: over its stream the form is drawn whenever the page has the plan  *)
(* and the role to draw one, the modal names the agent being deleted, and a  *)
(* spinner or a disabled button has its timer or its request out.            *)
InFlightIsShown ==
    /\ dash.provisioning =>
          /\ OnDashboard(page) /\ Mine("provision") # {}
          /\ AdminOrOwner /\ page.detail.plan => FormShown
    /\ dash.deletingNow =>
          OnDashboard(page) /\ \E r \in Mine("delete") : r.arg = dash.deleting
    /\ dash.redeeming => OnDashboard(page) /\ dash.redeem /\ Mine("redeem") # {}
    /\ dash.checking => dash.timer \/ Mine("check") # {}

(* Does not hold (README): the form and its progress stay on the screen as   *)
(* long as their stream runs, as "the NDJSON stream would orphan otherwise"  *)
(* (383) asks. A reload that lost the dashboard's half hides them.           *)
StreamIsShown == dash.provisioning => FormShown

(* The loading screen has a reload out that will end it, were it one for the *)
(* workspace shown before: what LoadingEnds rests on.                        *)
LoadingHasCause == page.loading => \E r \in net : r.op = "reload" /\ r.mode = "loud"

(* The loading screen always gives way. *)
LoadingEnds == page.loading ~> ~page.loading

(* Does not hold (README): "submit stays disabled while we're mid-flight so  *)
(* the user can't race the check": while the number typed is being asked     *)
(* about, Create is disabled.                                                *)
SubmitWaitsForCheck ==
    (\E r \in Mine("check") : r.arg = dash.phone) => ~CanProvision
=============================================================================

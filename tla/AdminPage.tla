----------------------------- MODULE AdminPage -----------------------------
(* The superadmin's panel (pages/AdminPage.tsx): an overview that every      *)
(* change loads again behind a loading screen, a modal for the details of an *)
(* agent, two that ask before an agent is deleted or given another model,    *)
(* and tabs with a state of their own. The loading screen unmounts the tab   *)
(* and the modals; what the modals are about stays with the page.            *)
EXTENDS Naturals, FiniteSets

CONSTANTS
    Agents,
    Legacy,     \* agents without a workspace
    None,       \* no agent
    MaxNet,     \* bound: requests out at once
    MaxUser     \* bound: what the administrator does

VARIABLES
    server,     \* the agents there are
    admin,      \* the page's state
    tab,        \* the state of the tab that is mounted
    net,        \* requests out, handled by the server or not
    left        \* what the administrator may still do (bound)

vars == <<server, admin, tab, net, left>>

Tabs == {"agents", "users", "coupons"}

Ops == {"reload", "detail", "delete", "switch", "rotate", "promote", "grant",
        "coupons", "toggle", "create"}

(* "alive" while the tab that sent it is mounted; "ends" is the modal whose  *)
(* handler awaits a reload; "snap" the agents a reload has seen.             *)
Requests ==
    [op : Ops, agent : Agents \cup {None}, alive : BOOLEAN,
     ends : {"", "delete", "switch"}, answer : {"", "ok", "failed"}, snap : SUBSET Agents]

Sent(op, agent) ==
    [op |-> op, agent |-> agent, alive |-> TRUE, ends |-> "", answer |-> "", snap |-> {}]

(* A tab just mounted; the coupons tab loads its list. *)
Fresh == [grant |-> None, granting |-> FALSE, loading |-> TRUE, create |-> "off"]

TypeOK ==
    /\ server \subseteq Agents
    /\ admin \in [loading : BOOLEAN, known : BOOLEAN, error : BOOLEAN, rows : SUBSET Agents,
                  tab : Tabs, selected : Agents \cup {None}, detail : Agents \cup {None},
                  deleting : Agents \cup {None}, confirmed : BOOLEAN, deletingNow : BOOLEAN,
                  switching : Agents \cup {None}, switchingNow : BOOLEAN]
    /\ tab \in [grant : Agents \cup {None}, granting : BOOLEAN, loading : BOOLEAN,
                create : {"off", "blank", "sent", "made"}]
    /\ net \subseteq Requests
    /\ left \in 0 .. MaxUser

Init ==
    /\ server = Agents
    /\ admin \in [loading : {TRUE}, known : {FALSE}, error : {FALSE}, rows : {{}}, tab : Tabs,
                  selected : {None}, detail : {None}, deleting : {None}, confirmed : {FALSE},
                  deletingNow : {FALSE}, switching : {None}, switchingNow : {FALSE}]
    /\ tab = Fresh
    /\ net = {Sent("reload", None)}
    /\ left = MaxUser

-----------------------------------------------------------------------------
(* What is drawn. *)

Drawn(a) == ~a.loading /\ a.known

Covered ==
    \/ admin.selected # None \/ admin.deleting # None \/ admin.switching # None
    \/ tab.grant # None

Room == Cardinality(net) < MaxNet

UserActs == left > 0 /\ left' = left - 1

(* A handler leaves the page "a", the tab "t" and the requests "n". A tab    *)
(* that goes, behind the loading screen or for another, leaves its requests  *)
(* to answer nobody; one that comes is fresh; the confirmation typed in the  *)
(* delete modal goes with it.                                                *)
Render(a, t, n) ==
    LET stays == Drawn(a) /\ Drawn(admin) /\ a.tab = admin.tab
        comes == Drawn(a) /\ ~stays
        old   == IF stays THEN n ELSE {[r EXCEPT !.alive = FALSE] : r \in n}
    IN  /\ admin' = [a EXCEPT !.confirmed = @ /\ Drawn(a)]
        /\ tab' = IF stays THEN t ELSE Fresh
        /\ net' = old \cup (IF comes /\ a.tab = "coupons" THEN {Sent("coupons", None)} ELSE {})

(* reload, awaited by the handler of the modal "ends". *)
Reload(a, t, n, ends) ==
    Render([a EXCEPT !.loading = TRUE, !.error = FALSE], t,
           n \cup {[Sent("reload", None) EXCEPT !.ends = ends]})

\* What a reload's answer leaves of the modals that awaited it.
Awaited(a, r) ==
    [a EXCEPT !.deletingNow = @ /\ r.ends # "delete",
              !.switchingNow = @ /\ r.ends # "switch"]

\* Mutant: a reload that fails says nothing.
Reloaded_Silent(r) ==
    /\ r.op = "reload"
    /\ LET a == IF r.answer = "failed" THEN admin
                ELSE [admin EXCEPT !.known = TRUE, !.rows = r.snap]
       IN  Render(Awaited([a EXCEPT !.loading = FALSE], r), tab, net \ {r})
    /\ UNCHANGED <<server, left>>

\* Mutant: a reload that fails goes on loading.
Reloaded_StillLoading(r) ==
    /\ r.op = "reload"
    /\ LET a == IF r.answer = "failed" THEN [admin EXCEPT !.error = TRUE]
                ELSE [admin EXCEPT !.known = TRUE, !.rows = r.snap, !.loading = FALSE]
       IN  Render(Awaited(a, r), tab, net \ {r})
    /\ UNCHANGED <<server, left>>

(* A failed reload leaves its error behind the rows there were. *)
Reloaded(r) ==
    /\ r.op = "reload"
    /\ LET a == IF r.answer = "failed" THEN [admin EXCEPT !.error = TRUE]
                ELSE [admin EXCEPT !.known = TRUE, !.rows = r.snap]
       IN  Render(Awaited([a EXCEPT !.loading = FALSE], r), tab, net \ {r})
    /\ UNCHANGED <<server, left>>

Refresh ==
    /\ UserActs /\ Room
    /\ Drawn(admin) /\ ~Covered
    /\ Reload(admin, tab, net, "")
    /\ UNCHANGED server

ShowTab ==
    /\ UserActs /\ Room
    /\ Drawn(admin) /\ ~Covered
    /\ \E name \in Tabs \ {admin.tab} : Render([admin EXCEPT !.tab = name], tab, net)
    /\ UNCHANGED server

-----------------------------------------------------------------------------
(* The details of an agent: the answer is stored whichever is selected.      *)

OnAgents == Drawn(admin) /\ ~Covered /\ admin.tab = "agents"

SelectAgent ==
    /\ UserActs /\ Room
    /\ OnAgents
    /\ \E a \in admin.rows :
          /\ admin' = [admin EXCEPT !.selected = a]
          /\ net' = net \cup {Sent("detail", a)}
    /\ UNCHANGED <<server, tab>>

CloseDetail ==
    /\ UserActs
    /\ Drawn(admin) /\ admin.selected # None
    /\ admin' = [admin EXCEPT !.selected = None, !.detail = None]
    /\ UNCHANGED <<server, tab, net>>

DetailAnswered(r) ==
    /\ r.op = "detail"
    /\ admin' = IF r.answer = "ok" THEN [admin EXCEPT !.detail = r.agent]
                ELSE [admin EXCEPT !.error = TRUE]
    /\ net' = net \ {r}
    /\ UNCHANGED <<server, tab, left>>

-----------------------------------------------------------------------------
(* Deleting an agent and switching its model: a modal, its confirmation, the *)
(* request and the reload, all of which the modal's "in progress" spans.     *)

OpenDelete ==
    /\ UserActs
    /\ OnAgents
    /\ \E a \in admin.rows \ Legacy :
          admin' = [admin EXCEPT !.deleting = a, !.confirmed = FALSE]
    /\ UNCHANGED <<server, tab, net>>

TypeAgentId ==
    /\ Drawn(admin) /\ admin.deleting # None
    /\ ~admin.confirmed /\ ~admin.deletingNow
    /\ admin' = [admin EXCEPT !.confirmed = TRUE]
    /\ UNCHANGED <<server, tab, net, left>>

CancelDelete ==
    /\ UserActs
    /\ Drawn(admin) /\ admin.deleting # None /\ ~admin.deletingNow
    /\ admin' = [admin EXCEPT !.deleting = None, !.confirmed = FALSE]
    /\ UNCHANGED <<server, tab, net>>

ConfirmDelete ==
    /\ UserActs /\ Room
    /\ Drawn(admin) /\ admin.deleting # None /\ admin.confirmed /\ ~admin.deletingNow
    /\ admin' = [admin EXCEPT !.deletingNow = TRUE]
    /\ net' = net \cup {Sent("delete", admin.deleting)}
    /\ UNCHANGED <<server, tab>>

(* The model an agent has already is no switch. *)
OpenSwitch ==
    /\ UserActs
    /\ OnAgents
    /\ \E a \in admin.rows : admin' = [admin EXCEPT !.switching = a]
    /\ UNCHANGED <<server, tab, net>>

\* Mutant: the modal can be dismissed while the model is switched.
CancelSwitch_Always ==
    /\ UserActs
    /\ Drawn(admin) /\ admin.switching # None
    /\ admin' = [admin EXCEPT !.switching = None]
    /\ UNCHANGED <<server, tab, net>>

CancelSwitch ==
    /\ UserActs
    /\ Drawn(admin) /\ admin.switching # None /\ ~admin.switchingNow
    /\ admin' = [admin EXCEPT !.switching = None]
    /\ UNCHANGED <<server, tab, net>>

ConfirmSwitch ==
    /\ UserActs /\ Room
    /\ Drawn(admin) /\ admin.switching # None /\ ~admin.switchingNow
    /\ admin' = [admin EXCEPT !.switchingNow = TRUE]
    /\ net' = net \cup {Sent("switch", admin.switching)}
    /\ UNCHANGED <<server, tab>>

DeleteAnswered(r) ==
    /\ r.op = "delete"
    /\ IF r.answer = "ok"
       THEN Reload([admin EXCEPT !.deleting = None, !.confirmed = FALSE], tab, net \ {r}, "delete")
       ELSE Render([admin EXCEPT !.deletingNow = FALSE], tab, net \ {r})
    /\ UNCHANGED <<server, left>>

SwitchAnswered(r) ==
    /\ r.op = "switch"
    /\ IF r.answer = "ok"
       THEN Reload([admin EXCEPT !.switching = None], tab, net \ {r}, "switch")
       ELSE Render([admin EXCEPT !.switchingNow = FALSE], tab, net \ {r})
    /\ UNCHANGED <<server, left>>

-----------------------------------------------------------------------------
(* Changes confirmed in a dialog of the browser: a key is rotated, which     *)
(* only alerts; a user is promoted, which reloads.                           *)

RotateKey ==
    /\ UserActs /\ Room
    /\ OnAgents
    /\ \E a \in admin.rows : net' = net \cup {Sent("rotate", a)}
    /\ UNCHANGED <<server, admin, tab>>

Promote ==
    /\ UserActs /\ Room
    /\ Drawn(admin) /\ ~Covered /\ admin.tab = "users"
    /\ net' = net \cup {Sent("promote", None)}
    /\ UNCHANGED <<server, admin, tab>>

RotatedOrPromoted(r) ==
    /\ r.op \in {"rotate", "promote"}
    /\ IF r.op = "promote" /\ r.answer = "ok"
       THEN Reload(admin, tab, net \ {r}, "")
       ELSE Render(admin, tab, net \ {r})
    /\ UNCHANGED <<server, left>>

-----------------------------------------------------------------------------
(* The modal that grants a plan, which may be closed before its answer: the  *)
(* answer then closes the one that is open by now, and reloads.              *)

OpenGrant ==
    /\ UserActs
    /\ OnAgents
    /\ \E a \in admin.rows \ Legacy : tab' = [tab EXCEPT !.grant = a, !.granting = FALSE]
    /\ UNCHANGED <<server, admin, net>>

CloseGrant ==
    /\ UserActs
    /\ Drawn(admin) /\ tab.grant # None
    /\ tab' = [tab EXCEPT !.grant = None, !.granting = FALSE]
    /\ net' = {IF r.op = "grant" THEN [r EXCEPT !.alive = FALSE] ELSE r : r \in net}
    /\ UNCHANGED <<server, admin>>

Grant ==
    /\ UserActs /\ Room
    /\ Drawn(admin) /\ tab.grant # None /\ ~tab.granting
    /\ tab' = [tab EXCEPT !.granting = TRUE]
    /\ net' = net \cup {Sent("grant", tab.grant)}
    /\ UNCHANGED <<server, admin>>

GrantAnswered(r) ==
    /\ r.op = "grant"
    /\ IF r.answer = "ok" THEN Reload(admin, tab, net \ {r}, "")
       ELSE Render(admin, [tab EXCEPT !.granting = @ /\ ~r.alive], net \ {r})
    /\ UNCHANGED <<server, left>>

-----------------------------------------------------------------------------
(* The coupons tab: its list is loaded when it is mounted and after each     *)
(* change; the form shows the code it made until it is dismissed.            *)

OnCoupons == Drawn(admin) /\ admin.tab = "coupons"

ToggleCoupon ==
    /\ UserActs /\ Room
    /\ OnCoupons /\ ~tab.loading
    /\ net' = net \cup {Sent("toggle", None)}
    /\ UNCHANGED <<server, admin, tab>>

Forgotten(n) == {IF r.op = "create" THEN [r EXCEPT !.alive = FALSE] ELSE r : r \in n}

ToggleForm ==
    /\ UserActs
    /\ OnCoupons /\ ~tab.loading
    /\ tab' = [tab EXCEPT !.create = IF @ = "off" THEN "blank" ELSE "off"]
    /\ net' = Forgotten(net)
    /\ UNCHANGED <<server, admin>>

CreateCoupon ==
    /\ UserActs /\ Room
    /\ OnCoupons /\ ~tab.loading /\ tab.create = "blank"
    /\ tab' = [tab EXCEPT !.create = "sent"]
    /\ net' = net \cup {Sent("create", None)}
    /\ UNCHANGED <<server, admin>>

(* load: while the list loads the form is not drawn; it comes back empty.    *)
LoadCoupons(t, n) ==
    Render(admin, [t EXCEPT !.loading = TRUE,
                            !.create = IF @ = "off" THEN "off" ELSE "blank"],
           Forgotten(n) \cup {Sent("coupons", None)})

(* "Done", or "Create another". *)
DismissCreated ==
    /\ UserActs /\ Room
    /\ OnCoupons /\ ~tab.loading /\ tab.create = "made"
    /\ \/ LoadCoupons([tab EXCEPT !.create = "off"], net)
       \/ Render(admin, [tab EXCEPT !.create = "blank"], net)
    /\ UNCHANGED server

CouponsAnswered(r) ==
    /\ r.op \in {"coupons", "toggle", "create"}
    /\ LET n == net \ {r}
       IN  CASE ~r.alive -> Render(admin, tab, n)
             [] r.op = "coupons" -> Render(admin, [tab EXCEPT !.loading = FALSE], n)
             [] r.op = "toggle" /\ r.answer = "ok" -> LoadCoupons(tab, n)
             [] r.op = "create" ->
                  Render(admin, [tab EXCEPT !.create =
                                    IF r.answer = "ok" THEN "made" ELSE "blank"], n)
             [] OTHER -> Render(admin, tab, n)
    /\ UNCHANGED <<server, left>>

-----------------------------------------------------------------------------
(* The server. *)
Handle(r) ==
    /\ r.answer = ""
    /\ r.agent # None => r.agent \in server
    /\ server' = IF r.op = "delete" THEN server \ {r.agent} ELSE server
    /\ net' = (net \ {r}) \cup
                 {[r EXCEPT !.answer = "ok", !.snap = IF r.op = "reload" THEN server' ELSE {}]}
    /\ UNCHANGED <<admin, tab, left>>

Fail(r) ==
    /\ r.answer # "failed"
    /\ net' = (net \ {r}) \cup {[r EXCEPT !.answer = "failed", !.snap = {}]}
    /\ UNCHANGED <<server, admin, tab, left>>

Serve == \E r \in net : Handle(r) \/ Fail(r)

Arrive ==
    \E r \in net :
        /\ r.answer # ""
        /\ \/ Reloaded(r) \/ DetailAnswered(r) \/ DeleteAnswered(r) \/ SwitchAnswered(r)
           \/ RotatedOrPromoted(r) \/ GrantAnswered(r) \/ CouponsAnswered(r)

User ==
    \/ Refresh \/ ShowTab \/ SelectAgent \/ CloseDetail
    \/ OpenDelete \/ TypeAgentId \/ CancelDelete \/ ConfirmDelete
    \/ OpenSwitch \/ CancelSwitch \/ ConfirmSwitch \/ RotateKey \/ Promote
    \/ OpenGrant \/ CloseGrant \/ Grant
    \/ ToggleCoupon \/ ToggleForm \/ CreateCoupon \/ DismissCreated

Quiet == net = {} /\ UNCHANGED vars

Next == User \/ Serve \/ Arrive \/ Quiet

Spec == Init /\ [][Next]_vars

(* Requests are handled and answered; the administrator owes nothing. *)
FairSpec == Spec /\ WF_vars(Serve) /\ WF_vars(Arrive)

-----------------------------------------------------------------------------
Out(op) == {r \in net : r.op = op}

(* "In progress" spans a request about the agent the modal names, or the     *)
(* reload that follows it. It is not for good, whatever else reloads the     *)
(* page, and while the request is out the modal cannot come to name another  *)
(* agent. The reload is about no agent: when another one ends the loading    *)
(* first, a modal opened then shows the progress of the deletion or switch   *)
(* before.                                                                   *)
ProgressHasCause ==
    /\ admin.deletingNow =>
          \/ \E r \in Out("delete") : r.agent = admin.deleting
          \/ \E r \in Out("reload") : r.ends = "delete"
    /\ admin.switchingNow =>
          \/ \E r \in Out("switch") : r.agent = admin.switching
          \/ \E r \in Out("reload") : r.ends = "switch"

(* A panel that neither loads nor shows an error has an overview to show:    *)
(* "if (!overview) return null" never blanks it.                             *)
PanelNeverBlank == admin.loading \/ admin.error \/ admin.known

(* Each loading screen has the request out that will end it: what PanelLoads *)
(* rests on.                                                                 *)
LoadingHasCause ==
    /\ admin.loading => Out("reload") # {}
    /\ OnCoupons /\ tab.loading => \E r \in Out("coupons") : r.alive

(* The loading screen gives way, the panel's and the coupons'.               *)
PanelLoads ==
    /\ admin.loading ~> ~admin.loading
    /\ OnCoupons /\ tab.loading ~> ~(OnCoupons /\ tab.loading)
=============================================================================

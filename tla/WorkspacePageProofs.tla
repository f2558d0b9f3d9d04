------------------------- MODULE WorkspacePageProofs -------------------------
(***************************************************************************)
(* Proofs about the workspace page, its panels and its coupon form, for    *)
(* any workspaces, agents, codes and bounds: the page is never blank, what *)
(* the dashboard has in flight it still shows, a form has one redemption   *)
(* out, each panel shows what was asked for last, and what is loading or   *)
(* to be judged has something out that will bring it.                      *)
(***************************************************************************)
EXTENDS MCWorkspacePage, FiniteSetTheorems, TLAPS

USE PageAssumption, PanelsAssumption

----------------------------------------------------------------------------
(* The page                                                                *)

Pages == [tenant : Tenants \cup {None}, tab : Tabs, loading : BOOLEAN,
          error : BOOLEAN, of : Tenants \cup {None},
          detail : Workspaces \cup {NoDetail}]

Dashes == [form : BOOLEAN, phone : Phones \cup {None},
           available : {"unknown", "ok", "no"}, timer : BOOLEAN, checking : BOOLEAN,
           provisioning : BOOLEAN, deleting : Agents \cup {None},
           confirmed : BOOLEAN, deletingNow : BOOLEAN,
           redeem : BOOLEAN, redeeming : BOOLEAN]

\* A page that is not loading has its detail, or an error to show.
NotBlank(p) == p.tenant # None /\ ~p.loading /\ ~p.error => p.detail # NoDetail

\* An agent is created with a phone or none, and a reload answered has a detail.
Meant(r) ==
    /\ r \in Requests
    /\ r.op = "provision" => r.arg \in Phones \cup {None}
    /\ r.op = "reload" /\ r.answer \in {"ok", "no"} => r.snap # NoDetail

\* Only a page that has had its detail asks for more than that.
Asking(p, n) == (\E r \in n : r.op # "reload") => p.detail # NoDetail

\* Each kind of work of the dashboard is shown and has its request out.
Creating(d, n) == d.provisioning => d.form /\ \E r \in n : r.op = "provision" /\ r.alive

Deleting(d, n) ==
    /\ d.confirmed \/ d.deletingNow => d.deleting # None
    /\ d.deletingNow => \E r \in n : r.op = "delete" /\ r.alive /\ r.arg = d.deleting

\* The redemption of the modal that is open, not of one closed meanwhile.
Redeeming(d, n) ==
    d.redeeming => d.redeem /\ \E r \in n : r.op = "redeem" /\ r.alive /\ r.mode # "closed"

Checking(d, n) == d.checking => d.timer \/ \E r \in n : r.op = "check" /\ r.alive

Working(d, n) == Creating(d, n) /\ Deleting(d, n) /\ Redeeming(d, n) /\ Checking(d, n)

\* A page, its dashboard and its requests that agree.
Agree(p, d, n) ==
    /\ p \in Pages /\ d \in Dashes /\ \A r \in n : Meant(r)
    /\ NotBlank(p) /\ Asking(p, n) /\ Working(d, n)

\* A timer, and work under way, belong to a dashboard that is drawn.
Busy(d) == d.timer \/ d.provisioning \/ d.deletingNow \/ d.redeeming

Drawn == Busy(dash) => OnDashboard(page)

PageInv ==
    /\ server \in [Tenants -> Workspaces] /\ left \in 0 .. MaxUser
    /\ Agree(page, dash, net) /\ Drawn

\* A workspace is not the absence of a detail.
LEMMA DetailApart == NoDetail \notin Workspaces
<1>1. SUFFICES ASSUME NoDetail \in Workspaces PROVE FALSE
  OBVIOUS
<1>2. DOMAIN NoDetail = {"of"}
  BY DEF NoDetail
<1>3. DOMAIN NoDetail = {"me", "other", "plan", "agents"}
  BY <1>1 DEF Workspaces
<1>4. QED
  BY <1>2, <1>3

\* What a request is when it is sent.
LEMMA SentFields ==
    ASSUME NEW op \in Ops, NEW at \in Tenants, NEW arg \in Agents \cup Phones \cup {None},
           op = "provision" => arg \in Phones \cup {None}
    PROVE  /\ Meant(Sent(op, at, arg))
           /\ Sent(op, at, arg).op = op /\ Sent(op, at, arg).alive
           /\ Sent(op, at, arg).arg = arg /\ Sent(op, at, arg).mode = "plain"
<1> DEFINE r == Sent(op, at, arg)
<1>1. r \in Requests
  BY DEF Sent, Requests
<1>2. /\ r.op = op /\ r.arg = arg /\ r.answer = "" /\ r.alive
      /\ r.mode = "plain"
  BY DEF Sent
<1>3. QED
  BY <1>1, <1>2 DEF Meant

\* A reload behind the loading screen, as it is sent, heard or not.
LEMMA LoudFields ==
    ASSUME NEW at \in Tenants
    PROVE  /\ Meant(Loud(at)) /\ Loud(at).op = "reload"
           /\ Meant([Loud(at) EXCEPT !.alive = FALSE])
           /\ [Loud(at) EXCEPT !.alive = FALSE].op = "reload"
<1> DEFINE s == Sent("reload", at, None)
           r == Loud(at)
           q == [r EXCEPT !.alive = FALSE]
<1>1. s \in Requests /\ s.op = "reload" /\ s.answer = ""
  BY DEF Sent, Requests, Ops
<1>2. r = [s EXCEPT !.mode = "loud"]
  BY DEF Loud
<1> HIDE DEF s, r
<1>3. r \in Requests /\ r.op = "reload" /\ r.answer = ""
  BY <1>1, <1>2 DEF Requests
<1>4. q \in Requests /\ q.op = "reload" /\ q.answer = ""
  BY <1>3 DEF Requests
<1> HIDE DEF q
<1>5. Meant(r) /\ Meant(q)
  BY <1>3, <1>4 DEF Meant
<1>6. QED
  BY <1>3, <1>4, <1>5 DEF r, q

\* A request nobody waits for any longer is still the request it was.
LEMMA DeadFields ==
    ASSUME NEW r, Meant(r)
    PROVE  /\ Meant([r EXCEPT !.alive = FALSE])
           /\ [r EXCEPT !.alive = FALSE].op = r.op
<1> DEFINE q == [r EXCEPT !.alive = FALSE]
<1>1. r \in Requests
  BY DEF Meant
<1>2. /\ q \in Requests /\ q.op = r.op /\ q.arg = r.arg /\ q.answer = r.answer
      /\ q.snap = r.snap
  BY <1>1 DEF Requests
<1> HIDE DEF q
<1>3. Meant(q)
  BY <1>2 DEF Meant
<1>4. QED
  BY <1>2, <1>3 DEF q

\* A dashboard just mounted does nothing.
LEMMA FreshAgrees == Fresh \in Dashes /\ ~Busy(Fresh) /\ \A n : Working(Fresh, n)
<1>1. Fresh \in Dashes
  BY DEF Fresh, Dashes
<1>2. /\ ~Fresh.timer /\ ~Fresh.checking /\ ~Fresh.provisioning /\ ~Fresh.confirmed
      /\ ~Fresh.deletingNow /\ ~Fresh.redeeming
  BY DEF Fresh
<1>3. QED
  BY <1>1, <1>2 DEF Busy, Working, Creating, Deleting, Redeeming, Checking

\* What a handler leaves agrees, and so does what is drawn of it: a tab that
\* goes takes its timer and its requests' hearer with it.
LEMMA Rendered ==
    ASSUME NEW p, NEW d, NEW n, Agree(p, d, n), Drawn, Busy(d) => Busy(dash),
           Render(p, d, n)
    PROVE  Agree(page, dash, net)' /\ Drawn'
<1> DEFINE gone == OnDashboard(page) /\ ~OnDashboard(p)
<1>1. /\ page' = p
      /\ dash' = IF gone THEN Fresh ELSE d
      /\ net' = IF gone THEN {[r EXCEPT !.alive = FALSE] : r \in n} ELSE n
  BY DEF Render
<1>2. CASE gone
  <2>1. dash' = Fresh /\ net' = {[r EXCEPT !.alive = FALSE] : r \in n}
    BY <1>1, <1>2
  <2>2. \A q \in net' : Meant(q) /\ \E r \in n : q.op = r.op
    BY <2>1, DeadFields DEF Agree
  <2>3. Asking(p, net')
    BY <2>2 DEF Agree, Asking
  <2>4. QED
    BY <1>1, <2>1, <2>2, <2>3, FreshAgrees DEF Agree, Drawn
<1>3. CASE ~gone
  <2>1. dash' = d /\ net' = n
    BY <1>1, <1>3
  <2>2. Drawn'
    BY <1>1, <1>3, <2>1 DEF Drawn, OnDashboard, Shown
  <2>3. QED
    BY <1>1, <2>1, <2>2
<1>4. QED
  BY <1>2, <1>3

\* More requests out change nothing that is at work.
LEMMA WorkingMore ==
    ASSUME NEW d, NEW n, NEW m, n \subseteq m, Working(d, n)
    PROVE  Working(d, m)
BY DEF Working, Creating, Deleting, Redeeming, Checking

\* One more request that the page may send leaves page and requests agreeing.
LEMMA AgreeMore ==
    ASSUME NEW p, NEW d, NEW n, NEW q, Agree(p, d, n), Meant(q),
           q.op = "reload" \/ p.detail # NoDetail
    PROVE  Agree(p, d, n \cup {q})
<1>1. Working(d, n \cup {q})
  BY WorkingMore DEF Agree
<1>2. Asking(p, n \cup {q})
  BY DEF Agree, Asking
<1>3. QED
  BY <1>1, <1>2 DEF Agree

\* A request that is no work of the dashboard's may go.
LEMMA AgreeLess ==
    ASSUME NEW p, NEW d, NEW n, NEW r, Agree(p, d, n),
           r.op \notin {"provision", "delete", "redeem", "check"} \/ ~r.alive
    PROVE  Agree(p, d, n \ {r})
<1>1. Working(d, n \ {r})
  BY DEF Agree, Working, Creating, Deleting, Redeeming, Checking
<1>2. Asking(p, n \ {r})
  BY DEF Agree, Asking
<1>3. QED
  BY <1>1, <1>2 DEF Agree

\* The page may turn to anything that is not blank and keeps its detail.
LEMMA AgreePage ==
    ASSUME NEW p, NEW q \in Pages, NEW d, NEW n, Agree(p, d, n), NotBlank(q),
           p.detail # NoDetail => q.detail # NoDetail
    PROVE  Agree(q, d, n)
BY DEF Agree, Asking

\* The dashboard may change as long as its work is still there.
LEMMA AgreeDash ==
    ASSUME NEW p, NEW d, NEW e \in Dashes, NEW n, Agree(p, d, n), Working(e, n)
    PROVE  Agree(p, e, n)
BY DEF Agree

\* onChanged after any answer but a reload's: the page had its detail.
LEMMA ChangedAgrees ==
    ASSUME PageInv, NEW r \in net, r.op # "reload", NEW d, Agree(page, d, net \ {r}),
           Busy(d) => Busy(dash), Changed(r, d)
    PROVE  Agree(page, dash, net)' /\ Drawn'
<1> DEFINE p == [page EXCEPT !.error = FALSE]
           s == Sent("reload", r.at, None)
           n == (net \ {r}) \cup {s}
<1>1. r.at \in Tenants
  BY DEF PageInv, Agree, Meant, Requests
<1>2. Meant(s) /\ s.op = "reload"
  BY <1>1, SentFields DEF Ops
<1>3. page \in Pages /\ page.detail # NoDetail
  BY DEF PageInv, Agree, Asking
<1>4. p \in Pages /\ p.detail = page.detail
  BY <1>3 DEF Pages
<1>5. NotBlank(p)
  BY <1>3, <1>4 DEF NotBlank
<1>6. Render(p, d, n)
  BY DEF Changed
<1> HIDE DEF p, s
<1>7. Agree(p, d, net \ {r})
  BY <1>3, <1>4, <1>5, AgreePage
<1>8. Agree(p, d, n)
  BY <1>2, <1>7, AgreeMore
<1>9. QED
  BY <1>6, <1>8, Rendered DEF PageInv

\* The user's budget stays in its bounds.
LEMMA UserLeft ==
    ASSUME left \in 0 .. MaxUser, UserActs
    PROVE  left' \in 0 .. MaxUser
BY DEF UserActs

\* The page turned to another workspace, behind the loading screen.
LEMMA SwitchTenantKeeps ==
    ASSUME PageInv, SwitchTenant
    PROVE  PageInv'
<1>1. UserActs /\ UNCHANGED server
  BY DEF SwitchTenant
<1>2. PICK t \in Tenants :
          Render([page EXCEPT !.tenant = t, !.tab = "dashboard", !.loading = TRUE,
                              !.error = FALSE], dash, net \cup {Loud(t)})
  BY DEF SwitchTenant
<1> DEFINE p == [page EXCEPT !.tenant = t, !.tab = "dashboard", !.loading = TRUE,
                             !.error = FALSE]
<1>3. page \in Pages
  BY DEF PageInv, Agree
<1>4. p \in Pages /\ p.detail = page.detail /\ p.loading
  BY <1>3 DEF Pages, Tabs
<1>5. Render(p, dash, net \cup {Loud(t)})
  BY <1>2
<1> HIDE DEF p
<1>6. Agree(p, dash, net)
  BY <1>4, AgreePage DEF PageInv, NotBlank
<1>7. Agree(p, dash, net \cup {Loud(t)})
  BY <1>6, LoudFields, AgreeMore
<1>8. Agree(page, dash, net)' /\ Drawn'
  BY <1>5, <1>7, Rendered DEF PageInv
<1>9. QED
  BY <1>1, <1>8, UserLeft DEF PageInv

\* Another tab.
LEMMA SwitchTabKeeps ==
    ASSUME PageInv, SwitchTab
    PROVE  PageInv'
<1>1. UserActs /\ UNCHANGED server /\ Shown(page)
  BY DEF SwitchTab
<1>2. PICK tab \in Tabs : Render([page EXCEPT !.tab = tab], dash, net)
  BY DEF SwitchTab
<1> DEFINE p == [page EXCEPT !.tab = tab]
<1>3. page \in Pages
  BY DEF PageInv, Agree
<1>4. p \in Pages /\ p.detail = page.detail
  BY <1>3 DEF Pages
<1>5. Render(p, dash, net)
  BY <1>2
<1> HIDE DEF p
<1>6. Agree(p, dash, net)
  BY <1>1, <1>4, AgreePage DEF PageInv, NotBlank, Shown
<1>7. Agree(page, dash, net)' /\ Drawn'
  BY <1>5, <1>6, Rendered DEF PageInv
<1>8. QED
  BY <1>1, <1>7, UserLeft DEF PageInv

\* A reload's answer is stored, whatever the page is at: with it, or an error,
\* loading may end.
LEMMA ReloadedKeeps ==
    ASSUME PageInv, NEW r \in net, r.answer # "", Reloaded(r)
    PROVE  PageInv'
<1> DEFINE s == IF r.answer = "failed" THEN [page EXCEPT !.error = TRUE]
                ELSE [page EXCEPT !.detail = r.snap, !.of = r.at]
           p == [s EXCEPT !.loading = @ /\ r.mode # "loud"]
<1>1. /\ r \in Requests /\ r.op = "reload" /\ page \in Pages
      /\ r.answer # "failed" => r.snap # NoDetail
  BY DEF PageInv, Agree, Meant, Reloaded, Requests
<1>2. /\ s \in Pages
      /\ r.answer = "failed" => s.error /\ s.detail = page.detail
      /\ r.answer # "failed" => s.detail # NoDetail
  <2>1. CASE r.answer = "failed"
    <3>1. s = [page EXCEPT !.error = TRUE]
      BY <2>1
    <3>2. QED
      BY <1>1, <2>1, <3>1 DEF Pages
  <2>2. CASE r.answer # "failed"
    <3>1. s = [page EXCEPT !.detail = r.snap, !.of = r.at]
      BY <2>2
    <3>2. r.snap \in Workspaces \cup {NoDetail} /\ r.at \in Tenants
      BY <1>1 DEF Requests
    <3>3. s \in Pages /\ s.detail = r.snap
      BY <1>1, <3>1, <3>2 DEF Pages
    <3>4. QED
      BY <1>1, <2>2, <3>3
  <2>3. QED
    BY <2>1, <2>2
<1>3. Render(p, dash, net \ {r}) /\ UNCHANGED <<server, left>>
  BY DEF Reloaded
<1> HIDE DEF s
<1>4. p \in Pages /\ p.detail = s.detail /\ p.error = s.error
  BY <1>2 DEF Pages
<1> HIDE DEF p
<1>5. NotBlank(p) /\ (page.detail # NoDetail => p.detail # NoDetail)
  BY <1>2, <1>4 DEF NotBlank
<1>6. Agree(p, dash, net \ {r})
  BY <1>1, <1>4, <1>5, AgreePage, AgreeLess DEF PageInv
<1>7. QED
  BY <1>3, <1>6, Rendered DEF PageInv

\* A step of the user's on the dashboard alone.
LEMMA DashKeeps ==
    ASSUME PageInv, dash' \in Dashes, Working(dash', net), UNCHANGED <<server, page, net>>,
           Busy(dash') => Busy(dash) \/ OnDashboard(page), left' \in 0 .. MaxUser
    PROVE  PageInv'
<1>1. Agree(page, dash', net)
  BY AgreeDash DEF PageInv
<1>2. Agree(page, dash, net)'
  BY <1>1
<1>3. Drawn'
  BY DEF PageInv, Drawn
<1>4. QED
  BY <1>2, <1>3 DEF PageInv

\* The effects on the parsed number: its timer and its spinner go together.
LEMMA TypedFields ==
    ASSUME NEW d \in Dashes, NEW q \in Phones \cup {None}, NEW n, Working(d, n)
    PROVE  /\ Typed(d, q) \in Dashes /\ Working(Typed(d, q), n)
           /\ q = None /\ Busy(Typed(d, q)) => Busy(d)
<1> DEFINE e == [d EXCEPT !.phone = q, !.available = "unknown",
                          !.timer = q # None, !.checking = q # None]
<1>1. CASE q = d.phone
  BY <1>1 DEF Typed
<1>2. CASE q # d.phone
  <2>1. Typed(d, q) = e
    BY <1>2 DEF Typed
  <2>2. /\ e \in Dashes
        /\ e.timer = (q # None) /\ e.checking = (q # None)
        /\ e.form = d.form /\ e.provisioning = d.provisioning /\ e.deleting = d.deleting
        /\ e.confirmed = d.confirmed /\ e.deletingNow = d.deletingNow
        /\ e.redeem = d.redeem /\ e.redeeming = d.redeeming
    BY DEF Dashes
  <2> HIDE DEF e
  <2>3. Working(e, n)
    BY <2>2 DEF Working, Creating, Deleting, Redeeming, Checking
  <2>4. QED
    BY <2>1, <2>2, <2>3 DEF Busy
<1>3. QED
  BY <1>1, <1>2

\* The form that creates an agent: opened, closed, typed in.
LEMMA FormKeeps ==
    ASSUME PageInv, OpenForm \/ CloseForm \/ TypePhone
    PROVE  PageInv'
<1>1. dash \in Dashes /\ Working(dash, net) /\ left \in 0 .. MaxUser
  BY DEF PageInv, Agree
<1>2. UserActs /\ UNCHANGED <<server, page, net>>
  BY DEF OpenForm, CloseForm, TypePhone
<1>3. CASE OpenForm
  <2>1. dash' = [dash EXCEPT !.form = TRUE]
    BY <1>3 DEF OpenForm
  <2>2. /\ dash' \in Dashes /\ dash'.timer = dash.timer /\ dash'.checking = dash.checking
        /\ dash'.form /\ dash'.deleting = dash.deleting
        /\ dash'.confirmed = dash.confirmed /\ dash'.deletingNow = dash.deletingNow
        /\ dash'.redeem = dash.redeem /\ dash'.redeeming = dash.redeeming
        /\ dash'.provisioning = dash.provisioning
    BY <1>1, <2>1 DEF Dashes
  <2>3. Working(dash', net)
    BY <1>1, <2>2 DEF Working, Creating, Deleting, Redeeming, Checking
  <2>4. QED
    BY <1>1, <1>2, <2>2, <2>3, UserLeft, DashKeeps DEF Busy
<1>4. CASE CloseForm
  <2>1. dash' = [dash EXCEPT !.form = FALSE] /\ ~dash.provisioning
    BY <1>4 DEF CloseForm
  <2>2. /\ dash' \in Dashes /\ dash'.timer = dash.timer /\ dash'.checking = dash.checking
        /\ ~dash'.provisioning /\ dash'.deleting = dash.deleting
        /\ dash'.confirmed = dash.confirmed /\ dash'.deletingNow = dash.deletingNow
        /\ dash'.redeem = dash.redeem /\ dash'.redeeming = dash.redeeming
    BY <1>1, <2>1 DEF Dashes
  <2>3. Working(dash', net)
    BY <1>1, <2>2 DEF Working, Creating, Deleting, Redeeming, Checking
  <2>4. QED
    BY <1>1, <1>2, <2>2, <2>3, UserLeft, DashKeeps DEF Busy
<1>5. CASE TypePhone
  <2>1. OnDashboard(page) /\ \E q \in Phones \cup {None} : dash' = Typed(dash, q)
    BY <1>5 DEF TypePhone, FormShown
  <2>2. dash' \in Dashes /\ Working(dash', net)
    BY <1>1, <2>1, TypedFields
  <2>3. QED
    BY <1>1, <1>2, <2>1, <2>2, UserLeft, DashKeeps DEF Busy
<1>6. QED
  BY <1>3, <1>4, <1>5

\* A dashboard that asks: with the request out its work is under way.
LEMMA AskKeeps ==
    ASSUME PageInv, NEW q, Meant(q), page.detail # NoDetail,
           dash' \in Dashes, Working(dash', net \cup {q}), net' = net \cup {q},
           UNCHANGED <<server, page>>, Busy(dash') => OnDashboard(page), left' \in 0 .. MaxUser
    PROVE  PageInv'
<1>1. Agree(page, dash, net \cup {q})
  BY AgreeMore DEF PageInv
<1>2. Agree(page, dash', net \cup {q})
  BY <1>1, AgreeDash
<1>3. Agree(page, dash, net)'
  BY <1>2
<1>4. Drawn'
  BY DEF PageInv, Drawn
<1>5. QED
  BY <1>3, <1>4 DEF PageInv

\* What is on the dashboard has its workspace and its detail.
LEMMA OnDashboardHas ==
    ASSUME PageInv, OnDashboard(page)
    PROVE  page.tenant \in Tenants /\ page.detail # NoDetail
BY DEF PageInv, Agree, Pages, OnDashboard, Shown

\* The debounce ends: the check takes over the spinner.
LEMMA AskAvailableKeeps ==
    ASSUME PageInv, AskAvailable
    PROVE  PageInv'
<1> DEFINE q == Sent("check", page.tenant, dash.phone)
<1>1. /\ dash' = [dash EXCEPT !.timer = FALSE] /\ net' = net \cup {q}
      /\ UNCHANGED <<server, page, left>> /\ dash.timer
  BY DEF AskAvailable
<1>2. OnDashboard(page) /\ page.tenant \in Tenants /\ page.detail # NoDetail
  BY <1>1, OnDashboardHas DEF PageInv, Drawn, Busy
<1>3. dash \in Dashes /\ Working(dash, net) /\ left \in 0 .. MaxUser
  BY DEF PageInv, Agree
<1>4. /\ dash' \in Dashes /\ ~dash'.timer /\ dash'.form = dash.form
      /\ dash'.provisioning = dash.provisioning /\ dash'.deleting = dash.deleting
      /\ dash'.confirmed = dash.confirmed /\ dash'.deletingNow = dash.deletingNow
      /\ dash'.redeem = dash.redeem /\ dash'.redeeming = dash.redeeming
      /\ dash.phone \in Phones \cup {None}
  BY <1>1, <1>3 DEF Dashes
<1>5. Meant(q) /\ q.op = "check" /\ q.alive
  BY <1>2, <1>4, SentFields DEF Ops
<1> HIDE DEF q
<1>6. Working(dash', net \cup {q})
  BY <1>3, <1>4, <1>5 DEF Working, Creating, Deleting, Redeeming, Checking
<1>7. QED
  BY <1>1, <1>2, <1>3, <1>4, <1>5, <1>6, AskKeeps DEF Busy

\* The stream that creates an agent is out while the form stays open over it.
LEMMA ProvisionKeeps ==
    ASSUME PageInv, Provision
    PROVE  PageInv'
<1> DEFINE q == Sent("provision", page.tenant, dash.phone)
<1>1. /\ dash' = [dash EXCEPT !.provisioning = TRUE] /\ net' = net \cup {q}
      /\ UNCHANGED <<server, page>> /\ UserActs /\ OnDashboard(page) /\ dash.form
  BY DEF Provision, FormShown
<1>2. page.tenant \in Tenants /\ page.detail # NoDetail
  BY <1>1, OnDashboardHas
<1>3. dash \in Dashes /\ Working(dash, net) /\ left' \in 0 .. MaxUser
  BY <1>1, UserLeft DEF PageInv, Agree
<1>4. /\ dash' \in Dashes /\ dash'.timer = dash.timer /\ dash'.checking = dash.checking
      /\ dash'.form /\ dash'.deleting = dash.deleting
      /\ dash'.confirmed = dash.confirmed /\ dash'.deletingNow = dash.deletingNow
      /\ dash'.redeem = dash.redeem /\ dash'.redeeming = dash.redeeming
      /\ dash.phone \in Phones \cup {None}
  BY <1>1, <1>3 DEF Dashes
<1>5. Meant(q) /\ q.op = "provision" /\ q.alive
  BY <1>2, <1>4, SentFields DEF Ops
<1> HIDE DEF q
<1>6. Working(dash', net \cup {q})
  BY <1>3, <1>4, <1>5 DEF Working, Creating, Deleting, Redeeming, Checking
<1>7. QED
  BY <1>1, <1>2, <1>3, <1>4, <1>5, <1>6, AskKeeps DEF Busy

\* The modal that deletes an agent: opened, confirmed by typing, cancelled.
LEMMA DeleteModalKeeps ==
    ASSUME PageInv, OpenDelete \/ TypeAgentId \/ CancelDelete
    PROVE  PageInv'
<1>1. dash \in Dashes /\ Working(dash, net) /\ left \in 0 .. MaxUser
  BY DEF PageInv, Agree
<1>2. UNCHANGED <<server, page, net>>
  BY DEF OpenDelete, TypeAgentId, CancelDelete
<1>3. left' \in 0 .. MaxUser
  BY <1>1, UserLeft DEF OpenDelete, TypeAgentId, CancelDelete
<1>4. ~dash.deletingNow
  BY <1>1 DEF OpenDelete, TypeAgentId, CancelDelete, Covered, Working, Deleting
<1>5. /\ dash' \in Dashes /\ dash'.timer = dash.timer /\ dash'.checking = dash.checking
      /\ dash'.form = dash.form /\ dash'.provisioning = dash.provisioning
      /\ dash'.confirmed => dash'.deleting # None
      /\ ~dash'.deletingNow
      /\ dash'.redeem = dash.redeem /\ dash'.redeeming = dash.redeeming
  <2>1. CASE OpenDelete
    <3>1. PICK a \in Agents : dash' = [dash EXCEPT !.deleting = a, !.confirmed = FALSE]
      BY <2>1 DEF OpenDelete
    <3>2. QED
      BY <1>1, <1>4, <3>1 DEF Dashes
  <2>2. CASE TypeAgentId
    BY <1>1, <1>4, <2>2 DEF TypeAgentId, Dashes
  <2>3. CASE CancelDelete
    BY <1>1, <1>4, <2>3 DEF CancelDelete, Dashes
  <2>4. QED
    BY <2>1, <2>2, <2>3
<1>6. Working(dash', net)
  BY <1>1, <1>5 DEF Working, Creating, Deleting, Redeeming, Checking
<1>7. QED
  BY <1>2, <1>3, <1>5, <1>6, DashKeeps DEF Busy

\* The deletion is out while its modal names the agent.
LEMMA ConfirmDeleteKeeps ==
    ASSUME PageInv, ConfirmDelete
    PROVE  PageInv'
<1> DEFINE q == Sent("delete", page.tenant, dash.deleting)
<1>1. /\ dash' = [dash EXCEPT !.deletingNow = TRUE] /\ net' = net \cup {q}
      /\ UNCHANGED <<server, page>> /\ UserActs /\ OnDashboard(page) /\ dash.confirmed
  BY DEF ConfirmDelete
<1>2. page.tenant \in Tenants /\ page.detail # NoDetail
  BY <1>1, OnDashboardHas
<1>3. dash \in Dashes /\ Working(dash, net) /\ left' \in 0 .. MaxUser
  BY <1>1, UserLeft DEF PageInv, Agree
<1>4. /\ dash' \in Dashes /\ dash'.timer = dash.timer /\ dash'.checking = dash.checking
      /\ dash'.form = dash.form /\ dash'.provisioning = dash.provisioning
      /\ dash'.deleting = dash.deleting
      /\ dash'.redeem = dash.redeem /\ dash'.redeeming = dash.redeeming
      /\ dash.deleting \in Agents \cup {None}
  BY <1>1, <1>3 DEF Dashes
<1>5. dash.deleting # None
  BY <1>1, <1>3 DEF Working, Deleting
<1>6. Meant(q) /\ q.op = "delete" /\ q.alive /\ q.arg = dash.deleting
  BY <1>2, <1>4, SentFields DEF Ops
<1> HIDE DEF q
<1>7. Working(dash', net \cup {q})
  BY <1>3, <1>4, <1>5, <1>6 DEF Working, Creating, Deleting, Redeeming, Checking
<1>8. QED
  BY <1>1, <1>2, <1>3, <1>4, <1>6, <1>7, AskKeeps DEF Busy

\* The plan's modal opened.
LEMMA OpenRedeemKeeps ==
    ASSUME PageInv, OpenRedeem
    PROVE  PageInv'
<1>1. dash \in Dashes /\ Working(dash, net) /\ left \in 0 .. MaxUser
  BY DEF PageInv, Agree
<1>2. /\ UserActs /\ UNCHANGED <<server, page, net>>
      /\ dash' = [dash EXCEPT !.redeem = TRUE, !.redeeming = FALSE]
  BY DEF OpenRedeem
<1>3. /\ dash' \in Dashes /\ dash'.timer = dash.timer /\ dash'.checking = dash.checking
      /\ dash'.form = dash.form /\ dash'.provisioning = dash.provisioning
      /\ dash'.deleting = dash.deleting /\ dash'.confirmed = dash.confirmed
      /\ dash'.deletingNow = dash.deletingNow /\ ~dash'.redeeming
  BY <1>1, <1>2 DEF Dashes
<1>4. Working(dash', net)
  BY <1>1, <1>3 DEF Working, Creating, Deleting, Redeeming, Checking
<1>5. QED
  BY <1>1, <1>2, <1>3, <1>4, UserLeft, DashKeeps DEF Busy

\* A redemption whose modal was closed is no longer that of the one open.
LEMMA ClosedFields ==
    ASSUME NEW r, Meant(r), NEW q, q = [r EXCEPT !.mode = "closed"]
    PROVE  Meant(q) /\ q.op = r.op /\ q.alive = r.alive /\ q.arg = r.arg
<1>1. r \in Requests
  BY DEF Meant
<1>2. /\ q \in Requests /\ q.op = r.op /\ q.arg = r.arg /\ q.answer = r.answer
      /\ q.alive = r.alive /\ q.snap = r.snap
  BY <1>1 DEF Requests
<1>3. QED
  BY <1>2 DEF Meant

\* The plan's modal closed, its redemption out or not.
LEMMA CloseRedeemKeeps ==
    ASSUME PageInv, CloseRedeem
    PROVE  PageInv'
<1> DEFINE turned(r) == IF r.op = "redeem" THEN [r EXCEPT !.mode = "closed"] ELSE r
<1>1. /\ UserActs /\ UNCHANGED <<server, page>> /\ OnDashboard(page)
      /\ dash' = [dash EXCEPT !.redeem = FALSE, !.redeeming = FALSE]
      /\ net' = {turned(r) : r \in net}
  BY DEF CloseRedeem
<1>2. dash \in Dashes /\ Working(dash, net) /\ left' \in 0 .. MaxUser
  BY <1>1, UserLeft DEF PageInv, Agree
<1>3. /\ dash' \in Dashes /\ dash'.timer = dash.timer /\ dash'.checking = dash.checking
      /\ dash'.form = dash.form /\ dash'.provisioning = dash.provisioning
      /\ dash'.deleting = dash.deleting /\ dash'.confirmed = dash.confirmed
      /\ dash'.deletingNow = dash.deletingNow /\ ~dash'.redeeming
  BY <1>1, <1>2 DEF Dashes
<1>4. \A r \in net : /\ Meant(turned(r)) /\ turned(r).op = r.op
                     /\ turned(r).alive = r.alive /\ turned(r).arg = r.arg
  BY ClosedFields DEF PageInv, Agree
<1> HIDE DEF turned
<1>5. \A r \in net : turned(r) \in net'
  BY <1>1
<1>6. \A q \in net' : Meant(q) /\ \E r \in net : q.op = r.op
  BY <1>1, <1>4
<1>7. Working(dash', net')
  BY <1>2, <1>3, <1>4, <1>5 DEF Working, Creating, Deleting, Redeeming, Checking
<1>8. Asking(page, net')
  BY <1>6 DEF PageInv, Agree, Asking
<1>9. Agree(page, dash, net)' /\ Drawn'
  BY <1>1, <1>3, <1>6, <1>7, <1>8 DEF PageInv, Agree, Drawn
<1>10. QED
  BY <1>1, <1>2, <1>9 DEF PageInv

\* The redemption is out while its modal is open.
LEMMA RedeemKeeps ==
    ASSUME PageInv, Redeem
    PROVE  PageInv'
<1> DEFINE q == Sent("redeem", page.tenant, None)
<1>1. /\ dash' = [dash EXCEPT !.redeeming = TRUE] /\ net' = net \cup {q}
      /\ UNCHANGED <<server, page>> /\ UserActs /\ OnDashboard(page) /\ dash.redeem
  BY DEF Redeem
<1>2. page.tenant \in Tenants /\ page.detail # NoDetail
  BY <1>1, OnDashboardHas
<1>3. dash \in Dashes /\ Working(dash, net) /\ left' \in 0 .. MaxUser
  BY <1>1, UserLeft DEF PageInv, Agree
<1>4. /\ dash' \in Dashes /\ dash'.timer = dash.timer /\ dash'.checking = dash.checking
      /\ dash'.form = dash.form /\ dash'.provisioning = dash.provisioning
      /\ dash'.deleting = dash.deleting /\ dash'.confirmed = dash.confirmed
      /\ dash'.deletingNow = dash.deletingNow /\ dash'.redeem
  BY <1>1, <1>3 DEF Dashes
<1>5. Meant(q) /\ q.op = "redeem" /\ q.alive /\ q.mode # "closed"
  BY <1>2, SentFields DEF Ops
<1> HIDE DEF q
<1>6. Working(dash', net \cup {q})
  BY <1>3, <1>4, <1>5 DEF Working, Creating, Deleting, Redeeming, Checking
<1>7. QED
  BY <1>1, <1>2, <1>3, <1>4, <1>5, <1>6, AskKeeps DEF Busy

\* A request of the members or settings tab.
LEMMA TabRequestKeeps ==
    ASSUME PageInv, TabRequest
    PROVE  PageInv'
<1>1. UserActs /\ UNCHANGED <<server, page, dash>> /\ Shown(page)
  BY DEF TabRequest
<1>2. PICK op \in Ops :
          /\ TabOffers(op)
          /\ net' = net \cup {[Sent(op, page.tenant, None) EXCEPT !.alive = FALSE]}
  BY DEF TabRequest
<1>3. op # "provision"
  BY <1>2 DEF TabOffers
<1>4. page.tenant \in Tenants /\ page.detail # NoDetail
  BY <1>1 DEF PageInv, Agree, Pages, Shown
<1> DEFINE q == [Sent(op, page.tenant, None) EXCEPT !.alive = FALSE]
<1>5. Meant(q)
  BY <1>3, <1>4, SentFields, DeadFields
<1>6. net' = net \cup {q}
  BY <1>2
<1> HIDE DEF q
<1>7. Agree(page, dash, net \cup {q})
  BY <1>4, <1>5, AgreeMore DEF PageInv
<1>8. Agree(page, dash, net)' /\ Drawn'
  BY <1>1, <1>6, <1>7 DEF PageInv, Drawn
<1>9. QED
  BY <1>1, <1>8, UserLeft DEF PageInv

\* The answer about the number stops the spinner of the tab that asked.
LEMMA TellAvailableKeeps ==
    ASSUME PageInv, NEW r \in net, r.answer # "", TellAvailable(r)
    PROVE  PageInv'
<1> DEFINE verdict == IF r.answer = "failed" THEN "unknown" ELSE r.answer
<1>1. /\ r.op = "check" /\ net' = net \ {r} /\ UNCHANGED <<server, page, left>>
      /\ dash' = IF r.alive
                 THEN [dash EXCEPT !.checking = FALSE, !.available = verdict] ELSE dash
  BY DEF TellAvailable
<1>2. dash \in Dashes /\ Working(dash, net)
  BY DEF PageInv, Agree
<1>3. verdict \in {"unknown", "ok", "no"}
  BY DEF PageInv, Agree, Meant, Requests
<1> HIDE DEF verdict
<1>4. dash' \in Dashes /\ (Busy(dash') => Busy(dash)) /\ Working(dash', net')
  <2>1. CASE ~r.alive
    BY <1>1, <1>2, <2>1 DEF Working, Creating, Deleting, Redeeming, Checking
  <2>2. CASE r.alive
    <3>1. dash' = [dash EXCEPT !.checking = FALSE, !.available = verdict]
      BY <1>1, <2>2
    <3>2. /\ dash' \in Dashes /\ dash'.timer = dash.timer /\ ~dash'.checking
          /\ dash'.form = dash.form /\ dash'.provisioning = dash.provisioning
          /\ dash'.deleting = dash.deleting /\ dash'.confirmed = dash.confirmed
          /\ dash'.deletingNow = dash.deletingNow
          /\ dash'.redeem = dash.redeem /\ dash'.redeeming = dash.redeeming
      BY <1>2, <1>3, <3>1 DEF Dashes
    <3>3. Working(dash', net')
      BY <1>1, <1>2, <3>2 DEF Working, Creating, Deleting, Redeeming, Checking
    <3>4. QED
      BY <3>2, <3>3 DEF Busy
  <2>3. QED
    BY <2>1, <2>2
<1>5. Agree(page, dash, net)' /\ Drawn'
  BY <1>1, <1>4 DEF PageInv, Agree, Asking, Drawn
<1>6. QED
  BY <1>1, <1>5 DEF PageInv

\* An answer that leaves the page as it is, and the dashboard without the work
\* it was for.
LEMMA EndedAgrees ==
    ASSUME PageInv, NEW r \in net, NEW d \in Dashes, Working(d, net \ {r})
    PROVE  Agree(page, d, net \ {r})
BY DEF PageInv, Agree, Asking

\* A dashboard whose answer came: it stays, or all changed, and may reload.
LEMMA AnswerKeeps ==
    ASSUME PageInv, NEW r \in net, r.op # "reload",
           NEW d \in Dashes, Working(d, net \ {r}), Busy(d) => Busy(dash),
           Changed(r, d) \/ Render(page, d, net \ {r}), UNCHANGED <<server, left>>
    PROVE  PageInv'
<1>1. Agree(page, d, net \ {r})
  BY EndedAgrees
<1>2. Agree(page, dash, net)' /\ Drawn'
  BY <1>1, ChangedAgrees, Rendered DEF PageInv
<1>3. QED
  BY <1>2 DEF PageInv

\* The stream's end: with a result the form is emptied and closed.
LEMMA ProvisionedKeeps ==
    ASSUME PageInv, NEW r \in net, Provisioned(r)
    PROVE  PageInv'
<1> DEFINE ended == IF r.alive THEN [dash EXCEPT !.provisioning = FALSE] ELSE dash
           shut == [ended EXCEPT !.form = FALSE]
           done == IF r.alive THEN Typed(shut, None) ELSE dash
<1>1. /\ r.op = "provision" /\ UNCHANGED <<server, left>>
      /\ Changed(r, done) \/ Render(page, ended, net \ {r})
  BY DEF Provisioned
<1>2. dash \in Dashes /\ Working(dash, net)
  BY DEF PageInv, Agree
<1>3. CASE ~r.alive
  <2>1. ended = dash /\ done = dash
    BY <1>3
  <2>2. Working(dash, net \ {r})
    BY <1>2, <1>3 DEF Working, Creating, Deleting, Redeeming, Checking
  <2>3. QED
    BY <1>1, <1>2, <2>1, <2>2, AnswerKeeps DEF Busy
<1>4. CASE r.alive
  <2>1. ended = [dash EXCEPT !.provisioning = FALSE] /\ done = Typed(shut, None)
    BY <1>4
  <2> HIDE DEF ended
  <2>2. /\ ended \in Dashes /\ ended.timer = dash.timer /\ ended.checking = dash.checking
        /\ ~ended.provisioning /\ ended.deleting = dash.deleting
        /\ ended.confirmed = dash.confirmed /\ ended.deletingNow = dash.deletingNow
        /\ ended.redeem = dash.redeem /\ ended.redeeming = dash.redeeming
    BY <1>2, <2>1 DEF Dashes
  <2>3. /\ shut \in Dashes /\ shut.timer = dash.timer /\ shut.checking = dash.checking
        /\ ~shut.provisioning /\ shut.deleting = dash.deleting
        /\ shut.confirmed = dash.confirmed /\ shut.deletingNow = dash.deletingNow
        /\ shut.redeem = dash.redeem /\ shut.redeeming = dash.redeeming
    BY <2>2 DEF Dashes
  <2> HIDE DEF shut, done
  <2>4. Working(ended, net \ {r}) /\ Working(shut, net \ {r})
    BY <1>1, <1>2, <2>2, <2>3 DEF Working, Creating, Deleting, Redeeming, Checking
  <2>5. done \in Dashes /\ Working(done, net \ {r}) /\ (Busy(done) => Busy(dash))
    BY <2>1, <2>3, <2>4, TypedFields DEF Busy
  <2>6. QED
    BY <1>1, <2>2, <2>4, <2>5, AnswerKeeps DEF Busy
<1>5. QED
  BY <1>3, <1>4

\* The deletion's end: done, its modal goes; failed, the modal stays.
LEMMA DeletedKeeps ==
    ASSUME PageInv, NEW r \in net, Deleted(r)
    PROVE  PageInv'
<1> DEFINE ended == IF r.alive THEN [dash EXCEPT !.deletingNow = FALSE] ELSE dash
           done == IF r.alive
                   THEN [ended EXCEPT !.deleting = None, !.confirmed = FALSE] ELSE dash
<1>1. /\ r.op = "delete" /\ UNCHANGED <<server, left>>
      /\ Changed(r, done) \/ Render(page, ended, net \ {r})
  BY DEF Deleted
<1>2. dash \in Dashes /\ Working(dash, net)
  BY DEF PageInv, Agree
<1>3. CASE ~r.alive
  <2>1. ended = dash /\ done = dash
    BY <1>3
  <2>2. Working(dash, net \ {r})
    BY <1>2, <1>3 DEF Working, Creating, Deleting, Redeeming, Checking
  <2>3. QED
    BY <1>1, <1>2, <2>1, <2>2, AnswerKeeps DEF Busy
<1>4. CASE r.alive
  <2>1. /\ ended = [dash EXCEPT !.deletingNow = FALSE]
        /\ done = [ended EXCEPT !.deleting = None, !.confirmed = FALSE]
    BY <1>4
  <2> HIDE DEF ended, done
  <2>2. /\ ended \in Dashes /\ ended.timer = dash.timer /\ ended.checking = dash.checking
        /\ ended.form = dash.form /\ ended.provisioning = dash.provisioning
        /\ ended.deleting = dash.deleting /\ ended.confirmed = dash.confirmed
        /\ ~ended.deletingNow
        /\ ended.redeem = dash.redeem /\ ended.redeeming = dash.redeeming
    BY <1>2, <2>1 DEF Dashes
  <2>3. /\ done \in Dashes /\ done.timer = dash.timer /\ done.checking = dash.checking
        /\ done.form = dash.form /\ done.provisioning = dash.provisioning
        /\ ~done.confirmed /\ ~done.deletingNow
        /\ done.redeem = dash.redeem /\ done.redeeming = dash.redeeming
    BY <2>1, <2>2 DEF Dashes
  <2>4. Working(ended, net \ {r}) /\ Working(done, net \ {r})
    BY <1>1, <1>2, <2>2, <2>3 DEF Working, Creating, Deleting, Redeeming, Checking
  <2>5. QED
    BY <1>1, <2>2, <2>3, <2>4, AnswerKeeps DEF Busy
<1>5. QED
  BY <1>3, <1>4

\* The redemption's end: only that of the open modal stops its spinner, but any
\* that went through closes the modal open by now, spinner and all.
LEMMA RedeemedKeeps ==
    ASSUME PageInv, NEW r \in net, Redeemed(r)
    PROVE  PageInv'
<1> DEFINE ended == IF r.alive /\ r.mode # "closed" THEN [dash EXCEPT !.redeeming = FALSE]
                    ELSE dash
           done == IF r.alive THEN [dash EXCEPT !.redeem = FALSE, !.redeeming = FALSE]
                   ELSE dash
<1>1. /\ r.op = "redeem" /\ UNCHANGED <<server, left>>
      /\ Changed(r, done) \/ Render(page, ended, net \ {r})
  BY DEF Redeemed
<1>2. dash \in Dashes /\ Working(dash, net)
  BY DEF PageInv, Agree
<1>3. ended \in Dashes /\ (Busy(ended) => Busy(dash)) /\ Working(ended, net \ {r})
  <2>1. CASE r.alive /\ r.mode # "closed"
    <3>1. ended = [dash EXCEPT !.redeeming = FALSE]
      BY <2>1
    <3> HIDE DEF ended
    <3>2. /\ ended \in Dashes /\ ended.timer = dash.timer /\ ended.checking = dash.checking
          /\ ended.form = dash.form /\ ended.provisioning = dash.provisioning
          /\ ended.deleting = dash.deleting /\ ended.confirmed = dash.confirmed
          /\ ended.deletingNow = dash.deletingNow /\ ~ended.redeeming
      BY <1>2, <3>1 DEF Dashes
    <3>3. QED
      BY <1>1, <1>2, <3>2 DEF Busy, Working, Creating, Deleting, Redeeming, Checking
  <2>2. CASE ~(r.alive /\ r.mode # "closed")
    <3>1. ended = dash
      BY <2>2
    <3>2. QED
      BY <1>1, <1>2, <2>2, <3>1 DEF Busy, Working, Creating, Deleting, Redeeming, Checking
  <2>3. QED
    BY <2>1, <2>2
<1>4. done \in Dashes /\ (Busy(done) => Busy(dash)) /\ Working(done, net \ {r})
  <2>1. CASE r.alive
    <3>1. done = [dash EXCEPT !.redeem = FALSE, !.redeeming = FALSE]
      BY <2>1
    <3> HIDE DEF done
    <3>2. /\ done \in Dashes /\ done.timer = dash.timer /\ done.checking = dash.checking
          /\ done.form = dash.form /\ done.provisioning = dash.provisioning
          /\ done.deleting = dash.deleting /\ done.confirmed = dash.confirmed
          /\ done.deletingNow = dash.deletingNow /\ ~done.redeeming
      BY <1>2, <3>1 DEF Dashes
    <3>3. QED
      BY <1>1, <1>2, <3>2 DEF Busy, Working, Creating, Deleting, Redeeming, Checking
  <2>2. CASE ~r.alive
    <3>1. done = dash
      BY <2>2
    <3>2. QED
      BY <1>1, <1>2, <2>2, <3>1 DEF Busy, Working, Creating, Deleting, Redeeming, Checking
  <2>3. QED
    BY <2>1, <2>2
<1>5. QED
  BY <1>1, <1>3, <1>4, AnswerKeeps

\* The answer to the members or settings tab: a workspace dropped is left.
LEMMA TabAnsweredKeeps ==
    ASSUME PageInv, NEW r \in net, TabAnswered(r)
    PROVE  PageInv'
<1>1. /\ r.op \in {"invite", "revoke", "remove", "role", "transfer", "save", "drop"}
      /\ UNCHANGED <<server, left>>
  BY DEF TabAnswered
<1>2. Agree(page, dash, net \ {r})
  BY <1>1, AgreeLess DEF PageInv
<1>3. CASE Changed(r, dash) \/ Render(page, dash, net \ {r})
  BY <1>1, <1>2, <1>3, AnswerKeeps DEF Agree
<1>4. CASE Render([page EXCEPT !.tenant = None], dash, net \ {r})
  <2> DEFINE p == [page EXCEPT !.tenant = None]
  <2>1. page \in Pages
    BY DEF PageInv, Agree
  <2>2. p \in Pages /\ p.tenant = None /\ p.detail = page.detail
    BY <2>1 DEF Pages
  <2>3. Render(p, dash, net \ {r})
    BY <1>4
  <2> HIDE DEF p
  <2>4. NotBlank(p)
    BY <2>2 DEF NotBlank
  <2>5. Agree(p, dash, net \ {r})
    BY <1>2, <2>2, <2>4, AgreePage
  <2>6. Agree(page, dash, net)' /\ Drawn'
    BY <2>3, <2>5, Rendered DEF PageInv
  <2>7. QED
    BY <1>1, <2>6 DEF PageInv
<1>5. QED
  BY <1>3, <1>4 DEF TabAnswered

\* A request answered by the server, or lost: it is still out as it was sent.
LEMMA AnsweredAgrees ==
    ASSUME NEW p, NEW d, NEW n, Agree(p, d, n), NEW r \in n, NEW q, Meant(q),
           q.op = r.op, q.arg = r.arg, q.alive = r.alive, q.mode = r.mode
    PROVE  Agree(p, d, (n \ {r}) \cup {q})
<1> DEFINE m == (n \ {r}) \cup {q}
<1>1. \A s \in n : \E u \in m : /\ u.op = s.op /\ u.arg = s.arg
                               /\ u.alive = s.alive /\ u.mode = s.mode
  OBVIOUS
<1>2. Asking(p, m) /\ \A u \in m : Meant(u)
  BY DEF Agree, Asking
<1> HIDE DEF m
<1>3. Working(d, m)
  BY <1>1 DEF Agree, Working, Creating, Deleting, Redeeming, Checking
<1>4. QED
  BY <1>2, <1>3 DEF Agree, m

\* What the server makes of a workspace is a workspace.
LEMMA EffectTyped ==
    ASSUME NEW w \in Workspaces, NEW r
    PROVE  Effect(w, r) \in Workspaces
<1>1. [w EXCEPT !.agents[r.arg] = "absent"] \in Workspaces
  <2>1. w.agents \in [Agents -> Phones \cup {None, "absent"}]
    BY DEF Workspaces
  <2>2. [w.agents EXCEPT ![r.arg] = "absent"] \in [Agents -> Phones \cup {None, "absent"}]
    BY <2>1
  <2>3. [w EXCEPT !.agents[r.arg] = "absent"]
            = [w EXCEPT !.agents = [w.agents EXCEPT ![r.arg] = "absent"]]
    BY Zenon
  <2>4. QED
    BY <2>2, <2>3 DEF Workspaces
<1>2. /\ [w EXCEPT !.plan = TRUE] \in Workspaces
      /\ [w EXCEPT !.other = "invited"] \in Workspaces
      /\ [w EXCEPT !.other = "none"] \in Workspaces
      /\ [w EXCEPT !.me = "admin", !.other = "owner"] \in Workspaces
  BY DEF Workspaces, Roles
<1>3. [w EXCEPT !.other = IF @ = "admin" THEN "member" ELSE "admin"] \in Workspaces
  BY DEF Workspaces, Roles
<1>4. QED
  BY <1>1, <1>2, <1>3 DEF Effect

\* The server stays typed whatever it handles.
LEMMA AfterTyped ==
    ASSUME server \in [Tenants -> Workspaces], NEW r, Meant(r), NEW s \in After(r)
    PROVE  s \in [Tenants -> Workspaces]
<1>1. r.at \in Tenants
  BY DEF Meant, Requests
<1>2. CASE r.op = "provision"
  <2>1. PICK a \in Agents : s = [server EXCEPT ![r.at].agents[a] = r.arg]
    BY <1>2 DEF After
  <2> DEFINE w == server[r.at]
  <2>2. w \in Workspaces /\ r.arg \in Phones \cup {None}
    BY <1>1, <1>2 DEF Meant
  <2>3. [w.agents EXCEPT ![a] = r.arg] \in [Agents -> Phones \cup {None, "absent"}]
    BY <2>2 DEF Workspaces
  <2>4. s = [server EXCEPT ![r.at] = [w EXCEPT !.agents = [w.agents EXCEPT ![a] = r.arg]]]
    BY <2>1, Zenon
  <2>5. [w EXCEPT !.agents = [w.agents EXCEPT ![a] = r.arg]] \in Workspaces
    BY <2>2, <2>3 DEF Workspaces
  <2>6. QED
    BY <2>4, <2>5
<1>3. CASE r.op # "provision"
  <2>1. s = [server EXCEPT ![r.at] = Effect(server[r.at], r)]
    BY <1>3 DEF After
  <2>2. Effect(server[r.at], r) \in Workspaces
    BY <1>1, EffectTyped
  <2>3. QED
    BY <2>1, <2>2
<1>4. QED
  BY <1>2, <1>3

\* The detail a reload is answered with is one.
LEMMA SnapsTyped ==
    ASSUME NEW w \in Workspaces, NEW s \in Snaps(w)
    PROVE  s \in Workspaces
BY DEF Snaps, Workspaces

\* The server's handling of a request, with its answer.
LEMMA HandleKeeps ==
    ASSUME PageInv, NEW r \in net, Handle(r)
    PROVE  PageInv'
<1>1. /\ UNCHANGED <<page, dash, left>> /\ server' \in After(r)
      /\ Meant(r) /\ r.at \in Tenants
  BY DEF Handle, PageInv, Agree, Meant, Requests
<1>2. server' \in [Tenants -> Workspaces]
  BY <1>1, AfterTyped DEF PageInv
<1> DEFINE told == IF r.op = "check" /\ Bound(r.arg) THEN "no" ELSE "ok"
<1>3. PICK snap \in IF r.op = "reload" THEN Snaps(server'[r.at]) ELSE {NoDetail} :
          net' = (net \ {r}) \cup {[r EXCEPT !.answer = told, !.snap = snap]}
  BY DEF Handle
<1>4. told \in {"failed", "ok", "no"}
  OBVIOUS
<1> HIDE DEF told
<1>5. snap \in Workspaces \cup {NoDetail} /\ (r.op = "reload" => snap # NoDetail)
  <2>1. CASE r.op = "reload"
    BY <1>1, <1>2, <1>3, <2>1, SnapsTyped, DetailApart
  <2>2. CASE r.op # "reload"
    BY <1>3, <2>2
  <2>3. QED
    BY <2>1, <2>2
<1> DEFINE q == [r EXCEPT !.answer = told, !.snap = snap]
<1>6. r \in Requests
  BY <1>1 DEF Meant
<1>7. /\ q \in Requests /\ q.op = r.op /\ q.arg = r.arg /\ q.alive = r.alive
      /\ q.mode = r.mode /\ q.snap = snap
  BY <1>4, <1>5, <1>6 DEF Requests
<1>8. net' = (net \ {r}) \cup {q}
  BY <1>3
<1> HIDE DEF q
<1>9. Meant(q)
  BY <1>1, <1>5, <1>7 DEF Meant
<1>10. Agree(page, dash, net')
  BY <1>7, <1>8, <1>9, AnsweredAgrees DEF PageInv
<1>11. Agree(page, dash, net)' /\ Drawn'
  BY <1>1, <1>10 DEF PageInv, Drawn
<1>12. QED
  BY <1>1, <1>2, <1>11 DEF PageInv

\* A request that failed on its way, or whose answer did.
LEMMA FailKeeps ==
    ASSUME PageInv, NEW r \in net, Fail(r)
    PROVE  PageInv'
<1> DEFINE q == [r EXCEPT !.answer = "failed", !.snap = NoDetail]
<1>1. /\ UNCHANGED <<server, page, dash, left>> /\ net' = (net \ {r}) \cup {q}
      /\ Meant(r) /\ r \in Requests
  BY DEF Fail, PageInv, Agree, Meant
<1>2. /\ q \in Requests /\ q.op = r.op /\ q.arg = r.arg /\ q.alive = r.alive
      /\ q.mode = r.mode /\ q.answer = "failed"
  BY <1>1 DEF Requests
<1> HIDE DEF q
<1>3. Meant(q)
  BY <1>1, <1>2 DEF Meant
<1>4. Agree(page, dash, net')
  BY <1>1, <1>2, <1>3, AnsweredAgrees DEF PageInv
<1>5. Agree(page, dash, net)' /\ Drawn'
  BY <1>1, <1>4 DEF PageInv, Drawn
<1>6. QED
  BY <1>1, <1>5 DEF PageInv

\* An invitation accepted touches the server alone.
LEMMA AcceptKeeps ==
    ASSUME PageInv, Accept
    PROVE  PageInv'
<1>1. UNCHANGED <<page, dash, net, left>>
  BY DEF Accept
<1>2. PICK t \in Tenants : server' = [server EXCEPT ![t].other = "member"]
  BY DEF Accept
<1>3. server' = [server EXCEPT ![t] = [server[t] EXCEPT !.other = "member"]]
  BY <1>2, Zenon
<1>4. [server[t] EXCEPT !.other = "member"] \in Workspaces
  BY DEF PageInv, Workspaces, Roles
<1>5. server' \in [Tenants -> Workspaces]
  BY <1>3, <1>4 DEF PageInv
<1>6. QED
  BY <1>1, <1>5 DEF PageInv, Agree, NotBlank, Asking, Working, Creating, Deleting,
                    Redeeming, Checking, Drawn, OnDashboard, Shown

\* A step elsewhere leaves the page as it is.
LEMMA PageStutters ==
    ASSUME PageInv, UNCHANGED vars
    PROVE  PageInv'
BY DEF vars, PageInv, Agree, NotBlank, Asking, Working, Creating, Deleting,
       Redeeming, Checking, Drawn, OnDashboard, Shown

\* Every step of the page keeps it.
LEMMA PageNext ==
    ASSUME PageInv, Next
    PROVE  PageInv'
<1>1. CASE User
  BY <1>1, SwitchTenantKeeps, SwitchTabKeeps, FormKeeps, ProvisionKeeps,
     DeleteModalKeeps, ConfirmDeleteKeeps, OpenRedeemKeeps, CloseRedeemKeeps,
     RedeemKeeps, TabRequestKeeps DEF User
<1>2. CASE Serve
  BY <1>2, HandleKeeps, FailKeeps DEF Serve
<1>3. CASE Arrive
  BY <1>3, ReloadedKeeps, TellAvailableKeeps, ProvisionedKeeps, DeletedKeeps,
     RedeemedKeeps, TabAnsweredKeeps DEF Arrive
<1>4. CASE Quiet
  BY <1>4, PageStutters DEF Quiet
<1>5. QED
  BY <1>1, <1>2, <1>3, <1>4, AskAvailableKeeps, AcceptKeeps DEF Next

\* The page starts loading, with its reload out, once or twice.
LEMMA PageStarts ==
    ASSUME Init
    PROVE  PageInv
<1>1. PICK t \in Tenants, twice \in BOOLEAN :
        /\ page = [tenant |-> t, tab |-> "dashboard", loading |-> TRUE, error |-> FALSE,
                   of |-> None, detail |-> NoDetail]
        /\ net = {Loud(t)} \cup (IF twice THEN {[Loud(t) EXCEPT !.alive = FALSE]} ELSE {})
  BY DEF Init
<1>2. page \in Pages
  BY <1>1 DEF Pages, Tabs
<1>3. page.loading
  BY <1>1
<1> DEFINE q == [Loud(t) EXCEPT !.alive = FALSE]
<1>4. Meant(q) /\ q.op = "reload" /\ Meant(Loud(t)) /\ Loud(t).op = "reload"
  BY LoudFields
<1>5. net \subseteq {Loud(t), q}
  BY <1>1
<1> HIDE DEF q
<1>6. \A r \in net : Meant(r) /\ r.op = "reload"
  BY <1>4, <1>5
<1>7. Agree(page, dash, net) /\ Drawn
  BY <1>2, <1>3, <1>6, FreshAgrees DEF Init, Agree, NotBlank, Asking, Drawn
<1>8. server \in [Tenants -> Workspaces] /\ left \in 0 .. MaxUser
  BY DEF Init
<1>9. QED
  BY <1>7, <1>8 DEF PageInv

\* What the page promises follows.
LEMMA PagePromises ==
    ASSUME PageInv
    PROVE  TypeOK /\ NeverBlank /\ InFlightIsShown
<1>1. net \subseteq Requests
  BY DEF PageInv, Agree, Meant
<1>2. TypeOK
  BY <1>1 DEF PageInv, Agree, Pages, Dashes, TypeOK
<1>3. NeverBlank
  BY DEF PageInv, Agree, NotBlank, NeverBlank
<1>4. InFlightIsShown
  BY DEF PageInv, Agree, Working, Creating, Deleting, Redeeming, Checking,
         Drawn, Busy, FormShown, InFlightIsShown, Mine
<1>5. QED
  BY <1>2, <1>3, <1>4

----------------------------------------------------------------------------
(* The coupon form                                                         *)

Forms == [kind : {"page", "modal"}, open : BOOLEAN, code : Codes \cup {Short},
          tenant : Tenants, timer : BOOLEAN, preview : {"valid", "used", None},
          previewError : BOOLEAN, redeeming : BOOLEAN, redeemError : BOOLEAN]

\* The form, its requests and what the server has recorded are what they should
\* be, and the button that is busy has the only redemption out.
FormTyped ==
    /\ coupons \in [bad : SUBSET Codes, used : SUBSET Codes]
    /\ form \in Forms /\ fNet \subseteq Coupon!Requests /\ fLeft \in 0 .. MaxUser

Redeems(n) == {r \in n : r.op = "redeem"}

OnlyOne(n) == \A q, r \in Redeems(n) : q = r

FormInv == FormTyped /\ OnlyOne(fNet) /\ (form.redeeming <=> Redeems(fNet) # {})

\* The preview effect leaves a form, and its redemption alone.
LEMMA AskedFields ==
    ASSUME NEW f \in Forms
    PROVE  Coupon!Asked(f) \in Forms /\ Coupon!Asked(f).redeeming = f.redeeming
BY DEF Coupon!Asked, Forms

\* A step that leaves what is redeemed alone.
LEMMA FormTurns ==
    ASSUME FormInv, form' \in Forms, form'.redeeming = form.redeeming,
           UNCHANGED coupons, fLeft' \in 0 .. MaxUser, fNet' \subseteq Coupon!Requests,
           Redeems(fNet') = Redeems(fNet)
    PROVE  FormInv'
BY DEF FormInv, FormTyped, OnlyOne

\* The user's budget stays in its bounds.
LEMMA FormLeft ==
    ASSUME FormInv, Coupon!UserActs
    PROVE  fLeft' \in 0 .. MaxUser
<1>1. fLeft \in 0 .. MaxUser
  BY DEF FormInv, FormTyped
<1>2. fLeft > 0 /\ fLeft' = fLeft - 1
  BY DEF Coupon!UserActs
<1>3. QED
  BY <1>1, <1>2

\* A code typed or a workspace chosen; the form closed.
LEMMA FormEdited ==
    ASSUME FormInv, Coupon!TypeCode \/ Coupon!ChooseTenant \/ Coupon!Close
    PROVE  FormInv'
<1>1. form \in Forms /\ fNet \subseteq Coupon!Requests
  BY DEF FormInv, FormTyped
<1>2. UNCHANGED <<coupons, fNet>> /\ Coupon!UserActs
  BY DEF Coupon!TypeCode, Coupon!ChooseTenant, Coupon!Close
<1>3. form' \in Forms /\ form'.redeeming = form.redeeming
  <2>1. CASE Coupon!TypeCode
    <3>1. PICK c \in Codes \cup {Short} : form' = Coupon!Asked([form EXCEPT !.code = c])
      BY <2>1 DEF Coupon!TypeCode
    <3> DEFINE f == [form EXCEPT !.code = c]
    <3>2. f \in Forms /\ f.redeeming = form.redeeming
      BY <1>1 DEF Forms
    <3>3. form' = Coupon!Asked(f)
      BY <3>1
    <3> HIDE DEF f
    <3>4. QED
      BY <3>2, <3>3, AskedFields
  <2>2. CASE Coupon!ChooseTenant
    <3>1. PICK t \in Tenants : form' = Coupon!Asked([form EXCEPT !.tenant = t])
      BY <2>2 DEF Coupon!ChooseTenant
    <3> DEFINE f == [form EXCEPT !.tenant = t]
    <3>2. f \in Forms /\ f.redeeming = form.redeeming
      BY <1>1 DEF Forms
    <3>3. form' = Coupon!Asked(f)
      BY <3>1
    <3> HIDE DEF f
    <3>4. QED
      BY <3>2, <3>3, AskedFields
  <2>3. CASE Coupon!Close
    BY <1>1, <2>3 DEF Coupon!Close, Forms
  <2>4. QED
    BY <2>1, <2>2, <2>3
<1>4. QED
  BY <1>1, <1>2, <1>3, FormLeft, FormTurns

\* What is sent for the form.
LEMMA FormSent ==
    ASSUME FormInv, NEW op \in {"preview", "redeem"}
    PROVE  Coupon!Sent(op) \in Coupon!Requests /\ Coupon!Sent(op).op = op
<1>1. form.code \in Codes \cup {Short} /\ form.tenant \in Tenants
  BY DEF FormInv, FormTyped, Forms
<1>2. QED
  BY <1>1 DEF Coupon!Sent, Coupon!Requests

\* The preview is asked for.
LEMMA FormAsks ==
    ASSUME FormInv, Coupon!AskPreview
    PROVE  FormInv'
<1> DEFINE q == Coupon!Sent("preview")
<1>1. /\ form' = [form EXCEPT !.timer = FALSE] /\ fNet' = fNet \cup {q}
      /\ UNCHANGED <<coupons, fLeft>>
  BY DEF Coupon!AskPreview
<1>2. q \in Coupon!Requests /\ q.op = "preview"
  BY FormSent
<1> HIDE DEF q
<1>3. form \in Forms /\ fNet \subseteq Coupon!Requests /\ fLeft \in 0 .. MaxUser
  BY DEF FormInv, FormTyped
<1>4. form' \in Forms /\ form'.redeeming = form.redeeming
  BY <1>1, <1>3 DEF Forms
<1>5. Redeems(fNet') = Redeems(fNet)
  BY <1>1, <1>2 DEF Redeems
<1>6. QED
  BY <1>1, <1>2, <1>3, <1>4, <1>5, FormTurns

\* A redemption goes out only when none is.
LEMMA FormRedeems ==
    ASSUME FormInv, Coupon!Redeem
    PROVE  FormInv'
<1> DEFINE q == Coupon!Sent("redeem")
<1>1. /\ form' = [form EXCEPT !.redeeming = TRUE, !.redeemError = FALSE]
      /\ fNet' = fNet \cup {q} /\ UNCHANGED coupons
      /\ Coupon!UserActs /\ ~form.redeeming
  BY DEF Coupon!Redeem, Coupon!CanRedeem
<1>2. q \in Coupon!Requests /\ q.op = "redeem"
  BY FormSent
<1> HIDE DEF q
<1>3. form' \in Forms /\ form'.redeeming
  BY <1>1 DEF FormInv, FormTyped, Forms
<1>4. Redeems(fNet') = {q}
  BY <1>1, <1>2 DEF FormInv, Redeems
<1>5. OnlyOne(fNet') /\ Redeems(fNet') # {}
  BY <1>4 DEF OnlyOne
<1>6. FormTyped'
  BY <1>1, <1>2, <1>3, FormLeft DEF FormInv, FormTyped
<1>7. QED
  BY <1>3, <1>5, <1>6 DEF FormInv

\* A preview's answer.
LEMMA FormPreviewed ==
    ASSUME FormInv, NEW r \in fNet, r.answer # "", Coupon!Previewed(r)
    PROVE  FormInv'
<1>1. /\ r.op = "preview" /\ fNet' = fNet \ {r} /\ UNCHANGED <<coupons, fLeft>>
      /\ form' = IF r.answer = "failed"
                 THEN [form EXCEPT !.preview = None, !.previewError = TRUE]
                 ELSE [form EXCEPT !.preview = r.answer, !.previewError = FALSE]
  BY DEF Coupon!Previewed
<1>2. r.answer \in {"failed", "valid", "used"}
  BY DEF FormInv, FormTyped, Coupon!Requests
<1>3. form \in Forms /\ fNet \subseteq Coupon!Requests /\ fLeft \in 0 .. MaxUser
  BY DEF FormInv, FormTyped
<1>4. form' \in Forms /\ form'.redeeming = form.redeeming
  <2>1. CASE r.answer = "failed"
    <3>1. form' = [form EXCEPT !.preview = None, !.previewError = TRUE]
      BY <1>1, <2>1
    <3>2. QED
      BY <1>3, <3>1 DEF Forms
  <2>2. CASE r.answer # "failed"
    <3>1. form' = [form EXCEPT !.preview = r.answer, !.previewError = FALSE]
      BY <1>1, <2>2
    <3>2. r.answer \in {"valid", "used"}
      BY <1>2, <2>2
    <3>3. QED
      BY <1>3, <3>1, <3>2 DEF Forms
  <2>3. QED
    BY <2>1, <2>2
<1>5. Redeems(fNet') = Redeems(fNet)
  BY <1>1 DEF Redeems
<1>6. QED
  BY <1>1, <1>3, <1>4, <1>5, FormTurns

\* The redemption's answer: it was the only one.
LEMMA FormRedeemed ==
    ASSUME FormInv, NEW r \in fNet, Coupon!Redeemed(r)
    PROVE  FormInv'
<1> DEFINE ok == r.answer # "failed"
<1>1. /\ r.op = "redeem" /\ fNet' = fNet \ {r} /\ UNCHANGED <<coupons, fLeft>>
      /\ form' = [form EXCEPT !.redeeming = FALSE,
                              !.redeemError = @ \/ ~ok,
                              !.open = @ /\ ~(ok /\ form.kind = "modal"),
                              !.timer = @ /\ ~(ok /\ form.kind = "modal")]
  BY DEF Coupon!Redeemed
<1> HIDE DEF ok
<1>2. form' \in Forms /\ ~form'.redeeming
  BY <1>1 DEF FormInv, FormTyped, Forms
<1>3. Redeems(fNet') = {}
  BY <1>1 DEF FormInv, OnlyOne, Redeems
<1>4. FormTyped'
  BY <1>1, <1>2 DEF FormInv, FormTyped
<1>5. QED
  BY <1>2, <1>3, <1>4 DEF FormInv, OnlyOne

\* A request answered is still the same request out.
LEMMA FormAnswered ==
    ASSUME FormInv, NEW r \in fNet, NEW told \in {"failed", "valid", "used"},
           fNet' = (fNet \ {r}) \cup {[r EXCEPT !.answer = told]},
           UNCHANGED <<form, fLeft>>,
           coupons' \in [bad : SUBSET Codes, used : SUBSET Codes]
    PROVE  FormInv'
<1> DEFINE q == [r EXCEPT !.answer = told]
<1>1. r \in Coupon!Requests
  BY DEF FormInv, FormTyped
<1>2. q \in Coupon!Requests /\ q.op = r.op
  BY <1>1 DEF Coupon!Requests
<1>3. fNet' = (fNet \ {r}) \cup {q}
  OBVIOUS
<1> HIDE DEF q
<1>4. OnlyOne(fNet') /\ (Redeems(fNet') # {} <=> Redeems(fNet) # {})
  BY <1>2, <1>3 DEF FormInv, OnlyOne, Redeems
<1>5. FormTyped'
  BY <1>2, <1>3 DEF FormInv, FormTyped
<1>6. QED
  BY <1>4, <1>5 DEF FormInv

\* The server's side of the form.
LEMMA FormServed ==
    ASSUME FormInv, NEW r \in fNet, Coupon!Handle(r) \/ Coupon!Fail(r)
    PROVE  FormInv'
<1>1. CASE Coupon!Handle(r)
  <2> DEFINE told == IF r.op = "preview" /\ r.code \in coupons.used THEN "used" ELSE "valid"
  <2>1. /\ fNet' = (fNet \ {r}) \cup {[r EXCEPT !.answer = told]}
        /\ UNCHANGED <<form, fLeft>> /\ r.code \in Codes
        /\ coupons' = IF r.op = "redeem"
                      THEN [coupons EXCEPT !.used = @ \cup {r.code}] ELSE coupons
    BY <1>1 DEF Coupon!Handle
  <2>2. told \in {"failed", "valid", "used"}
    OBVIOUS
  <2> HIDE DEF told
  <2>3. coupons' \in [bad : SUBSET Codes, used : SUBSET Codes]
    BY <2>1 DEF FormInv, FormTyped
  <2>4. QED
    BY <2>1, <2>2, <2>3, FormAnswered
<1>2. CASE Coupon!Fail(r)
  <2>1. /\ fNet' = (fNet \ {r}) \cup {[r EXCEPT !.answer = "failed"]}
        /\ UNCHANGED <<coupons, form, fLeft>>
    BY <1>2 DEF Coupon!Fail
  <2>2. QED
    BY <2>1, FormAnswered DEF FormInv, FormTyped
<1>3. QED
  BY <1>1, <1>2

\* A step elsewhere leaves the form as it is.
LEMMA FormStutters ==
    ASSUME FormInv, UNCHANGED fVars
    PROVE  FormInv'
BY DEF fVars, FormInv, FormTyped, OnlyOne, Redeems

\* Every step of the form keeps it.
LEMMA FormNext ==
    ASSUME FormInv, Coupon!Next
    PROVE  FormInv'
<1>1. CASE Coupon!Serve
  BY <1>1, FormServed DEF Coupon!Serve
<1>2. CASE Coupon!Arrive
  BY <1>2, FormPreviewed, FormRedeemed DEF Coupon!Arrive
<1>3. CASE Coupon!Quiet
  BY <1>3, FormStutters DEF Coupon!Quiet, Coupon!vars, fVars
<1>4. QED
  BY <1>1, <1>2, <1>3, FormEdited, FormAsks, FormRedeems DEF Coupon!Next

\* The form starts empty, with nothing out.
LEMMA FormStarts ==
    ASSUME Coupon!Init
    PROVE  FormInv
<1>1. /\ coupons \in [bad : SUBSET Codes, used : SUBSET Codes]
      /\ fNet = {} /\ fLeft \in 0 .. MaxUser
  BY DEF Coupon!Init
<1>2. form \in Forms /\ ~form.redeeming
  BY DEF Coupon!Init, Forms
<1>3. QED
  BY <1>1, <1>2 DEF FormInv, FormTyped, OnlyOne, Redeems

\* One redemption at most is out, counted.
LEMMA FormPromises ==
    ASSUME FormInv
    PROVE  Coupon!TypeOK /\ OneRedeemOut
<1>1. Coupon!TypeOK
  BY DEF FormInv, FormTyped, Forms, Coupon!TypeOK
<1>2. Cardinality(Redeems(fNet)) <= 1
  <2>1. CASE Redeems(fNet) = {}
    BY <2>1, FS_EmptySet
  <2>2. CASE Redeems(fNet) # {}
    <3>1. PICK r : Redeems(fNet) = {r}
      BY <2>2 DEF FormInv, OnlyOne
    <3>2. Cardinality({r}) = 1
      BY FS_Singleton
    <3>3. QED
      BY <3>1, <3>2
  <2>3. QED
    BY <2>1, <2>2
<1>3. Coupon!Cardinality(Redeems(fNet)) = Cardinality(Redeems(fNet))
  BY Zenon DEF Coupon!Cardinality, Cardinality
<1>4. OneRedeemOut
  BY <1>2, <1>3 DEF FormInv, Redeems, OneRedeemOut, Coupon!OneRedeemOut
<1>5. QED
  BY <1>1, <1>4

----------------------------------------------------------------------------
(* The panels                                                              *)

Views == {"usage", "tasks", "cards", "voices"}

UsageStates == [range : Ranges, loading : BOOLEAN, error : BOOLEAN, of : Ranges \cup {None}]

TaskStates == [loading : BOOLEAN, list : SUBSET Jobs, cancelling : Jobs \cup {None}]

CardStates == [listed : SUBSET Rows,
               card : [Rows -> {"absent", "loading", "failed", "shown"}]]

PickerStates == [gender : {"female", "male"}, voice : {"Kore", "Leda", "Puck", ""},
                 manifest : {"loading", "failed", "shown"}]

\* A usage request is for a range, and one still heard is for the range chosen:
\* the cleanup of the effect makes it so.
HeardOfRange(u, n) ==
    \A r \in n : r.op = "usage" => r.arg \in Ranges /\ (r.alive => r.arg = u.range)

UsageShows(u) == ~u.loading /\ ~u.error => u.of = u.range

VoiceShows(p) == p.manifest = "shown" => p.voice \in Panels!Voices(p.gender)

UsageBusy(u, n) ==
    view = "usage" /\ u.loading =>
        \E r \in n : r.op = "usage" /\ r.alive /\ r.arg = u.range

\* A task is cancelled only where the tasks are looked at.
TasksBusy(t, n) ==
    /\ view # "tasks" => t.cancelling = None
    /\ view = "tasks" /\ t.loading => \E r \in n : r.op = "tasks" /\ r.alive
    /\ t.cancelling # None =>
          \E r \in n : r.op = "cancel" /\ r.alive /\ r.arg = t.cancelling

CardsBusy(c, n) ==
    view = "cards" => \A a \in c.listed :
        c.card[a] = "loading" => \E r \in n : r.op = "card" /\ r.alive /\ r.arg = a

\* The parts and their requests, one conjunct for each.
UsageGood(u, n) == u \in UsageStates /\ HeardOfRange(u, n) /\ UsageShows(u) /\ UsageBusy(u, n)
TasksGood(t, n) == t \in TaskStates /\ TasksBusy(t, n)
CardsGood(c, n) == c \in CardStates /\ CardsBusy(c, n)
PickerGood(p)   == p \in PickerStates /\ VoiceShows(p)

PanelInv ==
    /\ view \in Views /\ pNet \subseteq Panels!Requests /\ pLeft \in 0 .. PanelUser
    /\ UsageGood(usage, pNet) /\ TasksGood(tasks, pNet) /\ CardsGood(cards, pNet)
    /\ PickerGood(picker)

\* The voices of each gender.
LEMMA VoiceSets ==
    /\ Panels!Genders = {"female", "male"}
    /\ Panels!Voices("female") = {"Kore", "Leda"} /\ Panels!Voices("male") = {"Puck"}
    /\ Panels!AllVoices = {"Kore", "Leda", "Puck"}
<1>1. /\ Panels!Genders = {"female", "male"}
      /\ Panels!Voices("female") = {"Kore", "Leda"} /\ Panels!Voices("male") = {"Puck"}
  BY DEF Panels!Genders, Panels!Voices
<1>2. Panels!AllVoices = {"Kore", "Leda", "Puck"}
  <2>1. \A v : v \in Panels!AllVoices <=> \E g \in Panels!Genders : v \in Panels!Voices(g)
    BY DEF Panels!AllVoices
  <2>2. QED
    BY <1>1, <2>1
<1>3. QED
  BY <1>1, <1>2

\* The voice that the effect leaves is one of the gender's.
LEMMA SnappedFits ==
    ASSUME NEW g \in {"female", "male"}, NEW v
    PROVE  Panels!Snapped(g, v) \in Panels!Voices(g)
BY VoiceSets DEF Panels!Snapped

\* What is sent, for any part.
LEMMA PanelSent ==
    ASSUME NEW op \in {"usage", "tasks", "cancel", "card", "manifest"},
           NEW arg \in Ranges \cup Jobs \cup Rows \cup {None}
    PROVE  /\ Panels!Sent(op, arg) \in Panels!Requests
           /\ Panels!Sent(op, arg).op = op /\ Panels!Sent(op, arg).arg = arg
           /\ Panels!Sent(op, arg).alive
BY DEF Panels!Sent, Panels!Requests

\* A request whose effect was cleaned up is out still, and heard by nobody.
LEMMA PanelDead ==
    ASSUME NEW n, n \subseteq Panels!Requests
    PROVE  /\ Panels!Dead(n) \subseteq Panels!Requests
           /\ \A q \in Panels!Dead(n) : ~q.alive /\ \E r \in n : q.op = r.op /\ q.arg = r.arg
<1>1. \A r \in n : /\ [r EXCEPT !.alive = FALSE] \in Panels!Requests
                   /\ ~[r EXCEPT !.alive = FALSE].alive
                   /\ [r EXCEPT !.alive = FALSE].op = r.op
                   /\ [r EXCEPT !.alive = FALSE].arg = r.arg
  BY DEF Panels!Requests
<1>2. QED
  BY <1>1 DEF Panels!Dead

\* The user's budget stays in its bounds.
LEMMA PanelLeft ==
    ASSUME PanelInv, Panels!UserActs
    PROVE  pLeft' \in 0 .. PanelUser
<1>1. pLeft \in 0 .. PanelUser
  BY DEF PanelInv
<1>2. pLeft > 0 /\ pLeft' = pLeft - 1
  BY DEF Panels!UserActs
<1>3. QED
  BY <1>1, <1>2

\* The range the usage tab opens with is one.
LEMMA FirstRange ==
    /\ Panels!FreshUsage \in UsageStates /\ Panels!FreshUsage.loading
    /\ Panels!FreshUsage.range \in Ranges
<1>1. (CHOOSE r \in Ranges : TRUE) \in Ranges
  OBVIOUS
<1>2. QED
  BY <1>1 DEF Panels!FreshUsage, UsageStates

\* The cards of the agents listed are asked for, every one.
LEMMA CardsAsked ==
    ASSUME NEW listed \in SUBSET Rows
    PROVE  /\ Panels!CardRequests(listed) \subseteq Panels!Requests
           /\ \A q \in Panels!CardRequests(listed) : q.op = "card"
           /\ \A a \in listed : \E q \in Panels!CardRequests(listed) :
                  q.op = "card" /\ q.alive /\ q.arg = a
<1>1. \A a \in listed : /\ Panels!Sent("card", a) \in Panels!Requests
                        /\ Panels!Sent("card", a).op = "card"
                        /\ Panels!Sent("card", a).arg = a
                        /\ Panels!Sent("card", a).alive
  BY PanelSent
<1>2. QED
  BY <1>1 DEF Panels!CardRequests

\* A part just mounted asks for what it shows.
LEMMA FirstAsked ==
    ASSUME view \in Views, NEW listed \in SUBSET Rows
    PROVE  LET first == Panels!FirstRequests(listed) IN
           /\ first \subseteq Panels!Requests
           /\ \A q \in first : q.op = "usage" => q.arg = Panels!FreshUsage.range
           /\ view = "usage" => \E q \in first : /\ q.op = "usage" /\ q.alive
                                                 /\ q.arg = Panels!FreshUsage.range
           /\ view = "tasks" => \E q \in first : q.op = "tasks" /\ q.alive
           /\ view = "cards" => \A a \in listed : \E q \in first :
                  q.op = "card" /\ q.alive /\ q.arg = a
<1> DEFINE first == Panels!FirstRequests(listed)
           u == Panels!Sent("usage", Panels!FreshUsage.range)
           t == Panels!Sent("tasks", None)
           m == Panels!Sent("manifest", None)
           c == Panels!CardRequests(listed)
<1>1. /\ u \in Panels!Requests /\ u.op = "usage" /\ u.alive
      /\ u.arg = Panels!FreshUsage.range
  BY FirstRange, PanelSent
<1>2. t \in Panels!Requests /\ t.op = "tasks" /\ t.alive
  BY PanelSent
<1>3. m \in Panels!Requests /\ m.op = "manifest"
  BY PanelSent
<1>4. /\ c \subseteq Panels!Requests /\ \A q \in c : q.op = "card"
      /\ \A a \in listed : \E q \in c : q.op = "card" /\ q.alive /\ q.arg = a
  BY CardsAsked
<1>5. /\ view = "usage"  => first = {u}
      /\ view = "tasks"  => first = {t}
      /\ view = "cards"  => first = c
      /\ view = "voices" => first = {m}
  BY DEF Panels!FirstRequests
<1> HIDE DEF first, u, t, m, c
<1>6. /\ first \subseteq Panels!Requests
      /\ \A q \in first : q.op = "usage" => q.arg = Panels!FreshUsage.range
      /\ view = "usage" => \E q \in first : /\ q.op = "usage" /\ q.alive
                                            /\ q.arg = Panels!FreshUsage.range
      /\ view = "tasks" => \E q \in first : q.op = "tasks" /\ q.alive
      /\ view = "cards" => \A a \in listed : \E q \in first :
             q.op = "card" /\ q.alive /\ q.arg = a
  BY <1>1, <1>2, <1>3, <1>4, <1>5 DEF Views
<1>7. QED
  BY <1>6 DEF first

\* Every part mounted afresh, over old requests that nobody hears.
LEMMA FreshPanels ==
    ASSUME view \in Views, NEW listed \in SUBSET Rows, NEW old,
           old \subseteq Panels!Requests,
           \A q \in old : ~q.alive /\ (q.op = "usage" => q.arg \in Ranges),
           NEW n, n = old \cup Panels!FirstRequests(listed),
           NEW g \in {"female", "male"}, NEW v \in {"Kore", "Leda", "Puck", ""}
    PROVE  /\ n \subseteq Panels!Requests
           /\ UsageGood(Panels!FreshUsage, n) /\ TasksGood(Panels!FreshTasks, n)
           /\ CardsGood(Panels!Loading(listed), n)
           /\ PickerGood(Panels!FreshPicker(g, v))
<1> DEFINE first == Panels!FirstRequests(listed)
<1>1. /\ first \subseteq Panels!Requests
      /\ \A q \in first : q.op = "usage" => q.arg = Panels!FreshUsage.range
      /\ view = "usage" => \E q \in first : /\ q.op = "usage" /\ q.alive
                                            /\ q.arg = Panels!FreshUsage.range
      /\ view = "tasks" => \E q \in first : q.op = "tasks" /\ q.alive
      /\ view = "cards" => \A a \in listed : \E q \in first :
             q.op = "card" /\ q.alive /\ q.arg = a
  BY FirstAsked
<1>2. n = old \cup first
  OBVIOUS
<1> HIDE DEF first
<1>3. UsageGood(Panels!FreshUsage, n)
  BY <1>1, <1>2, FirstRange DEF UsageGood, HeardOfRange, UsageShows, UsageBusy
<1>4. TasksGood(Panels!FreshTasks, n)
  <2>1. /\ Panels!FreshTasks \in TaskStates /\ Panels!FreshTasks.cancelling = None
    BY DEF Panels!FreshTasks, TaskStates
  <2>2. QED
    BY <1>1, <1>2, <2>1 DEF TasksGood, TasksBusy
<1>5. CardsGood(Panels!Loading(listed), n)
  <2>1. /\ Panels!Loading(listed) \in CardStates
        /\ Panels!Loading(listed).listed = listed
    BY DEF Panels!Loading, CardStates
  <2>2. QED
    BY <1>1, <1>2, <2>1 DEF CardsGood, CardsBusy
<1>6. PickerGood(Panels!FreshPicker(g, v))
  BY DEF Panels!FreshPicker, PickerGood, PickerStates, VoiceShows
<1>7. QED
  BY <1>1, <1>2, <1>3, <1>4, <1>5, <1>6

\* A request that is another part's, or that nobody hears, may go.
LEMMA UsageLess ==
    ASSUME NEW u, NEW n, NEW r, UsageGood(u, n), r.op # "usage" \/ ~r.alive
    PROVE  UsageGood(u, n \ {r})
BY DEF UsageGood, HeardOfRange, UsageBusy

\* The tasks bear the loss of what is not theirs.
LEMMA TasksLess ==
    ASSUME NEW t, NEW n, NEW r, TasksGood(t, n), r.op \notin {"tasks", "cancel"} \/ ~r.alive
    PROVE  TasksGood(t, n \ {r})
BY DEF TasksGood, TasksBusy

\* So do the agents' cards.
LEMMA CardsLess ==
    ASSUME NEW c, NEW n, NEW r, CardsGood(c, n), r.op # "card" \/ ~r.alive
    PROVE  CardsGood(c, n \ {r})
BY DEF CardsGood, CardsBusy

\* More requests out leave a part good, if they are not for another range.
LEMMA UsageMore ==
    ASSUME NEW u, NEW n, NEW m, UsageGood(u, n), n \subseteq m,
           \A q \in m \ n : q.op # "usage"
    PROVE  UsageGood(u, m)
BY DEF UsageGood, HeardOfRange, UsageBusy

\* More requests out never harm the tasks.
LEMMA TasksMore ==
    ASSUME NEW t, NEW n, NEW m, TasksGood(t, n), n \subseteq m
    PROVE  TasksGood(t, m)
BY DEF TasksGood, TasksBusy

\* Nor the agents' cards.
LEMMA CardsMore ==
    ASSUME NEW c, NEW n, NEW m, CardsGood(c, n), n \subseteq m
    PROVE  CardsGood(c, m)
BY DEF CardsGood, CardsBusy

\* The part is opened again: what was out is heard by nobody.
LEMMA ReopenKeeps ==
    ASSUME PanelInv, Panels!Reopen
    PROVE  PanelInv'
<1> DEFINE old == Panels!Dead(pNet)
<1>1. /\ Panels!UserActs /\ UNCHANGED view
      /\ pNet' = old \cup Panels!FirstRequests(cards.listed)
      /\ usage' = Panels!FreshUsage /\ tasks' = Panels!FreshTasks
      /\ cards' = Panels!Loading(cards.listed)
  BY DEF Panels!Reopen
<1>2. PICK v \in {picker.voice, ""} : picker' = Panels!FreshPicker(picker.gender, v)
  BY DEF Panels!Reopen
<1>3. /\ view \in Views /\ cards.listed \in SUBSET Rows /\ picker.gender \in {"female", "male"}
      /\ v \in {"Kore", "Leda", "Puck", ""}
  BY <1>2 DEF PanelInv, CardsGood, CardStates, PickerGood, PickerStates
<1>4. /\ old \subseteq Panels!Requests
      /\ \A q \in old : ~q.alive /\ (q.op = "usage" => q.arg \in Ranges)
  <2>1. pNet \subseteq Panels!Requests /\ HeardOfRange(usage, pNet)
    BY DEF PanelInv, UsageGood
  <2>2. /\ old \subseteq Panels!Requests
        /\ \A q \in old : ~q.alive /\ \E r \in pNet : q.op = r.op /\ q.arg = r.arg
    BY <2>1, PanelDead
  <2> HIDE DEF old
  <2>3. QED
    BY <2>1, <2>2 DEF HeardOfRange
<1> HIDE DEF old
<1>5. /\ pNet' \subseteq Panels!Requests
      /\ UsageGood(usage', pNet') /\ TasksGood(tasks', pNet') /\ CardsGood(cards', pNet')
      /\ PickerGood(picker')
  BY <1>1, <1>2, <1>3, <1>4, FreshPanels
<1>6. UsageGood(usage, pNet)' /\ TasksGood(tasks, pNet)' /\ CardsGood(cards, pNet)'
  BY <1>1, <1>5 DEF UsageGood, HeardOfRange, UsageShows, UsageBusy,
                    TasksGood, TasksBusy, CardsGood, CardsBusy
<1>7. PickerGood(picker)'
  BY <1>5 DEF PickerGood, VoiceShows
<1>8. QED
  BY <1>1, <1>3, <1>5, <1>6, <1>7, PanelLeft DEF PanelInv

\* The parts of a state whose successor has the same view.
LEMMA PanelsPrimed ==
    ASSUME UNCHANGED view, view \in Views, pNet' \subseteq Panels!Requests,
           pLeft' \in 0 .. PanelUser, UsageGood(usage', pNet'), TasksGood(tasks', pNet'),
           CardsGood(cards', pNet'), PickerGood(picker')
    PROVE  PanelInv'
<1>1. UsageGood(usage, pNet)' /\ TasksGood(tasks, pNet)' /\ CardsGood(cards, pNet)'
  BY DEF UsageGood, HeardOfRange, UsageShows, UsageBusy,
         TasksGood, TasksBusy, CardsGood, CardsBusy
<1>2. PickerGood(picker)'
  BY DEF PickerGood, VoiceShows
<1>3. QED
  BY <1>1, <1>2 DEF PanelInv

\* Another range is chosen: only its request is heard from now on.
LEMMA PickRangeKeeps ==
    ASSUME PanelInv, Panels!PickRange
    PROVE  PanelInv'
<1>1. view = "usage" /\ Panels!UserActs /\ UNCHANGED <<view, tasks, cards, picker>>
  BY DEF Panels!PickRange
<1>2. PICK range \in Ranges :
          /\ usage' = [usage EXCEPT !.range = range, !.loading = TRUE, !.error = FALSE]
          /\ pNet' = Panels!Dead(pNet) \cup {Panels!Sent("usage", range)}
  BY DEF Panels!PickRange
<1> DEFINE old == Panels!Dead(pNet)
           q == Panels!Sent("usage", range)
<1>3. /\ old \subseteq Panels!Requests
      /\ \A s \in old : ~s.alive /\ (s.op = "usage" => s.arg \in Ranges)
  BY PanelDead DEF PanelInv, UsageGood, HeardOfRange
<1>4. q \in Panels!Requests /\ q.op = "usage" /\ q.arg = range /\ q.alive
  BY PanelSent
<1>5. pNet' = old \cup {q}
  BY <1>2
<1> HIDE DEF old, q
<1>6. usage' \in UsageStates /\ usage'.range = range /\ usage'.loading
  BY <1>2 DEF PanelInv, UsageGood, UsageStates
<1>7. UsageGood(usage', pNet')
  BY <1>3, <1>4, <1>5, <1>6 DEF UsageGood, HeardOfRange, UsageShows, UsageBusy
<1>8. CardsGood(cards, pNet')
  BY <1>1 DEF PanelInv, CardsGood, CardsBusy
<1>9. TasksGood(tasks, pNet')
  BY <1>1 DEF PanelInv, TasksGood, TasksBusy
<1>10. QED
  BY <1>1, <1>3, <1>4, <1>5, <1>7, <1>8, <1>9, PanelLeft, PanelsPrimed DEF PanelInv

\* The answer about a range: only that of the range chosen is drawn.
LEMMA UsageAnsweredKeeps ==
    ASSUME PanelInv, NEW r \in pNet, r.answer # "", Panels!UsageAnswered(r)
    PROVE  PanelInv'
<1>1. /\ r.op = "usage" /\ pNet' = pNet \ {r}
      /\ UNCHANGED <<view, tasks, cards, picker, pLeft>>
      /\ usage' = IF ~r.alive THEN usage
                  ELSE IF r.answer = "failed"
                  THEN [usage EXCEPT !.loading = FALSE, !.error = TRUE]
                  ELSE [usage EXCEPT !.loading = FALSE, !.of = r.arg]
  BY DEF Panels!UsageAnswered
<1>2. usage \in UsageStates /\ HeardOfRange(usage, pNet)
  BY DEF PanelInv, UsageGood
<1>3. UsageGood(usage', pNet')
  <2>1. CASE ~r.alive
    BY <1>1, <2>1, UsageLess DEF PanelInv
  <2>2. CASE r.alive /\ r.answer = "failed"
    <3>1. usage' = [usage EXCEPT !.loading = FALSE, !.error = TRUE]
      BY <1>1, <2>2
    <3>2. /\ usage' \in UsageStates /\ ~usage'.loading /\ usage'.error
          /\ usage'.range = usage.range
      BY <1>2, <3>1 DEF UsageStates
    <3>3. QED
      BY <1>1, <1>2, <3>2 DEF UsageGood, HeardOfRange, UsageShows, UsageBusy
  <2>3. CASE r.alive /\ r.answer # "failed"
    <3>1. usage' = [usage EXCEPT !.loading = FALSE, !.of = r.arg]
      BY <1>1, <2>3
    <3>2. r.arg = usage.range /\ r.arg \in Ranges
      BY <1>1, <1>2, <2>3 DEF HeardOfRange
    <3>3. /\ usage' \in UsageStates /\ ~usage'.loading /\ usage'.of = r.arg
          /\ usage'.range = usage.range
      BY <1>2, <3>1, <3>2 DEF UsageStates
    <3>4. QED
      BY <1>1, <1>2, <3>2, <3>3 DEF UsageGood, HeardOfRange, UsageShows, UsageBusy
  <2>4. QED
    BY <2>1, <2>2, <2>3
<1>4. TasksGood(tasks, pNet') /\ CardsGood(cards, pNet')
  BY <1>1, TasksLess, CardsLess DEF PanelInv
<1>5. QED
  BY <1>1, <1>3, <1>4, PanelsPrimed DEF PanelInv

\* A task's cancellation is out while its button is busy.
LEMMA CancelTaskKeeps ==
    ASSUME PanelInv, Panels!CancelTask
    PROVE  PanelInv'
<1>1. view = "tasks" /\ Panels!UserActs /\ UNCHANGED <<view, usage, cards, picker>>
  BY DEF Panels!CancelTask
<1>2. PICK j \in tasks.list : /\ tasks' = [tasks EXCEPT !.cancelling = j]
                              /\ pNet' = pNet \cup {Panels!Sent("cancel", j)}
  BY DEF Panels!CancelTask
<1>3. tasks \in TaskStates /\ j \in Jobs
  BY <1>2 DEF PanelInv, TasksGood, TaskStates
<1> DEFINE q == Panels!Sent("cancel", j)
<1>4. q \in Panels!Requests /\ q.op = "cancel" /\ q.arg = j /\ q.alive
  BY <1>3, PanelSent
<1>5. pNet' = pNet \cup {q}
  BY <1>2
<1> HIDE DEF q
<1>6. /\ tasks' \in TaskStates /\ tasks'.cancelling = j /\ tasks'.loading = tasks.loading
  BY <1>2, <1>3 DEF TaskStates
<1>7. TasksGood(tasks', pNet')
  BY <1>1, <1>4, <1>5, <1>6 DEF PanelInv, TasksGood, TasksBusy
<1>8. UsageGood(usage, pNet') /\ CardsGood(cards, pNet')
  BY <1>4, <1>5, UsageMore, CardsMore DEF PanelInv
<1>9. QED
  BY <1>1, <1>4, <1>5, <1>7, <1>8, PanelLeft, PanelsPrimed DEF PanelInv

\* A cancellation answered: its button is free, and the tasks are loaded again.
LEMMA TaskCancelledKeeps ==
    ASSUME PanelInv, NEW r \in pNet, Panels!TaskCancelled(r)
    PROVE  PanelInv'
<1> DEFINE ok == r.answer = "ok"
           s == Panels!Sent("tasks", None)
           q == [s EXCEPT !.alive = r.alive]
<1>1. /\ r.op = "cancel" /\ UNCHANGED <<view, usage, cards, picker, pLeft>>
      /\ pNet' = (pNet \ {r}) \cup IF ok THEN {q} ELSE {}
      /\ tasks' = IF r.alive THEN [tasks EXCEPT !.cancelling = None, !.loading = @ \/ ok]
                  ELSE tasks
  BY DEF Panels!TaskCancelled
<1>2. r \in Panels!Requests /\ r.alive \in BOOLEAN
  BY DEF PanelInv, Panels!Requests
<1>3. s \in Panels!Requests /\ s.op = "tasks"
  BY PanelSent
<1> HIDE DEF s, ok
<1>4. q \in Panels!Requests /\ q.op = "tasks" /\ q.alive = r.alive
  BY <1>2, <1>3 DEF Panels!Requests
<1> HIDE DEF q
<1>5. tasks \in TaskStates /\ TasksBusy(tasks, pNet)
  BY DEF PanelInv, TasksGood
<1>6. TasksGood(tasks', pNet')
  <2>1. CASE ~r.alive
    <3>1. TasksGood(tasks, pNet \ {r})
      BY <2>1, TasksLess DEF PanelInv
    <3>2. pNet \ {r} \subseteq pNet'
      BY <1>1
    <3>3. QED
      BY <1>1, <2>1, <3>1, <3>2, TasksMore
  <2>2. CASE r.alive
    <3>1. tasks' = [tasks EXCEPT !.cancelling = None, !.loading = @ \/ ok]
      BY <1>1, <2>2
    <3>2. /\ tasks' \in TaskStates /\ tasks'.cancelling = None
          /\ tasks'.loading => tasks.loading \/ ok
      BY <1>5, <3>1 DEF TaskStates, ok
    <3>3. ok => q \in pNet'
      BY <1>1
    <3>4. QED
      BY <1>1, <1>4, <1>5, <2>2, <3>2, <3>3 DEF TasksGood, TasksBusy
  <2>3. QED
    BY <2>1, <2>2
<1>7. UsageGood(usage, pNet') /\ CardsGood(cards, pNet')
  <2>1. UsageGood(usage, pNet \ {r}) /\ CardsGood(cards, pNet \ {r})
    BY <1>1, UsageLess, CardsLess DEF PanelInv
  <2>2. pNet \ {r} \subseteq pNet' /\ \A u \in pNet' \ (pNet \ {r}) : u.op # "usage"
    BY <1>1, <1>4
  <2>3. QED
    BY <2>1, <2>2, UsageMore, CardsMore
<1>8. pNet' \subseteq Panels!Requests
  BY <1>1, <1>4 DEF PanelInv
<1>9. QED
  BY <1>1, <1>6, <1>7, <1>8, PanelsPrimed DEF PanelInv

\* The tasks' answer.
LEMMA TasksAnsweredKeeps ==
    ASSUME PanelInv, NEW r \in pNet, Panels!TasksAnswered(r)
    PROVE  PanelInv'
<1>1. /\ r.op = "tasks" /\ pNet' = pNet \ {r}
      /\ UNCHANGED <<view, usage, cards, picker, pLeft>>
      /\ tasks' = IF ~r.alive THEN tasks
                  ELSE IF r.answer = "failed" THEN [tasks EXCEPT !.loading = FALSE]
                  ELSE [tasks EXCEPT !.loading = FALSE, !.list = r.snap]
  BY DEF Panels!TasksAnswered
<1>2. tasks \in TaskStates /\ r.snap \in SUBSET Jobs
  BY DEF PanelInv, TasksGood, Panels!Requests
<1>3. TasksGood(tasks', pNet')
  <2>1. CASE ~r.alive
    BY <1>1, <2>1, TasksLess DEF PanelInv
  <2>2. CASE r.alive
    <3>1. /\ tasks' \in TaskStates /\ ~tasks'.loading
          /\ tasks'.cancelling = tasks.cancelling
      <4>1. CASE r.answer = "failed"
        BY <1>1, <1>2, <2>2, <4>1 DEF TaskStates
      <4>2. CASE r.answer # "failed"
        <5>1. tasks' = [tasks EXCEPT !.loading = FALSE, !.list = r.snap]
          BY <1>1, <2>2, <4>2
        <5>2. QED
          BY <1>2, <5>1 DEF TaskStates
      <4>3. QED
        BY <4>1, <4>2
    <3>2. QED
      BY <1>1, <3>1 DEF PanelInv, TasksGood, TasksBusy
  <2>3. QED
    BY <2>1, <2>2
<1>4. UsageGood(usage, pNet') /\ CardsGood(cards, pNet')
  BY <1>1, UsageLess, CardsLess DEF PanelInv
<1>5. QED
  BY <1>1, <1>3, <1>4, PanelsPrimed DEF PanelInv

\* The page lists other agents: every card is asked for again.
LEMMA AgentsChangeKeeps ==
    ASSUME PanelInv, Panels!AgentsChange
    PROVE  PanelInv'
<1>1. Panels!UserActs /\ UNCHANGED <<view, usage, tasks, picker>>
  BY DEF Panels!AgentsChange
<1>2. PICK listed \in SUBSET Rows : /\ cards' = Panels!Loading(listed)
                                    /\ pNet' = pNet \cup Panels!CardRequests(listed)
  BY DEF Panels!AgentsChange
<1> DEFINE asked == Panels!CardRequests(listed)
<1>3. /\ asked \subseteq Panels!Requests /\ \A q \in asked : q.op = "card"
      /\ \A a \in listed : \E q \in asked : q.op = "card" /\ q.alive /\ q.arg = a
  BY CardsAsked
<1>4. pNet' = pNet \cup asked
  BY <1>2
<1> HIDE DEF asked
<1>5. cards' \in CardStates /\ cards'.listed = listed
  BY <1>2 DEF Panels!Loading, CardStates
<1>6. CardsGood(cards', pNet')
  BY <1>3, <1>4, <1>5 DEF CardsGood, CardsBusy
<1>7. UsageGood(usage, pNet') /\ TasksGood(tasks, pNet')
  BY <1>3, <1>4, UsageMore, TasksMore DEF PanelInv
<1>8. QED
  BY <1>1, <1>3, <1>4, <1>6, <1>7, PanelLeft, PanelsPrimed DEF PanelInv

\* One card's answer, of the last listing or an earlier one.
LEMMA CardAnsweredKeeps ==
    ASSUME PanelInv, NEW r \in pNet, Panels!CardAnswered(r)
    PROVE  PanelInv'
<1> DEFINE end == IF r.answer = "failed" THEN "failed" ELSE "shown"
<1>1. /\ r.op = "card" /\ pNet' = pNet \ {r}
      /\ UNCHANGED <<view, usage, tasks, picker, pLeft>>
      /\ cards' = IF ~r.alive THEN cards ELSE [cards EXCEPT !.card[r.arg] = end]
  BY DEF Panels!CardAnswered
<1>2. end \in {"failed", "shown"}
  OBVIOUS
<1> HIDE DEF end
<1>3. cards \in CardStates /\ CardsBusy(cards, pNet)
  BY DEF PanelInv, CardsGood
<1>4. CardsGood(cards', pNet')
  <2>1. CASE ~r.alive
    BY <1>1, <2>1, CardsLess DEF PanelInv
  <2>2. CASE r.alive
    <3> DEFINE f == [cards.card EXCEPT ![r.arg] = end]
    <3>1. cards' = [cards EXCEPT !.card = f]
      BY <1>1, <2>2, Zenon
    <3>2. cards.card \in [Rows -> {"absent", "loading", "failed", "shown"}]
      BY <1>3 DEF CardStates
    <3>3. /\ f \in [Rows -> {"absent", "loading", "failed", "shown"}]
          /\ \A a \in Rows : f[a] = IF a = r.arg THEN end ELSE cards.card[a]
      BY <1>2, <3>2
    <3> HIDE DEF f
    <3>4. cards' \in CardStates /\ cards'.card = f /\ cards'.listed = cards.listed
      BY <1>3, <3>1, <3>3 DEF CardStates
    <3>5. \A a \in cards.listed : f[a] = "loading" => a # r.arg /\ cards.card[a] = "loading"
      BY <1>2, <1>3, <3>3 DEF CardStates
    <3>6. CardsBusy(cards', pNet')
      <4>1. SUFFICES ASSUME view' = "cards", NEW a \in cards.listed, f[a] = "loading"
                     PROVE  \E s \in pNet' : s.op = "card" /\ s.alive /\ s.arg = a
        BY <1>1, <3>4 DEF CardsBusy
      <4>2. a # r.arg /\ cards.card[a] = "loading" /\ view = "cards"
        BY <1>1, <3>5, <4>1
      <4>3. PICK s \in pNet : s.op = "card" /\ s.alive /\ s.arg = a
        BY <1>3, <4>2 DEF CardsBusy
      <4>4. QED
        BY <1>1, <4>2, <4>3
    <3>7. QED
      BY <3>4, <3>6 DEF CardsGood
  <2>3. QED
    BY <2>1, <2>2
<1>5. UsageGood(usage, pNet') /\ TasksGood(tasks, pNet')
  BY <1>1, UsageLess, TasksLess DEF PanelInv
<1>6. QED
  BY <1>1, <1>4, <1>5, PanelsPrimed DEF PanelInv

\* A gender or a voice is chosen: the effect keeps them together.
LEMMA PickerKeeps ==
    ASSUME PanelInv, Panels!PickGender \/ Panels!PickVoice
    PROVE  PanelInv'
<1>1. Panels!UserActs /\ UNCHANGED <<view, usage, tasks, cards, pNet>>
  BY DEF Panels!PickGender, Panels!PickVoice
<1>2. picker \in PickerStates /\ VoiceShows(picker)
  BY DEF PanelInv, PickerGood
<1>3. PickerGood(picker')
  <2>1. CASE Panels!PickGender
    <3>1. PICK g \in {"female", "male"} :
              picker' = [picker EXCEPT !.gender = g,
                                       !.voice = IF picker.manifest = "shown"
                                                 THEN Panels!Snapped(g, @) ELSE @]
      BY <2>1, VoiceSets DEF Panels!PickGender
    <3> DEFINE v == IF picker.manifest = "shown" THEN Panels!Snapped(g, picker.voice)
                    ELSE picker.voice
    <3>2. /\ v \in {"Kore", "Leda", "Puck", ""}
          /\ picker.manifest = "shown" => v \in Panels!Voices(g)
      BY <1>2, SnappedFits, VoiceSets DEF PickerStates
    <3>3. picker' = [picker EXCEPT !.gender = g, !.voice = v]
      BY <3>1
    <3> HIDE DEF v
    <3>4. /\ picker' \in PickerStates /\ picker'.gender = g /\ picker'.voice = v
          /\ picker'.manifest = picker.manifest
      BY <1>2, <3>2, <3>3 DEF PickerStates
    <3>5. QED
      BY <3>2, <3>4 DEF PickerGood, VoiceShows
  <2>2. CASE Panels!PickVoice
    <3>1. PICK v \in Panels!Voices(picker.gender) : picker' = [picker EXCEPT !.voice = v]
      BY <2>2 DEF Panels!PickVoice
    <3>2. v \in {"Kore", "Leda", "Puck"}
      BY <1>2, VoiceSets DEF PickerStates
    <3>3. /\ picker' \in PickerStates /\ picker'.gender = picker.gender
          /\ picker'.voice = v
      BY <1>2, <3>1, <3>2 DEF PickerStates
    <3>4. QED
      BY <3>1, <3>3 DEF PickerGood, VoiceShows
  <2>3. QED
    BY <2>1, <2>2
<1>4. QED
  BY <1>1, <1>3, PanelLeft, PanelsPrimed DEF PanelInv

\* The voices' manifest comes: the voice shown is one of the gender's.
LEMMA ManifestKeeps ==
    ASSUME PanelInv, NEW r \in pNet, Panels!ManifestAnswered(r)
    PROVE  PanelInv'
<1> DEFINE had == IF picker.voice = "" THEN "Kore" ELSE picker.voice
           v == Panels!Snapped(picker.gender, had)
<1>1. /\ r.op = "manifest" /\ pNet' = pNet \ {r}
      /\ UNCHANGED <<view, usage, tasks, cards, pLeft>>
      /\ picker' = IF ~r.alive THEN picker
                   ELSE IF r.answer = "failed" THEN [picker EXCEPT !.manifest = "failed"]
                   ELSE [picker EXCEPT !.manifest = "shown",
                                       !.voice = Panels!Snapped(picker.gender,
                                                                IF @ = "" THEN "Kore" ELSE @)]
  BY DEF Panels!ManifestAnswered
<1>2. picker \in PickerStates /\ VoiceShows(picker)
  BY DEF PanelInv, PickerGood
<1>3. v \in Panels!Voices(picker.gender)
  BY <1>2, SnappedFits DEF PickerStates
<1>4. v \in {"Kore", "Leda", "Puck"}
  BY <1>2, <1>3, VoiceSets DEF PickerStates
<1>5. PickerGood(picker')
  <2>1. CASE ~r.alive
    BY <1>1, <1>2, <2>1 DEF PickerGood
  <2>2. CASE r.alive /\ r.answer = "failed"
    BY <1>1, <1>2, <2>2 DEF PickerGood, PickerStates, VoiceShows
  <2>3. CASE r.alive /\ r.answer # "failed"
    <3>1. picker' = [picker EXCEPT !.manifest = "shown", !.voice = v]
      BY <1>1, <2>3
    <3> HIDE DEF v
    <3>2. picker' \in PickerStates /\ picker'.gender = picker.gender /\ picker'.voice = v
      BY <1>2, <1>4, <3>1 DEF PickerStates
    <3>3. QED
      BY <1>3, <3>2 DEF PickerGood, VoiceShows
  <2>4. QED
    BY <2>1, <2>2, <2>3
<1>6. UsageGood(usage, pNet') /\ TasksGood(tasks, pNet') /\ CardsGood(cards, pNet')
  BY <1>1, UsageLess, TasksLess, CardsLess DEF PanelInv
<1>7. QED
  BY <1>1, <1>5, <1>6, PanelsPrimed DEF PanelInv

\* The server's side of the panels: the request is out still, with its answer.
LEMMA PanelServed ==
    ASSUME PanelInv, NEW r \in pNet, Panels!Handle(r) \/ Panels!Fail(r)
    PROVE  PanelInv'
<1>1. PICK told \in {"failed", "ok"}, found \in SUBSET Jobs :
          pNet' = (pNet \ {r}) \cup {[r EXCEPT !.answer = told, !.snap = found]}
  BY DEF Panels!Handle, Panels!Fail
<1>2. UNCHANGED <<view, usage, tasks, cards, picker, pLeft>>
  BY DEF Panels!Handle, Panels!Fail
<1> DEFINE q == [r EXCEPT !.answer = told, !.snap = found]
<1>3. r \in Panels!Requests
  BY DEF PanelInv
<1>4. q \in Panels!Requests /\ q.op = r.op /\ q.arg = r.arg /\ q.alive = r.alive
  BY <1>3 DEF Panels!Requests
<1>5. pNet' = (pNet \ {r}) \cup {q}
  BY <1>1
<1> HIDE DEF q
<1>6. \A s \in pNet : \E u \in pNet' : u.op = s.op /\ u.arg = s.arg /\ u.alive = s.alive
  BY <1>4, <1>5
<1>7. \A u \in pNet' : \E s \in pNet : u.op = s.op /\ u.arg = s.arg /\ u.alive = s.alive
  BY <1>4, <1>5
<1>8. UsageGood(usage, pNet')
  BY <1>6, <1>7 DEF PanelInv, UsageGood, HeardOfRange, UsageBusy
<1>9. TasksGood(tasks, pNet')
  BY <1>6 DEF PanelInv, TasksGood, TasksBusy
<1>10. CardsGood(cards, pNet')
  BY <1>6 DEF PanelInv, CardsGood, CardsBusy
<1>11. QED
  BY <1>2, <1>4, <1>5, <1>8, <1>9, <1>10, PanelsPrimed DEF PanelInv

\* A step elsewhere leaves the panels as they are.
LEMMA PanelStutters ==
    ASSUME PanelInv, UNCHANGED pVars
    PROVE  PanelInv'
<1>1. UNCHANGED <<view, usage, tasks, cards, picker, pNet, pLeft>>
  BY DEF pVars
<1>2. QED
  BY <1>1, PanelsPrimed DEF PanelInv

\* Every step of the panels keeps them.
LEMMA PanelNext ==
    ASSUME PanelInv, Panels!Next
    PROVE  PanelInv'
<1>1. CASE Panels!User
  BY <1>1, ReopenKeeps, PickRangeKeeps, CancelTaskKeeps, AgentsChangeKeeps, PickerKeeps
     DEF Panels!User
<1>2. CASE Panels!Serve
  BY <1>2, PanelServed DEF Panels!Serve
<1>3. CASE Panels!Arrive
  BY <1>3, UsageAnsweredKeeps, TasksAnsweredKeeps, TaskCancelledKeeps, CardAnsweredKeeps,
     ManifestKeeps DEF Panels!Arrive
<1>4. CASE Panels!Quiet
  BY <1>4, PanelStutters DEF Panels!Quiet, Panels!vars, pVars
<1>5. QED
  BY <1>1, <1>2, <1>3, <1>4 DEF Panels!Next

\* The panels start as they are mounted.
LEMMA PanelsStart ==
    ASSUME Panels!Init
    PROVE  PanelInv
<1>1. /\ view \in Views /\ usage = Panels!FreshUsage /\ tasks = Panels!FreshTasks
      /\ cards = Panels!Loading(Rows) /\ pNet = Panels!FirstRequests(Rows)
      /\ pLeft = PanelUser
  BY Zenon DEF Panels!Init, Views
<1>2. PICK g \in {"female", "male"} : picker = Panels!FreshPicker(g, "")
  BY VoiceSets DEF Panels!Init
<1>3. pNet = {} \cup Panels!FirstRequests(Rows)
  BY <1>1
<1>4. /\ pNet \subseteq Panels!Requests
      /\ UsageGood(usage, pNet) /\ TasksGood(tasks, pNet) /\ CardsGood(cards, pNet)
      /\ PickerGood(picker)
  BY <1>1, <1>2, <1>3, FreshPanels
<1>5. pLeft \in 0 .. PanelUser
  BY <1>1
<1>6. QED
  BY <1>1, <1>4, <1>5 DEF PanelInv

\* What the panels promise follows.
LEMMA PanelPromises ==
    ASSUME PanelInv
    PROVE  Panels!TypeOK /\ PanelsAgree
<1>1. Panels!TypeOK
  BY VoiceSets DEF PanelInv, Views, UsageGood, UsageStates, TasksGood, TaskStates,
     CardsGood, CardStates, PickerGood, PickerStates, Panels!TypeOK
<1>2. Panels!UsageIsOfRange /\ Panels!VoiceMatches
  BY DEF PanelInv, UsageGood, UsageShows, PickerGood, VoiceShows,
         Panels!UsageIsOfRange, Panels!VoiceMatches
<1>3. Panels!BusyHasRequest
  BY DEF PanelInv, UsageGood, UsageBusy, TasksGood, TasksBusy, CardsGood, CardsBusy,
         Panels!BusyHasRequest, Panels!Out
<1>4. QED
  BY <1>1, <1>2, <1>3 DEF PanelsAgree, Panels!PanelsAgree

----------------------------------------------------------------------------
(* The three together                                                      *)

PartsInv == PageInv /\ FormInv /\ PanelInv

\* A step works on one part and leaves the others as they are.
LEMMA PartsNext ==
    ASSUME PartsInv, [MCNext]_mcVars
    PROVE  PartsInv'
<1>1. CASE OnPage(Next)
  BY <1>1, PageNext, FormStutters, PanelStutters DEF OnPage, PartsInv
<1>2. CASE OnForm(Coupon!Next)
  BY <1>2, PageStutters, FormNext, PanelStutters DEF OnForm, PartsInv
<1>3. CASE OnPanels(Panels!Next)
  BY <1>3, PageStutters, FormStutters, PanelNext DEF OnPanels, PartsInv
<1>4. CASE UNCHANGED mcVars
  BY <1>4, PageStutters, FormStutters, PanelStutters DEF mcVars, PartsInv
<1>5. QED
  BY <1>1, <1>2, <1>3, <1>4 DEF MCNext

\* The parts are what they should be in every state.
LEMMA PartsAlways == MCSpec => []PartsInv
<1>1. MCInit => PartsInv
  BY PageStarts, FormStarts, PanelsStart DEF MCInit, PartsInv
<1>2. PartsInv /\ [MCNext]_mcVars => PartsInv'
  BY PartsNext
<1>3. QED
  BY <1>1, <1>2, PTL DEF MCSpec

\* The states of the page, of the coupon form and of the panels keep their
\* shape, whatever answers come in whatever order.
THEOREM PartsTyped == MCSpec => []PagesTypeOK
<1>1. PartsInv => PagesTypeOK
  BY PagePromises, FormPromises, PanelPromises DEF PartsInv, PagesTypeOK
<1>2. QED
  BY <1>1, PartsAlways, PTL

\* The workspace page always has something to draw: whichever reload comes
\* last, loading ends with a detail or with an error.
THEOREM PageNeverBlank == MCSpec => []NeverBlank
<1>1. PartsInv => NeverBlank
  BY PagePromises DEF PartsInv
<1>2. QED
  BY <1>1, PartsAlways, PTL

\* What the dashboard has in flight can still end, on a dashboard that is drawn:
\* the stream under its form, whenever the page has the plan and the role to draw
\* one, the deletion and the redemption under their modals, the check under its
\* spinner.
THEOREM WorkIsShown == MCSpec => []InFlightIsShown
<1>1. PartsInv => InFlightIsShown
  BY PagePromises DEF PartsInv
<1>2. QED
  BY <1>1, PartsAlways, PTL

\* A coupon form has at most one redemption out, and is busy exactly with it.
THEOREM OneRedemption == MCSpec => []OneRedeemOut
<1>1. PartsInv => OneRedeemOut
  BY FormPromises DEF PartsInv
<1>2. QED
  BY <1>1, PartsAlways, PTL

\* The usage tab and the voice picker show what was chosen last; they, the
\* tasks and the integrations are busy only with a request that is out.
THEOREM PanelsShowLast == MCSpec => []PanelsAgree
<1>1. PartsInv => PanelsAgree
  BY PanelPromises DEF PartsInv
<1>2. QED
  BY <1>1, PartsAlways, PTL----------------------------------------------------------------------------
(* What every loading screen and every verdict waits for. The runs check   *)
(* that they come, under fairness; that there is always something out that *)
(* will bring them is proved here.                                         *)

Due(f, n) ==
    f.open /\ f.code # Short =>
        \/ f.preview \in {"valid", "used"} \/ f.previewError
        \/ f.timer \/ \E q \in n : q.op = "preview"

\* The preview effect leaves nothing due that will not be asked for.
LEMMA AskedDue ==
    ASSUME NEW f \in Forms, NEW n
    PROVE  Due(Coupon!Asked(f), n)
<1>1. CASE f.code = Short
  <2>1. Coupon!Asked(f).code = Short
    BY <1>1 DEF Coupon!Asked, Forms
  <2>2. QED
    BY <2>1 DEF Due
<1>2. CASE f.code # Short
  <2>1. Coupon!Asked(f).timer
    BY <1>2 DEF Coupon!Asked, Forms
  <2>2. QED
    BY <2>1 DEF Due
<1>3. QED
  BY <1>1, <1>2

\* What the user does to the form leaves a verdict due, or none wanted.
LEMMA EditedDue ==
    ASSUME FormInv, Coupon!TypeCode \/ Coupon!ChooseTenant \/ Coupon!Close
    PROVE  Due(form, fNet)'
<1>1. form \in Forms
  BY DEF FormInv, FormTyped
<1>2. CASE Coupon!TypeCode
  <2>1. PICK c \in Codes \cup {Short} : form' = Coupon!Asked([form EXCEPT !.code = c])
    BY <1>2 DEF Coupon!TypeCode
  <2>2. [form EXCEPT !.code = c] \in Forms
    BY <1>1 DEF Forms
  <2>3. QED
    BY <2>1, <2>2, AskedDue
<1>3. CASE Coupon!ChooseTenant
  <2>1. PICK t \in Tenants : form' = Coupon!Asked([form EXCEPT !.tenant = t])
    BY <1>3 DEF Coupon!ChooseTenant
  <2>2. [form EXCEPT !.tenant = t] \in Forms
    BY <1>1 DEF Forms
  <2>3. QED
    BY <2>1, <2>2, AskedDue
<1>4. CASE Coupon!Close
  <2>1. form' = [form EXCEPT !.open = FALSE, !.timer = FALSE]
    BY <1>4 DEF Coupon!Close
  <2>2. ~form'.open
    BY <1>1, <2>1 DEF Forms
  <2>3. QED
    BY <2>2 DEF Due
<1>5. QED
  BY <1>2, <1>3, <1>4

\* A preview or a redemption sent: the timer hands over to its request.
LEMMA SentDue ==
    ASSUME FormInv, Due(form, fNet), Coupon!AskPreview \/ Coupon!Redeem
    PROVE  Due(form, fNet)'
<1>1. form \in Forms
  BY DEF FormInv, FormTyped
<1>2. CASE Coupon!AskPreview
  <2>1. fNet' = fNet \cup {Coupon!Sent("preview")}
    BY <1>2 DEF Coupon!AskPreview
  <2>2. \E r \in fNet' : r.op = "preview"
    BY <2>1, FormSent
  <2>3. QED
    BY <2>2 DEF Due
<1>3. CASE Coupon!Redeem
  <2>1. /\ form' = [form EXCEPT !.redeeming = TRUE, !.redeemError = FALSE]
        /\ fNet \subseteq fNet'
    BY <1>3 DEF Coupon!Redeem
  <2>2. /\ form'.open = form.open /\ form'.code = form.code /\ form'.timer = form.timer
        /\ form'.preview = form.preview /\ form'.previewError = form.previewError
    BY <1>1, <2>1 DEF Forms
  <2>3. QED
    BY <2>1, <2>2 DEF Due
<1>4. QED
  BY <1>2, <1>3

\* A preview that is answered, well or not, leaves its verdict.
LEMMA PreviewedDue ==
    ASSUME FormInv, NEW r \in fNet, r.answer # "", Coupon!Previewed(r)
    PROVE  Due(form, fNet)'
<1>1. form' = IF r.answer = "failed"
              THEN [form EXCEPT !.preview = None, !.previewError = TRUE]
              ELSE [form EXCEPT !.preview = r.answer, !.previewError = FALSE]
  BY DEF Coupon!Previewed
<1>2. form \in Forms /\ r.answer \in {"failed", "valid", "used"}
  BY DEF FormInv, FormTyped, Coupon!Requests
<1>3. CASE r.answer = "failed"
  <2>1. form' = [form EXCEPT !.preview = None, !.previewError = TRUE]
    BY <1>1, <1>3
  <2>2. form'.previewError
    BY <1>2, <2>1 DEF Forms
  <2>3. QED
    BY <2>2 DEF Due
<1>4. CASE r.answer # "failed"
  <2>1. form' = [form EXCEPT !.preview = r.answer, !.previewError = FALSE]
    BY <1>1, <1>4
  <2>2. form'.preview = r.answer
    BY <1>2, <2>1 DEF Forms
  <2>3. QED
    BY <1>2, <1>4, <2>2 DEF Due
<1>5. QED
  BY <1>3, <1>4

\* A redemption's answer closes the form or leaves what is due.
LEMMA RedeemedDue ==
    ASSUME FormInv, Due(form, fNet), NEW r \in fNet, Coupon!Redeemed(r)
    PROVE  Due(form, fNet)'
<1> DEFINE shut == r.answer # "failed" /\ form.kind = "modal"
<1>1. /\ r.op = "redeem" /\ fNet' = fNet \ {r}
      /\ form' = [form EXCEPT !.redeeming = FALSE,
                              !.redeemError = @ \/ ~(r.answer # "failed"),
                              !.open = @ /\ ~shut, !.timer = @ /\ ~shut]
  BY DEF Coupon!Redeemed
<1>2. shut \in BOOLEAN
  OBVIOUS
<1> HIDE DEF shut
<1>3. /\ form'.open = (form.open /\ ~shut) /\ form'.code = form.code
      /\ form'.timer = (form.timer /\ ~shut) /\ form'.preview = form.preview
      /\ form'.previewError = form.previewError
  BY <1>1, <1>2 DEF FormInv, FormTyped, Forms
<1>4. \A q \in fNet : q.op = "preview" => q \in fNet'
  BY <1>1
<1>5. CASE shut
  BY <1>3, <1>5 DEF Due
<1>6. CASE ~shut
  BY <1>3, <1>4, <1>6 DEF Due
<1>7. QED
  BY <1>5, <1>6

\* The server's side: a preview answered is still out.
LEMMA ServedDue ==
    ASSUME FormInv, Due(form, fNet), NEW r \in fNet, Coupon!Handle(r) \/ Coupon!Fail(r)
    PROVE  Due(form, fNet)'
<1>1. PICK told : fNet' = (fNet \ {r}) \cup {[r EXCEPT !.answer = told]}
  BY DEF Coupon!Handle, Coupon!Fail
<1>2. UNCHANGED form
  BY DEF Coupon!Handle, Coupon!Fail
<1>3. [r EXCEPT !.answer = told].op = r.op
  BY DEF FormInv, FormTyped, Coupon!Requests
<1>4. (\E q \in fNet : q.op = "preview") => \E q \in fNet' : q.op = "preview"
  BY <1>1, <1>3
<1>5. QED
  BY <1>2, <1>4 DEF Due

\* Every step of the form.
LEMMA NextDue ==
    ASSUME FormInv, Due(form, fNet), Coupon!Next
    PROVE  Due(form, fNet)'
<1>1. CASE Coupon!Serve
  BY <1>1, ServedDue DEF Coupon!Serve
<1>2. CASE Coupon!Arrive
  BY <1>2, PreviewedDue, RedeemedDue DEF Coupon!Arrive
<1>3. CASE Coupon!Quiet
  BY <1>3 DEF Coupon!Quiet, Coupon!vars, Due
<1>4. QED
  BY <1>1, <1>2, <1>3, EditedDue, SentDue DEF Coupon!Next
----------------------------------------------------------------------------
(* The workspace page's loading screen                                     *)

Awaits(n) == \E q \in n : q.op = "reload" /\ q.mode = "loud"

\* What a handler leaves behind the loading screen is drawn so.
LEMMA RenderedAwaits ==
    ASSUME NEW p, NEW d, NEW n, n \subseteq Requests, p.loading => Awaits(n),
           Render(p, d, n)
    PROVE  page'.loading => Awaits(net')
<1>1. page' = p
  BY DEF Render
<1>2. net' = n \/ net' = {[r EXCEPT !.alive = FALSE] : r \in n}
  BY DEF Render
<1>3. \A r \in n : [r EXCEPT !.alive = FALSE].op = r.op /\ [r EXCEPT !.alive = FALSE].mode = r.mode
  BY DEF Requests
<1>4. Awaits(n) => Awaits(net')
  BY <1>2, <1>3 DEF Awaits
<1>5. QED
  BY <1>1, <1>4

\* A request less that is not a loud reload leaves those that are.
LEMMA AwaitsStill ==
    ASSUME NEW n, NEW r, Awaits(n), r.op # "reload" \/ r.mode # "loud"
    PROVE  Awaits(n \ {r})
BY DEF Awaits

\* A step that leaves the page alone, and whatever reload is out.
LEMMA AwaitsAlone ==
    ASSUME LoadingHasCause, UNCHANGED page, Awaits(net) => Awaits(net')
    PROVE  LoadingHasCause'
BY DEF LoadingHasCause, Awaits

\* The dashboard's modals and forms touch neither; requests are only added.
LEMMA DashAwaits ==
    ASSUME LoadingHasCause,
           \/ OpenForm \/ CloseForm \/ TypePhone \/ Provision \/ OpenDelete \/ TypeAgentId
           \/ CancelDelete \/ ConfirmDelete \/ OpenRedeem \/ Redeem \/ TabRequest
           \/ AskAvailable \/ Accept
    PROVE  LoadingHasCause'
<1>1. UNCHANGED page /\ net \subseteq net'
  BY DEF OpenForm, CloseForm, TypePhone, Provision, OpenDelete, TypeAgentId, CancelDelete,
         ConfirmDelete, OpenRedeem, Redeem, TabRequest, AskAvailable, Accept
<1>2. Awaits(net) => Awaits(net')
  BY <1>1 DEF Awaits
<1>3. QED
  BY <1>1, <1>2, AwaitsAlone

\* The redemption's modal closed: only its own request is marked.
LEMMA CloseRedeemAwaits ==
    ASSUME LoadingHasCause, CloseRedeem
    PROVE  LoadingHasCause'
<1> DEFINE marked(r) == IF r.op = "redeem" THEN [r EXCEPT !.mode = "closed"] ELSE r
<1>1. UNCHANGED page /\ net' = {marked(r) : r \in net}
  BY DEF CloseRedeem
<1>2. \A r \in net : r.op = "reload" => marked(r) = r
  OBVIOUS
<1> HIDE DEF marked
<1>3. Awaits(net) => Awaits(net')
  BY <1>1, <1>2 DEF Awaits
<1>4. QED
  BY <1>1, <1>3, AwaitsAlone

\* The server's side: a reload that is handled or fails is still to come back.
LEMMA ServedAwaits ==
    ASSUME PageInv, LoadingHasCause, NEW r \in net, Handle(r) \/ Fail(r)
    PROVE  LoadingHasCause'
<1>1. UNCHANGED page
  BY DEF Handle, Fail
<1>2. PICK told, snap : net' = (net \ {r}) \cup {[r EXCEPT !.answer = told, !.snap = snap]}
  BY Zenon DEF Handle, Fail
<1>3. r \in Requests
  BY DEF PageInv, Agree, Meant
<1>4. /\ [r EXCEPT !.answer = told, !.snap = snap].op = r.op
      /\ [r EXCEPT !.answer = told, !.snap = snap].mode = r.mode
  BY <1>3 DEF Requests
<1>5. Awaits(net) => Awaits(net')
  BY <1>2, <1>4 DEF Awaits
<1>6. QED
  BY <1>1, <1>5, AwaitsAlone

\* Another workspace sends its own reload; another tab sends nothing.
LEMMA TurnAwaits ==
    ASSUME PageInv, LoadingHasCause, SwitchTenant \/ SwitchTab
    PROVE  LoadingHasCause'
<1>1. page \in Pages /\ net \subseteq Requests
  BY DEF PageInv, Agree, Meant
<1>2. CASE SwitchTenant
  <2>1. PICK t \in Tenants :
            Render([page EXCEPT !.tenant = t, !.tab = "dashboard", !.loading = TRUE,
                                !.error = FALSE], dash, net \cup {Loud(t)})
    BY <1>2 DEF SwitchTenant
  <2>2. Loud(t) \in Requests /\ Loud(t).op = "reload" /\ Loud(t).mode = "loud"
    BY LoudFields DEF Loud, Sent, Requests, Ops
  <2>3. net \cup {Loud(t)} \subseteq Requests /\ Awaits(net \cup {Loud(t)})
    BY <1>1, <2>2 DEF Awaits
  <2>4. page'.loading => Awaits(net')
    BY <2>1, <2>3, RenderedAwaits
  <2>5. QED
    BY <2>4 DEF LoadingHasCause, Awaits
<1>3. CASE SwitchTab
  <2>1. PICK tab \in Tabs : Render([page EXCEPT !.tab = tab], dash, net)
    BY <1>3 DEF SwitchTab
  <2>2. [page EXCEPT !.tab = tab].loading = page.loading
    BY <1>1 DEF Pages
  <2>3. page'.loading => Awaits(net')
    BY <1>1, <2>1, <2>2, RenderedAwaits DEF LoadingHasCause, Awaits
  <2>4. QED
    BY <2>3 DEF LoadingHasCause, Awaits
<1>4. QED
  BY <1>2, <1>3

\* A loud reload ends the loading screen, its own or another's; a silent one
\* leaves it to the loud one that is out.
LEMMA ReloadedAwaits ==
    ASSUME PageInv, LoadingHasCause, NEW r \in net, Reloaded(r)
    PROVE  LoadingHasCause'
<1> DEFINE s == IF r.answer = "failed" THEN [page EXCEPT !.error = TRUE]
                ELSE [page EXCEPT !.detail = r.snap, !.of = r.at]
           p == [s EXCEPT !.loading = @ /\ r.mode # "loud"]
<1>1. page \in Pages /\ net \subseteq Requests
  BY DEF PageInv, Agree, Meant
<1>2. Render(p, dash, net \ {r})
  BY DEF Reloaded
<1>3. "loading" \in DOMAIN s /\ s.loading = page.loading
  <2>1. CASE r.answer = "failed"
    <3>1. s = [page EXCEPT !.error = TRUE]
      BY <2>1
    <3>2. QED
      BY <1>1, <3>1 DEF Pages
  <2>2. CASE r.answer # "failed"
    <3>1. s = [page EXCEPT !.detail = r.snap, !.of = r.at]
      BY <2>2
    <3>2. QED
      BY <1>1, <3>1 DEF Pages
  <2>3. QED
    BY <2>1, <2>2
<1> HIDE DEF s
<1>4. p.loading = (page.loading /\ r.mode # "loud")
  BY <1>3
<1> HIDE DEF p
<1>5. p.loading => Awaits(net \ {r})
  BY <1>4, AwaitsStill DEF LoadingHasCause, Awaits
<1>6. page'.loading => Awaits(net')
  BY <1>1, <1>2, <1>5, RenderedAwaits
<1>7. QED
  BY <1>6 DEF LoadingHasCause, Awaits

\* What a handler does that reloads silently, or shows the end of its request.
LEMMA ChangedAwaits ==
    ASSUME PageInv, LoadingHasCause, NEW r \in net, r.op # "reload", NEW d,
           Changed(r, d) \/ Render(page, d, net \ {r})
               \/ Render([page EXCEPT !.tenant = None], d, net \ {r})
    PROVE  LoadingHasCause'
<1>1. page \in Pages /\ net \subseteq Requests /\ r.at \in Tenants
  BY DEF PageInv, Agree, Meant, Requests
<1>2. page.loading => Awaits(net \ {r})
  BY AwaitsStill DEF LoadingHasCause, Awaits
<1>3. CASE Changed(r, d)
  <2> DEFINE q == Sent("reload", r.at, None)
             n == (net \ {r}) \cup {q}
  <2>1. q \in Requests
    BY <1>1, SentFields DEF Sent, Requests, Ops
  <2>2. Render([page EXCEPT !.error = FALSE], d, n)
    BY <1>3 DEF Changed
  <2> HIDE DEF q
  <2>3. n \subseteq Requests /\ (page.loading => Awaits(n))
    BY <1>1, <1>2, <2>1 DEF Awaits
  <2> HIDE DEF n
  <2>4. [page EXCEPT !.error = FALSE].loading = page.loading
    BY <1>1 DEF Pages
  <2>5. page'.loading => Awaits(net')
    BY <2>2, <2>3, <2>4, RenderedAwaits
  <2>6. QED
    BY <2>5 DEF LoadingHasCause, Awaits
<1>4. CASE Render(page, d, net \ {r})
  <2>1. page'.loading => Awaits(net')
    BY <1>1, <1>2, <1>4, RenderedAwaits
  <2>2. QED
    BY <2>1 DEF LoadingHasCause, Awaits
<1>5. CASE Render([page EXCEPT !.tenant = None], d, net \ {r})
  <2>1. [page EXCEPT !.tenant = None].loading = page.loading
    BY <1>1 DEF Pages
  <2>2. page'.loading => Awaits(net')
    BY <1>1, <1>2, <1>5, <2>1, RenderedAwaits
  <2>3. QED
    BY <2>2 DEF LoadingHasCause, Awaits
<1>6. QED
  BY <1>3, <1>4, <1>5

\* Every answer that comes in.
LEMMA AnsweredAwaits ==
    ASSUME PageInv, LoadingHasCause, NEW r \in net,
           \/ Reloaded(r) \/ TellAvailable(r) \/ Provisioned(r) \/ Deleted(r)
           \/ Redeemed(r) \/ TabAnswered(r)
    PROVE  LoadingHasCause'
<1>1. CASE TellAvailable(r)
  <2>1. UNCHANGED page /\ net' = net \ {r} /\ r.op = "check"
    BY <1>1 DEF TellAvailable
  <2>2. QED
    BY <2>1, AwaitsStill, AwaitsAlone
<1>2. CASE Provisioned(r) \/ Deleted(r) \/ Redeemed(r) \/ TabAnswered(r)
  <2>1. /\ r.op # "reload"
        /\ \E d : \/ Changed(r, d) \/ Render(page, d, net \ {r})
                  \/ Render([page EXCEPT !.tenant = None], d, net \ {r})
    BY <1>2, Zenon DEF Provisioned, Deleted, Redeemed, TabAnswered
  <2>2. QED
    BY <2>1, ChangedAwaits
<1>3. QED
  BY <1>1, <1>2, ReloadedAwaits

\* Every step of the page.
LEMMA NextAwaits ==
    ASSUME PageInv, LoadingHasCause, Next
    PROVE  LoadingHasCause'
<1>1. CASE User
  BY <1>1, DashAwaits, CloseRedeemAwaits, TurnAwaits DEF User
<1>2. CASE Serve
  BY <1>2, ServedAwaits DEF Serve
<1>3. CASE Arrive
  BY <1>3, AnsweredAwaits DEF Arrive
<1>4. CASE Quiet
  BY <1>4 DEF Quiet, vars, LoadingHasCause
<1>5. QED
  BY <1>1, <1>2, <1>3, <1>4, DashAwaits DEF Next

----------------------------------------------------------------------------
(* Both together                                                           *)

CauseInv == PartsInv /\ LoadingHasCause /\ Due(form, fNet)

\* The page starts behind its first reload; the form has nothing to judge.
LEMMA CausesStart ==
    ASSUME MCInit
    PROVE  LoadingHasCause /\ Due(form, fNet)
<1>1. PICK t \in Tenants : Loud(t) \in net
  BY DEF MCInit, Init
<1>2. Loud(t).op = "reload" /\ Loud(t).mode = "loud"
  BY DEF Loud, Sent
<1>3. LoadingHasCause
  BY <1>1, <1>2 DEF LoadingHasCause
<1>4. form.code = Short
  BY DEF MCInit, Coupon!Init
<1>5. QED
  BY <1>3, <1>4 DEF Due

\* What is loaded or judged keeps what will bring it.
LEMMA CausesNext ==
    ASSUME CauseInv, [MCNext]_mcVars
    PROVE  CauseInv'
<1>1. PartsInv'
  BY PartsNext DEF CauseInv
<1>2. CASE OnPage(Next)
  <2>1. LoadingHasCause'
    BY <1>2, NextAwaits DEF OnPage, CauseInv, PartsInv
  <2>2. Due(form, fNet)'
    BY <1>2 DEF OnPage, CauseInv, fVars, Due
  <2>3. QED
    BY <1>1, <2>1, <2>2 DEF CauseInv
<1>3. CASE OnForm(Coupon!Next)
  <2>1. LoadingHasCause'
    BY <1>3 DEF OnForm, CauseInv, vars, LoadingHasCause
  <2>2. Due(form, fNet)'
    BY <1>3, NextDue DEF OnForm, CauseInv, PartsInv
  <2>3. QED
    BY <1>1, <2>1, <2>2 DEF CauseInv
<1>4. CASE OnPanels(Panels!Next) \/ UNCHANGED mcVars
  <2>1. UNCHANGED <<vars, fVars>>
    BY <1>4 DEF OnPanels, mcVars
  <2>2. QED
    BY <1>1, <2>1 DEF CauseInv, vars, fVars, LoadingHasCause, Due
<1>5. QED
  BY <1>2, <1>3, <1>4 DEF MCNext

\* They hold in every state.
LEMMA CausesAlways == MCSpec => []CauseInv
<1>1. MCInit => CauseInv
  BY PageStarts, FormStarts, PanelsStart, CausesStart DEF MCInit, PartsInv, CauseInv
<1>2. CauseInv /\ [MCNext]_mcVars => CauseInv'
  BY CausesNext
<1>3. QED
  BY <1>1, <1>2, PTL DEF MCSpec

\* The workspace page's loading screen always has a loud reload out that will
\* end it, however the user turns between workspaces and whichever silent
\* reloads come in between: PageLoads then rests on fairness alone.
THEOREM LoadingCaused == MCSpec => []LoadingHasCause
<1>1. CauseInv => LoadingHasCause
  BY DEF CauseInv
<1>2. QED
  BY <1>1, CausesAlways, PTL

\* A code in an open coupon form has a verdict, or the timer or the preview
\* that will bring one: VerdictComes then rests on fairness alone.
THEOREM VerdictCaused == MCSpec => []Coupon!VerdictDue
<1>1. CauseInv => Coupon!VerdictDue
  BY DEF CauseInv, Due, Coupon!VerdictDue
<1>2. QED
  BY <1>1, CausesAlways, PTL
=============================================================================

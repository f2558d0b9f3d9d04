# Verification of agentleh-app

TLA+ models of the application in `../src`, the TLC configurations that check
them on small instances, and TLAPS proofs about them for every instance.
`PROJECT.json` lists the components, the runs with their properties, the
mutants that show each property can fail, the source lines behind each
definition, the findings, the hazards and the theorems.

    tlc -workers 2 -config AgentPage.cfg MCAgentPage.tla
    tlapm ChatPaneProofs.tla

- [The system](#the-system)
- [What is modelled](#what-is-modelled)
- [What the runs show](#what-the-runs-show)
- [What does not hold](#what-does-not-hold)
- [What is proved](#what-is-proved)
- [Assumptions and what is left out](#assumptions-and-what-is-left-out)
- [Plan](#plan)

## The system

A FastAPI application (`api/`, `lib/`, `services/`) and a React single-page
application (`frontend/`), which is most of the code.

**The backend** keeps its state in Postgres, in a provisioner service on a VM
that runs one container per agent, in Google Secret Manager, in Telegram, and in
a separate billing service, the meter. Two uvicorn workers run in each of
several Cloud Run instances; nothing in a worker's memory protects one request
from another. Each `_fetch_one` / `_execute` of `lib/db.py` is a transaction of
its own; `with db.connect()` opens a longer one, at READ COMMITTED. So two
requests interleave between any two statements, and only row locks, unique
indexes and guards inside a statement order them.

**The frontend** runs a handler, draws, and runs the effects whose dependencies
changed, before anything else happens. What interleaves is everything that is
waited for: answers come late, in any order or never, to a component that has
been drawn anew, shows another agent, or is gone; timers fire after what armed
them has been left; a closure keeps the state of the render it was made in.

| Component | State | Operations | Talks to | What is hard | Correct when |
|---|---|---|---|---|---|
| Coupons and subscriptions (`lib/coupons.py`) | `coupons`, `coupon_redemptions`, `agent_subscriptions` | redeem, preview, admin grant, admin create / update / disable / enable | workspaces (tenant alive), onboarding (status), the meter reads the subscription | one long transaction with up to four lock waits; the row to lock may not exist | each redeem is atomic; limits hold; a paid period is neither lost nor doubled |
| Workspaces, members, invites (`routes/tenants.py`, `routes/invites.py`) | `tenants`, `tenant_memberships`, `tenant_invites` | create, default tenant, soft delete, transfer, change role, remove, invite, revoke, accept, expire | every tenant route, through `get_active_tenant_member` | authorization is read before and used after other requests commit | one owner, who is a member; invites are used once and never lower a role; nobody loses their last workspace |
| Chat client (`ChatPane.tsx`) | the socket, the reconnect timer, the bubbles | connect, reconnect with a growing delay, send, abort, frames | chat proxy, through it the agent's gateway | sockets, timers and tokens of several attempts overlap; history and live events tell the same answer | one connection, which comes back; an answer is shown once |
| Bridges card (`BridgesPanel.tsx`) | the rows shown, two dialogs, one poll loop | bind, change, unbind a number; link, poll, paste, disconnect Telegram | bridges routes, Telegram's webhook | debounced checks and a poll loop whose effect is torn down at any time | nothing is disabled without a cause, and no dialog waits for what is not on its way |
| Google card (`IntegrationsPanel.tsx`) | the card, the poll | connect, cancel, disconnect, poll | Google routes, the consent page | a poll without a flag of its own | every wait is polled and ends |
| Workspace page (`TenantPage.tsx`) | the detail, the dashboard's modals, a stream | load, reload, create and delete agents, members, settings | every tenant route | silent and loud reloads of more than one workspace | never blank; what is in progress has its request out and stays on the screen |
| Usage, scheduled tasks, integrations list, voices (`UsageTab.tsx`, `AgentScheduledTasksPanel.tsx`, `IntegrationsTab.tsx`, `VoicePicker.tsx`) | one fetched list each | choose, cancel a task, list | meter, VM, manifest | only some effects drop a late answer | what is drawn is what was chosen last; nothing is busy without a request |
| Coupon forms (`RedeemCouponPage.tsx`, the page's modal) | code, preview, redeem | type, preview after a pause, redeem | coupons routes | previews are never cancelled | one redemption; every code is judged |
| Application shell and sign-in (`App.tsx`, `lib/api.ts`) | session, user, route, active workspace | load, sign out, navigate, refresh and retry | Supabase, `/me` | session events during calls; a 401 refreshes the session, which loads again | ends its loading; shows nothing of a session that is over |
| Superadmin panel (`AdminPage.tsx`) | overview, modals, tabs | reload, detail, delete, switch model, coupons, grants | admin routes | every change draws a loading screen over modals that stay "in progress" | nothing stays in progress for good |
| Onboarding status (`routes/onboarding.py`) | `app_users.onboarding_status` | plan_active on redeem, advance on accept, complete after the stream | coupons, invites, agents | three writers, each with a stale snapshot; double submit | the status never goes back |
| Agent lifecycle (`routes/tenants.py`, `services/provisioning.py`) | `agents`, `phone_routes`, the VM's containers | provision (stream), delete | VM, coupons (plan gate), secrets | timeouts of minutes with unknown outcome, crash between VM and database | row, route and container agree, or a retry makes them |
| Phone routes (`routes/bridges.py`) | `phone_routes`, `agents.phone` | connect, change, disconnect | agent lifecycle | guard and write are apart | a number leads to one live agent |
| Telegram bridge (`routes/bridges.py`) | `agent_bridges`, the secret, the container's config | connect, disconnect, status | Secret Manager, VM, Telegram | four systems written in turn | an enabled row has its secret and a running channel |
| Telegram managed bots (`routes/telegram_webhook.py`) | `telegram_pending_attempts` and the bridge | start, `/start`, managed_bot update, status poll | Telegram (at-least-once), bridge | duplicate and crossed updates | a bot goes to the agent it was created for |
| Agent model switch (`routes/admin.py`) | `agents.model`, the VM's setting | switch, resync | VM | VM first, database second | the two agree after a resync |
| Google connection (`routes/google_oauth.py`, `routes/integrations.py`) | state token, the grant (in the meter) | start, callback, disconnect | Nylas, meter | a callback after the agent is gone | one live grant per connected agent |
| Short links (`services/shortlink.py`) | `short_links` | create, resolve | | collisions, expiry | a code resolves to what it was made for |
| Chat proxy (`services/chat_proxy.py`) | two sockets and two pumps | connect, pump, close | VM gateway | whichever side ends first | both sockets end |
| Authentication gate (`api/auth.py`, `get_user_for_auth`) | `app_users`, JWKS cache | first request, later requests | Supabase | two first requests of one user | one row per user |
| Voices, email and WhatsApp sending, statistics proxies, invite pages, reminders, error handlers, audit log, remaining pages | none that another part relies on | | | | |

## What is modelled

| Module | Stands for |
|---|---|
| `CouponLedger` | abstract specification: coupons and their audit rows, each redeem and each grant one atomic step; the admin's single-statement edits |
| `CouponRedeem`, `CouponRedeemProofs`, `SubscriptionProofs` | `redeem()` and the admin grant as interleaved transactions over the same tables, subscriptions, the clock and tenant deletion; EXTENDS the ledger and implements it |
| `Workspace`, `WorkspaceProofs` | tenants, memberships and invites under concurrent requests |
| `ChatPane`, `ChatPaneProofs` | the web chat, with proxy and gateway as its environment |
| `BridgesPanel`, `BridgesPanelProofs` | the bridges card with both dialogs |
| `Poller` | abstract specification of a polling dialog, which the Telegram dialog implements |
| `IntegrationsPanel` | the Google card |
| `TenantPage` | the workspace page |
| `TabPanels` | the parts of it that fetch for themselves |
| `CouponForm` | the two coupon forms, of one state machine |
| `App` | the shell, with `authFetch` |
| `AdminPage` | the superadmin's panel |
| `MCCouponRedeem`, `MCWorkspace` | small catalogs, initial states and symmetry for TLC |
| `MCAgentPage`, `MCWorkspacePage`, `MCShell` | the frontend's components that one screen or one session holds, composed |
| `AgentPageProofs`, `WorkspacePageProofs`, `ShellProofs` | proofs about these compositions |

### Coupons

A call of `redeem()` is a record `tx[r]`; its `pc` names the statement it is
about to run. `BeginCoupon` / `BeginGrant` fix the transaction's `now()`
(`began`). `LockCoupon` waits for the coupon's row and validates it
(`_validate_coupon_row`); `ReadActive` is the snapshot of the locking SELECT on
the running subscription and `LockActive` the row lock, after which Postgres
evaluates WHERE again on the row's newest version and goes on to the next
candidate of the *same* snapshot when it fails; `Schedule` is
`_compute_schedule`, with the clock read at that moment; `Insert` waits for the
unique key `(tenant_id, period_start)`; `Commit` publishes the subscription,
the superseded row, the audit row and the count. `RefuseCoupon`,
`RefuseTenant`, `RefuseKey` and `Crash` roll back. The request id doubles as
the id of the rows it inserts.

`LedgerImplemented == LedgerSpec` is the refinement. The ledger's variables are
the same tables, so the refinement mapping is the identity, and a redeem takes
effect at its COMMIT.

### Workspaces

`req[r]` is a request in one of the slots: its route, the caller, the tenant,
and what the request has read and goes on using. `Enter` and `CheckRole` are
the two statements of `get_active_tenant_member`; `owner` keeps the
`owner_user_id` read by the first one, which `change_member_role` and
`remove_member` compare with later. `LockTenant`, `CheckMember`, `Demote`,
`Promote` and `Publish` are the statements of `transfer_tenant_owner`;
`ReadInvite` is the route's look at the invite without a lock, and `LockInvite`,
`ReadMembership`, `Upsert` and `Accept` are `accept_invite`. `CountOwned` and
`SoftDelete` are the two transactions of `DELETE /tenants/{id}`. `ReadDefault`
and `CreateDefault` are `ensure_default_tenant`. `Refuse` collects the error
answers and `Crash` the loss of a worker at any statement.

Locks follow from the requests' control state: a transfer holds the tenants row
while `pc \in Transferring`, an accept its invite while `pc \in Accepting`, and
`locked` holds the membership rows a transaction has updated, inserted or read
FOR UPDATE. An uncommitted write is visible only as a lock, and `Publish` and
`Accept` show all of it. Fields a request no longer uses are reset so that
requests that behave alike are the same state.

### The frontend's components

**Handlers.** An action is a handler together with the render and the effects
that follow, since React lets nothing in between: `Typed` in `TenantPage` is the
new number with the effects that reset the verdict, arm the debounce timer and
turn the spinner; unmounting is what the effects' cleanups do. State that a
component loses when it is drawn anew is reset where the render does so (`Fresh`,
`FreshUsage`), and state that survives is not.

**Requests.** A request out is a record of `net` (`calls` in `App`) with what its
continuation uses later: the workspace, agent or number it was sent for, and
`alive`, which falls when the effect that sent it is cleaned up or its part
unmounted. The server handles it (`Handle`: the answer and the
change of the server's state), it may fail or be lost on its way there or back
(`Fail`, `Lose`), and the answer arrives (`Arrive`). Requests are handled
in any order and answers arrive in any order. `net` is a set: two identical requests out at once count as one, which is
less than the code can do only where their answers would differ in order alone.

**Closures.** A handler that outlives the render it was made in acts on what that
render held: `first` and `was` in `App`, `arg` and `mode` in `TenantPage`.

**The chat.** `sock[s]` is a WebSocket object with its state, the frames on their
way and whether "ready" has come. Opening a socket is a step of its own, after
the session's token was awaited (`waits`); a close is heard (`OnClose`) some time
after the connection is gone. The gateway answers on one socket in the order in
which it did things, and broadcasts a run's events to the socket that is open.

**The bridges and Google cards.** `loop` is the Telegram poll: off, asleep or with
a question out; `BridgesPanel`'s `Polls` is the effect's condition, and the effect
is torn down and started with it. The Google poll has no such flag, so `poll` holds
every loop ever started and `ref` the one whose timer can be cleared.

**The shell.** A session's token is fresh or stale. A call that is refused
refreshes the session once, which fires Supabase's event, whose listener loads the
user again; a refused retry signs out locally. `Bounded` is what the user,
Supabase's timers and the network's faults may do, finitely often.

**Refinement.** `PollerImplemented == Poll!FairSpec` maps `phase` to `loop` and
`verdict` to the Telegram dialog's status, where it is a verdict: a verdict comes
only from the running loop or its deadline, a loop that was dropped never speaks
again, there is one question at a time, and every loop ends.

**Composition.** The chat and the two cards of an agent share no state, nor do the
workspace page, its panels and the coupon form once they are drawn, nor the shell
and the superadmin's panel. The MC modules therefore run them side by side with
a `focus`: a behaviour works on one part, and the others stay as they were
first drawn. This checks each part in full and spares their product, in which
nothing more could happen.

## What the runs show

| Run | Instance | Question | Result |
|---|---|---|---|
| `coupon_terms` | 3 calls, 2 users, 1 coupon, limits 1 and 2, expiry 0 or never, 1 tick, 3 admin edits | do interleaved redeems implement the atomic ledger, and do counts match audit rows? | holds, 29 thousand states |
| `subscription_race` | 3 calls, 1 tenant, a coupon of the cheap plan and grants of both, 2 ticks | is a subscription superseded once, do queued periods chain, is history append-only? | holds, 579 thousand states |
| `redeem_ends` | 3 calls on 2 coupons, fairness | do the lock waits always end? | holds, 208 thousand states |
| `race_uncovered` | 2 calls, 1 tenant | does an immediate period start only where none runs? | violated |
| `invite_races` | 2 slots, 2 users, 1 workspace, 1 invite | are invites used once, do they grant what they promise, can the waits form a cycle? | holds, 337 thousand states |
| `tenant_lifecycle` | 2 slots, 3 users, 2 workspaces, of which at most one is in use at first | can transfers leave two owners, and does a deleted workspace stay as it was? | holds, 1.9 million states |
| `owner_lost` | as `invite_races` | is the owner always a member with role owner? | violated |
| `role_lowered` | 2 slots, 2 users, 2 invites | does an accept ever lower a role? | violated |
| `agent_page` | chat: 2 sockets, 2 messages, 2 frames on a wire; bridges: 2 numbers, one taken, 3 requests out; Google: 2 loops; 4 acts of the user | does the chat keep one connection, come back, and show an answer once; does nothing but Try again leave the Telegram dialog waiting in vain; is every wait of the Google card polled, and does it end? | holds, 111 thousand states |
| `workspace_page` | page: 2 workspaces, 1 agent, 2 numbers, 2 requests out, 4 acts; form: 2 codes, 3 requests out; panels: 3 ranges, 2 tasks, 2 agents, 3 requests out, 3 acts | is the page never blank, does what is in progress have its request and its place on the dashboard, are usage and voices of the last choice, is nothing busy without a request, is a code judged and redeemed once? | holds, 341 thousand states |
| `shell` | 2 workspaces, 2 calls out, 2 acts; panel: 2 agents, one without a workspace, 3 requests out, 4 acts | does the shell settle, and show the landing page without a session; does nothing in the panel stay in progress? | holds, 262 thousand states |
| `retry_starts` | the bridges card of `agent_page` | does Try again ask for a link? | violated |

Why these bounds are enough to be interesting:

- Three redeems are the least in which one waits while another commits and a
  third starts from the result: a skipped candidate needs a row, the upgrade
  that supersedes it and the redeem that had it in its snapshot. Two prices give
  all three answers of `compare_plan_tier`. Periods of one and two ticks and a
  clock of up to two make a queued renewal start inside an upgrade.
- Limits 1 and 2 with three calls reach the limit, miss it and lower it below
  the count. Three admin edits are create, one change, and disable or enable.
- Two slots show every pairwise race of two routes; each slot runs any number
  of requests one after the other, so a run covers sequences of any length over
  these users. A tenant begins unused or as any workspace earlier requests can
  have left (`Established`: an owner and any other members), so no room is
  spent on building it up. Three users give a transfer an owner, a target and a
  bystander; `OneSharedInit` starts the two workspaces of `tenant_lifecycle`
  with other members in at most one.
- Two sockets are a live one and the one before it, whose close is heard late;
  objects are reused, so a behaviour reconnects any number of times. Two
  messages are one whose answer a reconnection cuts and one sent after it.
- Three requests out are a late answer, the one that replaces it and one of
  another kind; two workspaces, codes or tasks and three ranges are what was
  asked for and what is shown now. Four acts open a dialog, change what it
  holds, leave it and come back. `MaxUser` bounds the user, never the answers
  still owed.
- Ids are bounded: a request that inserts a row does not begin when no id would
  be left (`TenantsLeft`, `InvitesLeft`). `MaxTime` and `MaxAdminSteps` bound the
  clock and the admin's edits, `MaxNet` / `FormNet` / `PanelNet` / `AdminNet` the
  requests out at once, `MaxWire` the frames on a socket, `MaxAttempt` the
  attempts after which the delay no longer grows. A bound only stops new work,
  so what is open still ends.

Symmetry is taken over requests and users (coupons), slots, ordinary users,
superadmins, workspaces and invites, all of them interchangeable in the
specification, and only in runs of safety properties.

Deadlock is checked in every run. `Quiet` is a stuttering step enabled only when
nothing is open or out: all calls may have been made, all workspaces deleted, the
user done. `Crash` can always end an open request of the backend, so `NoDeadlock`
asks for more: among the open requests one can go on without a crash and without
new ones. It says so in two parts: the guards of one open request hold (`NeverStuck`,
by `CanGo`), and a request whose guards hold can take a step (`GuardsMet`).

Fairness:

- `CouponRedeem`: weak fairness of `Advance(r)`, each open transaction's next
  statement. A worker thread runs its statements without waiting for anything
  but the database, and Postgres grants a row lock to its first waiter when the
  holder ends.
- The frontend: weak fairness of armed timers (`AskAvailable`, `Tick`, `Reconnect`,
  `LinkExpires`, `Deadline`), of the server handling what was sent (`Serve`) and of
  answers arriving (`Arrive`). `fetch` ends in an answer or an error, and the
  browser's event loop gets to every timer.
- `ChatPane` besides: strong fairness of `OnOpen`, `Greet` and `OnMessage`. The
  network may break every connection, so that these are enabled again and again
  without ever being taken; what is assumed is that it does not do so for ever.
- `App` besides: a retry (`tried`) is handled and answered without being lost,
  as its faults are finitely many. A network that loses every retry would keep
  the shell loading users for ever.

Nothing is assumed of users, admins, Telegram, Google, the clock or crashes.

## What does not hold

Checked as runs of their own, each against a line of the repository:

1. `race_uncovered`. `redeem()` orders two redeems of a tenant by locking the
   running subscription. Without one there is nothing to lock, and a redeem that
   waited for a row which the winner superseded sees none either (its snapshot
   is older). Both then insert an immediate period, against "Two concurrent
   redeems against the same tenant serialize cleanly" (`lib/coupons.py:32`).
2. `owner_lost`. `change_member_role` compares its target with an owner read
   earlier. If a transfer commits in between, the new owner is demoted and the
   workspace has no 'owner' row. A removal that commits inside a transfer does
   the same, since `Promote` checks no row count.
3. `role_lowered`. Two invites of one address for different roles, accepted at
   once: no membership row exists to lock, and the member invite's upsert
   overwrites the admin row just committed.
4. `retry_starts`. The effect that asks for a Telegram link depends on the dialog
   and the tab alone; Try again only resets the status to idle, so "Generating
   link" stays until the dialog is reopened.

That is as far as it goes: no answer, loss, timer, reopening or change of tab makes
a Telegram dialog wait in vain, only Try again does (`WaitingIsServed`, an action
property, since a dialog that Try again has left so stays so).

Stated in the modules as properties that do not hold, and met while modelling:

- `HighTierRunsToItsEnd` (`CouponRedeem`): renew the cheap plan, upgrade, wait.
  The queued renewal starts while the upgrade still runs and, being newest, is
  the one billed. No concurrency is needed.
- `LastTenantKept` (`Workspace`): counting owned workspaces and deleting one are
  two transactions; two concurrent deletes leave none.
- `PollCleared` (`IntegrationsPanel`): a question that is out when the Google poll
  is cancelled or the card unmounted arms the timer again, so a loop runs on
  beside the next one until its deadline or the connection.
- `LinkIsPolled` (`BridgesPanel`): open the Telegram dialog, close it and open it
  again, so that two links are being asked for; the first request fails, Try again
  resets the status to idle, and the second one's link is stored. The dialog shows it
  under "Waiting for confirmation in Telegram", but the polling effect returns for a
  status other than waiting (`BridgesPanel.tsx:306`). Its comment has the poll stop
  only on a verdict or when the dialog closes (300-303).
- `StreamIsShown` (`TenantPage`): a reload while an agent is being created answers
  without the dashboard's half (`TenantPage.tsx:77`). The page then has no plan, and
  the form with the stream's progress is off the screen (601) until a later reload. What
  holds is `InFlightIsShown`: the form is drawn whenever the page has a plan and
  the role to draw it. While it is not drawn it covers nothing, so that the plan
  button and Delete can be clicked, and two modals are on the screen when it comes
  back (`Covered`).
- `ConnectAgain` (`IntegrationsPanel`): after the timeout the card shows an error in
  place of its buttons, so that there is no Connect to click again.
- `SubmitWaitsForCheck` (`TenantPage`): the answer to an older availability check
  turns the spinner off while the number typed now is still being asked about.
- `ActiveKept` (`App`): the listener given to Supabase at the first render keeps
  that render's active workspace (`first`). On a route without a workspace, a
  session event decides by that one whether to go to the default workspace, and
  may override the active one, against the comment at `App.tsx:97`.
- `VoiceNeverMismatched` (`TabPanels`): the form reopened with the voice it had,
  and another gender chosen before the manifest is loaded (`VoicePicker.tsx:140`).

Seen in the code, and modelled as it is without a property of its own:

- The Telegram dialog's closing by itself after a connection
  (`BridgesPanel.tsx:324-328`) never happens: the status it has just set
  tears its own effect down, whose `cancelled` keeps the dialog open.
- A chat unmounted while it awaits a token opens its socket later and goes on
  reconnecting; nothing but a refusal stops it. `OneConnection` therefore
  promises one way to go on even then, and no more than one.
- The reconnect delay is reset when the socket opens, before the gateway has
  accepted it (`ChatPane.tsx:237`), so a gateway that is down is retried at the
  shortest delay.
- Cancelling a scheduled task always fails: the route calls `db.get_agent`
  (`api/routes/tenants.py:995`), which `lib/db.py` does not define. `TabPanels`
  has the server fail every cancellation.
- The totals of the last range stay drawn beside the error of a new range that
  could not be loaded (`UsageTab.tsx`), and a tasks list read before a
  cancellation would come last and bring the task back.
- A user who has given away or deleted the workspace with their default slug can
  get no new default one (`Refuse` with `SlugTaken`), and a superadmin with a
  'member' row has less power in that workspace than one without (`EffectiveRole`).

## What is proved

`tlapm` checks the eight proof modules to the last leaf, for any sets of requests,
users, tenants, coupons, invites, agents, sockets, messages, numbers, codes, tasks
and ranges, any catalog and any bounds, from named assumptions alone. These are the
kind of thing code takes for granted:

| Assumption | Of | Says |
|---|---|---|
| `LedgerAssumption`, `RedeemAssumption` | coupons | markers such as `NoRow` are no values of the data; prices, limits, durations and the clock's bound are natural numbers |
| `WorkspaceAssumption` | workspaces | markers are no values of the data; superadmins are users |
| `FewIds` | workspaces | ids of workspaces and invites are finitely many, a bound of the model; used only to count those that are left for the requests that take one |
| `ChatAssumption` | chat | a wire holds at least one frame; the delay's bound is a natural number |
| `CardsAssumption` | cards | the bound on the user's acts is a natural number; finitely many Google loops |
| `PageAssumption`, `PanelsAssumption` | workspace page | `None` is no workspace, agent or number; there is a range to show; bounds are natural numbers |
| `ShellAssumption`, `PanelAssumption` | shell, superadmin's panel | bounds are natural numbers |

With them, every invariant that a passing run checks is proved, and so are the action
properties and the safety part of both refinements. Of `NoDeadlock` one conjunct,
`GuardsMet`, says ENABLED and is the hypothesis of its theorem.

Liveness rests on fairness and is left to TLC. What it rests on besides, that whatever
waits has something on its way and that somebody can always go on, is safety, and
proved:

| Liveness property | Proved safety under it |
|---|---|
| `RedeemEnds` | `NoCycle`, `HolderOpen`, `RedeemsNeverStuck`, `Forward` |
| `ChatReconnects` | `OneWay` |
| `GoogleWaitEnds` | `GoogleServed` |
| `PageLoads` | `LoadingCaused` |
| `VerdictComes` | `VerdictCaused` |
| `PanelsLoad` | `PanelsShowLast` |
| `ShellBoots` | `BootCaused` |
| `PanelLoads` | `LoadsCaused` |
| `Settles` | nothing: it is about a chain of calls that ends |

`CouponRedeemProofs`: `TypeCorrect`, `Balanced` (`BooksBalance`), `Linearizable`
(`LedgerImplemented`) and `Appending` (`AppendOnly`). Types do not suffice: that
a COMMIT may count a redemption depends on what `LockCoupon` found several
statements earlier. The invariant `IInv` therefore says that a coupon has one
holder (`CouponMutex`) and that for the holder the validation still holds
(`StillRedeemable`): other redeems and the admin wait for the row, and the clock
is not part of the ledger. `RowsOfDone`, `RefsExist`, `ArgsKnown` and
`NoStrayRedemption` tie a call to its rows and make the count exact. The actions
fall into five kinds (a call starts, ends, proceeds, commits; an admin edits),
and each conjunct is proved kind by kind.

`SubscriptionProofs`, on top of it: `ReplacedOnce` (`SupersededOnce`) and
`PeriodsChain` (`QueueChains`). Both speak of committed rows, while the decision is
made under a lock held over several statements, and with a snapshot older than the
lock. So `SInv` follows the lock: two calls never hold the same subscription
(`RowsApart`), and the row a call has found is held, active, of its tenant and begun
no later than the transaction, until it ends (`CurrentHeld`, with `NotAhead` for the
clock). From there the decision is carried to the commit: an upgrade replaces what it
found, of a plan that costs no more and began no later (`Replaces`); a renewal or
downgrade starts when what it found ends, or later (`Follows`), and behind every
period already queued there (`BehindQueue`, of which `QueueApart` is the outcome);
the committed row is what was decided (`Copied`). `BehindQueue` is where the lock is
needed: only a call that holds the same row could queue another period behind it.
Tenant deletion and the admin's edits change no subscription and disturb none of this.
`NoRow` as `current` is left out of all of it, which is the case that
`race_uncovered` shows to go wrong.

Its last section is about the waits. `WaitsFor(r, q)` says that `r`'s next statement
needs a coupon's row, a subscription or a key that `q` holds. In any set of calls one
waits for none of them (`NoCycle`): a call that commits waits for nothing, and one that
waits for a key waits for a call that commits. Of those that wait for a subscription,
take the oldest row so awaited: a call in the set that held it would itself be waiting,
and only for older rows (`Descending`), as it locks its snapshot from the newest row to
the oldest. Calls that wait for a coupon hold nothing yet. `WInv` adds the rest of what
this takes: where a call holds rows, all of its tenant (`RowsOfTenant`), no two of which
begin at once (`KeysUnique`), a key that is reserved once (`KeyReserved`), and finitely
many calls (`FewCalls`), on which the queue a renewal joins has an end. The oldest row
and the end of a queue exist by induction over finite sets, in `Least` and `Greatest`,
from the library's theorem that strict inclusion is well-founded. `HolderOpen` adds that
whoever is stopped waits for an open call, so that one can always go on
(`RedeemsNeverStuck`); `Forward`, that each of its steps brings it closer to its end.

`WorkspaceProofs`: `TypeCorrect`, `SingleOwner` (`OneOwner`), `DeletedForGood`
(`DeletedIsFinal`), `UsedOnce` (`InviteUsedOnce`) and `AcceptEffective`
(`AcceptGrants`). `IInv` adds two things to the state properties among these.
`Sound` says what an open request may rely on: a transfer's workspace lives and
has the owner it has read (`OwnerKnown`) and once it has demoted the old one
either holds that row or the row is no 'owner' row (`OwnerDemoted`), an accept's
invite is still usable (`InviteHeld`) and the membership it found is still there
or it has locked the row it inserts (`MembershipHeld`). `Apart` says that two
requests never hold the same tenant, invite or membership row. A step either
moves one request (`LocalStep`) or ends it with a change of the tables that the
others bear (`LastStep`), so each action needs only its own facts. The theorems
hold with superadmins, of whom the runs' instances have none.

Here too the last section is about the waits: `NoCycle`, `RequestsNeverStuck` and
`DeadlockFree` (`NoDeadlock`, given `GuardsMet`). `Level` is the order: first a tenant's
or an invite's row, then a membership row, then the second one of a transfer. Whoever
is waited for is further down (`Downhill`), so that waits form chains of four
at most. `Placed` says where membership rows are locked: by a transfer from its second
UPDATE on, by an accept its own row alone. That a transfer at its second row waits for no
other transfer is `Apart`, the tenant's lock. `Room` counts: an id is left for each
request that has been let in to take one, so that the model's bound on ids stops
no open request.

`ChatPaneProofs`: `TypeCorrect`, `OneWay` (`OneConnection`), `ShownOnce`
(`AnswerShownOnce`), `SentWhenReady` (`SendsWhenReady`) and `OfflineStays`
(`OfflineIsFinal`). `OneConnection` counts; the invariant says instead that of a
live socket, an awaited token and an armed timer each excludes the others, and
that offline there is none (`Ways`). `Heard` says that Send is enabled only by a
live socket that has said ready. `AnswerShownOnce` needs the order of frames:
`Told` says that a run told by a history, on its way or drawn, is over in the
gateway, that no wire holds an event of it, and that on a wire none comes after
the history that tells it.

`BridgesPanelProofs`: `NothingStuck` (the card's `DisabledHasCause`), `WaitingServed`
(its `WaitingIsServed`, an action property) and `PollsAsPoller` (the
safety part of its refinement of `Poller`). `Running` says that the loop runs exactly
while the view that is shown waits for its link; `Asking`, that at most one status question belongs to a
running loop, which then waits for it, so that an answer that comes to a dropped
loop is recognised by its own flag; `Linking`, that a link that is waited for and
not there is being asked for; `Causes`, that what is disabled has its request or
timer. By this invariant an open dialog that waits in vain can only be an idle one
(`Idle`), so that `WaitingServed` is left to show that no step but Try again turns an
open dialog idle, opening, a change of tab and late answers included.

`AgentPageProofs`, about the page with chat and both cards (`MCSpec`): `CardsTyped`
(`CardsTypeOK`), `PageNothingStuck` (`DisabledHasCause`), `PageWaitingServed`
(`WaitingIsServed`) and `GoogleServed` (`GoogleWaitIsPolled`). The bridges card's part
is carried over from `BridgesPanelProofs` by INSTANCE. For the Google card, `Awaited`
and `Caused` are the two halves of the property, and are inductive beside the types:
stopping a poll ends the wait in the same handler, so the loops it fails to clear
(`PollCleared` does not hold) may go on without harm to what the card says. `Opened`
counts: consent pages never outnumber the loops that were started.

`WorkspacePageProofs`: `PartsTyped` (`PagesTypeOK`), `PageNeverBlank` (`NeverBlank`),
`WorkIsShown` (`InFlightIsShown`), `OneRedemption` (`OneRedeemOut`) and
`PanelsShowLast` (`PanelsAgree`), from one invariant for each part:

- `PageInv`. `NeverBlank` is not inductive: the answer to a change clears the page's
  error at once, before its silent reload is answered. `Asking` adds that only a page
  which has a detail has anything but reloads out, so that there is then one to draw.
  `Working` says of each kind of work more than the property does: a deletion keeps
  its confirmed modal and its agent, and a redemption is of the modal now open and not
  of one closed meanwhile (`mode`), whose answer would not give the button back.
  `Drawn` keeps the debounce timer and the work under way to a dashboard that is
  drawn: whatever leaves it, or draws the loading screen over it, resets them.
- `FormInv`. The property counts redemptions; `OnlyOne` says that any two that are out
  are the same one, and `redeeming` is true exactly when there is one: previews,
  whichever are answered meanwhile, touch neither.
- `PanelInv`. `HeardOfRange`: a usage request that is still heard is for the range
  chosen now, which is what the effect's cleanup is for. `TasksBusy`: a task is being
  cancelled only where tasks are looked at, so that reopening the view cannot
  inherit one.
- `CauseInv`, of which `LoadingCaused` and `VerdictCaused` are parts (`LoadingHasCause`
  of the page, `VerdictDue` of the form). The first is inductive beside `PageInv`: the
  answer that ends a loud reload also ends the loading it belongs to, and turning to
  another workspace starts both. Silent reloads touch neither. So is the second: each
  handler that clears the verdict arms the timer, and an answer, right or refused,
  leaves a verdict even of a code typed before.

`ShellProofs`: `ShellTyped` (`ShellTypeOK`), `SignedOutIsOutside` (`LandingWhenOut`),
`ProgressCaused` (`ProgressHasCause`) and `PanelDrawn` (`PanelNeverBlank`).
`LandingWhenOut` looks at what is drawn; it is inductive only with `Signed`, that a
session App believes in is one the browser has: a refused retry signs out in the same
step in which the listener hears of it. `Sound` types a call's answer by the call it
answers, without which a late `/me` could bring a user that is none. In the panel,
`Named` says that deletions and switches name an agent, so that `DeleteCaused` and
`SwitchCaused` can match a request with the modal; each allows the reload that ends
the operation (`ends`) in its stead, since the modal stays in progress over that
reload's loading screen. That reload is about no agent: when another one ends the
loading first, a modal opened then shows the progress of the operation before.
`BootCaused` and `LoadsCaused` are proved likewise. For the coupons the request out is
not enough: the tab drops the answer to a load that a mount before it sent (`alive`).

The frontend's invariants are proved handler by handler, each part's with the others
unchanged, which is what `focus` makes of a step of the composition.

Only model-checked:

- liveness: `RedeemEnds`, `ChatReconnects`, `GoogleWaitEnds`, `PageLoads`,
  `VerdictComes`, `PanelsLoad`, `ShellBoots`, `Settles`, `PanelLoads`, and that the
  loops of `Poller` end (the fairness half of `PollerImplemented`). It rests on
  fairness, that is on ENABLED, which this prover does not reason about;
- `GuardsMet`, the conjunct of `Workspace`'s `NoDeadlock` that says ENABLED;
- the violated properties, and those stated as not holding.

## Assumptions and what is left out

The database schema (migrations) is not in the repository. Modelled from how the
code uses it, and marked external: the plans' prices and the unique index on
`agent_subscriptions (tenant_id, period_start)`, without which
`UniqueViolation` could not occur. `OneOwner` is proved without the partial unique
index on owners. The slug of a default workspace is taken to be unique, as
`ensure_default_tenant` has no other way to fail. Two pending invites to one
address are taken to be possible: nothing in the code prevents them. Foreign
keys are not modelled; their locks block no statement modelled here.

Left out of the modelled parts of the backend: names, slugs other than the default
one, e-mail text, tokens, the audit log (`log_audit` never raises), `preview()`
(read-only), rename of a workspace, and the change of `onboarding_status` after a
redeem or an accept. The database waits that Postgres would cut by a statement
timeout are covered by `Crash`.

Left out of the frontend's: texts and layout; validation of fields, so that a
number or code is valid, short or absent; the playing of voice samples; the member
and invite lists' own contents; the fields of the onboarding form and the payment
pages; the superadmin's tabs that only show what one call returns; the audit log,
which is `UsageTab` with one range; `RemindersTab`, which nothing draws. The server
behind a page is what its answers need: rows, phones, roles, a plan. It answers
each request atomically, so the races of the backend are in the backend's modules.
Telegram's webhook is one step too, with its three outcomes; its writes do not fall
between those of a pasted token or of another attempt.

Not modelled, and why:

- Onboarding status, agent lifecycle, phone routes, Telegram bridge and managed
  bots, model switch, Google connection, short links: most of each is the order
  in which other systems (VM, Secret Manager, Telegram, Nylas, meter) are written,
  whose code is not here. Planned below.
- Chat proxy: the client's module has what a client sees of it; the handshake with
  the gateway and the cancellation of the two pumps are not modelled.
- Authentication gate: three branches of one statement each, around external JWT
  verification. Planned last.
- Voices on the server, email and WhatsApp sending, statistics proxies, invite
  preview pages, reminders, start-up and error handlers, read queries: no state
  that another part relies on.

## Plan

Proofs: for each module added below its type and its first safety invariant, and for
those that lock rows that their waits have no cycle.

Modules, the most consequential first:

1. `Onboarding`: the status written by redeem, accept and submit from stale
   snapshots; double submit. Composes with the coupons and invites by their
   commits.
2. `Agents`: provision and delete with the VM as an environment that may answer
   late, twice over or never; the duplicate-phone guard and `phone_routes`;
   connect, change and disconnect of WhatsApp. Abstract specification: a number
   leads to one live agent.
3. `TelegramBridge`: secret, row and container config of an agent, written by
   connect, disconnect and the managed-bot webhook with at-least-once, crossed
   updates.
4. `AgentModel`: VM first, database second, resync.
5. `GoogleConnect` and short links; `ChatProxy`; `AuthGate`.

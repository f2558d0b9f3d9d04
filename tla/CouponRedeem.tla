---------------------------- MODULE CouponRedeem ----------------------------
(***************************************************************************)
(* lib/coupons.py redeem(): coupon redemptions and admin grants as         *)
(* concurrent Postgres transactions at READ COMMITTED, one action per      *)
(* statement that reads or waits.  A transaction sees the rows committed   *)
(* when its statement starts; its own writes stay private until Commit.    *)
(* Row locks are not a table of their own: a request holds its coupon's    *)
(* row from LockCoupon to its end, and the subscription rows in tx[r].locked. *)
(***************************************************************************)
EXTENDS CouponLedger

CONSTANTS
    Tenants,
    Plans,          \* the billing_plans catalog (external: the meter's migrations)
    Price,          \* price_ils_cents of a plan
    CouponPlan,     \* plan_id of a coupon
    CouponDays,     \* duration_days of a coupon
    GrantDays,      \* the durations an admin grants
    MaxTime,        \* bound on the clock
    MaxAdminSteps,  \* bound on the admin's edits of coupons
    Serial          \* TRUE: at most one redeem per tenant is in flight

\* A row of agent_subscriptions.
SubRow == [status: {"active", "superseded"}, tenant: Tenants, plan: Plans,
           start: Nat, end: Nat]

ASSUME RedeemAssumption ==
    /\ NoRow \notin Requests /\ NoRow \notin SubRow
    /\ Price \in [Plans -> Nat]
    /\ CouponPlan \in [Coupons -> Plans]
    /\ CouponDays \in [Coupons -> Nat \ {0}]
    /\ GrantDays \subseteq Nat \ {0}
    /\ MaxTime \in Nat
    /\ MaxAdminSteps \in Nat
    /\ Serial \in BOOLEAN

VARIABLES
    now,            \* the clock: Postgres now() and Python _now()
    subs,           \* the agent_subscriptions table: Requests -> row or NoRow
    deleted,        \* tenants with deleted_at set
    adminSteps,     \* how many edits the admin has made
    tx              \* the state of each redeem call

vars == <<now, coupon, redemptions, subs, deleted, adminSteps, tx>>

----------------------------------------------------------------------------
(* Types *)

Waiting == {"lockCoupon", "readActive", "lockActive", "schedule", "insert", "commit"}
Ended == {"done", "failed"}

Tx == [pc: Waiting \cup Ended \cup {"idle"},
       user: Users \cup {NoRow}, tenant: Tenants \cup {NoRow},
       coupon: Coupons \cup {NoCoupon}, plan: Plans \cup {NoRow}, days: Nat,
       began: Nat,                             \* now() of the transaction
       cand: SUBSET Requests,                  \* rows of the locking SELECT not yet examined
       locked: SUBSET Requests,                \* subscription rows it holds FOR UPDATE
       current: Requests \cup {NoRow},         \* current_active
       superseded: Requests \cup {NoRow},      \* superseded_subscription_id
       start: Nat, end: Nat]

----------------------------------------------------------------------------
(* The subscriptions table *)

ActiveRows(t) == {s \in Requests : subs[s] # NoRow
                                   /\ subs[s].tenant = t /\ subs[s].status = "active"}

\* status = 'active' AND at BETWEEN period_start AND period_end
InWindow(t, at) == {s \in ActiveRows(t) : subs[s].start <= at /\ at <= subs[s].end}

\* ORDER BY period_start DESC LIMIT 1: one row at most, as the unique index
\* gives no two rows of a tenant the same period_start.
Newest(S) == {s \in S : \A q \in S : subs[q].start <= subs[s].start}

\* MAX(period_end)
Tail(t) == {subs[s].end : s \in {s \in ActiveRows(t) :
                                   \A q \in ActiveRows(t) : subs[q].end <= subs[s].end}}

\* The meter's load_active_subscription and its two mirrors in this app.
ActiveSubscription(t, at) == Newest(InWindow(t, at))

----------------------------------------------------------------------------
(* Locks *)

\* Mutant: a committed redeem's session keeps the coupon's row lock.
HoldsCoupon_Leaked(r) == tx[r].coupon # NoCoupon /\ tx[r].pc \notin {"idle", "lockCoupon"}

HoldsCoupon(r) == tx[r].coupon # NoCoupon /\ tx[r].pc \in Waiting \ {"lockCoupon"}

\* Mutant: the coupon is read without FOR UPDATE.
CouponFree_NoLock(c) == TRUE

CouponFree(c) == \A q \in Requests : HoldsCoupon(q) => tx[q].coupon # c

SubFree(s) == \A q \in Requests : s \notin tx[q].locked

\* The (tenant_id, period_start) key of a row inserted and not yet committed.
KeyPending(t, start) ==
    \E q \in Requests : tx[q].pc = "commit" /\ tx[q].tenant = t /\ tx[q].start = start

KeyTaken(t, start) ==
    \E s \in Requests : subs[s] # NoRow /\ subs[s].tenant = t /\ subs[s].start = start

----------------------------------------------------------------------------
(* The steps of a redeem *)

\* The locals of a call: nothing read, locked or decided yet.
Call(pc, u, t, c, p, d, began) ==
    [pc |-> pc, user |-> u, tenant |-> t, coupon |-> c, plan |-> p, days |-> d,
     began |-> began, cand |-> {}, locked |-> {}, current |-> NoRow, superseded |-> NoRow,
     start |-> 0, end |-> 0]

Idle == Call("idle", NoRow, NoRow, NoCoupon, NoRow, 0, 0)

Failed == Call("failed", NoRow, NoRow, NoCoupon, NoRow, 0, 0)

Becomes(r, call) == tx' = [tx EXCEPT ![r] = call]

InFlight(t) == \E q \in Requests : tx[q].pc \in Waiting /\ tx[q].tenant = t

MayBegin(r, t) == tx[r].pc = "idle" /\ (Serial => ~InFlight(t))

\* redeem() with a code: BEGIN fixes now(); the SELECT ... FOR UPDATE follows.
BeginCoupon(r) ==
    \E u \in Users, t \in Tenants, c \in Coupons :
        /\ MayBegin(r, t)
        /\ Becomes(r, Call("lockCoupon", u, t, c, CouponPlan[c], CouponDays[c], now))
        /\ UNCHANGED <<now, coupon, redemptions, subs, deleted, adminSteps>>

\* redeem() for grant-plan: the route has seen the tenant live; no coupon to lock.
BeginGrant(r) ==
    \E u \in Users, t \in Tenants \ deleted, p \in Plans, d \in GrantDays :
        /\ MayBegin(r, t)
        /\ Becomes(r, Call("readActive", u, t, NoCoupon, p, d, now))
        /\ UNCHANGED <<now, coupon, redemptions, subs, deleted, adminSteps>>

\* A CouponError, a lost connection or a crashed worker leaves the
\* `with db.connect()` block: everything rolls back and the locks go.
Fail(r) ==
    /\ Becomes(r, Failed)
    /\ UNCHANGED <<now, coupon, redemptions, subs, deleted, adminSteps>>

\* _validate_coupon_row.  No code path of the app sets valid_from.
Expired(c) == coupon[c].validUntil # NoLimit /\ now > coupon[c].validUntil

Valid(c, u) == Redeemable(c, u) /\ ~Expired(c)

\* Step 1: SELECT ... FOR UPDATE on the coupon waits for its row, then the
\* checks read the committed tables while the row stays locked.
LockCoupon(r) ==
    /\ tx[r].pc = "lockCoupon"
    /\ CouponFree(tx[r].coupon)
    /\ Valid(tx[r].coupon, tx[r].user)
    /\ Becomes(r, [tx[r] EXCEPT !.pc = "readActive"])
    /\ UNCHANGED <<now, coupon, redemptions, subs, deleted, adminSteps>>

RefuseCoupon(r) ==
    /\ tx[r].pc = "lockCoupon"
    /\ CouponFree(tx[r].coupon)
    /\ ~Valid(tx[r].coupon, tx[r].user)
    /\ Fail(r)

\* Step 3, the statement's snapshot: the active rows whose window holds the
\* transaction's now(), which is older than this statement.
ReadActive(r) ==
    /\ tx[r].pc = "readActive"
    /\ Becomes(r, [tx[r] EXCEPT !.pc = "lockActive",
                                !.cand = InWindow(tx[r].tenant, tx[r].began)])
    /\ UNCHANGED <<now, coupon, redemptions, subs, deleted, adminSteps>>

\* Mutant: the row is taken as the snapshot showed it.
LockActive_NoRecheck(r) ==
    /\ tx[r].pc = "lockActive"
    /\ \E s \in Newest(tx[r].cand) :
          /\ SubFree(s)
          /\ Becomes(r, [tx[r] EXCEPT !.pc = "schedule", !.cand = {},
                                      !.current = s, !.locked = @ \cup {s}])
    /\ UNCHANGED <<now, coupon, redemptions, subs, deleted, adminSteps>>

\* The newest candidate's row lock was granted: Postgres re-evaluates WHERE
\* on its current version; a row superseded meanwhile is skipped (its lock
\* stays) for the next one of the same snapshot.
LockActive(r) ==
    /\ tx[r].pc = "lockActive"
    /\ \E s \in Newest(tx[r].cand) :
          /\ SubFree(s)
          /\ IF s \in InWindow(tx[r].tenant, tx[r].began)
             THEN Becomes(r, [tx[r] EXCEPT !.pc = "schedule", !.cand = {},
                                           !.current = s, !.locked = @ \cup {s}])
             ELSE Becomes(r, [tx[r] EXCEPT !.cand = @ \ {s}, !.locked = @ \cup {s}])
    /\ UNCHANGED <<now, coupon, redemptions, subs, deleted, adminSteps>>

\* No candidate (left): current_active is None.
NoActive(r) ==
    /\ tx[r].pc = "lockActive"
    /\ tx[r].cand = {}
    /\ Becomes(r, [tx[r] EXCEPT !.pc = "schedule"])
    /\ UNCHANGED <<now, coupon, redemptions, subs, deleted, adminSteps>>

\* _compute_schedule: where the new period starts, and which row it replaces.
Queues(r) ==
    /\ tx[r].current # NoRow
    /\ \/ subs[tx[r].current].plan = tx[r].plan
       \/ Price[tx[r].plan] < Price[subs[tx[r].current].plan]

\* Mutant: a renewal starts at once.
PeriodStart_Immediate(r) == {now}

PeriodStart(r) == IF Queues(r) THEN Tail(tx[r].tenant) ELSE {now}

Superseded(r) == IF Queues(r) THEN NoRow ELSE tx[r].current

\* Steps 3b to 5: the tail, the schedule, and the check that the tenant lives.
Schedule(r) ==
    /\ tx[r].pc = "schedule"
    /\ tx[r].tenant \notin deleted
    /\ \E start \in PeriodStart(r) :
          Becomes(r, [tx[r] EXCEPT !.pc = "insert", !.start = start,
                                   !.end = start + tx[r].days, !.superseded = Superseded(r)])
    /\ UNCHANGED <<now, coupon, redemptions, subs, deleted, adminSteps>>

RefuseTenant(r) ==
    /\ tx[r].pc = "schedule"
    /\ tx[r].tenant \in deleted
    /\ Fail(r)

\* Step 5: INSERT waits for a transaction holding the same key.
Insert(r) ==
    /\ tx[r].pc = "insert"
    /\ ~KeyPending(tx[r].tenant, tx[r].start)
    /\ ~KeyTaken(tx[r].tenant, tx[r].start)
    /\ Becomes(r, [tx[r] EXCEPT !.pc = "commit"])
    /\ UNCHANGED <<now, coupon, redemptions, subs, deleted, adminSteps>>

\* UniqueViolation on (tenant_id, period_start): "concurrent_redeem".
RefuseKey(r) ==
    /\ tx[r].pc = "insert"
    /\ KeyTaken(tx[r].tenant, tx[r].start)
    /\ Fail(r)

\* Mutant: the row gets a status the readers do not know.
NewSub_Pending(r) == [status |-> "pending", tenant |-> tx[r].tenant, plan |-> tx[r].plan,
                      start |-> tx[r].start, end |-> tx[r].end]

NewSub(r) == [status |-> "active", tenant |-> tx[r].tenant, plan |-> tx[r].plan,
              start |-> tx[r].start, end |-> tx[r].end]

\* Mutant: the replaced period is cut to what was used.
SupersededRow_Truncated(s) == [subs[s] EXCEPT !.status = "superseded", !.end = now]

\* UPDATE ... SET status = 'superseded'
SupersededRow(s) == [subs[s] EXCEPT !.status = "superseded"]

\* Steps 6 to 8 touch only rows this transaction has locked or inserted, so
\* they and the COMMIT that publishes everything are one action.
Commit(r) ==
    /\ tx[r].pc = "commit"
    /\ subs' = [s \in Requests |->
                   IF s = r THEN NewSub(r)
                   ELSE IF s = tx[r].superseded THEN SupersededRow(s)
                   ELSE subs[s]]
    /\ IF tx[r].coupon = NoCoupon
       THEN RecordGrant(r, tx[r].user)
       ELSE RecordRedemption(r, tx[r].coupon, tx[r].user)
    /\ Becomes(r, [tx[r] EXCEPT !.pc = "done", !.locked = {}])
    /\ UNCHANGED <<now, deleted, adminSteps>>

\* The connection or the worker is lost in the middle.
Crash(r) == tx[r].pc \in Waiting /\ Fail(r)

----------------------------------------------------------------------------
(* The rest of the world *)

Tick ==
    /\ now < MaxTime
    /\ now' = now + 1
    /\ UNCHANGED <<coupon, redemptions, subs, deleted, adminSteps, tx>>

\* An admin's UPDATE waits for the coupon's row lock.
Admin(c) ==
    /\ adminSteps < MaxAdminSteps
    /\ CouponFree(c)
    /\ AdminStep(c)
    /\ adminSteps' = adminSteps + 1
    /\ UNCHANGED <<now, subs, deleted, tx>>

\* soft_delete_tenant, which no foreign-key lock of an open redeem blocks.
DeleteTenant(t) ==
    /\ t \notin deleted
    /\ deleted' = deleted \cup {t}
    /\ UNCHANGED <<now, coupon, redemptions, subs, adminSteps, tx>>

Init ==
    /\ now = 0
    /\ LedgerInit
    /\ subs = [r \in Requests |-> NoRow]
    /\ deleted = {}
    /\ adminSteps = 0
    /\ tx = [r \in Requests |-> Idle]

\* What the database and the worker do for r once it has begun.
Advance(r) ==
    \/ LockCoupon(r) \/ RefuseCoupon(r)
    \/ ReadActive(r) \/ LockActive(r) \/ NoActive(r)
    \/ Schedule(r) \/ RefuseTenant(r)
    \/ Insert(r) \/ RefuseKey(r)
    \/ Commit(r)

Redeeming(r) == BeginCoupon(r) \/ BeginGrant(r) \/ Advance(r) \/ Crash(r)

\* No call is open: the system may rest.
Quiet ==
    /\ \A r \in Requests : tx[r].pc \notin Waiting
    /\ UNCHANGED vars

Next ==
    \/ \E r \in Requests : Redeeming(r)
    \/ \E c \in Coupons : Admin(c)
    \/ \E t \in Tenants : DeleteTenant(t)
    \/ Tick
    \/ Quiet

Spec == Init /\ [][Next]_vars

\* Postgres runs the next statement of an open transaction when no lock stops it.
FairSpec == Spec /\ \A r \in Requests : WF_vars(Advance(r))

----------------------------------------------------------------------------
(* Properties *)

\* Every variable has its type.
TypeOK ==
    /\ now \in Nat
    /\ coupon \in [Coupons -> CouponRow \cup {NoRow}]
    /\ redemptions \subseteq Redemption
    /\ subs \in [Requests -> SubRow \cup {NoRow}]
    /\ deleted \subseteq Tenants
    /\ adminSteps \in Nat
    /\ tx \in [Requests -> Tx]

\* Redeems that raced for the coupon row, were refused, or crashed half way
\* leave the coupons exactly as if each successful redeem had happened alone
\* at its COMMIT: within max_redemptions, of an enabled coupon, once per user
\* where the coupon says so, whatever an admin edits meanwhile.
LedgerImplemented == LedgerSpec

\* redemption_count is the number of audit rows of the coupon, and each audit
\* row has its subscription row: a crash never leaves one without the others.
BooksBalance ==
    /\ \A c \in Coupons : coupon[c] # NoRow =>
          coupon[c].count = Cardinality(RedemptionsOf(c))
    /\ \A r \in Requests : (subs[r] # NoRow) <=> (\E x \in redemptions : x.id = r)

\* A subscription is replaced by at most one upgrade, even when several raced
\* for it; it leaves 'active' in the same commit that brings its replacement,
\* which is on the same tenant, of another plan that costs no less, and
\* starts within or after it, never before.
SupersededOnce ==
    /\ \A s \in Requests : subs[s] # NoRow =>
          (subs[s].status = "superseded"
             <=> \E r \in Requests : subs[r] # NoRow /\ tx[r].superseded = s)
    /\ \A p, q \in Requests :
          (subs[p] # NoRow /\ subs[q] # NoRow /\ tx[p].superseded # NoRow
             /\ tx[p].superseded = tx[q].superseded) => p = q
    /\ \A r \in Requests : (subs[r] # NoRow /\ tx[r].superseded # NoRow) =>
          LET old == subs[tx[r].superseded] IN
             /\ old.tenant = subs[r].tenant
             /\ old.plan # subs[r].plan
             /\ Price[old.plan] <= Price[subs[r].plan]
             /\ old.start <= subs[r].start

\* A renewal or downgrade, whose transaction found a running subscription.
Queued(r) == subs[r] # NoRow /\ tx[r].current # NoRow /\ tx[r].superseded = NoRow

\* Queued periods begin when the subscription they were queued behind ends or
\* later, and two of them queued behind the same subscription never share
\* time, however many redeems ran at once: no paid day is lost in the queue.
QueueChains ==
    /\ \A r \in Requests : Queued(r) => subs[r].start >= subs[tx[r].current].end
    /\ \A p, q \in Requests :
          (/\ p # q /\ Queued(p) /\ Queued(q) /\ tx[p].current = tx[q].current
           /\ subs[p].status = "active" /\ subs[q].status = "active")
             => subs[p].end <= subs[q].start \/ subs[q].end <= subs[p].start

\* No committed redeem is undone or rewritten: a subscription row keeps its
\* tenant, plan and period, and only ever goes from active to superseded; an
\* audit row stays ("Append-only ... We never UPDATE the plan or the period").
AppendOnly ==
    [][/\ redemptions \subseteq redemptions'
       /\ \A s \in Requests : subs[s] # NoRow =>
             subs'[s] \in {subs[s], [subs[s] EXCEPT !.status = "superseded"]}]_vars

\* A redeem that has begun commits or fails: the order in which coupon,
\* subscription and index-key waits are taken admits no deadlock.
RedeemEnds == \A r \in Requests : (tx[r].pc \in Waiting) ~> (tx[r].pc \in Ended)

\* q holds what r's next statement needs: the coupon's row, the newest
\* subscription of its snapshot, or the key of the row it inserts.
WaitsFor(r, q) ==
    \/ tx[r].pc = "lockCoupon" /\ HoldsCoupon(q) /\ tx[q].coupon = tx[r].coupon
    \/ tx[r].pc = "lockActive" /\ Newest(tx[r].cand) \cap tx[q].locked # {}
    \/ /\ tx[r].pc = "insert" /\ ~KeyTaken(tx[r].tenant, tx[r].start)
       /\ tx[q].pc = "commit" /\ tx[q].tenant = tx[r].tenant /\ tx[q].start = tx[r].start

\* The guards of Advance(r).
CanGo(r) ==
    \/ tx[r].pc = "lockCoupon" /\ CouponFree(tx[r].coupon)
    \/ tx[r].pc \in {"readActive", "commit"}
    \/ tx[r].pc = "lockActive" /\ (tx[r].cand = {} \/ \E s \in Newest(tx[r].cand) : SubFree(s))
    \/ tx[r].pc = "schedule" /\ (tx[r].tenant \in deleted \/ PeriodStart(r) # {})
    \/ /\ tx[r].pc = "insert"
       /\ KeyTaken(tx[r].tenant, tx[r].start) \/ ~KeyPending(tx[r].tenant, tx[r].start)

\* Whatever calls are open, among any of them one waits for none of them:
\* coupon rows are locked before subscriptions, subscriptions from the newest
\* to the oldest, and the key last.
NoWaitCycle ==
    \A S \in SUBSET Requests : S # {} => \E r \in S : \A q \in S : ~WaitsFor(r, q)

\* A call that cannot go on waits for another one that is open.
WaitHasHolder ==
    \A r \in Requests : tx[r].pc \in Waiting =>
        CanGo(r) \/ \E q \in Requests \ {r} : tx[q].pc \in Waiting /\ WaitsFor(r, q)

\* As long as a call is open, one can go on.
NeverStuck ==
    (\E r \in Requests : tx[r].pc \in Waiting)
       => \E r \in Requests : tx[r].pc \in Waiting /\ CanGo(r)

\* The order in which redeem() runs its statements.
Stage == [lockCoupon |-> 1, readActive |-> 2, lockActive |-> 3, schedule |-> 4, insert |-> 5,
          commit |-> 6, done |-> 7, failed |-> 7]

\* A call that has begun never goes back: each of its steps is a later
\* statement, or the next row of the snapshot, which it examines once.
OnlyForward ==
    [][\A r \in Requests : tx[r].pc # "idle" /\ tx'[r] # tx[r] =>
          \/ Stage[tx[r].pc] < Stage[tx'[r].pc]
          \/ /\ tx'[r].pc = tx[r].pc /\ tx'[r].cand # tx[r].cand
             /\ tx'[r].cand \subseteq tx[r].cand]_vars

\* "No active sub -> period_start = now() (immediate)" and "Two concurrent
\* redeems against the same tenant serialize cleanly": a redeem that commits
\* as immediate finds no committed active subscription running at its start.
ImmediateMeansUncovered ==
    [][\A r \in Requests : (tx[r].pc = "commit" /\ tx'[r].pc = "done" /\ tx[r].current = NoRow)
          => \A s \in ActiveRows(tx[r].tenant) :
                ~(subs[s].start <= tx[r].start /\ tx[r].start < subs[s].end)]_vars

\* Does not hold (README): "Current high-tier sub keeps running until its period
\* end": the meter never bills a tenant under a plan cheaper than that of an
\* active subscription whose period has not ended yet.
HighTierRunsToItsEnd ==
    \A t \in Tenants : \A picked \in ActiveSubscription(t, now) : \A s \in ActiveRows(t) :
        (subs[s].start <= now /\ now < subs[s].end)
           => Price[subs[s].plan] <= Price[subs[picked].plan]
=============================================================================

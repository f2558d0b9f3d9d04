------------------------- MODULE SubscriptionProofs -------------------------
(***************************************************************************)
(* Proofs about the subscriptions that redeem() writes: a subscription is  *)
(* replaced once, and queued periods chain.  What makes both true is the   *)
(* row lock on the running subscription: from LockActive to its COMMIT a   *)
(* redeem is alone with the row it has found active (RowsApart,            *)
(* CurrentHeld), so what it decides from that row is still true when it    *)
(* commits (Replaces, Follows, BehindQueue).  The last section proves that *)
(* the waits for these locks form no cycle, and that one of the open       *)
(* redeems can always go on.                                               *)
(***************************************************************************)
EXTENDS CouponRedeemProofs

USE LedgerAssumption, RedeemAssumption

\* Where a call has not looked for a running subscription yet, and where its
\* period is decided.
Looking == {"lockCoupon", "readActive", "lockActive"}
Decided == {"insert", "commit"}

\* FOR UPDATE: no two calls hold the same subscription row.
RowsApart == \A p, q \in Requests : p # q => tx[p].locked \cap tx[q].locked = {}

\* The running subscription an open call has found is locked by it, and still
\* what it was when the lock was granted.
CurrentHeld ==
    \A r \in Requests : tx[r].pc \in Waiting /\ tx[r].current # NoRow =>
        /\ tx[r].current \in tx[r].locked
        /\ subs[tx[r].current].status = "active"
        /\ subs[tx[r].current].tenant = tx[r].tenant
        /\ subs[tx[r].current].start <= tx[r].began

NotAhead == \A r \in Requests : tx[r].began <= now

Undecided ==
    \A r \in Requests :
        /\ tx[r].pc \in Looking => tx[r].current = NoRow
        /\ tx[r].pc \in Looking \cup {"schedule"} => tx[r].superseded = NoRow

\* An upgrade: the row it replaces is the one it found, of a plan that does
\* not cost more, and began no later.
Replaces ==
    \A r \in Requests : tx[r].pc \in Decided \cup {"done"} /\ tx[r].superseded # NoRow =>
        /\ tx[r].superseded = tx[r].current
        /\ subs[tx[r].current].tenant = tx[r].tenant
        /\ subs[tx[r].current].plan # tx[r].plan
        /\ Price[subs[tx[r].current].plan] <= Price[tx[r].plan]
        /\ subs[tx[r].current].start <= tx[r].start

\* A renewal or downgrade: it begins when the row it found ends, or later.
Follows ==
    \A r \in Requests :
        tx[r].pc \in Decided \cup {"done"} /\ tx[r].superseded = NoRow /\ tx[r].current # NoRow =>
            /\ subs[tx[r].current].tenant = tx[r].tenant
            /\ subs[tx[r].current].end <= tx[r].start

\* The row of a committed call is what the call decided.
Copied ==
    \A r \in Requests : tx[r].pc = "done" =>
        /\ subs[r].tenant = tx[r].tenant /\ subs[r].plan = tx[r].plan
        /\ subs[r].start = tx[r].start /\ subs[r].end = tx[r].end

\* p's committed period waits behind the row that q has found.
Before(p, q) ==
    Queued(p) /\ tx[p].current = tx[q].current /\ subs[p].status = "active"

\* A call that queues begins after every period queued behind the same row.
BehindQueue ==
    \A q, p \in Requests :
        /\ tx[q].pc \in Decided /\ tx[q].superseded = NoRow /\ tx[q].current # NoRow
        /\ Before(p, q)
        => subs[p].end <= tx[q].start

\* The second half of QueueChains.
QueueApart ==
    \A p, q \in Requests :
        (/\ p # q /\ Queued(p) /\ Queued(q) /\ tx[p].current = tx[q].current
         /\ subs[p].status = "active" /\ subs[q].status = "active")
           => subs[p].end <= subs[q].start \/ subs[q].end <= subs[p].start

SInv ==
    /\ RowsApart /\ CurrentHeld /\ NotAhead /\ Undecided
    /\ Replaces /\ Follows /\ Copied /\ BehindQueue /\ QueueApart
    /\ SupersededOnce

----------------------------------------------------------------------------
(* The kinds of step, as the subscriptions see them.                       *)

\* The fields that the period depends on.
SamePeriod(x, y) ==
    /\ y.tenant = x.tenant /\ y.plan = x.plan /\ y.began = x.began
    /\ y.start = x.start /\ y.end = x.end
    /\ y.current = x.current /\ y.superseded = x.superseded

Steady == subs' = subs /\ now' = now

\* Time passes, or somebody else acts.
Rests == subs' = subs /\ tx' = tx /\ now <= now' /\ now' \in Nat

\* A call begins or fails.
Resets(r) ==
    /\ Steady /\ OthersStay(r)
    /\ tx[r].pc \in Waiting \cup {"idle"}
    /\ tx'[r].pc \in Looking \cup {"failed"}
    /\ tx'[r].locked = {} /\ tx'[r].current = NoRow /\ tx'[r].superseded = NoRow
    /\ tx'[r].began <= now

\* The coupon is locked, the snapshot taken, or it is empty.
Looks(r) ==
    /\ Steady /\ OthersStay(r)
    /\ tx[r].pc \in Looking /\ tx'[r].pc \in Looking \cup {"schedule"}
    /\ SamePeriod(tx[r], tx'[r]) /\ tx'[r].locked = tx[r].locked

\* The row s is locked and skipped, or locked and taken.
Skips(r, s) ==
    /\ Steady /\ OthersStay(r) /\ SubFree(s)
    /\ tx[r].pc \in Looking /\ tx'[r].pc \in Looking
    /\ SamePeriod(tx[r], tx'[r]) /\ tx'[r].locked = tx[r].locked \cup {s}

Takes(r, s) ==
    /\ Steady /\ OthersStay(r) /\ SubFree(s)
    /\ s \in InWindow(tx[r].tenant, tx[r].began)
    /\ tx[r].pc \in Looking /\ tx'[r].pc = "schedule"
    /\ tx'[r].tenant = tx[r].tenant /\ tx'[r].began = tx[r].began
    /\ tx'[r].current = s /\ tx'[r].superseded = tx[r].superseded
    /\ tx'[r].locked = tx[r].locked \cup {s}

Decides(r) ==
    /\ Steady /\ OthersStay(r)
    /\ tx[r].pc = "schedule" /\ tx'[r].pc = "insert"
    /\ tx'[r].tenant = tx[r].tenant /\ tx'[r].plan = tx[r].plan
    /\ tx'[r].began = tx[r].began
    /\ tx'[r].current = tx[r].current /\ tx'[r].locked = tx[r].locked
    /\ tx'[r].superseded = Superseded(r)
    /\ tx'[r].start \in PeriodStart(r)

Inserts(r) ==
    /\ Steady /\ OthersStay(r)
    /\ tx[r].pc = "insert" /\ tx'[r].pc = "commit"
    /\ SamePeriod(tx[r], tx'[r]) /\ tx'[r].locked = tx[r].locked

Publishes(r) ==
    /\ now' = now /\ OthersStay(r)
    /\ tx[r].pc = "commit" /\ tx'[r].pc = "done"
    /\ SamePeriod(tx[r], tx'[r]) /\ tx'[r].locked = {}
    /\ subs' = [s \in Requests |->
                   IF s = r THEN NewSub(r)
                   ELSE IF s = tx[r].superseded THEN SupersededRow(s)
                   ELSE subs[s]]

\* The fields after each form of update of the locals.
LEMMA PcKeeps ==
    ASSUME NEW x \in Tx, NEW pc, NEW y, y = [x EXCEPT !.pc = pc]
    PROVE  y.pc = pc /\ SamePeriod(x, y) /\ y.locked = x.locked
BY DEF Tx, SamePeriod

\* ReadActive's snapshot leaves the period and the locks alone.
LEMMA SnapshotKeeps ==
    ASSUME NEW x \in Tx, NEW C
    PROVE  LET y == Snapped(x, C) IN
           y.pc = "lockActive" /\ SamePeriod(x, y) /\ y.locked = x.locked
BY DEF Snapped, Tx, SamePeriod

\* A candidate that is no longer in the window is skipped.
LEMMA SkipKeeps ==
    ASSUME NEW x \in Tx, NEW C, NEW L
    PROVE  LET y == Skipped(x, C, L) IN
           y.pc = x.pc /\ SamePeriod(x, y) /\ y.locked = L
BY DEF Skipped, Tx, SamePeriod

\* The row found running is taken, and nothing is replaced yet.
LEMMA TakeKeeps ==
    ASSUME NEW x \in Tx, NEW s, NEW L
    PROVE  LET y == Chosen(x, s, L) IN
           /\ y.pc = "schedule" /\ y.tenant = x.tenant /\ y.began = x.began
           /\ y.current = s /\ y.superseded = x.superseded /\ y.locked = L
BY DEF Chosen, Tx

\* _compute_schedule sets the start and the row to replace.
LEMMA DecideKeeps ==
    ASSUME NEW x \in Tx, NEW a, NEW b, NEW old
    PROVE  LET y == Scheduled(x, a, b, old) IN
           /\ y.pc = "insert" /\ y.tenant = x.tenant /\ y.plan = x.plan /\ y.began = x.began
           /\ y.current = x.current /\ y.locked = x.locked
           /\ y.superseded = old /\ y.start = a
BY DEF Scheduled, Tx

\* COMMIT keeps the period that was decided and lets the locks go.
LEMMA FinishKeeps ==
    ASSUME NEW x \in Tx, TRUE
    PROVE  LET y == Finished(x) IN
           y.pc = "done" /\ SamePeriod(x, y) /\ y.locked = {}
BY DEF Finished, Tx, SamePeriod

\* A call that begins has locked, found and replaced nothing.
LEMMA CallKeeps ==
    ASSUME NEW pc, NEW u, NEW t, NEW c, NEW p, NEW d, NEW began
    PROVE  LET x == Call(pc, u, t, c, p, d, began) IN
           /\ x.pc = pc /\ x.began = began /\ x.locked = {}
           /\ x.current = NoRow /\ x.superseded = NoRow
BY DEF Call

\* A call that begins, is refused or crashes.
LEMMA ResetKind ==
    ASSUME TypeOK, NEW r \in Requests,
           \/ BeginCoupon(r) \/ BeginGrant(r)
           \/ RefuseCoupon(r) \/ RefuseTenant(r) \/ RefuseKey(r) \/ Crash(r)
    PROVE  Resets(r)
<1>n. now \in Nat
    BY DEF TypeOK
<1>1. CASE BeginCoupon(r)
  <2>1. PICK u \in Users, t \in Tenants, c \in Coupons :
           Becomes(r, Call("lockCoupon", u, t, c, CouponPlan[c], CouponDays[c], now))
      BY <1>1 DEF BeginCoupon
  <2>2. OthersStay(r) /\ tx'[r] = Call("lockCoupon", u, t, c, CouponPlan[c], CouponDays[c], now)
      BY <2>1, OneMoves
  <2> QED
      BY <1>1, <1>n, <2>2, CallKeeps DEF BeginCoupon, MayBegin, Resets, Steady, Looking
<1>2. CASE BeginGrant(r)
  <2>1. PICK u \in Users, t \in Tenants, p \in Plans, d \in GrantDays :
           Becomes(r, Call("readActive", u, t, NoCoupon, p, d, now))
      BY <1>2 DEF BeginGrant
  <2>2. OthersStay(r) /\ tx'[r] = Call("readActive", u, t, NoCoupon, p, d, now)
      BY <2>1, OneMoves
  <2> QED
      BY <1>2, <1>n, <2>2, CallKeeps DEF BeginGrant, MayBegin, Resets, Steady, Looking
<1>3. CASE RefuseCoupon(r) \/ RefuseTenant(r) \/ RefuseKey(r) \/ Crash(r)
  <2>1. Fail(r) /\ tx[r].pc \in Waiting
      BY <1>3 DEF RefuseCoupon, RefuseTenant, RefuseKey, Crash, Waiting
  <2>2. OthersStay(r) /\ tx'[r] = Failed
      BY <2>1, OneMoves DEF Fail
  <2>3. tx'[r].pc = "failed" /\ tx'[r].began = 0 /\ tx'[r].locked = {}
          /\ tx'[r].current = NoRow /\ tx'[r].superseded = NoRow
      BY <2>2, CallKeeps DEF Failed
  <2> QED
      BY <1>n, <2>1, <2>2, <2>3 DEF Fail, Resets, Steady
<1> QED
    BY <1>1, <1>2, <1>3

\* A call that examines the newest row of its snapshot.
LEMMA LockKind ==
    ASSUME TypeOK, NEW r \in Requests, LockActive(r)
    PROVE  \E s \in Requests : Skips(r, s) \/ Takes(r, s)
<1>t. tx[r] \in Tx
    BY DEF TypeOK
<1>s. PICK s \in Newest(tx[r].cand) :
         /\ SubFree(s)
         /\ \/ /\ s \in InWindow(tx[r].tenant, tx[r].began)
               /\ Becomes(r, [tx[r] EXCEPT !.pc = "schedule", !.cand = {},
                                           !.current = s, !.locked = @ \cup {s}])
            \/ Becomes(r, [tx[r] EXCEPT !.cand = @ \ {s}, !.locked = @ \cup {s}])
    BY DEF LockActive
<1>1. s \in Requests /\ tx[r].pc = "lockActive" /\ Steady
    BY <1>t DEF LockActive, Newest, Tx, Steady
<1>2. CASE Becomes(r, [tx[r] EXCEPT !.cand = @ \ {s}, !.locked = @ \cup {s}])
  <2>1. OthersStay(r) /\ tx'[r] = Skipped(tx[r], tx[r].cand \ {s}, tx[r].locked \cup {s})
      BY <1>2, OneMoves DEF Skipped
  <2>2. tx'[r].pc = tx[r].pc /\ SamePeriod(tx[r], tx'[r]) /\ tx'[r].locked = tx[r].locked \cup {s}
      BY <1>t, <2>1, SkipKeeps
  <2>3. Skips(r, s)
      BY <1>s, <1>1, <2>1, <2>2 DEF Skips, Looking
  <2> QED
      BY <1>1, <2>3
<1>3. CASE s \in InWindow(tx[r].tenant, tx[r].began)
           /\ Becomes(r, [tx[r] EXCEPT !.pc = "schedule", !.cand = {},
                                       !.current = s, !.locked = @ \cup {s}])
  <2>1. OthersStay(r) /\ tx'[r] = Chosen(tx[r], s, tx[r].locked \cup {s})
      BY <1>3, OneMoves DEF Chosen
  <2>2. /\ tx'[r].pc = "schedule" /\ tx'[r].tenant = tx[r].tenant /\ tx'[r].began = tx[r].began
        /\ tx'[r].current = s /\ tx'[r].superseded = tx[r].superseded
        /\ tx'[r].locked = tx[r].locked \cup {s}
      BY <1>t, <2>1, TakeKeeps
  <2>3. Takes(r, s)
      BY <1>s, <1>1, <1>3, <2>1, <2>2 DEF Takes, Looking
  <2> QED
      BY <1>1, <2>3
<1> QED
    BY <1>s, <1>2, <1>3

\* A call that decides its period.
LEMMA ScheduleKind ==
    ASSUME TypeOK, NEW r \in Requests, Schedule(r)
    PROVE  Decides(r)
<1>t. tx[r] \in Tx
    BY DEF TypeOK
<1>1. \E start \in PeriodStart(r) :
         Becomes(r, [tx[r] EXCEPT !.pc = "insert", !.start = start,
                                  !.end = start + tx[r].days, !.superseded = Superseded(r)])
    BY Zenon DEF Schedule
<1>2. PICK start \in PeriodStart(r) :
         Becomes(r, Scheduled(tx[r], start, start + tx[r].days, Superseded(r)))
    BY <1>1, Zenon DEF Scheduled
<1>3. OthersStay(r)
        /\ tx'[r] = Scheduled(tx[r], start, start + tx[r].days, Superseded(r))
    BY <1>2, OneMoves
<1>4. /\ tx'[r].pc = "insert" /\ tx'[r].tenant = tx[r].tenant /\ tx'[r].plan = tx[r].plan
      /\ tx'[r].began = tx[r].began
      /\ tx'[r].current = tx[r].current /\ tx'[r].locked = tx[r].locked
      /\ tx'[r].superseded = Superseded(r) /\ tx'[r].start = start
    BY <1>t, <1>3, DecideKeeps
<1>5. tx[r].pc = "schedule" /\ Steady
    BY DEF Schedule, Steady
<1> QED
    BY <1>2, <1>3, <1>4, <1>5 DEF Decides

\* The other statements, and the COMMIT.
LEMMA PlainKind ==
    ASSUME TypeOK, NEW r \in Requests,
           LockCoupon(r) \/ ReadActive(r) \/ NoActive(r) \/ Insert(r) \/ Commit(r)
    PROVE  Looks(r) \/ Inserts(r) \/ Publishes(r)
<1>t. tx[r] \in Tx
    BY DEF TypeOK
<1>1. CASE LockCoupon(r)
  <2>1. OthersStay(r) /\ tx'[r] = [tx[r] EXCEPT !.pc = "readActive"]
      BY <1>1, OneMoves DEF LockCoupon
  <2> QED
      BY <1>1, <1>t, <2>1, PcKeeps DEF LockCoupon, Looks, Looking, Steady
<1>2. CASE ReadActive(r)
  <2>1. OthersStay(r) /\ tx'[r] = Snapped(tx[r], InWindow(tx[r].tenant, tx[r].began))
      BY <1>2, OneMoves DEF ReadActive, Snapped
  <2> QED
      BY <1>2, <1>t, <2>1, SnapshotKeeps DEF ReadActive, Looks, Looking, Steady
<1>3. CASE NoActive(r)
  <2>1. OthersStay(r) /\ tx'[r] = [tx[r] EXCEPT !.pc = "schedule"]
      BY <1>3, OneMoves DEF NoActive
  <2> QED
      BY <1>3, <1>t, <2>1, PcKeeps DEF NoActive, Looks, Looking, Steady
<1>4. CASE Insert(r)
  <2>1. OthersStay(r) /\ tx'[r] = [tx[r] EXCEPT !.pc = "commit"]
      BY <1>4, OneMoves DEF Insert
  <2> QED
      BY <1>4, <1>t, <2>1, PcKeeps DEF Insert, Inserts, Steady
<1>5. CASE Commit(r)
  <2>1. OthersStay(r) /\ tx'[r] = Finished(tx[r])
      BY <1>5, OneMoves DEF Commit, Finished
  <2>2. tx'[r].pc = "done" /\ SamePeriod(tx[r], tx'[r]) /\ tx'[r].locked = {}
      BY <1>t, <2>1, FinishKeeps
  <2> QED
      BY <1>5, <2>1, <2>2 DEF Commit, Publishes
<1> QED
    BY <1>1, <1>2, <1>3, <1>4, <1>5

\* Every step is of one of these kinds.
LEMMA SubscriptionKinds ==
    ASSUME TypeOK, [Next]_vars
    PROVE  \/ Rests
           \/ \E r \in Requests :
                 \/ Resets(r) \/ Looks(r) \/ Decides(r) \/ Inserts(r) \/ Publishes(r)
                 \/ \E s \in Requests : Skips(r, s) \/ Takes(r, s)
<1>n. now \in Nat
    BY DEF TypeOK
<1>1. CASE Tick
    BY <1>1, <1>n DEF Tick, Rests
<1>2. CASE UNCHANGED vars \/ Quiet \/ (\E t \in Tenants : DeleteTenant(t)) \/ (\E c \in Coupons : Admin(c))
    BY <1>2, <1>n DEF vars, Quiet, DeleteTenant, Admin, Rests
<1>3. ASSUME NEW r \in Requests, Redeeming(r)
      PROVE  \/ Resets(r) \/ Looks(r) \/ Decides(r) \/ Inserts(r) \/ Publishes(r)
             \/ \E s \in Requests : Skips(r, s) \/ Takes(r, s)
    BY <1>3, ResetKind, LockKind, ScheduleKind, PlainKind DEF Redeeming, Advance
<1> QED
    BY <1>1, <1>2, <1>3 DEF Next

----------------------------------------------------------------------------
(* Each kind of step preserves the invariant.                              *)

\* A row that exists in state s' as it was, but for its status.
Known == \A r \in Requests : tx[r].current # NoRow => subs[tx[r].current] # NoRow

\* What IInv says of the rows, without the tables of the ledger.
LEMMA Facts ==
    ASSUME IInv
    PROVE  /\ TypeOK /\ Known
           /\ \A r \in Requests : (subs[r] # NoRow) <=> (tx[r].pc = "done")
           /\ \A r \in Requests : subs[r] # NoRow =>
                 subs[r] \in SubRow /\ subs[r].start \in Nat /\ subs[r].end \in Nat
           /\ \A r \in Requests : tx[r].current \in Requests \cup {NoRow}
                 /\ tx[r].superseded \in Requests \cup {NoRow}
                 /\ tx[r].start \in Nat /\ tx[r].began \in Nat
           /\ now \in Nat
BY DEF IInv, TypeOK, RefsExist, RowsOfDone, Known, SubRow, Tx

\* Nothing is done to a subscription or a call.
LEMMA RestStep == ASSUME IInv, SInv, Rests PROVE SInv'
<1>1. RowsApart' /\ CurrentHeld' /\ Undecided' /\ Replaces' /\ Follows' /\ Copied'
    BY DEF SInv, Rests, RowsApart, CurrentHeld, Undecided, Replaces, Follows, Copied
<1>2. NotAhead'
    BY Facts DEF SInv, Rests, NotAhead
<1>3. BehindQueue' /\ QueueApart' /\ SupersededOnce'
    BY DEF SInv, Rests, BehindQueue, QueueApart, Before, Queued, SupersededOnce
<1> QED
    BY <1>1, <1>2, <1>3 DEF SInv

\* A call that has no row changes nothing in what committed calls say.
LEMMA OpenStep ==
    ASSUME IInv, SInv, subs' = subs, NEW r \in Requests, OthersStay(r), subs[r] = NoRow
    PROVE  SupersededOnce' /\ QueueApart'
<1>1. \A q \in Requests : subs[q] # NoRow =>
         tx'[q].superseded = tx[q].superseded /\ tx'[q].current = tx[q].current
    BY DEF OthersStay
<1>2. SupersededOnce'
    BY <1>1 DEF SInv, SupersededOnce
<1>3. QueueApart'
    BY <1>1 DEF SInv, QueueApart, Queued
<1> QED
    BY <1>2, <1>3

\* A call begins, or leaves by the exit: it holds and has found nothing.
LEMMA ResetStep == ASSUME IInv, SInv, NEW r \in Requests, Resets(r) PROVE SInv'
<1>0. subs' = subs /\ now' = now /\ OthersStay(r) /\ subs[r] = NoRow
    BY Facts DEF Resets, Steady, Waiting
<1>1. RowsApart'
    BY DEF SInv, Resets, OthersStay, RowsApart
<1>2. CurrentHeld' /\ NotAhead' /\ Undecided'
    BY <1>0 DEF SInv, Resets, OthersStay, CurrentHeld, NotAhead, Undecided, Looking
<1>3. Replaces' /\ Follows' /\ Copied'
    BY <1>0 DEF SInv, Resets, OthersStay, Replaces, Follows, Copied, Looking, Decided
<1>4. BehindQueue'
    BY <1>0 DEF SInv, Resets, OthersStay, BehindQueue, Before, Queued, Looking, Decided
<1> QED
    BY <1>0, <1>1, <1>2, <1>3, <1>4, OpenStep DEF SInv

\* A call looks further, and may lock a row it does not take.
LEMMA LookStep ==
    ASSUME IInv, SInv, NEW r \in Requests, Looks(r) \/ \E s \in Requests : Skips(r, s)
    PROVE  SInv'
<1>0. /\ subs' = subs /\ now' = now /\ OthersStay(r) /\ subs[r] = NoRow
      /\ tx[r].pc \in Looking /\ tx'[r].pc \in Looking \cup {"schedule"}
      /\ SamePeriod(tx[r], tx'[r]) /\ tx[r].current = NoRow
    BY Facts DEF Looks, Skips, Steady, Looking, SInv, Undecided
<1>1. RowsApart'
    BY DEF SInv, Looks, Skips, OthersStay, RowsApart, SubFree
<1>2. CurrentHeld' /\ NotAhead' /\ Undecided'
    BY <1>0 DEF SInv, OthersStay, SamePeriod, CurrentHeld, NotAhead, Undecided, Looking
<1>3. Replaces' /\ Follows' /\ Copied'
    BY <1>0 DEF SInv, OthersStay, SamePeriod, Replaces, Follows, Copied, Looking, Decided
<1>4. BehindQueue'
    BY <1>0 DEF SInv, OthersStay, SamePeriod, BehindQueue, Before, Queued, Looking, Decided
<1> QED
    BY <1>0, <1>1, <1>2, <1>3, <1>4, OpenStep DEF SInv

\* A call takes the row it has locked and found running.
LEMMA TakeStep ==
    ASSUME IInv, SInv, NEW r \in Requests, NEW s \in Requests, Takes(r, s)
    PROVE  SInv'
<1>0. /\ subs' = subs /\ now' = now /\ OthersStay(r) /\ subs[r] = NoRow
      /\ tx[r].pc \in Looking /\ tx'[r].pc = "schedule"
    BY Facts DEF Takes, Steady, Looking
<1>1. RowsApart'
    BY DEF SInv, Takes, OthersStay, RowsApart, SubFree
<1>2. CurrentHeld'
    BY <1>0 DEF SInv, Takes, OthersStay, CurrentHeld, InWindow, ActiveRows
<1>3. NotAhead' /\ Undecided'
    BY <1>0 DEF SInv, Takes, OthersStay, NotAhead, Undecided, Looking
<1>4. Replaces' /\ Follows' /\ Copied'
    BY <1>0 DEF SInv, OthersStay, Replaces, Follows, Copied, Decided
<1>5. BehindQueue'
    BY <1>0 DEF SInv, OthersStay, BehindQueue, Before, Queued, Decided
<1> QED
    BY <1>0, <1>1, <1>2, <1>3, <1>4, <1>5, OpenStep DEF SInv

\* A call decides its period, alone with the row it has found.
LEMMA DecideStep == ASSUME IInv, SInv, NEW r \in Requests, Decides(r) PROVE SInv'
<1>0. /\ subs' = subs /\ now' = now /\ OthersStay(r) /\ subs[r] = NoRow
      /\ tx[r].pc = "schedule" /\ tx'[r].pc = "insert"
    BY Facts DEF Decides, Steady
<1>1. RowsApart'
    BY DEF SInv, Decides, OthersStay, RowsApart
<1>2. CurrentHeld' /\ NotAhead' /\ Undecided'
    BY <1>0 DEF SInv, Decides, OthersStay, CurrentHeld, NotAhead, Undecided, Looking, Waiting
<1>3. tx[r].current # NoRow =>
         /\ subs[tx[r].current].status = "active"
         /\ subs[tx[r].current].tenant = tx[r].tenant
         /\ subs[tx[r].current].start <= tx[r].began
         /\ subs[tx[r].current] \in SubRow /\ tx[r].current \in Requests
    BY <1>0, Facts DEF SInv, CurrentHeld, Waiting, Known
<1>4. Replaces'
  <2>1. ASSUME Superseded(r) # NoRow
        PROVE  /\ Superseded(r) = tx[r].current
               /\ subs[tx[r].current].plan # tx[r].plan
               /\ Price[subs[tx[r].current].plan] <= Price[tx[r].plan]
               /\ subs[tx[r].current].start <= tx'[r].start
    <3>1. ~Queues(r) /\ Superseded(r) = tx[r].current
        BY <2>1 DEF Superseded
    <3>2. tx'[r].start = now
        BY <3>1 DEF Decides, PeriodStart
    <3>3. tx[r].plan \in Plans /\ subs[tx[r].current].plan \in Plans
        BY <1>0, <1>3, <2>1, <3>1 DEF IInv, ArgsKnown, Begun, Waiting, SubRow
    <3>4. Price[tx[r].plan] \in Nat /\ Price[subs[tx[r].current].plan] \in Nat
        BY <3>3
    <3>5. subs[tx[r].current].plan # tx[r].plan
            /\ Price[subs[tx[r].current].plan] <= Price[tx[r].plan]
        BY <2>1, <3>1, <3>4 DEF Queues
    <3>6. subs[tx[r].current].start \in Nat /\ tx[r].began \in Nat /\ now \in Nat
            /\ tx[r].began <= now
        BY <1>3, <2>1, <3>1, Facts DEF SInv, NotAhead, SubRow
    <3> QED
        BY <1>3, <2>1, <3>1, <3>2, <3>5, <3>6
  <2> QED
      BY <1>0, <1>3, <2>1 DEF SInv, Decides, OthersStay, Replaces, Decided
<1>5. ASSUME Superseded(r) = NoRow, tx[r].current # NoRow, NEW p \in ActiveRows(tx[r].tenant)
      PROVE  subs[p].end <= tx'[r].start
  <2>1. tx'[r].start \in Tail(tx[r].tenant)
      BY <1>5 DEF Superseded, Decides, PeriodStart
  <2> QED
      BY <1>5, <2>1 DEF Tail
<1>6. Follows'
  <2>1. tx[r].current # NoRow => tx[r].current \in ActiveRows(tx[r].tenant)
      BY <1>3 DEF ActiveRows, SubRow
  <2> QED
      BY <1>0, <1>3, <1>5, <2>1 DEF SInv, Decides, OthersStay, Follows, Decided
<1>7. Copied'
    BY <1>0 DEF SInv, OthersStay, Copied
<1>8. BehindQueue'
  <2>1. ASSUME NEW p \in Requests, Queued(p), tx[p].current = tx[r].current,
               subs[p].status = "active"
        PROVE  p \in ActiveRows(tx[r].tenant)
    <3>1. tx[p].pc = "done" /\ subs[p] # NoRow /\ tx[p].current # NoRow /\ tx[p].superseded = NoRow
        BY <2>1, Facts DEF Queued
    <3>2. subs[p].tenant = tx[p].tenant /\ subs[tx[p].current].tenant = tx[p].tenant
        BY <3>1 DEF SInv, Copied, Follows
    <3> QED
        BY <1>3, <2>1, <3>1, <3>2 DEF ActiveRows
  <2>2. ASSUME NEW p \in Requests, (Before(p, r))'
        PROVE  /\ Queued(p) /\ tx[p].current = tx[r].current /\ subs[p].status = "active"
    BY <1>0, <2>2 DEF Before, Queued, OthersStay, Decides
  <2>3. ASSUME NEW q \in Requests, NEW p \in Requests, tx'[q].pc \in Decided,
               tx'[q].superseded = NoRow, tx'[q].current # NoRow, (Before(p, q))'
        PROVE  subs'[p].end <= tx'[q].start
    <3>1. CASE q = r
      <4>1. Superseded(r) = NoRow /\ tx[r].current # NoRow
          BY <2>3, <3>1 DEF Decides
      <4>2. p \in ActiveRows(tx[r].tenant)
          BY <2>1, <2>2, <2>3, <3>1
      <4> QED
          BY <1>0, <1>5, <3>1, <4>1, <4>2
    <3>2. CASE q # r
        BY <1>0, <2>3, <3>2 DEF SInv, BehindQueue, Before, Queued, OthersStay
    <3> QED
        BY <3>1, <3>2
  <2> QED
      BY <2>3 DEF BehindQueue
<1> QED
    BY <1>0, <1>1, <1>2, <1>4, <1>6, <1>7, <1>8, OpenStep DEF SInv

\* The key is free: nothing else changes.
LEMMA InsertStep == ASSUME IInv, SInv, NEW r \in Requests, Inserts(r) PROVE SInv'
<1>0. /\ subs' = subs /\ now' = now /\ OthersStay(r) /\ subs[r] = NoRow
      /\ tx[r].pc = "insert" /\ tx'[r].pc = "commit"
      /\ SamePeriod(tx[r], tx'[r]) /\ tx'[r].locked = tx[r].locked
    BY Facts DEF Inserts, Steady
<1>1. RowsApart'
    BY <1>0 DEF SInv, OthersStay, RowsApart
<1>2. CurrentHeld' /\ NotAhead' /\ Undecided'
    BY <1>0 DEF SInv, OthersStay, SamePeriod, CurrentHeld, NotAhead, Undecided, Looking, Waiting
<1>3. Replaces' /\ Follows' /\ Copied'
    BY <1>0 DEF SInv, OthersStay, SamePeriod, Replaces, Follows, Copied, Decided
<1>4. BehindQueue'
    BY <1>0 DEF SInv, OthersStay, SamePeriod, BehindQueue, Before, Queued, Decided
<1> QED
    BY <1>0, <1>1, <1>2, <1>3, <1>4, OpenStep DEF SInv

\* The row that is inserted.
LEMMA NewFields ==
    ASSUME NEW r \in Requests
    PROVE  /\ NewSub(r).status = "active"
           /\ NewSub(r).tenant = tx[r].tenant /\ NewSub(r).plan = tx[r].plan
           /\ NewSub(r).start = tx[r].start /\ NewSub(r).end = tx[r].end
BY DEF NewSub

\* What a COMMIT does to the rows there are: it supersedes one at most, which
\* it holds, and adds its own.
LEMMA PublishedRows ==
    ASSUME IInv, SInv, NEW r \in Requests, Publishes(r)
    PROVE  /\ subs[r] = NoRow /\ subs'[r] = NewSub(r) /\ subs'[r] # NoRow
           /\ \A s \in Requests : subs[s] # NoRow =>
                 /\ s # r /\ subs'[s] # NoRow
                 /\ subs'[s].tenant = subs[s].tenant /\ subs'[s].plan = subs[s].plan
                 /\ subs'[s].start = subs[s].start /\ subs'[s].end = subs[s].end
                 /\ subs'[s].status =
                       IF s = tx[r].superseded THEN "superseded" ELSE subs[s].status
           /\ \A s \in Requests \ {r} : subs[s] = NoRow => subs'[s] = NoRow
<1>1. subs[r] = NoRow
    BY Facts DEF Publishes
<1>2. tx[r].superseded # NoRow => subs[tx[r].superseded] # NoRow
    BY DEF IInv, RefsExist
<1>3. subs'[r] = NewSub(r)
    BY DEF Publishes
<1>4. NewSub(r) # NoRow
  <2>1. tx[r].tenant \in Tenants /\ tx[r].plan \in Plans /\ tx[r].start \in Nat /\ tx[r].end \in Nat
      BY DEF IInv, TypeOK, Tx, ArgsKnown, Begun, Waiting, Publishes
  <2>2. NewSub(r) \in SubRow
      BY <2>1 DEF NewSub, SubRow
  <2> QED
      BY <2>2
<1>5. ASSUME NEW s \in Requests, subs[s] # NoRow
      PROVE  /\ s # r /\ subs'[s] # NoRow
             /\ subs'[s].tenant = subs[s].tenant /\ subs'[s].plan = subs[s].plan
             /\ subs'[s].start = subs[s].start /\ subs'[s].end = subs[s].end
             /\ subs'[s].status =
                   IF s = tx[r].superseded THEN "superseded" ELSE subs[s].status
  <2>1. s # r /\ subs'[s] = IF s = tx[r].superseded THEN SupersededRow(s) ELSE subs[s]
      BY <1>1, <1>5 DEF Publishes
  <2>2. subs[s] \in SubRow
      BY <1>5, Facts
  <2>3. /\ SupersededRow(s) \in SubRow /\ SupersededRow(s).status = "superseded"
        /\ SupersededRow(s).tenant = subs[s].tenant /\ SupersededRow(s).plan = subs[s].plan
        /\ SupersededRow(s).start = subs[s].start /\ SupersededRow(s).end = subs[s].end
      BY <2>2 DEF SupersededRow, SubRow
  <2> QED
      BY <1>5, <2>1, <2>3
<1>6. ASSUME NEW s \in Requests \ {r}, subs[s] = NoRow PROVE subs'[s] = NoRow
    BY <1>2, <1>6 DEF Publishes
<1> QED
    BY <1>1, <1>3, <1>4, <1>5, <1>6

\* What a COMMIT leaves of the call that makes it, and of the others.
LEMMA PublishedCall ==
    ASSUME IInv, SInv, NEW r \in Requests, Publishes(r), NEW q \in Requests
    PROVE  /\ SamePeriod(tx[q], tx'[q])
           /\ tx'[q].pc \in Waiting => q # r /\ tx'[q] = tx[q]
           /\ tx'[q].pc \in Decided \cup {"done"} => tx[q].pc \in Decided \cup {"done"}
           /\ subs'[q] # NoRow => tx'[q].pc = "done" /\ (q = r \/ subs[q] # NoRow)
<1>1. CASE q = r
    BY <1>1 DEF Publishes, Decided, Waiting
<1>2. CASE q # r
  <2>1. tx'[q] = tx[q]
      BY <1>2 DEF Publishes, OthersStay
  <2>2. subs'[q] # NoRow => subs[q] # NoRow
      BY <1>2, PublishedRows
  <2> QED
      BY <1>2, <2>1, <2>2, Facts DEF SamePeriod
<1> QED
    BY <1>1, <1>2

\* Two open calls have not found the same row.
LEMMA FoundApart ==
    ASSUME IInv, SInv, NEW p \in Requests, NEW q \in Requests, p # q,
           tx[p].pc \in Waiting, tx[q].pc \in Waiting, tx[p].current # NoRow
    PROVE  tx[p].current # tx[q].current
BY DEF SInv, CurrentHeld, RowsApart

\* A call's period is published, and the row it replaces superseded.
LEMMA PublishStep == ASSUME IInv, SInv, NEW r \in Requests, Publishes(r) PROVE SInv'
<1>r. /\ tx[r].pc = "commit" /\ tx[r].pc \in Waiting /\ tx[r].pc \in Decided
      /\ tx'[r].pc = "done" /\ tx'[r].locked = {} /\ now' = now /\ OthersStay(r)
    BY DEF Publishes, Waiting, Decided
<1>s. ASSUME tx[r].superseded # NoRow
      PROVE  /\ tx[r].superseded = tx[r].current
             /\ subs[tx[r].superseded].status = "active"
    BY <1>r, <1>s DEF SInv, Replaces, CurrentHeld
<1>k. ASSUME NEW q \in Requests, tx[q].current # NoRow
      PROVE  /\ tx[q].current \in Requests /\ subs[tx[q].current] # NoRow
             /\ tx'[q].current = tx[q].current
             /\ subs'[tx[q].current].tenant = subs[tx[q].current].tenant
             /\ subs'[tx[q].current].plan = subs[tx[q].current].plan
             /\ subs'[tx[q].current].start = subs[tx[q].current].start
             /\ subs'[tx[q].current].end = subs[tx[q].current].end
  <2>1. tx[q].current \in Requests /\ subs[tx[q].current] # NoRow
      BY <1>k, Facts DEF Known
  <2> QED
      BY <2>1, PublishedRows, PublishedCall DEF SamePeriod
<1>1. RowsApart'
    BY <1>r DEF SInv, OthersStay, RowsApart
<1>2. CurrentHeld'
  <2> SUFFICES ASSUME NEW q \in Requests, tx'[q].pc \in Waiting, tx'[q].current # NoRow
               PROVE  /\ tx'[q].current \in tx'[q].locked
                      /\ subs'[tx'[q].current].status = "active"
                      /\ subs'[tx'[q].current].tenant = tx'[q].tenant
                      /\ subs'[tx'[q].current].start <= tx'[q].began
      BY DEF CurrentHeld
  <2>1. q # r /\ tx'[q] = tx[q]
      BY PublishedCall
  <2>2. tx[r].superseded # tx[q].current
      BY <1>r, <1>s, <2>1, FoundApart
  <2>3. /\ tx[q].current \in tx[q].locked
        /\ subs[tx[q].current].status = "active"
        /\ subs[tx[q].current].tenant = tx[q].tenant
        /\ subs[tx[q].current].start <= tx[q].began
      BY <2>1 DEF SInv, CurrentHeld
  <2>4. tx[q].current \in Requests /\ subs[tx[q].current] # NoRow
      BY <1>k, <2>1
  <2>5. subs'[tx[q].current].status = subs[tx[q].current].status
      BY <2>2, <2>4, PublishedRows
  <2> QED
      BY <1>k, <2>1, <2>3, <2>5
<1>3. NotAhead' /\ Undecided'
    BY <1>r, PublishedCall DEF SInv, SamePeriod, OthersStay, NotAhead, Undecided, Looking
<1>4. Replaces'
  <2> SUFFICES ASSUME NEW q \in Requests, tx'[q].pc \in Decided \cup {"done"},
                      tx'[q].superseded # NoRow
               PROVE  /\ tx'[q].superseded = tx'[q].current
                      /\ subs'[tx'[q].current].tenant = tx'[q].tenant
                      /\ subs'[tx'[q].current].plan # tx'[q].plan
                      /\ Price[subs'[tx'[q].current].plan] <= Price[tx'[q].plan]
                      /\ subs'[tx'[q].current].start <= tx'[q].start
      BY DEF Replaces
  <2>1. SamePeriod(tx[q], tx'[q]) /\ tx[q].pc \in Decided \cup {"done"}
      BY PublishedCall
  <2>2. /\ tx[q].superseded = tx[q].current /\ tx[q].current # NoRow
        /\ subs[tx[q].current].tenant = tx[q].tenant
        /\ subs[tx[q].current].plan # tx[q].plan
        /\ Price[subs[tx[q].current].plan] <= Price[tx[q].plan]
        /\ subs[tx[q].current].start <= tx[q].start
      BY <2>1 DEF SInv, Replaces, SamePeriod
  <2> QED
      BY <1>k, <2>1, <2>2 DEF SamePeriod
<1>5. Follows'
  <2> SUFFICES ASSUME NEW q \in Requests, tx'[q].pc \in Decided \cup {"done"},
                      tx'[q].superseded = NoRow, tx'[q].current # NoRow
               PROVE  /\ subs'[tx'[q].current].tenant = tx'[q].tenant
                      /\ subs'[tx'[q].current].end <= tx'[q].start
      BY DEF Follows
  <2>1. SamePeriod(tx[q], tx'[q]) /\ tx[q].pc \in Decided \cup {"done"}
      BY PublishedCall
  <2>2. /\ tx[q].current # NoRow
        /\ subs[tx[q].current].tenant = tx[q].tenant
        /\ subs[tx[q].current].end <= tx[q].start
      BY <2>1 DEF SInv, Follows, SamePeriod
  <2> QED
      BY <1>k, <2>1, <2>2 DEF SamePeriod
<1>6. Copied'
  <2> SUFFICES ASSUME NEW q \in Requests, tx'[q].pc = "done"
               PROVE  /\ subs'[q].tenant = tx'[q].tenant /\ subs'[q].plan = tx'[q].plan
                      /\ subs'[q].start = tx'[q].start /\ subs'[q].end = tx'[q].end
      BY DEF Copied
  <2>1. CASE q = r
      BY <2>1, NewFields, PublishedRows, PublishedCall DEF SamePeriod
  <2>2. CASE q # r
    <3>1. tx'[q] = tx[q] /\ subs[q] # NoRow
        BY <1>r, <2>2, Facts DEF OthersStay
    <3> QED
        BY <3>1, PublishedRows DEF SInv, Copied
  <2> QED
      BY <2>1, <2>2
<1>q. ASSUME NEW p \in Requests, p # r, Queued(p)', subs'[p].status = "active"
      PROVE  /\ Queued(p) /\ subs[p].status = "active" /\ tx'[p].current = tx[p].current
             /\ subs'[p].start = subs[p].start /\ subs'[p].end = subs[p].end
  <2>1. subs[p] # NoRow /\ SamePeriod(tx[p], tx'[p])
      BY <1>q, PublishedCall DEF Queued
  <2> QED
      BY <1>q, <2>1, PublishedRows DEF Queued, SamePeriod
<1>7. BehindQueue'
  <2> SUFFICES ASSUME NEW q \in Requests, NEW p \in Requests, tx'[q].pc \in Decided,
                      tx'[q].superseded = NoRow, tx'[q].current # NoRow, Before(p, q)'
               PROVE  subs'[p].end <= tx'[q].start
      BY DEF BehindQueue
  <2>1. q # r /\ tx'[q] = tx[q] /\ tx[q].pc \in Waiting
      BY PublishedCall DEF Decided, Waiting
  <2>2. Queued(p)' /\ tx'[p].current = tx[q].current /\ subs'[p].status = "active"
      BY <2>1 DEF Before
  <2>3. p # r
      BY <1>r, <2>1, <2>2, FoundApart, PublishedCall DEF SamePeriod
  <2>4. Before(p, q) /\ subs'[p].end = subs[p].end
      BY <1>q, <2>2, <2>3 DEF Before
  <2> QED
      BY <2>1, <2>4 DEF SInv, BehindQueue
<1>8. QueueApart'
  <2>1. ASSUME NEW p \in Requests, p # r, Queued(r)', Queued(p)',
               tx'[p].current = tx'[r].current, subs'[p].status = "active"
        PROVE  subs'[p].end <= subs'[r].start
    <3>1. SamePeriod(tx[r], tx'[r]) /\ subs'[r].start = tx[r].start
        BY NewFields, PublishedRows, PublishedCall
    <3>2. tx[r].superseded = NoRow /\ tx[r].current # NoRow
        BY <2>1, <3>1 DEF Queued, SamePeriod
    <3>3. Before(p, r) /\ subs'[p].end = subs[p].end
        BY <1>q, <2>1, <3>1 DEF Before, SamePeriod
    <3> QED
        BY <1>r, <3>1, <3>2, <3>3 DEF SInv, BehindQueue
  <2>2. ASSUME NEW p \in Requests, NEW q \in Requests, p # r, q # r, p # q,
               Queued(p)', Queued(q)', tx'[p].current = tx'[q].current,
               subs'[p].status = "active", subs'[q].status = "active"
        PROVE  subs'[p].end <= subs'[q].start \/ subs'[q].end <= subs'[p].start
      BY <1>q, <2>2 DEF SInv, QueueApart
  <2> QED
      BY <2>1, <2>2 DEF QueueApart
<1>9. SupersededOnce'
  <2>1. ASSUME NEW s \in Requests, subs'[s] # NoRow
        PROVE  subs'[s].status = "superseded"
                 <=> \E q \in Requests : subs'[q] # NoRow /\ tx'[q].superseded = s
    <3>1. CASE s = r
      <4>1. subs'[s].status = "active"
          BY <3>1, NewFields, PublishedRows
      <4>2. ASSUME NEW q \in Requests PROVE tx'[q].superseded # r
        <5>1. tx'[q].superseded = tx[q].superseded
            BY PublishedCall DEF SamePeriod
        <5>2. tx[q].superseded # NoRow => subs[tx[q].superseded] # NoRow
            BY DEF IInv, RefsExist
        <5>3. subs[r] = NoRow
            BY PublishedRows
        <5> QED
            BY <5>1, <5>2, <5>3
      <4> QED
          BY <3>1, <4>1, <4>2
    <3>2. CASE s # r
      <4>1. subs[s] # NoRow
          BY <2>1, <3>2, PublishedRows
      <4>2. subs'[s].status = "superseded"
              <=> s = tx[r].superseded \/ subs[s].status = "superseded"
          BY <4>1, PublishedRows
      <4>3. subs[s].status = "superseded"
              <=> \E q \in Requests : subs[q] # NoRow /\ tx[q].superseded = s
          BY <4>1 DEF SInv, SupersededOnce
      <4>4. \A q \in Requests : tx'[q].superseded = tx[q].superseded
                /\ (subs'[q] # NoRow <=> q = r \/ subs[q] # NoRow)
          BY PublishedRows, PublishedCall DEF SamePeriod
      <4> QED
          BY <4>2, <4>3, <4>4
    <3> QED
        BY <3>1, <3>2
  <2>2. ASSUME NEW p \in Requests, NEW q \in Requests, subs'[p] # NoRow, subs'[q] # NoRow,
               tx'[p].superseded # NoRow, tx'[p].superseded = tx'[q].superseded
        PROVE  p = q
    <3>1. tx'[p].superseded = tx[p].superseded /\ tx'[q].superseded = tx[q].superseded
        BY PublishedCall DEF SamePeriod
    <3>2. ASSUME NEW o \in Requests, subs[o] # NoRow, tx[r].superseded # NoRow
          PROVE  tx[o].superseded # tx[r].superseded
      <4>1. tx[r].superseded \in Requests /\ subs[tx[r].superseded] # NoRow
          BY <3>2, Facts DEF IInv, RefsExist
      <4> QED
          BY <1>s, <3>2, <4>1 DEF SInv, SupersededOnce
    <3>3. (p = r \/ subs[p] # NoRow) /\ (q = r \/ subs[q] # NoRow)
        BY <2>2, PublishedCall
    <3>4. CASE subs[p] # NoRow /\ subs[q] # NoRow
      <4>1. tx[p].superseded # NoRow /\ tx[p].superseded = tx[q].superseded
          BY <2>2, <3>1
      <4> QED
          BY <3>4, <4>1, Zenon DEF SInv, SupersededOnce
    <3>5. ASSUME p = r, subs[q] # NoRow PROVE FALSE
        BY <2>2, <3>1, <3>2, <3>5
    <3>6. ASSUME q = r, subs[p] # NoRow PROVE FALSE
        BY <2>2, <3>1, <3>2, <3>6
    <3> QED
        BY <3>3, <3>4, <3>5, <3>6
  <2>3. ASSUME NEW q \in Requests, subs'[q] # NoRow, tx'[q].superseded # NoRow
        PROVE  /\ subs'[tx'[q].superseded].tenant = subs'[q].tenant
               /\ subs'[tx'[q].superseded].plan # subs'[q].plan
               /\ Price[subs'[tx'[q].superseded].plan] <= Price[subs'[q].plan]
               /\ subs'[tx'[q].superseded].start <= subs'[q].start
    <3>1. tx'[q].pc = "done"
        BY <2>3, PublishedCall
    <3> QED
        BY <1>4, <1>6, <2>3, <3>1 DEF Replaces, Copied
  <2> QED
      BY <2>1, <2>2, <2>3 DEF SupersededOnce
<1> QED
    BY <1>1, <1>2, <1>3, <1>4, <1>5, <1>6, <1>7, <1>8, <1>9 DEF SInv

----------------------------------------------------------------------------
(* The theorems.                                                           *)

\* The first state: no row and no call.
LEMMA SInit == Init => SInv
<1> SUFFICES ASSUME Init PROVE SInv
    OBVIOUS
<1>1. \A r \in Requests :
         /\ subs[r] = NoRow /\ tx[r].pc = "idle" /\ tx[r].began = 0 /\ tx[r].locked = {}
         /\ tx[r].current = NoRow /\ tx[r].superseded = NoRow
    BY CallKeeps DEF Init, Idle
<1>2. RowsApart /\ CurrentHeld /\ NotAhead /\ Undecided
    BY <1>1 DEF Init, RowsApart, CurrentHeld, NotAhead, Undecided
<1>3. Replaces /\ Follows /\ Copied /\ BehindQueue
    BY <1>1 DEF Replaces, Follows, Copied, BehindQueue, Decided
<1>4. QueueApart /\ SupersededOnce
    BY <1>1 DEF QueueApart, Queued, SupersededOnce
<1> QED
    BY <1>2, <1>3, <1>4 DEF SInv

\* Every step keeps the invariant.
LEMMA SStep == ASSUME IInv, SInv, [Next]_vars PROVE SInv'
<1>1. CASE Rests
    BY <1>1, RestStep
<1>2. ASSUME NEW r \in Requests,
             \/ Resets(r) \/ Looks(r) \/ Decides(r) \/ Inserts(r) \/ Publishes(r)
             \/ \E s \in Requests : Skips(r, s) \/ Takes(r, s)
      PROVE  SInv'
    BY <1>2, ResetStep, LookStep, TakeStep, DecideStep, InsertStep, PublishStep
<1> QED
    BY <1>1, <1>2, SubscriptionKinds DEF IInv

\* The invariant holds of every reachable state.
LEMMA SubscriptionsSound == Spec => [](IInv /\ SInv)
<1>1. Init => IInv /\ SInv
    BY SInit, InvInit
<1>2. IInv /\ SInv /\ [Next]_vars => (IInv /\ SInv)'
    BY SStep, InvStep
<1> QED
    BY <1>1, <1>2, PTL DEF Spec

\* A subscription is replaced by at most one upgrade, however many redeems of
\* its tenant run at once, and by a plan that costs no less (redeem(), steps 3
\* to 7): whoever replaces a row has held its lock since finding it active.
THEOREM ReplacedOnce == Spec => []SupersededOnce
<1>1. IInv /\ SInv => SupersededOnce
    BY DEF SInv
<1> QED
    BY <1>1, SubscriptionsSound, PTL

\* Renewals and downgrades start when what they were queued behind ends, or
\* later, and two of them queued behind the same row never share time: the
\* tail of the queue is read under the row's lock (_compute_schedule).
THEOREM PeriodsChain == Spec => []QueueChains
<1>1. ASSUME IInv, SInv PROVE QueueChains
  <2>1. ASSUME NEW r \in Requests, Queued(r) PROVE subs[r].start >= subs[tx[r].current].end
    <3>1. tx[r].pc = "done" /\ tx[r].current \in Requests /\ subs[tx[r].current] # NoRow
        BY <1>1, <2>1, Facts DEF Queued, Known
    <3>2. subs[tx[r].current].end <= tx[r].start /\ subs[r].start = tx[r].start
        BY <1>1, <2>1, <3>1 DEF SInv, Follows, Copied, Queued
    <3>3. subs[tx[r].current].end \in Nat /\ tx[r].start \in Nat
        BY <1>1, <3>1, Facts
    <3> QED
        BY <3>2, <3>3
  <2> QED
      BY <1>1, <2>1 DEF SInv, QueueApart, QueueChains
<1> QED
    BY <1>1, SubscriptionsSound, PTL
----------------------------------------------------------------------------
(* Nobody waits forever for a lock: what the liveness of redeem() rests on. *)

\* A finite nonempty set has an element of greatest value: the subsets without
\* one would have no smallest member, as the values above any value of such a
\* subset are another one.
LEMMA Greatest ==
    ASSUME NEW S, IsFiniteSet(S), S # {}, NEW f, \A x \in S : f[x] \in Nat
    PROVE  \E m \in S : \A x \in S : f[x] <= f[m]
<1> DEFINE Bad == {T \in SUBSET S : T # {} /\ \A m \in T : \E x \in T : ~(f[x] <= f[m])}
<1>1. SUFFICES ASSUME Bad # {} PROVE FALSE
    OBVIOUS
<1>2. IsWellFoundedOn(StrictSubsetOrdering(S), FiniteSubsetsOf(S))
    BY FS_StrictSubsetOrderingWellFounded
<1>3. Bad \subseteq FiniteSubsetsOf(S)
    BY FS_FiniteSubsetsOfFinite
<1> HIDE DEF Bad
<1>4. PICK T \in Bad : \A U \in Bad : <<U, T>> \notin StrictSubsetOrdering(S)
    BY <1>1, <1>2, <1>3, WFMin, Zenon
<1> USE DEF Bad
<1>5. PICK a \in T : TRUE
    OBVIOUS
<1> DEFINE U == {x \in T : f[a] < f[x]}
<1>6. U # {} /\ U \subseteq T /\ U # T
    OBVIOUS
<1>7. <<U, T>> \in StrictSubsetOrdering(S)
    BY <1>6 DEF StrictSubsetOrdering
<1>8. U \notin Bad
    BY <1>4, <1>7
<1>9. PICK m \in U : \A x \in U : f[x] <= f[m]
    BY <1>6, <1>8
<1>10. \A x \in T : f[x] <= f[m]
    BY <1>9
<1> QED
    BY <1>9, <1>10

\* A nonempty set has an element of least value.
LEMMA Least ==
    ASSUME NEW S, S # {}, NEW f, \A x \in S : f[x] \in Nat
    PROVE  \E m \in S : \A x \in S : f[m] <= f[x]
<1>1. PICK a \in S : TRUE
    OBVIOUS
<1> DEFINE T == {n \in 0..f[a] : \E x \in S : f[x] = n}
<1> DEFINE g == [n \in T |-> f[a] - n]
<1>2. IsFiniteSet(0..f[a])
    BY <1>1, FS_Interval
<1>3. IsFiniteSet(T) /\ f[a] \in T
    BY <1>1, <1>2, FS_Subset
<1>4. f[a] \in Nat /\ \A n \in T : n \in 0..f[a] /\ g[n] = f[a] - n
    BY <1>1
<1> HIDE DEF g, T
<1>5. PICK n \in T : \A k \in T : g[k] <= g[n]
    BY <1>3, <1>4, Greatest
<1>6. \A k \in T : n <= k
    BY <1>4, <1>5
<1>7. PICK m \in S : f[m] = n
    BY <1>5 DEF T
<1>8. ASSUME NEW x \in S PROVE n <= f[x]
    BY <1>1, <1>3, <1>4, <1>6, <1>8 DEF T
<1> QED
    BY <1>7, <1>8

\* Where a call can hold subscription rows.
Locking == {"lockActive", "schedule", "insert", "commit"}

\* Rows are locked and awaited only from LockActive on; they are rows of the
\* call's tenant.
RowsOfTenant ==
    \A r \in Requests :
        /\ tx[r].locked # {} => tx[r].pc \in Locking
        /\ tx[r].cand # {} => tx[r].pc = "lockActive"
        /\ \A s \in tx[r].cand \cup tx[r].locked :
              subs[s] # NoRow /\ subs[s].tenant = tx[r].tenant

\* A call still awaits only rows that began before those it holds.
Descending ==
    \A r \in Requests : \A s \in tx[r].locked, c \in tx[r].cand : subs[c].start < subs[s].start

\* UNIQUE (tenant_id, period_start), and its rows not yet committed.
KeysUnique ==
    \A p, q \in Requests :
        (/\ subs[p] # NoRow /\ subs[q] # NoRow /\ p # q
         /\ subs[p].tenant = subs[q].tenant)
           => subs[p].start # subs[q].start

KeyReserved ==
    \A r \in Requests : tx[r].pc = "commit" =>
        /\ ~KeyTaken(tx[r].tenant, tx[r].start)
        /\ \A q \in Requests \ {r} :
              (tx[q].pc = "commit" /\ tx[q].tenant = tx[r].tenant) => tx[q].start # tx[r].start

\* Only so many calls have been made.
FewCalls == IsFiniteSet({r \in Requests : tx[r].pc # "idle"})

WInv == RowsOfTenant /\ Descending /\ KeysUnique /\ KeyReserved /\ FewCalls

\* A call begins or fails.
Opens(r) ==
    /\ subs' = subs /\ OthersStay(r)
    /\ \/ tx[r].pc = "idle" /\ tx'[r].pc \in {"lockCoupon", "readActive"}
       \/ tx[r].pc \in Waiting /\ tx'[r].pc = "failed"
    /\ tx'[r].locked = {} /\ tx'[r].cand = {}

\* A statement that neither locks nor awaits a subscription.
Passes(r) ==
    /\ subs' = subs /\ OthersStay(r)
    /\ \/ tx[r].pc = "lockCoupon" /\ tx'[r].pc = "readActive"
       \/ tx[r].pc = "lockActive" /\ tx'[r].pc = "schedule" /\ tx[r].cand = {}
       \/ tx[r].pc = "schedule" /\ tx'[r].pc = "insert"
       \/ /\ tx[r].pc = "insert" /\ tx'[r].pc = "commit" /\ tx'[r].start = tx[r].start
          /\ ~KeyPending(tx[r].tenant, tx[r].start) /\ ~KeyTaken(tx[r].tenant, tx[r].start)
    /\ tx'[r].locked = tx[r].locked /\ tx'[r].cand = tx[r].cand /\ tx'[r].tenant = tx[r].tenant

\* ReadActive.
Snaps(r) ==
    /\ subs' = subs /\ OthersStay(r)
    /\ tx[r].pc = "readActive" /\ tx'[r].pc = "lockActive"
    /\ tx'[r].cand \subseteq ActiveRows(tx[r].tenant)
    /\ tx'[r].locked = tx[r].locked /\ tx'[r].tenant = tx[r].tenant

\* LockActive examines s, and goes on to the next row or to the schedule.
Examines(r, s) ==
    /\ subs' = subs /\ OthersStay(r)
    /\ tx[r].pc = "lockActive" /\ s \in Newest(tx[r].cand)
    /\ \/ tx'[r].pc = "lockActive" /\ tx'[r].cand = tx[r].cand \ {s}
       \/ tx'[r].pc = "schedule" /\ tx'[r].cand = {}
    /\ tx'[r].locked = tx[r].locked \cup {s} /\ tx'[r].tenant = tx[r].tenant

\* COMMIT.
Releases(r) == Publishes(r) /\ tx'[r].cand = tx[r].cand

\* Every step is of one of these kinds.
LEMMA WaitKinds ==
    ASSUME TypeOK, [Next]_vars
    PROVE  \/ subs' = subs /\ tx' = tx
           \/ \E r \in Requests :
                 \/ Opens(r) \/ Passes(r) \/ Snaps(r) \/ Releases(r)
                 \/ \E s \in Requests : Examines(r, s)
<1>t. \A r \in Requests : tx[r] \in Tx
    BY DEF TypeOK
<1>1. CASE UNCHANGED vars \/ Quiet \/ Tick
           \/ (\E t \in Tenants : DeleteTenant(t)) \/ (\E c \in Coupons : Admin(c))
    BY <1>1 DEF vars, Quiet, Tick, DeleteTenant, Admin
<1>2. ASSUME NEW r \in Requests, BeginCoupon(r) \/ BeginGrant(r) PROVE Opens(r)
  <2>1. \E u, t, c, p, d : \E pc \in {"lockCoupon", "readActive"} :
           Becomes(r, Call(pc, u, t, c, p, d, now))
      BY <1>2, Zenon DEF BeginCoupon, BeginGrant
  <2>2. PICK u, t, c, p, d, pc :
           pc \in {"lockCoupon", "readActive"} /\ Becomes(r, Call(pc, u, t, c, p, d, now))
      BY <2>1, Zenon
  <2>3. OthersStay(r) /\ tx'[r] = Call(pc, u, t, c, p, d, now)
      BY <2>2, OneMoves
  <2>4. tx'[r].pc = pc /\ tx'[r].locked = {} /\ tx'[r].cand = {}
      BY <2>3 DEF Call
  <2> QED
      BY <1>2, <2>2, <2>3, <2>4 DEF BeginCoupon, BeginGrant, MayBegin, Opens
<1>3. ASSUME NEW r \in Requests,
             RefuseCoupon(r) \/ RefuseTenant(r) \/ RefuseKey(r) \/ Crash(r)
      PROVE  Opens(r)
  <2>1. Fail(r) /\ tx[r].pc \in Waiting
      BY <1>3 DEF RefuseCoupon, RefuseTenant, RefuseKey, Crash, Waiting
  <2>2. OthersStay(r) /\ tx'[r] = Failed
      BY <2>1, OneMoves DEF Fail
  <2>3. tx'[r].pc = "failed" /\ tx'[r].locked = {} /\ tx'[r].cand = {}
      BY <2>2 DEF Failed, Call
  <2> QED
      BY <2>1, <2>2, <2>3 DEF Fail, Opens
<1>4. ASSUME NEW r \in Requests, NEW pc, Becomes(r, [tx[r] EXCEPT !.pc = pc])
      PROVE  /\ OthersStay(r) /\ tx'[r].pc = pc /\ tx'[r].start = tx[r].start
             /\ tx'[r].locked = tx[r].locked /\ tx'[r].cand = tx[r].cand
             /\ tx'[r].tenant = tx[r].tenant
    BY <1>4, <1>t, OneMoves DEF Tx
<1>5. ASSUME NEW r \in Requests, LockCoupon(r) \/ NoActive(r) \/ Insert(r) PROVE Passes(r)
    BY <1>4, <1>5 DEF LockCoupon, NoActive, Insert, Passes
<1>6. ASSUME NEW r \in Requests, Schedule(r) PROVE Passes(r)
  <2>1. PICK start \in PeriodStart(r) :
           Becomes(r, Scheduled(tx[r], start, start + tx[r].days, Superseded(r)))
      BY <1>6, Zenon DEF Schedule, Scheduled
  <2>2. OthersStay(r)
          /\ tx'[r] = Scheduled(tx[r], start, start + tx[r].days, Superseded(r))
      BY <2>1, OneMoves
  <2>3. /\ tx'[r].pc = "insert" /\ tx'[r].tenant = tx[r].tenant
        /\ tx'[r].locked = tx[r].locked /\ tx'[r].cand = tx[r].cand
      BY <1>t, <2>2 DEF Scheduled, Tx
  <2> QED
      BY <1>6, <2>2, <2>3 DEF Schedule, Passes
<1>7. ASSUME NEW r \in Requests, ReadActive(r) PROVE Snaps(r)
  <2>1. OthersStay(r) /\ tx'[r] = Snapped(tx[r], InWindow(tx[r].tenant, tx[r].began))
      BY <1>7, OneMoves DEF ReadActive, Snapped
  <2>2. /\ tx'[r].pc = "lockActive" /\ tx'[r].tenant = tx[r].tenant
        /\ tx'[r].locked = tx[r].locked
        /\ tx'[r].cand = InWindow(tx[r].tenant, tx[r].began)
      BY <1>t, <2>1 DEF Snapped, Tx
  <2> QED
      BY <1>7, <2>1, <2>2 DEF ReadActive, Snaps, InWindow
<1>8. ASSUME NEW r \in Requests, LockActive(r) PROVE \E s \in Requests : Examines(r, s)
  <2>1. PICK s \in Newest(tx[r].cand) :
           \/ Becomes(r, Chosen(tx[r], s, tx[r].locked \cup {s}))
           \/ Becomes(r, Skipped(tx[r], tx[r].cand \ {s}, tx[r].locked \cup {s}))
      BY <1>8, Zenon DEF LockActive, Chosen, Skipped
  <2>2. s \in Requests
      BY <1>t DEF Newest, Tx
  <2>3. CASE Becomes(r, Chosen(tx[r], s, tx[r].locked \cup {s}))
    <3>1. OthersStay(r) /\ tx'[r] = Chosen(tx[r], s, tx[r].locked \cup {s})
        BY <2>3, OneMoves
    <3>2. /\ tx'[r].pc = "schedule" /\ tx'[r].cand = {} /\ tx'[r].tenant = tx[r].tenant
          /\ tx'[r].locked = tx[r].locked \cup {s}
        BY <1>t, <3>1 DEF Chosen, Tx
    <3> QED
        BY <1>8, <2>2, <3>1, <3>2 DEF LockActive, Examines
  <2>4. CASE Becomes(r, Skipped(tx[r], tx[r].cand \ {s}, tx[r].locked \cup {s}))
    <3>1. OthersStay(r) /\ tx'[r] = Skipped(tx[r], tx[r].cand \ {s}, tx[r].locked \cup {s})
        BY <2>4, OneMoves
    <3>2. /\ tx'[r].pc = tx[r].pc /\ tx'[r].cand = tx[r].cand \ {s}
          /\ tx'[r].tenant = tx[r].tenant /\ tx'[r].locked = tx[r].locked \cup {s}
        BY <1>t, <3>1 DEF Skipped, Tx
    <3> QED
        BY <1>8, <2>2, <3>1, <3>2 DEF LockActive, Examines
  <2> QED
      BY <2>1, <2>3, <2>4
<1>9. ASSUME NEW r \in Requests, Commit(r) PROVE Releases(r)
  <2>1. OthersStay(r) /\ tx'[r] = Finished(tx[r])
      BY <1>9, OneMoves DEF Commit, Finished
  <2>2. tx'[r].pc = "done" /\ SamePeriod(tx[r], tx'[r]) /\ tx'[r].locked = {}
          /\ tx'[r].cand = tx[r].cand
      BY <1>t, <2>1 DEF Finished, Tx, SamePeriod
  <2> QED
      BY <1>9, <2>1, <2>2 DEF Commit, Publishes, Releases
<1> QED
    BY <1>1, <1>2, <1>3, <1>5, <1>6, <1>7, <1>8, <1>9 DEF Next, Redeeming, Advance
\* The first state: nobody has begun.
LEMMA WInit == Init => WInv
<1> SUFFICES ASSUME Init PROVE WInv
    OBVIOUS
<1>1. \A r \in Requests :
         subs[r] = NoRow /\ tx[r].pc = "idle" /\ tx[r].locked = {} /\ tx[r].cand = {}
    BY DEF Init, Idle, Call
<1>2. RowsOfTenant /\ Descending /\ KeysUnique /\ KeyReserved
    BY <1>1 DEF RowsOfTenant, Descending, KeysUnique, KeyReserved
<1>3. FewCalls
  <2>1. {r \in Requests : tx[r].pc # "idle"} = {}
      BY <1>1
  <2> QED
      BY <2>1, FS_EmptySet DEF FewCalls
<1> QED
    BY <1>2, <1>3 DEF WInv

\* At most one call begins in a step.
LEMMA FewStep ==
    ASSUME FewCalls, NEW r \in Requests, OthersStay(r)
    PROVE  FewCalls'
<1> DEFINE Old == {q \in Requests : tx[q].pc # "idle"}
<1>1. IsFiniteSet(Old \cup {r})
    BY FS_AddElement DEF FewCalls
<1>2. {q \in Requests : tx'[q].pc # "idle"} \subseteq Old \cup {r}
    BY DEF OthersStay
<1> QED
    BY <1>1, <1>2, FS_Subset DEF FewCalls

\* A call begins, fails, or runs a statement that locks no subscription.
LEMMA PassStep ==
    ASSUME IInv, WInv, NEW r \in Requests, Opens(r) \/ Passes(r)
    PROVE  WInv'
<1>1. RowsOfTenant'
    BY DEF WInv, Opens, Passes, OthersStay, RowsOfTenant, Locking
<1>2. Descending'
    BY DEF WInv, Opens, Passes, OthersStay, Descending
<1>3. KeysUnique'
    BY DEF WInv, Opens, Passes, KeysUnique
<1>4. CASE tx'[r].pc # "commit"
  <2>1. KeyReserved'
      BY <1>4 DEF WInv, Opens, Passes, OthersStay, KeyReserved, KeyTaken
  <2> QED
      BY <1>1, <1>2, <1>3, <2>1, FewStep DEF WInv, Opens, Passes
<1>5. CASE tx'[r].pc = "commit"
  <2>1. /\ subs' = subs /\ OthersStay(r) /\ tx'[r].start = tx[r].start
        /\ tx'[r].tenant = tx[r].tenant
        /\ ~KeyPending(tx[r].tenant, tx[r].start) /\ ~KeyTaken(tx[r].tenant, tx[r].start)
      BY <1>5 DEF Opens, Passes
  <2>2. \A q \in Requests \ {r} :
           (tx[q].pc = "commit" /\ tx[q].tenant = tx[r].tenant) => tx[q].start # tx[r].start
      BY <2>1 DEF KeyPending
  <2>3. KeyReserved'
      BY <2>1, <2>2 DEF WInv, OthersStay, KeyReserved, KeyTaken
  <2> QED
      BY <1>1, <1>2, <1>3, <2>1, <2>3, FewStep DEF WInv
<1> QED
    BY <1>4, <1>5

\* A call takes its snapshot: it holds no subscription yet.
LEMMA SnapStep ==
    ASSUME IInv, WInv, NEW r \in Requests, Snaps(r)
    PROVE  WInv'
<1>1. tx[r].locked = {}
    BY DEF WInv, RowsOfTenant, Snaps, Locking
<1>2. RowsOfTenant'
    BY <1>1 DEF WInv, Snaps, OthersStay, RowsOfTenant, Locking, ActiveRows
<1>3. Descending'
    BY <1>1 DEF WInv, Snaps, OthersStay, Descending
<1>4. KeysUnique' /\ KeyReserved'
    BY DEF WInv, Snaps, OthersStay, KeysUnique, KeyReserved, KeyTaken
<1> QED
    BY <1>2, <1>3, <1>4, FewStep DEF WInv, Snaps

\* A call locks the newest row of its snapshot: those left began before it.
LEMMA ExamineStep ==
    ASSUME IInv, WInv, NEW r \in Requests, NEW s \in Requests, Examines(r, s)
    PROVE  WInv'
<1>1. /\ s \in tx[r].cand /\ subs[s] # NoRow /\ subs[s].tenant = tx[r].tenant
      /\ tx[r].cand \subseteq Requests
    BY DEF WInv, RowsOfTenant, Examines, Newest, IInv, TypeOK, Tx
<1>2. RowsOfTenant'
    BY <1>1 DEF WInv, Examines, OthersStay, RowsOfTenant, Locking
<1>3. ASSUME NEW c \in tx[r].cand, c # s PROVE subs[c].start < subs[s].start
  <2>1. subs[c] # NoRow /\ subs[c].tenant = tx[r].tenant /\ c \in Requests
      BY <1>1, <1>3 DEF WInv, RowsOfTenant
  <2>2. subs[c].start <= subs[s].start
      BY <1>3 DEF Examines, Newest
  <2>3. subs[c].start # subs[s].start
      BY <1>1, <1>3, <2>1 DEF WInv, KeysUnique
  <2>4. subs[c].start \in Nat /\ subs[s].start \in Nat
      BY <1>1, <2>1, Facts
  <2> QED
      BY <2>2, <2>3, <2>4
<1>4. Descending'
    BY <1>3 DEF WInv, Examines, OthersStay, Descending
<1>5. KeysUnique' /\ KeyReserved'
    BY DEF WInv, Examines, OthersStay, KeysUnique, KeyReserved, KeyTaken
<1> QED
    BY <1>2, <1>4, <1>5, FewStep DEF WInv, Examines

\* A COMMIT publishes the key it has reserved and releases its rows.
LEMMA ReleaseStep ==
    ASSUME IInv, SInv, WInv, NEW r \in Requests, Releases(r)
    PROVE  WInv'
<1>0. Publishes(r) /\ OthersStay(r) /\ tx[r].pc = "commit" /\ tx'[r].pc = "done"
        /\ tx'[r].locked = {} /\ tx'[r].cand = tx[r].cand
    BY DEF Releases, Publishes
<1>1. /\ subs[r] = NoRow
      /\ subs'[r].tenant = tx[r].tenant /\ subs'[r].start = tx[r].start
      /\ \A s \in Requests : subs[s] # NoRow =>
            /\ s # r /\ subs'[s] # NoRow
            /\ subs'[s].tenant = subs[s].tenant /\ subs'[s].start = subs[s].start
      /\ \A s \in Requests \ {r} : subs[s] = NoRow => subs'[s] = NoRow
    BY <1>0, PublishedRows, NewFields
<1>2. RowsOfTenant'
  <2>1. tx'[r].cand = {}
      BY <1>0 DEF WInv, RowsOfTenant
  <2>2. ASSUME NEW q \in Requests \ {r}, NEW s \in tx[q].cand \cup tx[q].locked
        PROVE  subs'[s] # NoRow /\ subs'[s].tenant = tx[q].tenant
    <3>1. s \in Requests /\ subs[s] # NoRow /\ subs[s].tenant = tx[q].tenant
        BY <2>2 DEF WInv, RowsOfTenant, IInv, TypeOK, Tx
    <3> QED
        BY <1>1, <3>1
  <2> QED
      BY <1>0, <2>1, <2>2 DEF WInv, RowsOfTenant, OthersStay
<1>3. Descending'
  <2>1. ASSUME NEW q \in Requests \ {r}, NEW s \in tx[q].locked, NEW c \in tx[q].cand
        PROVE  subs'[c].start < subs'[s].start
    <3>1. s \in Requests /\ subs[s] # NoRow /\ c \in Requests /\ subs[c] # NoRow
        BY <2>1 DEF WInv, RowsOfTenant, IInv, TypeOK, Tx
    <3> QED
        BY <1>1, <2>1, <3>1 DEF WInv, Descending
  <2> QED
      BY <1>0, <2>1 DEF Descending, OthersStay
<1>4. KeysUnique'
  <2>1. ~KeyTaken(tx[r].tenant, tx[r].start)
      BY <1>0 DEF WInv, KeyReserved
  <2>2. ASSUME NEW p \in Requests, NEW q \in Requests, subs'[p] # NoRow, subs'[q] # NoRow,
               p # q, subs'[p].tenant = subs'[q].tenant
        PROVE  subs'[p].start # subs'[q].start
    <3>1. (p = r \/ subs[p] # NoRow) /\ (q = r \/ subs[q] # NoRow)
        BY <1>1, <2>2
    <3>2. CASE p # r /\ q # r
        BY <1>1, <2>2, <3>1, <3>2 DEF WInv, KeysUnique
    <3>3. CASE p = r \/ q = r
        BY <1>1, <2>1, <2>2, <3>1, <3>3 DEF KeyTaken
    <3> QED
        BY <3>2, <3>3
  <2> QED
      BY <2>2 DEF KeysUnique
<1>5. KeyReserved'
  <2>1. ASSUME NEW q \in Requests, tx'[q].pc = "commit"
        PROVE  q # r /\ tx'[q] = tx[q] /\ tx[q].pc = "commit"
      BY <1>0, <2>1 DEF OthersStay
  <2>2. ASSUME NEW q \in Requests, tx'[q].pc = "commit", NEW s \in Requests,
               subs'[s] # NoRow, subs'[s].tenant = tx'[q].tenant
        PROVE  subs'[s].start # tx'[q].start
    <3>1. CASE s = r
        BY <1>0, <1>1, <2>1, <2>2, <3>1 DEF WInv, KeyReserved
    <3>2. CASE s # r
      <4>1. subs[s] # NoRow /\ subs[s].tenant = tx[q].tenant /\ subs'[s].start = subs[s].start
          BY <1>1, <2>1, <2>2, <3>2
      <4> QED
          BY <2>1, <2>2, <4>1 DEF WInv, KeyReserved, KeyTaken
    <3> QED
        BY <3>1, <3>2
  <2> QED
      BY <2>1, <2>2 DEF WInv, KeyReserved, KeyTaken
<1> QED
    BY <1>0, <1>2, <1>3, <1>4, <1>5, FewStep DEF WInv

\* Every step keeps what is said of the waits.
LEMMA WStep == ASSUME IInv, SInv, WInv, [Next]_vars PROVE WInv'
<1>1. CASE subs' = subs /\ tx' = tx
    BY <1>1 DEF WInv, RowsOfTenant, Descending, KeysUnique, KeyReserved, KeyTaken, FewCalls
<1> QED
    BY <1>1, WaitKinds, PassStep, SnapStep, ExamineStep, ReleaseStep DEF IInv

\* The invariant holds of every reachable state.
LEMMA WaitsSound == Spec => [](IInv /\ SInv /\ WInv)
<1>1. Init => WInv
    BY WInit
<1>2. IInv /\ SInv /\ WInv /\ [Next]_vars => WInv'
    BY WStep
<1> QED
    BY <1>1, <1>2, SubscriptionsSound, PTL DEF Spec
\* A snapshot with rows has a newest one: only committed calls have rows.
LEMMA NewestExists ==
    ASSUME IInv, WInv, NEW C, C \subseteq Requests, C # {}, \A s \in C : subs[s] # NoRow
    PROVE  IsFiniteSet(C) /\ Newest(C) # {}
<1>1. C \subseteq {r \in Requests : tx[r].pc # "idle"}
    BY Facts
<1>2. IsFiniteSet(C)
    BY <1>1, FS_Subset DEF WInv, FewCalls
<1> DEFINE f == [s \in C |-> subs[s].start]
<1>3. \A s \in C : f[s] \in Nat
    BY Facts
<1>4. PICK m \in C : \A s \in C : f[s] <= f[m]
    BY <1>2, <1>3, Greatest
<1> QED
    BY <1>2, <1>4 DEF Newest

\* The tail of the queue exists when a row was found running.
LEMMA TailExists ==
    ASSUME IInv, SInv, WInv, NEW r \in Requests, tx[r].pc = "schedule"
    PROVE  PeriodStart(r) # {}
<1>1. CASE ~Queues(r)
    BY <1>1 DEF PeriodStart
<1>2. CASE Queues(r)
  <2> DEFINE A == ActiveRows(tx[r].tenant)
  <2>1. tx[r].current \in A
      BY <1>2, Facts DEF Queues, SInv, CurrentHeld, Waiting, ActiveRows, Known
  <2>2. A \subseteq Requests /\ \A s \in A : subs[s] # NoRow
      BY DEF ActiveRows
  <2>3. IsFiniteSet(A)
      BY <2>1, <2>2, NewestExists
  <2> DEFINE f == [s \in A |-> subs[s].end]
  <2>4. \A s \in A : f[s] \in Nat
      BY <2>2, Facts
  <2> HIDE DEF A, f
  <2>5. PICK m \in A : \A s \in A : f[s] <= f[m]
      BY <2>1, <2>3, <2>4, Greatest
  <2>6. \A s \in A : subs[s].end <= subs[m].end
      BY <2>5 DEF f
  <2> QED
      BY <1>2, <2>5, <2>6 DEF PeriodStart, Tail, A
<1> QED
    BY <1>1, <1>2

\* An open call that cannot go on waits for another open call.
LEMMA HolderWaits == IInv /\ SInv /\ WInv => WaitHasHolder
<1> SUFFICES ASSUME IInv, SInv, WInv, NEW r \in Requests, tx[r].pc \in Waiting, ~CanGo(r)
             PROVE  \E q \in Requests \ {r} : tx[q].pc \in Waiting /\ WaitsFor(r, q)
    BY DEF WaitHasHolder
<1>1. CASE tx[r].pc = "lockCoupon"
    BY <1>1 DEF CanGo, CouponFree, HoldsCoupon, WaitsFor
<1>2. CASE tx[r].pc = "lockActive"
  <2>1. tx[r].cand # {} /\ \A s \in Newest(tx[r].cand) : ~SubFree(s)
      BY <1>2 DEF CanGo
  <2>2. tx[r].cand \subseteq Requests /\ \A s \in tx[r].cand : subs[s] # NoRow
      BY DEF IInv, TypeOK, Tx, WInv, RowsOfTenant
  <2>3. PICK s \in Newest(tx[r].cand) : TRUE
      BY <2>1, <2>2, NewestExists
  <2>4. PICK q \in Requests : s \in tx[q].locked
      BY <2>1, <2>3 DEF SubFree
  <2>5. s \in tx[r].cand /\ subs[s].start \in Nat
      BY <2>2, <2>3, Facts DEF Newest
  <2>6. q # r
      BY <2>4, <2>5 DEF WInv, Descending
  <2>7. tx[q].pc \in Waiting
      BY <2>4 DEF WInv, RowsOfTenant, Locking, Waiting
  <2> QED
      BY <1>2, <2>3, <2>4, <2>6, <2>7 DEF WaitsFor
<1>3. CASE tx[r].pc = "insert"
    BY <1>3 DEF CanGo, KeyPending, WaitsFor, Waiting
<1>4. CASE tx[r].pc = "schedule"
    BY <1>4, TailExists DEF CanGo
<1> QED
    BY <1>1, <1>2, <1>3, <1>4 DEF CanGo, Waiting

\* A call past its coupon's lock that waits for none of S, if there is one in S.
LEMMA LateCall ==
    ASSUME IInv, WInv, NEW S \in SUBSET Requests, NEW r \in S, tx[r].pc # "lockCoupon"
    PROVE  \E p \in S : \A q \in S : ~WaitsFor(p, q)
<1> SUFFICES ASSUME \A p \in S : \E q \in S : WaitsFor(p, q)
             PROVE  FALSE
    OBVIOUS
<1>1. \A p \in S : tx[p].pc \in {"lockCoupon", "lockActive"}
  <2>1. \A p \in S : tx[p].pc \in {"lockCoupon", "lockActive", "insert"}
      BY DEF WaitsFor
  <2>2. \A p \in S : tx[p].pc # "commit"
      BY <2>1
  <2> QED
      BY <2>1, <2>2 DEF WaitsFor
<1> DEFINE D == {p \in S : tx[p].pc = "lockActive"}
<1>2. \A p \in D : \E s \in Requests : \E q \in D : s \in Newest(tx[p].cand) \cap tx[q].locked
  <2>1. ASSUME NEW p \in D PROVE \E s \in Requests : \E q \in D : s \in Newest(tx[p].cand) \cap tx[q].locked
    <3>1. PICK q \in S : Newest(tx[p].cand) \cap tx[q].locked # {}
        BY <2>1 DEF WaitsFor
    <3>2. tx[q].pc = "lockActive"
        BY <1>1, <3>1 DEF WInv, RowsOfTenant, Locking
    <3>3. tx[q].locked \subseteq Requests
        BY DEF IInv, TypeOK, Tx
    <3> QED
        BY <3>1, <3>2, <3>3
  <2> QED
      BY <2>1
<1> DEFINE R == {s \in Requests : \E p \in D : s \in Newest(tx[p].cand)}
<1> DEFINE f == [s \in R |-> subs[s].start]
<1>3. R # {}
    BY <1>1, <1>2
<1>4. \A s \in R : s \in Requests /\ f[s] \in Nat
    BY Facts DEF Newest, WInv, RowsOfTenant
<1>5. PICK s \in R : \A c \in R : f[s] <= f[c]
    BY <1>3, <1>4, Least, Zenon
<1>6. PICK p \in D : s \in Newest(tx[p].cand)
    BY <1>5
<1>7. PICK t \in Requests, q \in D : t \in Newest(tx[p].cand) \cap tx[q].locked
    BY <1>2, <1>6
<1>8. PICK c \in Requests : c \in Newest(tx[q].cand)
    BY <1>2, <1>7
<1>9. subs[c].start < subs[t].start
    BY <1>7, <1>8 DEF WInv, Descending, Newest
<1>10. subs[t].start <= subs[s].start
    BY <1>6, <1>7 DEF Newest
<1>11. c \in R /\ subs[s].start <= subs[c].start
    BY <1>5, <1>7, <1>8
<1>12. subs[s].start \in Nat /\ subs[t].start \in Nat /\ subs[c].start \in Nat
  <2>1. t \in R
      BY <1>6, <1>7
  <2> QED
      BY <1>4, <1>5, <1>11, <2>1
<1> QED
    BY <1>9, <1>10, <1>11, <1>12

\* Whatever calls are open, one of them waits for none of them.
LEMMA NoCycleOfWaits == IInv /\ WInv => NoWaitCycle
<1> SUFFICES ASSUME IInv, WInv, NEW S \in SUBSET Requests, S # {}
             PROVE  \E p \in S : \A q \in S : ~WaitsFor(p, q)
    BY DEF NoWaitCycle
<1>1. CASE \E r \in S : tx[r].pc # "lockCoupon"
    BY <1>1, LateCall
<1>2. CASE \A r \in S : tx[r].pc = "lockCoupon"
    BY <1>2 DEF WaitsFor, HoldsCoupon
<1> QED
    BY <1>1, <1>2

\* The waits of concurrent redeems never form a cycle: the coupon's row is
\* locked before any subscription, subscriptions are locked from the newest to
\* the oldest, and the key of the new row is taken last (redeem(), steps 1 to 5).
THEOREM NoCycle == Spec => []NoWaitCycle
<1> QED
    BY NoCycleOfWaits, WaitsSound, PTL

\* A redeem that is stopped is stopped by another one that is open: no lock
\* outlives its transaction, and the queue a renewal joins has an end.
THEOREM HolderOpen == Spec => []WaitHasHolder
<1> QED
    BY HolderWaits, WaitsSound, PTL

\* As long as redeems are open, one of them can run its next statement: this
\* is the part of RedeemEnds that does not depend on fairness.
THEOREM RedeemsNeverStuck == Spec => []NeverStuck
<1>1. ASSUME NoWaitCycle, WaitHasHolder PROVE NeverStuck
  <2> SUFFICES ASSUME \E r \in Requests : tx[r].pc \in Waiting
               PROVE  \E r \in Requests : tx[r].pc \in Waiting /\ CanGo(r)
      BY DEF NeverStuck
  <2> DEFINE S == {r \in Requests : tx[r].pc \in Waiting}
  <2>1. PICK r \in S : \A q \in S : ~WaitsFor(r, q)
      BY <1>1 DEF NoWaitCycle
  <2> QED
      BY <1>1, <2>1 DEF WaitHasHolder
<1> QED
    BY <1>1, NoCycle, HolderOpen, PTL

\* Every step of a call that has begun is forward.
MovesForward ==
    \A r \in Requests : tx[r].pc # "idle" /\ tx'[r] # tx[r] =>
        \/ Stage[tx[r].pc] < Stage[tx'[r].pc]
        \/ /\ tx'[r].pc = tx[r].pc /\ tx'[r].cand # tx[r].cand
           /\ tx'[r].cand \subseteq tx[r].cand

\* Of the stages, only what the kinds of step need.
LEMMA StageOrder ==
    /\ Stage["lockCoupon"] = 1 /\ Stage["readActive"] = 2 /\ Stage["lockActive"] = 3
    /\ Stage["schedule"] = 4 /\ Stage["insert"] = 5 /\ Stage["commit"] = 6
    /\ Stage["done"] = 7 /\ Stage["failed"] = 7
BY DEF Stage

\* Every step moves at most one call, forward.
LEMMA ForwardStep == ASSUME IInv, [Next]_vars PROVE MovesForward
<1>1. CASE subs' = subs /\ tx' = tx
    BY <1>1 DEF MovesForward
<1>2. ASSUME NEW r \in Requests, Opens(r) \/ Passes(r) \/ Snaps(r) \/ Releases(r)
      PROVE  MovesForward
  <2>1. OthersStay(r)
      BY <1>2 DEF Opens, Passes, Snaps, Releases, Publishes
  <2>2. tx[r].pc # "idle" => Stage[tx[r].pc] < Stage[tx'[r].pc]
      BY <1>2, StageOrder DEF Opens, Passes, Snaps, Releases, Publishes, Waiting
  <2> QED
      BY <2>1, <2>2 DEF MovesForward, OthersStay
<1>3. ASSUME NEW r \in Requests, NEW s \in Requests, Examines(r, s) PROVE MovesForward
  <2>1. \/ Stage[tx[r].pc] < Stage[tx'[r].pc]
        \/ /\ tx'[r].pc = tx[r].pc /\ tx'[r].cand # tx[r].cand
           /\ tx'[r].cand \subseteq tx[r].cand
      BY <1>3, StageOrder DEF Examines, Newest
  <2> QED
      BY <1>3, <2>1 DEF MovesForward, Examines, OthersStay
<1> QED
    BY <1>1, <1>2, <1>3, WaitKinds DEF IInv

\* A redeem that has begun only moves on: each step is a later statement, or
\* the next row of its snapshot, which is finite (redeem() has no loop but the
\* one over the rows the locking SELECT returns).
THEOREM Forward == Spec => OnlyForward
<1>1. IInv /\ [Next]_vars => [MovesForward]_vars
    BY ForwardStep
<1>2. Spec => [][MovesForward]_vars
    BY <1>1, Inductive, PTL DEF Spec
<1> QED
    BY <1>2 DEF OnlyForward, MovesForward
=============================================================================

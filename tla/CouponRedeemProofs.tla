------------------------- MODULE CouponRedeemProofs -------------------------
(***************************************************************************)
(* Proofs about CouponRedeem for any number of requests, users, coupons    *)
(* and tenants, any catalog and any bounds: the types, the inductive       *)
(* invariant behind the coupon accounting, and the implementation of the   *)
(* atomic ledger.                                                          *)
(***************************************************************************)
EXTENDS CouponRedeem, FiniteSetTheorems, TLAPS

\* A request that has begun knows who redeems what where.
Begun == Waiting \cup {"done"}

ArgsKnown ==
    \A r \in Requests : tx[r].pc \in Begun =>
        tx[r].user \in Users /\ tx[r].tenant \in Tenants /\ tx[r].plan \in Plans

\* A request's rows are there exactly when it has committed.
RowsOfDone ==
    \A r \in Requests :
        /\ (subs[r] # NoRow) <=> (tx[r].pc = "done")
        /\ (\E x \in redemptions : x.id = r) <=> (tx[r].pc = "done")

\* The FOR UPDATE of step 1: one holder of a coupon's row.
CouponMutex ==
    \A p, q \in Requests :
        (HoldsCoupon(p) /\ HoldsCoupon(q) /\ tx[p].coupon = tx[q].coupon) => p = q

\* What the validation found still holds when the redeem commits.
StillRedeemable ==
    \A r \in Requests : HoldsCoupon(r) => Redeemable(tx[r].coupon, tx[r].user)

\* The rows a request has read are still there: nothing is ever deleted.
RefsExist ==
    \A r \in Requests :
        /\ \A s \in tx[r].cand : subs[s] # NoRow
        /\ tx[r].current # NoRow => subs[tx[r].current] # NoRow
        /\ tx[r].superseded # NoRow => subs[tx[r].superseded] # NoRow

\* Only coupons that exist have been redeemed.
NoStrayRedemption == \A x \in redemptions : x.coupon # NoCoupon => coupon[x.coupon] # NoRow

CountExact ==
    \A c \in Coupons : coupon[c] # NoRow => coupon[c].count = Cardinality(RedemptionsOf(c))

\* The inductive invariant of the coupon accounting.
IInv ==
    /\ TypeOK
    /\ ArgsKnown
    /\ RowsOfDone
    /\ CouponMutex
    /\ StillRedeemable
    /\ RefsExist
    /\ NoStrayRedemption
    /\ IsFiniteSet(redemptions)
    /\ CountExact

USE LedgerAssumption, RedeemAssumption

----------------------------------------------------------------------------
(* Types *)

\* The locals a call starts with are typed when its arguments are.
LEMMA CallTyped ==
    ASSUME NEW pc \in Waiting \cup Ended \cup {"idle"},
           NEW u \in Users \cup {NoRow}, NEW t \in Tenants \cup {NoRow},
           NEW c \in Coupons \cup {NoCoupon}, NEW p \in Plans \cup {NoRow},
           NEW d \in Nat, NEW began \in Nat
    PROVE  Call(pc, u, t, c, p, d, began) \in Tx
BY DEF Call, Tx

\* No call yet, and a call that failed, are typed.
LEMMA IdleTyped == Idle \in Tx /\ Failed \in Tx
BY CallTyped DEF Idle, Failed, Waiting, Ended

\* Init gives every variable its type.
LEMMA TypeInit == Init => TypeOK
BY IdleTyped DEF Init, LedgerInit, TypeOK, CouponRow, Redemption

\* What each statement of redeem() does to the locals keeps them typed.
LEMMA PcTyped == ASSUME NEW x \in Tx PROVE
    /\ [x EXCEPT !.pc = "readActive"] \in Tx
    /\ [x EXCEPT !.pc = "schedule"] \in Tx
    /\ [x EXCEPT !.pc = "commit"] \in Tx
<1>1. [x EXCEPT !.pc = "readActive"] \in Tx
    BY DEF Tx, Waiting
<1>2. [x EXCEPT !.pc = "schedule"] \in Tx
    BY DEF Tx, Waiting
<1>3. [x EXCEPT !.pc = "commit"] \in Tx
    BY DEF Tx, Waiting
<1> QED
    BY <1>1, <1>2, <1>3

\* The rows ReadActive has seen are typed.
LEMMA SnapshotTyped ==
    ASSUME NEW x \in Tx, NEW C \in SUBSET Requests
    PROVE  [x EXCEPT !.pc = "lockActive", !.cand = C] \in Tx
BY DEF Tx, Waiting

\* So is the subscription LockActive has locked ...
LEMMA LockedTyped ==
    ASSUME NEW x \in Tx, NEW s \in Requests, NEW L \in SUBSET Requests
    PROVE  [x EXCEPT !.pc = "schedule", !.cand = {}, !.current = s, !.locked = L] \in Tx
BY DEF Tx, Waiting

\* ... and what it keeps when it skips a row that is no longer active.
LEMMA SkippedTyped ==
    ASSUME NEW x \in Tx, NEW C \in SUBSET Requests, NEW L \in SUBSET Requests
    PROVE  [x EXCEPT !.cand = C, !.locked = L] \in Tx
BY DEF Tx

\* The period that Schedule has decided is typed.
LEMMA ScheduledTyped ==
    ASSUME NEW x \in Tx, NEW a \in Nat, NEW b \in Nat, NEW old \in Requests \cup {NoRow}
    PROVE  [x EXCEPT !.pc = "insert", !.start = a, !.end = b, !.superseded = old] \in Tx
BY DEF Tx, Waiting

\* A committed request is typed.
LEMMA DoneTyped == ASSUME NEW x \in Tx PROVE [x EXCEPT !.pc = "done", !.locked = {}] \in Tx
BY DEF Tx, Ended

\* Giving a request typed locals keeps the table of requests typed.
LEMMA BecomesTyped ==
    ASSUME tx \in [Requests -> Tx], NEW r \in Requests, NEW call \in Tx, Becomes(r, call)
    PROVE  tx' \in [Requests -> Tx]
BY DEF Becomes

\* The admin's edits and the count keep a coupon's row typed.
LEMMA UpdatedTyped ==
    ASSUME NEW x \in CouponRow, NEW limit \in Nat \cup {NoLimit}, NEW until \in Nat \cup {NoLimit},
           NEW once \in BOOLEAN
    PROVE  [x EXCEPT !.limit = limit, !.validUntil = until, !.onePerUser = once] \in CouponRow
BY DEF CouponRow

\* Disabling and enabling keep a coupon's row typed.
LEMMA DisabledTyped ==
    ASSUME NEW x \in CouponRow, NEW off \in BOOLEAN
    PROVE  [x EXCEPT !.disabled = off] \in CouponRow
BY DEF CouponRow

\* Counting a redemption keeps a coupon's row typed.
LEMMA CountedTyped == ASSUME NEW x \in CouponRow PROVE [x EXCEPT !.count = @ + 1] \in CouponRow
BY DEF CouponRow

\* Every step keeps the types.
LEMMA TypeStep == IInv /\ [Next]_vars => TypeOK'
<1> SUFFICES ASSUME IInv, [Next]_vars PROVE TypeOK'
    OBVIOUS
<1> USE DEF TypeOK, IInv
<1>a. \A r \in Requests : tx[r] \in Tx /\ tx[r].days \in Nat /\ tx[r].locked \in SUBSET Requests
        /\ tx[r].cand \in SUBSET Requests /\ tx[r].current \in Requests \cup {NoRow}
        /\ tx[r].superseded \in Requests \cup {NoRow} /\ tx[r].coupon \in Coupons \cup {NoCoupon}
        /\ tx[r].start \in Nat /\ tx[r].end \in Nat
    BY DEF Tx
<1>fail. ASSUME NEW r \in Requests, Fail(r) PROVE TypeOK'
    BY <1>fail, IdleTyped, BecomesTyped DEF Fail
<1>1. ASSUME NEW r \in Requests, BeginCoupon(r) PROVE TypeOK'
  <2>1. PICK u \in Users, t \in Tenants, c \in Coupons :
           Becomes(r, Call("lockCoupon", u, t, c, CouponPlan[c], CouponDays[c], now))
      BY <1>1 DEF BeginCoupon
  <2>2. Call("lockCoupon", u, t, c, CouponPlan[c], CouponDays[c], now) \in Tx
      BY CallTyped DEF Waiting
  <2> QED
      BY <1>1, <2>1, <2>2, BecomesTyped DEF BeginCoupon
<1>2. ASSUME NEW r \in Requests, BeginGrant(r) PROVE TypeOK'
  <2>1. PICK u \in Users, t \in Tenants, p \in Plans, d \in GrantDays :
           Becomes(r, Call("readActive", u, t, NoCoupon, p, d, now))
      BY <1>2 DEF BeginGrant
  <2>2. Call("readActive", u, t, NoCoupon, p, d, now) \in Tx
      BY CallTyped DEF Waiting
  <2> QED
      BY <1>2, <2>1, <2>2, BecomesTyped DEF BeginGrant
<1>3. ASSUME NEW r \in Requests, LockCoupon(r) PROVE TypeOK'
    BY <1>3, <1>a, PcTyped, BecomesTyped DEF LockCoupon
<1>4. ASSUME NEW r \in Requests, RefuseCoupon(r) PROVE TypeOK'
    BY <1>4, <1>fail DEF RefuseCoupon
<1>5. ASSUME NEW r \in Requests, ReadActive(r) PROVE TypeOK'
  <2>1. InWindow(tx[r].tenant, tx[r].began) \in SUBSET Requests
      BY DEF InWindow, ActiveRows
  <2> QED
      BY <1>5, <1>a, <2>1, SnapshotTyped, BecomesTyped DEF ReadActive
<1>6. ASSUME NEW r \in Requests, LockActive(r) PROVE TypeOK'
  <2>1. PICK s \in Newest(tx[r].cand) :
           \/ Becomes(r, [tx[r] EXCEPT !.pc = "schedule", !.cand = {},
                                       !.current = s, !.locked = @ \cup {s}])
           \/ Becomes(r, [tx[r] EXCEPT !.cand = @ \ {s}, !.locked = @ \cup {s}])
      BY <1>6 DEF LockActive
  <2>2. s \in Requests /\ tx[r].cand \ {s} \in SUBSET Requests
          /\ tx[r].locked \cup {s} \in SUBSET Requests
      BY <1>a DEF Newest
  <2>3. [tx[r] EXCEPT !.pc = "schedule", !.cand = {},
                      !.current = s, !.locked = tx[r].locked \cup {s}] \in Tx
      BY <1>a, <2>2, LockedTyped
  <2>4. [tx[r] EXCEPT !.cand = tx[r].cand \ {s}, !.locked = tx[r].locked \cup {s}] \in Tx
      BY <1>a, <2>2, SkippedTyped
  <2> QED
      BY <1>6, <2>1, <2>3, <2>4, BecomesTyped DEF LockActive
<1>7. ASSUME NEW r \in Requests, NoActive(r) PROVE TypeOK'
    BY <1>7, <1>a, PcTyped, BecomesTyped DEF NoActive
<1>8. ASSUME NEW r \in Requests, Schedule(r) PROVE TypeOK'
  <2>1. PICK start \in PeriodStart(r) :
           Becomes(r, [tx[r] EXCEPT !.pc = "insert", !.start = start,
                                    !.end = start + tx[r].days, !.superseded = Superseded(r)])
      BY <1>8 DEF Schedule
  <2>2. start \in Nat
      BY <2>1 DEF PeriodStart, Tail, ActiveRows, SubRow
  <2>3. Superseded(r) \in Requests \cup {NoRow}
      BY <1>a DEF Superseded
  <2>4. start + tx[r].days \in Nat
      BY <1>a, <2>2
  <2>5. [tx[r] EXCEPT !.pc = "insert", !.start = start, !.end = start + tx[r].days,
                      !.superseded = Superseded(r)] \in Tx
      BY <1>a, <2>2, <2>3, <2>4, ScheduledTyped
  <2> QED
      BY <1>8, <2>1, <2>5, BecomesTyped DEF Schedule
<1>9. ASSUME NEW r \in Requests, RefuseTenant(r) PROVE TypeOK'
    BY <1>9, <1>fail DEF RefuseTenant
<1>10. ASSUME NEW r \in Requests, Insert(r) PROVE TypeOK'
    BY <1>10, <1>a, PcTyped, BecomesTyped DEF Insert
<1>11. ASSUME NEW r \in Requests, RefuseKey(r) PROVE TypeOK'
    BY <1>11, <1>fail DEF RefuseKey
<1>12. ASSUME NEW r \in Requests, Commit(r) PROVE TypeOK'
  <2>0. tx[r].pc \in Begun /\ tx[r].user \in Users /\ tx[r].tenant \in Tenants
          /\ tx[r].plan \in Plans
      BY <1>12 DEF Commit, ArgsKnown, Begun, Waiting
  <2>1. NewSub(r) \in SubRow
      BY <1>a, <2>0 DEF NewSub, SubRow
  <2>2. \A s \in Requests : subs[s] \in SubRow => SupersededRow(s) \in SubRow
      BY DEF SupersededRow, SubRow
  <2>3. subs' \in [Requests -> SubRow \cup {NoRow}]
      BY <1>12, <1>a, <2>1, <2>2 DEF Commit, RefsExist
  <2>4. Becomes(r, [tx[r] EXCEPT !.pc = "done", !.locked = {}])
          /\ [tx[r] EXCEPT !.pc = "done", !.locked = {}] \in Tx
      BY <1>12, <1>a, DoneTyped DEF Commit
  <2>5. CASE tx[r].coupon = NoCoupon
    <3>1. coupon' = coupon /\ redemptions' \subseteq Redemption
        BY <1>12, <2>0, <2>5 DEF Commit, RecordGrant, Redemption
    <3> QED
        BY <1>12, <2>3, <2>4, <3>1, BecomesTyped DEF Commit
  <2>6. CASE tx[r].coupon # NoCoupon
    <3>1. tx[r].coupon \in Coupons /\ coupon[tx[r].coupon] \in CouponRow
        BY <1>12, <1>a, <2>6 DEF Commit, StillRedeemable, HoldsCoupon, Redeemable, Exists, Waiting
    <3>2. redemptions' \subseteq Redemption
            /\ coupon' = [coupon EXCEPT ![tx[r].coupon].count = @ + 1]
        BY <1>12, <2>0, <2>6, <3>1 DEF Commit, RecordRedemption, Redemption
    <3>3. coupon' \in [Coupons -> CouponRow \cup {NoRow}]
        BY <3>1, <3>2, CountedTyped
    <3> QED
        BY <1>12, <2>3, <2>4, <3>2, <3>3, BecomesTyped DEF Commit
  <2> QED
      BY <2>5, <2>6
<1>13. ASSUME NEW r \in Requests, Crash(r) PROVE TypeOK'
    BY <1>13, <1>fail DEF Crash
<1>14. ASSUME NEW c \in Coupons, Admin(c) PROVE TypeOK'
  <2>1. coupon' \in [Coupons -> CouponRow \cup {NoRow}]
    <3>1. CASE AdminCreate(c)
        BY <3>1 DEF AdminCreate, CouponRow
    <3>2. CASE AdminUpdate(c)
      <4>1. coupon[c] \in CouponRow /\ coupon[c].limit \in Nat \cup {NoLimit}
              /\ coupon[c].validUntil \in Nat \cup {NoLimit}
          BY <3>2 DEF AdminUpdate, Exists, CouponRow
      <4> QED
        <5>1. PICK limit \in Limits \cup {coupon[c].limit},
                   until \in Expiries \cup {coupon[c].validUntil}, once \in BOOLEAN :
                 coupon' = [coupon EXCEPT ![c] =
                   [@ EXCEPT !.limit = limit, !.validUntil = until, !.onePerUser = once]]
            BY <3>2 DEF AdminUpdate
        <5>2. [coupon[c] EXCEPT !.limit = limit, !.validUntil = until,
                                !.onePerUser = once] \in CouponRow
            BY <4>1, UpdatedTyped
        <5> QED
            BY <5>1, <5>2
    <3>3. CASE AdminSetDisabled(c)
      <4>1. coupon[c] \in CouponRow
          BY <3>3 DEF AdminSetDisabled, Exists
      <4> QED
          BY <3>3, <4>1, DisabledTyped DEF AdminSetDisabled
    <3> QED
        BY <1>14, <3>1, <3>2, <3>3 DEF Admin, AdminStep
  <2>2. redemptions' = redemptions
      BY <1>14 DEF Admin, AdminStep, AdminCreate, AdminUpdate, AdminSetDisabled
  <2> QED
      BY <1>14, <2>1, <2>2 DEF Admin
<1>15. ASSUME NEW t \in Tenants, DeleteTenant(t) PROVE TypeOK'
    BY <1>15 DEF DeleteTenant
<1>16. CASE Tick
    BY <1>16 DEF Tick
<1>17. CASE UNCHANGED vars
    BY <1>17 DEF vars
<1> QED
    BY <1>1, <1>2, <1>3, <1>4, <1>5, <1>6, <1>7, <1>8, <1>9, <1>10, <1>11, <1>12, <1>13,
       <1>14, <1>15, <1>16, <1>17 DEF Next, Redeeming, Advance, Quiet

----------------------------------------------------------------------------
(* What kinds of step there are, as the rest of the invariant sees them.   *)

\* The tables of the ledger and the subscriptions stay.
TablesStay == coupon' = coupon /\ redemptions' = redemptions /\ subs' = subs

OthersStay(r) == \A q \in Requests \ {r} : tx'[q] = tx[q]

\* A reference to a subscription row is to a row that exists.
Refers(x) ==
    /\ \A s \in x.cand : subs[s] # NoRow
    /\ x.current # NoRow => subs[x.current] # NoRow
    /\ x.superseded # NoRow => subs[x.superseded] # NoRow

Starts(r) ==
    /\ TablesStay /\ OthersStay(r)
    /\ tx[r].pc = "idle"
    /\ tx'[r].pc \in {"lockCoupon", "readActive"}
    /\ tx'[r].pc = "readActive" => tx'[r].coupon = NoCoupon
    /\ tx'[r].user \in Users /\ tx'[r].tenant \in Tenants /\ tx'[r].plan \in Plans
    /\ Refers(tx'[r])

Ends(r) ==
    /\ TablesStay /\ OthersStay(r)
    /\ tx[r].pc \in Waiting
    /\ tx'[r].pc = "failed"
    /\ Refers(tx'[r])

Proceeds(r) ==
    /\ TablesStay /\ OthersStay(r)
    /\ tx[r].pc \in Waiting
    /\ tx'[r].pc \in Waiting \ {"lockCoupon"}
    /\ tx'[r].user = tx[r].user /\ tx'[r].tenant = tx[r].tenant
    /\ tx'[r].plan = tx[r].plan /\ tx'[r].coupon = tx[r].coupon
    /\ tx[r].pc = "lockCoupon" =>
          CouponFree(tx[r].coupon) /\ Redeemable(tx[r].coupon, tx[r].user)
    /\ Refers(tx'[r])

Commits(r) ==
    /\ OthersStay(r)
    /\ Commit(r)
    /\ tx'[r].pc = "done"
    /\ tx'[r].user = tx[r].user /\ tx'[r].tenant = tx[r].tenant
    /\ tx'[r].plan = tx[r].plan /\ tx'[r].coupon = tx[r].coupon
    /\ tx'[r].cand = tx[r].cand /\ tx'[r].current = tx[r].current
    /\ tx'[r].superseded = tx[r].superseded

\* The other table entries do not change when one request's locals do.
LEMMA OneMoves ==
    ASSUME TypeOK, NEW r \in Requests, NEW call, Becomes(r, call)
    PROVE  OthersStay(r) /\ tx'[r] = call
BY DEF TypeOK, Becomes, OthersStay

\* The locals of a fresh or failed call refer to no row.
LEMMA CallRefers ==
    ASSUME NEW pc, NEW u, NEW t, NEW c, NEW p, NEW d, NEW began
    PROVE  LET x == Call(pc, u, t, c, p, d, began) IN
           Refers(x) /\ x.pc = pc /\ x.user = u /\ x.tenant = t /\ x.plan = p /\ x.coupon = c
BY DEF Call, Refers

\* Leaving the transaction, by refusal or by crash, is an Ends step.
LEMMA FailEnds ==
    ASSUME TypeOK, NEW r \in Requests, tx[r].pc \in Waiting, Fail(r)
    PROVE  Ends(r)
<1>1. OthersStay(r) /\ tx'[r] = Failed
    BY OneMoves DEF Fail
<1>2. Refers(tx'[r]) /\ tx'[r].pc = "failed"
    BY <1>1, CallRefers DEF Failed
<1> QED
    BY <1>1, <1>2 DEF Ends, Fail, TablesStay

\* Both ways to begin are Starts steps.
LEMMA BeginStarts ==
    ASSUME TypeOK, NEW r \in Requests, BeginCoupon(r) \/ BeginGrant(r)
    PROVE  Starts(r)
<1>1. CASE BeginCoupon(r)
  <2>1. PICK u \in Users, t \in Tenants, c \in Coupons :
           Becomes(r, Call("lockCoupon", u, t, c, CouponPlan[c], CouponDays[c], now))
      BY <1>1 DEF BeginCoupon
  <2>2. OthersStay(r) /\ tx'[r] = Call("lockCoupon", u, t, c, CouponPlan[c], CouponDays[c], now)
      BY <2>1, OneMoves
  <2>3. Refers(tx'[r]) /\ tx'[r].pc = "lockCoupon" /\ tx'[r].user = u /\ tx'[r].tenant = t
          /\ tx'[r].plan = CouponPlan[c]
      BY <2>2, CallRefers
  <2> QED
      BY <1>1, <2>2, <2>3 DEF BeginCoupon, MayBegin, Starts, TablesStay
<1>2. CASE BeginGrant(r)
  <2>1. PICK u \in Users, t \in Tenants, p \in Plans, d \in GrantDays :
           Becomes(r, Call("readActive", u, t, NoCoupon, p, d, now))
      BY <1>2 DEF BeginGrant
  <2>2. OthersStay(r) /\ tx'[r] = Call("readActive", u, t, NoCoupon, p, d, now)
      BY <2>1, OneMoves
  <2>3. Refers(tx'[r]) /\ tx'[r].pc = "readActive" /\ tx'[r].user = u /\ tx'[r].tenant = t
          /\ tx'[r].plan = p /\ tx'[r].coupon = NoCoupon
      BY <2>2, CallRefers
  <2> QED
      BY <1>2, <2>2, <2>3 DEF BeginGrant, MayBegin, Starts, TablesStay
<1> QED
    BY <1>1, <1>2

\* What a statement leaves of the call's arguments.
SameArgs(x, y) == y.user = x.user /\ y.tenant = x.tenant /\ y.plan = x.plan /\ y.coupon = x.coupon

SameRefs(x, y) == y.cand = x.cand /\ y.current = x.current /\ y.superseded = x.superseded

\* The forms of update of the locals, and their fields.
Snapped(x, C) == [x EXCEPT !.pc = "lockActive", !.cand = C]
Chosen(x, s, L) == [x EXCEPT !.pc = "schedule", !.cand = {}, !.current = s, !.locked = L]
Skipped(x, C, L) == [x EXCEPT !.cand = C, !.locked = L]
Scheduled(x, a, b, old) == [x EXCEPT !.pc = "insert", !.start = a, !.end = b, !.superseded = old]
Finished(x) == [x EXCEPT !.pc = "done", !.locked = {}]

\* A step to another statement changes no argument and no reference.
LEMMA PcFields ==
    ASSUME NEW x \in Tx, NEW pc, NEW y, y = [x EXCEPT !.pc = pc]
    PROVE  y.pc = pc /\ SameArgs(x, y) /\ SameRefs(x, y)
BY DEF Tx, SameArgs, SameRefs

\* ReadActive changes the candidates only.
LEMMA SnapshotFields ==
    ASSUME NEW x \in Tx, NEW C
    PROVE  LET y == Snapped(x, C) IN
           y.pc = "lockActive" /\ SameArgs(x, y) /\ y.cand = C
             /\ y.current = x.current /\ y.superseded = x.superseded
BY DEF Snapped, Tx, SameArgs

\* LockActive settles the current subscription and forgets the candidates.
LEMMA LockedFields ==
    ASSUME NEW x \in Tx, NEW s, NEW L
    PROVE  LET y == Chosen(x, s, L) IN
           y.pc = "schedule" /\ SameArgs(x, y) /\ y.cand = {}
             /\ y.current = s /\ y.superseded = x.superseded
BY DEF Chosen, Tx, SameArgs

\* Skipping a row changes the candidates only.
LEMMA SkippedFields ==
    ASSUME NEW x \in Tx, NEW C, NEW L
    PROVE  LET y == Skipped(x, C, L) IN
           y.pc = x.pc /\ SameArgs(x, y) /\ y.cand = C
             /\ y.current = x.current /\ y.superseded = x.superseded
BY DEF Skipped, Tx, SameArgs

\* Schedule settles the superseded subscription.
LEMMA ScheduledFields ==
    ASSUME NEW x \in Tx, NEW a, NEW b, NEW old
    PROVE  LET y == Scheduled(x, a, b, old) IN
           y.pc = "insert" /\ SameArgs(x, y) /\ y.cand = x.cand
             /\ y.current = x.current /\ y.superseded = old
BY DEF Scheduled, Tx, SameArgs

\* A committed request keeps its arguments and references.
LEMMA DoneFields ==
    ASSUME NEW x \in Tx, TRUE
    PROVE  LET y == Finished(x) IN
           y.pc = "done" /\ SameArgs(x, y) /\ SameRefs(x, y)
BY DEF Finished, Tx, SameArgs, SameRefs

\* Deciding the period is a Proceeds step: what it supersedes was read before.
LEMMA ScheduleProceeds ==
    ASSUME TypeOK, RefsExist, NEW r \in Requests, Schedule(r)
    PROVE  Proceeds(r)
<1>a. tx[r] \in Tx /\ Refers(tx[r])
    BY DEF TypeOK, RefsExist, Refers
<1>0. tx[r].pc = "schedule" /\ TablesStay
    BY DEF Schedule, TablesStay
<1>1. \E start \in PeriodStart(r) :
         Becomes(r, Scheduled(tx[r], start, start + tx[r].days, Superseded(r)))
  <2>1. \E start \in PeriodStart(r) :
           Becomes(r, [tx[r] EXCEPT !.pc = "insert", !.start = start,
                                    !.end = start + tx[r].days, !.superseded = Superseded(r)])
      BY Zenon DEF Schedule
  <2> QED
      BY <2>1, Zenon DEF Scheduled
<1>2. PICK start : Becomes(r, Scheduled(tx[r], start, start + tx[r].days, Superseded(r)))
    BY <1>1
<1>3. OthersStay(r)
        /\ tx'[r] = Scheduled(tx[r], start, start + tx[r].days, Superseded(r))
    BY <1>2, OneMoves
<1>4. tx'[r].pc = "insert" /\ SameArgs(tx[r], tx'[r]) /\ tx'[r].cand = tx[r].cand
        /\ tx'[r].current = tx[r].current /\ tx'[r].superseded = Superseded(r)
    BY <1>a, <1>3, ScheduledFields
<1>5. Refers(tx'[r])
    BY <1>a, <1>4 DEF Superseded, Refers
<1> QED
    BY <1>0, <1>3, <1>4, <1>5 DEF Proceeds, SameArgs, Waiting

\* Every statement between BEGIN and COMMIT is a Proceeds step.
LEMMA StatementProceeds ==
    ASSUME TypeOK, RefsExist, NEW r \in Requests,
           LockCoupon(r) \/ ReadActive(r) \/ LockActive(r) \/ NoActive(r) \/ Schedule(r) \/ Insert(r)
    PROVE  Proceeds(r)
<1>a. tx[r] \in Tx /\ Refers(tx[r])
    BY DEF TypeOK, RefsExist, Refers
<1> SUFFICES ASSUME TRUE PROVE
       /\ TablesStay
       /\ OthersStay(r)
       /\ tx[r].pc \in Waiting
       /\ tx'[r].pc \in Waiting \ {"lockCoupon"}
       /\ SameArgs(tx[r], tx'[r])
       /\ tx[r].pc = "lockCoupon" =>
             CouponFree(tx[r].coupon) /\ Redeemable(tx[r].coupon, tx[r].user)
       /\ Refers(tx'[r])
    BY DEF Proceeds, SameArgs
<1> USE DEF Waiting
<1>1. CASE LockCoupon(r)
  <2>1. OthersStay(r) /\ tx'[r] = [tx[r] EXCEPT !.pc = "readActive"]
      BY <1>1, OneMoves DEF LockCoupon
  <2>2. tx'[r].pc = "readActive" /\ SameArgs(tx[r], tx'[r]) /\ SameRefs(tx[r], tx'[r])
      BY <1>a, <2>1, PcFields
  <2> QED
      BY <1>1, <1>a, <2>1, <2>2 DEF LockCoupon, Valid, SameRefs, Refers, TablesStay
<1>2. CASE ReadActive(r)
  <2>1. OthersStay(r) /\ tx'[r] = Snapped(tx[r], InWindow(tx[r].tenant, tx[r].began))
      BY <1>2, OneMoves DEF ReadActive, Snapped
  <2>2. tx'[r].pc = "lockActive" /\ SameArgs(tx[r], tx'[r])
          /\ tx'[r].cand = InWindow(tx[r].tenant, tx[r].began)
          /\ tx'[r].current = tx[r].current /\ tx'[r].superseded = tx[r].superseded
      BY <1>a, <2>1, SnapshotFields
  <2>3. \A s \in InWindow(tx[r].tenant, tx[r].began) : subs[s] # NoRow
      BY DEF InWindow, ActiveRows
  <2>4. Refers(tx'[r])
      BY <1>a, <2>2, <2>3 DEF Refers
  <2> QED
      BY <1>2, <2>1, <2>2, <2>4 DEF ReadActive, TablesStay
<1>3. CASE LockActive(r)
  <2>1. PICK s \in Newest(tx[r].cand) :
           \/ Becomes(r, [tx[r] EXCEPT !.pc = "schedule", !.cand = {},
                                       !.current = s, !.locked = @ \cup {s}])
           \/ Becomes(r, [tx[r] EXCEPT !.cand = @ \ {s}, !.locked = @ \cup {s}])
      BY <1>3 DEF LockActive
  <2>2. s \in tx[r].cand /\ subs[s] # NoRow /\ tx[r].pc = "lockActive" /\ TablesStay
      BY <1>3, <1>a DEF LockActive, Newest, Refers, TablesStay
  <2>3. CASE Becomes(r, [tx[r] EXCEPT !.pc = "schedule", !.cand = {},
                                      !.current = s, !.locked = @ \cup {s}])
    <3>1. OthersStay(r) /\ tx'[r] = Chosen(tx[r], s, tx[r].locked \cup {s})
        BY <2>3, OneMoves DEF Chosen
    <3>2. tx'[r].pc = "schedule" /\ SameArgs(tx[r], tx'[r]) /\ tx'[r].cand = {}
            /\ tx'[r].current = s /\ tx'[r].superseded = tx[r].superseded
        BY <1>a, <3>1, LockedFields
    <3> QED
        BY <1>a, <2>2, <3>1, <3>2 DEF Refers
  <2>4. CASE Becomes(r, [tx[r] EXCEPT !.cand = @ \ {s}, !.locked = @ \cup {s}])
    <3>1. OthersStay(r)
            /\ tx'[r] = Skipped(tx[r], tx[r].cand \ {s}, tx[r].locked \cup {s})
        BY <2>4, OneMoves DEF Skipped
    <3>2. tx'[r].pc = tx[r].pc /\ SameArgs(tx[r], tx'[r]) /\ tx'[r].cand = tx[r].cand \ {s}
            /\ tx'[r].current = tx[r].current /\ tx'[r].superseded = tx[r].superseded
        BY <1>a, <3>1, SkippedFields
    <3> QED
        BY <1>a, <2>2, <3>1, <3>2 DEF Refers
  <2> QED
      BY <2>1, <2>3, <2>4
<1>4. CASE NoActive(r)
  <2>1. OthersStay(r) /\ tx'[r] = [tx[r] EXCEPT !.pc = "schedule"]
      BY <1>4, OneMoves DEF NoActive
  <2>2. tx'[r].pc = "schedule" /\ SameArgs(tx[r], tx'[r]) /\ SameRefs(tx[r], tx'[r])
      BY <1>a, <2>1, PcFields
  <2> QED
      BY <1>4, <1>a, <2>1, <2>2 DEF NoActive, SameRefs, Refers, TablesStay
<1>5. CASE Schedule(r)
    BY <1>5, ScheduleProceeds DEF Proceeds, SameArgs
<1>6. CASE Insert(r)
  <2>1. OthersStay(r) /\ tx'[r] = [tx[r] EXCEPT !.pc = "commit"]
      BY <1>6, OneMoves DEF Insert
  <2>2. tx'[r].pc = "commit" /\ SameArgs(tx[r], tx'[r]) /\ SameRefs(tx[r], tx'[r])
      BY <1>a, <2>1, PcFields
  <2> QED
      BY <1>6, <1>a, <2>1, <2>2 DEF Insert, SameRefs, Refers, TablesStay
<1> QED
    BY <1>1, <1>2, <1>3, <1>4, <1>5, <1>6

\* Every action of a request is of one of the four kinds.
LEMMA RedeemingKinds ==
    ASSUME TypeOK, RefsExist, NEW r \in Requests, Redeeming(r)
    PROVE  Starts(r) \/ Ends(r) \/ Proceeds(r) \/ Commits(r)
<1>1. CASE BeginCoupon(r) \/ BeginGrant(r)
    BY <1>1, BeginStarts
<1>2. CASE RefuseCoupon(r) \/ RefuseTenant(r) \/ RefuseKey(r) \/ Crash(r)
    BY <1>2, FailEnds DEF RefuseCoupon, RefuseTenant, RefuseKey, Crash, Waiting
<1>3. CASE Commit(r)
  <2>1. OthersStay(r) /\ tx'[r] = Finished(tx[r])
      BY <1>3, OneMoves DEF Commit, Finished
  <2>2. tx'[r].pc = "done" /\ SameArgs(tx[r], tx'[r]) /\ SameRefs(tx[r], tx'[r])
      BY <2>1, DoneFields DEF TypeOK
  <2> QED
      BY <1>3, <2>1, <2>2 DEF Commits, SameArgs, SameRefs
<1>4. CASE LockCoupon(r) \/ ReadActive(r) \/ LockActive(r) \/ NoActive(r)
             \/ Schedule(r) \/ Insert(r)
    BY <1>4, StatementProceeds
<1> QED
    BY <1>1, <1>2, <1>3, <1>4 DEF Redeeming, Advance

\* What an admin's edit of a coupon changes.
Edits(c) ==
    /\ tx' = tx /\ subs' = subs /\ redemptions' = redemptions
    /\ CouponFree(c)
    /\ \A d \in Coupons \ {c} : coupon'[d] = coupon[d]
    /\ coupon'[c] # NoRow
    /\ coupon'[c].count = IF coupon[c] = NoRow THEN 0 ELSE coupon[c].count

Updated(x, limit, until, once) ==
    [x EXCEPT !.limit = limit, !.validUntil = until, !.onePerUser = once]

\* An update of the mutable fields keeps the type and the count.
LEMMA UpdatedFields ==
    ASSUME NEW x \in CouponRow, NEW limit \in Nat \cup {NoLimit}, NEW until \in Nat \cup {NoLimit},
           NEW once \in BOOLEAN
    PROVE  /\ Updated(x, limit, until, once) \in CouponRow
           /\ Updated(x, limit, until, once).count = x.count
BY DEF Updated, CouponRow

\* Creating, updating, disabling and enabling are Edits of one coupon.
LEMMA AdminEdits ==
    ASSUME TypeOK, NEW c \in Coupons, Admin(c)
    PROVE  Edits(c)
<1>0. coupon \in [Coupons -> CouponRow \cup {NoRow}]
    BY DEF TypeOK
<1>1. tx' = tx /\ subs' = subs /\ CouponFree(c)
    BY DEF Admin
<1>2. CASE AdminCreate(c)
  <2>1. PICK limit \in Limits, until \in Expiries, once \in BOOLEAN :
           coupon' = [coupon EXCEPT ![c] =
               [disabled |-> FALSE, limit |-> limit, validUntil |-> until,
                onePerUser |-> once, count |-> 0]]
      BY <1>2 DEF AdminCreate
  <2>2. [disabled |-> FALSE, limit |-> limit, validUntil |-> until,
         onePerUser |-> once, count |-> 0] \in CouponRow
      BY DEF CouponRow
  <2>3. coupon'[c] \in CouponRow /\ coupon'[c].count = 0
      BY <1>0, <2>1, <2>2
  <2> QED
      BY <1>0, <1>1, <1>2, <2>1, <2>3 DEF AdminCreate, Exists, Edits
<1>3. CASE AdminUpdate(c)
  <2>1. \E limit \in Limits \cup {coupon[c].limit},
           until \in Expiries \cup {coupon[c].validUntil}, once \in BOOLEAN :
              coupon' = [coupon EXCEPT ![c] = Updated(coupon[c], limit, until, once)]
      BY <1>3, Zenon DEF AdminUpdate, Updated
  <2>2. PICK limit \in Limits \cup {coupon[c].limit},
             until \in Expiries \cup {coupon[c].validUntil}, once \in BOOLEAN :
                coupon' = [coupon EXCEPT ![c] = Updated(coupon[c], limit, until, once)]
      BY <2>1
  <2>3. coupon[c] \in CouponRow
      BY <1>0, <1>3 DEF AdminUpdate, Exists
  <2>4. limit \in Nat \cup {NoLimit} /\ until \in Nat \cup {NoLimit}
      BY <2>3 DEF CouponRow
  <2>5. /\ Updated(coupon[c], limit, until, once) \in CouponRow
        /\ Updated(coupon[c], limit, until, once).count = coupon[c].count
      BY <2>2, <2>3, <2>4, UpdatedFields, Zenon
  <2>6. coupon'[c] = Updated(coupon[c], limit, until, once)
          /\ \A d \in Coupons \ {c} : coupon'[d] = coupon[d]
      BY <1>0, <2>2
  <2>7. redemptions' = redemptions /\ coupon[c] # NoRow
      BY <1>3 DEF AdminUpdate, Exists
  <2> QED
      BY <1>1, <2>5, <2>6, <2>7 DEF Edits
<1>4. CASE AdminSetDisabled(c)
  <2>1. PICK off \in BOOLEAN : coupon' = [coupon EXCEPT ![c].disabled = off]
      BY <1>4 DEF AdminSetDisabled
  <2>2. coupon[c] \in CouponRow
      BY <1>0, <1>4 DEF AdminSetDisabled, Exists
  <2>3. [coupon[c] EXCEPT !.disabled = off] \in CouponRow
      BY <2>2, DisabledTyped
  <2>4. [coupon[c] EXCEPT !.disabled = off].count = coupon[c].count
      BY <2>2 DEF CouponRow
  <2> QED
      BY <1>0, <1>1, <1>4, <2>1, <2>2, <2>3, <2>4 DEF AdminSetDisabled, Edits
<1> QED
    BY <1>2, <1>3, <1>4 DEF Admin, AdminStep

\* Every step, as the invariant sees it.
LEMMA NextKinds ==
    ASSUME TypeOK, RefsExist, [Next]_vars
    PROVE  \/ \E r \in Requests : Starts(r) \/ Ends(r) \/ Proceeds(r) \/ Commits(r)
           \/ \E c \in Coupons : Edits(c)
           \/ tx' = tx /\ TablesStay
BY RedeemingKinds, AdminEdits DEF Next, DeleteTenant, Tick, Quiet, vars, TablesStay

\* What COMMIT does to the tables: one row more in subs and in redemptions,
\* and, under a coupon, one more in its count.
LEMMA CommitEffect ==
    ASSUME TypeOK, ArgsKnown, RowsOfDone, RefsExist, StillRedeemable,
           NEW r \in Requests, Commits(r)
    PROVE  /\ \A s \in Requests : (subs'[s] # NoRow) <=> (s = r \/ subs[s] # NoRow)
           /\ redemptions' = redemptions
                \cup {[id |-> r, coupon |-> tx[r].coupon, user |-> tx[r].user]}
           /\ \A x \in redemptions : x.id # r
           /\ tx[r].coupon = NoCoupon => coupon' = coupon
           /\ tx[r].coupon # NoCoupon =>
                 /\ tx[r].coupon \in Coupons
                 /\ HoldsCoupon(r)
                 /\ coupon[tx[r].coupon] \in CouponRow
                 /\ coupon' = [coupon EXCEPT ![tx[r].coupon].count = @ + 1]
<1>1. tx[r] \in Tx /\ tx[r].pc = "commit" /\ Commit(r)
    BY DEF TypeOK, Commits, Commit
<1>2. NewSub(r) \in SubRow
  <2>1. tx[r].tenant \in Tenants /\ tx[r].plan \in Plans
      BY <1>1 DEF ArgsKnown, Begun, Waiting
  <2>2. tx[r].start \in Nat /\ tx[r].end \in Nat
      BY <1>1 DEF Tx
  <2> QED
      BY <2>1, <2>2 DEF NewSub, SubRow
<1>3. \A s \in Requests : subs[s] \in SubRow => SupersededRow(s) \in SubRow
    BY DEF SupersededRow, SubRow
<1>4. \A s \in Requests : (subs'[s] # NoRow) <=> (s = r \/ subs[s] # NoRow)
    BY <1>1, <1>2, <1>3 DEF Commit, RefsExist, TypeOK
<1>5. \A x \in redemptions : x.id # r
    BY <1>1 DEF RowsOfDone
<1>6. CASE tx[r].coupon = NoCoupon
    BY <1>1, <1>4, <1>5, <1>6 DEF Commit, RecordGrant
<1>7. CASE tx[r].coupon # NoCoupon
  <2>1. tx[r].coupon \in Coupons /\ HoldsCoupon(r)
      BY <1>1, <1>7 DEF HoldsCoupon, Waiting, Tx
  <2>2. coupon[tx[r].coupon] \in CouponRow
      BY <2>1 DEF StillRedeemable, Redeemable, Exists, TypeOK
  <2>3. RecordRedemption(r, tx[r].coupon, tx[r].user)
      BY <1>1, <1>7, Zenon DEF Commit
  <2>4. redemptions' = redemptions
                \cup {[id |-> r, coupon |-> tx[r].coupon, user |-> tx[r].user]}
      BY <2>3, Zenon DEF RecordRedemption
  <2>5. coupon' = [coupon EXCEPT ![tx[r].coupon].count = @ + 1]
      BY <2>3, Zenon DEF RecordRedemption
  <2> QED
      BY <1>4, <1>5, <1>7, <2>1, <2>2, <2>4, <2>5, Zenon
<1> QED
    BY <1>6, <1>7

----------------------------------------------------------------------------
(* The conjuncts of the invariant, one lemma each *)

\* A call keeps its arguments from its begin to its end.
LEMMA ArgsStep == IInv /\ [Next]_vars => ArgsKnown'
<1> SUFFICES ASSUME IInv, [Next]_vars PROVE ArgsKnown'
    OBVIOUS
<1> USE DEF ArgsKnown, Begun
<1>1. ArgsKnown /\ TypeOK /\ RefsExist
    BY DEF IInv
<1>2. ASSUME NEW r \in Requests, Starts(r) PROVE ArgsKnown'
    BY <1>1, <1>2 DEF Starts, OthersStay
<1>3. ASSUME NEW r \in Requests, Ends(r) PROVE ArgsKnown'
    BY <1>1, <1>3 DEF Ends, OthersStay, Waiting
<1>4. ASSUME NEW r \in Requests, Proceeds(r) PROVE ArgsKnown'
    BY <1>1, <1>4 DEF Proceeds, OthersStay
<1>5. ASSUME NEW r \in Requests, Commits(r) PROVE ArgsKnown'
  <2>1. tx[r].pc \in Waiting
      BY <1>5 DEF Commits, Commit, Waiting
  <2> QED
      BY <1>1, <1>5, <2>1 DEF Commits, OthersStay
<1>6. ASSUME NEW c \in Coupons, Edits(c) PROVE ArgsKnown'
    BY <1>1, <1>6 DEF Edits
<1>7. CASE tx' = tx /\ TablesStay
    BY <1>1, <1>7
<1> QED
    BY <1>1, <1>2, <1>3, <1>4, <1>5, <1>6, <1>7, NextKinds

\* A call's rows appear with its COMMIT and stay.
LEMMA RowsStep == IInv /\ [Next]_vars => RowsOfDone'
<1> SUFFICES ASSUME IInv, [Next]_vars PROVE RowsOfDone'
    OBVIOUS
<1>1. RowsOfDone /\ TypeOK /\ RefsExist /\ ArgsKnown /\ StillRedeemable
    BY DEF IInv
<1>2. ASSUME NEW r \in Requests, Starts(r) PROVE RowsOfDone'
    BY <1>1, <1>2 DEF Starts, OthersStay, TablesStay, RowsOfDone
<1>3. ASSUME NEW r \in Requests, Ends(r) PROVE RowsOfDone'
    BY <1>1, <1>3 DEF Ends, OthersStay, TablesStay, RowsOfDone, Waiting
<1>4. ASSUME NEW r \in Requests, Proceeds(r) PROVE RowsOfDone'
    BY <1>1, <1>4 DEF Proceeds, OthersStay, TablesStay, RowsOfDone, Waiting
<1>5. ASSUME NEW r \in Requests, Commits(r) PROVE RowsOfDone'
  <2>1. \A s \in Requests : (subs'[s] # NoRow) <=> (s = r \/ subs[s] # NoRow)
      BY <1>1, <1>5, CommitEffect
  <2>2. \A s \in Requests :
           (\E x \in redemptions' : x.id = s) <=> (s = r \/ \E x \in redemptions : x.id = s)
    <3>1. redemptions' = redemptions
                \cup {[id |-> r, coupon |-> tx[r].coupon, user |-> tx[r].user]}
        BY <1>1, <1>5, CommitEffect
    <3>2. [id |-> r, coupon |-> tx[r].coupon, user |-> tx[r].user].id = r
        OBVIOUS
    <3>3. PICK new : redemptions' = redemptions \cup {new} /\ new.id = r
        BY <3>1, <3>2
    <3> QED
        BY <3>3
  <2>3. \A s \in Requests : (tx'[s].pc = "done") <=> (s = r \/ tx[s].pc = "done")
      BY <1>5 DEF Commits, OthersStay
  <2> QED
      BY <1>1, <2>1, <2>2, <2>3 DEF RowsOfDone
<1>6. ASSUME NEW c \in Coupons, Edits(c) PROVE RowsOfDone'
    BY <1>1, <1>6 DEF Edits, RowsOfDone
<1>7. CASE tx' = tx /\ TablesStay
    BY <1>1, <1>7 DEF TablesStay, RowsOfDone
<1> QED
    BY <1>1, <1>2, <1>3, <1>4, <1>5, <1>6, <1>7, NextKinds

\* The rows a call refers to stay.
LEMMA RefsStep == IInv /\ [Next]_vars => RefsExist'
<1> SUFFICES ASSUME IInv, [Next]_vars PROVE RefsExist'
    OBVIOUS
<1>1. RowsOfDone /\ TypeOK /\ RefsExist /\ ArgsKnown /\ StillRedeemable
    BY DEF IInv
<1>2. ASSUME NEW r \in Requests, TablesStay, OthersStay(r), Refers(tx'[r]) PROVE RefsExist'
    BY <1>1, <1>2 DEF OthersStay, TablesStay, RefsExist, Refers
<1>3. ASSUME NEW r \in Requests, Starts(r) \/ Ends(r) \/ Proceeds(r) PROVE RefsExist'
    BY <1>2, <1>3 DEF Starts, Ends, Proceeds
<1>5. ASSUME NEW r \in Requests, Commits(r) PROVE RefsExist'
  <2>1. \A s \in Requests : subs[s] # NoRow => subs'[s] # NoRow
      BY <1>1, <1>5, CommitEffect
  <2>2. \A q \in Requests : tx'[q].cand = tx[q].cand /\ tx'[q].current = tx[q].current
          /\ tx'[q].superseded = tx[q].superseded
      BY <1>5 DEF Commits, OthersStay
  <2>3. \A q \in Requests : tx[q].cand \subseteq Requests
          /\ tx[q].current \in Requests \cup {NoRow}
          /\ tx[q].superseded \in Requests \cup {NoRow}
      BY <1>1 DEF TypeOK, Tx
  <2> QED
      BY <1>1, <2>1, <2>2, <2>3 DEF RefsExist
<1>6. ASSUME NEW c \in Coupons, Edits(c) PROVE RefsExist'
    BY <1>1, <1>6 DEF Edits, RefsExist
<1>7. CASE tx' = tx /\ TablesStay
    BY <1>1, <1>7 DEF TablesStay, RefsExist
<1> QED
    BY <1>1, <1>3, <1>5, <1>6, <1>7, NextKinds

\* One holder of a coupon's row: LockCoupon waits for the others.
LEMMA MutexStep == IInv /\ [Next]_vars => CouponMutex'
<1> SUFFICES ASSUME IInv, [Next]_vars PROVE CouponMutex'
    OBVIOUS
<1>1. CouponMutex /\ TypeOK /\ RefsExist
    BY DEF IInv
<1>2. ASSUME NEW r \in Requests, Starts(r) \/ Ends(r) \/ Commits(r) PROVE CouponMutex'
  <2>1. ~HoldsCoupon(r)'
      BY <1>2 DEF Starts, Ends, Commits, HoldsCoupon, Waiting
  <2>2. \A q \in Requests \ {r} : tx'[q] = tx[q]
      BY <1>2 DEF Starts, Ends, Commits, OthersStay
  <2> QED
      BY <1>1, <2>1, <2>2 DEF CouponMutex, HoldsCoupon
<1>4. ASSUME NEW r \in Requests, Proceeds(r) PROVE CouponMutex'
  <2>1. \A q \in Requests \ {r} : tx'[q] = tx[q]
      BY <1>4 DEF Proceeds, OthersStay
  <2>2. tx'[r].coupon = tx[r].coupon
      BY <1>4 DEF Proceeds
  <2>3. \A q \in Requests \ {r} :
           (HoldsCoupon(q) /\ HoldsCoupon(r)') => tx[q].coupon # tx[r].coupon
    <3>1. CASE tx[r].pc = "lockCoupon"
        BY <1>4, <3>1 DEF Proceeds, CouponFree
    <3>2. CASE tx[r].pc # "lockCoupon"
      <4>1. HoldsCoupon(r)' => HoldsCoupon(r)
          BY <1>4, <3>2 DEF Proceeds, HoldsCoupon
      <4> QED
          BY <1>1, <4>1 DEF CouponMutex
    <3> QED
        BY <3>1, <3>2
  <2> QED
      BY <2>1, <2>2, <2>3 , <1>1 DEF CouponMutex, HoldsCoupon
<1>6. ASSUME NEW c \in Coupons, Edits(c) PROVE CouponMutex'
    BY <1>1, <1>6 DEF Edits, CouponMutex, HoldsCoupon
<1>7. CASE tx' = tx /\ TablesStay
    BY <1>1, <1>7 DEF CouponMutex, HoldsCoupon
<1> QED
    BY <1>1, <1>2, <1>4, <1>6, <1>7, NextKinds

\* What the validation found still holds: another redeem of the coupon waits
\* for its row, and so does an admin's edit.
LEMMA RedeemableStep == IInv /\ [Next]_vars => StillRedeemable'
<1> SUFFICES ASSUME IInv, [Next]_vars PROVE StillRedeemable'
    OBVIOUS
<1>1. StillRedeemable /\ CouponMutex /\ RowsOfDone /\ TypeOK /\ RefsExist /\ ArgsKnown
    BY DEF IInv
<1>a. \A q \in Requests : HoldsCoupon(q) => tx[q].coupon \in Coupons
    BY <1>1 DEF HoldsCoupon, TypeOK, Tx
<1>2. ASSUME NEW r \in Requests, Starts(r) \/ Ends(r) PROVE StillRedeemable'
  <2>1. ~HoldsCoupon(r)'
      BY <1>2 DEF Starts, Ends, HoldsCoupon, Waiting
  <2>2. TablesStay /\ \A q \in Requests \ {r} : tx'[q] = tx[q]
      BY <1>2 DEF Starts, Ends, OthersStay
  <2> QED
      BY <1>1, <2>1, <2>2 DEF StillRedeemable, HoldsCoupon, Redeemable, Exists, Exhausted,
         AlreadyRedeemed, TablesStay
<1>4. ASSUME NEW r \in Requests, Proceeds(r) PROVE StillRedeemable'
  <2>1. TablesStay /\ \A q \in Requests \ {r} : tx'[q] = tx[q]
      BY <1>4 DEF Proceeds, OthersStay
  <2>2. tx'[r].coupon = tx[r].coupon /\ tx'[r].user = tx[r].user
      BY <1>4 DEF Proceeds
  <2>3. HoldsCoupon(r)' => Redeemable(tx[r].coupon, tx[r].user)
    <3>1. CASE tx[r].pc = "lockCoupon"
        BY <1>4, <3>1 DEF Proceeds
    <3>2. CASE tx[r].pc # "lockCoupon"
        BY <1>1, <1>4, <3>2 DEF Proceeds, HoldsCoupon, StillRedeemable
    <3> QED
        BY <3>1, <3>2
  <2> QED
      BY <1>1, <2>1, <2>2, <2>3 DEF StillRedeemable, HoldsCoupon, Redeemable, Exists, Exhausted,
         AlreadyRedeemed, TablesStay
<1>5. ASSUME NEW r \in Requests, Commits(r) PROVE StillRedeemable'
  <2> SUFFICES ASSUME NEW q \in Requests, HoldsCoupon(q)'
               PROVE  Redeemable(tx[q].coupon, tx[q].user)'
      BY DEF StillRedeemable
  <2>1. q # r /\ tx'[q] = tx[q]
      BY <1>5 DEF Commits, HoldsCoupon, Waiting, OthersStay
  <2>2. HoldsCoupon(q) /\ tx[q].coupon \in Coupons
      BY <1>a, <2>1 DEF HoldsCoupon
  <2>3. Redeemable(tx[q].coupon, tx[q].user)
      BY <1>1, <2>2 DEF StillRedeemable
  <2>4. tx[r].coupon # NoCoupon => tx[q].coupon # tx[r].coupon
      BY <1>1, <1>5, <2>1, <2>2, CommitEffect DEF CouponMutex
  <2>5. coupon'[tx[q].coupon] = coupon[tx[q].coupon]
    <3>1. coupon' = coupon \/ (tx[r].coupon # NoCoupon
                                /\ coupon' = [coupon EXCEPT ![tx[r].coupon].count = @ + 1])
        BY <1>1, <1>5, CommitEffect
    <3> QED
        BY <1>1, <2>2, <2>4, <3>1 DEF TypeOK
  <2>6. AlreadyRedeemed(tx[q].coupon, tx[q].user)'
           => AlreadyRedeemed(tx[q].coupon, tx[q].user)
    <3>1. redemptions' = redemptions
                \cup {[id |-> r, coupon |-> tx[r].coupon, user |-> tx[r].user]}
        BY <1>1, <1>5, CommitEffect
    <3>2. [id |-> r, coupon |-> tx[r].coupon, user |-> tx[r].user].coupon # tx[q].coupon
        BY <1>1, <2>2, <2>4 DEF TypeOK
    <3> QED
        BY <2>1, <3>1, <3>2 DEF AlreadyRedeemed
  <2> QED
      BY <2>1, <2>3, <2>5, <2>6 DEF Redeemable, Exists, Exhausted
<1>6. ASSUME NEW c \in Coupons, Edits(c) PROVE StillRedeemable'
  <2> SUFFICES ASSUME NEW q \in Requests, HoldsCoupon(q)
               PROVE  Redeemable(tx[q].coupon, tx[q].user)'
      BY <1>6 DEF StillRedeemable, HoldsCoupon, Edits
  <2>1. tx[q].coupon \in Coupons \ {c}
      BY <1>6, <1>a DEF Edits, CouponFree
  <2>2. coupon'[tx[q].coupon] = coupon[tx[q].coupon] /\ redemptions' = redemptions /\ tx' = tx
      BY <1>6, <2>1 DEF Edits
  <2> QED
      BY <1>1, <2>2 DEF StillRedeemable, Redeemable, Exists, Exhausted, AlreadyRedeemed
<1>7. CASE tx' = tx /\ TablesStay
    BY <1>1, <1>7 DEF StillRedeemable, HoldsCoupon, Redeemable, Exists, Exhausted,
       AlreadyRedeemed, TablesStay
<1> QED
    BY <1>1, <1>2, <1>4, <1>5, <1>6, <1>7, NextKinds

\* The accounting: the count moves with the audit rows, and a coupon that is
\* created has none yet.
LEMMA CountStep ==
    IInv /\ [Next]_vars => NoStrayRedemption' /\ IsFiniteSet(redemptions)' /\ CountExact'
<1> SUFFICES ASSUME IInv, [Next]_vars
             PROVE  NoStrayRedemption' /\ IsFiniteSet(redemptions)' /\ CountExact'
    OBVIOUS
<1>1. StillRedeemable /\ RowsOfDone /\ TypeOK /\ RefsExist /\ ArgsKnown
        /\ NoStrayRedemption /\ IsFiniteSet(redemptions) /\ CountExact
    BY DEF IInv
<1>2. ASSUME TablesStay PROVE NoStrayRedemption' /\ IsFiniteSet(redemptions)' /\ CountExact'
    BY <1>1, <1>2 DEF TablesStay, NoStrayRedemption, CountExact, RedemptionsOf
<1>5. ASSUME NEW r \in Requests, Commits(r)
      PROVE  NoStrayRedemption' /\ IsFiniteSet(redemptions)' /\ CountExact'
  <2> DEFINE new == [id |-> r, coupon |-> tx[r].coupon, user |-> tx[r].user]
             c0 == tx[r].coupon
  <2>1. redemptions' = redemptions \cup {new} /\ new.id = r /\ new.coupon = c0
      BY <1>1, <1>5, CommitEffect
  <2>2. new \notin redemptions
      BY <1>1, <1>5, <2>1, CommitEffect
  <2>3. c0 \in Coupons \cup {NoCoupon} /\ coupon \in [Coupons -> CouponRow \cup {NoRow}]
      BY <1>1 DEF TypeOK, Tx
  <2>4. c0 = NoCoupon => coupon' = coupon
      BY <1>1, <1>5, CommitEffect
  <2>5. c0 # NoCoupon => c0 \in Coupons /\ coupon[c0] \in CouponRow
          /\ coupon' = [coupon EXCEPT ![c0].count = @ + 1]
      BY <1>1, <1>5, CommitEffect
  <2>6. c0 # NoCoupon => coupon'[c0] \in CouponRow /\ coupon'[c0].count = coupon[c0].count + 1
      BY <2>3, <2>5, CountedTyped DEF CouponRow
  <2>7. \A d \in Coupons : d # c0 => coupon'[d] = coupon[d]
      BY <2>3, <2>4, <2>5
  <2> HIDE DEF new, c0
  <2>8. IsFiniteSet(redemptions')
      BY <1>1, <2>1, FS_AddElement
  <2>9. NoStrayRedemption'
    <3> SUFFICES ASSUME NEW x \in redemptions', x.coupon # NoCoupon PROVE coupon'[x.coupon] # NoRow
        BY DEF NoStrayRedemption
    <3>1. CASE x.coupon = c0
        BY <2>6, <3>1
    <3>2. CASE x.coupon # c0
      <4>1. x \in redemptions /\ x.coupon \in Coupons
          BY <1>1, <2>1, <3>2 DEF TypeOK, Redemption
      <4> QED
          BY <1>1, <2>7, <3>2, <4>1 DEF NoStrayRedemption
    <3> QED
        BY <3>1, <3>2
  <2>10. CountExact'
    <3> SUFFICES ASSUME NEW d \in Coupons, coupon'[d] # NoRow
                 PROVE  coupon'[d].count = Cardinality(RedemptionsOf(d)')
        BY DEF CountExact
    <3>1. CASE d = c0
      <4>1. RedemptionsOf(d)' = RedemptionsOf(d) \cup {new} /\ new \notin RedemptionsOf(d)
          BY <2>1, <2>2, <3>1 DEF RedemptionsOf
      <4>2. IsFiniteSet(RedemptionsOf(d))
          BY <1>1, FS_Subset DEF RedemptionsOf
      <4>3. Cardinality(RedemptionsOf(d)') = Cardinality(RedemptionsOf(d)) + 1
          BY <4>1, <4>2, FS_AddElement
      <4>4. coupon[d] # NoRow /\ coupon'[d].count = coupon[d].count + 1
          BY <2>5, <2>6, <3>1
      <4> QED
          BY <1>1, <4>3, <4>4 DEF CountExact
    <3>2. CASE d # c0
      <4>1. RedemptionsOf(d)' = RedemptionsOf(d)
          BY <2>1, <3>2 DEF RedemptionsOf
      <4> QED
          BY <1>1, <2>7, <3>2, <4>1 DEF CountExact
    <3> QED
        BY <3>1, <3>2
  <2> QED
      BY <2>8, <2>9, <2>10
<1>6. ASSUME NEW c \in Coupons, Edits(c)
      PROVE  NoStrayRedemption' /\ IsFiniteSet(redemptions)' /\ CountExact'
  <2>1. redemptions' = redemptions /\ coupon'[c] # NoRow
          /\ \A d \in Coupons \ {c} : coupon'[d] = coupon[d]
      BY <1>6 DEF Edits
  <2>2. \A x \in redemptions : x.coupon # NoCoupon => x.coupon \in Coupons
      BY <1>1 DEF TypeOK, Redemption
  <2>3. NoStrayRedemption'
      BY <1>1, <2>1, <2>2 DEF NoStrayRedemption
  <2>4. coupon'[c].count = Cardinality(RedemptionsOf(c))
    <3>1. CASE coupon[c] = NoRow
      <4>1. RedemptionsOf(c) = {}
          BY <1>1, <3>1 DEF NoStrayRedemption, RedemptionsOf
      <4> QED
          BY <1>6, <3>1, <4>1, FS_EmptySet DEF Edits
    <3>2. CASE coupon[c] # NoRow
        BY <1>1, <1>6, <3>2 DEF Edits, CountExact
    <3> QED
        BY <3>1, <3>2
  <2>5. CountExact'
      BY <1>1, <2>1, <2>4 DEF CountExact, RedemptionsOf
  <2> QED
      BY <1>1, <2>1, <2>3, <2>5
<1> QED
    BY <1>1, <1>2, <1>5, <1>6, NextKinds DEF Starts, Ends, Proceeds

----------------------------------------------------------------------------
(* The theorems *)

\* The invariant holds in the initial states.
LEMMA InvInit == Init => IInv
<1> SUFFICES ASSUME Init PROVE IInv
    OBVIOUS
<1>1. TypeOK
    BY TypeInit
<1>2. redemptions = {} /\ \A c \in Coupons : coupon[c] = NoRow
    BY DEF Init, LedgerInit
<1>3. \A r \in Requests : tx[r] = Idle /\ subs[r] = NoRow
    BY DEF Init
<1>4. Idle.pc = "idle" /\ Idle.cand = {} /\ Idle.current = NoRow /\ Idle.superseded = NoRow
    BY DEF Idle, Call
<1>5. ArgsKnown /\ RowsOfDone /\ RefsExist
    BY <1>2, <1>3, <1>4 DEF ArgsKnown, RowsOfDone, RefsExist, Begun, Waiting
<1>6. CouponMutex /\ StillRedeemable
    BY <1>3, <1>4 DEF CouponMutex, StillRedeemable, HoldsCoupon, Waiting
<1>7. NoStrayRedemption /\ CountExact /\ IsFiniteSet(redemptions)
    BY <1>2, FS_EmptySet DEF NoStrayRedemption, CountExact
<1> QED
    BY <1>1, <1>5, <1>6, <1>7 DEF IInv

\* Every step keeps the invariant.
LEMMA InvStep == IInv /\ [Next]_vars => IInv'
BY TypeStep, ArgsStep, RowsStep, MutexStep, RedeemableStep, RefsStep, CountStep DEF IInv

\* The inductive invariant holds in every reachable state.
THEOREM Inductive == Spec => []IInv
BY InvInit, InvStep, PTL DEF Spec

\* Type correctness, for every catalog and any number of concurrent redeems.
THEOREM TypeCorrect == Spec => []TypeOK
<1>1. IInv => TypeOK
    BY DEF IInv
<1> QED
    BY <1>1, Inductive, PTL

\* The books balance: redemption_count counts the audit rows, and each audit
\* row has its subscription row.
THEOREM Balanced == Spec => []BooksBalance
<1>1. IInv => BooksBalance
    BY DEF IInv, RowsOfDone, CountExact, BooksBalance
<1> QED
    BY <1>1, Inductive, PTL

\* The initial tables are the ledger's.
LEMMA LedgerInitial == Init => LedgerInit
BY DEF Init

\* A COMMIT is the ledger's atomic Redeem or Grant: the coupon its call
\* validated is still redeemable, and its rows are new.
LEMMA CommitIsAtomic ==
    ASSUME IInv, NEW r \in Requests, Commits(r)
    PROVE  LedgerNext
<1>1. StillRedeemable /\ RowsOfDone /\ TypeOK /\ RefsExist /\ ArgsKnown
    BY DEF IInv
<1>2. tx[r].pc = "commit" /\ Commit(r)
    BY DEF Commits, Commit
<1>3. tx[r].user \in Users
    BY <1>1, <1>2 DEF ArgsKnown, Begun, Waiting
<1>4. Fresh(r)
    BY <1>1, CommitEffect DEF Fresh
<1>5. CASE tx[r].coupon = NoCoupon
  <2>1. RecordGrant(r, tx[r].user)
      BY <1>2, <1>5, Zenon DEF Commit
  <2> QED
      BY <1>3, <1>4, <2>1 DEF Grant, LedgerNext
<1>6. CASE tx[r].coupon # NoCoupon
  <2>1. RecordRedemption(r, tx[r].coupon, tx[r].user)
      BY <1>2, <1>6, Zenon DEF Commit
  <2>2. tx[r].coupon \in Coupons /\ HoldsCoupon(r)
      BY <1>1, <1>6, CommitEffect
  <2>3. Redeemable(tx[r].coupon, tx[r].user)
      BY <1>1, <2>2 DEF StillRedeemable
  <2> QED
      BY <1>3, <1>4, <2>1, <2>2, <2>3 DEF Redeem, LedgerNext
<1> QED
    BY <1>5, <1>6

\* Every step of the transactions is a step of the ledger or none.
LEMMA LedgerStep == IInv /\ [Next]_vars => [LedgerNext]_ledgerVars
<1> SUFFICES ASSUME IInv, [Next]_vars PROVE [LedgerNext]_ledgerVars
    OBVIOUS
<1>1. TypeOK /\ RefsExist
    BY DEF IInv
<1>2. ASSUME TablesStay PROVE [LedgerNext]_ledgerVars
    BY <1>2 DEF TablesStay, ledgerVars
<1>3. ASSUME NEW r \in Requests, Redeeming(r) PROVE [LedgerNext]_ledgerVars
    BY <1>1, <1>2, <1>3, RedeemingKinds, CommitIsAtomic DEF Starts, Ends, Proceeds
<1>4. ASSUME NEW c \in Coupons, Admin(c) PROVE [LedgerNext]_ledgerVars
    BY <1>4 DEF Admin, LedgerNext
<1>5. CASE Tick \/ Quiet \/ UNCHANGED vars \/ \E t \in Tenants : DeleteTenant(t)
    BY <1>5 DEF Tick, Quiet, DeleteTenant, vars, ledgerVars
<1> QED
    BY <1>3, <1>4, <1>5 DEF Next

\* The interleaved transactions implement the atomic ledger: coupons never
\* exceed their limit, are never redeemed disabled or twice by one user, as if
\* redeems ran one at a time.
THEOREM Linearizable == Spec => LedgerImplemented
<1>1. Spec => LedgerInit /\ [][LedgerNext]_ledgerVars
    BY LedgerInitial, LedgerStep, Inductive, PTL DEF Spec
<1> QED
    BY <1>1 DEF LedgerImplemented, LedgerSpec

\* What a step may do to the history.
HistoryKept ==
    /\ redemptions \subseteq redemptions'
    /\ \A s \in Requests : subs[s] # NoRow =>
          subs'[s] \in {subs[s], [subs[s] EXCEPT !.status = "superseded"]}

\* A COMMIT writes its own row, which was not there, and the status of one other.
LEMMA HistoryStep == IInv /\ [Next]_vars => HistoryKept
<1> SUFFICES ASSUME IInv, [Next]_vars PROVE HistoryKept
    OBVIOUS
<1>1. StillRedeemable /\ RowsOfDone /\ TypeOK /\ RefsExist /\ ArgsKnown
    BY DEF IInv
<1>2. ASSUME NEW r \in Requests, Commits(r) PROVE HistoryKept
  <2>1. redemptions \subseteq redemptions'
      BY <1>1, <1>2, CommitEffect
  <2>2. subs[r] = NoRow
      BY <1>1, <1>2 DEF Commits, Commit, RowsOfDone
  <2>3. \A s \in Requests \ {r} : subs'[s] \in {subs[s], SupersededRow(s)}
      BY <1>2 DEF Commits, Commit
  <2> QED
      BY <2>1, <2>2, <2>3 DEF HistoryKept, SupersededRow
<1>3. ASSUME TablesStay PROVE HistoryKept
    BY <1>3 DEF TablesStay, HistoryKept
<1>4. ASSUME NEW c \in Coupons, Edits(c) PROVE HistoryKept
    BY <1>4 DEF Edits, HistoryKept
<1> QED
    BY <1>1, <1>2, <1>3, <1>4, NextKinds DEF Starts, Ends, Proceeds

\* History is append-only: no committed redeem is undone or rewritten.
THEOREM Appending == Spec => AppendOnly
<1>1. IInv /\ [Next]_vars => [HistoryKept]_vars
    BY HistoryStep
<1>2. Spec => [][HistoryKept]_vars
    BY <1>1, Inductive, PTL DEF Spec
<1> QED
    BY <1>2 DEF AppendOnly, HistoryKept
=============================================================================

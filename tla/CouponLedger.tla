---------------------------- MODULE CouponLedger ----------------------------
(***************************************************************************)
(* What the coupon system promises about coupons, with every redemption    *)
(* one atomic step: the coupons table, the coupon_redemptions audit table, *)
(* and the operations that write them.  The admin operations (create,      *)
(* update, disable, enable) are single UPDATE statements in the code, so   *)
(* CouponRedeem uses them from here; the atomic Redeem and Grant are the   *)
(* specification that CouponRedeem's interleaved transactions implement.   *)
(***************************************************************************)
EXTENDS Naturals, FiniteSets

CONSTANTS
    Requests,       \* redeem and grant-plan calls; also the ids of the rows they insert
    Users,
    Coupons,        \* the rows of the coupons table, named by their code
    NoCoupon,       \* coupon_id NULL: the audit row of an admin grant
    NoLimit,        \* NULL in max_redemptions and in valid_until
    NoRow,          \* the row is not in the table
    Limits,         \* values an admin gives max_redemptions (NoLimit among them or not)
    Expiries        \* values an admin gives valid_until

VARIABLES
    coupon,         \* the coupons table: Coupons -> row or NoRow
    redemptions     \* the coupon_redemptions table

ledgerVars == <<coupon, redemptions>>

(***************************************************************************)
(* A row of the coupons table.  plan_id and duration_days never change     *)
(* after creation and are constants of CouponRedeem.                       *)
(***************************************************************************)
CouponRow ==
    [disabled: BOOLEAN, limit: Nat \cup {NoLimit}, validUntil: Nat \cup {NoLimit},
     onePerUser: BOOLEAN, count: Nat]

ASSUME LedgerAssumption ==
    /\ NoCoupon \notin Coupons
    /\ NoLimit \notin Nat
    /\ NoRow \notin CouponRow
    /\ Limits \subseteq (Nat \ {0}) \cup {NoLimit}
    /\ Expiries \subseteq Nat \cup {NoLimit}

Redemption == [id: Requests, coupon: Coupons \cup {NoCoupon}, user: Users]

Exists(c) == coupon[c] # NoRow

RedemptionsOf(c) == {x \in redemptions : x.coupon = c}

AlreadyRedeemed(c, u) == \E x \in redemptions : x.coupon = c /\ x.user = u

Exhausted(c) == coupon[c].limit # NoLimit /\ coupon[c].count >= coupon[c].limit

\* What _validate_coupon_row asks of a coupon, apart from its validity window.
Redeemable(c, u) ==
    /\ Exists(c)
    /\ ~coupon[c].disabled
    /\ ~Exhausted(c)
    /\ coupon[c].onePerUser => ~AlreadyRedeemed(c, u)

Fresh(r) == \A x \in redemptions : x.id # r

----------------------------------------------------------------------------

LedgerInit ==
    /\ coupon = [c \in Coupons |-> NoRow]
    /\ redemptions = {}

\* Mutant: the audit row without the count.
RecordRedemption_NoCount(r, c, u) ==
    /\ redemptions' = redemptions \cup {[id |-> r, coupon |-> c, user |-> u]}
    /\ UNCHANGED coupon

\* The two writes of redeem() to these tables, under a coupon: the audit row
\* and redemption_count + 1.
RecordRedemption(r, c, u) ==
    /\ redemptions' = redemptions \cup {[id |-> r, coupon |-> c, user |-> u]}
    /\ coupon' = [coupon EXCEPT ![c].count = @ + 1]

\* redeem() with a code, as one step.
Redeem(r, c, u) ==
    /\ Fresh(r)
    /\ Redeemable(c, u)
    /\ RecordRedemption(r, c, u)

\* redeem() without a code: the audit row only.
RecordGrant(r, u) ==
    /\ redemptions' = redemptions \cup {[id |-> r, coupon |-> NoCoupon, user |-> u]}
    /\ UNCHANGED coupon

Grant(r, u) == Fresh(r) /\ RecordGrant(r, u)

\* POST /admin/coupons: a code that exists is refused by the unique index.
AdminCreate(c) ==
    /\ ~Exists(c)
    /\ \E limit \in Limits, until \in Expiries, once \in BOOLEAN :
          coupon' = [coupon EXCEPT ![c] =
              [disabled |-> FALSE, limit |-> limit, validUntil |-> until,
               onePerUser |-> once, count |-> 0]]
    /\ UNCHANGED redemptions

\* PATCH /admin/coupons/{id}: any of the mutable fields; the limit may drop
\* below the count, since nothing compares the two.
AdminUpdate(c) ==
    /\ Exists(c)
    /\ \E limit \in Limits \cup {coupon[c].limit},
          until \in Expiries \cup {coupon[c].validUntil}, once \in BOOLEAN :
             coupon' = [coupon EXCEPT ![c] =
                 [@ EXCEPT !.limit = limit, !.validUntil = until, !.onePerUser = once]]
    /\ UNCHANGED redemptions

\* POST /admin/coupons/{id}/disable and /enable.
AdminSetDisabled(c) ==
    /\ Exists(c)
    /\ \E off \in BOOLEAN : coupon' = [coupon EXCEPT ![c].disabled = off]
    /\ UNCHANGED redemptions

AdminStep(c) == AdminCreate(c) \/ AdminUpdate(c) \/ AdminSetDisabled(c)

LedgerNext ==
    \/ \E r \in Requests, c \in Coupons, u \in Users : Redeem(r, c, u)
    \/ \E r \in Requests, u \in Users : Grant(r, u)
    \/ \E c \in Coupons : AdminStep(c)

LedgerSpec == LedgerInit /\ [][LedgerNext]_ledgerVars
=============================================================================

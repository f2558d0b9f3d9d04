-------------------------- MODULE MCCouponRedeem ----------------------------
(* Small catalogs for TLC: a cheap and a dear plan, one coupon of each. *)
EXTENDS CouponRedeem, TLC

CONSTANTS r1, r2, r3, starter, pro, cS, cP

MCPrice == [p \in Plans |-> IF p = pro THEN 2 ELSE 1]
MCCouponPlan == [c \in Coupons |-> IF c = cP THEN pro ELSE starter]
MCCouponDays == [c \in Coupons |-> IF c = cP THEN 1 ELSE 2]

Symmetry == Permutations(Requests) \cup Permutations(Users)
=============================================================================

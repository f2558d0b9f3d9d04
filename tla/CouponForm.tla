----------------------------- MODULE CouponForm -----------------------------
(* The form that activates a plan with a coupon code: a page of its own for  *)
(* a user without a plan (pages/RedeemCouponPage.tsx) and a modal of the     *)
(* workspace page (RedeemCouponModal in pages/TenantPage.tsx). The code is   *)
(* previewed 350 ms after the last key; previews are never cancelled, so an  *)
(* answer may be about a code that is no longer the one typed.               *)
EXTENDS Naturals, FiniteSets

CONSTANTS
    Codes,      \* codes of six characters or more
    Short,      \* anything shorter
    Tenants,    \* workspaces the user may activate the plan for
    None,       \* no preview
    MaxNet,     \* bound: requests out at once
    MaxUser     \* bound: what the user does

VARIABLES
    coupons,    \* codes the server refuses, codes this user has redeemed
    form,       \* the form's state
    net,        \* requests out, answered by the server or not
    left        \* what the user may still do (bound)

vars == <<coupons, form, net, left>>

Requests ==
    [op : {"preview", "redeem"}, code : Codes \cup {Short}, tenant : Tenants,
     answer : {"", "failed", "valid", "used"}]

Sent(op) == [op |-> op, code |-> form.code, tenant |-> form.tenant, answer |-> ""]

TypeOK ==
    /\ coupons \in [bad : SUBSET Codes, used : SUBSET Codes]
    /\ form \in [kind : {"page", "modal"}, open : BOOLEAN, code : Codes \cup {Short},
                 tenant : Tenants, timer : BOOLEAN, preview : {"valid", "used", None},
                 previewError : BOOLEAN, redeeming : BOOLEAN, redeemError : BOOLEAN]
    /\ net \subseteq Requests
    /\ left \in 0 .. MaxUser

(* Coupons used before and coupons that are bad; an empty field. *)
Init ==
    /\ coupons \in [bad : SUBSET Codes, used : {{}}]
    /\ \E kind \in {"page", "modal"}, tenant \in Tenants :
          form = [kind |-> kind, open |-> TRUE, code |-> Short, tenant |-> tenant,
                  timer |-> FALSE, preview |-> None, previewError |-> FALSE,
                  redeeming |-> FALSE, redeemError |-> FALSE]
    /\ net = {}
    /\ left = MaxUser

Room == Cardinality(net) < MaxNet

UserActs == left > 0 /\ left' = left - 1

-----------------------------------------------------------------------------
(* The preview effect: a short code forgets the last verdict, any other arms *)
(* the timer in place of the one there was and leaves the verdict shown.     *)
Asked(f) ==
    IF f.code = Short
    THEN [f EXCEPT !.timer = FALSE, !.preview = None, !.previewError = FALSE]
    ELSE [f EXCEPT !.timer = TRUE]

TypeCode ==
    /\ UserActs
    /\ form.open
    /\ \E c \in (Codes \cup {Short}) \ {form.code} :
          form' = Asked([form EXCEPT !.code = c])
    /\ UNCHANGED <<coupons, net>>

(* Only the page lets one choose, and asks again for the workspace chosen. *)
ChooseTenant ==
    /\ UserActs
    /\ form.open /\ form.kind = "page"
    /\ \E t \in Tenants \ {form.tenant} : form' = Asked([form EXCEPT !.tenant = t])
    /\ UNCHANGED <<coupons, net>>

AskPreview ==
    /\ form.timer /\ Room
    /\ form' = [form EXCEPT !.timer = FALSE]
    /\ net' = net \cup {Sent("preview")}
    /\ UNCHANGED <<coupons, left>>

\* Mutant: a preview that fails shows nothing.
Previewed_Silent(r) ==
    /\ r.op = "preview"
    /\ form' = IF r.answer = "failed" THEN [form EXCEPT !.preview = None]
               ELSE [form EXCEPT !.preview = r.answer, !.previewError = FALSE]
    /\ net' = net \ {r}
    /\ UNCHANGED <<coupons, left>>

Previewed(r) ==
    /\ r.op = "preview"
    /\ form' = IF r.answer = "failed"
               THEN [form EXCEPT !.preview = None, !.previewError = TRUE]
               ELSE [form EXCEPT !.preview = r.answer, !.previewError = FALSE]
    /\ net' = net \ {r}
    /\ UNCHANGED <<coupons, left>>

\* Mutant: the button stays enabled while a redemption is out.
CanRedeem_Again == form.preview = "valid"

CanRedeem ==
    /\ form.preview = "valid" /\ ~form.redeeming
    /\ form.kind = "page" => form.code # Short

Redeem ==
    /\ UserActs /\ Room
    /\ form.open /\ CanRedeem
    /\ form' = [form EXCEPT !.redeeming = TRUE, !.redeemError = FALSE]
    /\ net' = net \cup {Sent("redeem")}
    /\ UNCHANGED coupons

(* A redemption closes the modal; the page stays until its parent has loaded *)
(* the user again, with the button enabled.                                  *)
Redeemed(r) ==
    /\ r.op = "redeem"
    /\ LET ok == r.answer # "failed"
       IN  form' = [form EXCEPT !.redeeming = FALSE,
                                !.redeemError = @ \/ ~ok,
                                !.open = @ /\ ~(ok /\ form.kind = "modal"),
                                !.timer = @ /\ ~(ok /\ form.kind = "modal")]
    /\ net' = net \ {r}
    /\ UNCHANGED <<coupons, left>>

(* The modal is dismissed, the page is left; the effect's cleanup clears the *)
(* timer.                                                                    *)
Close ==
    /\ UserActs
    /\ form.open
    /\ form' = [form EXCEPT !.open = FALSE, !.timer = FALSE]
    /\ UNCHANGED <<coupons, net>>

-----------------------------------------------------------------------------
(* The server: a code is refused, or was redeemed by this user before. *)
Handle(r) ==
    /\ r.answer = "" /\ r.code \in Codes \ coupons.bad
    /\ r.op = "redeem" => r.code \notin coupons.used
    /\ coupons' = IF r.op = "redeem"
                  THEN [coupons EXCEPT !.used = @ \cup {r.code}] ELSE coupons
    /\ LET told == IF r.op = "preview" /\ r.code \in coupons.used THEN "used" ELSE "valid"
       IN  net' = (net \ {r}) \cup {[r EXCEPT !.answer = told]}
    /\ UNCHANGED <<form, left>>

(* Refused (_couponCall throws), or lost there or on the way back. *)
Fail(r) ==
    /\ r.answer # "failed"
    /\ net' = (net \ {r}) \cup {[r EXCEPT !.answer = "failed"]}
    /\ UNCHANGED <<coupons, form, left>>

Serve == \E r \in net : Handle(r) \/ Fail(r)

Arrive == \E r \in net : r.answer # "" /\ (Previewed(r) \/ Redeemed(r))

Quiet == net = {} /\ ~form.timer /\ UNCHANGED vars

Next ==
    \/ TypeCode \/ ChooseTenant \/ AskPreview \/ Redeem \/ Close
    \/ Serve \/ Arrive \/ Quiet

Spec == Init /\ [][Next]_vars

(* The timer fires, requests are handled and answered; the user owes nothing. *)
FairSpec == Spec /\ WF_vars(AskPreview) /\ WF_vars(Serve) /\ WF_vars(Arrive)

-----------------------------------------------------------------------------
(* However previews and redemptions overlap, a form has at most one          *)
(* redemption out, and "Activating" has it out.                              *)
OneRedeemOut ==
    LET out == {r \in net : r.op = "redeem"}
    IN  Cardinality(out) <= 1 /\ (form.redeeming <=> out # {})

(* A code in an open form has its verdict, right or of a code typed before,  *)
(* or something that will bring one: what VerdictComes rests on.             *)
VerdictDue ==
    form.open /\ form.code # Short =>
        \/ form.preview \in {"valid", "used"} \/ form.previewError
        \/ form.timer \/ \E r \in net : r.op = "preview"

(* A code that stays typed is judged: some verdict shows in the end.         *)
VerdictComes ==
    form.open /\ form.code # Short ~>
        form.preview # None \/ form.previewError \/ form.code = Short \/ ~form.open
=============================================================================

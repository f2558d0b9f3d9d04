-------------------------- MODULE MCWorkspacePage --------------------------
(* The workspace page, the parts of it that fetch for themselves, and the    *)
(* coupon form that is one of its modals and a page of its own: a behaviour  *)
(* works on one of the three.                                                *)
EXTENDS TenantPage

CONSTANTS
    t1, t2, a1, p1, p2, Codes, Short, FormNet,
    Ranges, Jobs, Rows, PanelNet, PanelUser

ASSUME PanelsAssumption == Ranges # {} /\ PanelUser \in Nat

VARIABLES
    focus,
    coupons, form, fNet, fLeft,
    view, usage, tasks, cards, picker, pNet, pLeft

Coupon == INSTANCE CouponForm WITH MaxNet <- FormNet, net <- fNet, left <- fLeft
Panels == INSTANCE TabPanels WITH MaxNet <- PanelNet, MaxUser <- PanelUser,
                                net <- pNet, left <- pLeft

fVars == <<coupons, form, fNet, fLeft>>
pVars == <<view, usage, tasks, cards, picker, pNet, pLeft>>

MCInit ==
    /\ focus \in {"page", "form", "panels"}
    /\ Init /\ Coupon!Init /\ Panels!Init
    /\ focus # "form" => coupons.bad = {} /\ form.kind = "modal" /\ form.tenant = t1
    /\ focus # "page" => page.tenant = t1 /\ Cardinality(net) = 1
                         /\ \A t \in Tenants : server[t].plan
    /\ focus # "panels" => view = "usage" /\ picker.gender = "female"

mcVars == <<focus, vars, fVars, pVars>>

OnPage(step)   == focus = "page" /\ step /\ UNCHANGED <<focus, fVars, pVars>>
OnForm(step)   == focus = "form" /\ step /\ UNCHANGED <<focus, vars, pVars>>
OnPanels(step) == focus = "panels" /\ step /\ UNCHANGED <<focus, vars, fVars>>

MCNext == OnPage(Next) \/ OnForm(Coupon!Next) \/ OnPanels(Panels!Next)

(* The fairness of FairSpec, of the part that is worked on. *)
MCSpec ==
    /\ MCInit /\ [][MCNext]_mcVars
    /\ WF_mcVars(OnPage(AskAvailable) \/ OnForm(Coupon!AskPreview))
    /\ WF_mcVars(OnPage(Serve) \/ OnForm(Coupon!Serve) \/ OnPanels(Panels!Serve))
    /\ WF_mcVars(OnPage(Arrive) \/ OnForm(Coupon!Arrive) \/ OnPanels(Panels!Arrive))

(* The states of the page, the form and the panels keep their shape.         *)
PagesTypeOK == TypeOK /\ Coupon!TypeOK /\ Panels!TypeOK

(* The page's loading screen gives way: LoadingEnds of TenantPage.           *)
PageLoads == focus = "page" => LoadingEnds

(* A coupon form has at most one redemption out: OneRedeemOut of CouponForm. *)
OneRedeemOut == Coupon!OneRedeemOut

(* A code that stays typed is judged: VerdictComes of CouponForm.            *)
VerdictComes == Coupon!VerdictComes

(* Usage and voices are of what was chosen last, and each part is busy only  *)
(* with a request out: PanelsAgree of TabPanels.                             *)
PanelsAgree == Panels!PanelsAgree

(* Every part's loading state gives way: LoadingEnds of TabPanels.           *)
PanelsLoad == focus = "panels" => Panels!LoadingEnds
=============================================================================

------------------------------ MODULE MCShell ------------------------------
(* The application's shell and the superadmin's panel: a behaviour works on  *)
(* one of the two. The shell starts at a few of the states it may start in:  *)
(* a new user, or one at the last step whom the hint does not fit.           *)
EXTENDS App

CONSTANTS t1, t2, Agents, Legacy, AdminNet, AdminUser

ASSUME PanelAssumption == AdminUser \in Nat

VARIABLES focus, server, admin, tab, net, aLeft

Admin == INSTANCE AdminPage WITH
    MaxNet <- AdminNet, MaxUser <- AdminUser, left <- aLeft

aVars == <<server, admin, tab, net, aLeft>>

MCInit ==
    /\ focus \in {"shell", "admin"}
    /\ Init /\ Admin!Init
    /\ <<account.status, account.tenants, hint>> \in
            {<<"pending", {}, None>>, <<"complete", {t1}, t2>>}
    /\ app.route \in {"root", "invite", t1}
    /\ focus = "shell" => admin.tab = "agents"
    /\ focus = "admin" => account.tenants = {} /\ auth = "none"
                          /\ app.route = "root"

mcVars == <<focus, vars, aVars>>

InShell(step) == focus = "shell" /\ step /\ UNCHANGED <<focus, aVars>>
InPanel(step) == focus = "admin" /\ step /\ UNCHANGED <<focus, vars>>

MCNext == InShell(Next) \/ InPanel(Admin!Next)

(* The fairness of FairSpec, of the part that is worked on. *)
MCSpec ==
    /\ MCInit /\ [][MCNext]_mcVars
    /\ WF_mcVars(InShell(Boot))
    /\ WF_mcVars(InShell(Serve) \/ InPanel(Admin!Serve))
    /\ WF_mcVars(InShell(\E c \in calls : Arrive(c)) \/ InPanel(Admin!Arrive))
    /\ WF_mcVars(InShell(\E c \in calls : c.tried /\ (Handle(c) \/ Refuse(c))))
    /\ WF_mcVars(InShell(\E c \in calls : c.tried /\ Arrive(c)))

(* The states of the shell and of the panel keep their shape.                *)
ShellTypeOK == TypeOK /\ Admin!TypeOK

(* The shell's "Loading" ends: BootEnds of App.                              *)
ShellBoots == focus = "shell" => BootEnds

(* What is "in progress" in the panel has its cause: ProgressHasCause of     *)
(* AdminPage.                                                                *)
ProgressHasCause == Admin!ProgressHasCause

(* A panel that neither loads nor shows an error has an overview:            *)
(* PanelNeverBlank of AdminPage.                                             *)
PanelNeverBlank == Admin!PanelNeverBlank

(* The panel's loading screens give way: PanelLoads of AdminPage.            *)
PanelLoads == focus = "admin" => Admin!PanelLoads
=============================================================================

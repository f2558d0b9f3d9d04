------------------------------- MODULE Poller -------------------------------
(* What a polling dialog of the single-page application promises: while it   *)
(* waits there is one loop, asleep on its timer or with one question asked;  *)
(* a verdict comes only from the loop that is running, or from its deadline; *)
(* a loop that was dropped never speaks again; and a loop does end.          *)
VARIABLES
    phase,      \* "off", "timer" (asleep) or "asked" (a request is out)
    verdict     \* what the dialog shows of the last loop

vars == <<phase, verdict>>

Init == phase = "off" /\ verdict = "none"

(* A link to wait for has arrived, or the view that waits is shown again. *)
Begin ==
    /\ verdict = "none"
    /\ phase' = "timer"
    /\ UNCHANGED verdict

Ask ==
    /\ phase = "timer"
    /\ phase' = "asked"
    /\ UNCHANGED verdict

(* The answer is "still pending", or the request failed: sleep again. *)
Again ==
    /\ phase = "asked"
    /\ phase' = "timer"
    /\ UNCHANGED verdict

Decide ==
    /\ \/ phase = "asked" /\ verdict' \in {"connected", "error"}
       \/ phase = "timer" /\ verdict' = "expired"
    /\ phase' = "off"

(* The link could not be issued. *)
NoLink ==
    /\ phase' = "off"
    /\ verdict' = "error"

(* The view that waits is left, or reset. *)
Drop ==
    /\ phase' = "off"
    /\ verdict' \in {verdict, "none"}

Next == Begin \/ Ask \/ Again \/ Decide \/ NoLink \/ Drop

Spec == Init /\ [][Next]_vars

Ends == (phase # "off") ~> (phase = "off")

FairSpec == Spec /\ Ends
=============================================================================

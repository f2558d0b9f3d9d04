-------------------------- MODULE IntegrationsPanel --------------------------
(* The Google card of one agent (components/IntegrationsPanel.tsx): Connect  *)
(* opens the consent page in a new tab and polls the status until the        *)
(* connection shows, the user cancels or two minutes pass. The poll has no   *)
(* flag of its own: one ref holds the timer last armed, and stopping clears  *)
(* that timer, so a question that is out when the poll stops arms another.   *)
EXTENDS Naturals, FiniteSets

CONSTANTS
    Loops,      \* poll loops, one for each consent started (bound)
    NoLoop,
    MaxUser     \* bound: what the user does

VARIABLES
    account,    \* the server's truth: a Google account is connected
    consents,   \* consent pages open in other tabs
    card,       \* the component's state
    poll,       \* poll[l]: "unused", "timer", "asked" or "over"
    ref,        \* pollTimeoutRef.current: the loop whose timer it holds
    late,       \* the shared deadline has passed
    net,        \* requests of the handlers, with the server's answer
    left        \* what the user may still do (bound)

vars == <<account, consents, card, poll, ref, late, net, left>>

Phases  == {"unused", "timer", "asked", "over"}
Answers == {"", "failed", "yes", "no"}
Ops     == {"get", "connect", "disconnect", "reread"}

TypeOK ==
    /\ account \in BOOLEAN
    /\ consents \in 0 .. Cardinality(Loops)
    /\ card \in [mounted : BOOLEAN, known : BOOLEAN, connected : BOOLEAN,
                 error : BOOLEAN, busy : BOOLEAN, waiting : BOOLEAN, wants : BOOLEAN]
    /\ poll \in [Loops -> [phase : Phases, answer : Answers]]
    /\ ref \in Loops \cup {NoLoop}
    /\ late \in BOOLEAN
    /\ net \subseteq [op : Ops, answer : Answers]
    /\ left \in 0 .. MaxUser

Idle == [phase |-> "unused", answer |-> ""]

(* "wants": a permission is checked; both are at first. *)
Init ==
    /\ account \in BOOLEAN
    /\ consents = 0
    /\ card = [mounted |-> TRUE, known |-> FALSE, connected |-> FALSE, error |-> FALSE,
               busy |-> FALSE, waiting |-> FALSE, wants |-> TRUE]
    /\ poll = [l \in Loops |-> Idle]
    /\ ref = NoLoop
    /\ late = FALSE
    /\ net = {[op |-> "get", answer |-> ""]}
    /\ left = MaxUser

UserActs == left > 0 /\ left' = left - 1

-----------------------------------------------------------------------------
(* The poll. *)

Armed(l) == [phase |-> "timer", answer |-> ""]
Over     == [phase |-> "over", answer |-> ""]

(* clearTimeout of the ref: only a timer that has not fired yet dies of it. *)
ClearTimer(loops) ==
    [l \in Loops |-> IF l = ref /\ loops[l].phase = "timer" THEN Over ELSE loops[l]]

\* Mutant: the timer is cleared and the card goes on waiting.
StopPolling_Waiting(loops, shown) ==
    poll' = ClearTimer(loops) /\ ref' = NoLoop /\ card' = shown

(* stopPolling, over "loops" and with the rest of the handler's new card. *)
StopPolling(loops, shown) ==
    /\ poll' = ClearTimer(loops)
    /\ ref' = NoLoop
    /\ card' = [shown EXCEPT !.waiting = FALSE]

\* Mutant: the deadline is not looked at.
Tick_NoDeadline(l) ==
    /\ poll[l].phase = "timer"
    /\ poll' = [poll EXCEPT ![l].phase = "asked"]
    /\ UNCHANGED <<account, consents, card, ref, late, net, left>>

(* The timer fires: past the deadline the wait is given up with an error. *)
Tick(l) ==
    /\ poll[l].phase = "timer"
    /\ IF late
       THEN StopPolling([poll EXCEPT ![l] = Over], [card EXCEPT !.error = TRUE])
       ELSE poll' = [poll EXCEPT ![l].phase = "asked"] /\ UNCHANGED <<card, ref>>
    /\ UNCHANGED <<account, consents, late, net, left>>

(* The answer is applied whoever stopped the poll meanwhile. *)
TickAnswered(l) ==
    /\ poll[l].phase = "asked" /\ poll[l].answer # ""
    /\ LET told  == poll[l].answer # "failed"
           shown == IF told THEN [card EXCEPT !.known = TRUE,
                                              !.connected = poll[l].answer = "yes"]
                    ELSE card
       IN  IF poll[l].answer = "yes"
           THEN StopPolling([poll EXCEPT ![l] = Over], shown)
           ELSE /\ poll' = [poll EXCEPT ![l] = Armed(l)]
                /\ ref' = l
                /\ card' = shown
    /\ UNCHANGED <<account, consents, late, net, left>>

Live(l) == poll[l].phase \in {"timer", "asked"}

Deadline ==
    /\ \E l \in Loops : Live(l)
    /\ ~late
    /\ late' = TRUE
    /\ UNCHANGED <<account, consents, card, poll, ref, net, left>>

-----------------------------------------------------------------------------
(* The card. *)

(* The card, and with it Connect or Disconnect, is drawn only without an error. *)
Offered == card.mounted /\ card.known /\ ~card.error /\ ~card.busy /\ ~card.waiting

ChoosePermissions ==
    /\ UserActs
    /\ card.mounted /\ card.known /\ ~card.error /\ ~card.connected
    /\ card' = [card EXCEPT !.wants = ~@]
    /\ UNCHANGED <<account, consents, poll, ref, late, net>>

Connect ==
    /\ UserActs
    /\ Offered /\ ~card.connected /\ card.wants
    /\ card' = [card EXCEPT !.busy = TRUE, !.error = FALSE]
    /\ net' = net \cup {[op |-> "connect", answer |-> ""]}
    /\ UNCHANGED <<account, consents, poll, ref, late>>

(* The consent page opens and the poll starts; a blocked popup leaves the    *)
(* page instead; a failure shows in place of the card.                       *)
ConnectAnswered(r) ==
    /\ r.op = "connect"
    /\ \/ /\ r.answer = "failed"
          /\ card' = [card EXCEPT !.busy = FALSE, !.error = TRUE]
          /\ UNCHANGED <<consents, poll, ref, late>>
       \/ /\ r.answer # "failed"
          /\ \E l \in Loops :
                /\ poll[l].phase = "unused"
                /\ poll' = [poll EXCEPT ![l] = Armed(l)]
                /\ ref' = l
          /\ consents' = consents + 1
          /\ late' = FALSE
          /\ card' = [card EXCEPT !.busy = FALSE, !.waiting = @ \/ card.mounted]
       \/ /\ r.answer # "failed"
          /\ card.mounted
          /\ card' = [card EXCEPT !.busy = FALSE, !.mounted = FALSE]
          /\ poll' = [l \in Loops |-> Over]
          /\ ref' = NoLoop
          /\ UNCHANGED <<consents, late>>
    /\ net' = net \ {r}
    /\ UNCHANGED <<account, left>>

Cancel ==
    /\ UserActs
    /\ card.mounted /\ card.waiting
    /\ StopPolling(poll, card)
    /\ UNCHANGED <<account, consents, late, net>>

Disconnect ==
    /\ UserActs
    /\ Offered /\ card.connected
    /\ card' = [card EXCEPT !.busy = TRUE, !.error = FALSE]
    /\ net' = net \cup {[op |-> "disconnect", answer |-> ""]}
    /\ UNCHANGED <<account, consents, poll, ref, late>>

(* The disconnection's answer is followed by a refresh, still busy. *)
DisconnectAnswered(r) ==
    /\ r.op = "disconnect"
    /\ IF r.answer = "failed"
       THEN card' = [card EXCEPT !.busy = FALSE, !.error = TRUE] /\ net' = net \ {r}
       ELSE card' = [card EXCEPT !.error = FALSE]
            /\ net' = (net \ {r}) \cup {[op |-> "reread", answer |-> ""]}
    /\ UNCHANGED <<account, consents, poll, ref, late, left>>

(* refresh, at mount ("get") or after a disconnection ("reread"). *)
RefreshAnswered(r) ==
    /\ r.op \in {"get", "reread"}
    /\ LET shown == IF r.answer = "failed" THEN [card EXCEPT !.error = TRUE]
                    ELSE [card EXCEPT !.known = TRUE, !.connected = r.answer = "yes"]
       IN  card' = [shown EXCEPT !.busy = @ /\ r.op = "get"]
    /\ net' = net \ {r}
    /\ UNCHANGED <<account, consents, poll, ref, late, left>>

(* Another tab of the workspace page, or the chat, is opened. *)
Unmount ==
    /\ UserActs
    /\ card.mounted
    /\ card' = [card EXCEPT !.mounted = FALSE, !.waiting = FALSE]
    /\ poll' = ClearTimer(poll)
    /\ ref' = NoLoop
    /\ UNCHANGED <<account, consents, late, net>>

-----------------------------------------------------------------------------
(* The server, and Google's consent page. *)

Truth(connected) == IF connected THEN "yes" ELSE "no"

Serve ==
    \/ \E r \in net :
          /\ r.answer = ""
          /\ account' = (account /\ r.op # "disconnect")
          /\ net' = (net \ {r}) \cup {[r EXCEPT !.answer = Truth(account')]}
          /\ UNCHANGED <<consents, card, poll, ref, late, left>>
    \/ \E l \in Loops :
          /\ poll[l].phase = "asked" /\ poll[l].answer = ""
          /\ poll' = [poll EXCEPT ![l].answer = Truth(account)]
          /\ UNCHANGED <<account, consents, card, ref, late, net, left>>

Lose ==
    \/ \E r \in net :
          /\ r.answer # "failed"
          /\ net' = (net \ {r}) \cup {[r EXCEPT !.answer = "failed"]}
          /\ UNCHANGED poll
    \/ \E l \in Loops :
          /\ poll[l].phase = "asked" /\ poll[l].answer # "failed"
          /\ poll' = [poll EXCEPT ![l].answer = "failed"]
          /\ UNCHANGED net
    /\ UNCHANGED <<account, consents, card, ref, late, left>>

Consent ==
    /\ consents > 0
    /\ consents' = consents - 1
    /\ account' \in {account, TRUE}
    /\ UNCHANGED <<card, poll, ref, late, net, left>>

Arrive ==
    \E r \in net :
        /\ r.answer # ""
        /\ ConnectAnswered(r) \/ DisconnectAnswered(r) \/ RefreshAnswered(r)

Polling == \E l \in Loops : Tick(l) \/ TickAnswered(l)

Quiet ==
    /\ net = {} /\ \A l \in Loops : poll[l].phase \in {"unused", "over"}
    /\ UNCHANGED vars

Next ==
    \/ ChoosePermissions \/ Connect \/ Cancel \/ Disconnect \/ Unmount
    \/ Arrive \/ Polling \/ Deadline \/ Serve \/ Lose \/ Consent \/ Quiet

Spec == Init /\ [][Next]_vars

(* Timers fire, the deadline passes, requests are handled and answered. *)
FairSpec ==
    /\ Spec
    /\ WF_vars(Serve) /\ WF_vars(Arrive) /\ WF_vars(Deadline)
    /\ \A l \in Loops : WF_vars(Tick(l)) /\ WF_vars(TickAnswered(l))

-----------------------------------------------------------------------------
(* "Waiting" and "busy" have their cause: a loop that can still end the      *)
(* wait, a request that will give the buttons back.                          *)
WaitingIsPolled ==
    card.mounted =>
        /\ card.waiting => \E l \in Loops : Live(l)
        /\ card.busy => \E r \in net : r.op \in {"connect", "disconnect", "reread"}

(* Every wait for consent ends: connected, cancelled, or past the deadline.  *)
WaitEnds == card.waiting ~> ~card.waiting

(* Does not hold (README): "Poll state - cleared on unmount or when the      *)
(* poller resolves": once the wait is over no timer of it is armed.          *)
PollCleared ==
    ~card.waiting \/ ~card.mounted => \A l \in Loops : poll[l].phase # "timer"

(* Does not hold (README): "Timed out - give up and let the user click       *)
(* Connect again": an idle card always offers Connect or Disconnect.         *)
ConnectAgain ==
    card.mounted /\ card.known /\ ~card.busy /\ ~card.waiting => Offered
=============================================================================

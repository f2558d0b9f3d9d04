---------------------------- MODULE BridgesPanel ----------------------------
(* The bridges card of one agent (components/BridgesPanel.tsx): the rows the *)
(* last answer showed, the WhatsApp dialog with its debounced availability   *)
(* check, and the Telegram dialog with its one-tap link and polling loop.    *)
(* React runs a handler to its end, renders, and runs the effects whose      *)
(* dependencies changed before anything else: a handler, the render and its  *)
(* effects are one action. A request and its answer are two more: the server *)
(* handles requests in any order and answers arrive in any order.            *)
EXTENDS Naturals, FiniteSets

CONSTANTS
    Phones,     \* valid numbers a user may type
    Taken,      \* those bound to agents of other cards
    NoPhone,    \* no number: an empty or invalid field, an unbound row
    MaxNet,     \* bound: requests out at once
    MaxUser     \* bound: what the user does

VARIABLES
    server,     \* the agent's bridges, and how its last Telegram attempt stands
    data,       \* the rows shown: what the last applied answer said
    wa,         \* the WhatsApp dialog
    tg,         \* the Telegram dialog
    loop,       \* the running poll: "off", "timer" or "asked"
    late,       \* the link shown has outlived its expires_in_seconds
    net,        \* requests out, handled by the server or not
    left        \* what the user may still do (bound)

vars == <<server, data, wa, tg, loop, late, net, left>>

Numbers == Phones \cup {NoPhone}
Rows    == [known : BOOLEAN, phone : Numbers, bot : BOOLEAN]
Blank   == [known |-> FALSE, phone |-> NoPhone, bot |-> FALSE]

Ops     == {"get", "check", "whatsapp", "start", "status", "telegram"}
Answers == {"", "failed", "ok", "yes", "no", "pending", "connected", "error"}
Requests ==
    [op : Ops, phone : Numbers, on : BOOLEAN, answer : Answers, rows : Rows]

(* A request just sent: "phone" for a number asked about or bound, "on" for  *)
(* a Telegram connect rather than disconnect, or a status poll whose loop is *)
(* still the running one.                                                    *)
Sent(op, phone, on) ==
    [op |-> op, phone |-> phone, on |-> on, answer |-> "", rows |-> Blank]

InFlight(op) == {r \in net : r.op = op}

TypeOK ==
    /\ server \in [phone : Numbers, bot : BOOLEAN, link : {"none", "pending", "error"}]
    /\ data \in Rows
    /\ wa \in [modal : BOOLEAN, input : Numbers, available : {"unknown", "yes", "no"},
               timer : BOOLEAN, checking : BOOLEAN, busy : BOOLEAN]
    /\ tg \in [modal : BOOLEAN, tab : {"quick", "paste"}, token : BOOLEAN,
               busy : BOOLEAN, managed : BOOLEAN,
               status : {"idle", "waiting", "connected", "error", "expired"}]
    /\ loop \in {"off", "timer", "asked"}
    /\ late \in BOOLEAN
    /\ net \subseteq Requests
    /\ left \in 0 .. MaxUser

Init ==
    /\ server \in [phone : {NoPhone} \cup (Phones \ Taken), bot : {FALSE}, link : {"none"}]
    /\ data = Blank
    /\ wa = [modal |-> FALSE, input |-> NoPhone, available |-> "unknown",
             timer |-> FALSE, checking |-> FALSE, busy |-> FALSE]
    /\ tg = [modal |-> FALSE, tab |-> "quick", token |-> FALSE, busy |-> FALSE,
             managed |-> FALSE, status |-> "idle"]
    /\ loop = "off"
    /\ late = FALSE
    /\ net = {Sent("get", NoPhone, FALSE)}
    /\ left = MaxUser

-----------------------------------------------------------------------------
(* Rendering: the effects that run after a handler. *)

\* Mutant: the cleanup clears the timer but leaves the spinner.
Checked_Spinning(form, bound) ==
    IF form.input = wa.input /\ bound = data.phone THEN form
    ELSE IF form.input = NoPhone THEN [form EXCEPT !.timer = FALSE, !.available = "unknown"]
    ELSE IF form.input = bound   THEN [form EXCEPT !.timer = FALSE, !.available = "yes"]
    ELSE [form EXCEPT !.timer = TRUE, !.checking = TRUE]

(* The availability effect, for the number typed and the number bound: its   *)
(* cleanup clears the debounce timer and the spinner; an empty field and the *)
(* agent's own number need no question.                                      *)
Checked(form, bound) ==
    LET same  == form.input = wa.input /\ bound = data.phone
        idle  == [form EXCEPT !.timer = FALSE, !.checking = FALSE]
    IN  IF same THEN form
        ELSE IF form.input = NoPhone THEN [idle EXCEPT !.available = "unknown"]
        ELSE IF form.input = bound   THEN [idle EXCEPT !.available = "yes"]
        ELSE [form EXCEPT !.timer = TRUE, !.checking = TRUE]

(* The effect that starts a one-tap link as soon as its tab is shown. *)
AutoStarts(view) ==
    /\ <<view.modal, view.tab>> # <<tg.modal, tg.tab>>
    /\ view.modal /\ view.tab = "quick"
    /\ ~view.managed /\ view.status = "idle"

Polls(view) ==
    view.modal /\ view.tab = "quick" /\ view.managed /\ view.status = "waiting"

PollDeps(view) == <<view.modal, view.tab, view.managed, view.status>>

\* Mutant: the cleanup forgets to set "cancelled".
Cancelled_Not(requests) == requests

(* The cleanup of the polling effect: its loop is cancelled, and an answer   *)
(* still out will find that it was.                                          *)
Cancelled(requests) ==
    {IF r.op = "status" THEN [r EXCEPT !.on = FALSE] ELSE r : r \in requests}

(* The Telegram dialog after a handler that leaves "view" and "requests";    *)
(* "relinked" when the handler stored a new link, which restarts the loop.   *)
RenderTelegram(view, requests, relinked) ==
    LET auto  == AutoStarts(view)
        shown == IF auto THEN [view EXCEPT !.status = "waiting"] ELSE view
        same  == PollDeps(shown) = PollDeps(tg) /\ ~relinked
        start == IF auto THEN {Sent("start", NoPhone, FALSE)} ELSE {}
    IN  /\ tg' = shown
        /\ IF same
           THEN net' = requests \cup start /\ UNCHANGED loop
           ELSE /\ net' = Cancelled(requests) \cup start
                /\ loop' = IF Polls(shown) THEN "timer" ELSE "off"

NoDialog == ~wa.modal /\ ~tg.modal

Room == Cardinality(net) < MaxNet

UserActs == left > 0 /\ left' = left - 1

-----------------------------------------------------------------------------
(* The WhatsApp row and dialog. *)

OpenWhatsapp ==
    /\ UserActs
    /\ data.known /\ NoDialog
    /\ LET opened == [wa EXCEPT !.input = data.phone, !.available = "unknown", !.modal = TRUE]
       IN  wa' = Checked(opened, data.phone)
    /\ UNCHANGED <<server, data, tg, loop, late, net>>

TypePhone ==
    /\ UserActs
    /\ wa.modal
    /\ \E p \in Numbers \ {wa.input} : wa' = Checked([wa EXCEPT !.input = p], data.phone)
    /\ UNCHANGED <<server, data, tg, loop, late, net>>

CloseWhatsapp ==
    /\ UserActs
    /\ wa.modal
    /\ wa' = [wa EXCEPT !.modal = FALSE]
    /\ UNCHANGED <<server, data, tg, loop, late, net>>

(* The debounce of 400 ms is over: the number is asked about. *)
AskAvailable ==
    /\ wa.timer /\ Room
    /\ wa' = [wa EXCEPT !.timer = FALSE]
    /\ net' = net \cup {Sent("check", wa.input, FALSE)}
    /\ UNCHANGED <<server, data, tg, loop, late, left>>

\* Mutant: a failed check is stored like an answer.
TellAvailable_Raw(r) ==
    /\ r.op = "check"
    /\ wa' = [wa EXCEPT !.available = r.answer, !.checking = FALSE]
    /\ net' = net \ {r}
    /\ UNCHANGED <<server, data, tg, loop, late, left>>

(* The answer is applied whatever number is typed by now. *)
TellAvailable(r) ==
    /\ r.op = "check"
    /\ wa' = [wa EXCEPT !.available = IF r.answer = "failed" THEN "unknown" ELSE r.answer,
                        !.checking = FALSE]
    /\ net' = net \ {r}
    /\ UNCHANGED <<server, data, tg, loop, late, left>>

SaveEnabled ==
    wa.modal /\ wa.input # NoPhone /\ ~wa.busy /\ wa.available # "no" /\ ~wa.checking

SaveWhatsapp ==
    /\ UserActs
    /\ SaveEnabled /\ Room
    /\ wa' = [wa EXCEPT !.busy = TRUE]
    /\ net' = net \cup {Sent("whatsapp", wa.input, TRUE)}
    /\ UNCHANGED <<server, data, tg, loop, late>>

DisconnectWhatsapp ==
    /\ UserActs
    /\ NoDialog /\ data.phone # NoPhone /\ ~wa.busy /\ Room
    /\ wa' = [wa EXCEPT !.busy = TRUE]
    /\ net' = net \cup {Sent("whatsapp", NoPhone, FALSE)}
    /\ UNCHANGED <<server, data, tg, loop, late>>

(* A binding's answer carries the new rows; a save's also closes the dialog. *)
WhatsappAnswered(r) ==
    /\ r.op = "whatsapp"
    /\ LET ok == r.answer = "ok"
       IN  /\ data' = IF ok THEN r.rows ELSE data
           /\ wa' = Checked([wa EXCEPT !.busy = FALSE, !.modal = @ /\ ~(ok /\ r.on)],
                            data'.phone)
    /\ net' = net \ {r}
    /\ UNCHANGED <<server, tg, loop, late, left>>

-----------------------------------------------------------------------------
(* The Telegram row and dialog. *)

OpenTelegram ==
    /\ UserActs
    /\ data.known /\ NoDialog /\ Room
    /\ RenderTelegram([modal |-> TRUE, tab |-> "quick", token |-> FALSE, busy |-> tg.busy,
                       managed |-> FALSE, status |-> "idle"], net, FALSE)
    /\ late' = FALSE
    /\ UNCHANGED <<server, data, wa>>

ShowTab ==
    /\ UserActs
    /\ tg.modal /\ Room
    /\ \E tab \in {"quick", "paste"} \ {tg.tab} :
           RenderTelegram([tg EXCEPT !.tab = tab], net, FALSE)
    /\ UNCHANGED <<server, data, wa, late>>

CloseTelegram ==
    /\ UserActs
    /\ tg.modal
    /\ RenderTelegram([tg EXCEPT !.modal = FALSE], net, FALSE)
    /\ UNCHANGED <<server, data, wa, late>>

TryAgain ==
    /\ UserActs
    /\ tg.modal /\ tg.tab = "quick" /\ tg.status \in {"error", "expired"}
    /\ RenderTelegram([tg EXCEPT !.managed = FALSE, !.status = "idle"], net, FALSE)
    /\ UNCHANGED <<server, data, wa, late>>

(* The link of startQuickConnect, or its error, is stored whatever the dialog shows. *)
LinkAnswered(r) ==
    /\ r.op = "start"
    /\ IF r.answer = "failed"
       THEN RenderTelegram([tg EXCEPT !.status = "error"], net \ {r}, FALSE) /\ UNCHANGED late
       ELSE RenderTelegram([tg EXCEPT !.managed = TRUE], net \ {r}, TRUE) /\ late' = FALSE
    /\ UNCHANGED <<server, data, wa, left>>

(* The loop wakes up: past the deadline it gives up, else it asks. *)
Tick ==
    /\ loop = "timer"
    /\ IF late
       THEN RenderTelegram([tg EXCEPT !.status = "expired"], net, FALSE)
       ELSE /\ Room
            /\ loop' = "asked"
            /\ net' = net \cup {Sent("status", NoPhone, TRUE)}
            /\ UNCHANGED tg
    /\ UNCHANGED <<server, data, wa, late, left>>

LinkExpires ==
    /\ loop # "off" /\ ~late
    /\ late' = TRUE
    /\ UNCHANGED <<server, data, wa, tg, loop, net, left>>

\* Mutant: a request that fails does not arm the timer again.
StatusAnswered_Dropped(r) ==
    /\ r.op = "status"
    /\ IF ~r.on
       THEN net' = net \ {r} /\ UNCHANGED <<tg, loop>>
       ELSE IF r.answer \in {"connected", "error"}
       THEN RenderTelegram([tg EXCEPT !.status = r.answer], net \ {r}, FALSE)
       ELSE /\ net' = net \ {r}
            /\ loop' = IF r.answer = "failed" THEN "off" ELSE "timer"
            /\ UNCHANGED tg
    /\ UNCHANGED <<server, data, wa, late, left>>

(* A cancelled loop returns; "connected" also refreshes the rows. *)
StatusAnswered(r) ==
    /\ r.op = "status"
    /\ IF ~r.on
       THEN net' = net \ {r} /\ UNCHANGED <<tg, loop>>
       ELSE IF r.answer \in {"connected", "error"}
       THEN RenderTelegram([tg EXCEPT !.status = r.answer],
                (net \ {r}) \cup
                    (IF r.answer = "connected" THEN {Sent("get", NoPhone, FALSE)} ELSE {}),
                FALSE)
       ELSE net' = net \ {r} /\ loop' = "timer" /\ UNCHANGED tg
    /\ UNCHANGED <<server, data, wa, late, left>>

PasteToken ==
    /\ UserActs
    /\ tg.modal /\ tg.tab = "paste" /\ ~tg.token
    /\ tg' = [tg EXCEPT !.token = TRUE]
    /\ UNCHANGED <<server, data, wa, loop, late, net>>

SaveTelegram ==
    /\ UserActs
    /\ tg.modal /\ tg.tab = "paste" /\ tg.token /\ ~tg.busy /\ Room
    /\ tg' = [tg EXCEPT !.busy = TRUE]
    /\ net' = net \cup {Sent("telegram", NoPhone, TRUE)}
    /\ UNCHANGED <<server, data, wa, loop, late>>

DisconnectTelegram ==
    /\ UserActs
    /\ NoDialog /\ data.bot /\ ~tg.busy /\ Room
    /\ tg' = [tg EXCEPT !.busy = TRUE]
    /\ net' = net \cup {Sent("telegram", NoPhone, FALSE)}
    /\ UNCHANGED <<server, data, wa, loop, late>>

TelegramAnswered(r) ==
    /\ r.op = "telegram"
    /\ LET ok == r.answer = "ok"
       IN  /\ data' = IF ok THEN r.rows ELSE data
           /\ wa' = Checked(wa, data'.phone)
           /\ RenderTelegram([tg EXCEPT !.busy = FALSE, !.modal = @ /\ ~(ok /\ r.on)],
                             net \ {r}, FALSE)
    /\ UNCHANGED <<server, late, left>>

(* refresh: the rows, or an error beside the rows there were. *)
RowsAnswered(r) ==
    /\ r.op = "get"
    /\ data' = IF r.answer = "ok" THEN r.rows ELSE data
    /\ wa' = Checked(wa, data'.phone)
    /\ net' = net \ {r}
    /\ UNCHANGED <<server, tg, loop, late, left>>

-----------------------------------------------------------------------------
(* The server's side of a request, and Telegram's webhook. *)

RowsOf(s) == [known |-> TRUE, phone |-> s.phone, bot |-> s.bot]

StatusOf(s) ==
    IF s.bot THEN "connected" ELSE IF s.link = "error" THEN "error" ELSE "pending"

(* A link is a fresh attempt, whatever became of the one before; a connected *)
(* bot's row holds no attempt.                                               *)
Effect(r) ==
    CASE r.op = "whatsapp" -> [server EXCEPT !.phone = r.phone]
      [] r.op = "telegram" -> IF r.on THEN [server EXCEPT !.bot = TRUE, !.link = "none"]
                              ELSE [server EXCEPT !.bot = FALSE]
      [] r.op = "start"    -> [server EXCEPT !.link = "pending"]
      [] OTHER -> server

Reply(r) ==
    CASE r.op = "check"  -> IF r.phone \in Taken THEN "no" ELSE "yes"
      [] r.op = "status" -> StatusOf(server)
      [] OTHER           -> "ok"

Handle(r) ==
    /\ r.answer = ""
    /\ ~(r.op = "whatsapp" /\ r.phone \in Taken)
    /\ server' = Effect(r)
    /\ net' = (net \ {r}) \cup {[r EXCEPT !.answer = Reply(r), !.rows = RowsOf(server')]}
    /\ UNCHANGED <<data, wa, tg, loop, late, left>>

(* Refused, or lost on its way there or back: the wrapper in lib/api.ts throws. *)
Fail(r) ==
    /\ r.answer # "failed"
    /\ net' = (net \ {r}) \cup {[r EXCEPT !.answer = "failed"]}
    /\ UNCHANGED <<server, data, wa, tg, loop, late, left>>

(* The user finished the one-tap flow in Telegram: the bot is connected, or  *)
(* the attempt failed before its row was written, or after (the container's  *)
(* configuration could not be patched).                                      *)
Webhook ==
    /\ server.link = "pending"
    /\ \/ server' = [server EXCEPT !.bot = TRUE, !.link = "none"]
       \/ server' = [server EXCEPT !.link = "error"]
       \/ server' = [server EXCEPT !.bot = TRUE, !.link = "error"]
    /\ UNCHANGED <<data, wa, tg, loop, late, net, left>>

-----------------------------------------------------------------------------
Answered(r) ==
    /\ r.answer # ""
    /\ \/ TellAvailable(r) \/ WhatsappAnswered(r)
       \/ LinkAnswered(r) \/ StatusAnswered(r) \/ TelegramAnswered(r)
       \/ RowsAnswered(r)

Serve == \E r \in net : Handle(r) \/ Fail(r)

Arrive == \E r \in net : Answered(r)

User ==
    \/ OpenWhatsapp \/ TypePhone \/ CloseWhatsapp \/ SaveWhatsapp \/ DisconnectWhatsapp
    \/ OpenTelegram \/ ShowTab \/ CloseTelegram \/ TryAgain
    \/ PasteToken \/ SaveTelegram \/ DisconnectTelegram

(* Nothing is out and nobody touches the card. *)
Quiet == net = {} /\ loop = "off" /\ ~wa.timer /\ UNCHANGED vars

Next ==
    \/ User \/ AskAvailable \/ Tick \/ LinkExpires
    \/ Serve \/ Arrive \/ Webhook \/ Quiet

Spec == Init /\ [][Next]_vars

(* Timers fire, the server handles what it is sent and every answer or       *)
(* failure arrives; the user and Telegram owe nothing.                       *)
FairSpec ==
    /\ Spec
    /\ WF_vars(AskAvailable) /\ WF_vars(Tick) /\ WF_vars(LinkExpires)
    /\ WF_vars(Serve) /\ WF_vars(Arrive)

-----------------------------------------------------------------------------
(* A control that is disabled, or a spinner that turns, has its cause still  *)
(* out: a debounce timer or a request of its kind. Otherwise Save, Connect   *)
(* or Disconnect would stay dead until the page is reloaded.                 *)
DisabledHasCause ==
    /\ wa.checking => wa.timer \/ InFlight("check") # {}
    /\ wa.busy => InFlight("whatsapp") # {}
    /\ tg.busy => InFlight("telegram") # {}

(* The open dialog waits in vain: it waits for a link that is not being      *)
(* asked for, or for an outcome with no loop running; or it is "idle", where *)
(* no loop runs whatever link arrives, though a link then draws "Waiting for *)
(* confirmation in Telegram" all the same.                                   *)
Stalled ==
    /\ tg.modal
    /\ \/ tg.status = "idle"
       \/ /\ tg.tab = "quick" /\ tg.status = "waiting"
          /\ IF tg.managed THEN loop = "off" ELSE InFlight("start") = {}

(* No answer, lost request, timer, reopening or change of tab makes a dialog *)
(* that waits wait in vain. "Try again" alone does (696-699).                *)
WaitingIsServed == [][Stalled' => Stalled \/ TryAgain]_vars

(* Does not hold (README): the outcome of a link on the screen is polled     *)
(* for until a verdict or the dialog closes, as the comment above the        *)
(* polling effect says (300-303).                                            *)
LinkIsPolled ==
    tg.modal /\ tg.tab = "quick" /\ tg.managed /\ tg.status \in {"idle", "waiting"} =>
        loop # "off"

Poll == INSTANCE Poller WITH
    phase <- loop,
    verdict <- IF tg.status \in {"connected", "error", "expired"} THEN tg.status ELSE "none"

(* The Telegram dialog polls as the abstract poller does: one loop, one      *)
(* question at a time, no verdict from a loop that was cancelled, and every  *)
(* loop ends, by its answer, its deadline or the user.                       *)
PollerImplemented == Poll!FairSpec

(* "Try again" asks for a new link, as the comment above startQuickConnect   *)
(* says: the open quick tab never shows "Generating link" with no link being *)
(* asked for.                                                                *)
RetryStarts ==
    tg.modal /\ tg.tab = "quick" /\ ~tg.managed /\ tg.status \in {"idle", "waiting"} =>
        InFlight("start") # {}
=============================================================================

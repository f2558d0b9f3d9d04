------------------------- MODULE BridgesPanelProofs -------------------------
(***************************************************************************)
(* Proofs about BridgesPanel, for any numbers and bounds: nothing that is  *)
(* disabled is without its cause, nothing but Try again makes the Telegram *)
(* dialog wait in vain, and the dialog polls as Poller says.  The          *)
(* inductive invariant ties the loop to what is shown (Running) and the    *)
(* one question it may have out to the loop (Asking).                      *)
(***************************************************************************)
EXTENDS BridgesPanel, TLAPS

Forms == [modal : BOOLEAN, input : Numbers, available : {"unknown", "yes", "no"},
          timer : BOOLEAN, checking : BOOLEAN, busy : BOOLEAN]

Views == [modal : BOOLEAN, tab : {"quick", "paste"}, token : BOOLEAN,
          busy : BOOLEAN, managed : BOOLEAN,
          status : {"idle", "waiting", "connected", "error", "expired"}]

Servers == [phone : Numbers, bot : BOOLEAN, link : {"none", "pending", "error"}]

\* A status question whose loop still runs.
Live(r) == r.op = "status" /\ r.on

\* A request of a kind is among these.
Has(requests, op) == \E r \in requests : r.op = op

\* The loop runs while, and only while, the view shown waits for its link.
Running == loop # "off" <=> Polls(tg)

\* The loop has at most one question out, and only while it waits for an answer.
Asking ==
    /\ \A q, r \in net : Live(q) /\ Live(r) => q = r
    /\ \A r \in net : Live(r) => loop = "asked"

\* A link that is waited for and not there is being asked for.
Linking == tg.status = "waiting" /\ ~tg.managed => Has(net, "start")

Causes ==
    /\ wa.checking => wa.timer \/ Has(net, "check")
    /\ wa.busy => Has(net, "whatsapp")
    /\ tg.busy => Has(net, "telegram")

\* TypeOK but for the bound on what the user does, which no proof needs.
ServerOK == server \in Servers
DataOK == data \in Rows
FormOK == wa \in Forms
ViewOK == tg \in Views
LoopOK == loop \in {"off", "timer", "asked"} /\ late \in BOOLEAN
NetOK == net \subseteq Requests

Types == ServerOK /\ DataOK /\ FormOK /\ ViewOK /\ LoopOK /\ NetOK

\* The answer to an availability check is a verdict.
Verdicts == \A r \in net : r.op = "check" => r.answer \in {"", "failed", "yes", "no"}

IInv == Types /\ Verdicts /\ Running /\ Asking /\ Linking /\ Causes

-----------------------------------------------------------------------------
(* Types *)

LEMMA SentTypes ==
    ASSUME NEW op \in Ops, NEW p \in Numbers, NEW on \in BOOLEAN
    PROVE  /\ Sent(op, p, on) \in Requests
           /\ Sent(op, p, on).op = op /\ Sent(op, p, on).on = on /\ Sent(op, p, on).phone = p
BY DEF Sent, Requests, Blank, Rows, Numbers, Answers

LEMMA Phone0 == NoPhone \in Numbers
BY DEF Numbers

LEMMA CheckedForm ==
    ASSUME NEW form \in Forms, NEW bound \in Numbers
    PROVE  /\ Checked(form, bound) \in Forms
           /\ Checked(form, bound).busy = form.busy
           /\ Checked(form, bound) = form \/ (Checked(form, bound).checking => Checked(form, bound).timer)
<1> DEFINE idle == [form EXCEPT !.timer = FALSE, !.checking = FALSE]
<1>1. CASE form.input = wa.input /\ bound = data.phone
  BY <1>1 DEF Checked
<1>2. CASE ~(form.input = wa.input /\ bound = data.phone) /\ form.input = NoPhone
  <2>1. Checked(form, bound) = [form EXCEPT !.timer = FALSE, !.checking = FALSE, !.available = "unknown"]
    BY <1>2 DEF Checked, Forms
  <2> QED BY <2>1 DEF Forms
<1>3. CASE ~(form.input = wa.input /\ bound = data.phone) /\ form.input # NoPhone /\ form.input = bound
  <2>1. Checked(form, bound) = [form EXCEPT !.timer = FALSE, !.checking = FALSE, !.available = "yes"]
    BY <1>3 DEF Checked, Forms
  <2> QED BY <2>1 DEF Forms
<1>4. CASE ~(form.input = wa.input /\ bound = data.phone) /\ form.input # NoPhone /\ form.input # bound
  <2>1. Checked(form, bound) = [form EXCEPT !.timer = TRUE, !.checking = TRUE]
    BY <1>4 DEF Checked
  <2> QED BY <2>1 DEF Forms
<1> QED BY <1>1, <1>2, <1>3, <1>4

LEMMA CancelledRequests ==
    ASSUME NEW requests \in SUBSET Requests
    PROVE  /\ Cancelled(requests) \subseteq Requests
           /\ \A q \in Cancelled(requests) : ~Live(q) /\ (q.op # "status" => q \in requests)
           /\ \A op \in Ops : Has(requests, op) => Has(Cancelled(requests), op)
<1>1. ASSUME NEW r \in Requests
      PROVE  /\ [r EXCEPT !.on = FALSE] \in Requests
             /\ [r EXCEPT !.on = FALSE].op = r.op /\ [r EXCEPT !.on = FALSE].on = FALSE
  BY DEF Requests
<1>2. ASSUME NEW q \in Cancelled(requests)
      PROVE  q \in Requests /\ ~Live(q) /\ (q.op # "status" => q \in requests)
  <2>1. PICK r \in requests : q = IF r.op = "status" THEN [r EXCEPT !.on = FALSE] ELSE r
    BY DEF Cancelled
  <2> QED BY <1>1, <2>1 DEF Live
<1>3. ASSUME NEW op \in Ops, NEW r \in requests, r.op = op PROVE Has(Cancelled(requests), op)
  <2> DEFINE q == IF r.op = "status" THEN [r EXCEPT !.on = FALSE] ELSE r
  <2>1. q \in Cancelled(requests)
    BY DEF Cancelled
  <2>2. q.op = op
    BY <1>1, <1>3
  <2> QED BY <2>1, <2>2 DEF Has
<1> QED BY <1>2, <1>3 DEF Has

-----------------------------------------------------------------------------
(* Rendering *)

\* What RenderTelegram keeps and brings about.
LEMMA Rendered ==
    ASSUME ViewOK, LoopOK, Running,
           NEW view \in Views, NEW requests \in SUBSET Requests, NEW relinked \in BOOLEAN,
           RenderTelegram(view, requests, relinked)
    PROVE  /\ ViewOK' /\ loop' \in {"off", "timer", "asked"} /\ NetOK' /\ Running'
           /\ tg'.busy = view.busy /\ tg'.managed = view.managed
           /\ tg'.modal = view.modal /\ tg'.tab = view.tab
           /\ \/ tg'.status = view.status
              \/ view.status = "idle" /\ tg'.status = "waiting" /\ Has(net', "start")
           /\ \A op \in Ops : Has(requests, op) => Has(net', op)
           /\ \A q \in net' : q.op = "check" => q \in requests
           /\ \/ /\ loop' = loop
                 /\ \A q \in net' : Live(q) => q \in requests
                 /\ ~relinked /\ PollDeps(tg') = PollDeps(tg)
              \/ loop' \in {"off", "timer"} /\ \A q \in net' : ~Live(q)
<1> DEFINE auto  == AutoStarts(view)
           shown == IF auto THEN [view EXCEPT !.status = "waiting"] ELSE view
           same  == PollDeps(shown) = PollDeps(tg) /\ ~relinked
           start == IF auto THEN {Sent("start", NoPhone, FALSE)} ELSE {}
<1>1. /\ tg' = shown
      /\ \/ same /\ net' = requests \cup start /\ loop' = loop
         \/ ~same /\ net' = Cancelled(requests) \cup start
                  /\ loop' = IF Polls(shown) THEN "timer" ELSE "off"
  BY Zenon DEF RenderTelegram
<1>2. /\ shown \in Views
      /\ shown.busy = view.busy /\ shown.managed = view.managed
      /\ shown.modal = view.modal /\ shown.tab = view.tab
      /\ ~auto => shown.status = view.status
      /\ auto => shown.status = "waiting" /\ view.status = "idle"
  BY DEF Views, AutoStarts
<1>3. /\ start \subseteq Requests /\ \A q \in start : ~Live(q) /\ q.op # "check"
      /\ auto => \E q \in start : q.op = "start"
  <2>1. /\ Sent("start", NoPhone, FALSE) \in Requests
        /\ Sent("start", NoPhone, FALSE).op = "start" /\ Sent("start", NoPhone, FALSE).on = FALSE
    BY DEF Sent, Requests, Blank, Rows, Numbers, Answers, Ops
  <2> QED BY <2>1 DEF Live
<1> HIDE DEF auto, shown, start
<1>4. CASE same
  <2>1. net' = requests \cup start /\ loop' = loop
    BY <1>1, <1>4, Zenon
  <2>2. Running'
    BY <1>1, <1>4, <2>1 DEF Running, Polls, PollDeps
  <2>3. /\ net' \subseteq Requests /\ \A q \in net' : Live(q) => q \in requests
        /\ \A op \in Ops : Has(requests, op) => Has(net', op)
        /\ auto => Has(net', "start")
        /\ \A q \in net' : q.op = "check" => q \in requests
    BY <1>3, <2>1 DEF Has
  <2>4. ~relinked /\ PollDeps(tg') = PollDeps(tg)
    BY <1>1, <1>4
  <2> HIDE DEF same
  <2> QED BY <1>1, <1>2, <2>1, <2>2, <2>3, <2>4 DEF ViewOK, LoopOK, NetOK
<1>5. CASE ~same
  <2>1. net' = Cancelled(requests) \cup start /\ loop' = IF Polls(shown) THEN "timer" ELSE "off"
    BY <1>1, <1>5, Zenon
  <2>2. Running'
    BY <1>1, <2>1 DEF Running, Polls
  <2>3. /\ net' \subseteq Requests /\ \A q \in net' : ~Live(q)
        /\ \A op \in Ops : Has(requests, op) => Has(net', op)
        /\ auto => Has(net', "start")
        /\ \A q \in net' : q.op = "check" => q \in requests
    BY <1>3, <2>1, CancelledRequests DEF Has
  <2> HIDE DEF same
  <2> QED BY <1>1, <1>2, <2>1, <2>2, <2>3 DEF ViewOK, NetOK
<1> QED BY <1>4, <1>5

-----------------------------------------------------------------------------
(* Steps that leave the Telegram dialog alone *)

LEMMA DialogKept ==
    ASSUME Running, Asking, Linking, UNCHANGED <<tg, loop>>,
           \A q \in net' : Live(q) => q \in net,
           Has(net, "start") => Has(net', "start")
    PROVE  Running' /\ Asking' /\ Linking'
BY DEF Running, Asking, Linking, Polls

\* A request joins, or an answer of another kind leaves: what Has said of the others stays.
LEMMA Joined ==
    ASSUME NEW op \in Ops, NEW p \in Numbers, NEW on \in BOOLEAN, op # "status", NetOK,
           net' = net \cup {Sent(op, p, on)}, Verdicts
    PROVE  /\ NetOK' /\ Verdicts' /\ Has(net', op)
           /\ \A q \in net' : Live(q) => q \in net
           /\ \A o \in Ops : Has(net, o) => Has(net', o)
<1>1. /\ Sent(op, p, on) \in Requests /\ Sent(op, p, on).op = op
      /\ Sent(op, p, on).answer = ""
  BY SentTypes DEF Sent
<1> QED BY <1>1 DEF NetOK, Verdicts, Has, Live

LEMMA Removed ==
    ASSUME NEW r \in net, NetOK, Verdicts, net' = net \ {r}
    PROVE  /\ NetOK' /\ Verdicts'
           /\ \A q \in net' : q \in net
           /\ \A o \in Ops : o # r.op /\ Has(net, o) => Has(net', o)
BY DEF NetOK, Verdicts, Has

LEMMA FormStep == IInv /\ (OpenWhatsapp \/ TypePhone \/ CloseWhatsapp) => IInv'
<1> SUFFICES ASSUME IInv, OpenWhatsapp \/ TypePhone \/ CloseWhatsapp PROVE IInv'
  OBVIOUS
<1> USE DEF IInv, Types
<1>1. UNCHANGED <<server, data, tg, loop, late, net>>
  BY DEF OpenWhatsapp, TypePhone, CloseWhatsapp
<1>2. data.phone \in Numbers /\ wa \in Forms
  BY DEF DataOK, FormOK, Rows
<1>3. /\ wa' \in Forms /\ wa'.busy = wa.busy
      /\ wa'.checking => wa'.timer \/ (wa.checking /\ wa'.timer = wa.timer)
  <2>1. CASE OpenWhatsapp
    <3> DEFINE opened == [wa EXCEPT !.input = data.phone, !.available = "unknown", !.modal = TRUE]
    <3>1. /\ opened \in Forms /\ opened.busy = wa.busy
          /\ opened.checking = wa.checking /\ opened.timer = wa.timer
      BY <1>2 DEF Forms
    <3>2. wa' = Checked(opened, data.phone)
      BY <2>1 DEF OpenWhatsapp
    <3> HIDE DEF opened
    <3> QED BY <1>2, <3>1, <3>2, CheckedForm
  <2>2. CASE TypePhone
    <3>1. PICK p \in Numbers : wa' = Checked([wa EXCEPT !.input = p], data.phone)
      BY <2>2 DEF TypePhone
    <3> DEFINE typed == [wa EXCEPT !.input = p]
    <3>2. /\ typed \in Forms /\ typed.busy = wa.busy
          /\ typed.checking = wa.checking /\ typed.timer = wa.timer
      BY <1>2 DEF Forms
    <3>3. wa' = Checked(typed, data.phone)
      BY <3>1
    <3> HIDE DEF typed
    <3> QED BY <1>2, <3>2, <3>3, CheckedForm
  <2>3. CASE CloseWhatsapp
    <3>1. wa' = [wa EXCEPT !.modal = FALSE]
      BY <2>3 DEF CloseWhatsapp
    <3> QED BY <1>2, <3>1 DEF Forms
  <2> QED BY <2>1, <2>2, <2>3
<1>4. Types' /\ Verdicts'
  BY <1>1, <1>3 DEF ServerOK, DataOK, FormOK, ViewOK, LoopOK, NetOK, Verdicts
<1>5. Running' /\ Asking' /\ Linking'
  BY <1>1, DialogKept
<1>6. Causes'
  BY <1>1, <1>3 DEF Causes
<1> QED BY <1>4, <1>5, <1>6

LEMMA AskAvailableStep == IInv /\ AskAvailable => IInv'
<1> SUFFICES ASSUME IInv, AskAvailable PROVE IInv'
  OBVIOUS
<1> USE DEF IInv, Types
<1>1. /\ wa' = [wa EXCEPT !.timer = FALSE] /\ net' = net \cup {Sent("check", wa.input, FALSE)}
      /\ UNCHANGED <<server, data, tg, loop, late>>
  BY DEF AskAvailable
<1>2. wa' \in Forms /\ wa'.busy = wa.busy /\ wa.input \in Numbers
  BY <1>1 DEF FormOK, Forms
<1>3. /\ NetOK' /\ Verdicts' /\ Has(net', "check")
      /\ \A q \in net' : Live(q) => q \in net
      /\ \A o \in Ops : Has(net, o) => Has(net', o)
  BY <1>1, <1>2, Joined DEF Ops
<1>4. Types'
  BY <1>1, <1>2, <1>3 DEF ServerOK, DataOK, FormOK, ViewOK, LoopOK
<1>5. Running' /\ Asking' /\ Linking'
  BY <1>1, <1>3, DialogKept DEF Ops
<1>6. Causes'
  BY <1>1, <1>2, <1>3 DEF Causes, Ops
<1> QED BY <1>3, <1>4, <1>5, <1>6

LEMMA WhatsappStep == IInv /\ (SaveWhatsapp \/ DisconnectWhatsapp) => IInv'
<1> SUFFICES ASSUME IInv, SaveWhatsapp \/ DisconnectWhatsapp PROVE IInv'
  OBVIOUS
<1> USE DEF IInv, Types
<1>1. /\ wa' = [wa EXCEPT !.busy = TRUE]
      /\ \/ net' = net \cup {Sent("whatsapp", wa.input, TRUE)}
         \/ net' = net \cup {Sent("whatsapp", NoPhone, FALSE)}
      /\ UNCHANGED <<server, data, tg, loop, late>>
  BY DEF SaveWhatsapp, DisconnectWhatsapp
<1>2. /\ wa' \in Forms /\ wa'.checking = wa.checking /\ wa'.timer = wa.timer
      /\ wa.input \in Numbers
  BY <1>1 DEF FormOK, Forms
<1>3. /\ NetOK' /\ Verdicts' /\ Has(net', "whatsapp")
      /\ \A q \in net' : Live(q) => q \in net
      /\ \A o \in Ops : Has(net, o) => Has(net', o)
  BY <1>1, <1>2, Phone0, Joined DEF Ops
<1>4. Types'
  BY <1>1, <1>2, <1>3 DEF ServerOK, DataOK, FormOK, ViewOK, LoopOK
<1>5. Running' /\ Asking' /\ Linking'
  BY <1>1, <1>3, DialogKept DEF Ops
<1>6. Causes'
  BY <1>1, <1>2, <1>3 DEF Causes, Ops
<1> QED BY <1>3, <1>4, <1>5, <1>6

LEMMA TellAvailableStep ==
    ASSUME IInv, NEW r \in net, r.answer # "", TellAvailable(r) PROVE IInv'
<1> USE DEF IInv, Types
<1> DEFINE told == IF r.answer = "failed" THEN "unknown" ELSE r.answer
<1>1. /\ r.op = "check" /\ wa' = [wa EXCEPT !.available = told, !.checking = FALSE]
      /\ net' = net \ {r} /\ UNCHANGED <<server, data, tg, loop, late>>
  BY DEF TellAvailable
<1>2. told \in {"unknown", "yes", "no"}
  BY <1>1 DEF Verdicts
<1> HIDE DEF told
<1>3. wa' \in Forms /\ wa'.busy = wa.busy /\ ~wa'.checking
  BY <1>1, <1>2 DEF FormOK, Forms
<1>4. /\ NetOK' /\ Verdicts'
      /\ \A q \in net' : q \in net
      /\ \A o \in Ops : o # "check" /\ Has(net, o) => Has(net', o)
  BY <1>1, Removed
<1>5. Types'
  BY <1>1, <1>3, <1>4 DEF ServerOK, DataOK, FormOK, ViewOK, LoopOK
<1>6. Running' /\ Asking' /\ Linking'
  BY <1>1, <1>4, DialogKept DEF Ops
<1>7. Causes'
  BY <1>1, <1>3, <1>4 DEF Causes, Ops
<1> QED BY <1>4, <1>5, <1>6, <1>7

\* An answer that may change the rows: the number bound is checked against them.
LEMMA RowsStep ==
    ASSUME IInv, NEW r \in net, r.op \in {"whatsapp", "get"},
           NEW form \in Forms, form.checking = wa.checking, form.timer = wa.timer,
           form.busy => wa.busy /\ r.op = "get",
           data' \in Rows, wa' = Checked(form, data'.phone), net' = net \ {r},
           UNCHANGED <<server, tg, loop, late>>
    PROVE  IInv'
<1> USE DEF IInv, Types
<1>1. data'.phone \in Numbers
  BY DEF Rows
<1>2. /\ wa' \in Forms /\ wa'.busy = form.busy
      /\ wa'.checking => wa'.timer \/ (wa.checking /\ wa'.timer = wa.timer)
  BY <1>1, CheckedForm
<1>3. /\ NetOK' /\ Verdicts'
      /\ \A q \in net' : q \in net
      /\ \A o \in Ops : o # r.op /\ Has(net, o) => Has(net', o)
  BY Removed
<1>4. Types'
  BY <1>2, <1>3 DEF ServerOK, DataOK, FormOK, ViewOK, LoopOK
<1>5. Running' /\ Asking' /\ Linking'
  BY <1>3, DialogKept DEF Ops
<1>6. Causes'
  BY <1>2, <1>3 DEF Causes, Ops
<1> QED BY <1>3, <1>4, <1>5, <1>6

LEMMA AnswerRows ==
    ASSUME Types, NEW r \in net, NEW ok \in BOOLEAN, data' = IF ok THEN r.rows ELSE data
    PROVE  data' \in Rows
<1>1. r.rows \in Rows /\ data \in Rows
  BY DEF Types, NetOK, DataOK, Requests
<1> QED BY <1>1

LEMMA WhatsappAnsweredStep ==
    ASSUME IInv, NEW r \in net, WhatsappAnswered(r) PROVE IInv'
<1> DEFINE ok   == r.answer = "ok"
           open == wa.modal /\ ~(ok /\ r.on)
           form == [wa EXCEPT !.busy = FALSE, !.modal = open]
<1>1. /\ r.op = "whatsapp" /\ net' = net \ {r}
      /\ UNCHANGED <<server, tg, loop, late>>
      /\ data' = IF ok THEN r.rows ELSE data
      /\ wa' = Checked(form, data'.phone)
  BY DEF WhatsappAnswered
<1>2. data' \in Rows
  BY <1>1, AnswerRows DEF IInv
<1>3. open \in BOOLEAN /\ wa \in Forms
  BY DEF IInv, Types, FormOK, Forms
<1> HIDE DEF open
<1>4. /\ form \in Forms /\ form.checking = wa.checking /\ form.timer = wa.timer
      /\ ~form.busy
  BY <1>3 DEF Forms
<1> HIDE DEF form
<1> QED BY <1>1, <1>2, <1>4, RowsStep

LEMMA RowsAnsweredStep ==
    ASSUME IInv, NEW r \in net, RowsAnswered(r) PROVE IInv'
<1> DEFINE ok == r.answer = "ok"
<1>1. /\ r.op = "get" /\ net' = net \ {r}
      /\ UNCHANGED <<server, tg, loop, late>>
      /\ data' = IF ok THEN r.rows ELSE data
      /\ wa' = Checked(wa, data'.phone)
  BY DEF RowsAnswered
<1>2. data' \in Rows
  BY <1>1, AnswerRows DEF IInv
<1>3. wa \in Forms
  BY DEF IInv, Types, FormOK
<1> QED BY <1>1, <1>2, <1>3, RowsStep

-----------------------------------------------------------------------------
(* Steps that render the Telegram dialog *)

LEMMA RenderedStep ==
    ASSUME IInv,
           NEW view \in Views, NEW requests \in SUBSET Requests, NEW relinked \in BOOLEAN,
           RenderTelegram(view, requests, relinked),
           ServerOK', DataOK', FormOK', late' \in BOOLEAN,
           \A q \in requests : Live(q) => q \in net,
           \A q \in requests : q.op = "check" => q \in net,
           view.status = "waiting" /\ ~view.managed => Has(requests, "start"),
           wa'.checking => wa'.timer \/ Has(requests, "check"),
           wa'.busy => Has(requests, "whatsapp"),
           view.busy => Has(requests, "telegram")
    PROVE  IInv'
<1> USE DEF IInv, Types
<1>1. /\ ViewOK' /\ loop' \in {"off", "timer", "asked"} /\ NetOK' /\ Running'
      /\ tg'.busy = view.busy /\ tg'.managed = view.managed
      /\ \/ tg'.status = view.status
         \/ view.status = "idle" /\ tg'.status = "waiting" /\ Has(net', "start")
      /\ \A op \in Ops : Has(requests, op) => Has(net', op)
      /\ \A q \in net' : q.op = "check" => q \in requests
      /\ \/ loop' = loop /\ \A q \in net' : Live(q) => q \in requests
         \/ \A q \in net' : ~Live(q)
  BY Rendered
<1>2. Types'
  BY <1>1 DEF LoopOK
<1>3. Verdicts'
  BY <1>1 DEF Verdicts
<1>4. Asking'
  BY <1>1 DEF Asking
<1>5. Linking'
  BY <1>1 DEF Linking, Ops
<1>6. Causes'
  BY <1>1 DEF Causes, Ops
<1> QED BY <1>1, <1>2, <1>3, <1>4, <1>5, <1>6

\* The same when the form, the rows and the server are left alone.
LEMMA DialogStep ==
    ASSUME IInv,
           NEW view \in Views, NEW requests \in SUBSET Requests, NEW relinked \in BOOLEAN,
           RenderTelegram(view, requests, relinked),
           UNCHANGED <<server, data, wa>>, late' \in BOOLEAN,
           \A q \in requests : Live(q) => q \in net,
           \A q \in requests : q.op = "check" => q \in net,
           view.status = "waiting" /\ ~view.managed => Has(requests, "start"),
           Has(net, "check") => Has(requests, "check"),
           Has(net, "whatsapp") => Has(requests, "whatsapp"),
           Has(net, "telegram") => Has(requests, "telegram"),
           view.busy => tg.busy
    PROVE  IInv'
<1>1. ServerOK' /\ DataOK' /\ FormOK'
  BY DEF IInv, Types, ServerOK, DataOK, FormOK
<1>2. /\ wa'.checking => wa'.timer \/ Has(requests, "check")
      /\ wa'.busy => Has(requests, "whatsapp")
      /\ view.busy => Has(requests, "telegram")
  BY DEF IInv, Causes
<1> QED BY <1>1, <1>2, RenderedStep

LEMMA ViewStep ==
    IInv /\ (OpenTelegram \/ ShowTab \/ CloseTelegram \/ TryAgain) => IInv'
<1> SUFFICES ASSUME IInv, OpenTelegram \/ ShowTab \/ CloseTelegram \/ TryAgain PROVE IInv'
  OBVIOUS
<1>1. PICK view \in Views :
        /\ RenderTelegram(view, net, FALSE)
        /\ view.busy = tg.busy
        /\ \/ view.status = "idle"
           \/ view.status = tg.status /\ view.managed = tg.managed
  <2>0. tg \in Views
    BY DEF IInv, Types, ViewOK
  <2>1. CASE OpenTelegram
    <3> DEFINE view == [modal |-> TRUE, tab |-> "quick", token |-> FALSE, busy |-> tg.busy,
                        managed |-> FALSE, status |-> "idle"]
    <3>1. view \in Views /\ view.busy = tg.busy /\ view.status = "idle"
      BY <2>0 DEF Views
    <3>2. RenderTelegram(view, net, FALSE)
      BY <2>1, Zenon DEF OpenTelegram
    <3> HIDE DEF view
    <3> QED BY <3>1, <3>2
  <2>2. CASE ShowTab
    <3>1. PICK tab \in {"quick", "paste"} : RenderTelegram([tg EXCEPT !.tab = tab], net, FALSE)
      BY <2>2, Zenon DEF ShowTab
    <3> DEFINE view == [tg EXCEPT !.tab = tab]
    <3>2. /\ view \in Views /\ view.busy = tg.busy /\ view.status = tg.status
          /\ view.managed = tg.managed
      BY <2>0 DEF Views
    <3> HIDE DEF view
    <3> QED BY <3>1, <3>2 DEF view
  <2>3. CASE CloseTelegram
    <3> DEFINE view == [tg EXCEPT !.modal = FALSE]
    <3>1. /\ view \in Views /\ view.busy = tg.busy /\ view.status = tg.status
          /\ view.managed = tg.managed
      BY <2>0 DEF Views
    <3>2. RenderTelegram(view, net, FALSE)
      BY <2>3, Zenon DEF CloseTelegram
    <3> HIDE DEF view
    <3> QED BY <3>1, <3>2
  <2>4. CASE TryAgain
    <3> DEFINE view == [tg EXCEPT !.managed = FALSE, !.status = "idle"]
    <3>1. view \in Views /\ view.busy = tg.busy /\ view.status = "idle"
      BY <2>0 DEF Views
    <3>2. RenderTelegram(view, net, FALSE)
      BY <2>4, Zenon DEF TryAgain
    <3> HIDE DEF view
    <3> QED BY <3>1, <3>2
  <2> QED BY <2>1, <2>2, <2>3, <2>4
<1>2. UNCHANGED <<server, data, wa>>
  BY DEF OpenTelegram, ShowTab, CloseTelegram, TryAgain
<1>3. net \in SUBSET Requests /\ late' \in BOOLEAN
  BY DEF IInv, Types, NetOK, LoopOK, OpenTelegram, ShowTab, CloseTelegram, TryAgain
<1>4. view.status = "waiting" /\ ~view.managed => Has(net, "start")
  BY <1>1 DEF IInv, Linking
<1> QED BY <1>1, <1>2, <1>3, <1>4, DialogStep

\* What is left of the requests when an answer of one kind is taken from them.
LEMMA Without ==
    ASSUME IInv, NEW r \in net
    PROVE  /\ net \ {r} \in SUBSET Requests
           /\ \A o \in Ops : o # r.op /\ Has(net, o) => Has(net \ {r}, o)
BY DEF IInv, Types, NetOK, Has

LEMMA LinkAnsweredStep ==
    ASSUME IInv, NEW r \in net, LinkAnswered(r) PROVE IInv'
<1>1. tg \in Views /\ r.op = "start" /\ UNCHANGED <<server, data, wa>> /\ late' \in BOOLEAN
  BY DEF IInv, Types, ViewOK, LoopOK, LinkAnswered
<1>2. CASE r.answer = "failed"
  <2> DEFINE view == [tg EXCEPT !.status = "error"]
  <2>1. RenderTelegram(view, net \ {r}, FALSE)
    BY <1>2, Zenon DEF LinkAnswered
  <2>2. view \in Views /\ view.busy = tg.busy /\ view.status = "error"
    BY <1>1 DEF Views
  <2> HIDE DEF view
  <2> QED BY <1>1, <2>1, <2>2, Without, DialogStep DEF Ops
<1>3. CASE r.answer # "failed"
  <2> DEFINE view == [tg EXCEPT !.managed = TRUE]
  <2>1. RenderTelegram(view, net \ {r}, TRUE)
    BY <1>3, Zenon DEF LinkAnswered
  <2>2. view \in Views /\ view.busy = tg.busy /\ view.managed
    BY <1>1 DEF Views
  <2> HIDE DEF view
  <2> QED BY <1>1, <2>1, <2>2, Without, DialogStep DEF Ops
<1> QED BY <1>2, <1>3

\* A question was asked, or answered and the timer set again.
LEMMA TickStep == IInv /\ Tick => IInv'
<1> SUFFICES ASSUME IInv, Tick PROVE IInv'
  OBVIOUS
<1>1. /\ tg \in Views /\ late' \in BOOLEAN /\ net \in SUBSET Requests
      /\ loop = "timer" /\ UNCHANGED <<server, data, wa, late>>
  BY DEF IInv, Types, ViewOK, LoopOK, NetOK, Tick
<1>2. CASE late
  <2> DEFINE view == [tg EXCEPT !.status = "expired"]
  <2>1. RenderTelegram(view, net, FALSE)
    BY <1>2, Zenon DEF Tick
  <2>2. view \in Views /\ view.busy = tg.busy /\ view.status = "expired"
    BY <1>1 DEF Views
  <2> HIDE DEF view
  <2> QED BY <1>1, <2>1, <2>2, DialogStep
<1>3. CASE ~late
  <2> DEFINE asked == Sent("status", NoPhone, TRUE)
  <2>1. /\ loop' = "asked" /\ net' = net \cup {asked} /\ UNCHANGED tg
    BY <1>3 DEF Tick
  <2>2. asked \in Requests /\ asked.op = "status"
    BY DEF Sent, Requests, Blank, Rows, Numbers, Answers, Ops
  <2> HIDE DEF asked
  <2>3. Types' /\ Verdicts'
    BY <1>1, <2>1, <2>2
      DEF IInv, Types, ServerOK, DataOK, FormOK, ViewOK, LoopOK, NetOK, Verdicts
  <2>4. Running'
    BY <1>1, <2>1 DEF IInv, Running, Polls
  <2>5. Asking'
    BY <1>1, <2>1 DEF IInv, Asking
  <2>6. Linking' /\ Causes'
    BY <1>1, <2>1 DEF IInv, Linking, Causes, Has
  <2> QED BY <2>3, <2>4, <2>5, <2>6 DEF IInv
<1> QED BY <1>2, <1>3

LEMMA StatusAnsweredStep ==
    ASSUME IInv, NEW r \in net, StatusAnswered(r) PROVE IInv'
<1>1. /\ tg \in Views /\ late' \in BOOLEAN /\ r.op = "status"
      /\ UNCHANGED <<server, data, wa, late>>
  BY DEF IInv, Types, ViewOK, LoopOK, StatusAnswered
<1>2. CASE r.on /\ r.answer \in {"connected", "error"}
  <2> DEFINE view == [tg EXCEPT !.status = r.answer]
             more == IF r.answer = "connected" THEN {Sent("get", NoPhone, FALSE)} ELSE {}
  <2>1. RenderTelegram(view, (net \ {r}) \cup more, FALSE)
    BY <1>2, Zenon DEF StatusAnswered
  <2>2. view \in Views /\ view.busy = tg.busy /\ view.status # "waiting"
    BY <1>1, <1>2 DEF Views
  <2>3. more \subseteq Requests /\ \A q \in more : q.op = "get"
    <3>1. Sent("get", NoPhone, FALSE) \in Requests /\ Sent("get", NoPhone, FALSE).op = "get"
      BY DEF Sent, Requests, Blank, Rows, Numbers, Answers, Ops
    <3> QED BY <3>1
  <2> HIDE DEF view, more
  <2> DEFINE requests == (net \ {r}) \cup more
  <2>4. /\ requests \in SUBSET Requests
        /\ \A q \in requests : Live(q) \/ q.op = "check" => q \in net
        /\ \A o \in Ops : o # "status" /\ Has(net, o) => Has(requests, o)
    BY <1>1, <2>3, Without DEF Has, Live
  <2> HIDE DEF requests
  <2>5. RenderTelegram(view, requests, FALSE)
    BY <2>1 DEF requests
  <2> QED BY <1>1, <2>2, <2>4, <2>5, DialogStep DEF Ops
<1>3. CASE ~(r.on /\ r.answer \in {"connected", "error"})
  <2>1. /\ net' = net \ {r} /\ UNCHANGED tg
        /\ \/ ~r.on /\ loop' = loop
           \/ r.on /\ loop' = "timer"
    BY <1>3 DEF StatusAnswered
  <2>2. Types' /\ Verdicts'
    BY <1>1, <2>1 DEF IInv, Types, ServerOK, DataOK, FormOK, ViewOK, LoopOK, NetOK, Verdicts
  <2>3. r.on => loop = "asked"
    BY <1>1 DEF IInv, Asking, Live
  <2>4. Running'
    BY <2>1, <2>3 DEF IInv, Running, Polls
  <2>5. Asking'
    BY <1>1, <2>1 DEF IInv, Asking, Live
  <2>6. Linking' /\ Causes'
    BY <1>1, <2>1, Without DEF IInv, Linking, Causes, Has, Ops
  <2> QED BY <2>2, <2>4, <2>5, <2>6 DEF IInv
<1> QED BY <1>2, <1>3

LEMMA TelegramAnsweredStep ==
    ASSUME IInv, NEW r \in net, TelegramAnswered(r) PROVE IInv'
<1> DEFINE ok   == r.answer = "ok"
           open == tg.modal /\ ~(ok /\ r.on)
           view == [tg EXCEPT !.busy = FALSE, !.modal = open]
<1>1. /\ r.op = "telegram" /\ UNCHANGED <<server, late>>
      /\ data' = IF ok THEN r.rows ELSE data
      /\ wa' = Checked(wa, data'.phone)
  BY DEF TelegramAnswered
<1>2. RenderTelegram(view, net \ {r}, FALSE)
  BY Zenon DEF TelegramAnswered
<1>3. data' \in Rows
  BY <1>1, AnswerRows DEF IInv
<1>4. tg \in Views /\ wa \in Forms /\ late' \in BOOLEAN
  BY <1>1 DEF IInv, Types, ViewOK, FormOK, LoopOK
<1>5. open \in BOOLEAN
  BY <1>4 DEF Views
<1> HIDE DEF open
<1>6. /\ view \in Views /\ ~view.busy
      /\ view.status = tg.status /\ view.managed = tg.managed
  BY <1>4, <1>5 DEF Views
<1> HIDE DEF view
<1>7. /\ wa' \in Forms /\ wa'.busy = wa.busy
      /\ wa'.checking => wa'.timer \/ (wa.checking /\ wa'.timer = wa.timer)
  BY <1>1, <1>3, <1>4, CheckedForm DEF Rows
<1> DEFINE requests == net \ {r}
<1>8. /\ requests \in SUBSET Requests
      /\ \A q \in requests : q \in net
      /\ \A o \in Ops : o # "telegram" /\ Has(net, o) => Has(requests, o)
  BY <1>1, Without
<1>9. RenderTelegram(view, requests, FALSE)
  BY <1>2
<1> HIDE DEF requests
<1>10. /\ view.status = "waiting" /\ ~view.managed => Has(requests, "start")
       /\ wa'.checking => wa'.timer \/ Has(requests, "check")
       /\ wa'.busy => Has(requests, "whatsapp")
  BY <1>6, <1>7, <1>8 DEF IInv, Linking, Causes, Ops
<1>11. ServerOK' /\ DataOK' /\ FormOK'
  BY <1>1, <1>3, <1>7 DEF IInv, Types, ServerOK, DataOK, FormOK
<1> QED BY <1>4, <1>6, <1>8, <1>9, <1>10, <1>11, RenderedStep

-----------------------------------------------------------------------------
(* The other steps *)

LEMMA TokenStep == IInv /\ (PasteToken \/ SaveTelegram \/ DisconnectTelegram) => IInv'
<1> SUFFICES ASSUME IInv, PasteToken \/ SaveTelegram \/ DisconnectTelegram PROVE IInv'
  OBVIOUS
<1> USE DEF IInv, Types
<1>1. UNCHANGED <<server, data, wa, loop, late>>
  BY DEF PasteToken, SaveTelegram, DisconnectTelegram
<1>2. /\ tg' \in Views
      /\ tg'.modal = tg.modal /\ tg'.tab = tg.tab /\ tg'.managed = tg.managed
      /\ tg'.status = tg.status
      /\ tg'.busy = tg.busy \/ ~PasteToken
  BY DEF ViewOK, Views, PasteToken, SaveTelegram, DisconnectTelegram
<1>3. \/ net' = net /\ tg'.busy = tg.busy
      \/ \E on \in BOOLEAN : net' = net \cup {Sent("telegram", NoPhone, on)}
  <2>1. CASE PasteToken
    BY <1>2, <2>1 DEF PasteToken, ViewOK, Views
  <2>2. CASE SaveTelegram \/ DisconnectTelegram
    BY <2>2 DEF SaveTelegram, DisconnectTelegram
  <2> QED BY <2>1, <2>2, PasteToken \/ SaveTelegram \/ DisconnectTelegram
<1>4. /\ NetOK' /\ Verdicts'
      /\ \A q \in net' : Live(q) => q \in net
      /\ \A o \in Ops : Has(net, o) => Has(net', o)
      /\ tg'.busy => Has(net', "telegram")
  <2>1. CASE net' = net /\ tg'.busy = tg.busy
    BY <2>1 DEF NetOK, Verdicts, Has, Causes
  <2>2. CASE \E on \in BOOLEAN : net' = net \cup {Sent("telegram", NoPhone, on)}
    BY <2>2, Phone0, Joined DEF Ops
  <2> QED BY <1>3, <2>1, <2>2
<1>5. Types'
  BY <1>1, <1>2, <1>4 DEF ServerOK, DataOK, FormOK, ViewOK, LoopOK
<1>6. Running' /\ Asking' /\ Linking'
  BY <1>1, <1>2, <1>4 DEF Running, Asking, Linking, Polls, Ops
<1>7. Causes'
  BY <1>1, <1>4 DEF Causes, Ops
<1> QED BY <1>4, <1>5, <1>6, <1>7

\* A request that is handled or fails is the same request, with its answer.
LEMMA ServedStep ==
    ASSUME IInv, ServerOK', UNCHANGED <<data, wa, tg, loop, late>>,
           NEW r \in net, NEW q \in Requests, q.op = r.op, q.on = r.on,
           q.op = "check" => q.answer \in {"", "failed", "yes", "no"},
           net' = (net \ {r}) \cup {q}
    PROVE  IInv'
<1> USE DEF IInv, Types
<1>1. Types' /\ Verdicts'
  BY DEF DataOK, FormOK, ViewOK, LoopOK, NetOK, Verdicts
<1>2. \A o \in Ops : Has(net, o) => Has(net', o)
  BY DEF Has
<1>3. Asking'
  BY DEF Asking, Live
<1>4. Running' /\ Linking' /\ Causes'
  BY <1>2 DEF Running, Linking, Causes, Polls, Ops
<1> QED BY <1>1, <1>3, <1>4

LEMMA ServeStep == IInv /\ Serve => IInv'
<1> SUFFICES ASSUME IInv, NEW r \in net, Handle(r) \/ Fail(r) PROVE IInv'
  BY DEF Serve
<1>0. r \in Requests /\ server \in Servers
  BY DEF IInv, Types, NetOK, ServerOK
<1>1. CASE Handle(r)
  <2> DEFINE q == [r EXCEPT !.answer = Reply(r), !.rows = RowsOf(server')]
  <2>1. /\ server' = Effect(r) /\ net' = (net \ {r}) \cup {q}
        /\ UNCHANGED <<data, wa, tg, loop, late>>
    BY <1>1, Zenon DEF Handle
  <2>2. server' \in Servers
    <3>1. Effect(r) \in Servers
      BY <1>0 DEF Effect, Servers, Requests
    <3> QED BY <2>1, <3>1
  <2>3. /\ Reply(r) \in Answers
        /\ r.op = "check" => Reply(r) \in {"yes", "no"}
    BY DEF Reply, StatusOf, Answers
  <2>4. RowsOf(server') \in Rows
    BY <2>2 DEF RowsOf, Rows, Servers
  <2>5. /\ q \in Requests /\ q.op = r.op /\ q.on = r.on /\ q.answer = Reply(r)
    <3> DEFINE a == Reply(r)
               rows == RowsOf(server')
    <3> HIDE DEF a, rows
    <3>1. a \in Answers /\ rows \in Rows
      BY <2>3, <2>4 DEF a, rows
    <3>2. LET s == [r EXCEPT !.answer = a, !.rows = rows]
          IN  s \in Requests /\ s.op = r.op /\ s.on = r.on /\ s.answer = a
      BY <1>0, <3>1 DEF Requests
    <3> QED BY <3>2 DEF a, rows
  <2> HIDE DEF q
  <2> QED BY <2>1, <2>2, <2>3, <2>5, ServedStep DEF ServerOK
<1>2. CASE Fail(r)
  <2> DEFINE q == [r EXCEPT !.answer = "failed"]
  <2>1. /\ net' = (net \ {r}) \cup {q}
        /\ UNCHANGED <<server, data, wa, tg, loop, late>>
    BY <1>2, Zenon DEF Fail
  <2>2. q \in Requests /\ q.op = r.op /\ q.on = r.on /\ q.answer = "failed"
    BY <1>0 DEF Requests, Answers
  <2> HIDE DEF q
  <2> QED BY <1>0, <2>1, <2>2, ServedStep DEF ServerOK
<1> QED BY <1>1, <1>2

LEMMA QuietStep == IInv /\ (LinkExpires \/ Webhook \/ UNCHANGED vars) => IInv'
<1> SUFFICES ASSUME IInv, LinkExpires \/ Webhook \/ UNCHANGED vars PROVE IInv'
  OBVIOUS
<1>1. /\ UNCHANGED <<data, wa, tg, loop, net>>
      /\ server' = server \/ late' = late
      /\ late' \in {late, TRUE}
  BY DEF LinkExpires, Webhook, vars
<1>2. ServerOK'
  <2>1. server \in Servers
    BY DEF IInv, Types, ServerOK
  <2>2. CASE Webhook
    BY <2>1, <2>2 DEF Webhook, Servers, ServerOK
  <2>3. CASE LinkExpires \/ UNCHANGED vars
    BY <2>1, <2>3 DEF LinkExpires, vars, ServerOK
  <2> QED BY <2>2, <2>3
<1>3. Types' /\ Verdicts'
  BY <1>1, <1>2 DEF IInv, Types, DataOK, FormOK, ViewOK, LoopOK, NetOK, Verdicts
<1>4. Running' /\ Asking' /\ Linking' /\ Causes'
  BY <1>1 DEF IInv, Running, Asking, Linking, Causes, Polls, Has
<1> QED BY <1>3, <1>4 DEF IInv

-----------------------------------------------------------------------------
(* The inductive invariant *)

LEMMA InitInv == Init => IInv
<1> SUFFICES ASSUME Init PROVE IInv
  OBVIOUS
<1>1. /\ Sent("get", NoPhone, FALSE) \in Requests
      /\ Sent("get", NoPhone, FALSE).op = "get"
      /\ net = {Sent("get", NoPhone, FALSE)}
  BY DEF Init, Sent, Requests, Blank, Rows, Numbers, Answers, Ops
<1>2. NetOK /\ Verdicts
  BY <1>1 DEF NetOK, Verdicts
<1>3. ServerOK
  <2>1. server \in [phone : {NoPhone} \cup (Phones \ Taken), bot : {FALSE}, link : {"none"}]
    BY DEF Init
  <2> QED BY <2>1 DEF ServerOK, Servers, Numbers
<1>4. DataOK /\ FormOK /\ ViewOK /\ LoopOK
  BY DEF Init, DataOK, FormOK, ViewOK, LoopOK, Rows, Forms, Views, Blank, Numbers
<1>5. Running /\ Linking /\ Causes
  BY DEF Init, Running, Linking, Causes, Polls
<1>6. Asking
  BY <1>1 DEF Asking, Live
<1> QED BY <1>2, <1>3, <1>4, <1>5, <1>6 DEF IInv, Types

LEMMA NextInv == IInv /\ [Next]_vars => IInv'
<1> SUFFICES ASSUME IInv, [Next]_vars PROVE IInv'
  OBVIOUS
<1>1. CASE User
  BY <1>1, FormStep, WhatsappStep, ViewStep, TokenStep DEF User
<1>2. CASE AskAvailable \/ Tick
  BY <1>2, AskAvailableStep, TickStep
<1>3. CASE Serve
  BY <1>3, ServeStep
<1>4. CASE Arrive
  <2>1. PICK r \in net : Answered(r)
    BY <1>4 DEF Arrive
  <2> QED BY <2>1, TellAvailableStep, WhatsappAnsweredStep, LinkAnsweredStep,
             StatusAnsweredStep, TelegramAnsweredStep, RowsAnsweredStep DEF Answered
<1>5. CASE LinkExpires \/ Webhook \/ Quiet \/ UNCHANGED vars
  BY <1>5, QuietStep DEF Quiet
<1> QED BY <1>1, <1>2, <1>3, <1>4, <1>5 DEF Next

\* In every reachable state the loop agrees with what is shown, and every
\* control that is disabled has its request out.
THEOREM Invariant == Spec => []IInv
BY InitInv, NextInv, PTL DEF Spec

\* Nothing in the card is disabled for good: each spinner or dead button has a
\* timer or a request of its kind out that will free it.
THEOREM NothingStuck == Spec => []DisabledHasCause
<1>1. IInv => DisabledHasCause
  BY DEF IInv, Causes, DisabledHasCause, Has, InFlight
<1> QED BY <1>1, Invariant, PTL

-----------------------------------------------------------------------------
(* Waiting in vain *)

\* The open dialog is idle: by the invariant, the only way to wait in vain.
Idle == tg.modal /\ tg.status = "idle"

\* A view is drawn idle only as it is, and not when its tab has just come up.
LEMMA RenderedIdle ==
    ASSUME NEW view \in Views, NEW requests, NEW relinked,
           RenderTelegram(view, requests, relinked), tg'.status = "idle"
    PROVE  tg' = view /\ ~AutoStarts(view)
<1>1. tg' = IF AutoStarts(view) THEN [view EXCEPT !.status = "waiting"] ELSE view
  BY Zenon DEF RenderTelegram
<1>2. [view EXCEPT !.status = "waiting"].status = "waiting"
  BY DEF Views
<1> QED BY <1>1, <1>2

\* No handler but Try again sets an open dialog to idle.
LEMMA IdleViews ==
    ASSUME IInv, OpenTelegram \/ ShowTab \/ CloseTelegram, Idle' PROVE Idle
<1>0. tg \in Views /\ tg'.status = "idle" /\ tg'.modal
  BY DEF IInv, Types, ViewOK, Idle
<1>1. CASE OpenTelegram
  <2> DEFINE view == [modal |-> TRUE, tab |-> "quick", token |-> FALSE, busy |-> tg.busy,
                      managed |-> FALSE, status |-> "idle"]
  <2>1. RenderTelegram(view, net, FALSE) /\ ~tg.modal
    BY <1>1, Zenon DEF OpenTelegram, NoDialog
  <2>2. view \in Views
    BY <1>0 DEF Views
  <2>3. AutoStarts(view)
    BY <2>1 DEF AutoStarts
  <2> HIDE DEF view
  <2> QED BY <1>0, <2>1, <2>2, <2>3, RenderedIdle
<1>2. CASE ShowTab
  <2>1. PICK tab \in {"quick", "paste"} : RenderTelegram([tg EXCEPT !.tab = tab], net, FALSE)
    BY <1>2, Zenon DEF ShowTab
  <2> DEFINE view == [tg EXCEPT !.tab = tab]
  <2>2. view \in Views /\ view.status = tg.status /\ view.modal = tg.modal
    BY <1>0 DEF Views
  <2>3. RenderTelegram(view, net, FALSE)
    BY <2>1
  <2> HIDE DEF view
  <2> QED BY <1>0, <2>2, <2>3, RenderedIdle DEF Idle
<1>3. CASE CloseTelegram
  <2> DEFINE view == [tg EXCEPT !.modal = FALSE]
  <2>1. RenderTelegram(view, net, FALSE)
    BY <1>3, Zenon DEF CloseTelegram
  <2>2. view \in Views /\ ~view.modal
    BY <1>0 DEF Views
  <2> HIDE DEF view
  <2> QED BY <1>0, <2>1, <2>2, RenderedIdle
<1> QED BY <1>1, <1>2, <1>3

\* Nor does a timer, a link, a verdict or a bot's answer.
LEMMA IdleAnswers ==
    ASSUME IInv, Idle',
           Tick \/ \E r \in net : LinkAnswered(r) \/ StatusAnswered(r) \/ TelegramAnswered(r)
    PROVE  Idle
<1>0. tg \in Views /\ tg'.status = "idle" /\ tg'.modal
  BY DEF IInv, Types, ViewOK, Idle
<1>1. ASSUME NEW status \in {"connected", "error", "expired"}, NEW requests,
             RenderTelegram([tg EXCEPT !.status = status], requests, FALSE)
      PROVE  FALSE
  <2> DEFINE view == [tg EXCEPT !.status = status]
  <2>1. view \in Views /\ view.status = status
    BY <1>0 DEF Views
  <2>2. RenderTelegram(view, requests, FALSE)
    BY <1>1
  <2> HIDE DEF view
  <2> QED BY <1>0, <2>1, <2>2, RenderedIdle
<1>2. CASE Tick
  BY <1>0, <1>1, <1>2, Zenon DEF Tick, Idle
<1>3. ASSUME NEW r \in net, LinkAnswered(r) PROVE Idle
  <2>1. CASE r.answer = "failed"
    BY <1>1, <1>3, <2>1, Zenon DEF LinkAnswered
  <2>2. CASE r.answer # "failed"
    <3> DEFINE view == [tg EXCEPT !.managed = TRUE]
    <3>1. RenderTelegram(view, net \ {r}, TRUE)
      BY <1>3, <2>2, Zenon DEF LinkAnswered
    <3>2. view \in Views /\ view.status = tg.status /\ view.modal = tg.modal
      BY <1>0 DEF Views
    <3> HIDE DEF view
    <3> QED BY <1>0, <3>1, <3>2, RenderedIdle DEF Idle
  <2> QED BY <2>1, <2>2
<1>4. ASSUME NEW r \in net, StatusAnswered(r) PROVE Idle
  <2>1. CASE r.on /\ r.answer \in {"connected", "error"}
    BY <1>1, <1>4, <2>1, Zenon DEF StatusAnswered
  <2>2. CASE ~(r.on /\ r.answer \in {"connected", "error"})
    BY <1>0, <1>4, <2>2 DEF StatusAnswered, Idle
  <2> QED BY <2>1, <2>2
<1>5. ASSUME NEW r \in net, TelegramAnswered(r) PROVE Idle
  <2> DEFINE open == tg.modal /\ ~(r.answer = "ok" /\ r.on)
             view == [tg EXCEPT !.busy = FALSE, !.modal = open]
  <2>1. RenderTelegram(view, net \ {r}, FALSE)
    BY <1>5, Zenon DEF TelegramAnswered
  <2>2. open \in BOOLEAN /\ (open => tg.modal)
    BY <1>0 DEF Views
  <2> HIDE DEF open
  <2>3. view \in Views /\ view.status = tg.status /\ view.modal = open
    BY <1>0, <2>2 DEF Views
  <2> HIDE DEF view
  <2> QED BY <1>0, <2>1, <2>2, <2>3, RenderedIdle DEF Idle
<1> QED BY <1>2, <1>3, <1>4, <1>5

\* Nor does any other step.
LEMMA IdleStays == IInv /\ [Next]_vars /\ Idle' => Idle \/ TryAgain
<1> SUFFICES ASSUME IInv, [Next]_vars, Idle', ~TryAgain PROVE Idle
  OBVIOUS
<1>1. CASE UNCHANGED tg
  BY <1>1 DEF Idle
<1>2. CASE PasteToken \/ SaveTelegram \/ DisconnectTelegram
  BY <1>2 DEF IInv, Types, ViewOK, Views, Idle, PasteToken, SaveTelegram, DisconnectTelegram
<1>3. CASE User
  <2>1. CASE OpenWhatsapp \/ TypePhone \/ CloseWhatsapp \/ SaveWhatsapp \/ DisconnectWhatsapp
    BY <1>1, <2>1
      DEF OpenWhatsapp, TypePhone, CloseWhatsapp, SaveWhatsapp, DisconnectWhatsapp
  <2> QED BY <1>2, <1>3, <2>1, IdleViews DEF User
<1>4. CASE AskAvailable \/ LinkExpires \/ Serve \/ Webhook \/ Quiet \/ UNCHANGED vars
  BY <1>1, <1>4 DEF AskAvailable, LinkExpires, Serve, Handle, Fail, Webhook, Quiet, vars
<1>5. CASE Arrive
  <2>1. PICK r \in net : Answered(r)
    BY <1>5 DEF Arrive
  <2>2. CASE TellAvailable(r) \/ WhatsappAnswered(r) \/ RowsAnswered(r)
    BY <1>1, <2>2 DEF TellAvailable, WhatsappAnswered, RowsAnswered
  <2> QED BY <2>1, <2>2, IdleAnswers DEF Answered
<1> QED BY <1>3, <1>4, <1>5, IdleAnswers DEF Next

\* So nothing else makes it wait in vain.
LEMMA StallStep == IInv /\ [Next]_vars /\ Stalled' => Stalled \/ TryAgain
<1> SUFFICES ASSUME IInv, [Next]_vars, Stalled' PROVE Stalled \/ TryAgain
  OBVIOUS
<1>1. IInv'
  BY NextInv
<1>2. Idle'
  BY <1>1 DEF IInv, Running, Linking, Polls, Stalled, Idle, Has, InFlight
<1>3. Idle => Stalled
  BY DEF Idle, Stalled
<1> QED BY <1>2, <1>3, IdleStays

\* Whatever answers come late or never, and whatever the user opens, closes or
\* turns to, only Try again makes an open dialog wait in vain, for a link nobody
\* asks for or an outcome nobody polls for.
THEOREM WaitingServed == Spec => WaitingIsServed
<1>1. IInv /\ [Next]_vars => [Stalled' => Stalled \/ TryAgain]_vars
  BY StallStep
<1> QED BY <1>1, Invariant, PTL DEF Spec, WaitingIsServed

-----------------------------------------------------------------------------
(* The Telegram dialog polls as Poller says *)

\* What the abstract poller sees of a dialog.
Verdict(view) == IF view.status \in {"connected", "error", "expired"} THEN view.status ELSE "none"

PollStep == [Poll!Next]_Poll!vars

LEMMA Stutters == UNCHANGED <<tg, loop>> => PollStep
BY DEF PollStep, Poll!vars

\* A view drawn with the verdict there was, or with none and no loop, is a step of the poller.
LEMMA RenderedPolls ==
    ASSUME IInv,
           NEW view \in Views, NEW requests \in SUBSET Requests, NEW relinked \in BOOLEAN,
           RenderTelegram(view, requests, relinked),
           Verdict(view) = Verdict(tg) \/ (Verdict(view) = "none" /\ ~view.managed)
    PROVE  PollStep
<1>1. /\ loop' \in {"off", "timer", "asked"} /\ Running'
      /\ tg'.managed = view.managed
      /\ \/ tg'.status = view.status
         \/ view.status = "idle" /\ tg'.status = "waiting"
      /\ \/ loop' = loop /\ PollDeps(tg') = PollDeps(tg)
         \/ loop' \in {"off", "timer"}
  BY Rendered DEF IInv, Types
<1>2. Verdict(tg') = Verdict(view)
  BY <1>1 DEF Verdict
<1>3. loop' # "off" => Verdict(tg') = "none" /\ tg'.managed
  BY <1>1 DEF Running, Polls, Verdict
<1>4. CASE loop' = loop /\ PollDeps(tg') = PollDeps(tg)
  <2>1. tg'.status = tg.status
    BY <1>4 DEF PollDeps
  <2> QED BY <1>4, <2>1 DEF PollStep, Poll!vars
<1>5. CASE loop' = "off"
  <2>1. Verdict(tg') \in {Verdict(tg), "none"}
    BY <1>2
  <2> QED BY <1>5, <2>1 DEF PollStep, Poll!Next, Poll!Drop, Verdict
<1>6. CASE loop' = "timer"
  <2>1. Verdict(tg') = "none" /\ Verdict(tg) = "none"
    BY <1>1, <1>2, <1>3, <1>6
  <2> QED BY <1>6, <2>1 DEF PollStep, Poll!Next, Poll!Begin, Verdict
<1> QED BY <1>1, <1>4, <1>5, <1>6

\* A view drawn with a new verdict, no longer waiting, ends the loop.
LEMMA RenderedEnds ==
    ASSUME IInv,
           NEW view \in Views, NEW requests \in SUBSET Requests, NEW relinked \in BOOLEAN,
           RenderTelegram(view, requests, relinked),
           view.status \in {"connected", "error", "expired"}
    PROVE  loop' = "off" /\ Verdict(tg') = view.status
<1>1. /\ Running'
      /\ tg'.status = view.status
  BY Rendered DEF IInv, Types
<1> QED BY <1>1 DEF Running, Polls, Verdict

LEMMA ViewPolls ==
    IInv /\ (OpenTelegram \/ ShowTab \/ CloseTelegram \/ TryAgain) => PollStep
<1> SUFFICES ASSUME IInv, OpenTelegram \/ ShowTab \/ CloseTelegram \/ TryAgain PROVE PollStep
  OBVIOUS
<1>1. PICK view \in Views :
        /\ RenderTelegram(view, net, FALSE)
        /\ \/ view.status = "idle" /\ ~view.managed
           \/ view.status = tg.status
  <2>0. tg \in Views
    BY DEF IInv, Types, ViewOK
  <2>1. CASE OpenTelegram
    <3> DEFINE view == [modal |-> TRUE, tab |-> "quick", token |-> FALSE, busy |-> tg.busy,
                        managed |-> FALSE, status |-> "idle"]
    <3>1. view \in Views /\ view.status = "idle" /\ ~view.managed
      BY <2>0 DEF Views
    <3>2. RenderTelegram(view, net, FALSE)
      BY <2>1, Zenon DEF OpenTelegram
    <3> HIDE DEF view
    <3> QED BY <3>1, <3>2
  <2>2. CASE ShowTab
    <3>1. PICK tab \in {"quick", "paste"} : RenderTelegram([tg EXCEPT !.tab = tab], net, FALSE)
      BY <2>2, Zenon DEF ShowTab
    <3> DEFINE view == [tg EXCEPT !.tab = tab]
    <3>2. view \in Views /\ view.status = tg.status
      BY <2>0 DEF Views
    <3> HIDE DEF view
    <3> QED BY <3>1, <3>2 DEF view
  <2>3. CASE CloseTelegram
    <3> DEFINE view == [tg EXCEPT !.modal = FALSE]
    <3>1. view \in Views /\ view.status = tg.status
      BY <2>0 DEF Views
    <3>2. RenderTelegram(view, net, FALSE)
      BY <2>3, Zenon DEF CloseTelegram
    <3> HIDE DEF view
    <3> QED BY <3>1, <3>2
  <2>4. CASE TryAgain
    <3> DEFINE view == [tg EXCEPT !.managed = FALSE, !.status = "idle"]
    <3>1. view \in Views /\ view.status = "idle" /\ ~view.managed
      BY <2>0 DEF Views
    <3>2. RenderTelegram(view, net, FALSE)
      BY <2>4, Zenon DEF TryAgain
    <3> HIDE DEF view
    <3> QED BY <3>1, <3>2
  <2> QED BY <2>1, <2>2, <2>3, <2>4
<1>2. net \in SUBSET Requests
  BY DEF IInv, Types, NetOK
<1>3. Verdict(view) = Verdict(tg) \/ (Verdict(view) = "none" /\ ~view.managed)
  BY <1>1 DEF Verdict
<1> QED BY <1>1, <1>2, <1>3, RenderedPolls

LEMMA LinkPolls ==
    ASSUME IInv, NEW r \in net, LinkAnswered(r) PROVE PollStep
<1>1. tg \in Views /\ net \ {r} \in SUBSET Requests
  BY Without DEF IInv, Types, ViewOK
<1>2. CASE r.answer = "failed"
  <2> DEFINE view == [tg EXCEPT !.status = "error"]
  <2>1. RenderTelegram(view, net \ {r}, FALSE)
    BY <1>2, Zenon DEF LinkAnswered
  <2>2. view \in Views /\ view.status = "error"
    BY <1>1 DEF Views
  <2> HIDE DEF view
  <2>3. loop' = "off" /\ Verdict(tg') = "error"
    BY <1>1, <2>1, <2>2, RenderedEnds
  <2> QED BY <2>3 DEF PollStep, Poll!Next, Poll!NoLink, Verdict
<1>3. CASE r.answer # "failed"
  <2> DEFINE view == [tg EXCEPT !.managed = TRUE]
  <2>1. RenderTelegram(view, net \ {r}, TRUE)
    BY <1>3, Zenon DEF LinkAnswered
  <2>2. view \in Views /\ Verdict(view) = Verdict(tg)
    BY <1>1 DEF Views, Verdict
  <2> HIDE DEF view
  <2> QED BY <1>1, <2>1, <2>2, RenderedPolls
<1> QED BY <1>2, <1>3

LEMMA TickPolls == IInv /\ Tick => PollStep
<1> SUFFICES ASSUME IInv, Tick PROVE PollStep
  OBVIOUS
<1>1. tg \in Views /\ net \in SUBSET Requests /\ loop = "timer"
  BY DEF IInv, Types, ViewOK, NetOK, Tick
<1>2. CASE late
  <2> DEFINE view == [tg EXCEPT !.status = "expired"]
  <2>1. RenderTelegram(view, net, FALSE)
    BY <1>2, Zenon DEF Tick
  <2>2. view \in Views /\ view.status = "expired"
    BY <1>1 DEF Views
  <2> HIDE DEF view
  <2>3. loop' = "off" /\ Verdict(tg') = "expired"
    BY <1>1, <2>1, <2>2, RenderedEnds
  <2> QED BY <1>1, <2>3 DEF PollStep, Poll!Next, Poll!Decide, Verdict
<1>3. CASE ~late
  <2>1. loop' = "asked" /\ UNCHANGED tg
    BY <1>3 DEF Tick
  <2> QED BY <1>1, <2>1 DEF PollStep, Poll!Next, Poll!Ask
<1> QED BY <1>2, <1>3

LEMMA StatusPolls ==
    ASSUME IInv, NEW r \in net, StatusAnswered(r) PROVE PollStep
<1>1. /\ tg \in Views /\ r.op = "status" /\ net \ {r} \in SUBSET Requests
      /\ r.on => loop = "asked"
  BY Without DEF IInv, Types, ViewOK, Asking, Live, StatusAnswered
<1>2. CASE r.on /\ r.answer \in {"connected", "error"}
  <2> DEFINE view == [tg EXCEPT !.status = r.answer]
             more == IF r.answer = "connected" THEN {Sent("get", NoPhone, FALSE)} ELSE {}
             requests == (net \ {r}) \cup more
  <2>1. RenderTelegram(view, requests, FALSE)
    BY <1>2, Zenon DEF StatusAnswered
  <2>2. view \in Views /\ view.status = r.answer
    BY <1>1, <1>2 DEF Views
  <2>3. more \subseteq Requests
    <3>1. Sent("get", NoPhone, FALSE) \in Requests
      BY DEF Sent, Requests, Blank, Rows, Numbers, Answers, Ops
    <3> QED BY <3>1
  <2> HIDE DEF view, more
  <2>4. requests \in SUBSET Requests
    BY <1>1, <2>3
  <2> HIDE DEF requests
  <2>5. loop' = "off" /\ Verdict(tg') = r.answer
    BY <1>2, <2>1, <2>2, <2>4, RenderedEnds
  <2> QED BY <1>1, <1>2, <2>5 DEF PollStep, Poll!Next, Poll!Decide, Verdict
<1>3. CASE ~(r.on /\ r.answer \in {"connected", "error"})
  <2>1. UNCHANGED tg /\ ((~r.on /\ loop' = loop) \/ (r.on /\ loop' = "timer"))
    BY <1>3 DEF StatusAnswered
  <2>2. CASE ~r.on
    BY <2>1, <2>2, Stutters
  <2>3. CASE r.on
    BY <1>1, <2>1, <2>3 DEF PollStep, Poll!Next, Poll!Again
  <2> QED BY <2>2, <2>3
<1> QED BY <1>2, <1>3

LEMMA TelegramPolls ==
    ASSUME IInv, NEW r \in net, TelegramAnswered(r) PROVE PollStep
<1> DEFINE open == tg.modal /\ ~(r.answer = "ok" /\ r.on)
           view == [tg EXCEPT !.busy = FALSE, !.modal = open]
<1>1. RenderTelegram(view, net \ {r}, FALSE)
  BY Zenon DEF TelegramAnswered
<1>2. tg \in Views /\ net \ {r} \in SUBSET Requests
  BY Without DEF IInv, Types, ViewOK
<1>3. open \in BOOLEAN
  BY <1>2 DEF Views
<1> HIDE DEF open
<1>4. view \in Views /\ Verdict(view) = Verdict(tg)
  BY <1>2, <1>3 DEF Views, Verdict
<1> HIDE DEF view
<1> QED BY <1>1, <1>2, <1>4, RenderedPolls

LEMMA TokenPolls == IInv /\ (PasteToken \/ SaveTelegram \/ DisconnectTelegram) => PollStep
<1> SUFFICES ASSUME IInv, PasteToken \/ SaveTelegram \/ DisconnectTelegram PROVE PollStep
  OBVIOUS
<1>1. loop' = loop /\ tg'.status = tg.status
  BY DEF IInv, Types, ViewOK, Views, PasteToken, SaveTelegram, DisconnectTelegram
<1> QED BY <1>1 DEF PollStep, Poll!vars

LEMMA NextPolls == IInv /\ [Next]_vars => PollStep
<1> SUFFICES ASSUME IInv, [Next]_vars PROVE PollStep
  OBVIOUS
<1>1. CASE User
  <2>1. CASE OpenWhatsapp \/ TypePhone \/ CloseWhatsapp \/ SaveWhatsapp \/ DisconnectWhatsapp
    BY <2>1, Stutters
      DEF OpenWhatsapp, TypePhone, CloseWhatsapp, SaveWhatsapp, DisconnectWhatsapp
  <2> QED BY <1>1, <2>1, ViewPolls, TokenPolls DEF User
<1>2. CASE Tick
  BY <1>2, TickPolls
<1>3. CASE AskAvailable \/ LinkExpires \/ Webhook \/ Quiet \/ UNCHANGED vars
  BY <1>3, Stutters DEF AskAvailable, LinkExpires, Webhook, Quiet, vars
<1>4. CASE Serve
  BY <1>4, Stutters DEF Serve, Handle, Fail
<1>5. CASE Arrive
  <2>1. PICK r \in net : Answered(r)
    BY <1>5 DEF Arrive
  <2>2. CASE TellAvailable(r) \/ WhatsappAnswered(r) \/ RowsAnswered(r)
    BY <2>2, Stutters DEF TellAvailable, WhatsappAnswered, RowsAnswered
  <2> QED BY <2>1, <2>2, LinkPolls, StatusPolls, TelegramPolls DEF Answered
<1> QED BY <1>1, <1>2, <1>3, <1>4, <1>5 DEF Next

\* The dialog implements the abstract poller, as far as safety goes: a verdict comes
\* only from the loop that runs, its deadline or a link refused, never from a loop
\* that was dropped. (That every loop ends is checked by TLC.)
THEOREM PollsAsPoller == Spec => Poll!Spec
<1>1. Init => Poll!Init
  BY DEF Init, Poll!Init
<1>2. IInv /\ [Next]_vars => [Poll!Next]_Poll!vars
  BY NextPolls DEF PollStep
<1> QED BY <1>1, <1>2, Invariant, PTL DEF Spec, Poll!Spec

=============================================================================

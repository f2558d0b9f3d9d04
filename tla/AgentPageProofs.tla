--------------------------- MODULE AgentPageProofs ---------------------------
(***************************************************************************)
(* Proofs about the two cards of an agent's page, beside the chat, for any *)
(* numbers, loops and bounds: the facts BridgesPanelProofs proves of the   *)
(* bridges card hold of it on the page, and the Google card's "Waiting"    *)
(* and "busy" have their cause.                                            *)
(***************************************************************************)
EXTENDS MCAgentPage, FiniteSetTheorems, TLAPS

USE CardsAssumption

\* The bridges card with what is proved about it.
Facts == INSTANCE BridgesPanelProofs

----------------------------------------------------------------------------
(* The bridges card                                                        *)

\* Both instances of BridgesPanel say the same.
LEMMA SameStep == Bridges!Next => Facts!Next
BY Zenon DEF Bridges!Next, Facts!Next, Bridges!User, Facts!User,
      Bridges!OpenWhatsapp, Facts!OpenWhatsapp, Bridges!TypePhone, Facts!TypePhone,
      Bridges!CloseWhatsapp, Facts!CloseWhatsapp, Bridges!SaveWhatsapp,
      Facts!SaveWhatsapp, Bridges!DisconnectWhatsapp, Facts!DisconnectWhatsapp,
      Bridges!OpenTelegram, Facts!OpenTelegram, Bridges!ShowTab, Facts!ShowTab,
      Bridges!CloseTelegram, Facts!CloseTelegram, Bridges!TryAgain, Facts!TryAgain,
      Bridges!PasteToken, Facts!PasteToken, Bridges!SaveTelegram, Facts!SaveTelegram,
      Bridges!DisconnectTelegram, Facts!DisconnectTelegram, Bridges!AskAvailable,
      Facts!AskAvailable, Bridges!Tick, Facts!Tick, Bridges!LinkExpires,
      Facts!LinkExpires, Bridges!Serve, Facts!Serve, Bridges!Arrive, Facts!Arrive,
      Bridges!Webhook, Facts!Webhook, Bridges!Quiet, Facts!Quiet, Bridges!Answered,
      Facts!Answered, Bridges!Handle, Facts!Handle, Bridges!Fail, Facts!Fail,
      Bridges!TellAvailable, Facts!TellAvailable, Bridges!WhatsappAnswered,
      Facts!WhatsappAnswered, Bridges!LinkAnswered, Facts!LinkAnswered,
      Bridges!StatusAnswered, Facts!StatusAnswered, Bridges!TelegramAnswered,
      Facts!TelegramAnswered, Bridges!RowsAnswered, Facts!RowsAnswered,
      Bridges!UserActs, Facts!UserActs, Bridges!RenderTelegram, Facts!RenderTelegram,
      Bridges!AutoStarts, Facts!AutoStarts, Bridges!Polls, Facts!Polls,
      Bridges!PollDeps, Facts!PollDeps, Bridges!Cancelled, Facts!Cancelled,
      Bridges!Sent, Facts!Sent, Bridges!Blank, Facts!Blank, Bridges!NoDialog,
      Facts!NoDialog, Bridges!Checked, Facts!Checked, Bridges!Numbers, Facts!Numbers,
      Bridges!SaveEnabled, Facts!SaveEnabled, Bridges!Room, Facts!Room,
      Bridges!Cardinality, Facts!Cardinality, Bridges!Effect, Facts!Effect,
      Bridges!Reply, Facts!Reply, Bridges!StatusOf, Facts!StatusOf, Bridges!RowsOf,
      Facts!RowsOf, Bridges!vars, Facts!vars

\* What the user may still do only shrinks, and not below nothing.
LEMMA UserSteps ==
    ASSUME Bridges!Next, left \in 0 .. MaxUser PROVE left' \in 0 .. MaxUser
<1>1. Bridges!UserActs \/ left' = left
    BY Zenon DEF Bridges!Next, Bridges!User, Bridges!OpenWhatsapp, Bridges!TypePhone,
      Bridges!CloseWhatsapp, Bridges!SaveWhatsapp, Bridges!DisconnectWhatsapp,
      Bridges!OpenTelegram, Bridges!ShowTab, Bridges!CloseTelegram, Bridges!TryAgain,
      Bridges!PasteToken, Bridges!SaveTelegram, Bridges!DisconnectTelegram,
      Bridges!AskAvailable, Bridges!Tick, Bridges!LinkExpires, Bridges!Serve, Bridges!Handle,
      Bridges!Fail, Bridges!Arrive, Bridges!Answered, Bridges!TellAvailable,
      Bridges!WhatsappAnswered, Bridges!LinkAnswered, Bridges!StatusAnswered,
      Bridges!TelegramAnswered, Bridges!RowsAnswered, Bridges!Webhook, Bridges!Quiet,
      Bridges!vars
<1> QED
    BY <1>1 DEF Bridges!UserActs

BridgesInv == Facts!IInv /\ left \in 0 .. MaxUser

\* The card as it is first drawn.
LEMMA BridgesFirst == Bridges!Init => BridgesInv
<1>1. Bridges!Init => Facts!Init
    BY Zenon DEF Bridges!Init, Facts!Init, Bridges!Blank, Facts!Blank, Bridges!Sent, Facts!Sent
<1>2. Bridges!Init => left = MaxUser
    BY DEF Bridges!Init
<1>3. MaxUser \in 0 .. MaxUser
    OBVIOUS
<1> QED
    BY <1>1, <1>2, <1>3, Facts!InitInv DEF BridgesInv

\* Every step of the page keeps what is known of the card.
LEMMA BridgesStep == ASSUME BridgesInv, Bridges!Next \/ UNCHANGED bVars PROVE BridgesInv'
<1>1. [Facts!Next]_Facts!vars
    BY SameStep DEF bVars, Facts!vars
<1>2. Facts!IInv'
    BY <1>1, Facts!NextInv DEF BridgesInv
<1>3. left' \in 0 .. MaxUser
    BY UserSteps DEF BridgesInv, bVars
<1> QED
    BY <1>2, <1>3 DEF BridgesInv

\* What the page promises of the card.
LEMMA BridgesPromise ==
    ASSUME BridgesInv PROVE Bridges!TypeOK /\ DisabledHasCause
<1>1. Bridges!TypeOK
    BY Zenon DEF BridgesInv, Facts!IInv, Facts!Types, Facts!ServerOK, Facts!DataOK,
       Facts!FormOK, Facts!ViewOK, Facts!LoopOK, Facts!NetOK, Facts!Servers, Facts!Rows,
       Facts!Forms, Facts!Views, Facts!Requests, Facts!Numbers, Facts!Ops, Facts!Answers,
       Bridges!TypeOK, Bridges!Rows, Bridges!Requests, Bridges!Numbers, Bridges!Ops,
       Bridges!Answers
<1>2. DisabledHasCause
    BY DEF BridgesInv, Facts!IInv, Facts!Causes, Facts!Has, DisabledHasCause,
       Bridges!DisabledHasCause, Bridges!InFlight
<1> QED
    BY <1>1, <1>2

\* No step of the page but Try again makes the card's dialog wait in vain.
LEMMA BridgesStall ==
    ASSUME BridgesInv, Bridges!Next \/ UNCHANGED bVars, Bridges!Stalled'
    PROVE  Bridges!Stalled \/ Bridges!TryAgain
<1>1. [Facts!Next]_Facts!vars
    BY SameStep DEF bVars, Facts!vars
<1>2. /\ Bridges!Stalled <=> Facts!Stalled
      /\ Bridges!Stalled' <=> Facts!Stalled'
    BY DEF Bridges!Stalled, Facts!Stalled, Bridges!InFlight, Facts!InFlight
<1>3. Facts!TryAgain => Bridges!TryAgain
    BY Zenon DEF Bridges!TryAgain, Facts!TryAgain, Bridges!UserActs, Facts!UserActs,
       Bridges!RenderTelegram, Facts!RenderTelegram, Bridges!AutoStarts, Facts!AutoStarts,
       Bridges!Polls, Facts!Polls, Bridges!PollDeps, Facts!PollDeps, Bridges!Cancelled,
       Facts!Cancelled, Bridges!Sent, Facts!Sent, Bridges!Blank, Facts!Blank
<1> QED
    BY <1>1, <1>2, <1>3, Facts!StallStep DEF BridgesInv

----------------------------------------------------------------------------
(* The Google card                                                         *)

Cards == [mounted : BOOLEAN, known : BOOLEAN, connected : BOOLEAN,
          error : BOOLEAN, busy : BOOLEAN, waiting : BOOLEAN, wants : BOOLEAN]
Polls == [phase : Google!Phases, answer : Google!Answers]
Asks  == [op : Google!Ops, answer : Google!Answers]

\* The loops that were started.
UsedIn(loops) == {l \in Loops : loops[l].phase # "unused"}

\* A consent page is open for each loop started, at most.
Opened == consents \in Nat /\ consents <= Cardinality(UsedIn(poll))

\* A waiting card has a loop that can end the wait.
Awaited == card.mounted /\ card.waiting => \E l \in Loops : poll[l].phase \in {"timer", "asked"}

\* A busy card has a request out that will give its buttons back.
Caused == card.mounted /\ card.busy =>
              \E r \in gNet : r.op \in {"connect", "disconnect", "reread"}

PollOK == poll \in [Loops -> Polls] /\ ref \in Loops \cup {NoLoop} /\ gLate \in BOOLEAN
NetOK  == account \in BOOLEAN /\ gNet \subseteq Asks

GoogleInv ==
    /\ card \in Cards /\ PollOK /\ NetOK /\ gLeft \in 0 .. MaxUser
    /\ Opened /\ Awaited /\ Caused

\* The card as it is first drawn: it asks for its status.
LEMMA GoogleFirst == Google!Init => GoogleInv
<1> SUFFICES ASSUME Google!Init PROVE GoogleInv
    OBVIOUS
<1>1. /\ card \in Cards /\ ~card.waiting /\ ~card.busy
      /\ gNet = {[op |-> "get", answer |-> ""]} /\ account \in BOOLEAN
      /\ poll = [l \in Loops |-> [phase |-> "unused", answer |-> ""]]
      /\ ref = NoLoop /\ gLate = FALSE /\ gLeft = MaxUser /\ consents = 0
    BY DEF Google!Init, Google!Idle, Cards
<1>2. PollOK /\ NetOK
  <2>1. [op |-> "get", answer |-> ""] \in Asks
      BY DEF Asks, Google!Answers, Google!Ops
  <2>2. [phase |-> "unused", answer |-> ""] \in Polls
      BY DEF Polls, Google!Phases, Google!Answers
  <2> QED
      BY <1>1, <2>1, <2>2 DEF PollOK, NetOK
<1>3. Opened
  <2>1. UsedIn(poll) = {}
      BY <1>1 DEF UsedIn
  <2>2. consents = 0
      BY <1>1
  <2> QED
      BY <2>1, <2>2, FS_EmptySet DEF Opened
<1>4. gLeft \in 0 .. MaxUser
  <2>1. gLeft = MaxUser
      BY <1>1
  <2> QED
      BY <2>1
<1> QED
    BY <1>1, <1>2, <1>3, <1>4 DEF GoogleInv, Awaited, Caused

\* No loop is forgotten, and no page opens: Opened goes on.
LEMMA StillOpened ==
    ASSUME Opened, UsedIn(poll) \subseteq UsedIn(poll'), consents' \in Nat, consents' <= consents
    PROVE  Opened'
<1>1. IsFiniteSet(UsedIn(poll')) /\ IsFiniteSet(UsedIn(poll))
    BY FS_Subset DEF UsedIn
<1>2. Cardinality(UsedIn(poll)) <= Cardinality(UsedIn(poll'))
    BY <1>1, FS_Subset
<1>3. Cardinality(UsedIn(poll)) \in Nat /\ Cardinality(UsedIn(poll')) \in Nat
    BY <1>1, FS_CardinalityType
<1> QED
    BY <1>2, <1>3 DEF Opened, UsedIn

\* A page opens with a loop that was unused.
LEMMA OpensOne ==
    ASSUME Opened, PollOK, NEW l \in Loops, poll[l].phase = "unused",
           poll' = [poll EXCEPT ![l] = Google!Armed(l)], consents' = consents + 1
    PROVE  Opened'
<1>1. IsFiniteSet(UsedIn(poll))
    BY FS_Subset DEF UsedIn
<1>2. UsedIn(poll') = UsedIn(poll) \cup {l} /\ l \notin UsedIn(poll)
    BY DEF UsedIn, PollOK, Google!Armed
<1>3. Cardinality(UsedIn(poll')) = Cardinality(UsedIn(poll)) + 1
    BY <1>1, <1>2, FS_AddElement
<1>4. Cardinality(UsedIn(poll)) \in Nat
    BY <1>1, FS_CardinalityType
<1> QED
    BY <1>3, <1>4 DEF Opened

\* The phases and answers of a loop are typed, whatever handler sets them.
LEMMA LoopTyped ==
    /\ \A l : Google!Armed(l) \in Polls /\ Google!Armed(l).phase = "timer"
    /\ Google!Over \in Polls /\ Google!Over.phase = "over"
    /\ \A x \in Polls : \A a \in Google!Answers :
          [x EXCEPT !.answer = a] \in Polls /\ [x EXCEPT !.answer = a].phase = x.phase
    /\ \A x \in Polls : [x EXCEPT !.phase = "asked"] \in Polls
          /\ [x EXCEPT !.phase = "asked"].phase = "asked"
BY DEF Google!Armed, Google!Over, Polls, Google!Phases, Google!Answers

\* Stopping ends the loop whose timer the ref holds, and the wait.
LEMMA Cleared ==
    ASSUME NEW loops \in [Loops -> Polls]
    PROVE  /\ Google!ClearTimer(loops) \in [Loops -> Polls]
           /\ UsedIn(loops) \subseteq UsedIn(Google!ClearTimer(loops))
BY LoopTyped DEF Google!ClearTimer, UsedIn

\* The handlers that stop the poll leave no wait, and the rest of the card as it was.
LEMMA Stopped ==
    ASSUME NEW loops \in [Loops -> Polls], NEW shown \in Cards,
           Google!StopPolling(loops, shown)
    PROVE  /\ poll' \in [Loops -> Polls] /\ ref' = NoLoop
           /\ UsedIn(loops) \subseteq UsedIn(poll')
           /\ card' \in Cards /\ ~card'.waiting
           /\ card'.busy = shown.busy /\ card'.mounted = shown.mounted
<1>1. poll' = Google!ClearTimer(loops) /\ ref' = NoLoop
        /\ card' = [shown EXCEPT !.waiting = FALSE]
    BY DEF Google!StopPolling
<1>2. /\ [shown EXCEPT !.waiting = FALSE] \in Cards
      /\ ~[shown EXCEPT !.waiting = FALSE].waiting
      /\ [shown EXCEPT !.waiting = FALSE].busy = shown.busy
      /\ [shown EXCEPT !.waiting = FALSE].mounted = shown.mounted
    BY DEF Cards
<1> QED
    BY <1>1, <1>2, Cleared

\* What the user does is counted.
LEMMA ActsLeft ==
    ASSUME Google!UserActs, gLeft \in 0 .. MaxUser PROVE gLeft' \in 0 .. MaxUser
BY DEF Google!UserActs

\* The user's buttons that leave the poll alone.
LEMMA ButtonStep ==
    ASSUME GoogleInv, Google!ChoosePermissions \/ Google!Connect \/ Google!Disconnect
    PROVE  GoogleInv'
<1>1. Google!UserActs /\ UNCHANGED <<account, consents, poll, ref, gLate>>
    BY DEF Google!ChoosePermissions, Google!Connect, Google!Disconnect
<1>u. gLeft' \in 0 .. MaxUser
    BY <1>1, ActsLeft DEF GoogleInv
<1>2. \/ /\ card' = [card EXCEPT !.wants = ~card.wants] /\ gNet' = gNet
      \/ /\ card' = [card EXCEPT !.busy = TRUE, !.error = FALSE]
         /\ \E op \in {"connect", "disconnect"} : gNet' = gNet \cup {[op |-> op, answer |-> ""]}
    BY DEF Google!ChoosePermissions, Google!Connect, Google!Disconnect
<1>3. /\ card' \in Cards /\ card'.waiting = card.waiting /\ card'.mounted = card.mounted
      /\ card'.busy # card.busy => \E r \in gNet' : r.op \in {"connect", "disconnect"}
      /\ gNet \subseteq gNet' /\ gNet' \subseteq Asks
  <2>1. CASE card' = [card EXCEPT !.wants = ~card.wants] /\ gNet' = gNet
    <3>1. /\ card' \in Cards /\ card'.waiting = card.waiting
          /\ card'.mounted = card.mounted /\ card'.busy = card.busy
        BY <2>1 DEF GoogleInv, Cards
    <3> QED
        BY <2>1, <3>1 DEF GoogleInv, NetOK
  <2>2. ASSUME card' = [card EXCEPT !.busy = TRUE, !.error = FALSE],
               NEW op \in {"connect", "disconnect"},
               gNet' = gNet \cup {[op |-> op, answer |-> ""]}
        PROVE  /\ card' \in Cards /\ card'.waiting = card.waiting /\ card'.mounted = card.mounted
               /\ \E r \in gNet' : r.op \in {"connect", "disconnect"}
               /\ gNet \subseteq gNet' /\ gNet' \subseteq Asks
    <3>1. /\ card' \in Cards /\ card'.waiting = card.waiting /\ card'.mounted = card.mounted
        BY <2>2 DEF GoogleInv, Cards
    <3> DEFINE ask == [op |-> op, answer |-> ""]
    <3>2. ask \in Asks /\ ask.op = op /\ gNet' = gNet \cup {ask}
        BY <2>2 DEF Asks, Google!Ops, Google!Answers
    <3> HIDE DEF ask
    <3> QED
        BY <2>2, <3>1, <3>2 DEF GoogleInv, NetOK
  <2> QED
      BY <1>2, <2>1, <2>2
<1> QED
    BY <1>1, <1>u, <1>3 DEF GoogleInv, PollOK, NetOK, Opened, Awaited, Caused

\* Cancel, and leaving the card.
LEMMA LeaveStep == ASSUME GoogleInv, Google!Cancel \/ Google!Unmount PROVE GoogleInv'
<1>1. /\ gLeft' \in 0 .. MaxUser /\ UNCHANGED <<account, consents, gLate, gNet>>
    BY DEF GoogleInv, Google!Cancel, Google!Unmount, Google!UserActs
<1>2. /\ poll' \in [Loops -> Polls] /\ ref' = NoLoop /\ UsedIn(poll) \subseteq UsedIn(poll')
      /\ card' \in Cards /\ ~card'.waiting /\ card'.busy = card.busy
      /\ card'.mounted => card.mounted
  <2>1. CASE Google!Cancel
      BY <2>1, Stopped DEF Google!Cancel, GoogleInv, PollOK
  <2>2. CASE Google!Unmount
    <3>1. card' = [card EXCEPT !.mounted = FALSE, !.waiting = FALSE]
            /\ poll' = Google!ClearTimer(poll) /\ ref' = NoLoop
        BY <2>2 DEF Google!Unmount
    <3>2. card' \in Cards /\ ~card'.waiting /\ card'.busy = card.busy /\ ~card'.mounted
        BY <3>1 DEF GoogleInv, Cards
    <3> QED
        BY <3>1, <3>2, Cleared DEF GoogleInv, PollOK
  <2> QED
      BY <2>1, <2>2
<1>3. Opened'
    BY <1>1, <1>2, StillOpened DEF GoogleInv, Opened
<1> QED
    BY <1>1, <1>2, <1>3 DEF GoogleInv, PollOK, NetOK, Awaited, Caused

\* A loop's timer fires.
LEMMA TickStep == ASSUME GoogleInv, NEW l \in Loops, Google!Tick(l) PROVE GoogleInv'
<1>0. poll[l].phase = "timer" /\ UNCHANGED <<account, consents, gLate, gNet, gLeft>>
    BY DEF Google!Tick
<1>1. CASE gLate
  <2> DEFINE loops == [poll EXCEPT ![l] = Google!Over]
             shown == [card EXCEPT !.error = TRUE]
  <2>1. Google!StopPolling(loops, shown)
      BY <1>1 DEF Google!Tick
  <2>2. loops \in [Loops -> Polls] /\ UsedIn(poll) \subseteq UsedIn(loops)
      BY LoopTyped DEF GoogleInv, PollOK, UsedIn
  <2>3. shown \in Cards /\ shown.busy = card.busy /\ shown.mounted = card.mounted
      BY DEF GoogleInv, Cards
  <2> HIDE DEF loops, shown
  <2>4. /\ poll' \in [Loops -> Polls] /\ ref' = NoLoop /\ UsedIn(poll) \subseteq UsedIn(poll')
        /\ card' \in Cards /\ ~card'.waiting
        /\ card'.busy = card.busy /\ card'.mounted = card.mounted
      BY <2>1, <2>2, <2>3, Stopped
  <2>5. Opened'
      BY <1>0, <2>4, StillOpened DEF GoogleInv, Opened
  <2> QED
      BY <1>0, <2>4, <2>5 DEF GoogleInv, PollOK, NetOK, Awaited, Caused
<1>2. CASE ~gLate
  <2>1. poll' = [poll EXCEPT ![l] = [poll[l] EXCEPT !.phase = "asked"]] /\ UNCHANGED <<card, ref>>
      BY <1>2 DEF Google!Tick, GoogleInv, PollOK
  <2>2. /\ poll' \in [Loops -> Polls] /\ poll'[l].phase = "asked"
        /\ \A k \in Loops \ {l} : poll'[k] = poll[k]
      BY <2>1, LoopTyped DEF GoogleInv, PollOK
  <2>3. UsedIn(poll) \subseteq UsedIn(poll')
      BY <2>2 DEF UsedIn
  <2>4. Opened'
      BY <1>0, <2>3, StillOpened DEF GoogleInv, Opened
  <2>5. Awaited'
      BY <2>1, <2>2 DEF GoogleInv, Awaited
  <2> QED
      BY <1>0, <2>1, <2>2, <2>4, <2>5 DEF GoogleInv, PollOK, NetOK, Caused
<1> QED
    BY <1>1, <1>2

\* A loop's answer arrives, whoever has stopped it meanwhile.
LEMMA TickAnsweredStep == ASSUME GoogleInv, NEW l \in Loops, Google!TickAnswered(l) PROVE GoogleInv'
<1> DEFINE shown == IF poll[l].answer # "failed"
                    THEN [card EXCEPT !.known = TRUE, !.connected = poll[l].answer = "yes"]
                    ELSE card
<1>0. UNCHANGED <<account, consents, gLate, gNet, gLeft>>
    BY DEF Google!TickAnswered
<1>1. \/ Google!StopPolling([poll EXCEPT ![l] = Google!Over], shown)
      \/ poll' = [poll EXCEPT ![l] = Google!Armed(l)] /\ ref' = l /\ card' = shown
    BY DEF Google!TickAnswered
<1>2. /\ shown \in Cards /\ shown.busy = card.busy /\ shown.mounted = card.mounted
      /\ shown.waiting = card.waiting
  <2>1. [card EXCEPT !.known = TRUE, !.connected = poll[l].answer = "yes"] \in Cards
      BY DEF GoogleInv, Cards
  <2> QED
      BY <2>1 DEF GoogleInv, Cards
<1> HIDE DEF shown
<1>3. CASE Google!StopPolling([poll EXCEPT ![l] = Google!Over], shown)
  <2> DEFINE loops == [poll EXCEPT ![l] = Google!Over]
  <2>1. loops \in [Loops -> Polls] /\ UsedIn(poll) \subseteq UsedIn(loops)
      BY LoopTyped DEF GoogleInv, PollOK, UsedIn
  <2>2. Google!StopPolling(loops, shown)
      BY <1>3
  <2> HIDE DEF loops
  <2>3. /\ poll' \in [Loops -> Polls] /\ ref' = NoLoop /\ UsedIn(poll) \subseteq UsedIn(poll')
        /\ card' \in Cards /\ ~card'.waiting
        /\ card'.busy = card.busy /\ card'.mounted = card.mounted
      BY <1>2, <2>1, <2>2, Stopped
  <2>4. Opened'
      BY <1>0, <2>3, StillOpened DEF GoogleInv, Opened
  <2> QED
      BY <1>0, <2>3, <2>4 DEF GoogleInv, PollOK, NetOK, Awaited, Caused
<1>4. CASE poll' = [poll EXCEPT ![l] = Google!Armed(l)] /\ ref' = l /\ card' = shown
  <2>1. poll' \in [Loops -> Polls] /\ poll'[l].phase = "timer"
          /\ \A k \in Loops \ {l} : poll'[k] = poll[k]
      BY <1>4, LoopTyped DEF GoogleInv, PollOK
  <2>2. UsedIn(poll) \subseteq UsedIn(poll')
      BY <2>1 DEF UsedIn
  <2>3. Opened'
      BY <1>0, <2>2, StillOpened DEF GoogleInv, Opened
  <2> QED
      BY <1>0, <1>2, <1>4, <2>1, <2>3 DEF GoogleInv, PollOK, NetOK, Awaited, Caused
<1> QED
    BY <1>1, <1>3, <1>4

\* The answer to Connect: a failure, a consent page with its loop, or the page is left.
LEMMA ConnectAnsweredStep ==
    ASSUME GoogleInv, NEW r \in gNet, Google!ConnectAnswered(r) PROVE GoogleInv'
<1>0. gNet' = gNet \ {r} /\ UNCHANGED <<account, gLeft>>
    BY DEF Google!ConnectAnswered
<1>1. NetOK'
    BY <1>0 DEF GoogleInv, NetOK
<1>2. CASE card' = [card EXCEPT !.busy = FALSE, !.error = TRUE]
           /\ UNCHANGED <<consents, poll, ref, gLate>>
  <2>1. card' \in Cards /\ ~card'.busy /\ card'.mounted = card.mounted
          /\ card'.waiting = card.waiting
      BY <1>2 DEF GoogleInv, Cards
  <2> QED
      BY <1>0, <1>1, <1>2, <2>1 DEF GoogleInv, PollOK, Opened, Awaited, Caused
<1>3. ASSUME NEW l \in Loops, poll[l].phase = "unused",
             poll' = [poll EXCEPT ![l] = Google!Armed(l)], ref' = l,
             consents' = consents + 1, gLate' = FALSE,
             card' = [card EXCEPT !.busy = FALSE, !.waiting = card.waiting \/ card.mounted]
      PROVE  GoogleInv'
  <2>1. card' \in Cards /\ ~card'.busy
      BY <1>3 DEF GoogleInv, Cards
  <2>2. poll' \in [Loops -> Polls] /\ poll'[l].phase = "timer"
      BY <1>3, LoopTyped DEF GoogleInv, PollOK
  <2>3. Opened'
      BY <1>3, OpensOne DEF GoogleInv
  <2>4. PollOK'
      BY <1>3, <2>2 DEF PollOK
  <2>5. Awaited' /\ Caused'
      BY <2>1, <2>2 DEF Awaited, Caused
  <2> QED
      BY <1>0, <1>1, <2>1, <2>3, <2>4, <2>5 DEF GoogleInv
<1>4. CASE card' = [card EXCEPT !.busy = FALSE, !.mounted = FALSE]
           /\ poll' = [l \in Loops |-> Google!Over] /\ ref' = NoLoop
           /\ UNCHANGED <<consents, gLate>>
  <2>1. card' \in Cards /\ ~card'.mounted
      BY <1>4 DEF GoogleInv, Cards
  <2>2. poll' \in [Loops -> Polls] /\ UsedIn(poll) \subseteq UsedIn(poll')
      BY <1>4, LoopTyped DEF UsedIn
  <2>3. Opened'
      BY <1>4, <2>2, StillOpened DEF GoogleInv, Opened
  <2> QED
      BY <1>0, <1>1, <1>4, <2>1, <2>2, <2>3 DEF GoogleInv, PollOK, Awaited, Caused
<1> QED
    BY <1>2, <1>3, <1>4, Zenon DEF Google!ConnectAnswered

\* The answers to Disconnect and to the reading of the status.
LEMMA ReadStep ==
    ASSUME GoogleInv, NEW r \in gNet,
           Google!DisconnectAnswered(r) \/ Google!RefreshAnswered(r)
    PROVE  GoogleInv'
<1>0. UNCHANGED <<account, consents, poll, ref, gLate, gLeft>>
    BY DEF Google!DisconnectAnswered, Google!RefreshAnswered
<1>1. ASSUME card' \in Cards, card'.waiting = card.waiting, card'.mounted = card.mounted,
             card'.busy => card.busy, gNet' \subseteq Asks,
             card'.busy => \/ \E q \in gNet' : q.op = "reread"
                           \/ r.op = "get" /\ gNet' = gNet \ {r}
      PROVE  GoogleInv'
  <2>1. Caused'
      BY <1>1 DEF GoogleInv, Caused
  <2> QED
      BY <1>0, <1>1, <2>1 DEF GoogleInv, PollOK, NetOK, Opened, Awaited
<1>2. CASE Google!DisconnectAnswered(r)
  <2>1. CASE card' = [card EXCEPT !.busy = FALSE, !.error = TRUE] /\ gNet' = gNet \ {r}
    <3>1. card' \in Cards /\ ~card'.busy /\ card'.mounted = card.mounted
            /\ card'.waiting = card.waiting
        BY <2>1 DEF GoogleInv, Cards
    <3> QED
        BY <1>1, <2>1, <3>1 DEF GoogleInv, NetOK
  <2>2. CASE card' = [card EXCEPT !.error = FALSE]
             /\ gNet' = (gNet \ {r}) \cup {[op |-> "reread", answer |-> ""]}
    <3>1. card' \in Cards /\ card'.busy = card.busy /\ card'.mounted = card.mounted
            /\ card'.waiting = card.waiting
        BY <2>2 DEF GoogleInv, Cards
    <3> DEFINE ask == [op |-> "reread", answer |-> ""]
    <3>2. ask \in Asks /\ ask.op = "reread" /\ gNet' = (gNet \ {r}) \cup {ask}
        BY <2>2 DEF Asks, Google!Ops, Google!Answers
    <3> HIDE DEF ask
    <3>3. gNet' \subseteq Asks /\ \E q \in gNet' : q.op = "reread"
        BY <3>2 DEF GoogleInv, NetOK
    <3> QED
        BY <1>1, <3>1, <3>3
  <2> QED
      BY <1>2, <2>1, <2>2, Zenon DEF Google!DisconnectAnswered
<1>3. CASE Google!RefreshAnswered(r)
  <2> DEFINE shown == IF r.answer = "failed" THEN [card EXCEPT !.error = TRUE]
                      ELSE [card EXCEPT !.known = TRUE, !.connected = r.answer = "yes"]
  <2>1. card' = [shown EXCEPT !.busy = shown.busy /\ r.op = "get"] /\ gNet' = gNet \ {r}
      BY <1>3 DEF Google!RefreshAnswered
  <2>2. /\ shown \in Cards /\ shown.busy = card.busy /\ shown.mounted = card.mounted
        /\ shown.waiting = card.waiting
    <3>1. CASE r.answer = "failed"
        BY <3>1 DEF GoogleInv, Cards
    <3>2. CASE r.answer # "failed"
      <4>1. shown = [card EXCEPT !.known = TRUE, !.connected = r.answer = "yes"]
          BY <3>2
      <4> QED
          BY <4>1 DEF GoogleInv, Cards
    <3> QED
        BY <3>1, <3>2
  <2> HIDE DEF shown
  <2>3. /\ card' \in Cards /\ card'.waiting = card.waiting /\ card'.mounted = card.mounted
        /\ card'.busy => card.busy /\ r.op = "get"
      BY <2>1, <2>2 DEF Cards
  <2> QED
      BY <1>1, <2>1, <2>3 DEF GoogleInv, NetOK
<1> QED
    BY <1>2, <1>3

\* A request of the card is handled, or lost.
LEMMA RequestStep ==
    ASSUME GoogleInv, NEW r \in gNet, NEW answer \in Google!Answers, account' \in BOOLEAN,
           gNet' = (gNet \ {r}) \cup {[r EXCEPT !.answer = answer]},
           UNCHANGED <<consents, card, poll, ref, gLate, gLeft>>
    PROVE  GoogleInv'
<1> DEFINE told == [r EXCEPT !.answer = answer]
<1>1. told \in Asks /\ told.op = r.op /\ gNet' = (gNet \ {r}) \cup {told}
    BY DEF GoogleInv, NetOK, Asks
<1> HIDE DEF told
<1>2. NetOK' /\ Caused'
    BY <1>1 DEF GoogleInv, NetOK, Caused
<1> QED
    BY <1>2 DEF GoogleInv, PollOK, Opened, Awaited

\* So is the question of a loop.
LEMMA QuestionStep ==
    ASSUME GoogleInv, NEW l \in Loops, NEW answer \in Google!Answers,
           poll[l].phase = "asked", poll' = [poll EXCEPT ![l].answer = answer],
           UNCHANGED <<account, consents, card, ref, gLate, gNet, gLeft>>
    PROVE  GoogleInv'
<1>1. poll' = [poll EXCEPT ![l] = [poll[l] EXCEPT !.answer = answer]]
    BY DEF GoogleInv, PollOK
<1>2. /\ poll' \in [Loops -> Polls] /\ \A k \in Loops : poll'[k].phase = poll[k].phase
    BY <1>1, LoopTyped DEF GoogleInv, PollOK
<1>3. UsedIn(poll) \subseteq UsedIn(poll')
    BY <1>2 DEF UsedIn
<1>4. Opened'
  <2>1. consents \in Nat /\ consents' = consents /\ consents' <= consents
      BY DEF GoogleInv, Opened
  <2> QED
      BY <1>3, <2>1, StillOpened DEF GoogleInv
<1>5. Awaited'
    BY <1>2 DEF GoogleInv, Awaited
<1> QED
    BY <1>2, <1>4, <1>5 DEF GoogleInv, PollOK, NetOK, Caused

\* The server answers what it is asked, or the answer is lost.
LEMMA ServeStep == ASSUME GoogleInv, Google!Serve \/ Google!Lose PROVE GoogleInv'
<1>t. /\ account \in BOOLEAN /\ "failed" \in Google!Answers
      /\ \A connected : Google!Truth(connected) \in Google!Answers
    BY DEF GoogleInv, NetOK, Google!Answers, Google!Truth
<1>1. CASE Google!Serve
  <2>1. ASSUME NEW r \in gNet, account' = (account /\ r.op # "disconnect"),
               gNet' = (gNet \ {r}) \cup {[r EXCEPT !.answer = Google!Truth(account')]},
               UNCHANGED <<consents, card, poll, ref, gLate, gLeft>>
        PROVE  GoogleInv'
    <3>1. account' \in BOOLEAN /\ Google!Truth(account') \in Google!Answers
        BY <1>t, <2>1
    <3> QED
        BY <2>1, <3>1, RequestStep
  <2>2. ASSUME NEW l \in Loops, poll[l].phase = "asked",
               poll' = [poll EXCEPT ![l].answer = Google!Truth(account)],
               UNCHANGED <<account, consents, card, ref, gLate, gNet, gLeft>>
        PROVE  GoogleInv'
    <3>1. Google!Truth(account) \in Google!Answers
        BY <1>t
    <3> QED
        BY <2>2, <3>1, QuestionStep
  <2> QED
      BY <1>1, <2>1, <2>2, Zenon DEF Google!Serve
<1>2. CASE Google!Lose
  <2>0. UNCHANGED <<account, consents, card, ref, gLate, gLeft>>
      BY <1>2 DEF Google!Lose
  <2>1. ASSUME NEW r \in gNet, gNet' = (gNet \ {r}) \cup {[r EXCEPT !.answer = "failed"]},
               UNCHANGED poll
        PROVE  GoogleInv'
      BY <1>t, <2>0, <2>1, RequestStep
  <2>2. ASSUME NEW l \in Loops, poll[l].phase = "asked",
               poll' = [poll EXCEPT ![l].answer = "failed"], UNCHANGED gNet
        PROVE  GoogleInv'
      BY <1>t, <2>0, <2>2, QuestionStep
  <2> QED
      BY <1>2, <2>1, <2>2, Zenon DEF Google!Lose
<1> QED
    BY <1>1, <1>2

\* Time passes, and the user is busy in another tab.
LEMMA ElsewhereStep ==
    ASSUME GoogleInv, Google!Deadline \/ Google!Consent \/ UNCHANGED gVars PROVE GoogleInv'
<1>1. CASE Google!Deadline
  <2>1. gLate' = TRUE /\ UNCHANGED <<account, consents, card, poll, ref, gNet, gLeft>>
      BY <1>1 DEF Google!Deadline
  <2> QED
      BY <2>1 DEF GoogleInv, PollOK, NetOK, Opened, Awaited, Caused
<1>2. CASE Google!Consent
  <2>1. /\ consents > 0 /\ consents' = consents - 1 /\ account' \in {account, TRUE}
        /\ UNCHANGED <<card, poll, ref, gLate, gNet, gLeft>>
      BY <1>2 DEF Google!Consent
  <2>2. consents' \in Nat /\ consents' <= consents
      BY <2>1 DEF GoogleInv, Opened
  <2>3. Opened'
      BY <2>1, <2>2, StillOpened DEF GoogleInv
  <2>4. account' \in BOOLEAN
      BY <2>1 DEF GoogleInv, NetOK
  <2> QED
      BY <2>1, <2>3, <2>4 DEF GoogleInv, PollOK, NetOK, Awaited, Caused
<1>3. CASE UNCHANGED gVars
    BY <1>3 DEF gVars, GoogleInv, PollOK, NetOK, Opened, Awaited, Caused
<1> QED
    BY <1>1, <1>2, <1>3

\* Every step of the page keeps what is known of the card.
LEMMA GoogleStep == ASSUME GoogleInv, Google!Next \/ UNCHANGED gVars PROVE GoogleInv'
<1>1. CASE Google!Arrive
    BY <1>1, ConnectAnsweredStep, ReadStep DEF Google!Arrive
<1>2. CASE Google!Polling
    BY <1>2, TickStep, TickAnsweredStep DEF Google!Polling
<1>3. CASE Google!Quiet
    BY <1>3, ElsewhereStep DEF Google!Quiet, Google!vars, gVars
<1> QED
    BY <1>1, <1>2, <1>3, ButtonStep, LeaveStep, ServeStep, ElsewhereStep DEF Google!Next

\* What the page promises of the card.
LEMMA GooglePromise == ASSUME GoogleInv PROVE Google!TypeOK /\ GoogleWaitIsPolled
<1>1. consents \in 0 .. Google!Cardinality(Loops)
  <2>1. IsFiniteSet(UsedIn(poll)) /\ Cardinality(UsedIn(poll)) <= Cardinality(Loops)
      BY FS_Subset DEF UsedIn
  <2>2. Cardinality(UsedIn(poll)) \in Nat /\ Cardinality(Loops) \in Nat
      BY <2>1, FS_CardinalityType
  <2>3. Google!Cardinality(Loops) = Cardinality(Loops)
      BY Zenon DEF Cardinality, Google!Cardinality
  <2> QED
      BY <2>1, <2>2, <2>3 DEF GoogleInv, Opened
<1>2. Google!TypeOK
    BY <1>1, Zenon DEF GoogleInv, PollOK, NetOK, Cards, Polls, Asks, Google!TypeOK
<1>3. GoogleWaitIsPolled
    BY DEF GoogleInv, Awaited, Caused, GoogleWaitIsPolled, Google!WaitingIsPolled, Google!Live
<1> QED
    BY <1>2, <1>3

----------------------------------------------------------------------------
(* The page                                                                *)

\* Both cards, whichever is worked on.
LEMMA PageInvariant == MCSpec => [](BridgesInv /\ GoogleInv)
<1>1. MCInit => BridgesInv /\ GoogleInv
    BY BridgesFirst, GoogleFirst DEF MCInit
<1>2. BridgesInv /\ GoogleInv /\ [MCNext]_mcVars => (BridgesInv /\ GoogleInv)'
    BY BridgesStep, GoogleStep DEF MCNext, InChat, InBridges, InGoogle, mcVars
<1> QED
    BY <1>1, <1>2, PTL DEF MCSpec

\* An answer is never stored where one of another kind belongs: both cards
\* keep their types, and a consent page is open only of a loop that was started.
THEOREM CardsTyped == MCSpec => []CardsTypeOK
<1>1. BridgesInv /\ GoogleInv => CardsTypeOK
    BY BridgesPromise, GooglePromise DEF CardsTypeOK
<1> QED
    BY <1>1, PageInvariant, PTL

\* On the page as by itself, a disabled control of the bridges card has its
\* timer or its request out.
THEOREM PageNothingStuck == MCSpec => []DisabledHasCause
<1>1. BridgesInv => DisabledHasCause
    BY BridgesPromise
<1> QED
    BY <1>1, PageInvariant, PTL

\* On the page as by itself, only Try again makes the open Telegram dialog wait
\* in vain.
THEOREM PageWaitingServed == MCSpec => WaitingIsServed
<1>1. BridgesInv /\ [MCNext]_mcVars => [Bridges!Stalled' => Bridges!Stalled \/ Bridges!TryAgain]_(Bridges!vars)
    BY BridgesStall DEF MCNext, InChat, InBridges, InGoogle, mcVars, Bridges!vars, bVars
<1> QED
    BY <1>1, PageInvariant, PTL DEF MCSpec, WaitingIsServed, Bridges!WaitingIsServed

\* Google's "Waiting" has a loop that can still end it, and "busy" a request,
\* though any answer may find the poll stopped (IntegrationsPanel.tsx's poll).
THEOREM GoogleServed == MCSpec => []GoogleWaitIsPolled
<1>1. GoogleInv => GoogleWaitIsPolled
    BY GooglePromise
<1> QED
    BY <1>1, PageInvariant, PTL
=============================================================================

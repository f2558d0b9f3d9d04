------------------------------ MODULE ChatPane ------------------------------
(* The web chat of one agent (components/ChatPane.tsx): one WebSocket to the *)
(* chat proxy, reconnected with a growing delay, the frames that arrive on   *)
(* it and the bubbles they leave. Behind the proxy the agent's gateway runs  *)
(* each message sent and broadcasts the run's events to the open socket; it  *)
(* answers on a socket in the order in which it did things.                  *)
EXTENDS Naturals, Sequences, FiniteSets

CONSTANTS
    Sockets,    \* WebSocket objects, reused once closed
    Runs,       \* messages the user may send, each the run it starts (bound)
    None,
    MaxWire,    \* bound: frames on their way on one socket
    MaxAttempt  \* bound of the backoff: attempts after which the delay is 30 s

ASSUME ChatAssumption == MaxWire \in Nat \ {0} /\ MaxAttempt \in Nat

VARIABLES
    mounted,
    ws,         \* wsRef.current
    sock,       \* the sockets: state, whether "ready" was heard, frames
    waits,      \* connect() calls that await the session's token
    timer,      \* the reconnect timer is armed
    attempt,    \* reconnectAttemptRef.current
    pane,       \* connState, canSend, streamingRunId
    bubble,     \* the assistant bubble of a run, by its runId
    loaded,     \* runs whose text came with the history, without a runId
    gateway     \* what the gateway knows of a run

vars == <<mounted, ws, sock, waits, timer, attempt, pane, bubble, loaded, gateway>>

Frames ==
    [kind : {"ready"}, run : {None}, past : {{}}]
    \cup [kind : {"res", "delta", "terminal"}, run : Runs, past : {{}}]
    \cup [kind : {"history"}, run : {None}, past : SUBSET Runs]

Frame(kind, r, past) == [kind |-> kind, run |-> r, past |-> past]

Closed == [state |-> "closed", greeted |-> FALSE, heard |-> FALSE, asked |-> FALSE, wire |-> <<>>]

(* A socket: its readyState, with the close events still to be delivered;    *)
(* whether the proxy has sent "ready", the pane has seen it and has a history *)
(* outstanding; and the frames under way to the pane.                        *)
SocketRecords ==
    [state : {"closed", "connecting", "open", "denied", "dropped"},
     greeted : BOOLEAN, heard : BOOLEAN, asked : BOOLEAN, wire : Seq(Frames)]

TypeOK ==
    /\ mounted \in BOOLEAN
    /\ ws \in Sockets \cup {None}
    /\ sock \in [Sockets -> SocketRecords]
    /\ \A s \in Sockets : Len(sock[s].wire) <= MaxWire
    /\ waits \in 0 .. 1
    /\ timer \in BOOLEAN
    /\ attempt \in 0 .. MaxAttempt
    /\ pane \in [conn : {"connecting", "connected", "reconnecting", "offline"},
                 canSend : BOOLEAN, streaming : Runs \cup {None}]
    /\ bubble \in [Runs -> {"none", "streaming", "done"}]
    /\ loaded \subseteq Runs
    /\ gateway \in [Runs -> {"none", "sent", "orphaned", "running", "aborting", "done"}]

Init ==
    /\ mounted = TRUE
    /\ ws = None
    /\ sock = [s \in Sockets |-> Closed]
    /\ waits = 1
    /\ timer = FALSE
    /\ attempt = 0
    /\ pane = [conn |-> "connecting", canSend |-> FALSE, streaming |-> None]
    /\ bubble = [r \in Runs |-> "none"]
    /\ loaded = {}
    /\ gateway = [r \in Runs |-> "none"]

-----------------------------------------------------------------------------
(* Connecting. *)

(* The answer to a message sent on a socket that is gone will reach nobody. *)
Orphaned == [r \in Runs |-> IF gateway[r] = "sent" THEN "orphaned" ELSE gateway[r]]

\* Mutant: the backoff's exponent grows without end.
Capped_Not(n) == n

Capped(n) == IF n > MaxAttempt THEN MaxAttempt ELSE n

(* The token is there: a socket is created and becomes the current one. No   *)
(* session: offline, and nothing retries.                                    *)
OpenSocket ==
    /\ waits > 0
    /\ \E s \in Sockets :
          /\ sock[s].state = "closed"
          /\ sock' = [sock EXCEPT ![s] = [Closed EXCEPT !.state = "connecting"]]
          /\ ws' = s
    /\ waits' = waits - 1
    /\ UNCHANGED <<mounted, timer, attempt, pane, bubble, loaded, gateway>>

\* Mutant: without a session the pane goes on trying.
NoSession_Retries ==
    /\ waits > 0
    /\ waits' = waits - 1
    /\ pane' = [pane EXCEPT !.conn = "offline"]
    /\ timer' = TRUE
    /\ UNCHANGED <<mounted, ws, sock, attempt, bubble, loaded, gateway>>

NoSession ==
    /\ waits > 0
    /\ waits' = waits - 1
    /\ pane' = [pane EXCEPT !.conn = "offline"]
    /\ UNCHANGED <<mounted, ws, sock, timer, attempt, bubble, loaded, gateway>>

OnOpen(s) ==
    /\ sock[s].state = "connecting"
    /\ sock' = [sock EXCEPT ![s].state = "open"]
    /\ attempt' = 0
    /\ UNCHANGED <<mounted, ws, waits, timer, pane, bubble, loaded, gateway>>

\* OnClose with the fields "shown" of the pane, the timer armed as "armed" says and
\* "more" calls of connect() at once.
OnClose_With(s, shown, armed, more) ==
    /\ sock[s].state \in {"denied", "dropped"}
    /\ sock' = [sock EXCEPT ![s] = Closed]
    /\ IF sock[s].state = "denied"
       THEN /\ pane' = [pane EXCEPT !.canSend = FALSE, !.conn = "offline"]
            /\ UNCHANGED <<attempt, timer, waits>>
       ELSE /\ pane' = shown
            /\ attempt' = Capped(attempt + 1)
            /\ timer' = armed
            /\ waits' = waits + more
    /\ UNCHANGED <<mounted, ws, bubble, loaded, gateway>>

\* Mutant: a connection that was lost is tried again at once, and on the timer.
OnClose_Twice(s) ==
    OnClose_With(s, [pane EXCEPT !.canSend = FALSE, !.conn = "reconnecting"], TRUE, 1)

\* Mutant: Send stays enabled while a new connection is made.
OnClose_StillSends(s) == OnClose_With(s, [pane EXCEPT !.conn = "reconnecting"], TRUE, 0)

\* Mutant: after a few attempts the timer is not armed.
OnClose_GivesUp(s) ==
    OnClose_With(s, [pane EXCEPT !.canSend = FALSE, !.conn = "reconnecting"],
                 attempt < MaxAttempt, 0)

(* A close with code 1008 is final; any other arms the timer, in place of    *)
(* the one there was. It makes no difference whether the pane is still shown. *)
OnClose(s) ==
    /\ sock[s].state \in {"denied", "dropped"}
    /\ sock' = [sock EXCEPT ![s] = Closed]
    /\ IF sock[s].state = "denied"
       THEN /\ pane' = [pane EXCEPT !.canSend = FALSE, !.conn = "offline"]
            /\ UNCHANGED <<attempt, timer>>
       ELSE /\ pane' = [pane EXCEPT !.canSend = FALSE, !.conn = "reconnecting"]
            /\ attempt' = Capped(attempt + 1)
            /\ timer' = TRUE
    /\ UNCHANGED <<mounted, ws, waits, bubble, loaded, gateway>>

Reconnect ==
    /\ timer
    /\ timer' = FALSE
    /\ waits' = waits + 1
    /\ pane' = [pane EXCEPT !.conn = IF @ = "connected" THEN "reconnecting" ELSE @]
    /\ UNCHANGED <<mounted, ws, sock, attempt, bubble, loaded, gateway>>

(* The pane is closed: the timer is cleared and the socket told to close,    *)
(* which its onclose will report later.                                      *)
Unmount ==
    /\ mounted
    /\ mounted' = FALSE
    /\ timer' = FALSE
    /\ ws' = None
    /\ sock' = [s \in Sockets |->
                  IF s = ws /\ sock[s].state \in {"connecting", "open"}
                  THEN [sock[s] EXCEPT !.state = "dropped"] ELSE sock[s]]
    /\ gateway' = Orphaned
    /\ UNCHANGED <<waits, attempt, pane, bubble, loaded>>

-----------------------------------------------------------------------------
(* Frames. *)

CurrentOpen == ws # None /\ sock[ws].state = "open"

(* "ready" enables Send and asks for the history on the current socket. *)
OnReady(s) ==
    /\ pane' = [pane EXCEPT !.canSend = TRUE, !.conn = "connected"]
    /\ sock' = [t \in Sockets |->
                  [sock[t] EXCEPT !.wire  = IF t = s THEN Tail(@) ELSE @,
                                  !.heard = @ \/ t = s,
                                  !.asked = @ \/ (t = ws /\ CurrentOpen)]]
    /\ UNCHANGED <<bubble, loaded>>

\* Mutant: the history is put before the bubbles there are.
OnHistory_Prepended(past) == loaded' = past /\ UNCHANGED <<pane, bubble>>

(* A history that is not empty replaces every bubble. *)
OnHistory(past) ==
    /\ IF past = {} THEN UNCHANGED <<bubble, loaded>>
       ELSE bubble' = [r \in Runs |-> "none"] /\ loaded' = past
    /\ UNCHANGED pane

(* The answer to chat.send names the run; its bubble is created unless an    *)
(* event was faster.                                                         *)
OnSendAnswered(r) ==
    /\ pane' = [pane EXCEPT !.streaming = r]
    /\ bubble' = [bubble EXCEPT ![r] = IF @ = "none" THEN "streaming" ELSE @]
    /\ UNCHANGED loaded

(* handleChatEvent: a delta or a terminal state of a run. *)
OnChatEvent(r, terminal) ==
    /\ bubble' = [bubble EXCEPT ![r] = IF terminal THEN "done" ELSE "streaming"]
    /\ pane' = [pane EXCEPT !.streaming = IF terminal /\ @ = r THEN None ELSE @]
    /\ UNCHANGED loaded

OnMessage(s) ==
    /\ sock[s].state = "open" /\ sock[s].wire # <<>>
    /\ LET f == Head(sock[s].wire)
       IN  \/ f.kind = "ready" /\ OnReady(s)
           \/ /\ f.kind # "ready"
              /\ sock' = [sock EXCEPT ![s].wire = Tail(@)]
              /\ \/ f.kind = "history"  /\ OnHistory(f.past)
                 \/ f.kind = "res"      /\ OnSendAnswered(f.run)
                 \/ f.kind = "delta"    /\ OnChatEvent(f.run, FALSE)
                 \/ f.kind = "terminal" /\ OnChatEvent(f.run, TRUE)
    /\ UNCHANGED <<mounted, ws, waits, timer, attempt, gateway>>

-----------------------------------------------------------------------------
(* The user. A run that streams shows Stop, and Enter stops it. *)

SendMessage(r) ==
    /\ mounted /\ pane.streaming = None
    /\ pane.canSend /\ CurrentOpen
    /\ gateway[r] = "none"
    /\ gateway' = [gateway EXCEPT ![r] = "sent"]
    /\ UNCHANGED <<mounted, ws, sock, waits, timer, attempt, pane, bubble, loaded>>

AbortStream ==
    /\ mounted /\ pane.streaming # None
    /\ CurrentOpen
    /\ gateway[pane.streaming] = "running"
    /\ gateway' = [gateway EXCEPT ![pane.streaming] = "aborting"]
    /\ UNCHANGED <<mounted, ws, sock, waits, timer, attempt, pane, bubble, loaded>>

-----------------------------------------------------------------------------
(* The proxy and the gateway behind it. *)

Drop(s) ==
    /\ sock[s].state \in {"connecting", "open"}
    /\ sock' = [sock EXCEPT ![s].state = "dropped"]
    /\ gateway' = Orphaned
    /\ UNCHANGED <<mounted, ws, waits, timer, attempt, pane, bubble, loaded>>

Deny(s) ==
    /\ sock[s].state = "open" /\ ~sock[s].greeted
    /\ sock' = [sock EXCEPT ![s].state = "denied"]
    /\ UNCHANGED <<mounted, ws, waits, timer, attempt, pane, bubble, loaded, gateway>>

Greet(s) ==
    /\ sock[s].state = "open" /\ ~sock[s].greeted
    /\ sock' = [sock EXCEPT ![s].greeted = TRUE, ![s].wire = <<Frame("ready", None, {})>>]
    /\ UNCHANGED <<mounted, ws, waits, timer, attempt, pane, bubble, loaded, gateway>>

TellHistory(s) ==
    /\ sock[s].state = "open" /\ sock[s].asked
    /\ Len(sock[s].wire) < MaxWire
    /\ LET past == {r \in Runs : gateway[r] = "done"}
       IN  sock' = [sock EXCEPT ![s].asked = FALSE,
                                ![s].wire = Append(@, Frame("history", None, past))]
    /\ UNCHANGED <<mounted, ws, waits, timer, attempt, pane, bubble, loaded, gateway>>

(* An event goes to every greeted socket; without one it is lost. *)
Broadcast(f) ==
    LET told == {s \in Sockets : sock[s].state = "open" /\ sock[s].greeted}
    IN  /\ \A s \in told : Len(sock[s].wire) < MaxWire
        /\ sock' = [s \in Sockets |->
                      IF s \in told THEN [sock[s] EXCEPT !.wire = Append(@, f)] ELSE sock[s]]

Work(r) ==
    /\ \/ /\ gateway[r] = "sent"
          /\ gateway' = [gateway EXCEPT ![r] = "running"]
          /\ Broadcast(Frame("res", r, {}))
       \/ /\ gateway[r] = "orphaned"
          /\ gateway' = [gateway EXCEPT ![r] = "running"]
          /\ UNCHANGED sock
       \/ /\ gateway[r] = "running"
          /\ Broadcast(Frame("delta", r, {}))
          /\ UNCHANGED gateway
       \/ /\ gateway[r] \in {"running", "aborting"}
          /\ gateway' = [gateway EXCEPT ![r] = "done"]
          /\ Broadcast(Frame("terminal", r, {}))
    /\ UNCHANGED <<mounted, ws, waits, timer, attempt, pane, bubble, loaded>>

-----------------------------------------------------------------------------
LiveSockets == {s \in Sockets : sock[s].state # "closed"}

(* Offline or closed: nothing goes on. *)
Quiet == LiveSockets = {} /\ waits = 0 /\ ~timer /\ UNCHANGED vars

Next ==
    \/ OpenSocket \/ NoSession \/ Reconnect \/ Unmount \/ AbortStream
    \/ \E s \in Sockets : OnOpen(s) \/ OnClose(s) \/ OnMessage(s)
                          \/ Drop(s) \/ Deny(s) \/ Greet(s) \/ TellHistory(s)
    \/ \E r \in Runs : SendMessage(r) \/ Work(r)
    \/ Quiet

Spec == Init /\ [][Next]_vars

(* The token is found or not, timers fire, close events are delivered; and a *)
(* network that keeps dropping connections lets one through now and then.    *)
FairSpec ==
    /\ Spec
    /\ WF_vars(OpenSocket) /\ WF_vars(Reconnect)
    /\ WF_vars(\E s \in Sockets : OnClose(s))
    /\ SF_vars(\E s \in Sockets : OnOpen(s))
    /\ SF_vars(\E s \in Sockets : Greet(s))
    /\ SF_vars(\E s \in Sockets : OnMessage(s))

-----------------------------------------------------------------------------
(* Reconnecting never forks and never dies: at any time there is at most one *)
(* socket, one awaited token or one armed timer, and while the pane is shown *)
(* and not offline there is exactly one.                                     *)
OneConnection ==
    LET ways == Cardinality(LiveSockets) + waits + (IF timer THEN 1 ELSE 0)
    IN  /\ ways <= 1
        /\ mounted /\ pane.conn # "offline" => ways = 1

(* A message is sent only on a socket that has said "ready" and that the     *)
(* pane has not seen closed, however often it reconnected.                   *)
SendsWhenReady ==
    [][\A r \in Runs : gateway[r] = "none" /\ gateway'[r] = "sent" =>
          ws # None /\ sock[ws].heard]_vars

(* An answer is shown once: the history that a reconnection loads never      *)
(* stands beside the bubble its events drew.                                 *)
AnswerShownOnce == \A r \in loaded : bubble[r] = "none"

(* "Don't auto-reconnect": once refused or without a session, no socket is   *)
(* opened again.                                                             *)
OfflineIsFinal ==
    [][pane.conn = "offline" =>
          pane'.conn = "offline" /\ \A s \in LiveSockets' : s \in LiveSockets]_vars

(* A pane that is shown comes to Send, unless it is refused or closed.       *)
Reconnects == mounted ~> pane.canSend \/ pane.conn = "offline" \/ ~mounted
=============================================================================

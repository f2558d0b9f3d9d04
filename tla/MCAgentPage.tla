---------------------------- MODULE MCAgentPage ----------------------------
(* The chat, the bridges card and the Google card of an agent, which share   *)
(* nothing: a behaviour works on one of them, and the others stay as they    *)
(* were first drawn.                                                         *)
EXTENDS ChatPane

CONSTANTS Phones, Taken, NoPhone, MaxNet, MaxUser, Loops, NoLoop

ASSUME CardsAssumption == MaxUser \in Nat /\ IsFiniteSet(Loops)

VARIABLES
    focus,
    server, data, wa, tg, loop, late, net, left,
    account, consents, card, poll, ref, gLate, gNet, gLeft

Bridges == INSTANCE BridgesPanel
Google == INSTANCE IntegrationsPanel WITH late <- gLate, net <- gNet, left <- gLeft

bVars == <<server, data, wa, tg, loop, late, net, left>>
gVars == <<account, consents, card, poll, ref, gLate, gNet, gLeft>>

MCInit ==
    /\ focus \in {"chat", "bridges", "google"}
    /\ Init /\ Bridges!Init /\ Google!Init
    /\ focus # "google" => ~account
    /\ focus # "bridges" => server.phone = NoPhone

mcVars == <<focus, vars, bVars, gVars>>

InChat(step)    == focus = "chat" /\ step /\ UNCHANGED <<focus, bVars, gVars>>
InBridges(step) == focus = "bridges" /\ step /\ UNCHANGED <<focus, vars, gVars>>
InGoogle(step)  == focus = "google" /\ step /\ UNCHANGED <<focus, vars, bVars>>

MCNext == InChat(Next) \/ InBridges(Bridges!Next) \/ InGoogle(Google!Next)

(* The fairness of each FairSpec, for the part that is worked on. *)
MCSpec ==
    /\ MCInit /\ [][MCNext]_mcVars
    /\ WF_mcVars(InChat(OpenSocket) \/ InBridges(Bridges!AskAvailable) \/ InGoogle(Google!Deadline))
    /\ WF_mcVars(InChat(Reconnect) \/ InBridges(Bridges!Tick) \/ InGoogle(Google!Serve))
    /\ WF_mcVars(InBridges(Bridges!LinkExpires) \/ InGoogle(Google!Arrive)
                 \/ InChat(\E s \in Sockets : OnClose(s)))
    /\ WF_mcVars(InBridges(Bridges!Serve))
    /\ WF_mcVars(InBridges(Bridges!Arrive))
    /\ \A l \in Loops : /\ WF_mcVars(InGoogle(Google!Tick(l)))
                        /\ WF_mcVars(InGoogle(Google!TickAnswered(l)))
    /\ SF_mcVars(InChat(\E s \in Sockets : OnOpen(s)))
    /\ SF_mcVars(InChat(\E s \in Sockets : Greet(s)))
    /\ SF_mcVars(InChat(\E s \in Sockets : OnMessage(s)))

-----------------------------------------------------------------------------
(* The states of both cards keep their shape, so that a handler never stores *)
(* an answer of another kind than the one it asked for.                      *)
CardsTypeOK == Bridges!TypeOK /\ Google!TypeOK

(* A pane that is worked on comes to Send, unless it is refused or closed:   *)
(* Reconnects of ChatPane.                                                   *)
ChatReconnects ==
    focus = "chat" /\ mounted ~> pane.canSend \/ pane.conn = "offline" \/ ~mounted

(* A disabled control or a spinner of the bridges card has its cause out:    *)
(* DisabledHasCause of BridgesPanel.                                         *)
DisabledHasCause == Bridges!DisabledHasCause

(* Nothing but Try again makes the open Telegram dialog wait in vain:        *)
(* WaitingIsServed of BridgesPanel.                                          *)
WaitingIsServed == Bridges!WaitingIsServed

(* The Telegram dialog polls as the abstract poller does, and every loop     *)
(* ends: PollerImplemented of BridgesPanel.                                  *)
PollerImplemented == Bridges!PollerImplemented

(* Google's "Waiting" and "busy" have their cause: WaitingIsPolled of        *)
(* IntegrationsPanel.                                                        *)
GoogleWaitIsPolled == Google!WaitingIsPolled

(* Every wait for Google's consent ends: WaitEnds of IntegrationsPanel.      *)
GoogleWaitEnds == Google!WaitEnds
=============================================================================

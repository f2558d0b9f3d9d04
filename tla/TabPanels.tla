----------------------------- MODULE TabPanels -----------------------------
(* What the workspace page shows beside its own detail, each part fetched by *)
(* an effect of its own: the usage of a range (components/UsageTab.tsx; the  *)
(* audit log is the same with one range), an agent's scheduled tasks         *)
(* (AgentScheduledTasksPanel.tsx), the integrations of every agent           *)
(* (IntegrationsTab.tsx), and the voices offered in the form that creates an *)
(* agent (VoicePicker.tsx). Only some of the effects drop a late answer.     *)
EXTENDS Naturals, FiniteSets

CONSTANTS
    Ranges,     \* ranges of usage
    Jobs,       \* scheduled tasks
    Rows,       \* agents whose integrations are listed
    None,       \* no range, task or agent
    MaxNet,     \* bound: requests out at once
    MaxUser     \* bound: what the user does

VARIABLES
    view,       \* the part that is looked at
    usage,      \* UsageTab's state
    tasks,      \* AgentScheduledTasksPanel's state
    cards,      \* IntegrationsTab's state: the agents listed, each one's card
    picker,     \* VoicePicker's state, and the form's gender and voice
    net,        \* requests out, answered by the server or not
    left        \* what the user may still do (bound)

vars == <<view, usage, tasks, cards, picker, net, left>>

Genders == {"female", "male"}
Voices(gender) == IF gender = "female" THEN {"Kore", "Leda"} ELSE {"Puck"}
AllVoices == UNION {Voices(g) : g \in Genders}

(* "alive" until the effect that sent it is cleaned up or its part unmounted. *)
Requests ==
    [op : {"usage", "tasks", "cancel", "card", "manifest"},
     arg : Ranges \cup Jobs \cup Rows \cup {None}, alive : BOOLEAN,
     answer : {"", "failed", "ok"}, snap : SUBSET Jobs]

Sent(op, arg) == [op |-> op, arg |-> arg, alive |-> TRUE, answer |-> "", snap |-> {}]

TypeOK ==
    /\ view \in {"usage", "tasks", "cards", "voices"}
    /\ usage \in [range : Ranges, loading : BOOLEAN, error : BOOLEAN,
                  of : Ranges \cup {None}]
    /\ tasks \in [loading : BOOLEAN, list : SUBSET Jobs, cancelling : Jobs \cup {None}]
    /\ cards \in [listed : SUBSET Rows,
                  card : [Rows -> {"absent", "loading", "failed", "shown"}]]
    /\ picker \in [gender : Genders, voice : AllVoices \cup {""},
                   manifest : {"loading", "failed", "shown"}]
    /\ net \subseteq Requests
    /\ left \in 0 .. MaxUser

-----------------------------------------------------------------------------
(* Mounting: the state of a part that is drawn anew, and what it asks for.   *)

FreshUsage == [range |-> CHOOSE r \in Ranges : TRUE, loading |-> TRUE, error |-> FALSE,
               of |-> None]

FreshTasks == [loading |-> TRUE, list |-> {}, cancelling |-> None]

Loading(listed) ==
    [listed |-> listed, card |-> [a \in Rows |-> IF a \in listed THEN "loading" ELSE "absent"]]

FreshPicker(gender, voice) ==
    [gender |-> gender, voice |-> voice, manifest |-> "loading"]

CardRequests(listed) == {Sent("card", a) : a \in listed}

FirstRequests(listed) ==
    CASE view = "usage"  -> {Sent("usage", FreshUsage.range)}
      [] view = "tasks"  -> {Sent("tasks", None)}
      [] view = "cards"  -> CardRequests(listed)
      [] view = "voices" -> {Sent("manifest", None)}

Dead(requests) == {[r EXCEPT !.alive = FALSE] : r \in requests}

Init ==
    /\ view \in {"usage", "tasks", "cards", "voices"}
    /\ usage = FreshUsage
    /\ tasks = FreshTasks
    /\ cards = Loading(Rows)
    /\ \E g \in Genders : picker = FreshPicker(g, "")
    /\ net = FirstRequests(Rows)
    /\ left = MaxUser

UserActs == left > 0 /\ left' = left - 1

RoomFor(n) == Cardinality(net) + n <= MaxNet

(* Another tab or workspace and back, or the form closed and opened again:   *)
(* the part is mounted afresh. The form keeps its gender and voice, unless   *)
(* an agent was created.                                                     *)
Reopen ==
    /\ UserActs
    /\ LET first == FirstRequests(cards.listed)
       IN  RoomFor(Cardinality(first)) /\ net' = Dead(net) \cup first
    /\ usage' = FreshUsage
    /\ tasks' = FreshTasks
    /\ cards' = Loading(cards.listed)
    /\ \E voice \in {picker.voice, ""} : picker' = FreshPicker(picker.gender, voice)
    /\ UNCHANGED view

-----------------------------------------------------------------------------
(* The usage tab: its effect on the range marks the last one's request       *)
(* cancelled, and its answer is dropped.                                     *)

\* Mutant: the effect has no cleanup.
PickRange_NoCleanup ==
    /\ view = "usage" /\ UserActs /\ RoomFor(1)
    /\ \E range \in Ranges \ {usage.range} :
          /\ usage' = [usage EXCEPT !.range = range, !.loading = TRUE, !.error = FALSE]
          /\ net' = net \cup {Sent("usage", range)}
    /\ UNCHANGED <<view, tasks, cards, picker>>

PickRange ==
    /\ view = "usage" /\ UserActs /\ RoomFor(1)
    /\ \E range \in Ranges \ {usage.range} :
          /\ usage' = [usage EXCEPT !.range = range, !.loading = TRUE, !.error = FALSE]
          /\ net' = Dead(net) \cup {Sent("usage", range)}
    /\ UNCHANGED <<view, tasks, cards, picker>>

UsageAnswered(r) ==
    /\ r.op = "usage"
    /\ usage' = IF ~r.alive THEN usage
                ELSE IF r.answer = "failed"
                THEN [usage EXCEPT !.loading = FALSE, !.error = TRUE]
                ELSE [usage EXCEPT !.loading = FALSE, !.of = r.arg]
    /\ net' = net \ {r}
    /\ UNCHANGED <<view, tasks, cards, picker, left>>

-----------------------------------------------------------------------------
(* The scheduled tasks: a task cancelled loads them again.                   *)

CancelTask ==
    /\ view = "tasks" /\ UserActs /\ RoomFor(1)
    /\ \E j \in tasks.list \ {tasks.cancelling} :
          /\ tasks' = [tasks EXCEPT !.cancelling = j]
          /\ net' = net \cup {Sent("cancel", j)}
    /\ UNCHANGED <<view, usage, cards, picker>>

(* load() runs even when the panel is gone by now. *)
TaskCancelled(r) ==
    /\ r.op = "cancel"
    /\ LET ok == r.answer = "ok"
       IN  /\ net' = (net \ {r}) \cup
                     IF ok THEN {[Sent("tasks", None) EXCEPT !.alive = r.alive]} ELSE {}
           /\ tasks' = IF r.alive THEN [tasks EXCEPT !.cancelling = None, !.loading = @ \/ ok]
                       ELSE tasks
    /\ UNCHANGED <<view, usage, cards, picker, left>>

\* Mutant: a load that fails leaves "Loading...".
TasksAnswered_StillLoading(r) ==
    /\ r.op = "tasks"
    /\ tasks' = IF ~r.alive \/ r.answer = "failed" THEN tasks
                ELSE [tasks EXCEPT !.loading = FALSE, !.list = r.snap]
    /\ net' = net \ {r}
    /\ UNCHANGED <<view, usage, cards, picker, left>>

TasksAnswered(r) ==
    /\ r.op = "tasks"
    /\ tasks' = IF ~r.alive THEN tasks
                ELSE IF r.answer = "failed" THEN [tasks EXCEPT !.loading = FALSE]
                ELSE [tasks EXCEPT !.loading = FALSE, !.list = r.snap]
    /\ net' = net \ {r}
    /\ UNCHANGED <<view, usage, cards, picker, left>>

-----------------------------------------------------------------------------
(* The integrations: when a reload of the page lists other agents, every     *)
(* card is asked for again, and older answers still count.                   *)

AgentsChange ==
    /\ view = "cards" /\ UserActs
    /\ \E listed \in SUBSET Rows \ {cards.listed} :
          /\ RoomFor(Cardinality(listed))
          /\ cards' = Loading(listed)
          /\ net' = net \cup CardRequests(listed)
    /\ UNCHANGED <<view, usage, tasks, picker>>

CardAnswered(r) ==
    /\ r.op = "card"
    /\ cards' = IF ~r.alive THEN cards
                ELSE [cards EXCEPT !.card[r.arg] =
                         IF r.answer = "failed" THEN "failed" ELSE "shown"]
    /\ net' = net \ {r}
    /\ UNCHANGED <<view, usage, tasks, picker, left>>

-----------------------------------------------------------------------------
(* The voices: an effect on the gender and the manifest replaces a voice of  *)
(* the other gender.                                                         *)

Snapped(gender, voice) ==
    IF voice \in Voices(gender) THEN voice
    ELSE IF gender = "male" THEN "Puck" ELSE "Kore"

PickGender ==
    /\ view = "voices" /\ UserActs
    /\ \E g \in Genders \ {picker.gender} :
          picker' = [picker EXCEPT !.gender = g,
                                   !.voice = IF picker.manifest = "shown"
                                             THEN Snapped(g, @) ELSE @]
    /\ UNCHANGED <<view, usage, tasks, cards, net>>

PickVoice ==
    /\ view = "voices" /\ UserActs
    /\ picker.manifest = "shown"
    /\ \E v \in Voices(picker.gender) \ {picker.voice} :
          picker' = [picker EXCEPT !.voice = v]
    /\ UNCHANGED <<view, usage, tasks, cards, net>>

(* Without a voice the manifest's default comes first, a female one.         *)
ManifestAnswered(r) ==
    /\ r.op = "manifest"
    /\ picker' = IF ~r.alive THEN picker
                 ELSE IF r.answer = "failed" THEN [picker EXCEPT !.manifest = "failed"]
                 ELSE [picker EXCEPT !.manifest = "shown",
                                     !.voice = Snapped(picker.gender, IF @ = "" THEN "Kore" ELSE @)]
    /\ net' = net \ {r}
    /\ UNCHANGED <<view, usage, tasks, cards, left>>

-----------------------------------------------------------------------------
(* The server. Tasks come and go by themselves, and an agent that does not   *)
(* respond has none. No cancellation succeeds: the route calls db.get_agent, *)
(* which Db does not have (README).                                          *)
Handle(r) ==
    /\ r.answer = "" /\ r.op # "cancel"
    /\ \E found \in IF r.op = "tasks" THEN SUBSET Jobs ELSE {{}} :
          net' = (net \ {r}) \cup {[r EXCEPT !.answer = "ok", !.snap = found]}
    /\ UNCHANGED <<view, usage, tasks, cards, picker, left>>

Fail(r) ==
    /\ r.answer # "failed"
    /\ net' = (net \ {r}) \cup {[r EXCEPT !.answer = "failed", !.snap = {}]}
    /\ UNCHANGED <<view, usage, tasks, cards, picker, left>>

Serve == \E r \in net : Handle(r) \/ Fail(r)

Arrive ==
    \E r \in net :
        /\ r.answer # ""
        /\ \/ UsageAnswered(r) \/ TasksAnswered(r) \/ TaskCancelled(r)
           \/ CardAnswered(r) \/ ManifestAnswered(r)

User == Reopen \/ PickRange \/ CancelTask \/ AgentsChange \/ PickGender \/ PickVoice

Quiet == net = {} /\ UNCHANGED vars

Next == User \/ Serve \/ Arrive \/ Quiet

Spec == Init /\ [][Next]_vars

(* Requests are handled and answered; the user owes nothing. *)
FairSpec == Spec /\ WF_vars(Serve) /\ WF_vars(Arrive)

-----------------------------------------------------------------------------
Out(op) == {r \in net : r.op = op /\ r.alive}

(* The table that is drawn is of the range that is chosen. *)
UsageIsOfRange ==
    ~usage.loading /\ ~usage.error => usage.of = usage.range

(* "Never a male-gender-with-Kore-selected moment", while voices are shown. *)
VoiceMatches ==
    picker.manifest = "shown" => picker.voice \in Voices(picker.gender)

(* What is drawn as busy has its request out. *)
BusyHasRequest ==
    /\ view = "usage" /\ usage.loading =>
          \E r \in Out("usage") : r.arg = usage.range
    /\ view = "tasks" /\ tasks.loading => Out("tasks") # {}
    /\ tasks.cancelling # None => \E r \in Out("cancel") : r.arg = tasks.cancelling
    /\ view = "cards" => \A a \in cards.listed :
          cards.card[a] = "loading" => \E r \in Out("card") : r.arg = a

(* However late answers come, after a change of range, of gender, of the     *)
(* agents listed or a remount, usage that has loaded is of the range and the *)
(* voice of the gender chosen last, and what loads or cancels, tasks and     *)
(* cards too, has a request out that ends it. These two may then show old    *)
(* data.                                                                     *)
PanelsAgree == UsageIsOfRange /\ VoiceMatches /\ BusyHasRequest

IsLoading ==
    CASE view = "usage"  -> usage.loading
      [] view = "tasks"  -> tasks.loading
      [] view = "cards"  -> \E a \in cards.listed : cards.card[a] = "loading"
      [] view = "voices" -> picker.manifest = "loading"

(* Every loading state gives way to data or to an error, whatever is lost.   *)
LoadingEnds == IsLoading ~> ~IsLoading

(* Does not hold (README): not even before the manifest is there, when the   *)
(* form is opened again with the voice it had and another gender is chosen.  *)
VoiceNeverMismatched == picker.voice # "" => picker.voice \in Voices(picker.gender)
=============================================================================

--------------------------- MODULE ChatPaneProofs ---------------------------
(***************************************************************************)
(* Proofs about ChatPane, for any number of sockets and runs and any       *)
(* bounds.  The chat goes on in one way at a time: a live socket, a        *)
(* connect() that awaits its token, or an armed timer (Ways); Send is      *)
(* enabled by the live socket (Heard); and the gateway says nothing more   *)
(* of a run that a history has told (Told).                                *)
(***************************************************************************)
EXTENDS ChatPane, FiniteSetTheorems, TLAPS

Live(s) == sock[s].state # "closed"

\* One way at a time, and none once offline.
Ways ==
    /\ \A s, t \in Sockets : Live(s) /\ Live(t) => s = t
    /\ \A s \in Sockets : Live(s) => waits = 0 /\ ~timer
    /\ waits = 1 => ~timer
    /\ mounted /\ pane.conn # "offline" => waits = 1 \/ timer \/ \E s \in Sockets : Live(s)
    /\ pane.conn = "offline" => waits = 0 /\ ~timer /\ \A s \in Sockets : ~Live(s)

\* Send is enabled by a live socket that has said "ready".
Heard == pane.canSend => \E s \in Sockets : Live(s) /\ sock[s].heard

\* A frame that draws on the bubble of a run.
About(f, r) == f.kind \in {"res", "delta", "terminal"} /\ f.run = r

\* No frame on a wire draws on the bubble of a run ...
Clear(w, r) == \A i \in 1 .. Len(w) : ~About(w[i], r)

\* ... and none comes after a history that tells the run.
Ordered(w) ==
    \A i, j \in 1 .. Len(w) : i < j => \A r \in w[i].past : ~About(w[j], r)

\* A run that a history tells, on its way or on the screen, is over.
Told ==
    /\ \A r \in loaded :
          /\ bubble[r] = "none" /\ gateway[r] = "done"
          /\ \A s \in Sockets : Live(s) => Clear(sock[s].wire, r)
    /\ \A s \in Sockets :
          /\ Ordered(sock[s].wire)
          /\ \A i \in 1 .. Len(sock[s].wire) :
                \A r \in sock[s].wire[i].past : gateway[r] = "done"

IInv == TypeOK /\ Ways /\ Heard /\ Told

-----------------------------------------------------------------------------
(* Types *)

LEMMA FrameTypes ==
    /\ Frame("ready", None, {}) \in Frames
    /\ \A r \in Runs, k \in {"res", "delta", "terminal"} : Frame(k, r, {}) \in Frames
    /\ \A past \in SUBSET Runs : Frame("history", None, past) \in Frames
BY DEF Frames, Frame

LEMMA SocketTypes ==
    /\ Closed \in SocketRecords /\ Len(Closed.wire) = 0
    /\ [Closed EXCEPT !.state = "connecting"] \in SocketRecords
    /\ Len([Closed EXCEPT !.state = "connecting"].wire) = 0
<1>1. <<>> \in Seq(Frames) /\ Len(<<>>) = 0
  OBVIOUS
<1> QED BY <1>1 DEF Closed, SocketRecords

\* What a step that appends, drops or changes one field keeps of a socket.
LEMMA SocketUpdates ==
    ASSUME NEW x \in SocketRecords
    PROVE  /\ \A st \in {"closed", "connecting", "open", "denied", "dropped"} :
                  [x EXCEPT !.state = st] \in SocketRecords
           /\ \A w \in Seq(Frames) : [x EXCEPT !.wire = w] \in SocketRecords
           /\ x.wire \in Seq(Frames)
BY DEF SocketRecords

\* The frames under way on a socket after it got one more, or lost its first.
LEMMA WireTypes ==
    ASSUME NEW w \in Seq(Frames)
    PROVE  /\ \A f \in Frames : Append(w, f) \in Seq(Frames) /\ Len(Append(w, f)) = Len(w) + 1
           /\ w # <<>> => /\ Head(w) \in Frames
                          /\ Tail(w) \in Seq(Frames)
                          /\ Len(Tail(w)) = Len(w) - 1
OBVIOUS

LEMMA InitTypes == Init => TypeOK
<1> SUFFICES ASSUME Init PROVE TypeOK
  OBVIOUS
<1>1. sock \in [Sockets -> SocketRecords] /\ \A s \in Sockets : Len(sock[s].wire) <= MaxWire
  BY SocketTypes, ChatAssumption DEF Init
<1>2. waits \in 0 .. 1 /\ attempt \in 0 .. MaxAttempt
  BY ChatAssumption DEF Init
<1>3. pane \in [conn : {"connecting", "connected", "reconnecting", "offline"},
                canSend : BOOLEAN, streaming : Runs \cup {None}]
  BY DEF Init
<1>4. /\ bubble \in [Runs -> {"none", "streaming", "done"}]
      /\ gateway \in [Runs -> {"none", "sent", "orphaned", "running", "aborting", "done"}]
      /\ mounted \in BOOLEAN /\ timer \in BOOLEAN /\ loaded \subseteq Runs
      /\ ws \in Sockets \cup {None}
  BY DEF Init
<1> QED BY <1>1, <1>2, <1>3, <1>4, Zenon DEF TypeOK

-----------------------------------------------------------------------------
(* Wires *)

LEMMA WireTaken ==
    ASSUME NEW w \in Seq(Frames), w # <<>>
    PROVE  /\ Ordered(w) => Ordered(Tail(w)) /\ \A r \in Head(w).past : Clear(Tail(w), r)
           /\ \A r \in Runs : Clear(w, r) => Clear(Tail(w), r) /\ ~About(Head(w), r)
           /\ \A i \in 1 .. Len(Tail(w)) : i + 1 \in 1 .. Len(w) /\ Tail(w)[i] = w[i + 1]
           /\ 1 \in 1 .. Len(w) /\ Head(w) = w[1]
<1>1. /\ \A i \in 1 .. Len(Tail(w)) : i + 1 \in 1 .. Len(w) /\ Tail(w)[i] = w[i + 1]
      /\ 1 \in 1 .. Len(w) /\ Head(w) = w[1]
  OBVIOUS
<1>2. \A i \in 1 .. Len(Tail(w)) : i \in Int /\ 1 < i + 1
  OBVIOUS
<1>3. ASSUME Ordered(w) PROVE Ordered(Tail(w)) /\ \A r \in Head(w).past : Clear(Tail(w), r)
  <2>1. Ordered(Tail(w))
    BY <1>1, <1>2, <1>3 DEF Ordered
  <2>2. \A r \in Head(w).past : Clear(Tail(w), r)
    BY <1>1, <1>2, <1>3 DEF Ordered, Clear
  <2> QED BY <2>1, <2>2
<1>4. \A r \in Runs : Clear(w, r) => Clear(Tail(w), r) /\ ~About(Head(w), r)
  BY <1>1 DEF Clear
<1> QED BY <1>1, <1>3, <1>4

LEMMA WireAppended ==
    ASSUME NEW w \in Seq(Frames), NEW f \in Frames
    PROVE  /\ \A r \in Runs : Clear(w, r) /\ ~About(f, r) => Clear(Append(w, f), r)
           /\ Ordered(w) /\ (\A i \in 1 .. Len(w) : \A r \in w[i].past : ~About(f, r))
                  => Ordered(Append(w, f))
           /\ \A i \in 1 .. Len(Append(w, f)) :
                  \/ i \in 1 .. Len(w) /\ Append(w, f)[i] = w[i]
                  \/ i = Len(w) + 1 /\ Append(w, f)[i] = f
<1>1. \A i \in 1 .. Len(Append(w, f)) :
          \/ i \in 1 .. Len(w) /\ Append(w, f)[i] = w[i]
          \/ i = Len(w) + 1 /\ Append(w, f)[i] = f
  OBVIOUS
<1>2. ASSUME NEW r \in Runs, Clear(w, r), ~About(f, r) PROVE Clear(Append(w, f), r)
  BY <1>1, <1>2 DEF Clear
<1>3. ASSUME Ordered(w), \A i \in 1 .. Len(w) : \A r \in w[i].past : ~About(f, r)
      PROVE  Ordered(Append(w, f))
  <2> SUFFICES ASSUME NEW i \in 1 .. Len(Append(w, f)), NEW j \in 1 .. Len(Append(w, f)), i < j,
                      NEW r \in Append(w, f)[i].past
               PROVE  ~About(Append(w, f)[j], r)
    BY DEF Ordered
  <2>1. i \in 1 .. Len(w) /\ Append(w, f)[i] = w[i]
    BY <1>1
  <2>2. CASE j \in 1 .. Len(w) /\ Append(w, f)[j] = w[j]
    BY <1>3, <2>1, <2>2 DEF Ordered
  <2>3. CASE Append(w, f)[j] = f
    BY <1>3, <2>1, <2>3
  <2> QED BY <1>1, <2>2, <2>3
<1> QED BY <1>1, <1>2, <1>3

LEMMA EmptyWire ==
    ASSUME NEW w, w = <<>>
    PROVE  Ordered(w) /\ \A r \in Runs : Clear(w, r)
<1>1. Len(w) = 0
  OBVIOUS
<1> QED BY <1>1 DEF Ordered, Clear

-----------------------------------------------------------------------------
(* What each kind of step does to the sockets *)

SockOK == sock \in [Sockets -> SocketRecords] /\ \A s \in Sockets : Len(sock[s].wire) <= MaxWire

\* The same sockets live, and what they have heard they have heard.
SameLive ==
    \A s \in Sockets : (Live(s)' <=> Live(s)) /\ (sock[s].heard => sock'[s].heard)

SameWires == \A s \in Sockets : sock'[s].wire = sock[s].wire

LEMMA StateSet ==
    ASSUME SockOK, NEW s \in Sockets, NEW st \in {"open", "denied", "dropped"}, Live(s),
           sock' = [sock EXCEPT ![s].state = st]
    PROVE  SockOK' /\ SameLive /\ SameWires
<1>1. /\ sock' \in [Sockets -> SocketRecords]
      /\ \A t \in Sockets : t # s => sock'[t] = sock[t]
      /\ sock'[s].state = st /\ sock'[s].wire = sock[s].wire /\ sock'[s].heard = sock[s].heard
  BY DEF SocketRecords, SockOK
<1> QED BY <1>1 DEF SockOK, SameLive, SameWires, Live

LEMMA SocketReplaced ==
    ASSUME SockOK, NEW s \in Sockets, NEW x \in SocketRecords, Len(x.wire) = 0,
           sock' = [sock EXCEPT ![s] = x]
    PROVE  /\ SockOK'
           /\ sock'[s] = x /\ \A t \in Sockets : t # s => sock'[t] = sock[t]
<1>1. MaxWire \in Nat
  BY ChatAssumption
<1> QED BY <1>1 DEF SockOK

LEMMA WireSet ==
    ASSUME SockOK, NEW s \in Sockets, NEW w \in Seq(Frames), Len(w) <= MaxWire,
           \/ sock' = [sock EXCEPT ![s].wire = w]
           \/ sock' = [sock EXCEPT ![s].asked = FALSE, ![s].wire = w]
           \/ sock' = [sock EXCEPT ![s].greeted = TRUE, ![s].wire = w]
    PROVE  /\ SockOK' /\ SameLive
           /\ \A t \in Sockets : t # s => sock'[t].wire = sock[t].wire
           /\ sock'[s].wire = w
<1> DEFINE y == sock'[s]
<1>1. /\ sock' = [sock EXCEPT ![s] = y]
      /\ \/ y = [sock[s] EXCEPT !.wire = w]
         \/ y = [sock[s] EXCEPT !.asked = FALSE, !.wire = w]
         \/ y = [sock[s] EXCEPT !.greeted = TRUE, !.wire = w]
  BY DEF SockOK
<1>2. sock[s] \in SocketRecords
  BY DEF SockOK
<1> HIDE DEF y
<1>3. /\ y \in SocketRecords
      /\ y.state = sock[s].state /\ y.wire = w /\ y.heard = sock[s].heard
  <2> DEFINE x == sock[s]
  <2>1. /\ x \in SocketRecords
        /\ \/ y = [x EXCEPT !.wire = w]
           \/ y = [x EXCEPT !.asked = FALSE, !.wire = w]
           \/ y = [x EXCEPT !.greeted = TRUE, !.wire = w]
    BY <1>1, <1>2, Zenon
  <2> HIDE DEF x
  <2>2. y \in SocketRecords /\ y.state = x.state /\ y.wire = w /\ y.heard = x.heard
    <3>1. CASE y = [x EXCEPT !.wire = w]
      BY <2>1, <3>1 DEF SocketRecords
    <3>2. CASE y = [x EXCEPT !.asked = FALSE, !.wire = w]
      BY <2>1, <3>2 DEF SocketRecords
    <3>3. CASE y = [x EXCEPT !.greeted = TRUE, !.wire = w]
      BY <2>1, <3>3 DEF SocketRecords
    <3> QED BY <2>1, <3>1, <3>2, <3>3
  <2> QED BY <2>2 DEF x
<1>4. /\ sock' \in [Sockets -> SocketRecords] /\ sock'[s] = y
      /\ \A t \in Sockets : t # s => sock'[t] = sock[t]
  BY <1>1, <1>3 DEF SockOK
<1> QED BY <1>3, <1>4 DEF SockOK, SameLive, Live

LEMMA FrameTaken ==
    ASSUME SockOK, NEW s \in Sockets, sock[s].wire # <<>>,
           sock' = [sock EXCEPT ![s].wire = Tail(@)]
    PROVE  /\ SockOK' /\ SameLive
           /\ \A t \in Sockets : t # s => sock'[t].wire = sock[t].wire
           /\ sock'[s].wire = Tail(sock[s].wire)
<1> DEFINE w == sock[s].wire
<1>1. sock[s] \in SocketRecords /\ w \in Seq(Frames) /\ Len(w) <= MaxWire /\ MaxWire \in Nat
  BY SocketUpdates, ChatAssumption DEF SockOK
<1>2. Tail(w) \in Seq(Frames) /\ Len(Tail(w)) <= MaxWire
  BY <1>1, WireTypes
<1>3. sock' = [sock EXCEPT ![s].wire = Tail(w)]
  OBVIOUS
<1> QED BY <1>2, <1>3, WireSet

LEMMA ReadyTaken ==
    ASSUME SockOK, NEW s \in Sockets, sock[s].wire # <<>>, OnReady(s)
    PROVE  /\ SockOK' /\ SameLive /\ sock'[s].heard
           /\ \A t \in Sockets : t # s => sock'[t].wire = sock[t].wire
           /\ sock'[s].wire = Tail(sock[s].wire)
<1>1. ASSUME NEW t \in Sockets
      PROVE  /\ sock'[t] \in SocketRecords /\ Len(sock'[t].wire) <= MaxWire
             /\ sock'[t].state = sock[t].state
             /\ sock[t].heard \/ t = s => sock'[t].heard
             /\ sock'[t].wire = IF t = s THEN Tail(sock[t].wire) ELSE sock[t].wire
  <2> DEFINE w == IF t = s THEN Tail(sock[t].wire) ELSE sock[t].wire
             h == sock[t].heard \/ t = s
             a == sock[t].asked \/ (t = ws /\ CurrentOpen)
  <2>1. sock[t] \in SocketRecords /\ sock[t].wire \in Seq(Frames) /\ Len(sock[t].wire) <= MaxWire
    BY SocketUpdates DEF SockOK
  <2>2. w \in Seq(Frames) /\ Len(w) <= MaxWire
    <3>1. MaxWire \in Nat
      BY ChatAssumption
    <3> QED BY <2>1, <3>1, WireTypes
  <2>3. sock'[t] = [sock[t] EXCEPT !.wire = w, !.heard = h, !.asked = a]
    BY DEF OnReady
  <2>4. h \in BOOLEAN /\ a \in BOOLEAN
    BY <2>1 DEF SocketRecords
  <2> HIDE DEF w, h, a
  <2>5. /\ sock'[t] \in SocketRecords
        /\ sock'[t].state = sock[t].state /\ sock'[t].heard = h /\ sock'[t].wire = w
    BY <2>1, <2>2, <2>3, <2>4 DEF SocketRecords
  <2> QED BY <2>2, <2>5 DEF w, h
<1>2. sock' = [t \in Sockets |-> sock'[t]]
  BY DEF OnReady
<1>3. sock' \in [Sockets -> SocketRecords]
  BY <1>1, <1>2, Zenon
<1> QED BY <1>1, <1>3 DEF SockOK, SameLive, Live

LEMMA Greeted ==
    ASSUME SockOK, NEW s \in Sockets,
           sock' = [sock EXCEPT ![s].greeted = TRUE, ![s].wire = <<Frame("ready", None, {})>>]
    PROVE  /\ SockOK' /\ SameLive
           /\ \A t \in Sockets : t # s => sock'[t].wire = sock[t].wire
           /\ sock'[s].wire = <<Frame("ready", None, {})>>
<1> DEFINE w == <<Frame("ready", None, {})>>
<1>1. w \in Seq(Frames) /\ Len(w) = 1
  BY FrameTypes
<1>2. MaxWire \in Nat \ {0}
  BY ChatAssumption
<1>3. w \in Seq(Frames) /\ Len(w) <= MaxWire
  BY <1>1, <1>2
<1>4. sock' = [sock EXCEPT ![s].greeted = TRUE, ![s].wire = w]
  OBVIOUS
<1> HIDE DEF w
<1>5. /\ SockOK' /\ SameLive /\ sock'[s].wire = w
      /\ \A t \in Sockets : t # s => sock'[t].wire = sock[t].wire
  BY <1>3, <1>4, WireSet
<1> QED BY <1>5 DEF w

LEMMA HistoryTold ==
    ASSUME SockOK, NEW s \in Sockets, Len(sock[s].wire) < MaxWire, NEW f \in Frames,
           sock' = [sock EXCEPT ![s].asked = FALSE, ![s].wire = Append(@, f)]
    PROVE  /\ SockOK' /\ SameLive
           /\ \A t \in Sockets : t # s => sock'[t].wire = sock[t].wire
           /\ sock'[s].wire = Append(sock[s].wire, f)
<1> DEFINE w == Append(sock[s].wire, f)
<1>1. sock[s].wire \in Seq(Frames) /\ MaxWire \in Nat
  BY SocketUpdates, ChatAssumption DEF SockOK
<1>2. w \in Seq(Frames) /\ Len(w) <= MaxWire
  BY <1>1, WireTypes
<1>3. sock' = [sock EXCEPT ![s].asked = FALSE, ![s].wire = w]
  OBVIOUS
<1> QED BY <1>2, <1>3, WireSet

LEMMA Broadcasted ==
    ASSUME SockOK, NEW f \in Frames, Broadcast(f)
    PROVE  /\ SockOK' /\ SameLive
           /\ \A s \in Sockets : sock'[s].wire \in {sock[s].wire, Append(sock[s].wire, f)}
<1> DEFINE told == {s \in Sockets : sock[s].state = "open" /\ sock[s].greeted}
<1>1. /\ \A s \in told : Len(sock[s].wire) < MaxWire
      /\ sock' = [s \in Sockets |->
                    IF s \in told THEN [sock[s] EXCEPT !.wire = Append(@, f)] ELSE sock[s]]
  BY Zenon DEF Broadcast
<1> HIDE DEF told
<1>2. ASSUME NEW s \in Sockets
      PROVE  /\ sock'[s] \in SocketRecords /\ Len(sock'[s].wire) <= MaxWire
             /\ sock'[s].state = sock[s].state /\ sock'[s].heard = sock[s].heard
             /\ sock'[s].wire \in {sock[s].wire, Append(sock[s].wire, f)}
  <2>1. /\ sock[s] \in SocketRecords /\ Len(sock[s].wire) <= MaxWire
        /\ sock[s].wire \in Seq(Frames)
    BY SocketUpdates DEF SockOK
  <2>2. CASE s \notin told
    BY <1>1, <2>1, <2>2
  <2>3. CASE s \in told
    <3> DEFINE w == Append(sock[s].wire, f)
    <3>1. sock'[s] = [sock[s] EXCEPT !.wire = w]
      BY <1>1, <2>3
    <3>2. w \in Seq(Frames) /\ Len(w) = Len(sock[s].wire) + 1
      BY <2>1, WireTypes
    <3>3. MaxWire \in Nat /\ Len(sock[s].wire) \in Nat /\ Len(sock[s].wire) < MaxWire
      BY <1>1, <2>1, <2>3, ChatAssumption
    <3>4. Len(w) <= MaxWire
      BY <3>2, <3>3
    <3> HIDE DEF w
    <3>5. /\ sock'[s] \in SocketRecords /\ sock'[s].wire = w
          /\ sock'[s].state = sock[s].state /\ sock'[s].heard = sock[s].heard
      BY <3>1, <3>2, <2>1 DEF SocketRecords
    <3> QED BY <3>4, <3>5 DEF w
  <2> QED BY <2>2, <2>3
<1>3. sock' = [s \in Sockets |-> sock'[s]]
  BY <1>1, Zenon
<1>4. sock' \in [Sockets -> SocketRecords]
  BY <1>2, <1>3, Zenon
<1> QED BY <1>2, <1>4 DEF SockOK, SameLive, Live

LEMMA Unmounted ==
    ASSUME SockOK, Unmount
    PROVE  SockOK' /\ SameLive /\ SameWires
<1>1. ASSUME NEW s \in Sockets
      PROVE  /\ sock'[s] \in SocketRecords /\ (Live(s)' <=> Live(s))
             /\ sock'[s].wire = sock[s].wire /\ sock'[s].heard = sock[s].heard
  <2>1. sock[s] \in SocketRecords
    BY DEF SockOK
  <2>2. CASE s = ws /\ sock[s].state \in {"connecting", "open"}
    <3>1. sock'[s] = [sock[s] EXCEPT !.state = "dropped"]
      BY <2>2 DEF Unmount
    <3> QED BY <2>1, <2>2, <3>1 DEF SocketRecords, Live
  <2>3. CASE ~(s = ws /\ sock[s].state \in {"connecting", "open"})
    <3>1. sock'[s] = sock[s]
      BY <2>3 DEF Unmount
    <3> QED BY <2>1, <3>1 DEF Live
  <2> QED BY <2>2, <2>3
<1>2. sock' = [s \in Sockets |-> sock'[s]]
  BY DEF Unmount
<1>3. sock' \in [Sockets -> SocketRecords]
  BY <1>1, <1>2, Zenon
<1> QED BY <1>1, <1>3 DEF SockOK, SameLive, SameWires

-----------------------------------------------------------------------------
(* Steps *)

\* The types of all but the sockets.
OtherOK ==
    /\ mounted \in BOOLEAN
    /\ ws \in Sockets \cup {None}
    /\ waits \in 0 .. 1
    /\ timer \in BOOLEAN
    /\ attempt \in 0 .. MaxAttempt
    /\ pane \in [conn : {"connecting", "connected", "reconnecting", "offline"},
                 canSend : BOOLEAN, streaming : Runs \cup {None}]
    /\ bubble \in [Runs -> {"none", "streaming", "done"}]
    /\ loaded \subseteq Runs
    /\ gateway \in [Runs -> {"none", "sent", "orphaned", "running", "aborting", "done"}]

LEMMA TypeParts == TypeOK <=> SockOK /\ OtherOK
BY DEF TypeOK, SockOK, OtherOK

LEMMA TypePartsNext == TypeOK' <=> SockOK' /\ OtherOK'
BY DEF TypeOK, SockOK, OtherOK

\* What a run's history has told stays told when the wires, the bubbles told and the
\* runs that are over stay as they are.
LEMMA ToldKept ==
    ASSUME TypeOK, Told, SameLive, SameWires, bubble' = bubble, loaded' = loaded,
           \A r \in Runs : gateway[r] = "done" => gateway'[r] = "done"
    PROVE  Told'
<1>1. ASSUME NEW s \in Sockets, NEW i \in 1 .. Len(sock[s].wire)
      PROVE  sock[s].wire[i].past \subseteq Runs
  <2>1. sock[s].wire \in Seq(Frames)
    BY SocketUpdates DEF TypeOK
  <2>2. sock[s].wire[i] \in Frames
    BY <2>1
  <2> QED BY <2>2 DEF Frames
<1>2. \A r \in loaded : r \in Runs
  BY DEF TypeOK
<1>3. ASSUME NEW r \in loaded
      PROVE  /\ bubble'[r] = "none" /\ gateway'[r] = "done"
             /\ \A s \in Sockets : Live(s)' => Clear(sock'[s].wire, r)
  BY <1>2 DEF Told, SameLive, SameWires
<1>4. ASSUME NEW s \in Sockets
      PROVE  /\ Ordered(sock'[s].wire)
             /\ \A i \in 1 .. Len(sock'[s].wire) :
                   \A r \in sock'[s].wire[i].past : gateway'[r] = "done"
  <2>1. sock'[s].wire = sock[s].wire
    BY DEF SameWires
  <2>2. Ordered(sock[s].wire)
    BY DEF Told
  <2>3. ASSUME NEW i \in 1 .. Len(sock[s].wire), NEW r \in sock[s].wire[i].past
        PROVE  gateway'[r] = "done"
    BY <1>1 DEF Told
  <2> QED BY <2>1, <2>2, <2>3
<1> QED BY <1>3, <1>4 DEF Told

LEMMA OpenSocketStep == IInv /\ OpenSocket => IInv'
<1> SUFFICES ASSUME IInv, OpenSocket PROVE IInv'
  OBVIOUS
<1> USE DEF IInv
<1> DEFINE x == [Closed EXCEPT !.state = "connecting"]
<1>1. PICK s \in Sockets :
          /\ sock[s].state = "closed" /\ sock' = [sock EXCEPT ![s] = x] /\ ws' = s
  BY DEF OpenSocket
<1>2. x \in SocketRecords /\ Len(x.wire) = 0 /\ x.wire = <<>> /\ x.state = "connecting"
  BY SocketTypes DEF Closed
<1> HIDE DEF x
<1>3. SockOK' /\ sock'[s] = x /\ \A t \in Sockets : t # s => sock'[t] = sock[t]
  BY <1>1, <1>2, TypeParts, SocketReplaced
<1>4. waits = 1 /\ waits' = 0 /\ UNCHANGED <<mounted, timer, attempt, pane, bubble, loaded, gateway>>
  BY DEF OpenSocket, TypeOK
<1>5. \A t \in Sockets : ~Live(t)
  BY <1>4 DEF Ways
<1>6. TypeOK'
  <2>1. OtherOK'
    BY <1>1, <1>4, TypeParts DEF OtherOK
  <2> QED BY <1>3, <2>1, TypePartsNext
<1>7. Live(s)' /\ \A t \in Sockets : t # s => ~Live(t)'
  BY <1>2, <1>3, <1>5 DEF Live
<1>8. Ways'
  BY <1>4, <1>5, <1>7 DEF Ways
<1>9. Heard'
  BY <1>4, <1>5 DEF Heard
<1>10. Told'
  <2>1. ASSUME NEW r \in loaded
        PROVE  bubble[r] = "none" /\ gateway[r] = "done" /\ Clear(sock'[s].wire, r)
    BY <1>2, <1>3, EmptyWire DEF Told, TypeOK
  <2>2. \A t \in Sockets : Ordered(sock'[t].wire)
    BY <1>2, <1>3, EmptyWire DEF Told
  <2>3. \A t \in Sockets : \A i \in 1 .. Len(sock'[t].wire) :
            \A r \in sock'[t].wire[i].past : gateway[r] = "done"
    <3>1. \A i \in 1 .. 0 : FALSE
      OBVIOUS
    <3> QED BY <1>2, <1>3, <3>1 DEF Told
  <2> QED BY <1>4, <1>7, <2>1, <2>2, <2>3 DEF Told
<1> QED BY <1>6, <1>8, <1>9, <1>10

LEMMA NoSessionStep == IInv /\ NoSession => IInv'
<1> SUFFICES ASSUME IInv, NoSession PROVE IInv'
  OBVIOUS
<1> USE DEF IInv
<1>1. /\ waits = 1 /\ waits' = 0 /\ pane' = [pane EXCEPT !.conn = "offline"]
      /\ UNCHANGED <<mounted, ws, sock, timer, attempt, bubble, loaded, gateway>>
  BY DEF NoSession, TypeOK
<1>2. /\ pane'.conn = "offline" /\ pane'.canSend = pane.canSend /\ OtherOK'
  BY <1>1, TypeParts DEF OtherOK
<1>3. TypeOK'
  BY <1>1, <1>2, TypeParts, TypePartsNext DEF SockOK
<1>4. ~timer /\ \A t \in Sockets : ~Live(t)
  BY <1>1 DEF Ways
<1>5. Ways'
  BY <1>1, <1>2, <1>4 DEF Ways, Live
<1>6. Heard'
  BY <1>1, <1>2, <1>4 DEF Heard, Live
<1>7. Told'
  <2>1. SameLive /\ SameWires
    BY <1>1 DEF SameLive, SameWires, Live
  <2> QED BY <1>1, <2>1, ToldKept
<1> QED BY <1>3, <1>5, <1>6, <1>7

\* The connection goes on as it did when the same sockets live and nothing else changes.
LEMMA ConnectionKept ==
    ASSUME Ways, Heard, SameLive, UNCHANGED <<mounted, waits, timer, pane>>
    PROVE  Ways' /\ Heard'
<1>1. Ways'
  BY DEF Ways, SameLive
<1>2. Heard'
  BY DEF Heard, SameLive
<1> QED BY <1>1, <1>2

LEMMA OnOpenStep == ASSUME IInv, NEW s \in Sockets, OnOpen(s) PROVE IInv'
<1> USE DEF IInv
<1>1. /\ Live(s) /\ sock' = [sock EXCEPT ![s].state = "open"] /\ attempt' = 0
      /\ UNCHANGED <<mounted, ws, waits, timer, pane, bubble, loaded, gateway>>
  BY DEF OnOpen, Live
<1>2. SockOK' /\ SameLive /\ SameWires
  BY <1>1, StateSet, TypeParts
<1>3. OtherOK'
  BY <1>1, TypeParts, ChatAssumption DEF OtherOK
<1> QED BY <1>1, <1>2, <1>3, TypePartsNext, ConnectionKept, ToldKept

LEMMA DropStep == ASSUME IInv, NEW s \in Sockets, Drop(s) PROVE IInv'
<1> USE DEF IInv
<1>1. /\ Live(s) /\ sock' = [sock EXCEPT ![s].state = "dropped"] /\ gateway' = Orphaned
      /\ UNCHANGED <<mounted, ws, waits, timer, attempt, pane, bubble, loaded>>
  BY DEF Drop, Live
<1>2. SockOK' /\ SameLive /\ SameWires
  BY <1>1, StateSet, TypeParts
<1>3. OtherOK' /\ \A r \in Runs : gateway[r] = "done" => gateway'[r] = "done"
  BY <1>1, TypeParts DEF OtherOK, Orphaned
<1> QED BY <1>1, <1>2, <1>3, TypePartsNext, ConnectionKept, ToldKept

LEMMA DenyStep == ASSUME IInv, NEW s \in Sockets, Deny(s) PROVE IInv'
<1> USE DEF IInv
<1>1. /\ Live(s) /\ sock' = [sock EXCEPT ![s].state = "denied"]
      /\ UNCHANGED <<mounted, ws, waits, timer, attempt, pane, bubble, loaded, gateway>>
  BY DEF Deny, Live
<1>2. SockOK' /\ SameLive /\ SameWires
  BY <1>1, StateSet, TypeParts
<1>3. OtherOK'
  BY <1>1, TypeParts DEF OtherOK
<1> QED BY <1>1, <1>2, <1>3, TypePartsNext, ConnectionKept, ToldKept

LEMMA OnCloseStep == ASSUME IInv, NEW s \in Sockets, OnClose(s) PROVE IInv'
<1> USE DEF IInv
<1>1. /\ sock[s].state \in {"denied", "dropped"} /\ sock' = [sock EXCEPT ![s] = Closed]
      /\ UNCHANGED <<mounted, ws, waits, bubble, loaded, gateway>>
  BY DEF OnClose
<1>2. /\ Closed \in SocketRecords /\ Closed.state = "closed"
      /\ Closed.wire = <<>> /\ Len(Closed.wire) = 0
  BY SocketTypes DEF Closed
<1>3. SockOK' /\ sock'[s] = Closed /\ \A t \in Sockets : t # s => sock'[t] = sock[t]
  BY <1>1, <1>2, TypeParts, SocketReplaced
<1>4. /\ pane'.canSend = FALSE
      /\ \/ pane'.conn = "offline" /\ timer' = timer /\ attempt' = attempt
         \/ pane'.conn = "reconnecting" /\ timer' = TRUE /\ attempt' = Capped(attempt + 1)
      /\ pane' \in [conn : {"connecting", "connected", "reconnecting", "offline"},
                    canSend : BOOLEAN, streaming : Runs \cup {None}]
  <2>1. CASE sock[s].state = "denied"
    BY <2>1 DEF OnClose, TypeOK
  <2>2. CASE sock[s].state # "denied"
    BY <2>2 DEF OnClose, TypeOK
  <2> QED BY <2>1, <2>2
<1>5. TypeOK'
  <2>1. attempt' \in 0 .. MaxAttempt
    BY <1>4, ChatAssumption DEF TypeOK, Capped
  <2>2. OtherOK'
    BY <1>1, <1>4, <2>1, TypeParts DEF OtherOK
  <2> QED BY <1>3, <2>2, TypePartsNext
<1>6. Live(s)
  BY <1>1 DEF Live
<1>7. waits = 0 /\ ~timer
  BY <1>6 DEF Ways
<1>8. \A t \in Sockets : ~Live(t)'
  BY <1>2, <1>3, <1>6 DEF Ways, Live
<1>9. Ways'
  BY <1>1, <1>4, <1>7, <1>8 DEF Ways
<1>10. Heard'
  BY <1>4 DEF Heard
<1>11. Told'
  <2>1. \A r \in loaded : bubble[r] = "none" /\ gateway[r] = "done"
    BY DEF Told
  <2>2. \A t \in Sockets : Ordered(sock'[t].wire)
    BY <1>2, <1>3, EmptyWire DEF Told
  <2>3. \A t \in Sockets : \A i \in 1 .. Len(sock'[t].wire) :
            \A r \in sock'[t].wire[i].past : gateway[r] = "done"
    <3>1. \A i \in 1 .. 0 : FALSE
      OBVIOUS
    <3> QED BY <1>2, <1>3, <3>1 DEF Told
  <2> QED BY <1>1, <1>8, <2>1, <2>2, <2>3 DEF Told
<1> QED BY <1>5, <1>9, <1>10, <1>11

LEMMA ReconnectStep == IInv /\ Reconnect => IInv'
<1> SUFFICES ASSUME IInv, Reconnect PROVE IInv'
  OBVIOUS
<1> USE DEF IInv
<1>1. /\ timer /\ timer' = FALSE /\ waits' = waits + 1
      /\ UNCHANGED <<mounted, ws, sock, attempt, bubble, loaded, gateway>>
      /\ pane' \in {pane, [pane EXCEPT !.conn = "reconnecting"]}
  <2>1. pane' = [pane EXCEPT !.conn = IF pane.conn = "connected" THEN "reconnecting" ELSE pane.conn]
    BY DEF Reconnect
  <2>2. CASE pane.conn = "connected"
    BY <2>1, <2>2 DEF Reconnect
  <2>3. CASE pane.conn # "connected"
    <3>1. pane' = pane
      BY <2>1, <2>3 DEF TypeOK
    <3> QED BY <3>1 DEF Reconnect
  <2> QED BY <2>2, <2>3
<1>2. waits = 0 /\ pane.conn # "offline" /\ \A t \in Sockets : ~Live(t)
  BY <1>1 DEF Ways, TypeOK
<1>3. pane'.conn # "offline" /\ pane'.canSend = pane.canSend /\ OtherOK'
  <2> DEFINE Panes == [conn : {"connecting", "connected", "reconnecting", "offline"},
                       canSend : BOOLEAN, streaming : Runs \cup {None}]
  <2>1. pane'.conn # "offline" /\ pane'.canSend = pane.canSend /\ pane' \in Panes
    BY <1>1, <1>2 DEF TypeOK
  <2>2. waits' \in 0 .. 1 /\ timer' \in BOOLEAN
    <3>1. waits' = waits + 1 /\ timer' = FALSE
      BY Zenon DEF Reconnect
    <3>2. waits = 0
      BY <1>2
    <3>3. waits' \in 0 .. 1
      BY <3>1, <3>2
    <3>4. timer' \in BOOLEAN
      BY <3>1, Zenon
    <3> QED BY <3>3, <3>4
  <2> HIDE DEF Panes
  <2>3. OtherOK'
    BY <1>1, <2>1, <2>2, TypeParts DEF OtherOK, Panes
  <2> QED BY <2>1, <2>3
<1>4. TypeOK'
  BY <1>1, <1>3, TypeParts, TypePartsNext DEF SockOK
<1>5. Ways'
  BY <1>1, <1>2, <1>3 DEF Ways, Live
<1>6. Heard'
  BY <1>1, <1>2, <1>3 DEF Heard, Live
<1>7. Told'
  <2>1. SameLive /\ SameWires
    BY <1>1 DEF SameLive, SameWires, Live
  <2> QED BY <1>1, <2>1, ToldKept
<1> QED BY <1>4, <1>5, <1>6, <1>7

LEMMA UnmountStep == IInv /\ Unmount => IInv'
<1> SUFFICES ASSUME IInv, Unmount PROVE IInv'
  OBVIOUS
<1> USE DEF IInv
<1>1. /\ mounted' = FALSE /\ timer' = FALSE /\ ws' = None /\ gateway' = Orphaned
      /\ UNCHANGED <<waits, attempt, pane, bubble, loaded>>
  BY DEF Unmount
<1>2. SockOK' /\ SameLive /\ SameWires
  BY TypeParts, Unmounted
<1>3. OtherOK' /\ \A r \in Runs : gateway[r] = "done" => gateway'[r] = "done"
  BY <1>1, TypeParts DEF OtherOK, Orphaned
<1>4. Ways'
  BY <1>1, <1>2 DEF Ways, SameLive
<1>5. Heard'
  BY <1>1, <1>2 DEF Heard, SameLive
<1> QED BY <1>1, <1>2, <1>3, <1>4, <1>5, TypePartsNext, ToldKept

\* One more frame on some wires: it is of no run that is over, and what it tells is over.
LEMMA ToldGrows ==
    ASSUME TypeOK, Told, SameLive, NEW f \in Frames,
           \A s \in Sockets : sock'[s].wire \in {sock[s].wire, Append(sock[s].wire, f)},
           bubble' = bubble, loaded' = loaded,
           \A r \in Runs : gateway[r] = "done" => gateway'[r] = "done" /\ ~About(f, r),
           \A r \in f.past : gateway'[r] = "done"
    PROVE  Told'
<1>1. ASSUME NEW s \in Sockets
      PROVE  /\ sock[s].wire \in Seq(Frames)
             /\ \A i \in 1 .. Len(sock[s].wire) : sock[s].wire[i].past \subseteq Runs
  <2>1. sock[s].wire \in Seq(Frames)
    BY SocketUpdates DEF TypeOK
  <2>2. \A i \in 1 .. Len(sock[s].wire) : sock[s].wire[i] \in Frames
    BY <2>1
  <2> QED BY <2>1, <2>2 DEF Frames
<1>2. ASSUME NEW r \in loaded
      PROVE  /\ bubble'[r] = "none" /\ gateway'[r] = "done"
             /\ \A s \in Sockets : Live(s)' => Clear(sock'[s].wire, r)
  <2>1. r \in Runs /\ bubble[r] = "none" /\ gateway[r] = "done"
    BY DEF TypeOK, Told
  <2>2. ASSUME NEW s \in Sockets, Live(s)' PROVE Clear(sock'[s].wire, r)
    <3>1. Clear(sock[s].wire, r)
      BY <2>2 DEF Told, SameLive
    <3> QED BY <1>1, <2>1, <3>1, WireAppended
  <2> QED BY <2>1, <2>2
<1>3. ASSUME NEW s \in Sockets
      PROVE  /\ Ordered(sock'[s].wire)
             /\ \A i \in 1 .. Len(sock'[s].wire) :
                   \A r \in sock'[s].wire[i].past : gateway'[r] = "done"
  <2> DEFINE w == sock[s].wire
  <2>1. Ordered(w) /\ \A i \in 1 .. Len(w) : \A r \in w[i].past : gateway[r] = "done"
    BY DEF Told
  <2>2. \A i \in 1 .. Len(w) : \A r \in w[i].past : gateway'[r] = "done" /\ ~About(f, r)
    BY <1>1, <2>1
  <2>3. w \in Seq(Frames) /\ sock'[s].wire \in {w, Append(w, f)}
    BY <1>1
  <2> HIDE DEF w
  <2>4. CASE sock'[s].wire = w
    BY <2>1, <2>2, <2>4
  <2>5. CASE sock'[s].wire = Append(w, f)
    <3>1. Ordered(Append(w, f))
      BY <2>1, <2>2, <2>3, WireAppended
    <3>2. ASSUME NEW i \in 1 .. Len(Append(w, f)), NEW r \in Append(w, f)[i].past
          PROVE  gateway'[r] = "done"
      <4>1. \/ i \in 1 .. Len(w) /\ Append(w, f)[i] = w[i]
            \/ Append(w, f)[i] = f
        BY <2>3, WireAppended
      <4> QED BY <2>2, <3>2, <4>1
    <3> QED BY <2>5, <3>1, <3>2
  <2> QED BY <2>3, <2>4, <2>5
<1> QED BY <1>2, <1>3 DEF Told

LEMMA GreetStep == ASSUME IInv, NEW s \in Sockets, Greet(s) PROVE IInv'
<1> USE DEF IInv
<1> DEFINE f == Frame("ready", None, {})
<1>1. /\ sock' = [sock EXCEPT ![s].greeted = TRUE, ![s].wire = <<f>>]
      /\ UNCHANGED <<mounted, ws, waits, timer, attempt, pane, bubble, loaded, gateway>>
  BY DEF Greet
<1>2. /\ SockOK' /\ SameLive
      /\ \A t \in Sockets : t # s => sock'[t].wire = sock[t].wire
      /\ sock'[s].wire = <<f>>
  BY <1>1, Greeted, TypeParts
<1>3. OtherOK'
  BY <1>1, TypeParts DEF OtherOK
<1>4. f.past = {} /\ \A r \in Runs : ~About(f, r)
  BY DEF Frame, About
<1> HIDE DEF f
<1>5. Len(<<f>>) = 1 /\ \A i \in 1 .. 1 : <<f>>[i] = f
  OBVIOUS
<1>6. Ordered(<<f>>) /\ \A r \in Runs : Clear(<<f>>, r)
  BY <1>4, <1>5 DEF Ordered, Clear
<1>7. Told'
  <2>1. ASSUME NEW r \in loaded
        PROVE  /\ bubble[r] = "none" /\ gateway[r] = "done"
               /\ \A t \in Sockets : Live(t)' => Clear(sock'[t].wire, r)
    BY <1>2, <1>6 DEF Told, TypeOK, SameLive
  <2>2. ASSUME NEW t \in Sockets
        PROVE  /\ Ordered(sock'[t].wire)
               /\ \A i \in 1 .. Len(sock'[t].wire) :
                     \A r \in sock'[t].wire[i].past : gateway[r] = "done"
    <3>1. CASE t = s
      BY <1>2, <1>4, <1>5, <1>6, <3>1
    <3>2. CASE t # s
      BY <1>2, <3>2 DEF Told
    <3> QED BY <3>1, <3>2
  <2> QED BY <1>1, <2>1, <2>2 DEF Told
<1> QED BY <1>1, <1>2, <1>3, <1>7, TypePartsNext, ConnectionKept

LEMMA TellHistoryStep == ASSUME IInv, NEW s \in Sockets, TellHistory(s) PROVE IInv'
<1> USE DEF IInv
<1> DEFINE past == {r \in Runs : gateway[r] = "done"}
           f == Frame("history", None, past)
<1>1. /\ sock' = [sock EXCEPT ![s].asked = FALSE, ![s].wire = Append(@, f)]
      /\ Len(sock[s].wire) < MaxWire
      /\ UNCHANGED <<mounted, ws, waits, timer, attempt, pane, bubble, loaded, gateway>>
  BY DEF TellHistory
<1>2. f \in Frames /\ f.past = past /\ \A r \in Runs : ~About(f, r)
  BY FrameTypes DEF Frame, About
<1>3. \A r \in f.past : gateway[r] = "done"
  BY <1>2
<1> HIDE DEF f, past
<1>4. /\ SockOK' /\ SameLive
      /\ \A t \in Sockets : t # s => sock'[t].wire = sock[t].wire
      /\ sock'[s].wire = Append(sock[s].wire, f)
  BY <1>1, <1>2, HistoryTold, TypeParts
<1>5. OtherOK'
  BY <1>1, TypeParts DEF OtherOK
<1>6. Told'
  BY <1>1, <1>2, <1>3, <1>4, ToldGrows
<1> QED BY <1>1, <1>4, <1>5, <1>6, TypePartsNext, ConnectionKept

LEMMA SendMessageStep == ASSUME IInv, NEW r \in Runs, SendMessage(r) PROVE IInv'
<1> USE DEF IInv
<1>1. /\ gateway[r] = "none" /\ gateway' = [gateway EXCEPT ![r] = "sent"]
      /\ UNCHANGED <<mounted, ws, sock, waits, timer, attempt, pane, bubble, loaded>>
  BY DEF SendMessage
<1>2. SockOK' /\ SameLive /\ SameWires
  BY <1>1, TypeParts DEF SockOK, SameLive, SameWires, Live
<1>3. OtherOK' /\ \A q \in Runs : gateway[q] = "done" => gateway'[q] = "done"
  BY <1>1, TypeParts DEF OtherOK
<1> QED BY <1>1, <1>2, <1>3, TypePartsNext, ConnectionKept, ToldKept

LEMMA AbortStreamStep == IInv /\ AbortStream => IInv'
<1> SUFFICES ASSUME IInv, AbortStream PROVE IInv'
  OBVIOUS
<1> USE DEF IInv
<1> DEFINE r == pane.streaming
<1>1. /\ r \in Runs /\ gateway[r] = "running" /\ gateway' = [gateway EXCEPT ![r] = "aborting"]
      /\ UNCHANGED <<mounted, ws, sock, waits, timer, attempt, pane, bubble, loaded>>
  BY DEF AbortStream, TypeOK
<1> HIDE DEF r
<1>2. SockOK' /\ SameLive /\ SameWires
  BY <1>1, TypeParts DEF SockOK, SameLive, SameWires, Live
<1>3. OtherOK' /\ \A q \in Runs : gateway[q] = "done" => gateway'[q] = "done"
  BY <1>1, TypeParts DEF OtherOK
<1> QED BY <1>1, <1>2, <1>3, TypePartsNext, ConnectionKept, ToldKept

LEMMA WorkStep == ASSUME IInv, NEW r \in Runs, Work(r) PROVE IInv'
<1> USE DEF IInv
<1>1. UNCHANGED <<mounted, ws, waits, timer, attempt, pane, bubble, loaded>>
  BY DEF Work
<1>2. /\ gateway[r] # "done"
      /\ \/ gateway' = gateway
         \/ gateway' = [gateway EXCEPT ![r] = "running"]
         \/ gateway' = [gateway EXCEPT ![r] = "done"]
  BY DEF Work
<1>3. OtherOK' /\ \A q \in Runs : gateway[q] = "done" => gateway'[q] = "done"
  BY <1>1, <1>2, TypeParts DEF OtherOK
<1>4. CASE UNCHANGED sock
  <2>1. SockOK' /\ SameLive /\ SameWires
    BY <1>4, TypeParts DEF SockOK, SameLive, SameWires, Live
  <2> QED BY <1>1, <1>3, <2>1, TypePartsNext, ConnectionKept, ToldKept
<1>5. ASSUME NEW k \in {"res", "delta", "terminal"}, Broadcast(Frame(k, r, {})) PROVE IInv'
  <2> DEFINE f == Frame(k, r, {})
  <2>1. f \in Frames /\ f.past = {} /\ \A q \in Runs : About(f, q) => q = r
    BY FrameTypes DEF Frame, About
  <2> HIDE DEF f
  <2>2. Broadcast(f)
    BY <1>5 DEF f
  <2>3. /\ SockOK' /\ SameLive
        /\ \A s \in Sockets : sock'[s].wire \in {sock[s].wire, Append(sock[s].wire, f)}
    BY <2>1, <2>2, Broadcasted, TypeParts
  <2>4. Told'
    BY <1>1, <1>2, <1>3, <2>1, <2>3, ToldGrows
  <2> QED BY <1>1, <1>3, <2>3, <2>4, TypePartsNext, ConnectionKept
<1> QED BY <1>4, <1>5 DEF Work

-----------------------------------------------------------------------------
(* Frames that arrive *)

\* The first frame of the live socket's wire is taken.
Taken(s) ==
    /\ Live(s) /\ sock[s].wire # <<>>
    /\ SockOK' /\ SameLive
    /\ \A t \in Sockets : t # s => sock'[t].wire = sock[t].wire
    /\ sock'[s].wire = Tail(sock[s].wire)
    /\ UNCHANGED <<mounted, ws, waits, timer, attempt, gateway>>

\* What remains on the wires keeps the promises; what was taken has none of a run that is
\* told, and what it tells is over and clear of what remains.
LEMMA TakenTold ==
    ASSUME IInv, NEW s \in Sockets, Taken(s)
    PROVE  /\ Head(sock[s].wire) \in Frames
           /\ \A r \in loaded : ~About(Head(sock[s].wire), r)
           /\ \A r \in loaded \cup Head(sock[s].wire).past :
                 /\ gateway'[r] = "done"
                 /\ \A t \in Sockets : Live(t)' => Clear(sock'[t].wire, r)
           /\ \A t \in Sockets :
                 /\ Ordered(sock'[t].wire)
                 /\ \A i \in 1 .. Len(sock'[t].wire) :
                       \A r \in sock'[t].wire[i].past : gateway'[r] = "done"
<1> USE DEF IInv
<1> DEFINE w == sock[s].wire
<1>1. w \in Seq(Frames) /\ w # <<>> /\ sock'[s].wire = Tail(w)
  BY SocketUpdates DEF TypeOK, Taken
<1>2. \A t \in Sockets : Live(t)' => t = s
  BY DEF Ways, Taken, SameLive
<1>3. Ordered(w) /\ \A i \in 1 .. Len(w) : \A r \in w[i].past : gateway[r] = "done"
  BY DEF Told
<1>4. \A r \in loaded : r \in Runs /\ Clear(w, r) /\ gateway[r] = "done"
  BY DEF Told, TypeOK, Taken
<1>5. gateway' = gateway
  BY DEF Taken
<1> HIDE DEF w
<1>6. Head(w) \in Frames
  BY <1>1, WireTypes
<1>7. \A r \in loaded : Clear(Tail(w), r) /\ ~About(Head(w), r)
  BY <1>1, <1>4, WireTaken
<1>8. \A r \in Head(w).past : Clear(Tail(w), r) /\ gateway[r] = "done"
  BY <1>1, <1>3, WireTaken
<1>9. ASSUME NEW t \in Sockets
      PROVE  /\ Ordered(sock'[t].wire)
             /\ \A i \in 1 .. Len(sock'[t].wire) :
                   \A r \in sock'[t].wire[i].past : gateway[r] = "done"
  <2>1. CASE t # s
    <3>1. sock'[t].wire = sock[t].wire
      BY <2>1 DEF Taken
    <3> QED BY <3>1 DEF Told
  <2>2. CASE t = s
    <3>1. Ordered(Tail(w))
      BY <1>1, <1>3, WireTaken
    <3>2. ASSUME NEW i \in 1 .. Len(Tail(w)), NEW r \in Tail(w)[i].past
          PROVE  gateway[r] = "done"
      <4>1. i + 1 \in 1 .. Len(w) /\ Tail(w)[i] = w[i + 1]
        BY <1>1, WireTaken
      <4> QED BY <1>3, <3>2, <4>1
    <3> QED BY <1>1, <2>2, <3>1, <3>2
  <2> QED BY <2>1, <2>2
<1>10. ASSUME NEW r \in loaded \cup Head(w).past, NEW t \in Sockets, Live(t)'
       PROVE  Clear(sock'[t].wire, r)
  BY <1>1, <1>2, <1>7, <1>8, <1>10
<1> QED BY <1>4, <1>5, <1>6, <1>7, <1>8, <1>9, <1>10 DEF w

LEMMA OnReadyStep ==
    ASSUME IInv, NEW s \in Sockets, Taken(s), sock'[s].heard, OnReady(s)
    PROVE  IInv'
<1> USE DEF IInv
<1>1. /\ pane' = [pane EXCEPT !.canSend = TRUE, !.conn = "connected"]
      /\ bubble' = bubble /\ loaded' = loaded
  BY DEF OnReady
<1>2. pane'.conn = "connected" /\ OtherOK'
  BY <1>1, TypeParts DEF OtherOK, Taken
<1>3. TypeOK'
  BY <1>2, TypePartsNext DEF Taken
<1>4. Live(s)' /\ Live(s)
  BY DEF Taken, SameLive
<1>5. Ways'
  BY <1>2, <1>4 DEF Ways, Taken, SameLive
<1>6. Heard'
  BY <1>4 DEF Heard
<1>7. Told'
  <2>1. \A r \in loaded : bubble[r] = "none"
    BY DEF Told
  <2> QED BY <1>1, <2>1, TakenTold DEF Told
<1> QED BY <1>3, <1>5, <1>6, <1>7

LEMMA OnHistoryStep ==
    ASSUME IInv, NEW s \in Sockets, Taken(s), OnHistory(Head(sock[s].wire).past)
    PROVE  IInv'
<1> USE DEF IInv
<1> DEFINE past == Head(sock[s].wire).past
<1>1. pane' = pane /\ OnHistory(past)
  BY DEF OnHistory
<1>2. past \subseteq Runs
  BY TakenTold DEF Frames
<1>3. /\ \A r \in loaded \cup past :
             gateway'[r] = "done" /\ \A t \in Sockets : Live(t)' => Clear(sock'[t].wire, r)
      /\ \A t \in Sockets :
             /\ Ordered(sock'[t].wire)
             /\ \A i \in 1 .. Len(sock'[t].wire) :
                   \A r \in sock'[t].wire[i].past : gateway'[r] = "done"
  BY TakenTold
<1> HIDE DEF past
<1>4. /\ bubble' \in [Runs -> {"none", "streaming", "done"}]
      /\ loaded' \subseteq loaded \cup past
      /\ \A r \in loaded' : bubble'[r] = "none"
  <2>1. CASE past = {}
    BY <1>1, <2>1 DEF OnHistory, TypeOK, Told
  <2>2. CASE past # {}
    BY <1>1, <1>2, <2>2 DEF OnHistory
  <2> QED BY <2>1, <2>2
<1>5. TypeOK'
  <2>1. OtherOK'
    BY <1>1, <1>2, <1>4, TypeParts DEF OtherOK, Taken
  <2> QED BY <2>1, TypePartsNext DEF Taken
<1>6. Ways' /\ Heard'
  BY <1>1, ConnectionKept DEF Taken
<1>7. Told'
  BY <1>3, <1>4 DEF Told
<1> QED BY <1>5, <1>6, <1>7

\* An answer or an event of a run changes its bubble and which run streams.
LEMMA BubbleStep ==
    ASSUME IInv, NEW s \in Sockets, Taken(s), NEW r \in Runs, About(Head(sock[s].wire), r),
           NEW b \in {"none", "streaming", "done"}, NEW run \in Runs \cup {None},
           bubble' = [bubble EXCEPT ![r] = b], pane' = [pane EXCEPT !.streaming = run],
           loaded' = loaded
    PROVE  IInv'
<1> USE DEF IInv
<1>1. pane'.conn = pane.conn /\ pane'.canSend = pane.canSend
  BY DEF TypeOK
<1>2. OtherOK'
  <2>1. bubble' \in [Runs -> {"none", "streaming", "done"}]
    BY DEF TypeOK
  <2>2. pane' \in [conn : {"connecting", "connected", "reconnecting", "offline"},
                   canSend : BOOLEAN, streaming : Runs \cup {None}]
    BY DEF TypeOK
  <2> QED BY <2>1, <2>2, TypeParts, Zenon DEF OtherOK, Taken
<1>3. TypeOK'
  BY <1>2, TypePartsNext DEF Taken
<1>4. Ways'
  BY <1>1, Zenon DEF Ways, Taken, SameLive
<1>5. Heard'
  BY <1>1, Zenon DEF Heard, Taken, SameLive
<1>6. Told'
  <2>1. ASSUME NEW q \in loaded PROVE bubble'[q] = "none"
    <3>1. q # r /\ q \in Runs /\ bubble[q] = "none"
      BY TakenTold DEF Told, TypeOK
    <3>2. bubble'[q] = bubble[q]
      BY <3>1 DEF TypeOK
    <3> QED BY <3>1, <3>2
  <2> QED BY <2>1, TakenTold DEF Told
<1> QED BY <1>3, <1>4, <1>5, <1>6

LEMMA OnMessageStep == ASSUME IInv, NEW s \in Sockets, OnMessage(s) PROVE IInv'
<1> DEFINE f == Head(sock[s].wire)
<1>1. /\ Live(s) /\ sock[s].wire # <<>>
      /\ UNCHANGED <<mounted, ws, waits, timer, attempt, gateway>>
  BY DEF OnMessage, Live
<1>2. SockOK
  BY TypeParts DEF IInv
<1>3. \/ f.kind = "ready" /\ OnReady(s)
      \/ /\ f.kind # "ready"
         /\ sock' = [sock EXCEPT ![s].wire = Tail(@)]
         /\ \/ f.kind = "history"  /\ OnHistory(f.past)
            \/ f.kind = "res"      /\ OnSendAnswered(f.run)
            \/ f.kind = "delta"    /\ OnChatEvent(f.run, FALSE)
            \/ f.kind = "terminal" /\ OnChatEvent(f.run, TRUE)
  BY DEF OnMessage
<1>4. CASE OnReady(s)
  <2>1. Taken(s) /\ sock'[s].heard
    BY <1>1, <1>2, <1>4, ReadyTaken DEF Taken
  <2> QED BY <1>4, <2>1, OnReadyStep
<1>5. ASSUME sock' = [sock EXCEPT ![s].wire = Tail(@)] PROVE Taken(s)
  BY <1>1, <1>2, <1>5, FrameTaken DEF Taken
<1>6. f \in Frames
  <2>1. sock[s].wire \in Seq(Frames)
    BY <1>2, SocketUpdates DEF SockOK
  <2> QED BY <1>1, <2>1, WireTypes
<1>7. CASE OnHistory(f.past) /\ sock' = [sock EXCEPT ![s].wire = Tail(@)]
  BY <1>5, <1>7, OnHistoryStep
<1>8. ASSUME sock' = [sock EXCEPT ![s].wire = Tail(@)], f.kind = "res", OnSendAnswered(f.run)
      PROVE  IInv'
  <2> DEFINE r == f.run
             b == IF bubble[r] = "none" THEN "streaming" ELSE bubble[r]
  <2>1. r \in Runs /\ About(f, r)
    BY <1>6, <1>8 DEF Frames, About
  <2>2. b \in {"none", "streaming", "done"}
    BY <2>1 DEF IInv, TypeOK
  <2>3. /\ bubble' = [bubble EXCEPT ![r] = b] /\ pane' = [pane EXCEPT !.streaming = r]
        /\ loaded' = loaded
    BY <1>8 DEF OnSendAnswered
  <2>4. Taken(s)
    BY <1>5, <1>8
  <2> HIDE DEF b, r
  <2> QED BY <2>1, <2>2, <2>3, <2>4, BubbleStep
<1>9. ASSUME sock' = [sock EXCEPT ![s].wire = Tail(@)], f.kind \in {"delta", "terminal"},
             NEW terminal \in BOOLEAN, OnChatEvent(f.run, terminal)
      PROVE  IInv'
  <2> DEFINE r == f.run
             b == IF terminal THEN "done" ELSE "streaming"
             run == IF terminal /\ pane.streaming = r THEN None ELSE pane.streaming
  <2>1. r \in Runs /\ About(f, r)
    BY <1>6, <1>9 DEF Frames, About
  <2>2. b \in {"none", "streaming", "done"} /\ run \in Runs \cup {None}
    BY DEF IInv, TypeOK
  <2>3. /\ bubble' = [bubble EXCEPT ![r] = b] /\ pane' = [pane EXCEPT !.streaming = run]
        /\ loaded' = loaded
    BY <1>9 DEF OnChatEvent
  <2>4. Taken(s)
    BY <1>5, <1>9
  <2> HIDE DEF b, r, run
  <2> QED BY <2>1, <2>2, <2>3, <2>4, BubbleStep
<1> QED BY <1>3, <1>4, <1>7, <1>8, <1>9

-----------------------------------------------------------------------------
(* The inductive invariant *)

LEMMA InitInv == Init => IInv
<1> SUFFICES ASSUME Init PROVE IInv
  OBVIOUS
<1>1. TypeOK
  BY InitTypes
<1>2. \A s \in Sockets : sock[s].state = "closed" /\ sock[s].wire = <<>>
  BY DEF Init, Closed
<1>3. waits = 1 /\ timer = FALSE /\ pane.conn = "connecting" /\ pane.canSend = FALSE /\ loaded = {}
  BY DEF Init
<1>4. Ways /\ Heard
  BY <1>2, <1>3 DEF Ways, Heard, Live
<1>5. Told
  <2>1. \A i \in 1 .. Len(<<>>) : FALSE
    OBVIOUS
  <2>2. \A s \in Sockets : Ordered(sock[s].wire)
    BY <1>2, EmptyWire
  <2> QED BY <1>2, <1>3, <2>1, <2>2 DEF Told
<1> QED BY <1>1, <1>4, <1>5 DEF IInv

LEMMA NextInv == IInv /\ [Next]_vars => IInv'
<1> SUFFICES ASSUME IInv, [Next]_vars PROVE IInv'
  OBVIOUS
<1>1. CASE UNCHANGED vars
  <2>1. UNCHANGED <<mounted, ws, sock, waits, timer, attempt, pane, bubble, loaded, gateway>>
    BY <1>1 DEF vars
  <2>2. SameLive /\ SameWires /\ SockOK' /\ OtherOK'
    BY <2>1, TypeParts DEF IInv, SameLive, SameWires, Live, SockOK, OtherOK
  <2> QED BY <2>1, <2>2, TypePartsNext, ConnectionKept, ToldKept DEF IInv
<1>2. ASSUME NEW s \in Sockets,
             \/ OnOpen(s) \/ OnClose(s) \/ OnMessage(s)
             \/ Drop(s) \/ Deny(s) \/ Greet(s) \/ TellHistory(s)
      PROVE  IInv'
  BY <1>2, OnOpenStep, OnCloseStep, OnMessageStep, DropStep, DenyStep, GreetStep, TellHistoryStep
<1>3. ASSUME NEW r \in Runs, SendMessage(r) \/ Work(r) PROVE IInv'
  BY <1>3, SendMessageStep, WorkStep
<1>4. CASE OpenSocket \/ NoSession \/ Reconnect \/ Unmount \/ AbortStream
  BY <1>4, OpenSocketStep, NoSessionStep, ReconnectStep, UnmountStep, AbortStreamStep
<1>5. CASE Quiet
  BY <1>1, <1>5 DEF Quiet
<1> QED BY <1>1, <1>2, <1>3, <1>4, <1>5 DEF Next

(* The inductive invariant holds in every state, for any number of sockets   *)
(* and runs.                                                                 *)
THEOREM Invariant == Spec => []IInv
BY InitInv, NextInv, PTL DEF Spec

(* Types: every variable keeps its type and no wire holds more than MaxWire. *)
THEOREM TypeCorrect == Spec => []TypeOK
<1>1. IInv => TypeOK
  BY DEF IInv
<1> QED BY <1>1, Invariant, PTL

(* The loop that reconnects never forks and never dies.                      *)
THEOREM OneWay == Spec => []OneConnection
<1>1. ASSUME IInv PROVE OneConnection
  <2> DEFINE n == Cardinality(LiveSockets)
             k == IF timer THEN 1 ELSE 0
  <2>1. waits \in {0, 1} /\ timer \in BOOLEAN
    BY <1>1 DEF IInv, TypeOK
  <2>2. CASE \E s \in Sockets : Live(s)
    <3>1. PICK s \in Sockets : Live(s)
      BY <2>2
    <3>2. LiveSockets = {s}
      BY <1>1, <3>1 DEF IInv, Ways, LiveSockets, Live
    <3>3. n = 1
      BY <3>2, FS_Singleton
    <3>4. waits = 0 /\ ~timer
      BY <1>1, <3>1 DEF IInv, Ways
    <3> QED BY <3>3, <3>4 DEF OneConnection
  <2>3. CASE ~\E s \in Sockets : Live(s)
    <3>1. LiveSockets = {}
      BY <2>3 DEF LiveSockets, Live
    <3>2. n = 0
      BY <3>1, FS_EmptySet
    <3>3. /\ waits = 1 => ~timer
          /\ mounted /\ pane.conn # "offline" => waits = 1 \/ timer
      BY <1>1, <2>3 DEF IInv, Ways
    <3> HIDE DEF n
    <3>4. n + waits + k <= 1 /\ (mounted /\ pane.conn # "offline" => n + waits + k = 1)
      BY <2>1, <3>2, <3>3
    <3> QED BY <3>4 DEF OneConnection, n
  <2> QED BY <2>2, <2>3
<1> QED BY <1>1, Invariant, PTL

(* No answer stands twice on the screen, once from its events and once from  *)
(* the history.                                                              *)
THEOREM ShownOnce == Spec => []AnswerShownOnce
<1>1. IInv => AnswerShownOnce
  BY DEF IInv, Told, AnswerShownOnce
<1> QED BY <1>1, Invariant, PTL

-----------------------------------------------------------------------------
(* What no step does *)

(* A message goes out only on a socket that has said "ready".                *)
THEOREM SentWhenReady == Spec => SendsWhenReady
<1>1. ASSUME IInv, [Next]_vars,
             NEW r \in Runs, gateway[r] = "none", gateway'[r] = "sent"
      PROVE  ws # None /\ sock[ws].heard
  <2>1. CASE \E q \in Runs : SendMessage(q)
    <3>1. pane.canSend /\ CurrentOpen
      BY <2>1 DEF SendMessage
    <3>2. ws \in Sockets /\ Live(ws)
      BY <1>1, <3>1 DEF IInv, TypeOK, CurrentOpen, Live
    <3>3. PICK s \in Sockets : Live(s) /\ sock[s].heard
      BY <1>1, <3>1 DEF IInv, Heard
    <3>4. s = ws
      BY <1>1, <3>2, <3>3 DEF IInv, Ways
    <3> QED BY <3>1, <3>3, <3>4 DEF CurrentOpen
  <2>2. gateway \in [Runs -> {"none", "sent", "orphaned", "running", "aborting", "done"}]
    BY <1>1 DEF IInv, TypeOK
  <2>3. CASE UNCHANGED gateway
    BY <1>1, <2>3
  <2>4. CASE gateway' = Orphaned
    BY <1>1, <2>4 DEF Orphaned
  <2>5. CASE \E q \in Runs : Work(q)
    BY <1>1, <2>2, <2>5 DEF Work
  <2>6. CASE AbortStream
    BY <1>1, <2>2, <2>6 DEF AbortStream
  <2>7. \/ UNCHANGED gateway \/ gateway' = Orphaned \/ AbortStream
        \/ \E q \in Runs : SendMessage(q) \/ Work(q)
    BY <1>1 DEF Next, vars, Quiet, OpenSocket, NoSession, Reconnect, Unmount, OnOpen, OnClose,
                OnMessage, Drop, Deny, Greet, TellHistory
  <2> QED BY <2>1, <2>3, <2>4, <2>5, <2>6, <2>7
<1>2. IInv /\ [Next]_vars =>
          [\A r \in Runs : gateway[r] = "none" /\ gateway'[r] = "sent" =>
              ws # None /\ sock[ws].heard]_vars
  BY <1>1
<1> QED BY <1>2, Invariant, PTL DEF Spec, SendsWhenReady

(* Once refused, or without a session, the chat opens no socket again.       *)
THEOREM OfflineStays == Spec => OfflineIsFinal
<1>1. ASSUME IInv, [Next]_vars, pane.conn = "offline"
      PROVE  pane'.conn = "offline" /\ \A s \in LiveSockets' : s \in LiveSockets
  <2>1. waits = 0 /\ ~timer /\ \A s \in Sockets : sock[s].state = "closed"
    BY <1>1 DEF IInv, Ways, Live
  <2>2. SockOK
    BY <1>1, TypeParts DEF IInv
  <2>3. pane' = pane /\ SameLive
    <3>1. CASE UNCHANGED <<pane, sock>>
      BY <3>1 DEF SameLive, Live
    <3>2. CASE Unmount
      BY <2>2, <3>2, Unmounted DEF Unmount
    <3>3. ASSUME NEW r \in Runs, Work(r) PROVE pane' = pane /\ SameLive
      <4>1. UNCHANGED pane
        BY <3>3 DEF Work
      <4>2. CASE UNCHANGED sock
        BY <4>1, <4>2 DEF SameLive, Live
      <4>3. ASSUME NEW k \in {"res", "delta", "terminal"}, Broadcast(Frame(k, r, {})) PROVE SameLive
        BY <2>2, <4>3, FrameTypes, Broadcasted
      <4> QED BY <3>3, <4>1, <4>2, <4>3 DEF Work
    <3>4. ~OpenSocket /\ ~NoSession /\ ~Reconnect
      BY <2>1 DEF OpenSocket, NoSession, Reconnect
    <3>5. \A s \in Sockets : ~(OnOpen(s) \/ OnClose(s) \/ OnMessage(s)
                               \/ Drop(s) \/ Deny(s) \/ Greet(s) \/ TellHistory(s))
      BY <2>1 DEF OnOpen, OnClose, OnMessage, Drop, Deny, Greet, TellHistory
    <3>6. \/ UNCHANGED <<pane, sock>> \/ Unmount \/ \E r \in Runs : Work(r)
      BY <1>1, <3>4, <3>5 DEF Next, vars, Quiet, AbortStream, SendMessage
    <3> QED BY <3>1, <3>2, <3>3, <3>6
  <2>4. \A s \in LiveSockets' : s \in LiveSockets
    BY <2>3 DEF SameLive, Live, LiveSockets
  <2> QED BY <1>1, <2>3, <2>4
<1>2. IInv /\ [Next]_vars =>
          [pane.conn = "offline" =>
              pane'.conn = "offline" /\ \A s \in LiveSockets' : s \in LiveSockets]_vars
  BY <1>1
<1> QED BY <1>2, Invariant, PTL DEF Spec, OfflineIsFinal
=============================================================================

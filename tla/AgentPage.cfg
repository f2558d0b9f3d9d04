SPECIFICATION MCSpec
CONSTANTS
    None = None
    Sockets = {s1, s2}
    Runs = {r1, r2}
    MaxWire = 2
    MaxAttempt = 2
    NoPhone = NoPhone
    Phones = {p1, p2}
    Taken = {p2}
    MaxNet = 3
    MaxUser = 4
    Loops = {l1, l2}
    NoLoop = NoLoop
INVARIANTS
    TypeOK
    OneConnection
    AnswerShownOnce
    CardsTypeOK
    DisabledHasCause
    GoogleWaitIsPolled
PROPERTIES
    SendsWhenReady
    OfflineIsFinal
    WaitingIsServed
    ChatReconnects
    PollerImplemented
    GoogleWaitEnds

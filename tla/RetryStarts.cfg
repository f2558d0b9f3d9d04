SPECIFICATION Spec
CONSTANTS
    NoPhone = NoPhone
    Phones = {p1, p2}
    Taken = {p2}
    MaxNet = 3
    MaxUser = 4
INVARIANTS
    RetryStarts

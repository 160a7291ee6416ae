CONSTANTS
    a = a
    b = b
    u1 = u1
    u2 = u2
    NoEvent = NoEvent
    Forever = Forever
    Types = {a, b}
    Users = {u1, u2}
    Periods = {1}
    MaxTime = 1
    MaxCalls = 3
    MaxPauses = 2
SPECIFICATION Spec
SYMMETRY Symmetry
CHECK_DEADLOCK FALSE
INVARIANTS
    NoMissedEvent
    StoppedIsQuiet
    HandleValid
    SpinnerIsServed

CONSTANTS
    t1 = t1
    t2 = t2
    t3 = t3
    NoThread = NoThread
    Threads = {t1, t2, t3}
    SuspendTypes = {}
    Terminable = {t1, t2, t3}
    CancelsWaits = TRUE
    MaxLocks <- Twice
SPECIFICATION Spec
SYMMETRY ThreadSymmetry
INVARIANTS
    LockedByHolder

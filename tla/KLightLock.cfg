CONSTANTS
    t1 = t1
    t2 = t2
    t3 = t3
    NoThread = NoThread
    Process = Process
    Thread = Thread
    Threads = {t1, t2, t3}
    SuspendTypes = {Process, Thread}
    Terminable = {t1}
    CancelsWaits = FALSE
    MaxLocks <- AgainT1
SPECIFICATION FairSpec
INVARIANTS
    NoLostWakeup
    WaiterCountExact
PROPERTIES
    OwnerKeptRunning
    ImplementsMutex
    WaiterGetsLock

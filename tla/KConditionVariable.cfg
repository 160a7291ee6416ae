SPECIFICATION FairSpec
CONSTANTS
    Threads = {t1, t2, t3}
    NoThread = NoThread
    t1 = t1
    t2 = t2
    t3 = t3
    Deserters = {t1, t2, t3}
    ProcessExits = TRUE
    MaxCalls = 2
CHECK_DEADLOCK FALSE
INVARIANTS
    NoLostWakeup
    OneTree
    FlagAnnouncesWaiters
PROPERTIES
    ImplementsMutex
    MutexWaiterServed

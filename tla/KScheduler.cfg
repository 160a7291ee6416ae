CONSTANTS
    t1 = t1
    t2 = t2
    h1 = h1
    Null = Null
    Threads = {t1, t2}
    NumCores = 2
    Hosts = {h1}
    MigrationPriority = 2
    TerminatingPriority = 2
    PreemptionPriority <- MCPreemption
    StartPriority <- MCPriority
    StartMask <- MCMask
    Settable <- MCSettable
    Maskable <- MCMaskable
    Pausable = {t1}
    Killable = {t1}
    MaxChanges = 1
SPECIFICATION FairSpec
CHECK_DEADLOCK FALSE
INVARIANTS
    OneCoreAtATime
    BlockedStaysOff
    ReturnMeansStopped
    NoLostReschedule
    QueuesExact
    HighestIsBest
PROPERTIES
    TerminationCompletes

CONSTANTS
    c1 = c1
    c2 = c2
    s1 = s1
    s2 = s2
    NoReq = NoReq
    Free = Free
    Clients = {c1, c2}
    Servers = {s1, s2}
    Terminable = {c1}
    MaxRequests = 2
SPECIFICATION FairSpec
CHECK_DEADLOCK FALSE
INVARIANTS
    WaitingIsPending
    AnsweredOnce
    RequestRefsExact
PROPERTIES
    CallReturns

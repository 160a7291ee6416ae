CONSTANTS
    t1 = t1
    t2 = t2
    t3 = t3
    Free = Free
    Reservers = {t1, t2, t3}
    Width = 3
    Amounts = {1, 3}
SPECIFICATION LimitFairSpec
INVARIANTS
    Accounted
    NoLostRelease
PROPERTIES
    ReserveReturns

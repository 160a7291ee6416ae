CONSTANTS
    t1 = t1
    t2 = t2
    t3 = t3
    a = a
    b = b
    NoNode = NoNode
    Threads = {t1, t2, t3}
    Objects = {a, b}
    MaxObjects = 2
SPECIFICATION SyncSpec
SYMMETRY WaitSymmetry
INVARIANTS
    ListsExact
    NoWaiterOnSignaled
    NothingLeftBehind

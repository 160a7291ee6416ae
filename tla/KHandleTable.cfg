CONSTANTS
    t1 = t1
    t2 = t2
    o1 = o1
    o2 = o2
    NoObject = NoObject
    NoHandle = NoHandle
    Threads = {t1, t2}
    Objects = {o1, o2}
    TableSize = 3
    MaxLinearId = 3
    MaxAllocs = 6
    MaxHeld = 2
SPECIFICATION Spec
SYMMETRY Symmetry
INVARIANTS
    FreeListSound
    HandleResolvesExactly
    RefCountExact

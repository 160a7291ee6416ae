SPECIFICATION ArbiterSpec
CONSTANTS
    Threads = {t1, t2, t3}
    NoThread = NoThread
    Keys = {k1, k2}
    CvKeys = {1}
    Priorities = {1, 2}
    ArbiterKeys = {2}
    WordWidth = 2
    Counts = {0, 1, 2}
SYMMETRY Symmetry
INVARIANTS
    TreesOrdered
    NoInversion
PROPERTIES
    WordTellsWaiters

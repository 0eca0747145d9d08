\* Safety with crashes, failed publishes, lost queues and failed inserts.
CONSTANTS
    a = a
    b = b
    r1 = r1
    r2 = r2
    r3 = r3
    User = {a, b}
    Req = {r1, r2, r3}
    Faults = TRUE
SPECIFICATION Spec
SYMMETRY Symmetry
CHECK_DEADLOCK FALSE
INVARIANTS
    TypeOK
    MutualLikeDetected
    MatchesAreMutual
    EventInOnePlace
PROPERTIES
    KeepsPromise

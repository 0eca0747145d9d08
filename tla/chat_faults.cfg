\* Concurrent sends with aborts, lost commit answers and crashes, and a socket
\* that comes and goes.
CONSTANTS
    m1 = m1
    m2 = m2
    m3 = m3
    u1 = u1
    u2 = u2
    s1 = s1
    Send = {m1, m2, m3}
    User = {u1, u2}
    Socket = {s1}
    Faults = TRUE
SPECIFICATION Spec
SYMMETRY Symmetry
INVARIANTS
    TypeOK
    LastMessageIsNewest
    AnnouncedIsStored
PROPERTIES
    NoLateArrival

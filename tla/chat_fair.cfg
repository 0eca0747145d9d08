\* Concurrent sends without failures, and a client that pages through the chat
\* list meanwhile.
CONSTANTS
    Send = {1, 2, 3}
    User = {1, 2}
    Socket = {}
    Limit = 1
    Faults = FALSE
SPECIFICATION RepresentativeFairSpec
CHECK_DEADLOCK FALSE
INVARIANTS
    StoredIsAnnounced
    PagingSkipsNothing
PROPERTIES
    KeepsLog
    SomeoneGetsThrough

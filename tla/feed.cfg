\* Two overlapping requests of one viewer, with failures, deleted accounts and
\* expiring keys.  A page holds two ids and the query may find fewer, so that a
\* trim may take more than its own request has pushed.
CONSTANTS
    c1 = c1
    c2 = c2
    f1 = f1
    f2 = f2
    Candidate = {c1, c2}
    FeedReq = {f1, f2}
    FeedLimit = 2
    QueryLimit = 2
    Faults = TRUE
SPECIFICATION Spec
CHECK_DEADLOCK FALSE
INVARIANTS
    TypeOK
    FeedResidueBound
    ImmortalHasCulprit
PROPERTIES
    LeftStaysAway

\* No failures, fair scheduling: what the two services owe the users, and that
\* they get there.
CONSTANTS
    User = {1, 2}
    Req = {1, 2, 3}
    Faults = FALSE
SPECIFICATION RepresentativeFairSpec
CHECK_DEADLOCK FALSE
INVARIANTS
    MatchAccountedFor
PROPERTIES
    MatchedOnceSettled
    KeepsFairPromise

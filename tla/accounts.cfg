\* Four requests for two emails and two names, one of them a Google one.
CONSTANTS
    r1 = r1
    r2 = r2
    r3 = r3
    r4 = r4
    e1 = e1
    e2 = e2
    n = n
    g = g
    Req = {r1, r2, r3, r4}
    Email = {e1, e2}
    Name = {n, g}
    GoogleId = {g}
    Faults = TRUE
SPECIFICATION Spec
SYMMETRY Symmetry
CHECK_DEADLOCK FALSE
INVARIANTS
    TypeOK
    OneAccountPerGoogleId
    TokensAreOwned

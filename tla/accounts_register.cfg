\* A registration on its own, with nobody there to clash with.
CONSTANTS
    r1 = r1
    r2 = r2
    e1 = e1
    e2 = e2
    n = n
    g = g
    Req = {r1, r2}
    Email = {e1, e2}
    Name = {n, g}
    GoogleId = {g}
    Faults = FALSE
SPECIFICATION Spec
CHECK_DEADLOCK FALSE
INVARIANTS
    ExistsMeansTaken

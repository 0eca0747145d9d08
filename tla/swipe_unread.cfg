\* GET /swipe/unread is meant to leave out the swipes that were answered.
CONSTANTS
    User = {1, 2}
    Req = {1, 2}
    Faults = FALSE
SPECIFICATION Spec
CHECK_DEADLOCK FALSE
INVARIANTS
    UnreadIsUnanswered

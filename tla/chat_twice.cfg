\* Two first messages at once.
CONSTANTS
    Send = {1, 2}
    User = {1, 2}
    Socket = {}
    Faults = FALSE
SPECIFICATION Spec
CHECK_DEADLOCK FALSE
INVARIANTS
    OneConversation

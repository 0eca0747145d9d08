\* A like that makes a match, on its way to the lists of both users, with
\* failures and without.
CONSTANTS
    d1 = d1
    gone = gone
    NoToken = NoToken
    User = {1, 2}
    Req = {1, 2}
    Device = {d1, gone}
    Faults = TRUE
SPECIFICATION AfterFirstLikeFairSpec
CHECK_DEADLOCK FALSE
INVARIANTS
    JointTypeOK
    NotifiedOnce
    PairListedTogether
    PushIsListed
    ListedIsRecorded
PROPERTIES
    KeepsEnvironment
    MutualLikeListed
    LikeListed

\* Two requests of any kind, connections that fail at any moment.
CONSTANTS
    Req = {r1, r2}
    Faults = TRUE
SPECIFICATION FairSpec
INVARIANTS
    TypeOK
    AnswersAreTrue
    CutTogether
PROPERTIES
    AnsweredOnce
    EveryoneIsAnswered
\* Every request is answered in the end, or the process is gone.
CHECK_DEADLOCK FALSE

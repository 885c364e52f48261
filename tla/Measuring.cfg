SPECIFICATION FairSpec
CONSTANTS
    MaxRequests = 3
    Classes = {"A", "B"}
    Turns = {1, 2}
    Rows = 2
    Company <- MCCompany
    Attempts <- MCAttempts
    MaxVersion <- MCMaxVersion
    MaxRestarts = 1
    Faults = {"disk"}
CHECK_DEADLOCK FALSE
INVARIANTS
    TypeOK
    HistoryIsCurrent
PROPERTIES
    AloneIsServed
    OnlyWritesKill
    EveryRequestEnds

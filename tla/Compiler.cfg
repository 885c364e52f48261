CONSTANTS
    Requests = {r1, r2}
    Classes = {c1, c2}
    None = None
SPECIFICATION FairSpec
INVARIANTS
    TypeOK
    FilesHaveOwners
    CoverageIsFresh
    AloneIsJudgedFairly
PROPERTY RequestsAreAnswered
CHECK_DEADLOCK FALSE

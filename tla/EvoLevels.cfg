SPECIFICATION Spec
CONSTANTS
    Classes = {A, B}
    NoClass = NoClass
    MaxRuns = 4
    Suites = 3
    MaxLevel = 2
    Asked = {0, 2}
    Coverages = {1, 2}
    MaxFaults = 1
SYMMETRY ClassSymmetry
CHECK_DEADLOCK FALSE
INVARIANTS
    TypeOK
    LevelsAreItsOwn
    LevelsAreRanked

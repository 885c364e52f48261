CONSTANTS
    Classes = {c1, c2}
    Processes = {p1, p2}
    Blocks <- MCBlocks
    LinePercent <- MCLinePercent
    MaxIter = 2
    MaxSat = 2
    MaxLevel = 2
    NoReport = NoReport
    None = None
SPECIFICATION Spec
SYMMETRY Symmetry
INVARIANTS
    TypeOK
    LevelsGrow
    BestRunIsALevel
    AwaitedArchiveComes
    NothingIsLeft
PROPERTIES
    LevelsStay
CHECK_DEADLOCK FALSE
CONSTRAINT SomeUndisturbed

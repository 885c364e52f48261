CONSTANTS
    Accounts = {a1}
    MaxGames = 1
    MaxRounds = 2
    MaxTurns = 2
SPECIFICATION Spec
VIEW RepliesView
INVARIANTS
    TurnIntegrity
PROPERTIES
    ErrorsChangeNoTable
    TurnsLeaveOnRequest
CHECK_DEADLOCK FALSE

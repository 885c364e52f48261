CONSTANTS
    Accounts = {p0, p1, p2}
    Players = {p1, p2}
    NoPlayer = p0
    MaxGames = 2
    MaxRounds = 2
    MaxTurns = 3
    PoolSize = 2
    Faults = {}
    MaxRestarts = 1
SPECIFICATION ChoiceSpec
VIEW SessionView
INVARIANTS
    CsvBackedByDatabase
CHECK_DEADLOCK FALSE

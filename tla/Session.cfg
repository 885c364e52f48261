CONSTANTS
    Accounts = {p0, p1, p2}
    Players = {p1, p2}
    NoPlayer = p0
    MaxGames = 2
    MaxRounds = 2
    MaxTurns = 4
    PoolSize = 2
    Faults = {"t4", "csv", "lost", "restart"}
    MaxRestarts = 2
SPECIFICATION FairChoiceSpec
VIEW SessionView
INVARIANTS
    SessionCoherent
    AtMostOneAhead
    SavesAreCoherent
PROPERTIES
    ChoiceIsKept
    AnsweredOrExhausted
CHECK_DEADLOCK FALSE

CONSTANTS
    Accounts = {a1, a2}
    MaxGames = 2
    MaxRounds = 1
    MaxTurns = 1
SPECIFICATION Spec
VIEW TablesView
SYMMETRY AccountSymmetry
PROPERTIES
    NewGamesAreFresh
CHECK_DEADLOCK FALSE

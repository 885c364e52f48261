CONSTANTS
    Accounts = {a1}
    MaxGames = 1
    MaxRounds = 2
    MaxTurns = 1
SPECIFICATION Spec
VIEW TablesView
PROPERTIES
    UpdateTouchesOneTurn
CHECK_DEADLOCK FALSE

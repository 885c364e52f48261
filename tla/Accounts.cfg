SPECIFICATION Spec
CONSTANTS
    Emails = {e1, e2}
    Passwords = {p1, p2}
    Clients = {c1, c2, c3}
    None = None
    Lifetime = 1
    MaxTime = 2
    MaxRequests = 5
SYMMETRY Symmetry
INVARIANTS RegistersOnce ChosenPasswordStays TokensChangeOnce
PROPERTY LoginsKnowThePassword
CHECK_DEADLOCK FALSE

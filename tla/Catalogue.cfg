SPECIFICATION Spec
CONSTANTS
    A = A
    B = B
    ann = ann
    bob = bob
    eve = eve
    Names = {A, B}
    Admins = {ann, bob, eve}
    Known = {ann, bob}
    Default = Default
    MaxRequests = 2
    Menu <- MCMenu
    MaxLevel = 2
    MaxEntries = 1
    MaxFaults = 1
CHECK_DEADLOCK FALSE
INVARIANTS
    TypeOK
    ListedWithItsRobots
    RobotsOfOneUpload
    LogIsOrdered

SPECIFICATION FairSpec
CONSTANTS
    c1 = c1
    c2 = c2
    c3 = c3
    Conns = {c1, c2, c3}
    NoConn = NoConn
    InitSlots = 1
    MaxSlots = 2
    MaxToken = 3
    MaxClaim = 3
    MaxNum = 3
    Scenarios <- ResizeScenarios
INVARIANTS
    ConnectionsHeld
PROPERTIES
    SlotRecovers
    StopDrains
CHECK_DEADLOCK FALSE

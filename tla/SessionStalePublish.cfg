SPECIFICATION Spec
CONSTANTS
    c1 = c1
    c2 = c2
    c3 = c3
    c4 = c4
    Conns = {c1, c2, c3, c4}
    NoConn = NoConn
    InitSlots = 1
    MaxSlots = 2
    MaxToken = 3
    MaxClaim = 6
    MaxNum = 4
    Scenarios <- StaleScenario
SYMMETRY Symmetry
INVARIANT NotStranded
CHECK_DEADLOCK FALSE

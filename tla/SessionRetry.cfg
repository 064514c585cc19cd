SPECIFICATION Spec
CONSTANTS
    c1 = c1
    c2 = c2
    c3 = c3
    Conns = {c1, c2, c3}
    NoConn = NoConn
    InitSlots = 1
    MaxSlots = 1
    MaxToken = 3
    MaxClaim = 4
    MaxNum = 2
    Scenarios <- RetryScenario
SYMMETRY Symmetry
INVARIANTS
    SingleFlight
    RetryBacked
    NotStranded
    StopQuiesces
    EscalationHitsOwn
PROPERTY ServingConnectionKept
CHECK_DEADLOCK FALSE

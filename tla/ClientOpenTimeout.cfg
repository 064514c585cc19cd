SPECIFICATION Spec
CONSTANTS
    Proto = "Proxy"
    Scenarios <- TimeoutScenario
INVARIANTS FdClosedOnce
CHECK_DEADLOCK FALSE

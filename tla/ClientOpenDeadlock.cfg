SPECIFICATION Spec
CONSTANTS
    Proto = "Proxy"
    Scenarios <- DeadlockScenario
INVARIANTS NoDeadlock
CHECK_DEADLOCK FALSE

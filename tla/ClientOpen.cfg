SPECIFICATION FairSpec
CONSTANTS
    Proto = "Proxy"
    Scenarios <- MCScenarios
INVARIANTS
    HandleRefsConserved
    RelayOnlyAccepted
    ContextSafe
    NoDeadlock
    FdClosedOnce
    FdReleased
PROPERTIES
    StaleCompletionIgnored
    HandleSettles
CHECK_DEADLOCK FALSE

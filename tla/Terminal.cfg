CONSTANTS
    MayUpgrade = TRUE
    MayFailStart = TRUE
    HasEscalation = TRUE
    Scenarios <- MCScenarios
SPECIFICATION FairSpec
INVARIANTS Supervised EscalatedOnce QuietAfterTerminal LedgerFollowsOwner
           SchedulerConsistent
PROPERTIES TerminalIsFinal AbortConverges ScheduledEscalationTimesOut
CHECK_DEADLOCK FALSE

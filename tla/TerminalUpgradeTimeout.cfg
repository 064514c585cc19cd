CONSTANTS
    MayUpgrade = TRUE
    MayFailStart = FALSE
    HasEscalation = TRUE
    Scenarios <- UpgradeScenario
SPECIFICATION FairSpec
PROPERTIES EscalationTimesOut
CHECK_DEADLOCK FALSE

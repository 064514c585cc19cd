SPECIFICATION FairSpec
CONSTANTS
 Keys <- MCKeys
 Threads <- MCThreads
 Scenarios <- MCScenarios
INVARIANTS ClosedWhenOver SendsSettleOnce DeletedContextsAreLeft NoShutdownLost ContextsSettle
PROPERTIES StreamClosed
CHECK_DEADLOCK FALSE

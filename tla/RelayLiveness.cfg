SPECIFICATION FairSpec
CONSTANT Scenarios <- FollowedScenarios
PROPERTIES  Ends
CHECK_DEADLOCK FALSE

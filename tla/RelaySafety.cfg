SPECIFICATION Spec
CONSTANT Scenarios <- AllScenarios
INVARIANTS ReceiveDiscipline FdClosedOnce AccountsExact
 
CHECK_DEADLOCK FALSE

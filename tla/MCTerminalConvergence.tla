----------------------- MODULE MCTerminalConvergence -----------------------
(* TerminalConvergence for TLC: the relay thread calls twice and the          *)
(* scheduler is stopped once, with failing allocations or with a restart.     *)
EXTENDS TerminalConvergence

Failing == [calls |-> 2, stops |-> 1, starts |-> 0, allocFails |-> TRUE]
Restarting == [calls |-> 2, stops |-> 1, starts |-> 1, allocFails |-> FALSE]
MCScenarios == {Failing, Restarting}

UpgradeScenario == {[calls |-> 2, stops |-> 0, starts |-> 0, allocFails |-> FALSE]}
=============================================================================

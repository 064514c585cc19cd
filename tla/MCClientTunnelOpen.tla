------------------------- MODULE MCClientTunnelOpen -------------------------
(* ClientTunnelOpen for TLC.  The module is finite as it stands: the         *)
(* scenarios choose what may happen to the client and what the code promises *)
(* then.                                                                     *)
EXTENDS ClientTunnelOpen

\* Every disturbance at once: references, callbacks and completions are right.
Everything == [may |-> Disturbances, promises |-> {}]

\* The ownership contract of client_tunnel_open.h, with the client hanging up,
\* the reactor stopping and a relay that ends at once.
Contract == [may |-> {"relayEndsEarly"}, promises |-> {"fd", "handle"}]

\* The stream does not end by itself and the OPEN's send completes before its
\* answer: the teardown is in order.
Teardown == [may |-> {"openTimesOut", "connAborts", "relayFails"},
             promises |-> {"context", "progress"}]

MCScenarios == {Everything, Contract, Teardown}

\* The OPEN timer alone, and an abort beside a stream that ends.
TimeoutScenario == {[may |-> {"openTimesOut"}, promises |-> {"fd"}]}
DeadlockScenario == {[may |-> {"connAborts", "streamEnds"}, promises |-> {"progress"}]}
=============================================================================

------------------------ MODULE MCQuicClientSession ------------------------
(* QuicClientSession for TLC: connections are interchangeable.              *)
EXTENDS QuicClientSession, TLC

Symmetry == Permutations(Conns)

\* One slot and every disturbance but removing it.
RetryScenario == {Disturbances \ {"resizes"}}
\* Slots come and go; and a session nobody administers.
ResizeScenarios ==
    {{"openFails", "reconnects", "resizes"}, {"openFails", "schedulerRejects"}}
\* What it takes to publish a connection into a slot that was re-added.
StaleScenario == {{"openFails", "resizes"}}

=============================================================================

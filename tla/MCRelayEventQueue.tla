------------------------- MODULE MCRelayEventQueue --------------------------
(* Two producers and two consumers on a queue for two events: every lap of *)
(* the array meets calls that are still in progress on the lap before.     *)
EXTENDS RelayEventQueue, FiniteSets, TLC

CONSTANTS p1, p2, c1, c2, e1, e2

\* What a worker asks for, and what it gets.
MCCapacity == NormalizeCapacity(1, 8)

ASSUME \A n \in 0 .. 8 : LET m == NormalizeCapacity(n, 8)
                         IN  m >= 2 /\ m >= n /\ (n > 2 => m < 2 * n)

Symmetry == Permutations({p1, p2}) \cup Permutations({c1, c2}) \cup Permutations({e1, e2})
=============================================================================

--------------------- MODULE QuicClientSessionTheorems ---------------------
(***************************************************************************)
(* What QuicClientSession::Stop promises, for any number of slots,          *)
(* connections, retries and administrative operations:                      *)
(*                                                                          *)
(*   Spec => []CallsCounted   gate->ActiveCalls counts the calls that hold  *)
(*                            the session, exactly;                         *)
(*   Spec => []StopQuiesces   once Stop has shut the connections down none  *)
(*                            is open, and none is opened again.            *)
(***************************************************************************)
EXTENDS QuicClientSessionRetryProofs, QuicClientSessionStopProofs

StopInv ==
    /\ Typed /\ FramesOK /\ TokenInv /\ GateInv /\ RetryIdx /\ ConnInv
    /\ ShutInv /\ RolesInv /\ FreshInv /\ CallsCounted /\ LiveInv /\ StoppedInv

LEMMA StopInvNext == ASSUME StopInv, [Next]_vars PROVE StopInv'
<1>1. Typed' /\ FramesOK' /\ TokenInv'
  BY TypedStep, FramesStep, TokensStep, Zenon DEF StopInv
<1>2. GateInv' /\ RetryIdx' /\ ConnInv'
  BY GateStep, Zenon DEF StopInv
<1>3. ShutInv' /\ RolesInv' /\ FreshInv' /\ CallsCounted' /\ LiveInv'
  BY ShutStep, RolesStep, FreshStep, CountStep, LiveStep, Zenon DEF StopInv
<1>4. StoppedInv'
  BY <1>1, StoppedStep, Zenon DEF StopInv
<1> QED BY <1>1, <1>2, <1>3, <1>4 DEF StopInv

\* The invariant of every step: the types, the calls that hold the session, who
\* holds an open connection, and what Stop left behind.
THEOREM StopInvariant == Spec => []StopInv
<1>1. Init => StopInv
  BY TypedInit, FramesInit, TokensInit, GateInit, StopInit, Zenon DEF StopInv
<1>2. StopInv /\ [Next]_vars => StopInv'
  BY StopInvNext
<1> QED BY <1>1, <1>2, PTL DEF Spec

\* AcquireLiveSession and ~LiveCallGuard: gate->ActiveCalls is the number of calls
\* that hold the session, in every interleaving of StartSlot, retries, callbacks
\* and Stop.  In particular it never underflows.
THEOREM ActiveCallsExact == Spec => [](CallsCounted /\ calls \in Nat)
<1>1. StopInv => CallsCounted /\ calls \in Nat
  BY CountIsNat DEF StopInv
<1> QED BY <1>1, StopInvariant, PTL

\* Stop waits for gate->Drained, shuts every connection down, and no StartSlot,
\* retry or callback opens, starts or connects one afterwards.
THEOREM StopLeavesNothingOpen == Spec => []StopQuiesces
<1>1. StopInv => StopQuiesces
  BY DEF StopInv, StoppedInv, StopQuiesces
<1> QED BY <1>1, StopInvariant, PTL
=============================================================================

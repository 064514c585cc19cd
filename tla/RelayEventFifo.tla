--------------------------- MODULE RelayEventFifo ---------------------------
(***************************************************************************)
(* What the relay workers rely on from their event queue: a bounded first- *)
(* in first-out queue.  An event is put by one atomic step and got, in the *)
(* order of the puts and exactly once, by one atomic step.                 *)
(***************************************************************************)
EXTENDS Integers, Sequences

CONSTANTS Capacity, Events, NoEvent, Consumers

VARIABLES
    log,     \* every event put, in order
    taken,   \* how many of them were got
    hand     \* the event a consumer has got and not yet returned with

fifoVars == <<log, taken, hand>>

FifoInit == log = << >> /\ taken = 0 /\ hand = [c \in Consumers |-> NoEvent]

Put(e) ==
    /\ Len(log) - taken < Capacity
    /\ log' = Append(log, e)
    /\ UNCHANGED <<taken, hand>>

Get(c) ==
    /\ taken < Len(log)
    /\ hand' = [hand EXCEPT ![c] = log[taken + 1]]
    /\ taken' = taken + 1
    /\ UNCHANGED log

Leave(c) ==
    /\ hand' = [hand EXCEPT ![c] = NoEvent]
    /\ UNCHANGED <<log, taken>>

FifoNext == \/ \E e \in Events : Put(e)
            \/ \E c \in Consumers : Get(c) \/ Leave(c)

FifoSpec == FifoInit /\ [][FifoNext]_fifoVars
=============================================================================

-------------------------- MODULE RelayEventQueue ---------------------------
(***************************************************************************)
(* The lock-free queue through which MsQuic callbacks and API threads pass *)
(* events to a relay worker: TqLinuxRelayEventQueue and                    *)
(* TqDarwinRelayEventQueue (tunnel/*_relay_event_queue.h), the same        *)
(* algorithm on an array of cells that each carry a sequence number.       *)
(*                                                                         *)
(* A step is one access to shared memory.  The relaxed loads of a position *)
(* may return any value since the one the thread last saw, and the acquire *)
(* load of a cell's Sequence any value the cell had; a compare-and-swap    *)
(* succeeds only on the current value and may fail spuriously.  Positions  *)
(* are unbounded here; the code's are 64 bits wide.                        *)
(***************************************************************************)
EXTENDS Integers, Sequences

CONSTANTS
    Capacity,      \* CapacityValue: NormalizeCapacity of what was asked for
    Events, NoEvent,
    Producers, Consumers,
    MaxPushes      \* bound on the pushes that begin

ASSUME CapacityAssumption == Capacity \in Nat /\ Capacity >= 2
ASSUME EventsAssumption == NoEvent \notin Events
ASSUME ProcsAssumption == Producers \cap Consumers = {}
ASSUME BoundAssumption == MaxPushes \in Nat

VARIABLES
    EnqueuePos, DequeuePos,
    Sequence, Event,       \* the cells of Slots
    pc, position, event,   \* the calls of TryPush and TryPop in progress
    accepted               \* history: the events pushed, in the order of their positions

vars == <<EnqueuePos, DequeuePos, Sequence, Event, pc, position, event, accepted>>

Procs == Producers \cup Consumers
Cells == 0 .. Capacity - 1
Cell(q) == q % Capacity            \* position & Mask, Capacity being a power of two

\* The least power of two that is at least 2 and at least n; n is at most a bound.
NormalizeCapacity(n, bound) ==
    CHOOSE m \in 2 .. 2 * bound :
      /\ m >= n
      /\ \E k \in 1 .. bound : m = 2 ^ k
      /\ \A k \in 1 .. bound : 2 ^ k >= n => 2 ^ k >= m

Init ==
    /\ EnqueuePos = 0 /\ DequeuePos = 0
    /\ Sequence = [i \in Cells |-> i]
    /\ Event = [i \in Cells |-> NoEvent]
    /\ pc = [p \in Procs |-> "idle"]
    /\ position = [p \in Procs |-> 0]
    /\ event = [p \in Procs |-> NoEvent]
    /\ accepted = << >>

\* The values a load of cell i's Sequence may return.
Seen(i) == {s \in i .. Sequence[i] : Cell(s) \in {i, Cell(i + 1)}}

Goto(p, label) == pc' = [pc EXCEPT ![p] = label]

\* A position that p may load when the counter stands at last.
Load(p, last) == \E q \in position[p] .. last : position' = [position EXCEPT ![p] = q]

-----------------------------------------------------------------------------
(* TryPush.                                                                 *)

PushBegin(p, e) ==
    /\ pc[p] = "idle" /\ EnqueuePos < MaxPushes
    /\ event' = [event EXCEPT ![p] = e]
    /\ Load(p, EnqueuePos)
    /\ Goto(p, "check")
    /\ UNCHANGED <<EnqueuePos, DequeuePos, Sequence, Event, accepted>>

\* A variant that takes a cell still in use for a free one.
PushCheckNotAhead(p) ==
    /\ pc[p] = "check"
    /\ \E s \in Seen(Cell(position[p])) :
         \/ s <= position[p] /\ Goto(p, "cas") /\ UNCHANGED position
         \/ s > position[p] /\ Load(p, EnqueuePos) /\ UNCHANGED pc
    /\ UNCHANGED <<EnqueuePos, DequeuePos, Sequence, Event, event, accepted>>

\* The cell is free for this position, or still in use, or was taken by another.
PushCheck(p) ==
    /\ pc[p] = "check"
    /\ \E s \in Seen(Cell(position[p])) :
         \/ s = position[p] /\ Goto(p, "cas") /\ UNCHANGED position
         \/ s < position[p] /\ Goto(p, "idle") /\ UNCHANGED position
         \/ s > position[p] /\ Load(p, EnqueuePos) /\ UNCHANGED pc
    /\ UNCHANGED <<EnqueuePos, DequeuePos, Sequence, Event, event, accepted>>

PushClaim(p) ==
    /\ pc[p] = "cas" /\ EnqueuePos = position[p]
    /\ EnqueuePos' = EnqueuePos + 1
    /\ accepted' = Append(accepted, event[p])
    /\ Goto(p, "write")
    /\ UNCHANGED <<DequeuePos, Sequence, Event, position, event>>

PushRetry(p) ==
    /\ pc[p] = "cas"
    /\ Load(p, EnqueuePos)
    /\ Goto(p, "check")
    /\ UNCHANGED <<EnqueuePos, DequeuePos, Sequence, Event, event, accepted>>

PushWrite(p) ==
    /\ pc[p] = "write"
    /\ Event' = [Event EXCEPT ![Cell(position[p])] = event[p]]
    /\ Goto(p, "publish")
    /\ UNCHANGED <<EnqueuePos, DequeuePos, Sequence, position, event, accepted>>

\* A variant that publishes the position itself.
PushPublishPosition(p) ==
    /\ pc[p] = "publish"
    /\ Sequence' = [Sequence EXCEPT ![Cell(position[p])] = position[p]]
    /\ Goto(p, "idle")
    /\ UNCHANGED <<EnqueuePos, DequeuePos, Event, position, event, accepted>>

PushPublish(p) ==
    /\ pc[p] = "publish"
    /\ Sequence' = [Sequence EXCEPT ![Cell(position[p])] = position[p] + 1]
    /\ Goto(p, "idle")
    /\ UNCHANGED <<EnqueuePos, DequeuePos, Event, position, event, accepted>>

-----------------------------------------------------------------------------
(* TryPop.                                                                  *)

PopBegin(c) ==
    /\ pc[c] = "idle"
    /\ Load(c, DequeuePos)
    /\ Goto(c, "check")
    /\ UNCHANGED <<EnqueuePos, DequeuePos, Sequence, Event, event, accepted>>

\* The cell is published for this position, or not yet, or was popped already.
PopCheck(c) ==
    /\ pc[c] = "check"
    /\ \E s \in Seen(Cell(position[c])) :
         \/ s = position[c] + 1 /\ Goto(c, "cas") /\ UNCHANGED position
         \/ s < position[c] + 1 /\ Goto(c, "idle") /\ UNCHANGED position
         \/ s > position[c] + 1 /\ Load(c, DequeuePos) /\ UNCHANGED pc
    /\ UNCHANGED <<EnqueuePos, DequeuePos, Sequence, Event, event, accepted>>

PopClaim(c) ==
    /\ pc[c] = "cas" /\ DequeuePos = position[c]
    /\ DequeuePos' = DequeuePos + 1
    /\ Goto(c, "take")
    /\ UNCHANGED <<EnqueuePos, Sequence, Event, position, event, accepted>>

PopRetry(c) ==
    /\ pc[c] = "cas"
    /\ Load(c, DequeuePos)
    /\ Goto(c, "check")
    /\ UNCHANGED <<EnqueuePos, DequeuePos, Sequence, Event, event, accepted>>

\* The event is moved out and the cell's one cleared ...
PopTake(c) ==
    /\ pc[c] = "take"
    /\ event' = [event EXCEPT ![c] = Event[Cell(position[c])]]
    /\ Event' = [Event EXCEPT ![Cell(position[c])] = NoEvent]
    /\ Goto(c, "release")
    /\ UNCHANGED <<EnqueuePos, DequeuePos, Sequence, position, accepted>>

\* A variant that adds the mask and not the capacity.
PopReleaseMask(c) ==
    /\ pc[c] = "release"
    /\ Sequence' = [Sequence EXCEPT ![Cell(position[c])] = position[c] + Capacity - 1]
    /\ Goto(c, "idle")
    /\ UNCHANGED <<EnqueuePos, DequeuePos, Event, position, event, accepted>>

\* ... and the cell is given to the push that is one lap ahead.
PopRelease(c) ==
    /\ pc[c] = "release"
    /\ Sequence' = [Sequence EXCEPT ![Cell(position[c])] = position[c] + Capacity]
    /\ Goto(c, "idle")
    /\ UNCHANGED <<EnqueuePos, DequeuePos, Event, position, event, accepted>>

-----------------------------------------------------------------------------

Push(p) == \/ \E e \in Events : PushBegin(p, e)
           \/ PushCheck(p) \/ PushClaim(p) \/ PushRetry(p)
           \/ PushWrite(p) \/ PushPublish(p)

Pop(c) == PopBegin(c) \/ PopCheck(c) \/ PopClaim(c) \/ PopRetry(c) \/ PopTake(c)
          \/ PopRelease(c)

Next == (\E p \in Producers : Push(p)) \/ (\E c \in Consumers : Pop(c))

Spec == Init /\ [][Next]_vars

-----------------------------------------------------------------------------
(* Properties.                                                              *)

Pushing(p) == p \in Producers /\ pc[p] \in {"write", "publish"}
Popping(c) == c \in Consumers /\ pc[c] \in {"take", "release"}

Types ==
    /\ EnqueuePos \in Nat /\ DequeuePos \in Nat
    /\ Sequence \in [Cells -> Nat]
    /\ Event \in [Cells -> Events \cup {NoEvent}]
    /\ pc \in [Procs -> {"idle", "check", "cas", "write", "publish", "take", "release"}]
    /\ position \in [Procs -> Nat]
    /\ event \in [Procs -> Events \cup {NoEvent}]
    /\ accepted \in Seq(Events)

\* The cell of a position that was pushed and not popped: published, or about to
\* be by the producer that claimed it.
Filled(q) == \/ /\ Sequence[Cell(q)] = q + 1
                /\ Event[Cell(q)] = accepted[q + 1]
             \/ /\ Sequence[Cell(q)] = q
                /\ \E p \in Producers : Pushing(p) /\ position[p] = q

\* The cell of a position that is to be pushed: free, or about to be by the
\* consumer that claimed it a lap earlier.
Vacant(q) == \/ Sequence[Cell(q)] = q
             \/ /\ q >= Capacity /\ Sequence[Cell(q)] = q + 1 - Capacity
                /\ \E c \in Consumers : Popping(c) /\ position[c] + Capacity = q

\* A producer between its claim and its publication owns its cell.
PushOwns(p) ==
    /\ DequeuePos <= position[p] /\ position[p] < EnqueuePos
    /\ Sequence[Cell(position[p])] = position[p]
    /\ event[p] = accepted[position[p] + 1]
    /\ pc[p] = "publish" => Event[Cell(position[p])] = event[p]

\* So does a consumer between its claim and its release.
PopOwns(c) ==
    /\ position[c] < DequeuePos /\ EnqueuePos <= position[c] + Capacity
    /\ Sequence[Cell(position[c])] = position[c] + 1
    /\ pc[c] = "take" => Event[Cell(position[c])] = accepted[position[c] + 1]
    /\ pc[c] = "release" => event[c] = accepted[position[c] + 1]

\* A push that found its cell free has found it so for good, or its swap fails.
ProducerInv(p) ==
    /\ pc[p] \in {"idle", "check", "cas", "write", "publish"}
    /\ position[p] <= EnqueuePos
    /\ pc[p] # "idle" => event[p] \in Events
    /\ pc[p] = "cas" /\ position[p] = EnqueuePos => Sequence[Cell(EnqueuePos)] = EnqueuePos
    /\ Pushing(p) => PushOwns(p)

ConsumerInv(c) ==
    /\ pc[c] \in {"idle", "check", "cas", "take", "release"}
    /\ position[c] <= DequeuePos
    /\ pc[c] = "cas" /\ position[c] = DequeuePos =>
         Sequence[Cell(DequeuePos)] = DequeuePos + 1
    /\ Popping(c) => PopOwns(c)

\* No two calls of a kind have claimed the same position.
ClaimsDiffer ==
    \A p, r \in Procs :
      p # r /\ ((Pushing(p) /\ Pushing(r)) \/ (Popping(p) /\ Popping(r))) =>
        position[p] # position[r]

\* The discipline of the cells: at most Capacity positions are between the two
\* counters, each cell's Sequence tells which position it serves and whether it is
\* filled, and a claimed cell belongs to one call until it is published or
\* released.
QueueInv ==
    /\ Types
    /\ Len(accepted) = EnqueuePos
    /\ DequeuePos <= EnqueuePos /\ EnqueuePos <= DequeuePos + Capacity
    /\ \A q \in DequeuePos .. EnqueuePos - 1 : Filled(q)
    /\ \A q \in EnqueuePos .. DequeuePos + Capacity - 1 : Vacant(q)
    /\ \A p \in Producers : ProducerInv(p)
    /\ \A c \in Consumers : ConsumerInv(c)
    /\ ClaimsDiffer

\* What TryPush and TryPop answer, by the cell they look at, is the truth about
\* the queue whenever nobody is between claiming a cell and publishing or
\* releasing it: a pop then finds an event unless the queue is empty, and a push
\* finds room unless Capacity events are queued.
AnswersTrue ==
    /\ (\A p \in Producers : ~Pushing(p)) =>
         (Sequence[Cell(DequeuePos)] = DequeuePos + 1 <=> DequeuePos < EnqueuePos)
    /\ (\A c \in Consumers : ~Popping(c)) =>
         (Sequence[Cell(EnqueuePos)] = EnqueuePos <=> EnqueuePos - DequeuePos < Capacity)

\* The event a consumer holds: still in its cell, or moved out of it.
Held(c) == IF pc[c] = "take" THEN Event[Cell(position[c])]
           ELSE IF pc[c] = "release" THEN event[c] ELSE NoEvent

Fifo == INSTANCE RelayEventFifo WITH log <- accepted, taken <- DequeuePos,
                                     hand <- [c \in Consumers |-> Held(c)]

\* The queue implements the bounded first-in first-out queue: the swap of
\* EnqueuePos is the put, the swap of DequeuePos the get, no event is lost,
\* duplicated, reordered or overwritten before it was moved out, and never more
\* than Capacity are queued.
ImplementsFifo == Fifo!FifoSpec
=============================================================================

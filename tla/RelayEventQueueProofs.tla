----------------------- MODULE RelayEventQueueProofs ------------------------
(***************************************************************************)
(* Proofs about the event queue of the relay workers: its cells keep their *)
(* discipline, its answers are true, and it implements RelayEventFifo, for *)
(* every capacity and every number of producers and consumers.             *)
(*                                                                         *)
(* The argument is about cells.  Positions less than Capacity apart have   *)
(* different cells (CellsDiffer), a position and the one a lap later have  *)
(* the same (CellLap); afterwards Cell stays opaque.  The invariant says   *)
(* what the Sequence of every cell in the window from DequeuePos to one    *)
(* lap later may be, and what each claimed cell holds.                     *)
(***************************************************************************)
EXTENDS RelayEventQueue, TLAPS

LEMMA MulAtLeast ==
    ASSUME NEW n \in Nat, NEW k \in Int, k >= 1
    PROVE  n * k >= n
  OBVIOUS

LEMMA MulAtMost ==
    ASSUME NEW n \in Nat, NEW k \in Int, k <= 0
    PROVE  n * k <= 0
  OBVIOUS

LEMMA DivMod ==
    ASSUME NEW q \in Nat
    PROVE  /\ q % Capacity \in Cells
           /\ q \div Capacity \in Int
           /\ q = Capacity * (q \div Capacity) + (q % Capacity)
  BY CapacityAssumption DEF Cells

LEMMA CellInCells ==
    ASSUME NEW q \in Nat
    PROVE  Cell(q) \in Cells
  BY DivMod DEF Cell

LEMMA CellsDiffer ==
    ASSUME NEW a \in Nat, NEW b \in Nat, a < b, b < a + Capacity
    PROVE  Cell(a) # Cell(b)
<1> DEFINE k == (b \div Capacity) - (a \div Capacity)
<1>1. k \in Int
  BY DivMod
<1>2. Capacity * k = Capacity * (b \div Capacity) - Capacity * (a \div Capacity)
  BY DivMod, CapacityAssumption
<1>3. SUFFICES ASSUME Cell(a) = Cell(b) PROVE FALSE
  OBVIOUS
<1>4. Capacity * k = b - a
  BY <1>2, <1>3, DivMod, CapacityAssumption DEF Cell, Cells
<1> HIDE DEF k
<1>5. CASE k >= 1
  BY <1>1, <1>4, <1>5, MulAtLeast, CapacityAssumption
<1>6. CASE k <= 0
  BY <1>1, <1>4, <1>6, MulAtMost, CapacityAssumption
<1>7. QED
  BY <1>1, <1>5, <1>6

LEMMA CellLap ==
    ASSUME NEW q \in Nat
    PROVE  Cell(q + Capacity) = Cell(q)
<1> DEFINE r == q + Capacity
<1>1. r \in Nat
  BY CapacityAssumption
<1>2. /\ r = Capacity * (r \div Capacity) + (r % Capacity)
      /\ r \div Capacity \in Int
      /\ r % Capacity \in Cells
  BY <1>1, DivMod
<1>3. /\ q = Capacity * (q \div Capacity) + (q % Capacity)
      /\ q \div Capacity \in Int
      /\ q % Capacity \in Cells
  BY DivMod
<1> DEFINE k == (r \div Capacity) - (q \div Capacity) - 1
<1>4. k \in Int
  BY <1>2, <1>3
<1>5. Capacity * k = Capacity * (r \div Capacity) - Capacity * (q \div Capacity) - Capacity
  BY <1>2, <1>3, CapacityAssumption
<1>6. Capacity * k = (q % Capacity) - (r % Capacity)
  BY <1>2, <1>3, <1>5, CapacityAssumption DEF Cells
<1>7. Capacity * k < Capacity /\ -Capacity < Capacity * k
  BY <1>2, <1>3, <1>6, CapacityAssumption DEF Cells
<1> HIDE DEF k, r
<1>8. CASE k >= 1
  BY <1>4, <1>7, <1>8, MulAtLeast, CapacityAssumption
<1>9. CASE k <= -1
  <2>1. Capacity * (k + 1) <= 0
    BY <1>4, <1>9, MulAtMost, CapacityAssumption
  <2>2. Capacity * (k + 1) = Capacity * k + Capacity
    BY <1>4, CapacityAssumption
  <2>3. QED
    BY <1>7, <2>1, <2>2, <1>4, CapacityAssumption
<1>10. CASE k = 0
  <2>1. Capacity * k = 0
    BY <1>10, CapacityAssumption
  <2>2. q % Capacity = r % Capacity
    BY <2>1, <1>6, <1>2, <1>3, CapacityAssumption DEF Cells
  <2>3. QED
    BY <2>2 DEF Cell, r
<1>11. QED
  BY <1>4, <1>8, <1>9, <1>10

LEMMA NextCellDiffers ==
    ASSUME NEW q \in Nat
    PROVE  Cell(q) # Cell(q + 1)
  BY CellsDiffer, CapacityAssumption

-----------------------------------------------------------------------------
USE DEF Procs

LEMMA InitInv == Init => QueueInv
<1> SUFFICES ASSUME Init PROVE QueueInv
  OBVIOUS
<1>1. Types
  BY CapacityAssumption DEF Init, Types, Cells
<1>2. /\ EnqueuePos = 0 /\ DequeuePos = 0 /\ Len(accepted) = 0
      /\ \A r \in Procs : pc[r] = "idle" /\ position[r] = 0
  BY DEF Init
<1>3. \A q \in 0 .. Capacity - 1 : Vacant(q)
  <2> SUFFICES ASSUME NEW q \in 0 .. Capacity - 1 PROVE Sequence[Cell(q)] = q
    BY DEF Vacant
  <2>1. Cell(q) = q
    BY CapacityAssumption DEF Cell
  <2>2. QED
    BY <2>1 DEF Init, Cells
<1>4. QED
  BY <1>1, <1>2, <1>3, CapacityAssumption
     DEF QueueInv, ProducerInv, ConsumerInv, ClaimsDiffer, Pushing, Popping

\* A call that looks (loads a position, reads a Sequence, tries again or gives
\* up) changes nothing that another call relies on.
LEMMA Look ==
    ASSUME QueueInv,
           NEW p \in Procs, pc[p] \in {"idle", "check", "cas"},
           NEW l \in {"idle", "check", "cas"}, pc' = [pc EXCEPT ![p] = l],
           NEW q \in Nat, position' = [position EXCEPT ![p] = q],
           NEW e \in Events \cup {NoEvent}, event' = [event EXCEPT ![p] = e],
           UNCHANGED <<EnqueuePos, DequeuePos, Sequence, Event, accepted>>,
           p \in Producers =>
             /\ q <= EnqueuePos
             /\ l # "idle" => e \in Events
             /\ l = "cas" /\ q = EnqueuePos => Sequence[Cell(EnqueuePos)] = EnqueuePos,
           p \in Consumers =>
             /\ q <= DequeuePos
             /\ l = "cas" /\ q = DequeuePos => Sequence[Cell(DequeuePos)] = DequeuePos + 1
    PROVE  QueueInv'
<1>1. Types'
  BY DEF QueueInv, Types
<1>2. ~Pushing(p) /\ ~Popping(p) /\ ~Pushing(p)' /\ ~Popping(p)'
  BY DEF QueueInv, Types, Pushing, Popping
<1>3. pc'[p] = l /\ position'[p] = q /\ event'[p] = e
  BY DEF QueueInv, Types
<1>4. \A r \in Procs : r # p =>
        /\ pc'[r] = pc[r] /\ position'[r] = position[r] /\ event'[r] = event[r]
        /\ Pushing(r)' = Pushing(r) /\ Popping(r)' = Popping(r)
  BY DEF QueueInv, Types, Pushing, Popping
<1>5. \A i \in DequeuePos .. EnqueuePos - 1 : Filled(i)'
  <2> SUFFICES ASSUME NEW i \in DequeuePos .. EnqueuePos - 1 PROVE Filled(i)'
    OBVIOUS
  <2>1. Filled(i)
    BY DEF QueueInv
  <2>2. QED
    BY <2>1, <1>2, <1>4 DEF Filled
<1>6. \A i \in EnqueuePos .. DequeuePos + Capacity - 1 : Vacant(i)'
  <2> SUFFICES ASSUME NEW i \in EnqueuePos .. DequeuePos + Capacity - 1 PROVE Vacant(i)'
    OBVIOUS
  <2>1. Vacant(i)
    BY DEF QueueInv
  <2>2. QED
    BY <2>1, <1>2, <1>4 DEF Vacant
<1>7. ASSUME NEW r \in Producers PROVE ProducerInv(r)'
  <2>1. ProducerInv(r)
    BY DEF QueueInv
  <2>2. CASE r = p
    BY <2>2, <1>2, <1>3 DEF ProducerInv
  <2>3. CASE r # p
    BY <2>1, <2>3, <1>4 DEF ProducerInv, PushOwns
  <2>4. QED
    BY <2>2, <2>3
<1>8. ASSUME NEW r \in Consumers PROVE ConsumerInv(r)'
  <2>1. ConsumerInv(r)
    BY DEF QueueInv
  <2>2. CASE r = p
    BY <2>2, <1>2, <1>3 DEF ConsumerInv
  <2>3. CASE r # p
    BY <2>1, <2>3, <1>4 DEF ConsumerInv, PopOwns
  <2>4. QED
    BY <2>2, <2>3
<1>9. ClaimsDiffer'
  BY <1>2, <1>4 DEF QueueInv, ClaimsDiffer
<1>10. QED
  BY <1>1, <1>5, <1>6, <1>7, <1>8, <1>9 DEF QueueInv

-----------------------------------------------------------------------------

\* What TryPush's check of a cell shows about the cell of the next position.
LEMMA FreeCell ==
    ASSUME QueueInv, Sequence[Cell(EnqueuePos)] >= EnqueuePos
    PROVE  Sequence[Cell(EnqueuePos)] = EnqueuePos /\ EnqueuePos < DequeuePos + Capacity
<1> USE CapacityAssumption
<1>1. /\ EnqueuePos \in Nat /\ DequeuePos \in Nat
      /\ DequeuePos <= EnqueuePos /\ EnqueuePos <= DequeuePos + Capacity
      /\ Cell(EnqueuePos) \in Cells /\ Cell(DequeuePos) \in Cells
      /\ Sequence[Cell(EnqueuePos)] \in Nat
  BY CellInCells DEF QueueInv, Types
<1>2. ASSUME EnqueuePos = DequeuePos + Capacity PROVE FALSE
  <2>1. Cell(EnqueuePos) = Cell(DequeuePos)
    BY <1>1, <1>2, CellLap
  <2>2. Filled(DequeuePos)
    BY <1>1, <1>2 DEF QueueInv
  <2>3. Sequence[Cell(DequeuePos)] <= DequeuePos + 1
    BY <2>2, <1>1 DEF Filled
  <2>4. QED
    BY <2>1, <2>3, <1>1, <1>2
<1>3. Vacant(EnqueuePos)
  BY <1>1, <1>2 DEF QueueInv
<1>4. QED
  BY <1>1, <1>2, <1>3 DEF Vacant

\* What TryPop's check shows about the cell of the oldest position.
LEMMA PublishedCell ==
    ASSUME QueueInv, Sequence[Cell(DequeuePos)] >= DequeuePos + 1
    PROVE  /\ Sequence[Cell(DequeuePos)] = DequeuePos + 1
           /\ DequeuePos < EnqueuePos
           /\ Event[Cell(DequeuePos)] = accepted[DequeuePos + 1]
<1> USE CapacityAssumption
<1>1. /\ EnqueuePos \in Nat /\ DequeuePos \in Nat
      /\ DequeuePos <= EnqueuePos /\ EnqueuePos <= DequeuePos + Capacity
      /\ Cell(DequeuePos) \in Cells
      /\ Sequence[Cell(DequeuePos)] \in Nat
  BY CellInCells DEF QueueInv, Types
<1>2. ASSUME EnqueuePos = DequeuePos PROVE FALSE
  <2>1. Vacant(DequeuePos)
    BY <1>1, <1>2 DEF QueueInv
  <2>2. QED
    BY <2>1, <1>1 DEF Vacant
<1>3. Filled(DequeuePos)
  BY <1>1, <1>2 DEF QueueInv
<1>4. QED
  BY <1>1, <1>2, <1>3 DEF Filled

\* The cells that calls have claimed are pairwise different.
LEMMA ClaimedCells ==
    ASSUME QueueInv
    PROVE  /\ \A p, r \in Producers : Pushing(p) /\ Pushing(r) /\ p # r =>
                Cell(position[p]) # Cell(position[r])
           /\ \A c, d \in Consumers : Popping(c) /\ Popping(d) /\ c # d =>
                Cell(position[c]) # Cell(position[d])
           /\ \A p \in Producers, c \in Consumers : Pushing(p) /\ Popping(c) =>
                Cell(position[p]) # Cell(position[c])
<1>1. \A r \in Procs : position[r] \in Nat
  BY DEF QueueInv, Types
<1>2. \A p \in Producers : Pushing(p) => Sequence[Cell(position[p])] = position[p]
  BY DEF QueueInv, ProducerInv, PushOwns
<1>3. \A c \in Consumers : Popping(c) => Sequence[Cell(position[c])] = position[c] + 1
  BY DEF QueueInv, ConsumerInv, PopOwns
<1>4. ASSUME NEW p \in Producers, NEW r \in Producers, Pushing(p), Pushing(r), p # r
      PROVE  Cell(position[p]) # Cell(position[r])
  BY <1>2, <1>4 DEF QueueInv, ClaimsDiffer
<1>5. ASSUME NEW c \in Consumers, NEW d \in Consumers, Popping(c), Popping(d), c # d
      PROVE  Cell(position[c]) # Cell(position[d])
  <2>1. position[c] # position[d]
    BY <1>5 DEF QueueInv, ClaimsDiffer
  <2>2. position[c] + 1 # position[d] + 1
    BY <2>1, <1>1
  <2>3. QED
    BY <2>2, <1>3, <1>5
<1>6. ASSUME NEW p \in Producers, NEW c \in Consumers, Pushing(p), Popping(c)
      PROVE  Cell(position[p]) # Cell(position[c])
  BY <1>1, <1>2, <1>3, <1>6, NextCellDiffers
<1>7. QED
  BY <1>4, <1>5, <1>6

LEMMA CountersType ==
    ASSUME QueueInv
    PROVE  /\ EnqueuePos \in Nat /\ DequeuePos \in Nat
           /\ DequeuePos <= EnqueuePos /\ EnqueuePos <= DequeuePos + Capacity
           /\ accepted \in Seq(Events) /\ Len(accepted) = EnqueuePos
           /\ \A r \in Procs : position[r] \in Nat /\ Cell(position[r]) \in Cells
           /\ \A q \in Nat : Cell(q) \in Cells
  BY CellInCells DEF QueueInv, Types

LEMMA PushClaimInv ==
    ASSUME QueueInv, NEW p \in Producers, PushClaim(p)
    PROVE  QueueInv'
<1> USE CapacityAssumption
<1>1. Sequence[Cell(EnqueuePos)] = EnqueuePos /\ position[p] = EnqueuePos /\ pc[p] = "cas"
  BY DEF PushClaim, QueueInv, ProducerInv
<1>2. EnqueuePos < DequeuePos + Capacity
  BY <1>1, FreeCell, CountersType
<1>3. /\ EnqueuePos' = EnqueuePos + 1
      /\ accepted' = Append(accepted, event[p])
      /\ pc' = [pc EXCEPT ![p] = "write"]
      /\ UNCHANGED <<DequeuePos, Sequence, Event, position, event>>
  BY DEF PushClaim, Goto
<1>4. event[p] \in Events
  BY <1>1 DEF QueueInv, ProducerInv
<1>5. Types'
  BY <1>3, <1>4 DEF QueueInv, Types
<1>6. /\ accepted'[EnqueuePos + 1] = event[p]
      /\ Len(accepted') = EnqueuePos + 1
      /\ \A q \in Nat : q < EnqueuePos => accepted'[q + 1] = accepted[q + 1]
  BY <1>3, <1>4, CountersType
<1>7. pc'[p] = "write" /\ Pushing(p)' /\ ~Popping(p)' /\ ~Pushing(p) /\ ~Popping(p)
  BY <1>1, <1>3, ProcsAssumption DEF QueueInv, Types, Pushing, Popping
<1>8. \A r \in Procs : r # p =>
        pc'[r] = pc[r] /\ Pushing(r)' = Pushing(r) /\ Popping(r)' = Popping(r)
  BY <1>3 DEF QueueInv, Types, Pushing, Popping
<1>9. ASSUME NEW q \in DequeuePos .. EnqueuePos PROVE Filled(q)'
  <2>1. CASE q = EnqueuePos
    BY <2>1, <1>1, <1>3, <1>7 DEF Filled
  <2>2. CASE q < EnqueuePos
    <3>1. Filled(q) /\ q \in Nat
      BY <2>2, CountersType DEF QueueInv
    <3>2. QED
      BY <3>1, <2>2, <1>3, <1>6, <1>7, <1>8, Zenon DEF Filled
  <2>3. QED
    BY <2>1, <2>2, CountersType
<1>10. ASSUME NEW q \in EnqueuePos + 1 .. DequeuePos + Capacity - 1 PROVE Vacant(q)'
  <2>1. Vacant(q)
    BY CountersType DEF QueueInv
  <2>2. QED
    BY <2>1, <1>3, <1>7, <1>8 DEF Vacant
<1>11. ASSUME NEW r \in Producers PROVE ProducerInv(r)'
  <2>1. ProducerInv(r)
    BY DEF QueueInv
  <2>2. CASE r = p
    BY <2>2, <1>1, <1>3, <1>4, <1>6, <1>7, CountersType DEF ProducerInv, PushOwns
  <2>3. CASE r # p
    BY <2>1, <2>3, <1>3, <1>6, <1>8, CountersType DEF ProducerInv, PushOwns
  <2>4. QED
    BY <2>2, <2>3
<1>12. ASSUME NEW c \in Consumers PROVE ConsumerInv(c)'
  <2>1. ConsumerInv(c) /\ c # p
    BY ProcsAssumption DEF QueueInv
  <2>2. ASSUME Popping(c) PROVE EnqueuePos + 1 <= position[c] + Capacity
    <3>1. PopOwns(c)
      BY <2>1, <2>2 DEF ConsumerInv
    <3>2. position[c] \in Nat /\ Cell(position[c] + Capacity) = Cell(position[c])
      BY CellLap, CountersType, Zenon
    <3>3. Sequence[Cell(position[c])] = position[c] + 1
      BY <3>1 DEF PopOwns
    <3>4. EnqueuePos # position[c] + Capacity
      BY <3>2, <3>3, <1>1
    <3>5. QED
      BY <3>1, <3>4, CountersType DEF PopOwns
  <2>3. Popping(c) => PopOwns(c)'
    BY <2>1, <2>2, <1>3, <1>6, <1>8, CountersType DEF ConsumerInv, PopOwns
  <2>4. QED
    BY <2>1, <2>3, <1>3, <1>8 DEF ConsumerInv
<1>13. ClaimsDiffer'
  <2>1. \A r \in Producers : Pushing(r) => position[r] # position[p]
    BY <1>1, CountersType DEF QueueInv, ProducerInv, PushOwns
  <2>2. QED
    BY <2>1, <1>3, <1>7, <1>8 DEF QueueInv, ClaimsDiffer, Pushing
<1>14. \A q \in DequeuePos' .. EnqueuePos' - 1 : Filled(q)'
  BY <1>3, <1>9, CountersType
<1>15. \A q \in EnqueuePos' .. DequeuePos' + Capacity - 1 : Vacant(q)'
  BY <1>3, <1>10
<1>16. /\ Len(accepted') = EnqueuePos'
       /\ DequeuePos' <= EnqueuePos' /\ EnqueuePos' <= DequeuePos' + Capacity
  BY <1>2, <1>3, <1>6, CountersType
<1>17. QED
  BY <1>5, <1>11, <1>12, <1>13, <1>14, <1>15, <1>16 DEF QueueInv

LEMMA PushWriteInv ==
    ASSUME QueueInv, NEW p \in Producers, PushWrite(p)
    PROVE  QueueInv'
<1> USE CapacityAssumption
<1>1. /\ pc[p] = "write" /\ Pushing(p) /\ PushOwns(p) /\ event[p] \in Events
  BY DEF PushWrite, QueueInv, ProducerInv, Pushing
<1>2. /\ Event' = [Event EXCEPT ![Cell(position[p])] = event[p]]
      /\ pc' = [pc EXCEPT ![p] = "publish"]
      /\ UNCHANGED <<EnqueuePos, DequeuePos, Sequence, position, event, accepted>>
  BY DEF PushWrite, Goto
<1>3. Types'
  BY <1>1, <1>2, Zenon DEF QueueInv, Types
<1>4. /\ Event'[Cell(position[p])] = event[p]
      /\ \A i \in Cells : i # Cell(position[p]) => Event'[i] = Event[i]
  BY <1>2, CountersType DEF QueueInv, Types
<1>5. pc'[p] = "publish"
  BY <1>2 DEF QueueInv, Types
<1>6. \A r \in Procs : r # p => pc'[r] = pc[r]
  BY <1>2 DEF QueueInv, Types
<1>7. \A r \in Procs : Pushing(r)' = Pushing(r) /\ Popping(r)' = Popping(r)
  BY <1>1, <1>5, <1>6, ProcsAssumption DEF Pushing, Popping
<1>8. ASSUME NEW q \in DequeuePos .. EnqueuePos - 1 PROVE Filled(q)'
  <2>1. Filled(q) /\ q \in Nat /\ position[p] \in Nat /\ Cell(q) \in Cells
    BY CountersType DEF QueueInv
  <2>2. Sequence[Cell(q)] = q + 1 => Cell(q) # Cell(position[p])
    BY <2>1, <1>1, NextCellDiffers DEF PushOwns
  <2>3. QED
    BY <2>1, <2>2, <1>2, <1>4, <1>7 DEF Filled
<1>9. ASSUME NEW q \in EnqueuePos .. DequeuePos + Capacity - 1 PROVE Vacant(q)'
  <2>1. Vacant(q)
    BY DEF QueueInv
  <2>2. QED
    BY <2>1, <1>2, <1>7 DEF Vacant
<1>10. ASSUME NEW r \in Producers PROVE ProducerInv(r)'
  <2>1. ProducerInv(r) /\ Cell(position[r]) \in Cells
    BY CountersType DEF QueueInv
  <2>2. CASE r = p
    BY <2>1, <2>2, <1>1, <1>2, <1>4, <1>5, <1>7 DEF ProducerInv, PushOwns
  <2>3. CASE r # p
    <3>1. Pushing(r) => Cell(position[r]) # Cell(position[p])
      BY <2>3, <1>1, ClaimedCells
    <3>2. QED
      BY <2>1, <2>3, <3>1, <1>2, <1>4, <1>6, <1>7 DEF ProducerInv, PushOwns
  <2>4. QED
    BY <2>2, <2>3
<1>11. ASSUME NEW c \in Consumers PROVE ConsumerInv(c)'
  <2>1. ConsumerInv(c) /\ c # p /\ Cell(position[c]) \in Cells
    BY ProcsAssumption, CountersType DEF QueueInv
  <2>2. Popping(c) => Cell(position[c]) # Cell(position[p])
    BY <1>1, ClaimedCells
  <2>3. QED
    BY <2>1, <2>2, <1>2, <1>4, <1>6, <1>7 DEF ConsumerInv, PopOwns
<1>12. ClaimsDiffer'
  BY <1>2, <1>7 DEF QueueInv, ClaimsDiffer
<1>13. QED
  BY <1>2, <1>3, <1>8, <1>9, <1>10, <1>11, <1>12 DEF QueueInv

LEMMA PushPublishInv ==
    ASSUME QueueInv, NEW p \in Producers, PushPublish(p)
    PROVE  QueueInv'
<1> USE CapacityAssumption
<1>1. /\ pc[p] = "publish" /\ Pushing(p) /\ PushOwns(p)
  BY DEF PushPublish, QueueInv, ProducerInv, Pushing
<1>2. /\ Sequence' = [Sequence EXCEPT ![Cell(position[p])] = position[p] + 1]
      /\ pc' = [pc EXCEPT ![p] = "idle"]
      /\ UNCHANGED <<EnqueuePos, DequeuePos, Event, position, event, accepted>>
  BY DEF PushPublish, Goto
<1>3. Types'
  <2>1. position[p] + 1 \in Nat
    BY CountersType
  <2>2. Sequence' \in [Cells -> Nat]
    BY <2>1, <1>2, Zenon DEF QueueInv, Types
  <2>3. QED
    BY <2>2, <1>2 DEF QueueInv, Types
<1>4. /\ Sequence'[Cell(position[p])] = position[p] + 1
      /\ \A i \in Cells : i # Cell(position[p]) => Sequence'[i] = Sequence[i]
  BY <1>2, CountersType DEF QueueInv, Types
<1>5. pc'[p] = "idle" /\ ~Pushing(p)' /\ ~Popping(p)' /\ ~Popping(p)
  BY <1>1, <1>2 DEF QueueInv, Types, Pushing, Popping
<1>6. \A r \in Procs : r # p =>
        pc'[r] = pc[r] /\ Pushing(r)' = Pushing(r) /\ Popping(r)' = Popping(r)
  BY <1>2 DEF QueueInv, Types, Pushing, Popping
<1>7. /\ position[p] \in Nat /\ DequeuePos <= position[p] /\ position[p] < EnqueuePos
      /\ Sequence[Cell(position[p])] = position[p]
  BY <1>1, CountersType DEF PushOwns
<1>8. ASSUME NEW q \in DequeuePos .. EnqueuePos - 1 PROVE Filled(q)'
  <2>1. Filled(q) /\ q \in Nat /\ Cell(q) \in Cells
    BY CountersType DEF QueueInv
  <2>2. CASE q = position[p]
    BY <2>2, <1>1, <1>2, <1>4 DEF Filled, PushOwns
  <2>3. CASE q # position[p]
    <3>1. Cell(q) # Cell(position[p])
      BY <2>1, <2>3, <1>7, CellsDiffer, CountersType
    <3>2. QED
      BY <2>1, <2>3, <3>1, <1>2, <1>4, <1>6 DEF Filled
  <2>4. QED
    BY <2>2, <2>3
<1>9. ASSUME NEW q \in EnqueuePos .. DequeuePos + Capacity - 1 PROVE Vacant(q)'
  <2>1. Vacant(q) /\ q \in Nat /\ Cell(q) \in Cells
    BY CountersType DEF QueueInv
  <2>2. Cell(q) # Cell(position[p])
    BY <2>1, <1>7, CellsDiffer, CountersType
  <2>3. QED
    BY <2>1, <2>2, <1>2, <1>4, <1>5, <1>6 DEF Vacant
<1>10. ASSUME NEW r \in Producers PROVE ProducerInv(r)'
  <2>1. ProducerInv(r) /\ Cell(position[r]) \in Cells /\ Cell(EnqueuePos) \in Cells
    BY CountersType DEF QueueInv
  <2>2. CASE r = p
    BY <2>1, <2>2, <1>2, <1>5 DEF ProducerInv
  <2>3. CASE r # p
    <3>1. Pushing(r) => Cell(position[r]) # Cell(position[p])
      BY <2>3, <1>1, ClaimedCells
    <3>2. Sequence[Cell(EnqueuePos)] = EnqueuePos => Cell(EnqueuePos) # Cell(position[p])
      BY <1>7, CountersType
    <3>3. QED
      BY <2>1, <2>3, <3>1, <3>2, <1>2, <1>4, <1>6 DEF ProducerInv, PushOwns
  <2>4. QED
    BY <2>2, <2>3
<1>11. ASSUME NEW c \in Consumers PROVE ConsumerInv(c)'
  <2>1. ConsumerInv(c) /\ c # p /\ Cell(position[c]) \in Cells /\ Cell(DequeuePos) \in Cells
    BY ProcsAssumption, CountersType DEF QueueInv
  <2>2. Popping(c) => Cell(position[c]) # Cell(position[p])
    BY <1>1, ClaimedCells
  <2>3. Sequence[Cell(DequeuePos)] = DequeuePos + 1 => Cell(DequeuePos) # Cell(position[p])
    BY <1>7, NextCellDiffers, CountersType
  <2>4. QED
    BY <2>1, <2>2, <2>3, <1>2, <1>4, <1>6 DEF ConsumerInv, PopOwns
<1>12. ClaimsDiffer'
  BY <1>2, <1>5, <1>6 DEF QueueInv, ClaimsDiffer
<1>13. QED
  BY <1>2, <1>3, <1>8, <1>9, <1>10, <1>11, <1>12 DEF QueueInv

LEMMA PopClaimInv ==
    ASSUME QueueInv, NEW c \in Consumers, PopClaim(c)
    PROVE  QueueInv'
<1> USE CapacityAssumption
<1>1. /\ position[c] = DequeuePos /\ pc[c] = "cas"
      /\ Sequence[Cell(DequeuePos)] = DequeuePos + 1
  BY DEF PopClaim, QueueInv, ConsumerInv
<1>2. DequeuePos < EnqueuePos /\ Event[Cell(DequeuePos)] = accepted[DequeuePos + 1]
  BY <1>1, PublishedCell, CountersType
<1>3. /\ DequeuePos' = DequeuePos + 1
      /\ pc' = [pc EXCEPT ![c] = "take"]
      /\ UNCHANGED <<EnqueuePos, Sequence, Event, position, event, accepted>>
  BY DEF PopClaim, Goto
<1>4. Types'
  BY <1>3 DEF QueueInv, Types
<1>5. pc'[c] = "take" /\ Popping(c)' /\ ~Pushing(c)' /\ ~Pushing(c) /\ ~Popping(c)
  BY <1>1, <1>3 DEF QueueInv, Types, Pushing, Popping
<1>6. \A r \in Procs : r # c =>
        pc'[r] = pc[r] /\ Pushing(r)' = Pushing(r) /\ Popping(r)' = Popping(r)
  BY <1>3 DEF QueueInv, Types, Pushing, Popping
<1>7. ASSUME NEW q \in DequeuePos + 1 .. EnqueuePos - 1 PROVE Filled(q)'
  <2>1. Filled(q)
    BY CountersType DEF QueueInv
  <2>2. QED
    BY <2>1, <1>3, <1>5, <1>6 DEF Filled
<1>8. ASSUME NEW q \in EnqueuePos .. DequeuePos + Capacity PROVE Vacant(q)'
  <2>1. CASE q = DequeuePos + Capacity
    <3>1. Cell(q) = Cell(DequeuePos) /\ q >= Capacity /\ q + 1 - Capacity = DequeuePos + 1
      <4>1. DequeuePos \in Nat /\ Cell(DequeuePos + Capacity) = Cell(DequeuePos)
        BY CellLap, CountersType
      <4>2. QED
        BY <4>1, <2>1
    <3>2. QED
      BY <2>1, <3>1, <1>1, <1>3, <1>5 DEF Vacant
  <2>2. CASE q < DequeuePos + Capacity
    <3>1. Vacant(q)
      BY <2>2, CountersType DEF QueueInv
    <3>2. QED
      BY <3>1, <1>3, <1>5, <1>6 DEF Vacant
  <2>3. QED
    BY <2>1, <2>2, CountersType
<1>9. ASSUME NEW p \in Producers PROVE ProducerInv(p)'
  <2>1. ProducerInv(p) /\ p # c /\ position[p] \in Nat
    BY ProcsAssumption, CountersType DEF QueueInv
  <2>2. Pushing(p) => DequeuePos + 1 <= position[p]
    <3> SUFFICES ASSUME Pushing(p) PROVE DequeuePos + 1 <= position[p]
      OBVIOUS
    <3>1. DequeuePos <= position[p] /\ Sequence[Cell(position[p])] = position[p]
      BY <2>1 DEF ProducerInv, PushOwns
    <3>2. position[p] # DequeuePos
      BY <3>1, <1>1, CountersType
    <3>3. QED
      BY <3>1, <3>2, <2>1, CountersType
  <2>3. QED
    BY <2>1, <2>2, <1>3, <1>6 DEF ProducerInv, PushOwns
<1>10. ASSUME NEW d \in Consumers PROVE ConsumerInv(d)'
  <2>1. ConsumerInv(d)
    BY DEF QueueInv
  <2>2. CASE d = c
    BY <2>2, <1>1, <1>2, <1>3, <1>5, CountersType DEF ConsumerInv, PopOwns
  <2>3. CASE d # c
    BY <2>1, <2>3, <1>3, <1>6, CountersType DEF ConsumerInv, PopOwns
  <2>4. QED
    BY <2>2, <2>3
<1>11. ClaimsDiffer'
  <2>1. \A d \in Consumers : Popping(d) => position[d] # position[c]
    BY <1>1, CountersType DEF QueueInv, ConsumerInv, PopOwns
  <2>2. QED
    BY <2>1, <1>3, <1>5, <1>6 DEF QueueInv, ClaimsDiffer, Popping
<1>12. \A q \in DequeuePos' .. EnqueuePos' - 1 : Filled(q)'
  BY <1>3, <1>7
<1>13. \A q \in EnqueuePos' .. DequeuePos' + Capacity - 1 : Vacant(q)'
  BY <1>3, <1>8, CountersType
<1>14. /\ Len(accepted') = EnqueuePos'
       /\ DequeuePos' <= EnqueuePos' /\ EnqueuePos' <= DequeuePos' + Capacity
  BY <1>2, <1>3, CountersType
<1>15. QED
  BY <1>4, <1>9, <1>10, <1>11, <1>12, <1>13, <1>14 DEF QueueInv

LEMMA PopTakeInv ==
    ASSUME QueueInv, NEW c \in Consumers, PopTake(c)
    PROVE  QueueInv'
<1>1. pc[c] = "take" /\ Popping(c) /\ PopOwns(c)
  BY DEF PopTake, QueueInv, ConsumerInv, Popping
<1>2. /\ event' = [event EXCEPT ![c] = Event[Cell(position[c])]]
      /\ Event' = [Event EXCEPT ![Cell(position[c])] = NoEvent]
      /\ pc' = [pc EXCEPT ![c] = "release"]
      /\ UNCHANGED <<EnqueuePos, DequeuePos, Sequence, position, accepted>>
  BY DEF PopTake, Goto
<1>3. Types'
  BY <1>2, CountersType, Zenon DEF QueueInv, Types
<1>4. /\ \A i \in Cells : i # Cell(position[c]) => Event'[i] = Event[i]
      /\ event'[c] = Event[Cell(position[c])] /\ pc'[c] = "release"
      /\ \A r \in Procs : r # c => event'[r] = event[r] /\ pc'[r] = pc[r]
  BY <1>2, CountersType DEF QueueInv, Types
<1>5. \A r \in Procs : Pushing(r)' = Pushing(r) /\ Popping(r)' = Popping(r)
  BY <1>1, <1>4, ProcsAssumption DEF Pushing, Popping
<1>6. ASSUME NEW q \in DequeuePos .. EnqueuePos - 1 PROVE Filled(q)'
  <2>1. Filled(q) /\ q \in Nat /\ Cell(q) \in Cells /\ position[c] \in Nat
    BY CountersType DEF QueueInv
  <2>2. Sequence[Cell(q)] = q + 1 => Cell(q) # Cell(position[c])
    BY <2>1, <1>1, CountersType DEF PopOwns
  <2>3. QED
    BY <2>1, <2>2, <1>2, <1>4, <1>5 DEF Filled
<1>7. ASSUME NEW q \in EnqueuePos .. DequeuePos + Capacity - 1 PROVE Vacant(q)'
  <2>1. Vacant(q)
    BY DEF QueueInv
  <2>2. QED
    BY <2>1, <1>2, <1>5 DEF Vacant
<1>8. ASSUME NEW p \in Producers PROVE ProducerInv(p)'
  <2>1. ProducerInv(p) /\ p # c /\ Cell(position[p]) \in Cells
    BY ProcsAssumption, CountersType DEF QueueInv
  <2>2. Pushing(p) => Cell(position[p]) # Cell(position[c])
    BY <1>1, ClaimedCells, Zenon
  <2>3. QED
    BY <2>1, <2>2, <1>2, <1>4, <1>5, Zenon DEF ProducerInv, PushOwns
<1>9. ASSUME NEW d \in Consumers PROVE ConsumerInv(d)'
  <2>1. ConsumerInv(d) /\ Cell(position[d]) \in Cells
    BY CountersType DEF QueueInv
  <2>2. CASE d = c
    BY <2>1, <2>2, <1>1, <1>2, <1>4, <1>5 DEF ConsumerInv, PopOwns
  <2>3. CASE d # c
    <3>1. Popping(d) => Cell(position[d]) # Cell(position[c])
      BY <2>3, <1>1, ClaimedCells, Zenon
    <3>2. QED
      BY <2>1, <2>3, <3>1, <1>2, <1>4, <1>5 DEF ConsumerInv, PopOwns
  <2>4. QED
    BY <2>2, <2>3
<1>10. ClaimsDiffer'
  BY <1>2, <1>5 DEF QueueInv, ClaimsDiffer
<1>11. QED
  BY <1>2, <1>3, <1>6, <1>7, <1>8, <1>9, <1>10 DEF QueueInv

LEMMA PopReleaseInv ==
    ASSUME QueueInv, NEW c \in Consumers, PopRelease(c)
    PROVE  QueueInv'
<1> USE CapacityAssumption
<1>1. /\ pc[c] = "release" /\ Popping(c) /\ PopOwns(c)
  BY DEF PopRelease, QueueInv, ConsumerInv, Popping
<1>2. /\ Sequence' = [Sequence EXCEPT ![Cell(position[c])] = position[c] + Capacity]
      /\ pc' = [pc EXCEPT ![c] = "idle"]
      /\ UNCHANGED <<EnqueuePos, DequeuePos, Event, position, event, accepted>>
  BY DEF PopRelease, Goto
<1>3. /\ position[c] \in Nat /\ position[c] < DequeuePos
      /\ EnqueuePos <= position[c] + Capacity
      /\ Sequence[Cell(position[c])] = position[c] + 1
  BY <1>1, CountersType DEF PopOwns
<1>4. Types'
  <2>1. position[c] + Capacity \in Nat
    BY <1>3
  <2>2. Sequence' \in [Cells -> Nat]
    BY <2>1, <1>2, Zenon DEF QueueInv, Types
  <2>3. QED
    BY <2>2, <1>2 DEF QueueInv, Types
<1>5. /\ Sequence'[Cell(position[c])] = position[c] + Capacity
      /\ \A i \in Cells : i # Cell(position[c]) => Sequence'[i] = Sequence[i]
  BY <1>2, CountersType DEF QueueInv, Types
<1>6. pc'[c] = "idle" /\ ~Pushing(c)' /\ ~Popping(c)' /\ ~Pushing(c)
  BY <1>1, <1>2 DEF QueueInv, Types, Pushing, Popping
<1>7. \A r \in Procs : r # c =>
        pc'[r] = pc[r] /\ Pushing(r)' = Pushing(r) /\ Popping(r)' = Popping(r)
  BY <1>2 DEF QueueInv, Types, Pushing, Popping
<1>8. ASSUME NEW q \in DequeuePos .. EnqueuePos - 1 PROVE Filled(q)'
  <2>1. Filled(q) /\ q \in Nat /\ Cell(q) \in Cells
    BY CountersType DEF QueueInv
  <2>2. Cell(q) # Cell(position[c])
    BY <2>1, <1>3, CellsDiffer, CountersType
  <2>3. QED
    BY <2>1, <2>2, <1>2, <1>5, <1>6, <1>7 DEF Filled
<1>9. ASSUME NEW q \in EnqueuePos .. DequeuePos + Capacity - 1 PROVE Vacant(q)'
  <2> DEFINE lap == position[c] + Capacity
  <2>1. Vacant(q) /\ q \in Nat /\ Cell(q) \in Cells
    BY CountersType DEF QueueInv
  <2>2. lap \in Nat /\ Cell(lap) = Cell(position[c])
    BY <1>3, CellLap
  <2>3. EnqueuePos <= lap /\ lap < DequeuePos + Capacity
    BY <1>3, CountersType
  <2>4. CASE q = lap
    BY <2>2, <2>4, <1>5 DEF Vacant
  <2>5. CASE q # lap
    <3> HIDE DEF lap
    <3>1. Cell(q) # Cell(lap)
      BY <2>1, <2>2, <2>3, <2>5, CellsDiffer, CountersType
    <3>2. QED
      BY <2>1, <2>2, <2>5, <3>1, <1>2, <1>5, <1>7 DEF Vacant, lap
  <2>6. QED
    BY <2>4, <2>5
<1>10. ASSUME NEW p \in Producers PROVE ProducerInv(p)'
  <2>1. ProducerInv(p) /\ p # c /\ Cell(position[p]) \in Cells /\ Cell(EnqueuePos) \in Cells
    BY ProcsAssumption, CountersType DEF QueueInv
  <2>2. Pushing(p) => Cell(position[p]) # Cell(position[c])
    BY <1>1, ClaimedCells
  <2>3. Sequence[Cell(EnqueuePos)] = EnqueuePos => Cell(EnqueuePos) # Cell(position[c])
    BY <1>3, NextCellDiffers, CountersType, Zenon
  <2>4. QED
    BY <2>1, <2>2, <2>3, <1>2, <1>5, <1>7 DEF ProducerInv, PushOwns
<1>11. ASSUME NEW d \in Consumers PROVE ConsumerInv(d)'
  <2>1. ConsumerInv(d) /\ Cell(position[d]) \in Cells /\ Cell(DequeuePos) \in Cells
    BY CountersType DEF QueueInv
  <2>2. CASE d = c
    BY <2>1, <2>2, <1>2, <1>6 DEF ConsumerInv
  <2>3. CASE d # c
    <3>1. Popping(d) => Cell(position[d]) # Cell(position[c])
      BY <2>3, <1>1, ClaimedCells
    <3>2. Sequence[Cell(DequeuePos)] = DequeuePos + 1 =>
            Cell(DequeuePos) # Cell(position[c])
      BY <1>3, CountersType
    <3>3. QED
      BY <2>1, <2>3, <3>1, <3>2, <1>2, <1>5, <1>7, Zenon DEF ConsumerInv, PopOwns
  <2>4. QED
    BY <2>2, <2>3
<1>12. ClaimsDiffer'
  BY <1>2, <1>6, <1>7 DEF QueueInv, ClaimsDiffer
<1>13. QED
  BY <1>2, <1>4, <1>8, <1>9, <1>10, <1>11, <1>12 DEF QueueInv

LEMMA SeenBound ==
    ASSUME QueueInv, NEW q \in Nat, NEW s \in Seen(Cell(q))
    PROVE  s \in Nat /\ s <= Sequence[Cell(q)]
  BY CellInCells, CapacityAssumption DEF Seen, Cells, QueueInv, Types

LEMMA Unmoved ==
    ASSUME QueueInv, NEW p \in Procs
    PROVE  /\ position = [position EXCEPT ![p] = position[p]]
           /\ event = [event EXCEPT ![p] = event[p]]
           /\ pc = [pc EXCEPT ![p] = pc[p]]
           /\ position[p] \in Nat /\ event[p] \in Events \cup {NoEvent}
  BY DEF QueueInv, Types

LEMMA PushLooks ==
    ASSUME QueueInv, NEW p \in Producers,
           (\E e \in Events : PushBegin(p, e)) \/ PushCheck(p) \/ PushRetry(p)
    PROVE  QueueInv'
<1>1. p \notin Consumers /\ p \in Procs
  BY ProcsAssumption
<1>2. position[p] <= EnqueuePos /\ (pc[p] # "idle" => event[p] \in Events)
  BY DEF QueueInv, ProducerInv
<1>3. ASSUME NEW e \in Events, PushBegin(p, e) PROVE QueueInv'
  <2>1. PICK q \in position[p] .. EnqueuePos : position' = [position EXCEPT ![p] = q]
    BY <1>3, Zenon DEF PushBegin, Load
  <2>2. q \in Nat /\ q <= EnqueuePos
    BY CountersType
  <2>3. QED
    BY <1>1, <1>3, <2>1, <2>2, Look, Zenon DEF PushBegin, Goto
<1>4. ASSUME PushRetry(p) PROVE QueueInv'
  <2>1. PICK q \in position[p] .. EnqueuePos : position' = [position EXCEPT ![p] = q]
    BY <1>4, Zenon DEF PushRetry, Load
  <2>2. q \in Nat /\ q <= EnqueuePos
    BY CountersType
  <2>3. pc[p] = "cas" /\ event[p] \in Events /\ event' = [event EXCEPT ![p] = event[p]]
    BY <1>2, <1>4, Unmoved DEF PushRetry
  <2>4. QED
    BY <1>1, <1>4, <2>1, <2>2, <2>3, Look, Zenon DEF PushRetry, Goto
<1>5. ASSUME PushCheck(p) PROVE QueueInv'
  <2>1. /\ pc[p] = "check" /\ event[p] \in Events
        /\ event' = [event EXCEPT ![p] = event[p]]
        /\ UNCHANGED <<EnqueuePos, DequeuePos, Sequence, Event, accepted>>
    BY <1>2, <1>5, Unmoved DEF PushCheck
  <2>2. PICK s \in Seen(Cell(position[p])) :
          \/ s = position[p] /\ Goto(p, "cas") /\ UNCHANGED position
          \/ s < position[p] /\ Goto(p, "idle") /\ UNCHANGED position
          \/ s > position[p] /\ Load(p, EnqueuePos) /\ UNCHANGED pc
    BY <1>5, Zenon DEF PushCheck
  <2>3. CASE s = position[p] /\ Goto(p, "cas") /\ UNCHANGED position
    <3>1. position[p] = EnqueuePos => Sequence[Cell(EnqueuePos)] = EnqueuePos
      BY <2>3, SeenBound, FreeCell, CountersType
    <3>2. position' = [position EXCEPT ![p] = position[p]] /\ position[p] \in Nat
      BY <2>3, Unmoved
    <3>3. QED
      BY <1>1, <1>2, <2>1, <2>3, <3>1, <3>2, Look, Zenon DEF Goto
  <2>4. CASE s < position[p] /\ Goto(p, "idle") /\ UNCHANGED position
    <3>1. position' = [position EXCEPT ![p] = position[p]] /\ position[p] \in Nat
      BY <2>4, Unmoved
    <3>2. QED
      BY <1>1, <1>2, <2>1, <2>4, <3>1, Look, Zenon DEF Goto
  <2>5. CASE s > position[p] /\ Load(p, EnqueuePos) /\ UNCHANGED pc
    <3>1. PICK q \in position[p] .. EnqueuePos : position' = [position EXCEPT ![p] = q]
      BY <2>5, Zenon DEF Load
    <3>2. q \in Nat /\ q <= EnqueuePos
      BY CountersType
    <3>3. pc' = [pc EXCEPT ![p] = "check"]
      BY <2>1, <2>5, Unmoved
    <3>4. QED
      BY <1>1, <2>1, <3>1, <3>2, <3>3, Look, Zenon
  <2>6. QED
    BY <2>2, <2>3, <2>4, <2>5
<1>6. QED
  BY <1>3, <1>4, <1>5

LEMMA PopLooks ==
    ASSUME QueueInv, NEW c \in Consumers, PopBegin(c) \/ PopCheck(c) \/ PopRetry(c)
    PROVE  QueueInv'
<1>1. c \notin Producers /\ c \in Procs
  BY ProcsAssumption
<1>2. /\ position[c] <= DequeuePos /\ position[c] \in Nat
      /\ event[c] \in Events \cup {NoEvent}
      /\ event' = [event EXCEPT ![c] = event[c]]
      /\ UNCHANGED <<EnqueuePos, DequeuePos, Sequence, Event, accepted>>
  BY Unmoved DEF QueueInv, ConsumerInv, PopBegin, PopCheck, PopRetry
<1>3. ASSUME pc[c] \in {"idle", "check", "cas"}, Load(c, DequeuePos),
             pc' = [pc EXCEPT ![c] = "check"]
      PROVE  QueueInv'
  <2>1. PICK q \in position[c] .. DequeuePos : position' = [position EXCEPT ![c] = q]
    BY <1>3, Zenon DEF Load
  <2>2. q \in Nat /\ q <= DequeuePos
    BY CountersType
  <2>3. QED
    BY <1>1, <1>2, <1>3, <2>1, <2>2, Look, Zenon
<1>4. CASE PopBegin(c) \/ PopRetry(c)
  BY <1>3, <1>4 DEF PopBegin, PopRetry, Goto
<1>5. CASE PopCheck(c)
  <2>1. pc[c] = "check"
    BY <1>5, Zenon DEF PopCheck
  <2>2. PICK s \in Seen(Cell(position[c])) :
          \/ s = position[c] + 1 /\ Goto(c, "cas") /\ UNCHANGED position
          \/ s < position[c] + 1 /\ Goto(c, "idle") /\ UNCHANGED position
          \/ s > position[c] + 1 /\ Load(c, DequeuePos) /\ UNCHANGED pc
    BY <1>5 DEF PopCheck
  <2>3. CASE s = position[c] + 1 /\ Goto(c, "cas") /\ UNCHANGED position
    <3>1. position[c] = DequeuePos => Sequence[Cell(DequeuePos)] = DequeuePos + 1
      BY <2>3, SeenBound, PublishedCell, CountersType
    <3>2. position' = [position EXCEPT ![c] = position[c]]
      BY <2>3, Unmoved
    <3>3. QED
      BY <1>1, <1>2, <2>1, <2>3, <3>1, <3>2, Look, Zenon DEF Goto
  <2>4. CASE s < position[c] + 1 /\ Goto(c, "idle") /\ UNCHANGED position
    <3>1. position' = [position EXCEPT ![c] = position[c]]
      BY <2>4, Unmoved
    <3>2. QED
      BY <1>1, <1>2, <2>1, <2>4, <3>1, Look, Zenon DEF Goto
  <2>5. CASE s > position[c] + 1 /\ Load(c, DequeuePos) /\ UNCHANGED pc
    BY <1>3, <2>1, <2>5, Unmoved
  <2>6. QED
    BY <2>2, <2>3, <2>4, <2>5
<1>6. QED
  BY <1>4, <1>5

LEMMA StepInv == QueueInv /\ [Next]_vars => QueueInv'
<1> SUFFICES ASSUME QueueInv, [Next]_vars PROVE QueueInv'
  OBVIOUS
<1>1. ASSUME NEW p \in Producers, Push(p) PROVE QueueInv'
  BY <1>1, PushLooks, PushClaimInv, PushWriteInv, PushPublishInv, Zenon DEF Push
<1>2. ASSUME NEW c \in Consumers, Pop(c) PROVE QueueInv'
  BY <1>2, PopLooks, PopClaimInv, PopTakeInv, PopReleaseInv, Zenon DEF Pop
<1>3. CASE UNCHANGED vars
  <2> USE <1>3 DEF vars
  <2>1. Types'
    BY DEF QueueInv, Types
  <2>2. \A r \in Procs : Pushing(r)' = Pushing(r) /\ Popping(r)' = Popping(r)
    BY DEF Pushing, Popping
  <2>3. \A q \in DequeuePos .. EnqueuePos - 1 : Filled(q)'
    BY <2>2 DEF QueueInv, Filled
  <2>4. \A q \in EnqueuePos .. DequeuePos + Capacity - 1 : Vacant(q)'
    BY <2>2 DEF QueueInv, Vacant
  <2>5. \A p \in Producers : ProducerInv(p)'
    BY <2>2 DEF QueueInv, ProducerInv, PushOwns
  <2>6. \A c \in Consumers : ConsumerInv(c)'
    BY <2>2 DEF QueueInv, ConsumerInv, PopOwns
  <2>7. ClaimsDiffer'
    BY <2>2 DEF QueueInv, ClaimsDiffer
  <2>8. QED
    BY <2>1, <2>3, <2>4, <2>5, <2>6, <2>7 DEF QueueInv
<1>4. QED
  BY <1>1, <1>2, <1>3 DEF Next

-----------------------------------------------------------------------------

\* For any capacity of at least two, any number of producers and consumers and
\* any order in which their loads, swaps and stores interleave, TryPush and
\* TryPop keep the discipline of the cells: no cell is claimed by two calls, and
\* none is read before it was published or written before it was released.
THEOREM CellDiscipline == Spec => []QueueInv
<1>1. Init => QueueInv
  BY InitInv
<1>2. QueueInv /\ [Next]_vars => QueueInv'
  BY StepInv
<1>3. QED
  BY <1>1, <1>2, PTL DEF Spec

LEMMA InvAnswers == QueueInv => AnswersTrue
<1> USE CapacityAssumption
<1> SUFFICES ASSUME QueueInv PROVE AnswersTrue
  OBVIOUS
<1>1. ASSUME \A p \in Producers : ~Pushing(p), DequeuePos < EnqueuePos
      PROVE  Sequence[Cell(DequeuePos)] = DequeuePos + 1
  <2>1. Filled(DequeuePos)
    BY <1>1, CountersType DEF QueueInv
  <2>2. QED
    BY <2>1, <1>1 DEF Filled
<1>2. ASSUME Sequence[Cell(DequeuePos)] = DequeuePos + 1 PROVE DequeuePos < EnqueuePos
  BY <1>2, PublishedCell, CountersType
<1>3. ASSUME \A c \in Consumers : ~Popping(c), EnqueuePos - DequeuePos < Capacity
      PROVE  Sequence[Cell(EnqueuePos)] = EnqueuePos
  <2>1. Vacant(EnqueuePos)
    BY <1>3, CountersType DEF QueueInv
  <2>2. QED
    BY <2>1, <1>3 DEF Vacant
<1>4. ASSUME Sequence[Cell(EnqueuePos)] = EnqueuePos PROVE EnqueuePos - DequeuePos < Capacity
  BY <1>4, FreeCell, CountersType
<1>5. QED
  BY <1>1, <1>2, <1>3, <1>4 DEF AnswersTrue

\* What TryPush answers about a full queue and TryPop about an empty one is true
\* whenever no other call is between its claim and its release, for every
\* capacity and every number of threads.
THEOREM FullAndEmptyAnswers == Spec => []AnswersTrue
  BY CellDiscipline, InvAnswers, PTL

-----------------------------------------------------------------------------
(* The refinement.                                                          *)

Hands == [c \in Consumers |-> Held(c)]

LEMMA InitRefines == Init => Fifo!FifoInit
  BY DEF Init, Fifo!FifoInit, Held

LEMMA PushClaimRefines ==
    ASSUME QueueInv, NEW p \in Producers, PushClaim(p)
    PROVE  Fifo!FifoNext
<1>1. event[p] \in Events /\ Sequence[Cell(EnqueuePos)] = EnqueuePos
  BY DEF QueueInv, ProducerInv, PushClaim
<1>2. Len(accepted) - DequeuePos < Capacity
  BY <1>1, FreeCell, CountersType, CapacityAssumption
<1>3. \A c \in Consumers : pc'[c] = pc[c]
  BY ProcsAssumption DEF PushClaim, Goto, QueueInv, Types
<1>4. Hands' = Hands
  BY <1>3 DEF Hands, Held, PushClaim
<1>5. Fifo!Put(event[p])
  BY <1>2, <1>4 DEF Fifo!Put, Hands, PushClaim
<1>6. QED
  BY <1>1, <1>5 DEF Fifo!FifoNext

LEMMA PopClaimRefines ==
    ASSUME QueueInv, NEW c \in Consumers, PopClaim(c)
    PROVE  Fifo!FifoNext
<1>1. position[c] = DequeuePos /\ Sequence[Cell(DequeuePos)] = DequeuePos + 1
  BY Zenon DEF QueueInv, ConsumerInv, PopClaim
<1>2. DequeuePos < Len(accepted) /\ Event[Cell(DequeuePos)] = accepted[DequeuePos + 1]
  BY <1>1, PublishedCell, CountersType
<1>3. pc'[c] = "take" /\ \A d \in Consumers : d # c => pc'[d] = pc[d]
  BY DEF PopClaim, Goto, QueueInv, Types
<1>4. Hands' = [Hands EXCEPT ![c] = accepted[DequeuePos + 1]]
  BY <1>1, <1>2, <1>3, Zenon DEF Hands, Held, PopClaim
<1>5. Fifo!Get(c)
  BY <1>2, <1>4 DEF Fifo!Get, Hands, PopClaim
<1>6. QED
  BY <1>5 DEF Fifo!FifoNext

LEMMA PopReleaseRefines ==
    ASSUME QueueInv, NEW c \in Consumers, PopRelease(c)
    PROVE  Fifo!FifoNext
<1>1. pc'[c] = "idle" /\ \A d \in Consumers : d # c => pc'[d] = pc[d]
  BY DEF PopRelease, Goto, QueueInv, Types
<1>2. Hands' = [Hands EXCEPT ![c] = NoEvent]
  BY <1>1, Zenon DEF Hands, Held, PopRelease
<1>3. Fifo!Leave(c)
  BY <1>2, Zenon DEF Fifo!Leave, Hands, PopRelease
<1>4. QED
  BY <1>3 DEF Fifo!FifoNext

LEMMA PushWriteStutters ==
    ASSUME QueueInv, NEW p \in Producers, PushWrite(p)
    PROVE  Hands' = Hands
<1>1. Pushing(p)
  BY DEF Pushing, PushWrite
<1>2. ASSUME NEW c \in Consumers PROVE Held(c)' = Held(c)
  <2>1. pc'[c] = pc[c] /\ Cell(position[c]) \in Cells
    BY ProcsAssumption, CountersType DEF PushWrite, Goto, QueueInv, Types
  <2>2. pc[c] = "take" => Event'[Cell(position[c])] = Event[Cell(position[c])]
    <3> SUFFICES ASSUME pc[c] = "take"
                 PROVE  Event'[Cell(position[c])] = Event[Cell(position[c])]
      OBVIOUS
    <3>1. Cell(position[c]) # Cell(position[p])
      BY <1>1, ClaimedCells DEF Popping
    <3>2. QED
      BY <2>1, <3>1 DEF PushWrite, QueueInv, Types
  <2>3. QED
    BY <2>1, <2>2 DEF Held, PushWrite
<1>3. QED
  BY <1>2 DEF Hands

LEMMA PopTakeStutters ==
    ASSUME QueueInv, NEW c \in Consumers, PopTake(c)
    PROVE  Hands' = Hands
<1>1. Popping(c) /\ pc[c] = "take" /\ pc'[c] = "release"
  BY DEF Popping, PopTake, Goto, QueueInv, Types
<1>2. ASSUME NEW d \in Consumers PROVE Held(d)' = Held(d)
  <2>1. CASE d = c
    BY <2>1, <1>1 DEF Held, PopTake, QueueInv, Types
  <2>2. CASE d # c
    <3>1. pc'[d] = pc[d] /\ event'[d] = event[d] /\ Cell(position[d]) \in Cells
      BY <2>2, CountersType DEF PopTake, Goto, QueueInv, Types
    <3>2. pc[d] = "take" => Event'[Cell(position[d])] = Event[Cell(position[d])]
      <4> SUFFICES ASSUME pc[d] = "take"
                   PROVE  Event'[Cell(position[d])] = Event[Cell(position[d])]
        OBVIOUS
      <4>1. Cell(position[d]) # Cell(position[c])
        BY <1>1, <2>2, ClaimedCells DEF Popping
      <4>2. QED
        BY <3>1, <4>1 DEF PopTake, QueueInv, Types
    <3>3. QED
      BY <3>1, <3>2, Zenon DEF Held, PopTake
  <2>3. QED
    BY <2>1, <2>2
<1>3. QED
  BY <1>2 DEF Hands

\* A look, and the publication of an event, move no event.
LEMMA LooksStutter ==
    ASSUME QueueInv, NEW p \in Procs,
           \/ p \in Producers /\ ((\E e \in Events : PushBegin(p, e)) \/ PushPublish(p))
           \/ p \in Producers /\ (PushCheck(p) \/ PushRetry(p))
           \/ p \in Consumers /\ (PopBegin(p) \/ PopCheck(p) \/ PopRetry(p))
    PROVE  Hands' = Hands /\ UNCHANGED <<accepted, DequeuePos>>
<1>1. UNCHANGED <<accepted, DequeuePos, Event>>
  BY Zenon DEF PushBegin, PushPublish, PushCheck, PushRetry, PopBegin, PopCheck, PopRetry
<1>2. \A c \in Consumers : c # p =>
        pc'[c] = pc[c] /\ event'[c] = event[c] /\ position'[c] = position[c]
  BY ProcsAssumption DEF PushBegin, PushPublish, PushCheck, PushRetry, PopBegin, PopCheck,
     PopRetry, Goto, Load, QueueInv, Types
<1>3. p \in Consumers =>
        pc[p] \in {"idle", "check", "cas"} /\ pc'[p] \in {"idle", "check", "cas"}
  BY ProcsAssumption DEF PopBegin, PopCheck, PopRetry, Goto, QueueInv, Types
<1>4. \A c \in Consumers : Held(c)' = Held(c)
  BY <1>1, <1>2, <1>3, Zenon DEF Held
<1>5. QED
  BY <1>1, <1>4 DEF Hands

LEMMA StepRefines ==
    ASSUME QueueInv, [Next]_vars
    PROVE  [Fifo!FifoNext]_(Fifo!fifoVars)
<1>1. ASSUME NEW p \in Producers, Push(p)
      PROVE  Fifo!FifoNext \/ (Hands' = Hands /\ UNCHANGED <<accepted, DequeuePos>>)
  <2>1. CASE PushClaim(p)
    BY <2>1, PushClaimRefines
  <2>2. CASE PushWrite(p)
    BY <2>2, PushWriteStutters, Zenon DEF PushWrite
  <2>3. CASE (\E e \in Events : PushBegin(p, e)) \/ PushPublish(p) \/ PushCheck(p) \/ PushRetry(p)
    BY <2>3, LooksStutter
  <2>4. QED
    BY <1>1, <2>1, <2>2, <2>3 DEF Push
<1>2. ASSUME NEW c \in Consumers, Pop(c)
      PROVE  Fifo!FifoNext \/ (Hands' = Hands /\ UNCHANGED <<accepted, DequeuePos>>)
  <2>1. CASE PopClaim(c)
    BY <2>1, PopClaimRefines
  <2>2. CASE PopTake(c)
    BY <2>2, PopTakeStutters, Zenon DEF PopTake
  <2>3. CASE PopRelease(c)
    BY <2>3, PopReleaseRefines
  <2>4. CASE PopBegin(c) \/ PopCheck(c) \/ PopRetry(c)
    BY <2>4, LooksStutter
  <2>5. QED
    BY <1>2, <2>1, <2>2, <2>3, <2>4 DEF Pop
<1>3. CASE UNCHANGED vars
  <2>1. Hands' = Hands /\ UNCHANGED <<accepted, DequeuePos>>
    BY <1>3 DEF vars, Hands, Held
  <2>2. QED
    BY <2>1 DEF Fifo!fifoVars, Hands
<1>4. QED
  BY <1>1, <1>2, <1>3 DEF Next, Fifo!fifoVars, Hands

\* The queue of the relay workers implements the bounded first-in first-out
\* queue, for every capacity and every number of producers and consumers: the
\* swap of EnqueuePos in TryPush is the put and the swap of DequeuePos in TryPop
\* the get; no event is lost, delivered twice, reordered or overwritten before
\* it was moved out.
THEOREM QueueImplementsFifo == Spec => ImplementsFifo
<1>1. Init => Fifo!FifoInit
  BY InitRefines
<1>2. QueueInv /\ [Next]_vars => [Fifo!FifoNext]_(Fifo!fifoVars)
  BY StepRefines
<1>3. QED
  BY <1>1, <1>2, CellDiscipline, PTL DEF Spec, ImplementsFifo, Fifo!FifoSpec
=============================================================================

-------------------- MODULE QuicClientSessionRetryProofs --------------------
(***************************************************************************)
(* The proof of Spec => []RetryBacked, for any number of slots, connections, *)
(* retries and administrative operations: the ActiveRetryToken of a slot is *)
(* never left over.  It rests on the lemmas of QuicClientSessionProofs.     *)
(*                                                                          *)
(* A slot's ActiveRetryToken changes together with its ticket: a step       *)
(* leaves both alone, reserves both, or gives a ticket up that no slot of a *)
(* live session waits for.                                                  *)
(***************************************************************************)
EXTENDS QuicClientSessionProofs

SameTicket(i) ==
    /\ i \in 1 .. count
    /\ slots'[i].token = slots[i].token
    /\ slots'[i].num = slots[i].num
    /\ slots'[i].gen = slots[i].gen

\* No slot waits for k after the step.
Dead(k) ==
    gate' => \A i \in 1 .. count' :
                slots'[i].token # 0 => TicketOf(i)' # k

StaysThread(t) ==
    ThreadHolds(t) => ThreadHolds(t)' /\ thr'[t].ticket = thr[t].ticket
StaysConn(c) ==
    CallbackHolds(c) => CallbackHolds(c)' /\ conns'[c].ticket = conns[c].ticket

LEMMA StaysHeld ==
    /\ tasks \subseteq tasks' => Held("queue") \subseteq Held("queue")'
    /\ \A t \in Threads : StaysThread(t) => Held(t) \subseteq Held(t)'
    /\ \A c \in Conns : StaysConn(c) => Held(c) \subseteq Held(c)'
BY HeldCases, HeldCasesNext DEF StaysThread, StaysConn

LEMMA UnchangedStays ==
    /\ UNCHANGED conns => \A c \in Conns : StaysConn(c)
    /\ UNCHANGED thr => \A t \in Threads : StaysThread(t)
BY DEF StaysConn, CallbackHolds, StaysThread, ThreadHolds, At

LEMMA BackedStep ==
    ASSUME RetryBacked, gate' => gate,
           \A i \in 1 .. count' : slots'[i].token # 0 =>
               SameTicket(i) \/ \E q \in Places : TicketOf(i)' \in Held(q)',
           \A p \in Places : \A k \in Held(p) :
               (\E q \in Places : k \in Held(q)') \/ Dead(k)
    PROVE  RetryBacked'
<1> SUFFICES ASSUME gate', NEW i \in 1 .. count', slots'[i].token # 0
             PROVE  \E q \in Places : TicketOf(i)' \in Held(q)'
  BY DEF RetryBacked, Places
<1>1. CASE SameTicket(i)
  <2>1. TicketOf(i)' = TicketOf(i) /\ i \in 1 .. count /\ slots[i].token # 0
    BY <1>1 DEF SameTicket, TicketOf
  <2>2. PICK p \in Places : TicketOf(i) \in Held(p)
    BY <2>1 DEF RetryBacked
  <2> QED BY <2>1, <2>2 DEF Dead
<1> QED BY <1>1

\* A step of a thread that holds no retry, and reserves none.
LEMMA QuietBacked ==
    ASSUME RetryBacked, gate' => gate, NEW t \in Threads, ~ThreadHolds(t),
           \A u \in Threads \ {t} : thr'[u] = thr[u],
           \A c \in Conns : StaysConn(c),
           \A k \in tasks : IsRetry(k) => k \in tasks',
           \A i \in 1 .. count' : slots'[i].token # 0 => SameTicket(i)
    PROVE  RetryBacked'
<1>1. \A u \in Threads : StaysThread(u)
  BY DEF StaysThread, ThreadHolds, At
<1>2. Held("queue") \subseteq Held("queue")'
  BY HeldCases, HeldCasesNext
<1>3. \A p \in Places : Held(p) \subseteq Held(p)'
  BY <1>1, <1>2, StaysHeld, PlaceFacts
<1> QED BY <1>3, BackedStep

\* Thread t gives its retry up, which no slot waits for any more.
LEMMA GivenUpBacked ==
    ASSUME RetryBacked, gate' => gate, NEW t \in Threads,
           ThreadHolds(t) => Dead(thr[t].ticket),
           \A u \in Threads \ {t} : thr'[u] = thr[u],
           UNCHANGED <<conns, tasks>>,
           \A i \in 1 .. count' : slots'[i].token # 0 => SameTicket(i)
    PROVE  RetryBacked'
<1>1. \A u \in Threads \ {t} : StaysThread(u)
  BY DEF StaysThread, ThreadHolds, At
<1>2. \A p \in Places \ {t} : Held(p) \subseteq Held(p)'
  BY <1>1, UnchangedStays, StaysHeld, PlaceFacts
<1>3. \A k \in Held(t) : Dead(k)
  BY HeldCases
<1> QED BY <1>2, <1>3, BackedStep

LEMMA SlotsSame ==
    ASSUME UNCHANGED <<slots, count>>
    PROVE  \A i \in 1 .. count' : SameTicket(i)
BY DEF SameTicket

LEMMA ShutdownStays ==
    ASSUME NEW C, conns' = Shutdown(conns, C), conns \in [Conns -> ConnRecord]
    PROVE  \A c \in Conns : StaysConn(c)
<1>1. \A c \in Conns : conns'[c].cb = conns[c].cb
                       /\ conns'[c].ticket = conns[c].ticket
  BY DEF Shutdown, ConnRecord
<1> QED BY <1>1 DEF StaysConn, CallbackHolds, IsRetry

LEMMA DestroyedStays ==
    ASSUME NEW d, conns' = Destroyed(conns, d)
    PROVE  \A c \in Conns : StaysConn(c)
<1>1. \A c \in Conns : conns[c].cb = "idle" \/ conns'[c] = conns[c]
  BY DEF Destroyed
<1> QED BY <1>1 DEF StaysConn, CallbackHolds, IsRetry

LEMMA StartSlotConnsStay ==
    ASSUME Typed, ConnInv, NEW t \in Threads, StartSlotStep(t)
    PROVE  \A c \in Conns : StaysConn(c)
<1>1. CASE UNCHANGED conns
  BY <1>1, UnchangedStays
<1>2. CASE ShutdownOld(t)
  BY <1>2, ShutdownStays DEF ShutdownOld, Typed
<1>3. CASE OpenConnection(t)
  <2>1. CASE \E d \in Conns :
               /\ conns[d].phase = "none"
               /\ conns' = [conns EXCEPT ![d] =
                    [NoConnection EXCEPT !.phase = "opened",
                                         !.slot = thr[t].idx,
                                         !.num = thr[t].num,
                                         !.gen = thr[t].gen]]
    <3>1. \A c \in Conns : conns[c].cb = "idle" \/ conns'[c] = conns[c]
      BY <2>1, Zenon DEF Typed, ConnInv
    <3> QED BY <3>1 DEF StaysConn, CallbackHolds, IsRetry
  <2> QED BY Zenon, <1>1, <1>3, <2>1 DEF OpenConnection
<1>4. CASE Publish(t)
  BY <1>4, DestroyedStays DEF Publish
<1>5. CASE StartConnection(t)
  <2>1. \A c \in Conns : /\ conns'[c].cb = conns[c].cb
                         /\ conns'[c].ticket = conns[c].ticket
    BY <1>5 DEF StartConnection, Typed, ConnRecord
  <2> QED BY <2>1 DEF StaysConn, CallbackHolds, IsRetry
<1>6. CASE CheckStart(t)
  BY <1>1, <1>6, DestroyedStays DEF CheckStart
<1>7. \/ UNCHANGED conns \/ ShutdownOld(t) \/ OpenConnection(t) \/ Publish(t)
      \/ StartConnection(t) \/ CheckStart(t)
  BY Zenon DEF StartSlotStep, Enter, ClaimRefused, ClaimExhausted, Claim, PushOrphan,
     ScheduleStartRetry, SubmitRetry, SubmitEnd, Release, Unclaim, Return
<1> QED BY <1>1, <1>2, <1>3, <1>4, <1>5, <1>6, <1>7

\* In a live session a ticket that some slot waits for matches.
LEMMA WaitedMatches ==
    ASSUME GateInv, gate, NEW i \in 1 .. count, slots[i].token # 0
    PROVE  RetryTicketMatchesLocked(TicketOf(i)) /\ TicketOf(i).slot = i
BY DEF GateInv, RetryTicketMatchesLocked, TicketOf

\* The claim is stale, or takes the slot's token: no slot waits for it.
LEMMA ClaimDead ==
    ASSUME Typed, GateInv, RetryIdx, NEW t \in Threads, At(t, "claim"),
           ThreadHolds(t), UNCHANGED <<count, gate>>,
           \/ ClaimStale(t) /\ UNCHANGED slots
           \/ slots'[thr[t].idx].token = 0
    PROVE  Dead(thr[t].ticket)
<1>1. thr[t].op = "Retry" /\ thr[t].idx = thr[t].ticket.slot
  BY DEF ThreadHolds, At, RetryIdx
<1> SUFFICES ASSUME gate, NEW i \in 1 .. count, slots'[i].token # 0,
                    TicketOf(i)' = thr[t].ticket
             PROVE  FALSE
  BY DEF Dead
<1>2. i = thr[t].idx
  <2>1. TicketOf(i)'.slot = i
    BY DEF TicketOf
  <2> QED BY <1>1, <2>1
<1>3. ClaimStale(t) /\ UNCHANGED slots
  BY <1>2
<1>4. TicketOf(i) = thr[t].ticket /\ slots[i].token # 0
  BY <1>3 DEF TicketOf
<1>5. RetryTicketMatchesLocked(thr[t].ticket) /\ Running
  BY <1>4, WaitedMatches DEF GateInv
<1>6. ~(thr[t].idx > count)
  BY <1>2 DEF Typed
<1> QED BY <1>3, <1>5, <1>6 DEF ClaimStale

LEMMA CountedSlots ==
    ASSUME Typed
    PROVE  \A j \in 1 .. count : j \in Slots
BY SessionAssumption DEF Typed, Slots

LEMMA ClaimTakesToken ==
    ASSUME Typed, NEW t \in Threads, thr[t].idx \in Slots, Claim(t)
    PROVE  /\ slots'[thr[t].idx].token = 0
           /\ \A j \in Slots \ {thr[t].idx} : slots'[j] = slots[j]
<1> DEFINE i == thr[t].idx
           s == slots[i]
           a == [s EXCEPT !.token = 0, !.claim = nextClaim]
           b == [a EXCEPT !.conn = NoConn, !.connected = FALSE]
<1>1. s \in SlotRecord
  BY DEF Typed
<1>2. a.token = 0 /\ b.token = 0
  BY <1>1 DEF SlotRecord
<1>3. slots' = [slots EXCEPT ![i] = a] \/ slots' = [slots EXCEPT ![i] = b]
  BY Zenon DEF Claim, ClaimedSlot
<1> HIDE DEF a, b
<1> QED BY <1>2, <1>3 DEF Typed

LEMMA ClaimBacked ==
    ASSUME Typed, FramesOK, GateInv, RetryIdx, RetryBacked, NEW t \in Threads,
           ClaimRefused(t) \/ ClaimExhausted(t) \/ Claim(t)
    PROVE  RetryBacked'
<1> DEFINE i == thr[t].idx
<1>1. /\ At(t, "claim") /\ UNCHANGED <<count, gate, conns, tasks>>
  BY Zenon DEF ClaimRefused, ClaimExhausted, Claim
<1>2. \A u \in Threads \ {t} : thr'[u] = thr[u]
  BY StartSlotQuiet
<1>3. i \in Slots
  BY <1>1 DEF At, FramesOK, FrameOK, StartLabels
<1>4. \/ ClaimStale(t) /\ UNCHANGED slots
      \/ slots'[i].token = 0
      \/ slots'[i].token = slots[i].token /\ thr[t].op # "Retry"
  <2>1. CASE ClaimRefused(t)
    BY <2>1 DEF ClaimRefused
  <2>2. CASE ClaimExhausted(t)
    BY <1>3, <2>2 DEF ClaimExhausted, Typed, SlotRecord
  <2>3. CASE Claim(t)
    BY <1>3, <2>3, ClaimTakesToken
  <2> QED BY <2>1, <2>2, <2>3
<1>5. \A j \in 1 .. count' : slots'[j].token # 0 => SameTicket(j)
  <2>1. CASE ClaimRefused(t)
    BY <2>1, SlotsSame DEF ClaimRefused
  <2>2. CASE ClaimExhausted(t)
    <3>1. /\ slots'[i].num = slots[i].num /\ slots'[i].gen = slots[i].gen
          /\ slots'[i].token \in {0, slots[i].token}
          /\ \A j \in Slots \ {i} : slots'[j] = slots[j]
      <4>1. PICK v : /\ v \in {0, slots[i].token}
                     /\ slots' = [slots EXCEPT ![i].token = v, ![i].failed = TRUE]
        BY <2>2, Zenon DEF ClaimExhausted
      <4> QED BY <1>3, <4>1 DEF Typed, SlotRecord
    <3> QED BY <1>1, <3>1, CountedSlots DEF SameTicket
  <2>3. CASE Claim(t)
    <3>1. /\ slots'[i].token = 0
          /\ \A j \in Slots \ {i} : slots'[j] = slots[j]
      BY <1>3, <2>3, ClaimTakesToken
    <3> QED BY <1>1, <3>1, CountedSlots DEF SameTicket
  <2> QED BY <2>1, <2>2, <2>3
<1>6. ThreadHolds(t) => Dead(thr[t].ticket)
  <2>1. ThreadHolds(t) => thr[t].op = "Retry"
    BY <1>1 DEF ThreadHolds, At
  <2> QED BY <1>1, <1>4, <2>1, ClaimDead
<1> QED BY <1>1, <1>2, <1>5, <1>6, GivenUpBacked

LEMMA EnterBacked ==
    ASSUME Typed, GateInv, RetryIdx, RetryBacked, NEW t \in Threads, Enter(t)
    PROVE  RetryBacked'
<1>1. UNCHANGED <<slots, count, gate, conns, tasks>> /\ At(t, "enter")
  BY DEF Enter
<1>2. \A i \in 1 .. count' : slots'[i].token # 0 => SameTicket(i)
  BY <1>1, SlotsSame
<1>3. CASE Goto(t, "claim")
  <2>1. /\ thr'[t].op = thr[t].op /\ thr'[t].pc = "claim"
        /\ thr'[t].ticket = thr[t].ticket
        /\ \A u \in Threads \ {t} : thr'[u] = thr[u]
    BY <1>3 DEF Goto, Typed, Frame
  <2>2. \A u \in Threads : StaysThread(u)
    BY <1>1, <2>1 DEF StaysThread, ThreadHolds, At
  <2>3. \A p \in Places : Held(p) \subseteq Held(p)'
    BY <1>1, <2>2, UnchangedStays, StaysHeld, PlaceFacts
  <2> QED BY <1>1, <1>2, <2>3, BackedStep
<1>4. CASE Goto(t, "return") /\ ~(Running /\ thr[t].idx <= count /\ gate)
  <2>1. \A u \in Threads \ {t} : thr'[u] = thr[u]
    BY <1>4 DEF Goto, Typed, Frame
  <2>2. ThreadHolds(t) => Dead(thr[t].ticket)
    <3> SUFFICES ASSUME ThreadHolds(t), gate, NEW i \in 1 .. count,
                        TicketOf(i)' = thr[t].ticket
                 PROVE  FALSE
      BY <1>1 DEF Dead
    <3>1. thr[t].idx = thr[t].ticket.slot
      BY <1>1 DEF ThreadHolds, At, RetryIdx
    <3>2. i = thr[t].idx
      BY <3>1 DEF TicketOf
    <3> QED BY <1>4, <3>2 DEF GateInv, Typed
  <2> QED BY <1>1, <1>2, <2>1, <2>2, GivenUpBacked
<1> QED BY <1>3, <1>4 DEF Enter

\* ReserveRetryLocked writes the token of the ticket it returns, if any: the
\* slot s becomes r and the answer is k.
ReserveWrites(i, s, k, r) ==
    /\ r.num = s.num /\ r.gen = s.gen
    /\ k.token = 0 => r.token = s.token
    /\ k.token # 0 => k = [slot |-> i, num |-> r.num, gen |-> r.gen,
                           token |-> r.token]

LEMMA ReserveFacts ==
    ASSUME NEW i, NEW s \in SlotRecord, NEW n, NEW g, nextToken # 0
    PROVE  ReserveWrites(i, s, ReservedTicket(i, s, n, g), ReservedSlot(s, n, g))
<1>0. PICK k, r : k = ReservedTicket(i, s, n, g) /\ r = ReservedSlot(s, n, g)
  OBVIOUS
<1> SUFFICES ReserveWrites(i, s, k, r)
  BY <1>0, Zenon
<1> USE DEF ReserveWrites
<1>1. CASE MayReserve(s, n, g) /\ nextToken < MaxToken
  <2>1. /\ k = [slot |-> i, num |-> s.num, gen |-> s.gen, token |-> nextToken]
        /\ r = [s EXCEPT !.token = nextToken]
    BY <1>0, <1>1 DEF ReservedTicket, ReservedSlot, MayReserve
  <2>2. /\ [s EXCEPT !.token = nextToken].token = nextToken
        /\ [s EXCEPT !.token = nextToken].num = s.num
        /\ [s EXCEPT !.token = nextToken].gen = s.gen
    BY DEF SlotRecord
  <2> QED BY <1>0, <2>1, <2>2
<1>2. CASE ~(MayReserve(s, n, g) /\ nextToken < MaxToken)
  <2>1. k.token = 0
    BY <1>0, <1>2, NoTicketType DEF ReservedTicket
  <2>2. r = s \/ r = [s EXCEPT !.failed = TRUE]
    BY <1>0, <1>2 DEF ReservedSlot
  <2>3. /\ [s EXCEPT !.failed = TRUE].token = s.token
        /\ [s EXCEPT !.failed = TRUE].num = s.num
        /\ [s EXCEPT !.failed = TRUE].gen = s.gen
    BY Zenon DEF SlotRecord
  <2> QED BY Zenon, <1>0, <2>1, <2>2, <2>3
<1> QED BY <1>1, <1>2

LEMMA ScheduleBacked ==
    ASSUME Typed, FramesOK, RetryBacked, NEW t \in Threads, ScheduleStartRetry(t)
    PROVE  RetryBacked'
<1> DEFINE i == thr[t].idx
           present == Running /\ i <= count
           k == IF present
                THEN ReservedTicket(i, slots[i], thr[t].num, thr[t].gen)
                ELSE NoTicket
           r == ReservedSlot(slots[i], thr[t].num, thr[t].gen)
<1>1. i \in Slots /\ At(t, "sched")
  BY DEF ScheduleStartRetry, At, FramesOK, FrameOK, StartLabels
<1>2. slots[i] \in SlotRecord /\ nextToken # 0
  BY <1>1 DEF Typed
<1>3. /\ thr' = [thr EXCEPT ![t].ticket = k,
                            ![t].pc = IF k.token = 0 THEN "release" ELSE "submit"]
      /\ slots' = IF present THEN [slots EXCEPT ![i] = r] ELSE slots
      /\ UNCHANGED <<tasks, conns, gate, count>>
  BY DEF ScheduleStartRetry
<1>4. /\ r.num = slots[i].num /\ r.gen = slots[i].gen
      /\ present /\ k.token = 0 => r.token = slots[i].token
      /\ k.token # 0 => /\ present
                        /\ k = [slot |-> i, num |-> r.num, gen |-> r.gen,
                                token |-> r.token]
  <2>1. PICK e : e = ReservedTicket(i, slots[i], thr[t].num, thr[t].gen)
    OBVIOUS
  <2>2. /\ r.num = slots[i].num /\ r.gen = slots[i].gen
        /\ e.token = 0 => r.token = slots[i].token
        /\ e.token # 0 => e = [slot |-> i, num |-> r.num, gen |-> r.gen,
                               token |-> r.token]
    <3>1. PICK s, n, g : s = slots[i] /\ n = thr[t].num /\ g = thr[t].gen
      OBVIOUS
    <3>2. s \in SlotRecord /\ e = ReservedTicket(i, s, n, g) /\ r = ReservedSlot(s, n, g)
      BY <1>2, <2>1, <3>1, Zenon
    <3> HIDE DEF i, r
    <3>3. ReserveWrites(i, s, e, r)
      BY <1>2, <3>2, ReserveFacts, Zenon
    <3> QED BY <3>1, <3>3, Zenon DEF ReserveWrites
  <2>3. k = IF present THEN e ELSE NoTicket
    BY <2>1
  <2> HIDE DEF k, r, present
  <2> QED BY <2>2, <2>3, NoTicketType
<1> HIDE DEF k, r, present
<1>5. /\ \A u \in Threads \ {t} : thr'[u] = thr[u]
      /\ thr'[t].ticket = k
      /\ thr'[t].pc = IF k.token = 0 THEN "release" ELSE "submit"
  BY <1>3 DEF Typed, Frame
<1>6. ~ThreadHolds(t)
  BY <1>1 DEF ThreadHolds, At
<1>7. \A u \in Threads : StaysThread(u)
  BY <1>5, <1>6 DEF StaysThread, ThreadHolds, At
<1>8. \A p \in Places : Held(p) \subseteq Held(p)'
  BY <1>3, <1>7, UnchangedStays, StaysHeld, PlaceFacts
<1>9. ASSUME NEW j \in 1 .. count', slots'[j].token # 0
      PROVE  SameTicket(j) \/ \E q \in Places : TicketOf(j)' \in Held(q)'
  <2>0. j \in 1 .. count /\ j \in Slots
    BY <1>3, CountedSlots
  <2>1. CASE ~present \/ j # i
    <3>1. slots'[j] = slots[j]
      BY <1>3, <2>0, <2>1 DEF Typed
    <3> QED BY <2>0, <3>1 DEF SameTicket
  <2>2. CASE present /\ j = i /\ k.token = 0
    <3>1. slots'[j] = r
      BY <1>1, <1>3, <2>2 DEF Typed
    <3> QED BY <1>4, <2>0, <2>2, <3>1 DEF SameTicket
  <2>3. CASE present /\ j = i /\ k.token # 0
    <3>1. slots'[j] = r
      BY <1>1, <1>3, <2>3 DEF Typed
    <3>2. TicketOf(j)' = k
      BY <1>4, <2>3, <3>1 DEF TicketOf
    <3>3. ThreadHolds(t)'
      BY <1>5, <2>3 DEF ThreadHolds, At
    <3>4. k \in Held(t)'
      BY <1>5, <3>3, HeldCasesNext
    <3> QED BY <3>2, <3>4, PlaceFacts
  <2> QED BY <2>1, <2>2, <2>3
<1> QED BY <1>3, <1>8, <1>9, BackedStep

LEMMA SubmitRetryBacked ==
    ASSUME Typed, RetryBacked, NEW t \in Threads, SubmitRetry(t)
    PROVE  RetryBacked'
<1> DEFINE k == thr[t].ticket
<1>1. PICK b \in BOOLEAN :
          /\ tasks' = IF b THEN tasks \cup {k} ELSE tasks
          /\ thr' = [thr EXCEPT ![t].ok = b, ![t].pc = "submitted"]
  BY Zenon DEF SubmitRetry
<1>2. /\ thr'[t].pc = "submitted" /\ thr'[t].ok = b /\ thr'[t].ticket = k
      /\ \A u \in Threads \ {t} : thr'[u] = thr[u]
  BY <1>1 DEF Typed, Frame
<1>3. UNCHANGED <<slots, count, gate, conns>>
  BY DEF SubmitRetry
<1>4. \A p \in Places \ {t} : Held(p) \subseteq Held(p)'
  <2>1. \A u \in Threads \ {t} : StaysThread(u)
    BY <1>2 DEF StaysThread, ThreadHolds, At
  <2>2. tasks \subseteq tasks'
    BY <1>1
  <2> QED BY <1>3, <2>1, <2>2, UnchangedStays, StaysHeld, PlaceFacts
<1>5. ASSUME NEW j \in Held(t)
      PROVE  (\E q \in Places : j \in Held(q)') \/ Dead(j)
  <2>1. j = k
    BY HeldCases
  <2>2. CASE b
    <3>1. CASE IsRetry(k)
      BY <1>1, <2>1, <2>2, <3>1, HeldCasesNext, PlaceFacts
    <3>2. CASE ~IsRetry(k)
      BY <2>1, <3>2 DEF Dead, TicketOf, IsRetry
    <3> QED BY <3>1, <3>2
  <2>3. CASE ~b
    <3>1. ThreadHolds(t)'
      BY <1>2, <2>3 DEF ThreadHolds, At
    <3> QED BY <1>2, <2>1, <3>1, HeldCasesNext, PlaceFacts
  <2> QED BY <2>2, <2>3
<1>6. \A i \in 1 .. count' : SameTicket(i)
  BY <1>3, SlotsSame
<1>7. \A p \in Places : \A j \in Held(p) :
         (\E q \in Places : j \in Held(q)') \/ Dead(j)
  BY <1>4, <1>5
<1> QED BY <1>3, <1>6, <1>7, BackedStep

\* A submission that ends rolls its ticket's slot back, unless the ticket was
\* accepted or no slot waits for it.
LEMMA RollBack ==
    ASSUME Typed, GateInv, NEW k \in Ticket, NEW b \in BOOLEAN,
           slots' = RolledBack(k, b), UNCHANGED <<count, gate>>
    PROVE  /\ \A i \in 1 .. count' : slots'[i].token # 0 => SameTicket(i)
           /\ ~b => Dead(k)
<1>1. CASE ~b /\ RetryTicketMatchesLocked(k)
  <2>1. k.slot \in Slots
    BY <1>1, CountedSlots DEF RetryTicketMatchesLocked
  <2>2. slots' = [slots EXCEPT ![k.slot].token = 0, ![k.slot].failed = TRUE]
    BY <1>1 DEF RolledBack
  <2>3. /\ slots'[k.slot].token = 0
        /\ \A j \in Slots \ {k.slot} : slots'[j] = slots[j]
    BY <2>1, <2>2 DEF Typed, SlotRecord
  <2>4. \A i \in 1 .. count' : slots'[i].token # 0 => SameTicket(i)
    BY <2>3, CountedSlots DEF SameTicket
  <2>5. Dead(k)
    BY <2>3 DEF Dead, TicketOf
  <2> QED BY <2>4, <2>5
<1>2. CASE ~(~b /\ RetryTicketMatchesLocked(k))
  <2>1. UNCHANGED slots
    BY <1>2 DEF RolledBack
  <2>2. \A i \in 1 .. count' : SameTicket(i)
    BY <2>1, SlotsSame
  <2>3. ~b => Dead(k)
    <3> SUFFICES ASSUME ~b, gate, NEW i \in 1 .. count, slots[i].token # 0,
                        TicketOf(i) = k
                 PROVE  FALSE
      BY <2>1 DEF Dead, TicketOf
    <3> QED BY <1>2, WaitedMatches
  <2> QED BY <2>2, <2>3
<1> QED BY <1>1, <1>2

LEMMA SubmitEndBacked ==
    ASSUME Typed, GateInv, RetryBacked, NEW t \in Threads, SubmitEnd(t)
    PROVE  RetryBacked'
<1>1. /\ thr[t].ticket \in Ticket /\ thr[t].ok \in BOOLEAN
      /\ UNCHANGED <<count, gate, conns, tasks>>
      /\ slots' = RolledBack(thr[t].ticket, thr[t].ok)
      /\ At(t, "submitted")
  BY FrameFields DEF SubmitEnd, Typed, Frame
<1>2. /\ \A i \in 1 .. count' : slots'[i].token # 0 => SameTicket(i)
      /\ ~thr[t].ok => Dead(thr[t].ticket)
  BY <1>1, RollBack
<1>3. ThreadHolds(t) => ~thr[t].ok
  BY <1>1 DEF ThreadHolds, At
<1>4. \A u \in Threads \ {t} : thr'[u] = thr[u]
  BY StartSlotQuiet
<1> QED BY <1>1, <1>2, <1>3, <1>4, GivenUpBacked

\* The steps of StartSlot that touch no retry.
LEMMA QuietStartSlotBacked ==
    ASSUME Typed, FramesOK, ConnInv, RetryBacked, NEW t \in Threads,
           \/ ShutdownOld(t) \/ PushOrphan(t) \/ OpenConnection(t) \/ Publish(t)
           \/ StartConnection(t) \/ CheckStart(t) \/ Release(t) \/ Unclaim(t)
           \/ Return(t)
    PROVE  RetryBacked'
<1>1. UNCHANGED <<count, gate, tasks>>
  BY Zenon DEF ShutdownOld, PushOrphan, OpenConnection, Publish, StartConnection,
     CheckStart, Release, Unclaim, Return
<1>2. thr[t].pc \in Quiet
  BY Zenon DEF ShutdownOld, PushOrphan, OpenConnection, Publish, StartConnection,
     CheckStart, Release, Unclaim, Return, At, Quiet
<1>3. ~ThreadHolds(t)
  BY <1>2 DEF ThreadHolds, At, Quiet
<1>4. \A u \in Threads \ {t} : thr'[u] = thr[u]
  BY Zenon, StartSlotQuiet
<1>5. \A c \in Conns : StaysConn(c)
  BY StartSlotConnsStay DEF StartSlotStep
<1>6. \A i \in 1 .. count' : slots'[i].token # 0 => SameTicket(i)
  <2>1. CASE UNCHANGED slots
    BY <1>1, <2>1, SlotsSame
  <2>2. CASE Publish(t) \/ CheckStart(t) \/ Unclaim(t)
    <3> DEFINE j == thr[t].idx
    <3>1. j \in Slots
      BY <2>2, Zenon DEF Publish, CheckStart, Unclaim, At, FramesOK, FrameOK, StartLabels
    <3>2. slots[j] \in SlotRecord
      BY <3>1 DEF Typed
    <3>3. \/ UNCHANGED slots
          \/ slots' = [slots EXCEPT ![j].conn = thr[t].conn, ![j].closing = FALSE,
                                    ![j].reserved = FALSE]
          \/ slots' = [slots EXCEPT ![j].conn = NoConn]
          \/ slots' = [slots EXCEPT ![j].claim = 0]
      BY <2>2, Zenon DEF Publish, CheckStart, Unclaim
    <3>4. \A i \in Slots : /\ slots'[i].token = slots[i].token
                           /\ slots'[i].num = slots[i].num
                           /\ slots'[i].gen = slots[i].gen
      BY <3>1, <3>2, <3>3 DEF Typed, SlotRecord
    <3> QED BY <1>1, <3>4, CountedSlots DEF SameTicket
  <2>3. \/ UNCHANGED slots \/ Publish(t) \/ CheckStart(t) \/ Unclaim(t)
    BY Zenon DEF ShutdownOld, PushOrphan, OpenConnection, StartConnection, Release,
       Return
  <2> QED BY <2>1, <2>2, <2>3
<1> QED BY <1>1, <1>3, <1>4, <1>5, <1>6, QuietBacked

LEMMA StartSlotBacked ==
    ASSUME Typed, FramesOK, GateInv, RetryIdx, ConnInv, RetryBacked,
           NEW t \in Threads, StartSlotStep(t)
    PROVE  RetryBacked'
BY EnterBacked, ClaimBacked, QuietStartSlotBacked, ScheduleBacked,
   SubmitRetryBacked, SubmitEndBacked, Zenon DEF StartSlotStep

LEMMA IdleHoldsNothing ==
    ASSUME NEW t \in Threads, At(t, "idle")
    PROVE  ~ThreadHolds(t)
BY DEF ThreadHolds, At

LEMMA CallerBacked ==
    ASSUME Typed, GateInv, RetryBacked, CallerStep
    PROVE  RetryBacked'
<1>0. "caller" \in Threads
  BY DEF Threads
<1>1. CASE Start
  <2>1. \A i \in Slots : slots'[i].token = 0
    BY <1>1, Zenon DEF Start, NewSlot, EmptySlot
  <2>2. \A i \in 1 .. count' : i \in Slots
    BY <1>1, SessionAssumption DEF Start, Slots
  <2> QED BY <2>1, <2>2 DEF RetryBacked, Places
<1>2. ASSUME NEW j \in Slots, ReconnectSlot(j)
      PROVE  RetryBacked'
  <2>1. slots[j] \in SlotRecord
    BY DEF Typed
  <2>2. /\ slots'[j].token = 0
        /\ \A i \in Slots \ {j} : slots'[i] = slots[i]
    BY <1>2, <2>1 DEF ReconnectSlot, Typed, SlotRecord
  <2>3. /\ UNCHANGED <<count, gate, conns, tasks>>
        /\ At("caller", "idle")
        /\ \A u \in Threads \ {"caller"} : thr'[u] = thr[u]
    BY <1>2 DEF ReconnectSlot, CallerIdle, Typed
  <2>4. \A i \in 1 .. count' : slots'[i].token # 0 => SameTicket(i)
    BY <2>2, <2>3, CountedSlots DEF SameTicket
  <2> QED BY <1>0, <2>3, <2>4, IdleHoldsNothing, UnchangedStays, QuietBacked
<1>3. ASSUME NEW j \in Slots, SetDesiredConnectionCount(j)
      PROVE  RetryBacked'
  <2>1. /\ UNCHANGED <<gate, conns, tasks>> /\ count' = j
        /\ At("caller", "idle")
        /\ \A u \in Threads \ {"caller"} : thr'[u] = thr[u]
    BY <1>3 DEF SetDesiredConnectionCount, CallerIdle, Typed
  <2>2. \A i \in Slots : IF i \in count + 1 .. j THEN slots'[i].token = 0
                         ELSE slots'[i] = slots[i]
    BY <1>3, Zenon DEF SetDesiredConnectionCount, NewSlot, EmptySlot
  <2>3. \A i \in 1 .. j : i \in Slots /\ (i \in count + 1 .. j \/ i \in 1 .. count)
    BY SessionAssumption DEF Typed, Slots
  <2>4. \A i \in 1 .. count' : slots'[i].token # 0 => SameTicket(i)
    <3> SUFFICES ASSUME NEW i \in 1 .. j, slots'[i].token # 0
                 PROVE  SameTicket(i)
      BY <2>1
    <3>1. i \in Slots /\ i \notin count + 1 .. j /\ i \in 1 .. count
      BY <2>2, <2>3
    <3> QED BY <2>2, <3>1 DEF SameTicket
  <2> QED BY <1>0, <2>1, <2>4, IdleHoldsNothing, UnchangedStays, QuietBacked
<1>4. CASE StopHighestConnection
  <2>1. /\ UNCHANGED <<gate, conns, tasks>> /\ count' = count - 1
        /\ At("caller", "idle")
        /\ slots' = [slots EXCEPT ![count] = EmptySlot]
        /\ \A u \in Threads \ {"caller"} : thr'[u] = thr[u]
    BY <1>4 DEF StopHighestConnection, CallerIdle, Typed
  <2>2. \A i \in 1 .. count' : i \in 1 .. count /\ i # count
    BY <2>1 DEF Typed
  <2>3. \A i \in 1 .. count' : SameTicket(i)
    BY <2>1, <2>2, CountedSlots DEF SameTicket, Typed
  <2> QED BY <1>0, <2>1, <2>3, IdleHoldsNothing, UnchangedStays, QuietBacked
<1>5. CASE StopGate
  BY <1>5 DEF StopGate, RetryBacked
<1>6. CASE StopSession
  BY <1>6 DEF StopSession, RetryBacked
<1> QED BY <1>1, <1>2, <1>3, <1>4, <1>5, <1>6, Zenon DEF CallerStep

LEMMA TaskBacked ==
    ASSUME Typed, FramesOK, GateInv, RetryBacked, TaskStep
    PROVE  RetryBacked'
<1>0. "reactor" \in Threads /\ "terminal" \in Threads
  BY DEF Threads
<1>1. ASSUME NEW k \in tasks, RunRetry(k)
      PROVE  RetryBacked'
  <2>1. /\ UNCHANGED <<slots, count, gate, conns>> /\ tasks' = tasks \ {k}
        /\ At("reactor", "idle")
    BY <1>1 DEF RunRetry
  <2>2. CASE ~gate
    BY <2>1, <2>2 DEF RetryBacked
  <2>3. CASE gate
    <3>1. thr' = [thr EXCEPT !["reactor"] = StartCall("Retry", k.slot, k.slot, k)]
      BY <1>1, <2>3 DEF RunRetry
    <3>2. /\ thr'["reactor"].op = "Retry" /\ thr'["reactor"].pc = "enter"
          /\ thr'["reactor"].ticket = k
          /\ \A u \in Threads \ {"reactor"} : thr'[u] = thr[u]
      BY <1>0, <3>1 DEF Typed, StartCall, NoFrame
    <3>3. \A u \in Threads : StaysThread(u)
      BY <2>1, <3>2 DEF StaysThread, ThreadHolds, At
    <3>4. \A p \in Places \ {"queue"} : Held(p) \subseteq Held(p)'
      BY <2>1, <3>3, UnchangedStays, StaysHeld, PlaceFacts
    <3>5. \A j \in Held("queue") \ {k} : j \in Held("queue")'
      BY <2>1, HeldCases, HeldCasesNext
    <3>6. k \in Held("reactor")'
      <4>1. ThreadHolds("reactor")'
        BY <3>2 DEF ThreadHolds
      <4> QED BY <1>0, <3>2, <4>1, HeldCasesNext
    <3>7. \A p \in Places : \A j \in Held(p) : \E q \in Places : j \in Held(q)'
      BY <1>0, <3>4, <3>5, <3>6, PlaceFacts
    <3>8. \A i \in 1 .. count' : SameTicket(i)
      BY <2>1, SlotsSame
    <3> QED BY <2>1, <3>7, <3>8, BackedStep
  <2> QED BY <2>2, <2>3
<1>2. ASSUME NEW k \in tasks, RunOperation(k)
      PROVE  RetryBacked'
  <2>1. /\ UNCHANGED <<slots, count, gate, conns>> /\ tasks' = tasks \ {k}
        /\ At("reactor", "idle") /\ ~IsRetry(k)
        /\ \A u \in Threads \ {"reactor"} : thr'[u] = thr[u]
    BY <1>2 DEF RunOperation, Typed
  <2>2. \A j \in tasks : IsRetry(j) => j \in tasks'
    BY <2>1
  <2> QED BY <1>0, <2>1, <2>2, SlotsSame, IdleHoldsNothing, UnchangedStays,
             QuietBacked
<1>3. ASSUME NEW c \in Conns, Escalate(c)
      PROVE  RetryBacked'
  <2> DEFINE j == conns[c].slot
  <2>1. /\ UNCHANGED <<count, gate, conns, tasks>>
        /\ At("terminal", "idle") /\ j \in 1 .. count
        /\ slots' = [slots EXCEPT ![j].reserved = TRUE, ![j].closing = TRUE]
        /\ \A u \in Threads \ {"terminal"} : thr'[u] = thr[u]
    BY <1>3 DEF Escalate, Typed
  <2>2. j \in Slots /\ slots[j] \in SlotRecord
    BY <2>1, CountedSlots DEF Typed
  <2>3. \A i \in Slots : /\ slots'[i].token = slots[i].token
                         /\ slots'[i].num = slots[i].num
                         /\ slots'[i].gen = slots[i].gen
    BY <2>1, <2>2 DEF Typed, SlotRecord
  <2>4. \A i \in 1 .. count' : SameTicket(i)
    BY <2>1, <2>3, CountedSlots, Zenon DEF SameTicket
  <2> QED BY <1>0, <2>1, <2>4, IdleHoldsNothing, UnchangedStays, QuietBacked
<1>4. CASE Defer
  <2>1. /\ UNCHANGED <<slots, count, gate, conns>> /\ tasks \subseteq tasks'
        /\ At("terminal", "defer")
    BY <1>4 DEF Defer
  <2>2. \A u \in Threads \ {"terminal"} : thr'[u] = thr[u]
    <3>1. CASE thr' = [thr EXCEPT !["terminal"] = NoFrame]
      BY <3>1 DEF Typed
    <3>2. CASE Goto("terminal", "operate")
      BY <3>2 DEF Goto, Typed
    <3> QED BY <1>4, <3>1, <3>2 DEF Defer
  <2>3. ~ThreadHolds("terminal")
    BY <2>1 DEF ThreadHolds, At
  <2> QED BY <1>0, <2>1, <2>2, <2>3, SlotsSame, UnchangedStays, QuietBacked
<1>5. ASSUME NEW t \in Threads, PinForShutdown(t) \/ ShutdownPinned(t)
      PROVE  RetryBacked'
  <2>1. /\ UNCHANGED <<slots, count, gate, tasks>>
        /\ thr[t].pc \in {"operate", "pinned"}
        /\ \A u \in Threads \ {t} : thr'[u] = thr[u]
    BY <1>5 DEF PinForShutdown, ShutdownPinned, At, Typed
  <2>2. ~ThreadHolds(t)
    BY <2>1 DEF ThreadHolds, At
  <2>3. \A c \in Conns : StaysConn(c)
    <3>1. CASE PinForShutdown(t)
      BY <3>1, UnchangedStays DEF PinForShutdown
    <3>2. CASE ShutdownPinned(t)
      BY <3>2, ShutdownStays, Zenon DEF ShutdownPinned, Typed
    <3> QED BY Zenon, <1>5, <3>1, <3>2
  <2> QED BY <2>1, <2>2, <2>3, SlotsSame, QuietBacked
<1> QED BY <1>1, <1>2, <1>3, <1>4, <1>5, Zenon DEF TaskStep

\* A callback's step in which every other place keeps its retry.
LEMMA CallbackBackedStep ==
    ASSUME RetryBacked, UNCHANGED <<thr, gate, count>>, NEW c \in Conns,
           tasks \subseteq tasks',
           \A d \in Conns \ {c} : conns'[d] = conns[d],
           \A i \in 1 .. count' : slots'[i].token # 0 =>
               SameTicket(i) \/ \E q \in Places : TicketOf(i)' \in Held(q)',
           CallbackHolds(c) =>
               \/ CallbackHolds(c)' /\ conns'[c].ticket = conns[c].ticket
               \/ conns[c].ticket \in tasks'
               \/ Dead(conns[c].ticket)
    PROVE  RetryBacked'
<1>1. \A d \in Conns \ {c} : StaysConn(d)
  BY DEF StaysConn, CallbackHolds, IsRetry
<1>2. \A p \in Places \ {c} : Held(p) \subseteq Held(p)'
  BY <1>1, UnchangedStays, StaysHeld, PlaceFacts
<1>3. ASSUME NEW k \in Held(c)
      PROVE  (\E q \in Places : k \in Held(q)') \/ Dead(k)
  <2>1. CallbackHolds(c) /\ k = conns[c].ticket /\ IsRetry(k)
    BY HeldCases DEF CallbackHolds
  <2>2. CASE CallbackHolds(c)' /\ conns'[c].ticket = conns[c].ticket
    BY Zenon, <2>1, <2>2, HeldCasesNext, PlaceFacts
  <2>3. CASE conns[c].ticket \in tasks'
    BY <2>1, <2>3, HeldCasesNext, PlaceFacts
  <2> QED BY <2>1, <2>2, <2>3
<1>4. \A p \in Places : \A k \in Held(p) :
         (\E q \in Places : k \in Held(q)') \/ Dead(k)
  BY <1>2, <1>3
<1> QED BY <1>4, BackedStep

LEMMA CompleteBacked ==
    ASSUME Typed, RetryBacked, NEW c \in Conns, CompleteSlotShutdownLocked(c)
    PROVE  RetryBacked'
<1> DEFINE i == conns[c].slot
           n == conns[c].num
           g == conns[c].gen
           down == [slots[i] EXCEPT !.conn = NoConn, !.connected = FALSE,
                                    !.closing = TRUE]
           current == IsSlotOf(c, i)
           k == IF current /\ Running THEN ReservedTicket(i, down, n, g)
                ELSE NoTicket
           r == IF Running THEN ReservedSlot(down, n, g) ELSE down
<1>1. /\ slots' = IF ~current THEN slots ELSE [slots EXCEPT ![i] = r]
      /\ conns' = [conns EXCEPT ![c].cb = "drop", ![c].ticket = k]
      /\ conns[c].cb = "idle"
      /\ UNCHANGED <<count, gate, tasks, thr>>
  BY DEF CompleteSlotShutdownLocked
<1>2. current => i \in Slots /\ slots[i] \in SlotRecord
  BY CountedSlots DEF IsSlotOf, Typed
<1>3. current => /\ down \in SlotRecord
                 /\ down.token = slots[i].token
                 /\ down.num = slots[i].num
                 /\ down.gen = slots[i].gen
  BY <1>2, Zenon DEF SlotRecord
<1>4. nextToken # 0
  BY DEF Typed
<1> HIDE DEF down
<1>5. current => /\ r.num = slots[i].num /\ r.gen = slots[i].gen
                 /\ k.token = 0 => r.token = slots[i].token
                 /\ k.token # 0 => k = [slot |-> i, num |-> r.num,
                                        gen |-> r.gen, token |-> r.token]
  <2>1. PICK e, d : /\ e = ReservedTicket(i, down, n, g)
                    /\ d = ReservedSlot(down, n, g)
    OBVIOUS
  <2>2. /\ k = IF current /\ Running THEN e ELSE NoTicket
        /\ r = IF Running THEN d ELSE down
    BY <2>1, Zenon
  <2> HIDE DEF i, n, g, k, r, current
  <2>3. ASSUME down \in SlotRecord
        PROVE  /\ d.num = down.num /\ d.gen = down.gen
               /\ e.token = 0 => d.token = down.token
               /\ e.token # 0 => e = [slot |-> i, num |-> d.num,
                                      gen |-> d.gen, token |-> d.token]
    <3>1. ReserveWrites(i, down, e, d)
      BY <1>4, <2>1, <2>3, ReserveFacts, Zenon
    <3> QED BY <3>1, Zenon DEF ReserveWrites
  <2> QED BY Zenon, <1>3, <2>2, <2>3, NoTicketType
<1> HIDE DEF k, r
<1>6. /\ conns'[c].cb = "drop" /\ conns'[c].ticket = k
      /\ \A d \in Conns \ {c} : conns'[d] = conns[d]
  BY <1>1 DEF Typed, ConnRecord
<1>7. ~CallbackHolds(c)
  BY <1>1 DEF CallbackHolds
<1>8. ASSUME NEW j \in 1 .. count', slots'[j].token # 0
      PROVE  SameTicket(j) \/ \E q \in Places : TicketOf(j)' \in Held(q)'
  <2>0. j \in 1 .. count /\ j \in Slots
    BY <1>1, CountedSlots
  <2>1. CASE ~current \/ j # i
    <3>1. slots'[j] = slots[j]
      BY <1>1, <2>0, <2>1 DEF Typed
    <3> QED BY <2>0, <3>1 DEF SameTicket
  <2>2. CASE current /\ j = i
    <3>1. slots'[j] = r
      BY <1>1, <1>2, <2>2 DEF Typed
    <3>2. CASE k.token = 0
      BY <1>5, <2>0, <2>2, <3>1, <3>2, Zenon DEF SameTicket
    <3>3. CASE k.token # 0
      <4>1. TicketOf(j)' = k
        BY <1>5, <2>2, <3>1, <3>3, Zenon DEF TicketOf
      <4>2. CallbackHolds(c)'
        BY <1>6, <3>3 DEF CallbackHolds, IsRetry
      <4>3. k \in Held(c)'
        BY <1>6, <4>2, HeldCasesNext, Zenon
      <4> QED BY <4>1, <4>3, PlaceFacts
    <3> QED BY <3>2, <3>3
  <2> QED BY Zenon, <2>1, <2>2
<1> QED BY <1>1, <1>6, <1>7, <1>8, CallbackBackedStep, Zenon

LEMMA CallbackBacked ==
    ASSUME Typed, GateInv, RetryBacked, NEW c \in Conns, CallbackStep(c)
    PROVE  RetryBacked'
<1>0. /\ UNCHANGED <<thr, gate, count>> /\ tasks \subseteq tasks'
  BY Zenon DEF CallbackStep, OnSlotConnected, OnSlotDisconnected,
     CompleteSlotShutdownLocked, DropOrphanedConnection, CallbackSubmit,
     CallbackSubmitEnd, Free
<1>1. \A d \in Conns \ {c} : conns'[d] = conns[d]
  BY CallbackOthers
<1>2. CASE OnSlotConnected(c) \/ OnSlotDisconnected(c)
  <2> DEFINE j == conns[c].slot
  <2>1. ~CallbackHolds(c)
    BY <1>2 DEF OnSlotConnected, OnSlotDisconnected, CallbackHolds
  <2>2. \/ UNCHANGED slots
        \/ /\ j \in 1 .. count
           /\ \/ slots' = [slots EXCEPT ![j].connected = TRUE, ![j].token = 0]
              \/ slots' = [slots EXCEPT ![j].connected = FALSE,
                                        ![j].closing = TRUE]
    BY <1>2 DEF OnSlotConnected, OnSlotDisconnected, IsSlotOf
  <2>3. \A i \in Slots : slots'[i].token # 0 =>
           /\ slots'[i].token = slots[i].token
           /\ slots'[i].num = slots[i].num
           /\ slots'[i].gen = slots[i].gen
    <3>1. CASE UNCHANGED slots
      BY <3>1
    <3>2. CASE j \in 1 .. count
      <4>1. j \in Slots /\ slots[j] \in SlotRecord
        BY <3>2, CountedSlots DEF Typed
      <4> QED BY <2>2, <4>1 DEF Typed, SlotRecord
    <3> QED BY <2>2, <3>1, <3>2
  <2>4. \A i \in 1 .. count' : slots'[i].token # 0 => SameTicket(i)
    BY <1>0, <2>3, CountedSlots DEF SameTicket
  <2> QED BY <1>0, <1>1, <2>1, <2>4, CallbackBackedStep
<1>3. CASE DropOrphanedConnection(c)
  <2>1. /\ UNCHANGED <<slots, count>>
        /\ conns' = [conns EXCEPT ![c].phase = "done",
             ![c].cb = IF conns[c].ticket.token # 0 /\ gate
                       THEN "submit" ELSE "idle",
             ![c].ticket = IF conns[c].ticket.token # 0 /\ gate
                           THEN @ ELSE NoTicket]
    BY <1>3 DEF DropOrphanedConnection
  <2>2. CASE ~gate
    BY <1>0, <2>2 DEF RetryBacked
  <2>3. CASE gate
    <3>1. CallbackHolds(c) => CallbackHolds(c)' /\ conns'[c].ticket = conns[c].ticket
      BY <2>1, <2>3, Zenon DEF CallbackHolds, IsRetry, Typed, ConnRecord
    <3> QED BY Zenon, <1>0, <1>1, <2>1, <3>1, SlotsSame, CallbackBackedStep
  <2> QED BY <2>2, <2>3
<1>4. CASE CallbackSubmit(c)
  <2>1. PICK b \in BOOLEAN :
          /\ tasks' = IF b THEN tasks \cup {conns[c].ticket} ELSE tasks
          /\ conns' = [conns EXCEPT ![c].cb = IF b THEN "idle" ELSE "submitted",
                                    ![c].ticket = IF b THEN NoTicket ELSE @]
    BY <1>4, Zenon DEF CallbackSubmit
  <2>2. UNCHANGED <<slots, count>>
    BY <1>4 DEF CallbackSubmit
  <2>3. CASE b
    BY <1>0, <1>1, <2>1, <2>2, <2>3, SlotsSame, CallbackBackedStep, Zenon
  <2>4. CASE ~b
    <3>1. conns'[c].cb = "submitted" /\ conns'[c].ticket = conns[c].ticket
      BY <2>1, <2>4 DEF Typed, ConnRecord
    <3>2. CallbackHolds(c) => CallbackHolds(c)'
      BY <3>1 DEF CallbackHolds, IsRetry
    <3> QED BY <1>0, <1>1, <2>2, <3>1, <3>2, SlotsSame, CallbackBackedStep
  <2> QED BY <2>3, <2>4
<1>5. CASE CallbackSubmitEnd(c)
  <2>1. slots' = RolledBack(conns[c].ticket, FALSE) /\ conns[c].ticket \in Ticket
    BY <1>5, ConnFields DEF CallbackSubmitEnd, Typed
  <2>2. /\ \A i \in 1 .. count' : slots'[i].token # 0 => SameTicket(i)
        /\ Dead(conns[c].ticket)
    BY <1>0, <2>1, RollBack, Zenon
  <2> QED BY <1>0, <1>1, <2>2, CallbackBackedStep
<1>6. CASE Free(c)
  <2>1. ~CallbackHolds(c) /\ UNCHANGED <<slots, count>>
    BY <1>6, Zenon DEF Free, CallbackHolds
  <2> QED BY <1>0, <1>1, <2>1, SlotsSame, CallbackBackedStep
<1> QED BY <1>2, <1>3, <1>4, <1>5, <1>6, CompleteBacked DEF CallbackStep

-----------------------------------------------------------------------------
(* GateInv, RetryIdx and ConnInv. *)

\* Where each step of a thread leaves it.
LEMMA StartSlotLabels ==
    ASSUME Typed, NEW t \in Threads, StartSlotStep(t)
    PROVE  /\ \A u \in Threads \ {t} : thr'[u] = thr[u]
           /\ thr'[t].pc \notin {"drain", "stopped"}
           /\ \/ thr'[t].pc \notin {"enter", "claim"}
              \/ thr'[t].op # "Retry"
              \/ /\ thr[t].pc = "enter" /\ thr'[t].op = thr[t].op
                 /\ thr'[t].idx = thr[t].idx /\ thr'[t].ticket = thr[t].ticket
<1>1. CASE Enter(t)
  <2>1. \E l \in {"claim", "return"} : Goto(t, l)
    BY <1>1, Zenon DEF Enter
  <2>2. thr[t].pc = "enter"
    BY <1>1 DEF Enter, At
  <2> QED BY <2>1, <2>2 DEF Goto, Typed, Frame
<1>2. CASE ScheduleStartRetry(t)
  <2>1. \E k, l : /\ l \in {"release", "submit"}
                  /\ thr' = [thr EXCEPT ![t].ticket = k, ![t].pc = l]
    BY <1>2, Zenon DEF ScheduleStartRetry
  <2> QED BY <2>1 DEF Typed, Frame
<1>3. CASE SubmitRetry(t)
  <2>1. \E b \in BOOLEAN : thr' = [thr EXCEPT ![t].ok = b, ![t].pc = "submitted"]
    BY <1>3, Zenon DEF SubmitRetry
  <2> QED BY <2>1 DEF Typed, Frame
<1>4. CASE \/ ClaimRefused(t) \/ ClaimExhausted(t) \/ Claim(t) \/ ShutdownOld(t)
           \/ PushOrphan(t) \/ OpenConnection(t) \/ Publish(t)
           \/ StartConnection(t) \/ CheckStart(t) \/ SubmitEnd(t) \/ Release(t)
           \/ Unclaim(t) \/ Return(t)
  <2>1. /\ thr'[t].pc \in Quiet \/ (thr'[t].pc = "enter" /\ thr'[t].op # "Retry")
        /\ \A u \in Threads \ {t} : thr'[u] = thr[u]
    BY <1>4, StartSlotQuiet, Zenon
  <2> QED BY <2>1 DEF Quiet
<1> QED BY Zenon, <1>1, <1>2, <1>3, <1>4 DEF StartSlotStep

LEMMA GateInit == Init => GateInv /\ RetryIdx /\ ConnInv
BY DEF Init, GateInv, RetryIdx, ConnInv, NoFrame, NoConnection, At, Threads

LEMMA StartSlotGate ==
    ASSUME Typed, GateInv, RetryIdx, NEW t \in Threads, StartSlotStep(t)
    PROVE  GateInv' /\ RetryIdx'
<1>1. UNCHANGED <<gate, started, stopping>>
  BY Zenon DEF StartSlotStep, Enter, ClaimRefused, ClaimExhausted, Claim, ShutdownOld,
     PushOrphan, OpenConnection, Publish, StartConnection, CheckStart,
     ScheduleStartRetry, SubmitRetry, SubmitEnd, Release, Unclaim, Return
<1>2. At("caller", "drain")' => At("caller", "drain")
  BY StartSlotLabels, Zenon DEF At, Threads
<1>3. GateInv'
  BY <1>1, <1>2 DEF GateInv, Running
<1>4. RetryIdx'
  BY StartSlotLabels DEF RetryIdx
<1> QED BY <1>3, <1>4

LEMMA CallerGate ==
    ASSUME Typed, GateInv, RetryIdx, CallerStep
    PROVE  GateInv' /\ RetryIdx'
<1> DEFINE Left == /\ \A u \in Threads \ {"caller"} : thr'[u] = thr[u]
                   /\ thr'["caller"].pc = "drain" => gate' = FALSE
                   /\ \/ thr'["caller"].pc \notin {"enter", "claim"}
                      \/ thr'["caller"].op # "Retry"
<1>1. Left
  <2>1. "caller" \in Threads
    BY DEF Threads
  <2>2. CASE Start
    BY <2>1, <2>2 DEF Start, Typed, StartCall, NoFrame
  <2>3. ASSUME NEW i \in Slots, ReconnectSlot(i) \/ SetDesiredConnectionCount(i)
        PROVE  Left
    <3>1. \E op \in {"Start", "Reconnect"} : \E j, l :
             thr' = [thr EXCEPT !["caller"] = StartCall(op, j, l, NoTicket)]
      BY <2>3, Zenon DEF ReconnectSlot, SetDesiredConnectionCount
    <3>2. \A op, j, l : /\ StartCall(op, j, l, NoTicket).op = op
                        /\ StartCall(op, j, l, NoTicket).pc = "enter"
      BY DEF StartCall, NoFrame
    <3> QED BY <2>1, <3>1, <3>2 DEF Typed
  <2>4. CASE StopHighestConnection
    BY <2>1, <2>4 DEF StopHighestConnection, Typed, NoFrame
  <2>5. CASE StopGate
    BY <2>1, <2>5 DEF StopGate, Typed, Frame
  <2>6. CASE StopSession
    BY <2>1, <2>6, Zenon DEF StopSession, Goto, Typed, Frame
  <2> QED BY Zenon, <2>2, <2>3, <2>4, <2>5, <2>6 DEF CallerStep
<1>2. gate' => Running'
  <2>1. CASE Start
    BY <2>1 DEF Start, Running
  <2>2. CASE StopSession
    BY <2>2 DEF StopSession, GateInv
  <2>3. CASE StopGate
    BY <2>3 DEF StopGate
  <2>4. CASE UNCHANGED <<gate, started, stopping>>
    BY <2>4, Zenon DEF GateInv, Running
  <2> QED BY Zenon, <2>1, <2>2, <2>3, <2>4 DEF CallerStep, ReconnectSlot,
          SetDesiredConnectionCount, StopHighestConnection
<1> QED BY <1>1, <1>2 DEF GateInv, RetryIdx, At

LEMMA TaskGate ==
    ASSUME Typed, GateInv, RetryIdx, TaskStep
    PROVE  GateInv' /\ RetryIdx'
<1>0. UNCHANGED <<gate, started, stopping>>
  BY Zenon DEF TaskStep, RunRetry, RunOperation, Escalate, Defer, PinForShutdown,
     ShutdownPinned
<1>1. ASSUME NEW t \in Threads, NEW f, thr' = [thr EXCEPT ![t] = f],
             f.pc \notin {"drain", "claim"}, f.pc = "enter" => f.idx = f.ticket.slot
      PROVE  GateInv' /\ RetryIdx'
  BY <1>0, <1>1 DEF GateInv, RetryIdx, Running, At, Typed
<1>2. "reactor" \in Threads /\ "terminal" \in Threads
  BY DEF Threads
<1>3. CASE UNCHANGED thr
  BY <1>0, <1>3 DEF GateInv, RetryIdx, Running, At
<1>4. NoFrame.pc = "idle"
  BY DEF NoFrame
<1>5. ASSUME NEW k \in tasks, RunRetry(k)
      PROVE  GateInv' /\ RetryIdx'
  <2> DEFINE f == StartCall("Retry", k.slot, k.slot, k)
  <2>1. f.pc = "enter" /\ f.idx = k.slot /\ f.ticket = k
    BY DEF StartCall, NoFrame
  <2>2. UNCHANGED thr \/ thr' = [thr EXCEPT !["reactor"] = f]
    BY <1>5 DEF RunRetry
  <2> HIDE DEF f
  <2> QED BY <1>1, <1>2, <1>3, <2>1, <2>2
<1>6. ASSUME NEW k \in tasks, RunOperation(k)
      PROVE  GateInv' /\ RetryIdx'
  <2>1. OperationFrame(k).pc = "operate"
    BY Zenon DEF OperationFrame, NoFrame
  <2> QED BY Zenon, <1>1, <1>2, <1>6, <2>1 DEF RunOperation
<1>7. ASSUME NEW c \in Conns, Escalate(c)
      PROVE  GateInv' /\ RetryIdx'
  <2>1. PICK k : thr' = [thr EXCEPT !["terminal"] =
                            [OperationFrame(k) EXCEPT !.pc = "defer"]]
    BY <1>7, Zenon DEF Escalate
  <2>2. [OperationFrame(k) EXCEPT !.pc = "defer"].pc = "defer"
    BY Zenon DEF OperationFrame, NoFrame
  <2> QED BY Zenon, <1>1, <1>2, <2>1, <2>2
<1>8. CASE Defer
  <2> DEFINE f == [thr["terminal"] EXCEPT !.pc = "operate"]
  <2>1. f.pc = "operate"
    BY <1>2 DEF Typed, Frame
  <2>2. \/ thr' = [thr EXCEPT !["terminal"] = NoFrame]
        \/ thr' = [thr EXCEPT !["terminal"] = f]
    BY <1>8 DEF Defer, Goto
  <2> HIDE DEF f
  <2> QED BY <1>1, <1>2, <1>4, <2>1, <2>2
<1>9. ASSUME NEW t \in Threads, PinForShutdown(t) \/ ShutdownPinned(t)
      PROVE  GateInv' /\ RetryIdx'
  <2>1. PICK c : \/ thr' = [thr EXCEPT ![t] = NoFrame]
                 \/ thr' = [thr EXCEPT ![t] =
                              [thr[t] EXCEPT !.old = c, !.pc = "pinned"]]
    BY <1>9, Zenon DEF PinForShutdown, ShutdownPinned
  <2> DEFINE f == [thr[t] EXCEPT !.old = c, !.pc = "pinned"]
  <2>2. f.pc = "pinned"
    BY DEF Typed, Frame
  <2>3. thr' = [thr EXCEPT ![t] = NoFrame] \/ thr' = [thr EXCEPT ![t] = f]
    BY <2>1
  <2> HIDE DEF f
  <2> QED BY <1>1, <1>4, <2>2, <2>3
<1> QED BY <1>5, <1>6, <1>7, <1>8, <1>9, Zenon DEF TaskStep

LEMMA ShutdownConnInv ==
    ASSUME Typed, ConnInv, NEW C, conns' = Shutdown(conns, C)
    PROVE  ConnInv'
<1>1. \A c \in Conns : conns'[c].cb = conns[c].cb
                       /\ (conns'[c].phase = "none" => conns[c].phase = "none")
  BY DEF Shutdown, Typed, ConnRecord
<1> QED BY <1>1 DEF ConnInv

LEMMA DestroyedConnInv ==
    ASSUME ConnInv, NEW d, conns' = Destroyed(conns, d)
    PROVE  ConnInv'
BY Zenon DEF ConnInv, Destroyed, NoConnection

LEMMA StartSlotConnInv ==
    ASSUME Typed, ConnInv, NEW t \in Threads, StartSlotStep(t)
    PROVE  ConnInv'
<1>1. CASE UNCHANGED conns
  BY <1>1, Zenon DEF ConnInv
<1>2. CASE ShutdownOld(t)
  BY <1>2, ShutdownConnInv DEF ShutdownOld
<1>3. CASE OpenConnection(t)
  <2>1. CASE \E d \in Conns :
               conns' = [conns EXCEPT ![d] =
                    [NoConnection EXCEPT !.phase = "opened",
                                         !.slot = thr[t].idx,
                                         !.num = thr[t].num,
                                         !.gen = thr[t].gen]]
    BY <2>1, Zenon DEF Typed, ConnInv, NoConnection
  <2> QED BY Zenon, <1>1, <1>3, <2>1 DEF OpenConnection
<1>4. CASE Publish(t)
  BY <1>4, DestroyedConnInv, Zenon DEF Publish
<1>5. CASE StartConnection(t)
  BY <1>5 DEF StartConnection, Typed, ConnRecord, ConnInv
<1>6. CASE CheckStart(t)
  BY <1>1, <1>6, DestroyedConnInv DEF CheckStart
<1>7. \/ UNCHANGED conns \/ ShutdownOld(t) \/ OpenConnection(t) \/ Publish(t)
      \/ StartConnection(t) \/ CheckStart(t)
  BY Zenon DEF StartSlotStep, Enter, ClaimRefused, ClaimExhausted, Claim, PushOrphan,
     ScheduleStartRetry, SubmitRetry, SubmitEnd, Release, Unclaim, Return
<1> QED BY <1>1, <1>2, <1>3, <1>4, <1>5, <1>6, <1>7

LEMMA CallerTaskConnInv ==
    ASSUME Typed, ConnInv, CallerStep \/ TaskStep
    PROVE  ConnInv'
<1>1. UNCHANGED conns \/ \E C : conns' = Shutdown(conns, C)
  BY Zenon DEF CallerStep, TaskStep, Start, ReconnectSlot, SetDesiredConnectionCount,
     StopHighestConnection, StopGate, StopSession, RunRetry, RunOperation,
     Escalate, Defer, PinForShutdown, ShutdownPinned
<1>2. CASE UNCHANGED conns
  BY <1>2 DEF ConnInv
<1> QED BY <1>1, <1>2, ShutdownConnInv

LEMMA CallbackConnInv ==
    ASSUME Typed, ConnInv, NEW c \in Conns, CallbackStep(c)
    PROVE  ConnInv'
<1>1. \A d \in Conns \ {c} : conns'[d] = conns[d]
  BY CallbackOthers, Zenon
<1>2. conns'[c].phase = "none" => conns'[c].cb = "idle"
  <2>0. conns[c] \in ConnRecord
    BY DEF Typed
  <2>1. CASE OnSlotConnected(c)
    BY <2>0, <2>1 DEF OnSlotConnected, Typed, ConnRecord
  <2>2. CASE OnSlotDisconnected(c)
    BY <2>0, <2>2 DEF OnSlotDisconnected, Typed, ConnRecord
  <2>3. CASE CompleteSlotShutdownLocked(c)
    <3>1. \E k : conns' = [conns EXCEPT ![c].cb = "drop", ![c].ticket = k]
      BY <2>3, Zenon DEF CompleteSlotShutdownLocked
    <3>2. conns[c].phase = "down"
      BY <2>3 DEF CompleteSlotShutdownLocked
    <3> QED BY <2>0, <3>1, <3>2 DEF Typed, ConnRecord
  <2>4. CASE DropOrphanedConnection(c)
    <3>1. \E l, k : conns' = [conns EXCEPT ![c].phase = "done", ![c].cb = l,
                                           ![c].ticket = k]
      BY <2>4, Zenon DEF DropOrphanedConnection
    <3> QED BY <2>0, <3>1 DEF Typed, ConnRecord
  <2>5. CASE CallbackSubmit(c)
    <3>1. \E l, k : conns' = [conns EXCEPT ![c].cb = l, ![c].ticket = k]
      BY <2>5, Zenon DEF CallbackSubmit
    <3>2. conns[c].phase # "none"
      BY <2>5 DEF CallbackSubmit, ConnInv
    <3> QED BY <2>0, <3>1, <3>2 DEF Typed, ConnRecord
  <2>6. CASE CallbackSubmitEnd(c)
    BY <2>0, <2>6 DEF CallbackSubmitEnd, Typed, ConnRecord
  <2>7. CASE Free(c)
    BY <2>7, Zenon DEF Free, NoConnection, Typed
  <2> QED BY Zenon, <2>1, <2>2, <2>3, <2>4, <2>5, <2>6, <2>7 DEF CallbackStep
<1> QED BY <1>1, <1>2 DEF ConnInv

LEMMA CallbackGate ==
    ASSUME GateInv, RetryIdx, NEW c \in Conns, CallbackStep(c)
    PROVE  GateInv' /\ RetryIdx'
<1>1. UNCHANGED <<thr, gate, started, stopping>>
  BY Zenon DEF CallbackStep, OnSlotConnected, OnSlotDisconnected,
     CompleteSlotShutdownLocked, DropOrphanedConnection, CallbackSubmit,
     CallbackSubmitEnd, Free
<1> QED BY <1>1 DEF GateInv, RetryIdx, Running, At

LEMMA BackedInit == Init => RetryBacked
BY DEF Init, RetryBacked

LEMMA GateStep ==
    ASSUME Typed, GateInv, RetryIdx, ConnInv, [Next]_vars
    PROVE  GateInv' /\ RetryIdx' /\ ConnInv'
<1>1. CASE UNCHANGED vars
  BY <1>1, Zenon DEF vars, state, GateInv, RetryIdx, ConnInv, Running, At
<1> QED BY <1>1, StartSlotGate, StartSlotConnInv, CallerGate, TaskGate,
           CallerTaskConnInv, CallbackGate, CallbackConnInv, Zenon DEF Next, Step

LEMMA BackedNext ==
    ASSUME Typed, FramesOK, GateInv, RetryIdx, ConnInv, RetryBacked, [Next]_vars
    PROVE  RetryBacked'
<1>1. CASE UNCHANGED vars
  <2>1. UNCHANGED <<slots, count, gate, conns, tasks, thr>>
    BY <1>1 DEF vars, state
  <2>2. \A p \in Places : Held(p) \subseteq Held(p)'
    BY <2>1, UnchangedStays, StaysHeld, PlaceFacts, Zenon
  <2> QED BY <2>1, <2>2, SlotsSame, BackedStep
<1> QED BY <1>1, StartSlotBacked, CallerBacked, TaskBacked, CallbackBacked, Zenon
        DEF Next, Step

\* While the session is live, an ActiveRetryToken that ReserveRetryLocked wrote
\* to a slot is cleared, or its ticket is queued, about to be queued or about to
\* claim the slot: no interleaving loses the retry a slot waits for.
THEOREM NoRetryLost == Spec => []RetryBacked
<1> DEFINE Inv == /\ Typed /\ FramesOK /\ TokenInv
                  /\ GateInv /\ RetryIdx /\ ConnInv /\ RetryBacked
<1>1. Init => Inv
  BY TypedInit, FramesInit, TokensInit, GateInit, BackedInit
<1>2. Inv /\ [Next]_vars => Inv'
  BY TypedStep, FramesStep, TokensStep, GateStep, BackedNext, Zenon
<1>3. Inv => RetryBacked
  OBVIOUS
<1> QED BY <1>1, <1>2, <1>3, PTL DEF Spec
=============================================================================

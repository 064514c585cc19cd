---------------------- MODULE QuicClientSessionProofs ----------------------
(***************************************************************************)
(* Proofs about QuicClientSession, for any number of slots, connections,    *)
(* retries and administrative operations:                                   *)
(*                                                                          *)
(*   Spec => []SingleFlight   a slot has at most one executable retry.      *)
(*                                                                          *)
(* It rests on what every action does to the tickets Held in each place: it *)
(* drops some, moves one to another place, or creates one with a new token. *)
(* Typed and FramesOK are in QuicClientSessionInvariants.                   *)
(***************************************************************************)
EXTENDS QuicClientSessionInvariants, TLAPS

(* Values of the record sets. *)

LEMMA LabelFacts ==
    /\ "idle" \in Labels /\ "enter" \in Labels /\ "claim" \in Labels
    /\ "shutold" \in Labels /\ "push" \in Labels /\ "build" \in Labels
    /\ "publish" \in Labels /\ "start" \in Labels /\ "check" \in Labels
    /\ "sched" \in Labels /\ "submit" \in Labels /\ "submitted" \in Labels
    /\ "release" \in Labels /\ "unclaim" \in Labels /\ "return" \in Labels
    /\ "defer" \in Labels /\ "operate" \in Labels /\ "pinned" \in Labels
    /\ "drain" \in Labels /\ "stopped" \in Labels
BY DEF Labels

LEMMA OpFacts ==
    /\ "none" \in Ops /\ "Start" \in Ops /\ "Reconnect" \in Ops
    /\ "Retry" \in Ops /\ "Remove" \in Ops /\ "Terminal" \in Ops
    /\ "Stop" \in Ops
BY DEF Ops

LEMMA PhaseFacts ==
    /\ "none" \in Phases /\ "opened" \in Phases /\ "started" \in Phases
    /\ "up" \in Phases /\ "down" \in Phases /\ "done" \in Phases
    /\ "idle" \in CallbackLabels /\ "drop" \in CallbackLabels
    /\ "submit" \in CallbackLabels /\ "submitted" \in CallbackLabels
BY DEF Phases, CallbackLabels

LEMMA NoTicketType == NoTicket \in Ticket /\ NoTicket.token = 0
BY SessionAssumption DEF NoTicket, Ticket, Ids

LEMMA NoFrameType == NoFrame \in Frame
BY NoTicketType, LabelFacts, OpFacts, SessionAssumption DEF NoFrame, Frame, Ids

LEMMA NoConnectionType == NoConnection \in ConnRecord
BY NoTicketType, PhaseFacts, SessionAssumption DEF NoConnection, ConnRecord, Ids

LEMMA EmptySlotType == EmptySlot \in SlotRecord
<1>1. 0 \in 0 .. MaxToken /\ 0 \in 0 .. MaxClaim /\ 0 \in Ids
  BY SessionAssumption DEF Ids
<1> QED BY <1>1 DEF EmptySlot, SlotRecord

LEMMA NewSlotType ==
    ASSUME NEW n \in Nat
    PROVE  NewSlot(n) \in SlotRecord /\ NewSlot(n).token = 0
<1>1. EmptySlot.token = 0
  BY Zenon DEF EmptySlot
<1> QED BY Zenon, <1>1, EmptySlotType DEF NewSlot, SlotRecord, Ids

LEMMA StartCallType ==
    ASSUME NEW op \in Ops, NEW a \in 0 .. MaxSlots, NEW b \in 0 .. MaxSlots,
           NEW k \in Ticket
    PROVE  /\ StartCall(op, a, b, k) \in Frame
           /\ StartCall(op, a, b, k).op = op
           /\ StartCall(op, a, b, k).pc = "enter"
           /\ StartCall(op, a, b, k).idx = a
           /\ StartCall(op, a, b, k).ticket = k
BY NoFrameType, LabelFacts, Zenon DEF StartCall, Frame

LEMMA OperationFrameType ==
    ASSUME NEW k \in Ticket
    PROVE  /\ OperationFrame(k) \in Frame
           /\ OperationFrame(k).op = "Terminal"
           /\ OperationFrame(k).pc = "operate"
BY NoFrameType, LabelFacts, OpFacts, Zenon DEF OperationFrame, Frame

LEMMA FrameFields ==
    ASSUME NEW f \in Frame
    PROVE  /\ f.op \in Ops /\ f.pc \in Labels /\ f.idx \in 0 .. MaxSlots
           /\ f.last \in 0 .. MaxSlots /\ f.ticket \in Ticket
           /\ f.claim \in 0 .. MaxClaim /\ f.num \in Nat /\ f.gen \in Nat
           /\ f.conn \in Conns \cup {NoConn} /\ f.old \in Conns \cup {NoConn}
BY DEF Frame, Ids

LEMMA SlotFields ==
    ASSUME NEW s \in SlotRecord
    PROVE  /\ s.conn \in Conns \cup {NoConn} /\ s.num \in Nat
           /\ s.gen \in Nat /\ s.token \in 0 .. MaxToken
BY DEF SlotRecord, Ids

LEMMA ConnFields ==
    ASSUME NEW c \in ConnRecord
    PROVE  /\ c.phase \in Phases /\ c.slot \in 0 .. MaxSlots /\ c.num \in Nat
           /\ c.gen \in Nat /\ c.cb \in CallbackLabels /\ c.ticket \in Ticket
BY DEF ConnRecord, Ids

LEMMA TicketFields ==
    ASSUME NEW k \in Ticket
    PROVE  /\ k.slot \in 0 .. MaxSlots /\ k.num \in Nat /\ k.gen \in Nat
           /\ k.token \in 0 .. MaxToken
BY DEF Ticket, Ids

-----------------------------------------------------------------------------
(* Typed is inductive.  First the shapes of update the actions share. *)

LEMMA GotoType ==
    ASSUME thr \in [Threads -> Frame], NEW t \in Threads, NEW l \in Labels,
           Goto(t, l)
    PROVE  thr' \in [Threads -> Frame]
BY DEF Goto, Frame

LEMMA GiveUpEdit ==
    ASSUME NEW f \in Frame, NEW l \in Labels, NEW k \in Ticket
    PROVE  [f EXCEPT !.pc = l, !.ticket = k] \in Frame
BY Zenon DEF Frame

LEMMA PinEdit ==
    ASSUME NEW f \in Frame, NEW l \in Labels, NEW c \in Conns \cup {NoConn}
    PROVE  [f EXCEPT !.old = c, !.pc = l] \in Frame
BY Zenon DEF Frame

LEMMA GiveUpType ==
    ASSUME thr \in [Threads -> Frame], NEW t \in Threads, GiveUp(t)
    PROVE  thr' \in [Threads -> Frame]
<1>1. [thr[t] EXCEPT !.pc = "release", !.ticket = NoTicket] \in Frame
  BY NoTicketType, LabelFacts, GiveUpEdit, Zenon
<1> QED BY <1>1 DEF GiveUp

LEMMA ShutdownType ==
    ASSUME NEW f \in [Conns -> ConnRecord], NEW C
    PROVE  Shutdown(f, C) \in [Conns -> ConnRecord]
<1>1. \A c \in Conns : [f[c] EXCEPT !.phase = "down"] \in ConnRecord
  BY PhaseFacts DEF ConnRecord
<1> QED BY <1>1 DEF Shutdown

LEMMA DestroyedType ==
    ASSUME NEW f \in [Conns -> ConnRecord], NEW c
    PROVE  Destroyed(f, c) \in [Conns -> ConnRecord]
BY NoConnectionType DEF Destroyed

LEMMA ReservedType ==
    ASSUME nextToken \in 1 .. MaxToken, NEW i \in 0 .. MaxSlots,
           NEW s \in SlotRecord, NEW n \in Nat, NEW g \in Nat
    PROVE  /\ ReservedTicket(i, s, n, g) \in Ticket
           /\ ReservedSlot(s, n, g) \in SlotRecord
           /\ ReservedTicket(i, s, n, g).token # 0 => nextToken < MaxToken
<1>1. ReservedTicket(i, s, n, g) \in Ticket
  BY NoTicketType, SessionAssumption DEF ReservedTicket, Ticket, Ids
<1>2. ReservedSlot(s, n, g) \in SlotRecord
  <2>1. nextToken \in 0 .. MaxToken
    BY SessionAssumption
  <2>2. /\ [s EXCEPT !.token = nextToken] \in SlotRecord
        /\ [s EXCEPT !.failed = TRUE] \in SlotRecord
    BY <2>1, Zenon DEF SlotRecord
  <2> QED BY <2>2 DEF ReservedSlot
<1>3. ReservedTicket(i, s, n, g).token # 0 => nextToken < MaxToken
  BY NoTicketType DEF ReservedTicket
<1> QED BY <1>1, <1>2, <1>3

LEMMA RolledBackType ==
    ASSUME slots \in [Slots -> SlotRecord], count \in 0 .. MaxSlots,
           NEW k \in Ticket, NEW b
    PROVE  RolledBack(k, b) \in [Slots -> SlotRecord]
<1>1. CASE ~b /\ RetryTicketMatchesLocked(k)
  <2>1. k.slot \in Slots
    BY <1>1, SessionAssumption, TicketFields DEF RetryTicketMatchesLocked, Slots
  <2>2. [slots[k.slot] EXCEPT !.token = 0, !.failed = TRUE] \in SlotRecord
    <3>1. 0 \in 0 .. MaxToken
      BY SessionAssumption
    <3>2. slots[k.slot] \in SlotRecord
      BY <2>1, Zenon
    <3> QED BY Zenon, <3>1, <3>2 DEF SlotRecord
  <2> QED BY Zenon, <1>1, <2>1, <2>2 DEF RolledBack
<1>2. CASE ~(~b /\ RetryTicketMatchesLocked(k))
  BY <1>2 DEF RolledBack
<1> QED BY <1>1, <1>2


LEMMA OkEdit ==
    ASSUME NEW f \in Frame, NEW b \in BOOLEAN, NEW l \in Labels
    PROVE  [f EXCEPT !.ok = b, !.pc = l] \in Frame
BY Zenon DEF Frame

LEMMA ClaimEdits ==
    ASSUME NEW f \in Frame, NEW l \in Labels, NEW c \in Conns \cup {NoConn},
           NEW m \in 0 .. MaxClaim, NEW n \in Nat, NEW g \in Nat
    PROVE  /\ [f EXCEPT !.claim = m, !.ticket = NoTicket, !.pc = l] \in Frame
           /\ [f EXCEPT !.claim = m, !.ticket = NoTicket, !.num = n, !.gen = g,
                        !.old = c, !.pc = l] \in Frame
<1>1. [f EXCEPT !.claim = m, !.ticket = NoTicket, !.pc = l] \in Frame
  BY NoTicketType, Zenon DEF Frame
<1>2. [f EXCEPT !.claim = m, !.ticket = NoTicket, !.num = n, !.gen = g,
                !.old = c, !.pc = l] \in Frame
  BY NoTicketType, Zenon DEF Frame, Ids
<1> QED BY <1>1, <1>2, Zenon

(* The actions of StartSlot. *)

LEMMA EnterTyped ==
    ASSUME Typed, NEW t \in Threads, Enter(t)
    PROVE  Typed'
<1>1. thr' \in [Threads -> Frame]
  BY GotoType, LabelFacts DEF Typed, Enter
<1> QED BY <1>1 DEF Typed, Enter

LEMMA ClaimRefusedTyped ==
    ASSUME Typed, NEW t \in Threads, ClaimRefused(t)
    PROVE  Typed'
<1>1. thr' \in [Threads -> Frame]
  BY GiveUpType DEF Typed, ClaimRefused
<1> QED BY <1>1 DEF Typed, ClaimRefused

LEMMA ClaimExhaustedTyped ==
    ASSUME Typed, NEW t \in Threads, ClaimExhausted(t)
    PROVE  Typed'
<1>1. thr' \in [Threads -> Frame]
  BY GiveUpType DEF Typed, ClaimExhausted
<1>2. slots' \in [Slots -> SlotRecord]
  <2> DEFINE i == thr[t].idx
             s == slots[i]
             x == IF thr[t].op = "Retry" THEN 0 ELSE s.token
  <2>1. CASE i \in Slots
    <3>1. s \in SlotRecord
      BY <2>1 DEF Typed
    <3>2. x \in 0 .. MaxToken
      BY <3>1, SlotFields, SessionAssumption
    <3>3. [s EXCEPT !.token = x, !.failed = TRUE] \in SlotRecord
      BY <3>1, <3>2, Zenon DEF SlotRecord
    <3>4. slots' = [slots EXCEPT ![i] = [s EXCEPT !.token = x, !.failed = TRUE]]
      BY <2>1, Zenon DEF ClaimExhausted, Typed
    <3> QED BY Zenon, <3>3, <3>4 DEF Typed
  <2>2. CASE i \notin Slots
    BY <2>2, Zenon DEF Typed, ClaimExhausted
  <2> QED BY <2>1, <2>2
<1> QED BY <1>1, <1>2 DEF Typed, ClaimExhausted

LEMMA ClaimTyped ==
    ASSUME Typed, FramesOK, NEW t \in Threads, Claim(t)
    PROVE  Typed'
<1> DEFINE i == thr[t].idx
           s == slots[i]
<1>1. nextClaim \in 0 .. MaxClaim /\ 0 \in 0 .. MaxToken
      /\ nextClaim + 1 \in 1 .. MaxClaim
  BY SessionAssumption DEF Typed, Claim
<1>2. i \in Slots
  BY DEF Claim, At, FramesOK, FrameOK, StartLabels
<1>3. s \in SlotRecord
  BY <1>2 DEF Typed
<1>4. slots' \in [Slots -> SlotRecord]
  <2>1. [s EXCEPT !.token = 0, !.claim = nextClaim] \in SlotRecord
    BY <1>3, <1>1, Zenon DEF SlotRecord
  <2>2. [[s EXCEPT !.token = 0, !.claim = nextClaim]
           EXCEPT !.conn = NoConn, !.connected = FALSE] \in SlotRecord
    BY <2>1, Zenon DEF SlotRecord
  <2> QED BY <1>2, <2>1, <2>2 DEF Typed, Claim, ClaimedSlot
<1>5. thr' \in [Threads -> Frame]
  <2>1. /\ thr[t] \in Frame /\ s.num \in Nat /\ s.gen \in Nat
        /\ s.conn \in Conns \cup {NoConn}
    BY <1>3, SlotFields DEF Typed
  <2>2. [thr[t] EXCEPT !.claim = nextClaim, !.ticket = NoTicket,
                       !.pc = "release"] \in Frame
    BY <2>1, <1>1, ClaimEdits, LabelFacts, Zenon
  <2>3. \A l \in Labels :
           [thr[t] EXCEPT !.claim = nextClaim, !.ticket = NoTicket,
                          !.num = s.num, !.gen = s.gen, !.old = s.conn,
                          !.pc = l] \in Frame
    BY <2>1, <1>1, ClaimEdits, Zenon
  <2> DEFINE l == IF s.conn = NoConn THEN "build" ELSE "shutold"
             f == [thr[t] EXCEPT !.claim = nextClaim, !.ticket = NoTicket,
                                 !.num = s.num, !.gen = s.gen, !.old = s.conn,
                                 !.pc = l]
  <2>4. l \in Labels
    BY LabelFacts
  <2>5. f \in Frame
    BY <2>3, <2>4, Zenon
  <2>6. \/ thr' = [thr EXCEPT ![t] = [thr[t] EXCEPT !.claim = nextClaim,
                                     !.ticket = NoTicket, !.pc = "release"]]
        \/ thr' = [thr EXCEPT ![t] = f]
    BY Zenon DEF Claim, Typed
  <2> QED BY <2>2, <2>5, <2>6 DEF Typed
<1> QED BY <1>1, <1>4, <1>5 DEF Typed, Claim

LEMMA ShutdownOldTyped ==
    ASSUME Typed, NEW t \in Threads, ShutdownOld(t)
    PROVE  Typed'
<1>1. thr' \in [Threads -> Frame]
  BY GotoType, LabelFacts DEF Typed, ShutdownOld
<1>2. conns' \in [Conns -> ConnRecord]
  BY ShutdownType, Zenon DEF Typed, ShutdownOld
<1> QED BY Zenon, <1>1, <1>2 DEF Typed, ShutdownOld

LEMMA PushOrphanTyped ==
    ASSUME Typed, NEW t \in Threads, PushOrphan(t)
    PROVE  Typed'
<1>1. [thr[t] EXCEPT !.old = NoConn, !.pc = "build"] \in Frame
  BY LabelFacts, Zenon DEF Typed, Frame
<1>2. thr' \in [Threads -> Frame]
  BY <1>1, NoFrameType DEF Typed, PushOrphan
<1> QED BY <1>2 DEF Typed, PushOrphan

LEMMA OpenConnectionTyped ==
    ASSUME Typed, NEW t \in Threads, OpenConnection(t)
    PROVE  Typed'
<1>1. CASE Goto(t, "sched") /\ UNCHANGED conns
  <2>1. thr' \in [Threads -> Frame]
    BY <1>1, GotoType, LabelFacts DEF Typed
  <2> QED BY <1>1, <2>1 DEF Typed, OpenConnection
<1>2. CASE \E c \in Conns :
             /\ conns' = [conns EXCEPT ![c] =
                    [NoConnection EXCEPT !.phase = "opened",
                                         !.slot = thr[t].idx,
                                         !.num = thr[t].num,
                                         !.gen = thr[t].gen]]
             /\ thr' = [thr EXCEPT ![t].conn = c, ![t].pc = "publish"]
  <2>1. PICK c \in Conns :
             /\ conns' = [conns EXCEPT ![c] =
                    [NoConnection EXCEPT !.phase = "opened",
                                         !.slot = thr[t].idx,
                                         !.num = thr[t].num,
                                         !.gen = thr[t].gen]]
             /\ thr' = [thr EXCEPT ![t].conn = c, ![t].pc = "publish"]
    BY <1>2, Zenon
  <2>2. /\ thr[t].idx \in 0 .. MaxSlots /\ thr[t].num \in Nat
        /\ thr[t].gen \in Nat
    BY FrameFields DEF Typed
  <2>3. [NoConnection EXCEPT !.phase = "opened", !.slot = thr[t].idx,
                             !.num = thr[t].num, !.gen = thr[t].gen]
           \in ConnRecord
    BY <2>2, NoConnectionType, PhaseFacts, Zenon DEF ConnRecord, Ids
  <2>4. [thr[t] EXCEPT !.conn = c, !.pc = "publish"] \in Frame
    BY LabelFacts, Zenon DEF Typed, Frame
  <2>5. conns' \in [Conns -> ConnRecord]
    BY <2>1, <2>3 DEF Typed
  <2>6. thr' \in [Threads -> Frame]
    BY <2>1, <2>4, Zenon DEF Typed
  <2> QED BY <2>5, <2>6 DEF Typed, OpenConnection
<1> QED BY Zenon, <1>1, <1>2 DEF OpenConnection

LEMMA PublishTyped ==
    ASSUME Typed, FramesOK, NEW t \in Threads, Publish(t)
    PROVE  Typed'
<1> DEFINE i == thr[t].idx
<1>1. i \in Slots
  BY DEF Publish, At, FramesOK, FrameOK, StartLabels
<1>2. thr[t].conn \in Conns \cup {NoConn}
  BY FrameFields DEF Typed
<1>3. [slots[i] EXCEPT !.conn = thr[t].conn, !.closing = FALSE,
                       !.reserved = FALSE] \in SlotRecord
  <2>1. slots[i] \in SlotRecord
    BY <1>1, Zenon DEF Typed
  <2> QED BY Zenon, <2>1, <1>2 DEF SlotRecord
<1>4. slots' \in [Slots -> SlotRecord]
  BY <1>1, <1>3, Zenon DEF Typed, Publish
<1>5. conns' \in [Conns -> ConnRecord]
  BY DestroyedType DEF Typed, Publish
<1>6. thr' \in [Threads -> Frame]
  <2>1. CASE Goto(t, "start")
    BY <2>1, GotoType, LabelFacts DEF Typed
  <2>2. CASE thr' = [thr EXCEPT ![t].conn = NoConn, ![t].pc = "release"]
    <3>1. [thr[t] EXCEPT !.conn = NoConn, !.pc = "release"] \in Frame
      BY LabelFacts, Zenon DEF Typed, Frame
    <3> QED BY <3>1, <2>2 DEF Typed
  <2> QED BY <2>1, <2>2 DEF Publish
<1> QED BY <1>4, <1>5, <1>6 DEF Typed, Publish

LEMMA StartConnectionTyped ==
    ASSUME Typed, NEW t \in Threads, StartConnection(t)
    PROVE  Typed'
<1>1. PICK b \in BOOLEAN :
          /\ conns' = IF b THEN [conns EXCEPT ![thr[t].conn].phase = "started"]
                      ELSE conns
          /\ thr' = [thr EXCEPT ![t].ok = b, ![t].pc = "check"]
  BY Zenon DEF StartConnection
<1>2. \A c \in Conns : [conns[c] EXCEPT !.phase = "started"] \in ConnRecord
  BY PhaseFacts DEF Typed, ConnRecord
<1>3. conns' \in [Conns -> ConnRecord]
  BY <1>1, <1>2, Zenon DEF Typed
<1>4. [thr[t] EXCEPT !.ok = b, !.pc = "check"] \in Frame
  BY LabelFacts, OkEdit, Zenon DEF Typed
<1>5. thr' \in [Threads -> Frame]
  BY <1>1, <1>4 DEF Typed
<1> QED BY <1>3, <1>5 DEF Typed, StartConnection

LEMMA CheckStartTyped ==
    ASSUME Typed, FramesOK, NEW t \in Threads, CheckStart(t)
    PROVE  Typed'
<1> DEFINE i == thr[t].idx
<1>1. i \in Slots
  BY DEF CheckStart, At, FramesOK, FrameOK, StartLabels
<1>2. [slots[i] EXCEPT !.conn = NoConn] \in SlotRecord
  BY <1>1 DEF Typed, SlotRecord
<1>3. slots' \in [Slots -> SlotRecord]
  BY <1>1, <1>2 DEF Typed, CheckStart
<1>4. conns' \in [Conns -> ConnRecord]
  BY DestroyedType DEF Typed, CheckStart
<1>5. /\ [thr[t] EXCEPT !.conn = NoConn, !.pc = "sched"] \in Frame
      /\ [thr[t] EXCEPT !.conn = NoConn, !.pc = "release"] \in Frame
  BY LabelFacts, Zenon DEF Typed, Frame
<1>6. \E l \in {"sched", "release"} :
         thr' = [thr EXCEPT ![t] = [thr[t] EXCEPT !.conn = NoConn, !.pc = l]]
  BY Zenon DEF CheckStart, Typed
<1>7. thr' \in [Threads -> Frame]
  BY <1>5, <1>6, Zenon DEF Typed
<1> QED BY <1>3, <1>4, <1>7 DEF Typed, CheckStart

LEMMA ScheduleStartRetryTyped ==
    ASSUME Typed, FramesOK, NEW t \in Threads, ScheduleStartRetry(t)
    PROVE  Typed'
<1> DEFINE i == thr[t].idx
           present == Running /\ i <= count
           k == IF present
                THEN ReservedTicket(i, slots[i], thr[t].num, thr[t].gen)
                ELSE NoTicket
           l == IF k.token = 0 THEN "release" ELSE "submit"
<1>1. i \in Slots
  BY DEF ScheduleStartRetry, At, FramesOK, FrameOK, StartLabels
<1>2. /\ slots[i] \in SlotRecord /\ i \in 0 .. MaxSlots /\ thr[t] \in Frame
      /\ thr[t].num \in Nat /\ thr[t].gen \in Nat
      /\ nextToken \in 1 .. MaxToken
  BY <1>1, FrameFields DEF Typed
<1>3. /\ k \in Ticket
      /\ ReservedSlot(slots[i], thr[t].num, thr[t].gen) \in SlotRecord
      /\ k.token # 0 => nextToken < MaxToken
  BY <1>2, ReservedType, NoTicketType, Zenon
<1>4. slots' \in [Slots -> SlotRecord]
  BY <1>1, <1>3 DEF Typed, ScheduleStartRetry
<1>5. l \in Labels
  BY LabelFacts
<1>6. [thr[t] EXCEPT !.ticket = k, !.pc = l] \in Frame
  BY <1>2, <1>3, <1>5, Zenon DEF Frame
<1>7. thr' = [thr EXCEPT ![t] = [thr[t] EXCEPT !.ticket = k, !.pc = l]]
  BY Zenon DEF ScheduleStartRetry, Typed
<1>8. thr' \in [Threads -> Frame]
  BY <1>6, <1>7 DEF Typed
<1>9. nextToken' = IF k.token = 0 THEN nextToken ELSE nextToken + 1
  BY DEF ScheduleStartRetry, TokenAfterReserve
<1>10. nextToken' \in 1 .. MaxToken
  BY <1>2, <1>3, <1>9, SessionAssumption
<1> QED BY <1>4, <1>8, <1>10 DEF Typed, ScheduleStartRetry

LEMMA SubmitRetryTyped ==
    ASSUME Typed, NEW t \in Threads, SubmitRetry(t)
    PROVE  Typed'
<1>1. PICK b \in BOOLEAN :
          /\ tasks' = IF b THEN tasks \cup {thr[t].ticket} ELSE tasks
          /\ thr' = [thr EXCEPT ![t].ok = b, ![t].pc = "submitted"]
  BY Zenon DEF SubmitRetry
<1>2. thr[t].ticket \in Ticket
  BY FrameFields DEF Typed
<1>3. tasks' \subseteq Ticket
  BY <1>1, <1>2 DEF Typed
<1>4. [thr[t] EXCEPT !.ok = b, !.pc = "submitted"] \in Frame
  BY LabelFacts, OkEdit, Zenon DEF Typed
<1>5. thr' \in [Threads -> Frame]
  BY <1>1, <1>4 DEF Typed
<1> QED BY <1>3, <1>5 DEF Typed, SubmitRetry

LEMMA SubmitEndTyped ==
    ASSUME Typed, NEW t \in Threads, SubmitEnd(t)
    PROVE  Typed'
<1>1. thr' \in [Threads -> Frame]
  BY GiveUpType DEF Typed, SubmitEnd
<1>2. thr[t].ticket \in Ticket
  BY FrameFields DEF Typed
<1>3. slots' \in [Slots -> SlotRecord]
  BY <1>2, RolledBackType DEF Typed, SubmitEnd
<1> QED BY <1>1, <1>3 DEF Typed, SubmitEnd

LEMMA ReleaseTyped ==
    ASSUME Typed, NEW t \in Threads, Release(t)
    PROVE  Typed'
<1>1. thr' \in [Threads -> Frame]
  BY GotoType, LabelFacts DEF Typed, Release
<1> QED BY <1>1 DEF Typed, Release

LEMMA UnclaimTyped ==
    ASSUME Typed, FramesOK, NEW t \in Threads, Unclaim(t)
    PROVE  Typed'
<1> DEFINE i == thr[t].idx
<1>1. thr' \in [Threads -> Frame]
  BY GotoType, LabelFacts DEF Typed, Unclaim
<1>2. i \in Slots
  BY DEF Unclaim, At, FramesOK, FrameOK, StartLabels
<1>3. 0 \in 0 .. MaxClaim
  BY SessionAssumption
<1>4. [slots[i] EXCEPT !.claim = 0] \in SlotRecord
  BY <1>2, <1>3 DEF Typed, SlotRecord
<1>5. slots' \in [Slots -> SlotRecord]
  BY <1>2, <1>4 DEF Typed, Unclaim
<1> QED BY <1>1, <1>5 DEF Typed, Unclaim

LEMMA ReturnTyped ==
    ASSUME Typed, NEW t \in Threads, Return(t)
    PROVE  Typed'
<1>1. /\ thr[t].idx \in 0 .. MaxSlots /\ thr[t].last \in 0 .. MaxSlots
  BY FrameFields DEF Typed
<1>2. thr[t].idx < thr[t].last
         => StartCall("Start", thr[t].idx + 1, thr[t].last, NoTicket) \in Frame
  <2>1. thr[t].idx < thr[t].last => thr[t].idx + 1 \in 0 .. MaxSlots
    BY <1>1, SessionAssumption
  <2> QED BY <2>1, <1>1, StartCallType, NoTicketType, OpFacts
<1>3. thr' \in [Threads -> Frame]
  BY <1>2, NoFrameType DEF Typed, Return
<1> QED BY <1>3 DEF Typed, Return

(* The caller's operations, the tasks and the callbacks. *)

LEMMA StartTyped ==
    ASSUME Typed, Start
    PROVE  Typed'
<1>1. InitSlots \in 0 .. MaxSlots /\ 1 \in 0 .. MaxSlots /\ InitSlots + 1 \in Nat
  BY SessionAssumption
<1>2. "caller" \in Threads
  BY DEF Threads
<1>3. StartCall("Start", 1, InitSlots, NoTicket) \in Frame
  BY <1>1, StartCallType, NoTicketType, OpFacts
<1>4. thr' \in [Threads -> Frame]
  BY <1>2, <1>3 DEF Typed, Start
<1>5. \A i \in Slots : NewSlot(i) \in SlotRecord
  BY NewSlotType, SessionAssumption DEF Slots
<1>6. slots' \in [Slots -> SlotRecord]
  BY <1>5, EmptySlotType DEF Start
<1> QED BY <1>1, <1>4, <1>6 DEF Typed, Start

LEMMA ReconnectSlotTyped ==
    ASSUME Typed, NEW i \in Slots, ReconnectSlot(i)
    PROVE  Typed'
<1>1. i \in 0 .. MaxSlots /\ 0 \in 0 .. MaxToken
  BY SessionAssumption DEF Slots
<1>2. "caller" \in Threads
  BY DEF Threads
<1>3. StartCall("Reconnect", i, i, NoTicket) \in Frame
  BY <1>1, StartCallType, NoTicketType, OpFacts
<1>4. thr' \in [Threads -> Frame]
  BY <1>2, <1>3 DEF Typed, ReconnectSlot
<1>5. /\ slots[i] \in SlotRecord
      /\ slots[i].gen + 1 \in Ids /\ nextNum \in Ids
  BY SlotFields DEF Typed, Ids
<1>6. [slots[i] EXCEPT !.connected = FALSE, !.closing = TRUE, !.token = 0,
                       !.gen = slots[i].gen + 1, !.num = nextNum,
                       !.reserved = FALSE] \in SlotRecord
  BY <1>1, <1>5, Zenon DEF SlotRecord
<1>7. slots' = [slots EXCEPT ![i] =
          [slots[i] EXCEPT !.connected = FALSE, !.closing = TRUE, !.token = 0,
                           !.gen = slots[i].gen + 1, !.num = nextNum,
                           !.reserved = FALSE]]
  BY Zenon DEF ReconnectSlot, Typed
<1>8. slots' \in [Slots -> SlotRecord]
  BY <1>6, <1>7 DEF Typed
<1>9. nextNum' \in Nat
  BY DEF Typed, ReconnectSlot
<1> QED BY <1>4, <1>8, <1>9 DEF Typed, ReconnectSlot

LEMMA SetDesiredTyped ==
    ASSUME Typed, NEW d \in Slots, SetDesiredConnectionCount(d)
    PROVE  Typed'
<1>1. /\ d \in 0 .. MaxSlots /\ count + 1 \in 0 .. MaxSlots
      /\ nextNum + (d - count) \in Nat /\ count \in 0 .. MaxSlots
  BY SessionAssumption DEF Slots, Typed, SetDesiredConnectionCount
<1>2. "caller" \in Threads
  BY DEF Threads
<1>3. StartCall("Start", count + 1, d, NoTicket) \in Frame
  BY <1>1, StartCallType, NoTicketType, OpFacts
<1>4. thr' \in [Threads -> Frame]
  BY <1>2, <1>3 DEF Typed, SetDesiredConnectionCount
<1>5. \A i \in count + 1 .. d : nextNum + (i - count) - 1 \in Nat
  BY <1>1 DEF Typed
<1>6. \A i \in count + 1 .. d : NewSlot(nextNum + (i - count) - 1) \in SlotRecord
  BY <1>5, NewSlotType
<1>7. slots' \in [Slots -> SlotRecord]
  BY <1>6 DEF Typed, SetDesiredConnectionCount
<1> QED BY <1>1, <1>4, <1>7 DEF Typed, SetDesiredConnectionCount

LEMMA StopHighestTyped ==
    ASSUME Typed, StopHighestConnection
    PROVE  Typed'
<1> DEFINE c == slots[count].conn
<1>1. count \in Slots /\ count - 1 \in 0 .. MaxSlots /\ "caller" \in Threads
  BY SessionAssumption DEF Typed, StopHighestConnection, Slots, Threads
<1>2. c \in Conns \cup {NoConn}
  BY <1>1, SlotFields DEF Typed
<1>3. [NoFrame EXCEPT !.op = "Remove", !.pc = "shutold", !.old = c] \in Frame
  BY <1>2, NoFrameType, LabelFacts, OpFacts, Zenon DEF Frame
<1>4. thr' \in [Threads -> Frame]
  BY <1>1, <1>3, NoFrameType DEF Typed, StopHighestConnection
<1>5. slots' \in [Slots -> SlotRecord]
  BY <1>1, EmptySlotType DEF Typed, StopHighestConnection
<1> QED BY <1>1, <1>4, <1>5 DEF Typed, StopHighestConnection

LEMMA StopGateTyped ==
    ASSUME Typed, StopGate
    PROVE  Typed'
<1>1. "caller" \in Threads
  BY DEF Threads
<1>2. [thr["caller"] EXCEPT !.op = "Stop", !.pc = "drain"] \in Frame
  BY <1>1, LabelFacts, OpFacts, Zenon DEF Typed, Frame
<1>3. thr' \in [Threads -> Frame]
  BY <1>1, <1>2 DEF Typed, StopGate
<1> QED BY <1>3 DEF Typed, StopGate

LEMMA StopSessionTyped ==
    ASSUME Typed, StopSession
    PROVE  Typed'
<1>1. "caller" \in Threads /\ 0 \in 0 .. MaxSlots
  BY SessionAssumption DEF Threads
<1>2. thr' \in [Threads -> Frame]
  BY <1>1, GotoType, LabelFacts DEF Typed, StopSession
<1>3. conns' \in [Conns -> ConnRecord]
  BY ShutdownType DEF Typed, StopSession
<1>4. slots' \in [Slots -> SlotRecord]
  BY EmptySlotType DEF StopSession
<1> QED BY <1>1, <1>2, <1>3, <1>4 DEF Typed, StopSession

LEMMA RunRetryTyped ==
    ASSUME Typed, NEW k \in tasks, RunRetry(k)
    PROVE  Typed'
<1>1. k \in Ticket /\ k.slot \in 0 .. MaxSlots /\ "reactor" \in Threads
  BY TicketFields DEF Typed, Threads
<1>2. StartCall("Retry", k.slot, k.slot, k) \in Frame
  BY <1>1, StartCallType, OpFacts
<1>3. thr' \in [Threads -> Frame]
  BY <1>1, <1>2 DEF Typed, RunRetry
<1> QED BY <1>3 DEF Typed, RunRetry

LEMMA RunOperationTyped ==
    ASSUME Typed, NEW k \in tasks, RunOperation(k)
    PROVE  Typed'
<1>1. k \in Ticket /\ "reactor" \in Threads
  BY DEF Typed, Threads
<1>2. thr' \in [Threads -> Frame]
  BY <1>1, OperationFrameType DEF Typed, RunOperation
<1> QED BY <1>2 DEF Typed, RunOperation

LEMMA EscalateTyped ==
    ASSUME Typed, NEW c \in Conns, Escalate(c)
    PROVE  Typed'
<1> DEFINE i == conns[c].slot
           k == [slot |-> i, num |-> conns[c].num, gen |-> conns[c].gen,
                 token |-> 0]
<1>1. /\ i \in 0 .. MaxSlots /\ conns[c].num \in Nat /\ conns[c].gen \in Nat
      /\ "terminal" \in Threads /\ 0 \in 0 .. MaxToken
  BY ConnFields, SessionAssumption DEF Typed, Threads
<1>2. i \in Slots
  BY <1>1 DEF Escalate, Typed, Slots
<1>3. k \in Ticket
  BY <1>1 DEF Ticket, Ids
<1>4. [OperationFrame(k) EXCEPT !.pc = "defer"] \in Frame
  BY <1>3, OperationFrameType, LabelFacts DEF Frame
<1>5. thr' \in [Threads -> Frame]
  BY <1>1, <1>4 DEF Typed, Escalate
<1>6. slots[i] \in SlotRecord
  BY <1>2 DEF Typed
<1>7. [slots[i] EXCEPT !.reserved = TRUE, !.closing = TRUE] \in SlotRecord
  BY <1>6, Zenon DEF SlotRecord
<1>8. slots' \in [Slots -> SlotRecord]
  BY <1>2, <1>7, Zenon DEF Typed, Escalate
<1> QED BY <1>5, <1>8 DEF Typed, Escalate

LEMMA DeferTyped ==
    ASSUME Typed, Defer
    PROVE  Typed'
<1>1. "terminal" \in Threads
  BY DEF Threads
<1>2. thr["terminal"].ticket \in Ticket
  BY <1>1, FrameFields DEF Typed
<1>3. tasks' \subseteq Ticket
  BY <1>2 DEF Typed, Defer
<1>4. CASE thr' = [thr EXCEPT !["terminal"] = NoFrame]
  <2>1. thr' \in [Threads -> Frame]
    BY <1>4, NoFrameType, Zenon DEF Typed
  <2> QED BY <1>3, <2>1 DEF Typed, Defer
<1>5. CASE Goto("terminal", "operate")
  <2>1. thr' \in [Threads -> Frame]
    BY <1>1, <1>5, GotoType, LabelFacts DEF Typed
  <2> QED BY <1>3, <2>1 DEF Typed, Defer
<1> QED BY <1>4, <1>5 DEF Defer

LEMMA PinForShutdownTyped ==
    ASSUME Typed, NEW t \in Threads, PinForShutdown(t)
    PROVE  Typed'
<1> DEFINE k == thr[t].ticket
           c == IF ReservationHolds(k) THEN slots[k.slot].conn ELSE NoConn
<1>1. c \in Conns \cup {NoConn}
  <2>1. CASE ReservationHolds(k)
    <3>1. k.slot \in Slots
      BY <2>1, SessionAssumption DEF ReservationHolds, Typed, Slots
    <3> QED BY <3>1, <2>1, SlotFields DEF Typed
  <2>2. CASE ~ReservationHolds(k)
    BY <2>2
  <2> QED BY <2>1, <2>2
<1>2. [thr[t] EXCEPT !.old = c, !.pc = "pinned"] \in Frame
  <2>1. thr[t] \in Frame /\ "pinned" \in Labels
    BY LabelFacts DEF Typed
  <2> HIDE DEF c
  <2> QED BY <1>1, <2>1, PinEdit, Zenon
<1>3. thr' \in [Threads -> Frame]
  BY <1>2, NoFrameType DEF Typed, PinForShutdown
<1> QED BY <1>3 DEF Typed, PinForShutdown

LEMMA ShutdownPinnedTyped ==
    ASSUME Typed, NEW t \in Threads, ShutdownPinned(t)
    PROVE  Typed'
<1>1. thr' \in [Threads -> Frame]
  BY NoFrameType DEF Typed, ShutdownPinned
<1>2. conns' \in [Conns -> ConnRecord]
  BY ShutdownType DEF Typed, ShutdownPinned
<1> QED BY <1>1, <1>2 DEF Typed, ShutdownPinned

LEMMA OnSlotConnectedTyped ==
    ASSUME Typed, NEW c \in Conns, OnSlotConnected(c)
    PROVE  Typed'
<1> DEFINE i == conns[c].slot
<1>1. [conns[c] EXCEPT !.phase = "up"] \in ConnRecord
  BY PhaseFacts DEF Typed, ConnRecord
<1>2. conns' \in [Conns -> ConnRecord]
  BY <1>1 DEF Typed, OnSlotConnected
<1>3. slots' \in [Slots -> SlotRecord]
  <2>1. CASE IsSlotOf(c, i)
    <3>1. i \in Slots /\ 0 \in 0 .. MaxToken
      BY <2>1, SessionAssumption DEF IsSlotOf, Typed, Slots
    <3>2. slots[i] \in SlotRecord
      BY <3>1 DEF Typed
    <3>3. [slots[i] EXCEPT !.connected = TRUE, !.token = 0] \in SlotRecord
      BY <3>1, <3>2, Zenon DEF SlotRecord
    <3> QED BY Zenon, <2>1, <3>1, <3>3 DEF Typed, OnSlotConnected
  <2>2. CASE ~IsSlotOf(c, i)
    BY <2>2 DEF Typed, OnSlotConnected
  <2> QED BY <2>1, <2>2
<1> QED BY <1>2, <1>3 DEF Typed, OnSlotConnected

LEMMA OnSlotDisconnectedTyped ==
    ASSUME Typed, NEW c \in Conns, OnSlotDisconnected(c)
    PROVE  Typed'
<1> DEFINE i == conns[c].slot
<1>1. [conns[c] EXCEPT !.phase = "down"] \in ConnRecord
  BY PhaseFacts DEF Typed, ConnRecord
<1>2. conns' \in [Conns -> ConnRecord]
  BY <1>1 DEF Typed, OnSlotDisconnected
<1>3. slots' \in [Slots -> SlotRecord]
  <2>1. CASE i \in 1 .. count
    <3>1. i \in Slots
      BY <2>1, SessionAssumption DEF Typed, Slots
    <3>2. slots[i] \in SlotRecord
      BY <3>1 DEF Typed
    <3>3. [slots[i] EXCEPT !.connected = FALSE, !.closing = TRUE] \in SlotRecord
      BY <3>2, Zenon DEF SlotRecord
    <3> QED BY Zenon, <2>1, <3>1, <3>3 DEF Typed, OnSlotDisconnected
  <2>2. CASE i \notin 1 .. count
    BY <2>2 DEF Typed, OnSlotDisconnected
  <2> QED BY <2>1, <2>2
<1> QED BY <1>2, <1>3 DEF Typed, OnSlotDisconnected

LEMMA CompleteTyped ==
    ASSUME Typed, NEW c \in Conns, CompleteSlotShutdownLocked(c)
    PROVE  Typed'
<1> DEFINE i == conns[c].slot
           down == [slots[i] EXCEPT !.conn = NoConn, !.connected = FALSE,
                                    !.closing = TRUE]
           current == IsSlotOf(c, i)
           k == IF current /\ Running
                THEN ReservedTicket(i, down, conns[c].num, conns[c].gen)
                ELSE NoTicket
<1>1. /\ conns[c] \in ConnRecord /\ i \in 0 .. MaxSlots
      /\ conns[c].num \in Nat /\ conns[c].gen \in Nat
      /\ nextToken \in 1 .. MaxToken
  BY ConnFields DEF Typed
<1>2. current => i \in Slots
  BY SessionAssumption DEF IsSlotOf, Typed, Slots
<1>3. current => down \in SlotRecord
  <2>1. current => slots[i] \in SlotRecord
    BY <1>2, Zenon DEF Typed
  <2> QED BY Zenon, <2>1 DEF SlotRecord
<1>4. /\ k \in Ticket
      /\ current => ReservedSlot(down, conns[c].num, conns[c].gen) \in SlotRecord
      /\ k.token # 0 => nextToken < MaxToken
  <2>1. CASE current
    BY <2>1, <1>1, <1>3, ReservedType, NoTicketType, Zenon
  <2>2. CASE ~current
    BY <2>2, NoTicketType
  <2> QED BY <2>1, <2>2
<1>5. slots' \in [Slots -> SlotRecord]
  BY <1>2, <1>3, <1>4 DEF Typed, CompleteSlotShutdownLocked
<1>6. [conns[c] EXCEPT !.cb = "drop", !.ticket = k] \in ConnRecord
  BY <1>1, <1>4, PhaseFacts, Zenon DEF ConnRecord
<1>7. conns' = [conns EXCEPT ![c] = [conns[c] EXCEPT !.cb = "drop", !.ticket = k]]
  BY Zenon DEF CompleteSlotShutdownLocked, Typed
<1>8. conns' \in [Conns -> ConnRecord]
  BY <1>6, <1>7 DEF Typed
<1>9. nextToken' = IF k.token = 0 THEN nextToken ELSE nextToken + 1
  BY DEF CompleteSlotShutdownLocked, TokenAfterReserve
<1>10. nextToken' \in 1 .. MaxToken
  BY <1>1, <1>4, <1>9, SessionAssumption
<1> QED BY <1>5, <1>8, <1>10 DEF Typed, CompleteSlotShutdownLocked

LEMMA CallbackEdit ==
    ASSUME NEW r \in ConnRecord, NEW p \in Phases, NEW l \in CallbackLabels,
           NEW k \in Ticket
    PROVE  /\ [r EXCEPT !.phase = p, !.cb = l, !.ticket = k] \in ConnRecord
           /\ [r EXCEPT !.cb = l, !.ticket = k] \in ConnRecord
BY Zenon DEF ConnRecord

LEMMA DropOrphanedTyped ==
    ASSUME Typed, NEW c \in Conns, DropOrphanedConnection(c)
    PROVE  Typed'
<1>1. conns[c] \in ConnRecord /\ conns[c].ticket \in Ticket
  BY ConnFields DEF Typed
<1>2. PICK l \in CallbackLabels, k \in Ticket :
         conns' = [conns EXCEPT ![c] = [conns[c] EXCEPT !.phase = "done",
                                           !.cb = l, !.ticket = k]]
  BY <1>1, NoTicketType, PhaseFacts, Zenon DEF DropOrphanedConnection, Typed
<1>3. conns' \in [Conns -> ConnRecord]
  BY <1>1, <1>2, CallbackEdit, PhaseFacts, Zenon DEF Typed
<1> QED BY <1>3 DEF Typed, DropOrphanedConnection

LEMMA CallbackSubmitTyped ==
    ASSUME Typed, NEW c \in Conns, CallbackSubmit(c)
    PROVE  Typed'
<1>1. conns[c] \in ConnRecord /\ conns[c].ticket \in Ticket
  BY ConnFields DEF Typed
<1>2. PICK l \in CallbackLabels, k \in Ticket :
         conns' = [conns EXCEPT ![c] = [conns[c] EXCEPT !.cb = l, !.ticket = k]]
  <2>1. PICK b \in BOOLEAN :
           conns' = [conns EXCEPT
                 ![c].cb = IF b THEN "idle" ELSE "submitted",
                 ![c].ticket = IF b THEN NoTicket ELSE @]
    BY Zenon DEF CallbackSubmit
  <2>2. CASE b
    BY <2>1, <2>2, NoTicketType, PhaseFacts, Zenon DEF Typed
  <2>3. CASE ~b
    BY <2>1, <2>3, <1>1, PhaseFacts, Zenon DEF Typed
  <2> QED BY Zenon, <2>2, <2>3
<1>3. conns' \in [Conns -> ConnRecord]
  BY <1>1, <1>2, CallbackEdit, PhaseFacts, Zenon DEF Typed
<1>4. tasks' \subseteq Ticket
  BY <1>1 DEF Typed, CallbackSubmit
<1> QED BY <1>3, <1>4 DEF Typed, CallbackSubmit

LEMMA CallbackSubmitEndTyped ==
    ASSUME Typed, NEW c \in Conns, CallbackSubmitEnd(c)
    PROVE  Typed'
<1>1. conns[c] \in ConnRecord /\ conns[c].ticket \in Ticket
  BY ConnFields DEF Typed
<1>2. [conns[c] EXCEPT !.cb = "idle", !.ticket = NoTicket] \in ConnRecord
  BY <1>1, CallbackEdit, PhaseFacts, NoTicketType, Zenon
<1>3. conns' \in [Conns -> ConnRecord]
  BY <1>2 DEF Typed, CallbackSubmitEnd
<1>4. slots' \in [Slots -> SlotRecord]
  BY <1>1, RolledBackType, Zenon DEF Typed, CallbackSubmitEnd
<1> QED BY Zenon, <1>3, <1>4 DEF Typed, CallbackSubmitEnd

LEMMA FreeTyped ==
    ASSUME Typed, NEW c \in Conns, Free(c)
    PROVE  Typed'
<1>1. conns' \in [Conns -> ConnRecord]
  BY NoConnectionType DEF Typed, Free
<1> QED BY <1>1 DEF Typed, Free

LEMMA TypedInit == Init => Typed
<1> SUFFICES ASSUME Init PROVE Typed
  OBVIOUS
<1>1. slots \in [Slots -> SlotRecord]
  BY EmptySlotType DEF Init
<1>2. conns \in [Conns -> ConnRecord]
  BY NoConnectionType DEF Init
<1>3. thr \in [Threads -> Frame]
  BY NoFrameType DEF Init
<1> QED BY <1>1, <1>2, <1>3, SessionAssumption DEF Init, Typed

LEMMA TypedStep ==
    ASSUME Typed, FramesOK, [Next]_vars
    PROVE  Typed'
<1>1. ASSUME NEW t \in Threads, StartSlotStep(t)
      PROVE  Typed'
  BY <1>1, Zenon, EnterTyped, ClaimRefusedTyped, ClaimExhaustedTyped, ClaimTyped,
     ShutdownOldTyped, PushOrphanTyped, OpenConnectionTyped, PublishTyped,
     StartConnectionTyped, CheckStartTyped, ScheduleStartRetryTyped,
     SubmitRetryTyped, SubmitEndTyped, ReleaseTyped, UnclaimTyped, ReturnTyped
     DEF StartSlotStep
<1>2. ASSUME CallerStep
      PROVE  Typed'
  BY <1>2, Zenon, StartTyped, ReconnectSlotTyped, SetDesiredTyped,
     StopHighestTyped, StopGateTyped, StopSessionTyped DEF CallerStep
<1>3. ASSUME TaskStep
      PROVE  Typed'
  BY <1>3, Zenon, RunRetryTyped, RunOperationTyped, EscalateTyped, DeferTyped,
     PinForShutdownTyped, ShutdownPinnedTyped DEF TaskStep
<1>4. ASSUME NEW c \in Conns, CallbackStep(c)
      PROVE  Typed'
  BY <1>4, Zenon, OnSlotConnectedTyped, OnSlotDisconnectedTyped, CompleteTyped,
     DropOrphanedTyped, CallbackSubmitTyped, CallbackSubmitEndTyped, FreeTyped
     DEF CallbackStep
<1>5. CASE UNCHANGED vars
  BY <1>5 DEF vars, state, Typed
<1> QED BY <1>1, <1>2, <1>3, <1>4, <1>5, Zenon DEF Next, Step

-----------------------------------------------------------------------------
(* Frames. *)

\* The reserved retries: their tokens were handed out, they name a slot, and
\* no token is held twice.
TokenInv ==
    /\ \A p \in Places : \A k \in Held(p) :
          k.token \in 1 .. nextToken - 1 /\ k.slot \in Slots
    /\ \A p, q \in Places : \A k \in Held(p), j \in Held(q) :
          k.token = j.token => p = q /\ k = j

LEMMA FramesInit == Init => FramesOK
BY DEF Init, FramesOK, FrameOK, NoFrame, StartOps, StartLabels

\* A step of thread t that stays within its StartSlot.
LEMMA StartMove ==
    ASSUME FramesOK, NEW t \in Threads, thr[t].pc \in StartLabels,
           thr'[t].op = thr[t].op, thr'[t].idx = thr[t].idx,
           thr'[t].pc # "defer",
           \A u \in Threads \ {t} : thr'[u] = thr[u]
    PROVE  FramesOK'
BY DEF FramesOK, FrameOK

LEMMA GotoMove ==
    ASSUME Typed, FramesOK, NEW t \in Threads, thr[t].pc \in StartLabels,
           NEW l \in StartLabels, Goto(t, l)
    PROVE  FramesOK'
<1>1. /\ thr'[t].op = thr[t].op /\ thr'[t].idx = thr[t].idx
      /\ thr'[t].pc = l
      /\ \A u \in Threads \ {t} : thr'[u] = thr[u]
  BY DEF Typed, Frame, Goto
<1>2. l # "defer"
  BY DEF StartLabels
<1> QED BY <1>1, <1>2, StartMove

LEMMA StartSlotFrames ==
    ASSUME Typed, FramesOK, NEW t \in Threads, StartSlotStep(t)
    PROVE  FramesOK'
<1> USE DEF FramesOK, FrameOK, StartOps, StartLabels, At
<1>1. CASE Enter(t)
  <2>1. thr[t].pc \in StartLabels /\ "claim" \in StartLabels
        /\ "return" \in StartLabels
    BY <1>1 DEF Enter
  <2> QED BY <1>1, <2>1, GotoMove DEF Enter
<1>2. CASE ClaimRefused(t)
  BY <1>2 DEF Typed, ClaimRefused, GiveUp
<1>3. CASE ClaimExhausted(t)
  BY <1>3 DEF Typed, ClaimExhausted, GiveUp
<1>4. CASE Claim(t)
  <2> DEFINE i == thr[t].idx
             s == slots[i]
             l == IF s.conn = NoConn THEN "build" ELSE "shutold"
  <2>1. thr[t].pc \in StartLabels /\ l # "defer"
    BY <1>4, Zenon DEF Claim
  <2>2. CASE thr' = [thr EXCEPT ![t].claim = nextClaim, ![t].ticket = NoTicket,
                                ![t].pc = "release"]
    <3>1. /\ thr'[t].op = thr[t].op /\ thr'[t].idx = thr[t].idx
          /\ thr'[t].pc # "defer"
          /\ \A u \in Threads \ {t} : thr'[u] = thr[u]
      BY <2>2 DEF Typed, Frame
    <3> QED BY <2>1, <3>1, StartMove
  <2>3. CASE thr' = [thr EXCEPT ![t].claim = nextClaim, ![t].ticket = NoTicket,
                                ![t].num = s.num, ![t].gen = s.gen,
                                ![t].old = s.conn, ![t].pc = l]
    <3>1. /\ thr'[t].op = thr[t].op /\ thr'[t].idx = thr[t].idx
          /\ thr'[t].pc # "defer"
          /\ \A u \in Threads \ {t} : thr'[u] = thr[u]
      <4> HIDE DEF l, s
      <4>0. PICK h : h = [thr[t] EXCEPT !.claim = nextClaim, !.ticket = NoTicket,
                                        !.num = s.num, !.gen = s.gen,
                                        !.old = s.conn, !.pc = l]
        OBVIOUS
      <4>1. thr[t] \in Frame
        BY DEF Typed
      <4>2. h.op = thr[t].op /\ h.idx = thr[t].idx /\ h.pc = l
        BY <4>0, <4>1 DEF Frame
      <4>3. thr' = [thr EXCEPT ![t] = h]
        BY <2>3, <4>0, Zenon
      <4> QED BY <2>1, <4>2, <4>3 DEF Typed
    <3> QED BY <2>1, <3>1, StartMove
  <2> QED BY Zenon, <1>4, <2>2, <2>3 DEF Claim
<1>5. CASE ShutdownOld(t)
  BY <1>5 DEF Typed, ShutdownOld, Goto
<1>6. CASE PushOrphan(t)
  BY <1>6 DEF Typed, PushOrphan, NoFrame
<1>7. CASE OpenConnection(t)
  <2>1. thr[t].pc \in StartLabels /\ "sched" \in StartLabels
    BY <1>7 DEF OpenConnection
  <2>2. CASE Goto(t, "sched")
    BY <2>1, <2>2, GotoMove
  <2>3. CASE \E c \in Conns : thr' = [thr EXCEPT ![t].conn = c, ![t].pc = "publish"]
    <3>1. PICK c \in Conns : thr' = [thr EXCEPT ![t].conn = c, ![t].pc = "publish"]
      BY <2>3, Zenon
    <3>2. /\ thr'[t].op = thr[t].op /\ thr'[t].idx = thr[t].idx
          /\ thr'[t].pc # "defer"
      BY <3>1 DEF Typed, Frame
    <3>3. \A u \in Threads \ {t} : thr'[u] = thr[u]
      BY <3>1, Zenon DEF Typed
    <3> QED BY <2>1, <3>2, <3>3, StartMove
  <2> QED BY Zenon, <1>7, <2>2, <2>3 DEF OpenConnection
<1>8. CASE Publish(t)
  <2>1. thr[t].pc \in StartLabels /\ "start" \in StartLabels
    BY <1>8 DEF Publish
  <2>2. CASE Goto(t, "start")
    BY <2>1, <2>2, GotoMove
  <2>3. CASE thr' = [thr EXCEPT ![t].conn = NoConn, ![t].pc = "release"]
    <3>1. /\ thr'[t].op = thr[t].op /\ thr'[t].idx = thr[t].idx
          /\ thr'[t].pc # "defer"
          /\ \A u \in Threads \ {t} : thr'[u] = thr[u]
      BY <2>3, Zenon DEF Typed, Frame
    <3> QED BY <2>1, <3>1, StartMove
  <2> QED BY <1>8, <2>2, <2>3 DEF Publish
<1>9. CASE StartConnection(t)
  BY <1>9 DEF Typed, StartConnection
<1>10. CASE CheckStart(t)
  BY <1>10 DEF Typed, CheckStart
<1>11. CASE ScheduleStartRetry(t)
  <2>1. /\ thr'[t].op = thr[t].op /\ thr'[t].idx = thr[t].idx
        /\ thr'[t].pc # "defer"
        /\ \A u \in Threads \ {t} : thr'[u] = thr[u]
    BY <1>11 DEF Typed, ScheduleStartRetry
  <2>2. thr[t].pc \in StartLabels
    BY <1>11 DEF ScheduleStartRetry
  <2> QED BY <2>1, <2>2, StartMove
<1>12. CASE SubmitRetry(t)
  BY <1>12 DEF Typed, SubmitRetry
<1>13. CASE SubmitEnd(t)
  BY <1>13 DEF Typed, SubmitEnd, GiveUp
<1>14. CASE Release(t)
  BY <1>14 DEF Typed, Release, Goto
<1>15. CASE Unclaim(t)
  BY <1>15 DEF Typed, Unclaim, Goto
<1>16. CASE Return(t)
  <2>1. /\ thr[t].idx \in 0 .. MaxSlots /\ thr[t].last \in 0 .. MaxSlots
    BY FrameFields DEF Typed
  <2>2. thr[t].idx < thr[t].last => thr[t].idx + 1 \in Slots
    BY <2>1, SessionAssumption DEF Slots
  <2> QED BY <1>16, <2>2 DEF Typed, Return, StartCall, NoFrame
<1> QED BY <1>1, <1>2, <1>3, <1>4, <1>5, <1>6, <1>7, <1>8, <1>9, <1>10, <1>11,
           <1>12, <1>13, <1>14, <1>15, <1>16, Zenon DEF StartSlotStep

LEMMA CallerFrames ==
    ASSUME Typed, FramesOK, CallerStep
    PROVE  FramesOK'
<1> USE DEF FramesOK, FrameOK, StartOps, StartLabels, At
<1>1. CASE Start
  <2>1. 1 \in Slots
    BY SessionAssumption DEF Slots
  <2> QED BY <1>1, <2>1 DEF Typed, Start, StartCall, NoFrame
<1>2. ASSUME NEW i \in Slots, ReconnectSlot(i)
      PROVE  FramesOK'
  BY <1>2 DEF Typed, ReconnectSlot, StartCall, NoFrame
<1>3. ASSUME NEW i \in Slots, SetDesiredConnectionCount(i)
      PROVE  FramesOK'
  <2>1. count + 1 \in Slots
    BY <1>3, SessionAssumption DEF Typed, SetDesiredConnectionCount, Slots
  <2> QED BY <1>3, <2>1 DEF Typed, SetDesiredConnectionCount, StartCall, NoFrame
<1>4. CASE StopHighestConnection
  BY <1>4 DEF Typed, StopHighestConnection, NoFrame
<1>5. CASE StopGate
  BY <1>5 DEF Typed, StopGate
<1>6. CASE StopSession
  BY <1>6 DEF Typed, StopSession, Goto
<1> QED BY <1>1, <1>2, <1>3, <1>4, <1>5, <1>6, Zenon DEF CallerStep

LEMMA TaskFrames ==
    ASSUME Typed, FramesOK, TokenInv, TaskStep
    PROVE  FramesOK'
<1>0. USE DEF FramesOK, FrameOK, StartOps, StartLabels, At
<1>1. ASSUME NEW k \in tasks, RunRetry(k)
      PROVE  FramesOK'
  <2>1. k \in Held("queue") /\ "queue" \in Places
    BY <1>1 DEF RunRetry, Held, Places
  <2>2. k.slot \in Slots
    BY <2>1 DEF TokenInv
  <2>3. CASE thr' = [thr EXCEPT !["reactor"] = StartCall("Retry", k.slot, k.slot, k)]
    BY <2>2, <2>3 DEF Typed, StartCall, NoFrame
  <2>4. CASE UNCHANGED thr
    BY <2>4
  <2> QED BY <1>1, <2>3, <2>4 DEF RunRetry
<1>2. ASSUME NEW k \in tasks, RunOperation(k)
      PROVE  FramesOK'
  BY <1>2 DEF Typed, RunOperation, OperationFrame, NoFrame
<1>3. ASSUME NEW c \in Conns, Escalate(c)
      PROVE  FramesOK'
  BY <1>3 DEF Typed, Escalate, OperationFrame, NoFrame
<1>4. CASE Defer
  <2>1. CASE thr' = [thr EXCEPT !["terminal"] = NoFrame]
    BY <2>1 DEF Typed, NoFrame
  <2>2. CASE Goto("terminal", "operate")
    BY <2>2 DEF Typed, Goto
  <2> QED BY Zenon, <1>4, <2>1, <2>2 DEF Defer
<1>5. ASSUME NEW t \in Threads, PinForShutdown(t)
      PROVE  FramesOK'
  BY <1>5 DEF Typed, PinForShutdown, NoFrame
<1>6. ASSUME NEW t \in Threads, ShutdownPinned(t)
      PROVE  FramesOK'
  BY <1>6 DEF Typed, ShutdownPinned, NoFrame
<1> QED BY <1>1, <1>2, <1>3, <1>4, <1>5, <1>6, Zenon DEF TaskStep

LEMMA FramesStep ==
    ASSUME Typed, FramesOK, TokenInv, [Next]_vars
    PROVE  FramesOK'
<1>1. ASSUME NEW c \in Conns, CallbackStep(c)
      PROVE  FramesOK'
  <2>1. UNCHANGED thr
    BY <1>1, Zenon DEF CallbackStep, OnSlotConnected, OnSlotDisconnected,
       CompleteSlotShutdownLocked, DropOrphanedConnection, CallbackSubmit,
       CallbackSubmitEnd, Free
  <2> QED BY <2>1 DEF FramesOK
<1>2. CASE UNCHANGED vars
  BY <1>2 DEF vars, state, FramesOK
<1> QED BY <1>1, <1>2, StartSlotFrames, CallerFrames, TaskFrames, Zenon DEF Next, Step

-----------------------------------------------------------------------------
(* Where the reserved retries are. *)

LEMMA PlaceFacts ==
    /\ "queue" \in Places /\ "queue" \notin Threads /\ "queue" \notin Conns
    /\ \A t \in Threads : t \in Places /\ t # "queue" /\ t \notin Conns
    /\ \A c \in Conns : c \in Places /\ c # "queue" /\ c \notin Threads
    /\ \A p \in Places : p = "queue" \/ p \in Threads \/ p \in Conns
BY SessionAssumption DEF Places, Threads

LEMMA HeldCases ==
    /\ Held("queue") = {k \in tasks : IsRetry(k)}
    /\ \A t \in Threads :
          Held(t) = IF ThreadHolds(t) THEN {thr[t].ticket} ELSE {}
    /\ \A c \in Conns :
          Held(c) = IF CallbackHolds(c) THEN {conns[c].ticket} ELSE {}
BY PlaceFacts DEF Held

LEMMA HeldCasesNext ==
    /\ Held("queue")' = {k \in tasks' : IsRetry(k)}
    /\ \A t \in Threads :
          Held(t)' = IF ThreadHolds(t)' THEN {thr'[t].ticket} ELSE {}
    /\ \A c \in Conns :
          Held(c)' = IF CallbackHolds(c)' THEN {conns'[c].ticket} ELSE {}
BY PlaceFacts DEF Held, IsRetry

\* What a place holds after a step in which it takes over no retry.
KeepsTask == \A k \in tasks' : IsRetry(k) => k \in tasks
KeepsThread(t) ==
    ThreadHolds(t)' => ThreadHolds(t) /\ thr'[t].ticket = thr[t].ticket
KeepsConn(c) ==
    CallbackHolds(c)' => CallbackHolds(c) /\ conns'[c].ticket = conns[c].ticket

LEMMA KeepsHeld ==
    /\ KeepsTask => Held("queue")' \subseteq Held("queue")
    /\ \A t \in Threads : KeepsThread(t) => Held(t)' \subseteq Held(t)
    /\ \A c \in Conns : KeepsConn(c) => Held(c)' \subseteq Held(c)
BY HeldCases, HeldCasesNext DEF KeepsTask, KeepsThread, KeepsConn

\* No place takes over a retry.
LEMMA DropHeld ==
    ASSUME TokenInv, nextToken' = nextToken, KeepsTask,
           \A t \in Threads : KeepsThread(t),
           \A c \in Conns : KeepsConn(c)
    PROVE  TokenInv'
<1>1. \A p \in Places : Held(p)' \subseteq Held(p)
  BY KeepsHeld, PlaceFacts
<1>2. Places' = Places
  BY DEF Places
<1> QED BY <1>1 DEF TokenInv, Places

\* A retry moves from a to b.
LEMMA MoveHeld ==
    ASSUME TokenInv, nextToken' = nextToken,
           NEW a \in Places, NEW b \in Places, a # b, NEW k \in Held(a),
           Held(a)' \subseteq Held(a) \ {k},
           Held(b)' \subseteq Held(b) \cup {k},
           \A p \in Places \ {a, b} : Held(p)' \subseteq Held(p)
    PROVE  TokenInv'
<1>0. \A p \in Places : k \in Held(p) => p = a
  BY DEF TokenInv
<1>1. \A p \in Places : \A j \in Held(p)' :
         (j = k /\ p = b) \/ (j # k /\ j \in Held(p))
  BY <1>0
<1>2. \A p \in Places : \A j \in Held(p)' :
         j.token \in 1 .. nextToken - 1 /\ j.slot \in Slots
  BY <1>1 DEF TokenInv
<1>3. ASSUME NEW p \in Places, NEW q \in Places, NEW i \in Held(p)',
             NEW j \in Held(q)', i.token = j.token
      PROVE  p = q /\ i = j
  BY <1>1, <1>3 DEF TokenInv
<1> QED BY <1>2, <1>3 DEF TokenInv, Places

\* Place b gets a retry with the next token.
LEMMA NewHeld ==
    ASSUME TokenInv, nextToken \in Nat, nextToken > 0,
           nextToken' = nextToken + 1,
           NEW b \in Places, NEW k, k.token = nextToken, k.slot \in Slots,
           Held(b)' \subseteq Held(b) \cup {k},
           \A p \in Places \ {b} : Held(p)' \subseteq Held(p)
    PROVE  TokenInv'
<1>1. \A p \in Places : \A j \in Held(p)' :
         (j = k /\ p = b) \/ j \in Held(p)
  OBVIOUS
<1>2. \A p \in Places : \A j \in Held(p) :
         j.token \in 1 .. nextToken - 1 /\ j.slot \in Slots
  BY DEF TokenInv
<1>3. \A p \in Places : \A j \in Held(p)' :
         j.token \in 1 .. nextToken' - 1 /\ j.slot \in Slots
  BY <1>1, <1>2
<1>4. \A p \in Places : \A j \in Held(p) : j.token # k.token
  BY <1>2
<1>5. ASSUME NEW p \in Places, NEW q \in Places, NEW i \in Held(p)',
             NEW j \in Held(q)', i.token = j.token
      PROVE  p = q /\ i = j
  BY <1>1, <1>4, <1>5 DEF TokenInv
<1> QED BY <1>3, <1>5 DEF TokenInv, Places

\* Steps that leave the callbacks' retries alone.
LEMMA SameCallbacks ==
    ASSUME \A c \in Conns :
              conns'[c].cb = "idle" \/ (/\ conns'[c].cb = conns[c].cb
                                        /\ conns'[c].ticket = conns[c].ticket)
    PROVE  \A c \in Conns : KeepsConn(c)
BY DEF KeepsConn, CallbackHolds, IsRetry

\* Steps in which thread t alone moves, to a place where it holds nothing.
LEMMA LetsGo ==
    ASSUME NEW t \in Threads, ~ThreadHolds(t)',
           \A u \in Threads \ {t} : thr'[u] = thr[u]
    PROVE  \A u \in Threads : KeepsThread(u)
BY DEF KeepsThread, ThreadHolds, At

LEMMA ShutdownKeeps ==
    ASSUME NEW C, conns' = Shutdown(conns, C), conns \in [Conns -> ConnRecord]
    PROVE  \A c \in Conns : KeepsConn(c)
<1>1. \A c \in Conns : conns'[c].cb = conns[c].cb
                       /\ conns'[c].ticket = conns[c].ticket
  BY DEF Shutdown, ConnRecord
<1> QED BY <1>1, SameCallbacks

LEMMA DestroyedKeeps ==
    ASSUME NEW d, conns' = Destroyed(conns, d)
    PROVE  \A c \in Conns : KeepsConn(c)
<1>1. \A c \in Conns :
         conns'[c].cb = "idle" \/ (/\ conns'[c].cb = conns[c].cb
                                   /\ conns'[c].ticket = conns[c].ticket)
  BY DEF Destroyed, NoConnection
<1> QED BY <1>1, SameCallbacks

\* Labels, other than Stop's, at which a thread has no retry in hand.
Quiet == {"idle", "shutold", "push", "build", "publish", "start", "check",
          "sched", "release", "unclaim", "return", "defer", "operate", "pinned"}

LEMMA QuietDrop ==
    ASSUME TokenInv, NEW t \in Threads,
           \/ thr'[t].pc \in Quiet \cup {"drain", "stopped"}
           \/ thr'[t].pc = "enter" /\ thr'[t].op # "Retry",
           \A u \in Threads \ {t} : thr'[u] = thr[u],
           nextToken' = nextToken, KeepsTask, \A c \in Conns : KeepsConn(c)
    PROVE  TokenInv'
<1>1. ~ThreadHolds(t)'
  BY DEF ThreadHolds, Quiet, At
<1>2. \A u \in Threads : KeepsThread(u)
  BY <1>1, LetsGo
<1> QED BY <1>2, DropHeld

LEMMA UnchangedKeeps ==
    /\ UNCHANGED tasks => KeepsTask
    /\ UNCHANGED conns => \A c \in Conns : KeepsConn(c)
    /\ UNCHANGED thr => \A t \in Threads : KeepsThread(t)
BY DEF KeepsTask, KeepsConn, CallbackHolds, KeepsThread, ThreadHolds, At

\* Every step of StartSlot but Enter, ScheduleStartRetry and SubmitRetry ends
\* with no retry in the thread's hand.
LEMMA StartSlotQuiet ==
    ASSUME Typed, NEW t \in Threads,
           \/ ClaimRefused(t) \/ ClaimExhausted(t) \/ Claim(t) \/ ShutdownOld(t)
           \/ PushOrphan(t) \/ OpenConnection(t) \/ Publish(t)
           \/ StartConnection(t) \/ CheckStart(t) \/ SubmitEnd(t) \/ Release(t)
           \/ Unclaim(t) \/ Return(t)
    PROVE  /\ thr'[t].pc \in Quiet
              \/ (thr'[t].pc = "enter" /\ thr'[t].op # "Retry")
           /\ \A u \in Threads \ {t} : thr'[u] = thr[u]
<1>1. \A l : Goto(t, l) => /\ thr'[t].pc = l
                           /\ \A u \in Threads \ {t} : thr'[u] = thr[u]
  BY DEF Goto, Typed, Frame
<1>2. GiveUp(t) => /\ thr'[t].pc = "release"
                   /\ \A u \in Threads \ {t} : thr'[u] = thr[u]
  BY DEF GiveUp, Typed, Frame
<1>3. CASE ClaimRefused(t) \/ ClaimExhausted(t) \/ SubmitEnd(t)
  BY <1>2, <1>3 DEF ClaimRefused, ClaimExhausted, SubmitEnd, Quiet
<1>4. CASE ShutdownOld(t) \/ Release(t) \/ Unclaim(t)
  BY <1>1, <1>4 DEF ShutdownOld, Release, Unclaim, Quiet
<1>5. CASE Claim(t)
  <2> DEFINE s == slots[thr[t].idx]
             l == IF s.conn = NoConn THEN "build" ELSE "shutold"
  <2>1. l \in Quiet /\ "release" \in Quiet
    BY DEF Quiet
  <2>2. CASE thr' = [thr EXCEPT ![t].claim = nextClaim, ![t].ticket = NoTicket,
                                ![t].pc = "release"]
    BY <2>1, <2>2 DEF Typed, Frame
  <2>3. CASE thr' = [thr EXCEPT ![t].claim = nextClaim, ![t].ticket = NoTicket,
                                ![t].num = s.num, ![t].gen = s.gen,
                                ![t].old = s.conn, ![t].pc = l]
    <3> HIDE DEF l, s
    <3>0. PICK h : h = [thr[t] EXCEPT !.claim = nextClaim, !.ticket = NoTicket,
                                   !.num = s.num, !.gen = s.gen,
                                   !.old = s.conn, !.pc = l]
      OBVIOUS
    <3>1. thr[t] \in Frame
      BY DEF Typed
    <3>2. h.pc = l
      BY <3>0, <3>1 DEF Frame
    <3>3. thr' = [thr EXCEPT ![t] = h]
      BY <2>3, <3>0, Zenon
    <3> QED BY <2>1, <3>2, <3>3 DEF Typed
  <2> QED BY Zenon, <1>5, <2>2, <2>3 DEF Claim
<1>6. CASE PushOrphan(t)
  BY <1>6 DEF PushOrphan, Typed, Frame, Quiet, NoFrame
<1>7. CASE OpenConnection(t)
  <2>1. CASE Goto(t, "sched")
    BY <1>1, <2>1 DEF Quiet
  <2>2. CASE \E c \in Conns : thr' = [thr EXCEPT ![t].conn = c, ![t].pc = "publish"]
    BY <2>2, Zenon DEF Typed, Frame, Quiet
  <2> QED BY Zenon, <1>7, <2>1, <2>2 DEF OpenConnection
<1>8. CASE Publish(t)
  <2>1. CASE Goto(t, "start")
    BY <1>1, <2>1 DEF Quiet
  <2>2. CASE thr' = [thr EXCEPT ![t].conn = NoConn, ![t].pc = "release"]
    BY <2>2, Zenon DEF Typed, Frame, Quiet
  <2> QED BY <1>8, <2>1, <2>2 DEF Publish
<1>9. CASE StartConnection(t)
  BY <1>9, Zenon DEF StartConnection, Typed, Frame, Quiet
<1>10. CASE CheckStart(t)
  <2>1. \E l \in {"sched", "release"} :
           thr' = [thr EXCEPT ![t].conn = NoConn, ![t].pc = l]
    BY <1>10, Zenon DEF CheckStart
  <2> QED BY <2>1 DEF Typed, Frame, Quiet
<1>11. CASE Return(t)
  BY <1>11 DEF Return, Typed, StartCall, NoFrame, Quiet
<1> QED BY Zenon, <1>3, <1>4, <1>5, <1>6, <1>7, <1>8, <1>9, <1>10, <1>11

LEMMA StartSlotConns ==
    ASSUME Typed, NEW t \in Threads, StartSlotStep(t)
    PROVE  \A c \in Conns : KeepsConn(c)
<1>1. CASE UNCHANGED conns
  BY <1>1, UnchangedKeeps
<1>2. CASE ShutdownOld(t)
  BY <1>2, ShutdownKeeps DEF ShutdownOld, Typed
<1>3. CASE OpenConnection(t)
  <2>1. CASE \E d \in Conns :
               conns' = [conns EXCEPT ![d] =
                    [NoConnection EXCEPT !.phase = "opened",
                                         !.slot = thr[t].idx,
                                         !.num = thr[t].num,
                                         !.gen = thr[t].gen]]
    <3>1. \A c \in Conns : conns'[c].cb = "idle" \/ conns'[c] = conns[c]
      BY <2>1, Zenon DEF Typed, NoConnection
    <3> QED BY <3>1, SameCallbacks
  <2> QED BY Zenon, <1>1, <1>3, <2>1 DEF OpenConnection
<1>4. CASE Publish(t)
  BY <1>4, DestroyedKeeps DEF Publish
<1>5. CASE StartConnection(t)
  <2>1. \A c \in Conns : /\ conns'[c].cb = conns[c].cb
                         /\ conns'[c].ticket = conns[c].ticket
    BY <1>5 DEF StartConnection, Typed, ConnRecord
  <2> QED BY <2>1, SameCallbacks
<1>6. CASE CheckStart(t)
  BY <1>1, <1>6, DestroyedKeeps DEF CheckStart
<1>7. \/ UNCHANGED conns \/ ShutdownOld(t) \/ OpenConnection(t) \/ Publish(t)
      \/ StartConnection(t) \/ CheckStart(t)
  BY Zenon DEF StartSlotStep, Enter, ClaimRefused, ClaimExhausted, Claim, PushOrphan,
     ScheduleStartRetry, SubmitRetry, SubmitEnd, Release, Unclaim, Return
<1> QED BY <1>1, <1>2, <1>3, <1>4, <1>5, <1>6, <1>7

LEMMA StartSlotTokens ==
    ASSUME Typed, FramesOK, TokenInv, NEW t \in Threads, StartSlotStep(t)
    PROVE  TokenInv'
<1>0. \A c \in Conns : KeepsConn(c)
  BY StartSlotConns
<1>1. CASE \/ ClaimRefused(t) \/ ClaimExhausted(t) \/ Claim(t) \/ ShutdownOld(t)
           \/ PushOrphan(t) \/ OpenConnection(t) \/ Publish(t)
           \/ StartConnection(t) \/ CheckStart(t) \/ SubmitEnd(t) \/ Release(t)
           \/ Unclaim(t) \/ Return(t)
  <2>1. UNCHANGED tasks /\ nextToken' = nextToken
    BY <1>1, Zenon DEF ClaimRefused, ClaimExhausted, Claim, ShutdownOld, PushOrphan,
       OpenConnection, Publish, StartConnection, CheckStart, SubmitEnd, Release,
       Unclaim, Return
  <2>2. /\ thr'[t].pc \in Quiet \/ (thr'[t].pc = "enter" /\ thr'[t].op # "Retry")
        /\ \A u \in Threads \ {t} : thr'[u] = thr[u]
    BY <1>1, StartSlotQuiet
  <2> QED BY <1>0, <2>1, <2>2, UnchangedKeeps, QuietDrop
<1>2. CASE Enter(t)
  <2>1. \A u \in Threads : KeepsThread(u)
    <3>1. CASE Goto(t, "claim")
      BY <3>1, <1>2 DEF Enter, Goto, Typed, Frame, KeepsThread, ThreadHolds, At
    <3>2. CASE Goto(t, "return")
      BY <3>2 DEF Goto, Typed, Frame, KeepsThread, ThreadHolds, At
    <3> QED BY <1>2, <3>1, <3>2 DEF Enter
  <2>2. UNCHANGED tasks /\ nextToken' = nextToken
    BY <1>2 DEF Enter
  <2> QED BY <1>0, <2>1, <2>2, UnchangedKeeps, DropHeld
<1>3. CASE ScheduleStartRetry(t)
  <2> DEFINE i == thr[t].idx
             present == Running /\ i <= count
             k == IF present
                  THEN ReservedTicket(i, slots[i], thr[t].num, thr[t].gen)
                  ELSE NoTicket
  <2>1. i \in Slots
    BY <1>3 DEF ScheduleStartRetry, At, FramesOK, FrameOK, StartLabels
  <2>2. k.token # 0 => k.token = nextToken /\ k.slot = i
    BY NoTicketType DEF ReservedTicket
  <2>3. /\ thr' = [thr EXCEPT ![t].ticket = k,
                              ![t].pc = IF k.token = 0 THEN "release" ELSE "submit"]
        /\ nextToken' = IF k.token = 0 THEN nextToken ELSE nextToken + 1
        /\ UNCHANGED tasks
    BY <1>3 DEF ScheduleStartRetry, TokenAfterReserve
  <2> HIDE DEF k
  <2>4. CASE k.token = 0
    <3>1. thr'[t].pc = "release" /\ \A u \in Threads \ {t} : thr'[u] = thr[u]
      BY <2>3, <2>4 DEF Typed, Frame
    <3>2. "release" \in Quiet
      BY Zenon DEF Quiet
    <3> QED BY Zenon, <1>0, <2>3, <2>4, <3>1, <3>2, UnchangedKeeps, QuietDrop
  <2>5. CASE k.token # 0
    <3>1. thr'[t].ticket = k /\ \A u \in Threads \ {t} : thr'[u] = thr[u]
      BY <2>3, <2>5 DEF Typed, Frame
    <3>2. Held(t)' \subseteq Held(t) \cup {k}
      BY <3>1, HeldCasesNext
    <3>3. \A p \in Places \ {t} : Held(p)' \subseteq Held(p)
      <4>1. \A u \in Threads \ {t} : KeepsThread(u)
        BY <3>1 DEF KeepsThread, ThreadHolds, At
      <4>2. KeepsTask
        BY <2>3, UnchangedKeeps
      <4> QED BY <1>0, <4>1, <4>2, KeepsHeld, PlaceFacts
    <3>4. nextToken \in Nat /\ nextToken > 0
      BY DEF Typed
    <3>5. nextToken' = nextToken + 1
      BY <2>3, <2>5
    <3>6. t \in Places
      BY PlaceFacts
    <3> QED BY <2>1, <2>2, <2>5, <3>2, <3>3, <3>4, <3>5, <3>6, NewHeld
  <2> QED BY <2>4, <2>5
<1>4. CASE SubmitRetry(t)
  <2> DEFINE k == thr[t].ticket
  <2>1. PICK b \in BOOLEAN :
            /\ tasks' = IF b THEN tasks \cup {k} ELSE tasks
            /\ thr' = [thr EXCEPT ![t].ok = b, ![t].pc = "submitted"]
    BY <1>4, Zenon DEF SubmitRetry
  <2>2. /\ thr'[t].pc = "submitted" /\ thr'[t].ok = b /\ thr'[t].ticket = k
        /\ \A u \in Threads \ {t} : thr'[u] = thr[u]
    BY <2>1 DEF Typed, Frame
  <2>3. nextToken' = nextToken /\ thr[t].pc = "submit"
    BY <1>4 DEF SubmitRetry, At
  <2>4. ThreadHolds(t)
    BY <2>3 DEF ThreadHolds, At
  <2>5. \A u \in Threads \ {t} : KeepsThread(u)
    BY <2>2 DEF KeepsThread, ThreadHolds, At
  <2>6. CASE ~b
    <3>1. \A u \in Threads : KeepsThread(u)
      BY <2>2, <2>4, <2>5 DEF KeepsThread
    <3> QED BY <1>0, <2>1, <2>3, <2>6, <3>1, UnchangedKeeps, DropHeld
  <2>7. CASE b
    <3>1. k \in Held(t) /\ t \in Places /\ "queue" \in Places /\ t # "queue"
      BY <2>4, HeldCases, PlaceFacts
    <3>2. ~ThreadHolds(t)'
      BY <2>2, <2>7 DEF ThreadHolds, At
    <3>3. Held(t)' \subseteq Held(t) \ {k}
      BY <3>2, HeldCasesNext
    <3>4. Held("queue")' \subseteq Held("queue") \cup {k}
      BY <2>1, <2>7, HeldCases, HeldCasesNext
    <3>5. \A p \in Places \ {t, "queue"} : Held(p)' \subseteq Held(p)
      BY <1>0, <2>5, KeepsHeld, PlaceFacts
    <3> QED BY <2>3, <3>1, <3>3, <3>4, <3>5, MoveHeld
  <2> QED BY <2>6, <2>7
<1> QED BY <1>1, <1>2, <1>3, <1>4 DEF StartSlotStep

LEMMA CallerTokens ==
    ASSUME Typed, TokenInv, CallerStep
    PROVE  TokenInv'
<1>1. "caller" \in Threads
  BY DEF Threads
<1>2. UNCHANGED tasks /\ nextToken' = nextToken
  BY Zenon DEF CallerStep, Start, ReconnectSlot, SetDesiredConnectionCount,
     StopHighestConnection, StopGate, StopSession
<1>3. \A c \in Conns : KeepsConn(c)
  <2>1. CASE UNCHANGED conns
    BY <2>1, UnchangedKeeps
  <2>2. CASE StopSession
    BY <2>2, ShutdownKeeps DEF StopSession, Typed
  <2>3. UNCHANGED conns \/ StopSession
    BY Zenon DEF CallerStep, Start, ReconnectSlot, SetDesiredConnectionCount,
       StopHighestConnection, StopGate
  <2> QED BY <2>1, <2>2, <2>3
<1>4. /\ thr'["caller"].pc \in Quiet \cup {"drain", "stopped"}
         \/ (thr'["caller"].pc = "enter" /\ thr'["caller"].op # "Retry")
      /\ \A u \in Threads \ {"caller"} : thr'[u] = thr[u]
  <2>1. CASE Start
    BY <1>1, <2>1 DEF Start, Typed, StartCall, NoFrame
  <2>2. CASE \E i \in Slots : ReconnectSlot(i)
    BY <1>1, <2>2 DEF ReconnectSlot, Typed, StartCall, NoFrame
  <2>3. CASE \E i \in Slots : SetDesiredConnectionCount(i)
    BY <1>1, <2>3 DEF SetDesiredConnectionCount, Typed, StartCall, NoFrame
  <2>4. CASE StopHighestConnection
    BY <1>1, <2>4 DEF StopHighestConnection, Typed, NoFrame, Quiet
  <2>5. CASE StopGate
    BY <1>1, <2>5 DEF StopGate, Typed, Frame, Quiet
  <2>6. CASE StopSession
    BY <1>1, <2>6 DEF StopSession, Goto, Typed, Frame, Quiet
  <2> QED BY <2>1, <2>2, <2>3, <2>4, <2>5, <2>6 DEF CallerStep
<1> QED BY <1>1, <1>2, <1>3, <1>4, UnchangedKeeps, QuietDrop

LEMMA TaskTokens ==
    ASSUME Typed, FramesOK, TokenInv, TaskStep
    PROVE  TokenInv'
<1>1. nextToken' = nextToken
  BY Zenon DEF TaskStep, RunRetry, RunOperation, Escalate, Defer, PinForShutdown,
     ShutdownPinned
<1>2. \A c \in Conns : KeepsConn(c)
  <2>1. CASE UNCHANGED conns
    BY <2>1, UnchangedKeeps
  <2>2. CASE \E t \in Threads : ShutdownPinned(t)
    BY <2>2, ShutdownKeeps DEF ShutdownPinned, Typed
  <2>3. UNCHANGED conns \/ \E t \in Threads : ShutdownPinned(t)
    BY Zenon DEF TaskStep, RunRetry, RunOperation, Escalate, Defer, PinForShutdown
  <2> QED BY <2>1, <2>2, <2>3
<1>3. "reactor" \in Threads /\ "terminal" \in Threads
  BY DEF Threads
<1>4. ASSUME NEW k \in tasks, RunRetry(k)
      PROVE  TokenInv'
  <2>1. tasks' = tasks \ {k} /\ IsRetry(k)
    BY <1>4 DEF RunRetry
  <2>2. CASE thr' = [thr EXCEPT !["reactor"] = StartCall("Retry", k.slot, k.slot, k)]
    <3>1. thr'["reactor"].ticket = k
          /\ \A u \in Threads \ {"reactor"} : thr'[u] = thr[u]
      BY <1>3, <2>2 DEF Typed, StartCall, NoFrame
    <3>2. /\ k \in Held("queue") /\ "queue" \in Places /\ "reactor" \in Places
          /\ "queue" # "reactor"
      BY <1>3, <2>1, HeldCases, PlaceFacts
    <3>3. Held("queue")' \subseteq Held("queue") \ {k}
      BY <2>1, HeldCases, HeldCasesNext
    <3>4. Held("reactor")' \subseteq Held("reactor") \cup {k}
      BY <1>3, <3>1, HeldCasesNext
    <3>5. \A p \in Places \ {"queue", "reactor"} : Held(p)' \subseteq Held(p)
      <4>1. \A u \in Threads \ {"reactor"} : KeepsThread(u)
        BY <3>1 DEF KeepsThread, ThreadHolds, At
      <4> QED BY <1>2, <4>1, KeepsHeld, PlaceFacts
    <3> QED BY <1>1, <3>2, <3>3, <3>4, <3>5, MoveHeld
  <2>3. CASE UNCHANGED thr
    <3>1. KeepsTask
      BY <2>1 DEF KeepsTask
    <3> QED BY <1>1, <1>2, <2>3, <3>1, UnchangedKeeps, DropHeld
  <2> QED BY <1>4, <2>2, <2>3 DEF RunRetry
<1>5. ASSUME NEW k \in tasks, RunOperation(k)
      PROVE  TokenInv'
  <2>1. KeepsTask
    BY <1>5 DEF RunOperation, KeepsTask
  <2>2. /\ thr'["reactor"].pc \in Quiet
        /\ \A u \in Threads \ {"reactor"} : thr'[u] = thr[u]
    BY <1>3, <1>5 DEF RunOperation, Typed, OperationFrame, NoFrame, Quiet
  <2> QED BY <1>1, <1>2, <1>3, <2>1, <2>2, QuietDrop
<1>6. ASSUME NEW c \in Conns, Escalate(c)
      PROVE  TokenInv'
  <2>1. /\ thr'["terminal"].pc \in Quiet
        /\ \A u \in Threads \ {"terminal"} : thr'[u] = thr[u]
    BY <1>3, <1>6 DEF Escalate, Typed, OperationFrame, NoFrame, Quiet
  <2>2. UNCHANGED tasks
    BY <1>6 DEF Escalate
  <2> QED BY <1>1, <1>2, <1>3, <2>1, <2>2, UnchangedKeeps, QuietDrop
<1>7. CASE Defer
  <2>1. ~IsRetry(thr["terminal"].ticket)
    BY <1>3, <1>7 DEF Defer, At, FramesOK, FrameOK, IsRetry
  <2>2. KeepsTask
    BY <1>7, <2>1 DEF Defer, KeepsTask
  <2>3. /\ thr'["terminal"].pc \in Quiet
        /\ \A u \in Threads \ {"terminal"} : thr'[u] = thr[u]
    <3>1. CASE thr' = [thr EXCEPT !["terminal"] = NoFrame]
      BY <1>3, <3>1 DEF Typed, NoFrame, Quiet
    <3>2. CASE Goto("terminal", "operate")
      BY <1>3, <3>2 DEF Goto, Typed, Frame, Quiet
    <3> QED BY <1>7, <3>1, <3>2 DEF Defer
  <2> QED BY <1>1, <1>2, <1>3, <2>2, <2>3, QuietDrop
<1>8. ASSUME NEW t \in Threads, PinForShutdown(t) \/ ShutdownPinned(t)
      PROVE  TokenInv'
  <2>1. /\ thr'[t].pc \in Quiet
        /\ \A u \in Threads \ {t} : thr'[u] = thr[u]
    <3>1. CASE PinForShutdown(t)
      BY <3>1 DEF PinForShutdown, Typed, Frame, NoFrame, Quiet
    <3>2. CASE ShutdownPinned(t)
      BY <3>2 DEF ShutdownPinned, Typed, NoFrame, Quiet
    <3> QED BY <1>8, <3>1, <3>2
  <2>2. UNCHANGED tasks
    BY <1>8 DEF PinForShutdown, ShutdownPinned
  <2> QED BY <1>1, <1>2, <2>1, <2>2, UnchangedKeeps, QuietDrop
<1> QED BY <1>4, <1>5, <1>6, <1>7, <1>8, Zenon DEF TaskStep

\* The callbacks of c leave the other connections' retries alone.
LEMMA CallbackOthers ==
    ASSUME Typed, NEW c \in Conns, CallbackStep(c)
    PROVE  /\ \A d \in Conns \ {c} : conns'[d] = conns[d] /\ KeepsConn(d)
           /\ \A t \in Threads : KeepsThread(t)
<1>1. \A d \in Conns \ {c} : conns'[d] = conns[d]
  BY Zenon DEF Typed, CallbackStep, OnSlotConnected, OnSlotDisconnected,
     CompleteSlotShutdownLocked, DropOrphanedConnection, CallbackSubmit,
     CallbackSubmitEnd, Free
<1>2. UNCHANGED thr
  BY Zenon DEF CallbackStep, OnSlotConnected, OnSlotDisconnected,
     CompleteSlotShutdownLocked, DropOrphanedConnection, CallbackSubmit,
     CallbackSubmitEnd, Free
<1>3. \A d \in Conns \ {c} : KeepsConn(d)
  BY <1>1 DEF KeepsConn, CallbackHolds, IsRetry
<1> QED BY <1>1, <1>2, <1>3, UnchangedKeeps

LEMMA CallbackTokens ==
    ASSUME Typed, TokenInv, NEW c \in Conns, CallbackStep(c)
    PROVE  TokenInv'
<1>1. /\ \A d \in Conns \ {c} : KeepsConn(d)
      /\ \A t \in Threads : KeepsThread(t)
  BY CallbackOthers
<1>2. ASSUME KeepsConn(c), UNCHANGED tasks, nextToken' = nextToken
      PROVE  TokenInv'
  BY <1>1, <1>2, UnchangedKeeps, DropHeld
<1>3. CASE OnSlotConnected(c) \/ OnSlotDisconnected(c)
  <2>1. conns'[c].cb = "idle"
    BY <1>3 DEF OnSlotConnected, OnSlotDisconnected, Typed, ConnRecord
  <2>2. KeepsConn(c)
    BY <2>1 DEF KeepsConn, CallbackHolds
  <2> QED BY <1>2, <1>3, <2>2 DEF OnSlotConnected, OnSlotDisconnected
<1>4. CASE CallbackSubmitEnd(c) \/ Free(c)
  <2>1. conns'[c].cb = "idle"
    <3>1. CASE CallbackSubmitEnd(c)
      BY <3>1 DEF CallbackSubmitEnd, Typed, ConnRecord
    <3>2. CASE Free(c)
      BY <3>2 DEF Free, Typed, NoConnection
    <3> QED BY <1>4, <3>1, <3>2
  <2>2. KeepsConn(c)
    BY <2>1, Zenon DEF KeepsConn, CallbackHolds
  <2> QED BY Zenon, <1>2, <1>4, <2>2 DEF CallbackSubmitEnd, Free
<1>5. CASE DropOrphanedConnection(c)
  <2>1. \/ conns'[c].cb = "idle"
        \/ conns[c].cb = "drop" /\ conns'[c].ticket = conns[c].ticket
    BY <1>5 DEF DropOrphanedConnection, Typed, ConnRecord
  <2>2. KeepsConn(c)
    BY <2>1 DEF KeepsConn, CallbackHolds, IsRetry
  <2> QED BY <1>2, <1>5, <2>2 DEF DropOrphanedConnection
<1>6. CASE CompleteSlotShutdownLocked(c)
  <2> DEFINE i == conns[c].slot
             down == [slots[i] EXCEPT !.conn = NoConn, !.connected = FALSE,
                                      !.closing = TRUE]
             current == IsSlotOf(c, i)
             k == IF current /\ Running
                  THEN ReservedTicket(i, down, conns[c].num, conns[c].gen)
                  ELSE NoTicket
  <2>1. k.token # 0 => k.token = nextToken /\ k.slot = i /\ current
    BY NoTicketType DEF ReservedTicket
  <2>2. current => i \in Slots
    BY SessionAssumption DEF IsSlotOf, Typed, Slots
  <2>3. /\ conns' = [conns EXCEPT ![c].cb = "drop", ![c].ticket = k]
        /\ nextToken' = IF k.token = 0 THEN nextToken ELSE nextToken + 1
        /\ UNCHANGED tasks
    BY <1>6 DEF CompleteSlotShutdownLocked, TokenAfterReserve
  <2> HIDE DEF k
  <2>4. conns'[c].ticket = k
    BY <2>3 DEF Typed, ConnRecord
  <2>5. CASE k.token = 0
    <3>1. KeepsConn(c)
      BY <2>4, <2>5 DEF KeepsConn, CallbackHolds, IsRetry
    <3> QED BY <1>2, <2>3, <2>5, <3>1
  <2>6. CASE k.token # 0
    <3>1. Held(c)' \subseteq Held(c) \cup {k}
      BY <2>4, HeldCasesNext
    <3>2. \A p \in Places \ {c} : Held(p)' \subseteq Held(p)
      BY <1>1, <2>3, UnchangedKeeps, KeepsHeld, PlaceFacts
    <3>3. nextToken \in Nat /\ nextToken > 0 /\ nextToken' = nextToken + 1
      BY <2>3, <2>6 DEF Typed
    <3>4. c \in Places /\ k.token = nextToken /\ k.slot \in Slots
      BY <2>1, <2>2, <2>6, PlaceFacts
    <3> QED BY <3>1, <3>2, <3>3, <3>4, NewHeld
  <2> QED BY <2>5, <2>6
<1>7. CASE CallbackSubmit(c)
  <2> DEFINE k == conns[c].ticket
  <2>1. PICK b \in BOOLEAN :
          /\ tasks' = IF b THEN tasks \cup {k} ELSE tasks
          /\ conns' = [conns EXCEPT
                 ![c].cb = IF b THEN "idle" ELSE "submitted",
                 ![c].ticket = IF b THEN NoTicket ELSE @]
    BY <1>7, Zenon DEF CallbackSubmit
  <2>2. nextToken' = nextToken /\ conns[c].cb = "submit"
    BY <1>7 DEF CallbackSubmit
  <2>3. CASE ~b
    <3>1. conns'[c].ticket = k
      BY <2>1, <2>3 DEF Typed, ConnRecord
    <3>2. KeepsConn(c)
      BY <2>2, <3>1 DEF KeepsConn, CallbackHolds, IsRetry
    <3> QED BY <1>2, <2>1, <2>2, <2>3, <3>2
  <2>4. CASE b
    <3>1. conns'[c].cb = "idle"
      BY <2>1, <2>4 DEF Typed, ConnRecord
    <3>2. ~CallbackHolds(c)'
      BY <3>1 DEF CallbackHolds
    <3>3. CASE IsRetry(k)
      <4>1. /\ k \in Held(c) /\ c \in Places /\ "queue" \in Places
            /\ c # "queue"
        BY <2>2, <3>3, HeldCases, PlaceFacts DEF CallbackHolds
      <4>2. Held(c)' \subseteq Held(c) \ {k}
        BY <3>2, HeldCasesNext
      <4>3. Held("queue")' \subseteq Held("queue") \cup {k}
        BY <2>1, <2>4, HeldCases, HeldCasesNext
      <4>4. \A p \in Places \ {c, "queue"} : Held(p)' \subseteq Held(p)
        BY <1>1, KeepsHeld, PlaceFacts
      <4> QED BY <2>2, <4>1, <4>2, <4>3, <4>4, MoveHeld
    <3>4. CASE ~IsRetry(k)
      <4>1. KeepsTask
        BY <2>1, <2>4, <3>4 DEF KeepsTask
      <4>2. KeepsConn(c)
        BY <3>2 DEF KeepsConn
      <4> QED BY <1>1, <2>2, <4>1, <4>2, DropHeld
    <3> QED BY <3>3, <3>4
  <2> QED BY <2>3, <2>4
<1> QED BY <1>3, <1>4, <1>5, <1>6, <1>7 DEF CallbackStep

LEMMA TokensInit == Init => TokenInv
<1> SUFFICES ASSUME Init PROVE TokenInv
  OBVIOUS
<1>1. \A t \in Threads : ~ThreadHolds(t)
  BY DEF Init, ThreadHolds, NoFrame, At
<1>2. \A c \in Conns : ~CallbackHolds(c)
  BY Zenon DEF Init, CallbackHolds, NoConnection
<1>3. \A p \in Places : Held(p) = {}
  BY <1>1, <1>2, HeldCases, PlaceFacts DEF Init
<1> QED BY <1>3 DEF TokenInv

LEMMA TokensStep ==
    ASSUME Typed, FramesOK, TokenInv, [Next]_vars
    PROVE  TokenInv'
<1>1. CASE UNCHANGED vars
  <2>1. UNCHANGED <<tasks, conns, thr, nextToken>>
    BY <1>1 DEF vars, state
  <2> QED BY <2>1, UnchangedKeeps, DropHeld
<1> QED BY <1>1, StartSlotTokens, CallerTokens, TaskTokens, CallbackTokens, Zenon
        DEF Next, Step

\* Two executable retries of a slot carry the slot's token.
LEMMA TokensImply == TokenInv => SingleFlight
BY DEF TokenInv, SingleFlight, RetryTicketMatchesLocked

\* RetryTicketMatchesLocked lets at most one of the retries ever reserved for a
\* slot start it, for any number of slots, connections and operations.
THEOREM OneRetryPerSlot == Spec => []SingleFlight
<1>1. Init => Typed /\ FramesOK /\ TokenInv
  BY TypedInit, FramesInit, TokensInit
<1>2. Typed /\ FramesOK /\ TokenInv /\ [Next]_vars
         => Typed' /\ FramesOK' /\ TokenInv'
  BY TypedStep, FramesStep, TokensStep, Zenon
<1>3. Typed /\ FramesOK /\ TokenInv => SingleFlight
  BY TokensImply
<1> QED BY <1>1, <1>2, <1>3, PTL DEF Spec
=============================================================================

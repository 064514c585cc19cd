------------------------- MODULE WindowsRelayWorker -------------------------
(***************************************************************************)
(* TqWindowsRelayWorker (src/tunnel/windows_relay_worker.cpp): one worker  *)
(* thread on an I/O completion port, with one relay, from TqRelayStart to  *)
(* TqRelayStop or to the stop of the worker.  `queue' is the completion    *)
(* port: what callbacks and callers post, and the socket operations the    *)
(* kernel has finished.  One step of the worker is one turn of Run(): an   *)
(* operation is taken and handled, the relay is retired if nothing of it   *)
(* is left, and the maintenance queue and the terminal sink are drained.   *)
(***************************************************************************)
EXTENDS RelayEnvironment

(* RelayContext, and the overlapped operations the kernel holds for it:    *)
(* at most one WSARecv, and at most one WSASend, of the chunks `sending'   *)
(* of the view `sendView'.                                                 *)
RelayInit ==
    [Mapped |-> FALSE,              \* in Relays_
     Committed |-> FALSE, Closing |-> FALSE,
     TcpFd |-> FALSE,               \* TcpFd is valid
     TcpRecvClosed |-> FALSE, TcpWriteClosed |-> FALSE,
     CloseAfterDrained |-> FALSE, StopPublished |-> FALSE,
     QuicSendFinSubmitted |-> FALSE, QuicSendFinCompleted |-> FALSE,
     StreamShutdownComplete |-> FALSE,
     Owned |-> FALSE,               \* StreamOwner != nullptr
     ActiveHandlers |-> 0,
     InFlightTcpRecvs |-> 0, InFlightTcpSends |-> 0, InFlightQuicSends |-> 0,
     TcpRecvPosted |-> FALSE, TcpReadPausedByQuicBacklog |-> FALSE,
     IdealSendBufferBytes |-> 0, OutstandingQuicSendBytes |-> 0,
     PendingQuicSendRetries |-> <<>>,
     Compressor |-> <<>>,           \* chunks taken in and not yet put out
     PendingReceives |-> <<>>,
     PendingQuicReceiveBytes |-> 0, PendingQuicReceiveQueueDepth |-> 0,
     Decompressor |-> <<>>,
     QuicReceivePaused |-> FALSE, ReceiveDrainQueued |-> FALSE,
     TcpWriteBytes |-> 0,
     Maintenance |-> FALSE,         \* in MaintenanceQueue_
     receiving |-> FALSE, sending |-> <<>>, sendView |-> 0]

(* WindowsStreamRelayBinding and CallbackEndpoint. *)
NoCallback == [at |-> "none", n |-> 0, fin |-> FALSE]

BindingInit ==
    [Closing |-> FALSE, Activation |-> "Prepared", PrecommitReceives |-> <<>>,
     TerminalShutdownPosted |-> FALSE,
     Retired |-> FALSE,             \* in RetiredCallbacks_
     EndpointOpen |-> TRUE,
     cb |-> NoCallback]             \* the RECEIVE callback in progress

(* TqWindowsPendingQuicReceive, a copy of the chunks ids.  MsQuic waits    *)
(* for their completion while CompletionState is Pending.                  *)
NewView(ids, fin, owned) ==
    [ids |-> ids, fin |-> fin, StreamOwner |-> owned,
     CompletionState |-> IF ids = <<>> THEN "NotRequired" ELSE "Pending",
     CompletedLength |-> 0, AccountedLength |-> 0, PendingCompleteBytes |-> 0,
     Drained |-> FALSE, TcpSendPending |-> FALSE, AccountingReleased |-> FALSE]

(* TqWindowsQuicSendOperation. *)
NewOp(ids, fin) == [ids |-> ids, fin |-> fin, State |-> "Pending"]

WorkerInit ==
    [Stopping |-> FALSE, pc |-> "idle", reg |-> "none",
     WorkerStopBeginDone |-> FALSE, stop |-> "none",
     TerminalShutdownSink |-> FALSE,   \* a record is in the sink
     SnapshotOutstanding |-> FALSE, snap |-> "none", seen |-> <<>>]

Ev(type, x) == [Type |-> type, x |-> x]
Post(m, e) == [m EXCEPT !.q = Append(@, e)]
Posted(m, type) == \E i \in DOMAIN m.q : m.q[i].Type = type

(* RelayBufferBudget: one buffer for the posted receive, one for each      *)
(* uncompressed send operation, one for a decompressed send.               *)
Free(m) ==
    LET alive == {o \in DOMAIN m.os : m.os[o].State # "Deleted" /\ m.os[o].ids # <<>>} IN
    env.buffers - m.r.InFlightTcpRecvs
    - (IF env.compress THEN m.r.InFlightTcpSends ELSE Cardinality(alive))

-----------------------------------------------------------------------------
(* The end of a relay.                                                     *)

PublishStopToControl(m) == [m EXCEPT !.h = SignalStop(@)]

ScheduleRelayMaintenance(m) ==
    IF m.r.StopPublished \/ m.k.Stopping THEN m ELSE [m EXCEPT !.r.Maintenance = TRUE]

(* TryRetireRelay: nothing of a closing relay is in flight.  The stream's  *)
(* owner turns terminal whether or not MsQuic has finished with it.        *)
TryRetireRelay(m) ==
    IF \/ ~m.r.Closing \/ m.r.ActiveHandlers # 0 \/ m.r.StopPublished
       \/ Posted(m, "RelayReceiveDrain") \/ Posted(m, "QuicShutdownComplete")
       \/ m.r.InFlightTcpRecvs # 0 \/ m.r.InFlightTcpSends # 0 \/ m.r.InFlightQuicSends # 0
    THEN m
    ELSE PublishStopToControl(
           [m EXCEPT !.r.StopPublished = TRUE, !.r.Mapped = FALSE, !.b.Retired = TRUE,
                     !.s = IF m.r.Owned /\ @.Phase = "Started" THEN PublishTerminal(@) ELSE @])

RequestRelayShutdown(m, intent) ==
    IF m.r.StreamShutdownComplete \/ ~m.r.Owned THEN m
    ELSE [m EXCEPT !.s = RequestShutdown(@, intent)]

(* CancelIoEx, then the socket is closed: what the kernel holds comes back *)
(* as aborted.                                                             *)
BeginTcpCancellation(m) ==
    IF ~m.r.TcpFd THEN m ELSE [m EXCEPT !.r.TcpFd = FALSE, !.t = CloseFd(@)]

ApplyTerminalLogicalDetach(m) ==
    [m EXCEPT !.r.StreamShutdownComplete = TRUE, !.r.Owned = FALSE, !.b.Closing = TRUE]

-----------------------------------------------------------------------------
(* Completing receives towards MsQuic, each byte once.                     *)

ShouldDiscardReceiveView(m, v) ==
    ~m.vs[v].StreamOwner \/ m.s.Phase # "Started" \/ m.s.recvAborted

Minus(n, k) == IF n > k THEN n - k ELSE 0
Rest(view) == Len(view.ids) - view.CompletedLength

AdvanceReceiveView(m, v, n) ==
    [m EXCEPT !.vs[v].PendingCompleteBytes = @ + n, !.vs[v].CompletedLength = @ + n,
              !.vs[v].AccountedLength = @ + n,
              !.r.PendingQuicReceiveBytes = Minus(@, n)]

ActiveFlushDeferredReceiveCompletion(m, v, force) ==
    LET n == m.vs[v].PendingCompleteBytes IN
    IF n = 0 THEN m
    ELSE IF ShouldDiscardReceiveView(m, v) THEN [m EXCEPT !.vs[v].PendingCompleteBytes = 0]
    ELSE IF ~force /\ n < env.batch THEN m
    ELSE [m EXCEPT !.s = ReceiveComplete(@, n), !.vs[v].PendingCompleteBytes = 0]

Settled(view, state) ==
    [view EXCEPT !.CompletionState = state, !.Drained = TRUE,
                 !.CompletedLength = Len(view.ids), !.PendingCompleteBytes = 0]

ReleasePendingReceiveAccounting(m, v) ==
    LET view == m.vs[v] IN
    [m EXCEPT !.r.PendingQuicReceiveBytes = Minus(@, Len(view.ids) - view.AccountedLength),
              !.r.PendingQuicReceiveQueueDepth =
                  IF view.AccountingReleased THEN @ ELSE Minus(@, 1),
              !.vs[v].AccountedLength = Len(view.ids),
              !.vs[v].AccountingReleased = TRUE]

DiscardRemainingReceiveOwnership(m, v) ==
    IF m.vs[v].CompletionState # "Pending" THEN m
    ELSE ReleasePendingReceiveAccounting(
           [m EXCEPT !.vs[v] = Settled(@, "TerminalDiscarded")], v)

ActiveCompleteRemainingReceiveOwnership(m, v) ==
    LET n == Rest(m.vs[v]) IN
    IF ShouldDiscardReceiveView(m, v) THEN DiscardRemainingReceiveOwnership(m, v)
    ELSE IF m.vs[v].CompletionState # "Pending" THEN m
    ELSE [m EXCEPT !.s = IF n > 0 THEN ReceiveComplete(@, n) ELSE @,
                   !.vs[v] = Settled(@, "ActiveCompleted")]

(* FlushPendingQuicReceivesOnClose and DiscardAllPendingQuicReceives. *)
FlushPendingQuicReceivesOnClose(m) ==
    FoldLeft(LAMBDA n, v : ActiveCompleteRemainingReceiveOwnership(
                             ActiveFlushDeferredReceiveCompletion(n, v, TRUE), v),
             [m EXCEPT !.r.PendingReceives = <<>>], m.r.PendingReceives)

DiscardAllPendingQuicReceives(m) ==
    FoldLeft(DiscardRemainingReceiveOwnership,
             [m EXCEPT !.r.PendingReceives = <<>>, !.r.PendingQuicSendRetries = <<>>,
                       !.os = [o \in DOMAIN @ |->
                                 IF o \in Range(m.r.PendingQuicSendRetries)
                                 THEN [@[o] EXCEPT !.State = "Deleted"] ELSE @[o]]],
             m.r.PendingReceives)

-----------------------------------------------------------------------------
(* CloseRelay.  "shutdown": GracefulDrain with ActiveShutdown; "abort":    *)
(* AbortReset with ActiveAbort; "detach": TerminalLogicalDetach.           *)

CloseRelay(m, how) ==
    LET again == IF how = "detach" THEN m.r.StreamShutdownComplete /\ m.r.Closing /\ ~m.r.TcpFd
                 ELSE m.r.StreamShutdownComplete \/ m.r.Closing
        a == CASE how = "detach" -> ApplyTerminalLogicalDetach(m)
               [] how = "abort" -> RequestRelayShutdown(m, "AbortBoth")
               [] how = "shutdown" -> RequestRelayShutdown(m, "GracefulSend")
        c == [BeginTcpCancellation([a EXCEPT !.r.Closing = TRUE]) EXCEPT !.b.Closing = TRUE]
    IN IF again THEN TryRetireRelay(m)
       ELSE TryRetireRelay(ScheduleRelayMaintenance(
              IF how = "detach" THEN DiscardAllPendingQuicReceives(c)
              ELSE FlushPendingQuicReceivesOnClose(c)))

FailRelayFatal(m) == CloseRelay(m, "abort")

HasPendingRelayDrainWork(m) ==
    \/ m.r.InFlightTcpSends # 0 \/ m.r.PendingQuicReceiveQueueDepth # 0
    \/ m.r.PendingQuicReceiveBytes # 0 \/ m.r.PendingReceives # <<>>
    \/ m.r.InFlightQuicSends # 0 \/ m.r.PendingQuicSendRetries # <<>>
    \/ m.r.OutstandingQuicSendBytes # 0
    \/ m.r.QuicSendFinSubmitted /\ ~m.r.QuicSendFinCompleted

HasPendingAfterStreamShutdown(m) ==
    HasPendingRelayDrainWork(m) \/ m.r.InFlightTcpRecvs # 0

(* TqShutdownSend, once. *)
ShutdownTcpWrite(m) ==
    [m EXCEPT !.r.TcpWriteClosed = TRUE,
              !.t.shutWr = @ \/ (m.r.TcpFd /\ ~m.r.TcpWriteClosed /\ ~m.t.reset)]

Drained(m) == m.r.CloseAfterDrained /\ ~HasPendingRelayDrainWork(m)

CloseRelayIfDrained(m) ==
    LET a == ShutdownTcpWrite(m) IN
    IF ~Drained(m) THEN m
    ELSE IF a.r.TcpFd /\ ~a.r.TcpRecvClosed THEN a
    ELSE CloseRelay([a EXCEPT !.r.CloseAfterDrained = FALSE], "shutdown")

(* HandleTcpPostFailure of a WSARecv or WSASend that failed at once. *)
HandleTcpPostFailure(m, error) ==
    IF error = "hard" THEN FailRelayFatal(m)
    ELSE IF HasPendingRelayDrainWork(m)
    THEN CloseRelayIfDrained([m EXCEPT !.r.TcpRecvClosed = TRUE, !.r.CloseAfterDrained = TRUE])
    ELSE CloseRelay(m, "shutdown")

-----------------------------------------------------------------------------
(* TCP to QUIC.  `io' is what the kernel and MsQuic answer in this step.   *)

ShouldPauseTcpReadForQuicBacklog(m) ==
    m.r.OutstandingQuicSendBytes >= m.r.IdealSendBufferBytes
ShouldResumeTcpReadForQuicBacklog(m) ==
    2 * m.r.OutstandingQuicSendBytes < m.r.IdealSendBufferBytes

SetTcpReadBackpressure(m, paused) == [m EXCEPT !.r.TcpReadPausedByQuicBacklog = paused]

PostTcpRecv(m, io) ==
    IF Free(m) = 0 THEN m
    ELSE IF io.post # "ok" THEN HandleTcpPostFailure(m, io.post)
    ELSE [m EXCEPT !.r.receiving = TRUE, !.r.InFlightTcpRecvs = @ + 1,
                   !.r.TcpRecvPosted = TRUE]

MaybePostTcpRecv(m, io) ==
    IF m.r.Closing \/ m.r.TcpRecvClosed THEN m
    ELSE IF ShouldPauseTcpReadForQuicBacklog(m) THEN SetTcpReadBackpressure(m, TRUE)
    ELSE IF m.r.TcpReadPausedByQuicBacklog /\ ~ShouldResumeTcpReadForQuicBacklog(m) THEN m
    ELSE LET a == SetTcpReadBackpressure(m, FALSE) IN
         IF ~m.r.TcpFd \/ m.r.TcpRecvPosted THEN a ELSE PostTcpRecv(a, io)

(* TrySubmitQuicSendOperation; its failure is the operation's deletion.    *)
(* A refused operation waits at the end of PendingQuicSendRetries.         *)
TrySubmitQuicSendOperation(m, o, io) ==
    LET deleted == [m EXCEPT !.os[o].State = "Deleted"] IN
    IF m.r.Closing \/ ~m.r.Owned \/ ~TryAcquireApi(m.s) \/ io.send = "failed" THEN deleted
    ELSE CASE io.send = "accepted" ->
                [m EXCEPT !.os[o].State = "InFlight", !.r.InFlightQuicSends = @ + 1,
                          !.r.OutstandingQuicSendBytes = @ + Len(m.os[o].ids),
                          !.r.QuicSendFinSubmitted = @ \/ m.os[o].fin,
                          !.s = SendAccepted(@, o, m.os[o].ids, m.os[o].fin)]
           [] io.send = "refused" ->
                SetTcpReadBackpressure(
                  [m EXCEPT !.s = SendRefused(@), !.r.PendingQuicSendRetries = Append(@, o)],
                  TRUE)
           [] io.send = "teardown" ->
                CloseRelayIfDrained([deleted EXCEPT !.r.CloseAfterDrained = TRUE])
           [] io.send = "fatal" -> FailRelayFatal(deleted)

Submitted(m, o) == m.os[o].State # "Deleted"

(* RetryPendingQuicSends: one operation for each call. *)
Resubmitted(m, o, io) ==
    IF Submitted(m, o) /\ m.r.PendingQuicSendRetries = <<>> THEN MaybePostTcpRecv(m, io) ELSE m

RetryPendingQuicSends(m, io) ==
    LET o == Head(m.r.PendingQuicSendRetries) IN
    IF m.r.Closing \/ m.r.PendingQuicSendRetries = <<>> THEN m
    ELSE Resubmitted(TrySubmitQuicSendOperation(
           [m EXCEPT !.r.PendingQuicSendRetries = Tail(@)], o, io), o, io)

CompleteQuicSendAccounting(m, o) ==
    [m EXCEPT !.os[o].State = "Deleted", !.r.InFlightQuicSends = @ - 1,
              !.r.OutstandingQuicSendBytes = Minus(@, Len(m.os[o].ids))]

(* After the FIN of a client that has been answered, the relay closes when *)
(* it is idle.                                                             *)
ProcessQuicSendCompleteOperation(m, o, io) ==
    LET a == CompleteQuicSendAccounting(m, o)
        idle == /\ ~m.r.Closing /\ m.r.TcpRecvClosed /\ m.r.PendingQuicReceiveQueueDepth = 0
                /\ m.r.InFlightTcpSends = 0 /\ m.r.PendingQuicReceiveBytes = 0
                /\ m.r.TcpWriteBytes > 0
        c == IF m.os[o].fin
             THEN [a EXCEPT !.r.QuicSendFinCompleted = TRUE,
                            !.r.CloseAfterDrained = @ \/ idle]
             ELSE a
    IN IF ~m.r.Mapped THEN [m EXCEPT !.os[o].State = "Deleted"]
       ELSE IF m.r.Closing THEN TryRetireRelay(ScheduleRelayMaintenance(c))
       ELSE ScheduleRelayMaintenance(CloseRelayIfDrained(
              MaybePostTcpRecv(RetryPendingQuicSends(c, io), io)))

HandleQuicIdealSendBuffer(m, n, io) ==
    IF ~m.r.Mapped THEN m
    ELSE ScheduleRelayMaintenance(MaybePostTcpRecv(RetryPendingQuicSends(
           [m EXCEPT !.r.IdealSendBufferBytes = IF n > @ THEN n ELSE @], io), io))

Submit(m, ids, fin, io) ==
    TrySubmitQuicSendOperation([m EXCEPT !.os = Append(@, NewOp(ids, fin))],
                               Len(m.os) + 1, io)

(* HandleTcpReadClosed: the FIN, with what the compressor still holds.     *)
(* Only a FIN that carries data closes the relay when it is not taken.     *)
ReadClosed(m, out) ==
    IF out # <<>> /\ ~Submitted(m, Len(m.os)) THEN CloseRelay(m, "shutdown") ELSE m

HandleTcpReadClosed(m, io) ==
    LET out == m.r.Compressor IN
    IF m.r.TcpRecvClosed THEN m
    ELSE ReadClosed(Submit([m EXCEPT !.r.TcpRecvClosed = TRUE, !.r.Compressor = <<>>],
                           out, TRUE, io), out)

(* HandleTcpRecv of the chunks ids; the compressor puts out c of those it  *)
(* has.                                                                    *)
HandleTcpRecv(m, ids, c, io) ==
    LET done == [m EXCEPT !.r.InFlightTcpRecvs = @ - 1]
        a == [done EXCEPT !.r.TcpRecvPosted = FALSE]
        all == m.r.Compressor \o ids
        d == Submit([a EXCEPT !.r.Compressor = SubSeq(all, c + 1, Len(all))],
                    SubSeq(all, 1, c), FALSE, io)
    IN IF m.r.Closing THEN TryRetireRelay(done)
       ELSE IF ids = <<>> THEN HandleTcpReadClosed(a, io)
       ELSE IF ~Submitted(d, Len(d.os)) THEN CloseRelay(d, "shutdown")
       ELSE ScheduleRelayMaintenance(MaybePostTcpRecv(d, io))

DowngradeIocpCompletion(m) ==
    IF m.r.Closing THEN TryRetireRelay(m) ELSE CloseRelay(m, "shutdown")

(* Run: a failed WSARecv.  A teardown error ends reading and no more; only *)
(* another error fails the relay.                                          *)
TcpRecvFails(m, error) ==
    LET a == [m EXCEPT !.r.InFlightTcpRecvs = @ - 1] IN
    IF error = "teardown" THEN CloseRelayIfDrained([a EXCEPT !.r.TcpRecvClosed = TRUE])
    ELSE IF a.r.Closing \/ a.r.StreamShutdownComplete \/ a.r.TcpRecvClosed \/ ~a.r.TcpFd
    THEN DowngradeIocpCompletion(a)
    ELSE FailRelayFatal(a)

-----------------------------------------------------------------------------
(* QUIC to TCP.                                                            *)

SetQuicReceiveEnabled(m, on) ==
    IF m.r.QuicReceivePaused = ~on THEN m
    ELSE [m EXCEPT !.r.QuicReceivePaused = ~on,
                   !.s.enabled = IF m.r.Owned /\ TryAcquireApi(m.s) THEN on ELSE @]

MaybeResumeQuicReceive(m) ==
    IF \/ m.k.Stopping \/ m.r.Closing \/ ~m.r.QuicReceivePaused
       \/ m.r.TcpReadPausedByQuicBacklog \/ m.r.InFlightTcpSends # 0
       \/ m.r.PendingQuicReceiveQueueDepth # 0
       \/ 2 * m.r.PendingQuicReceiveBytes >= env.recv
    THEN m ELSE SetQuicReceiveEnabled(m, TRUE)

EnqueueDeferredQuicReceiveView(m, v) ==
    LET a == [m EXCEPT !.r.PendingReceives = Append(@, v),
                       !.r.PendingQuicReceiveBytes = @ + Len(m.vs[v].ids),
                       !.r.PendingQuicReceiveQueueDepth = @ + 1]
    IN IF a.r.PendingQuicReceiveBytes >= env.recv THEN SetQuicReceiveEnabled(a, FALSE) ELSE a

(* ScheduleRelayReceiveDrainOrFail. *)
ScheduleRelayReceiveDrain(m) ==
    IF m.r.Closing \/ m.r.ReceiveDrainQueued THEN m
    ELSE IF m.k.Stopping THEN FailRelayFatal(m)
    ELSE Post([m EXCEPT !.r.ReceiveDrainQueued = TRUE], Ev("RelayReceiveDrain", 0))

(* FinishReceiveView: the view leaves PendingReceives. *)
FinishReceiveView(m, v) ==
    LET a == ReleasePendingReceiveAccounting(
               [m EXCEPT !.r.PendingReceives = SelectSeq(@, LAMBDA w : w # v)], v)
        c == IF m.vs[v].fin
             THEN ShutdownTcpWrite([a EXCEPT !.r.CloseAfterDrained = TRUE]) ELSE a
        d == MaybeResumeQuicReceive(c)
    IN IF v \notin Range(m.r.PendingReceives) THEN ScheduleRelayMaintenance(m)
       ELSE ScheduleRelayMaintenance(CloseRelayIfDrained(
              IF d.r.PendingReceives # <<>> THEN ScheduleRelayReceiveDrain(d) ELSE d))

CompletePendingQuicReceive(m, v) ==
    FinishReceiveView(
      IF ShouldDiscardReceiveView(m, v) THEN DiscardRemainingReceiveOwnership(m, v)
      ELSE ActiveCompleteRemainingReceiveOwnership(
             ActiveFlushDeferredReceiveCompletion(m, v, TRUE), v), v)

(* WSASend: pending, or failed at once.  A post answers whether it held.   *)
Yes(m) == [m |-> m, ok |-> TRUE]
No(m) == [m |-> m, ok |-> FALSE]

WSASend(m, v, ids, io) ==
    IF io.post # "ok" THEN No(HandleTcpPostFailure(m, io.post))
    ELSE Yes([m EXCEPT !.r.InFlightTcpSends = @ + 1, !.vs[v].TcpSendPending = TRUE,
                       !.r.sending = ids, !.r.sendView = v])

PostTcpSendFromReceiveView(m, v, io) ==
    LET view == m.vs[v] IN
    IF m.r.Closing THEN No(m)
    ELSE IF m.r.TcpWriteClosed THEN Yes(CloseRelayIfDrained(CompletePendingQuicReceive(m, v)))
    ELSE IF Rest(view) = 0 THEN Yes(CompletePendingQuicReceive(m, v))
    ELSE WSASend(m, v, SubSeq(view.ids, view.CompletedLength + 1, Len(view.ids)), io)

(* The compressed path takes all the input there is and sends one buffer   *)
(* of output at a time.  The decompressor may keep back any part of what   *)
(* it has taken in, at the end of the frame nothing.                       *)
PostTcpSendFromCompressedReceiveView(m, v, io) ==
    LET view == m.vs[v]
        all == m.r.Decompressor \o SubSeq(view.ids, view.CompletedLength + 1, Len(view.ids))
        out == all # <<>> /\ (Last(all) = env.down \/ io.out)
        a == MaybeResumeQuicReceive(
               ActiveFlushDeferredReceiveCompletion(
                 AdvanceReceiveView(m, v, Rest(view)), v, FALSE))
    IN IF m.r.Closing THEN No(m)
       ELSE IF m.r.TcpWriteClosed
       THEN Yes(CloseRelayIfDrained(CompletePendingQuicReceive(m, v)))
       ELSE IF Free(m) = 0 THEN Yes(m)
       ELSE IF io.bad THEN No(m)
       ELSE IF out
       THEN WSASend([a EXCEPT !.r.Decompressor = SubSeq(all, 3, Len(all))], v,
                    IF Len(all) < 2 THEN all ELSE SubSeq(all, 1, 2), io)
       ELSE Yes(CompletePendingQuicReceive([a EXCEPT !.r.Decompressor = all], v))

PostTcpSend(m, v, io) ==
    IF env.compress THEN PostTcpSendFromCompressedReceiveView(m, v, io)
    ELSE PostTcpSendFromReceiveView(m, v, io)

(* DrainRelayReceives: the head view only, and none while it is being      *)
(* sent; a closing relay completes all of them.                            *)
PostedOrClosed(z, v) ==
    IF z.ok THEN z.m ELSE CloseRelay(CompletePendingQuicReceive(z.m, v), "shutdown")

DrainRelayReceives(m, io) ==
    LET v == Head(m.r.PendingReceives) IN
    IF m.r.PendingReceives = <<>> THEN MaybeResumeQuicReceive(m)
    ELSE IF m.r.Closing
    THEN FoldLeft(LAMBDA n, w : IF n.vs[w].TcpSendPending \/ Head(n.r.PendingReceives) # w
                                THEN n ELSE CompletePendingQuicReceive(n, w),
                  m, m.r.PendingReceives)
    ELSE IF m.vs[v].TcpSendPending \/ ~m.r.TcpFd THEN m
    ELSE PostedOrClosed(PostTcpSend(m, v, io), v)

(* HandleTcpSend: the kernel took the first n chunks of what was posted    *)
(* for view v, and `left' is the rest.  Uncompressed, a view is advanced   *)
(* by what was sent; compressed, by what the decompressor has taken in, so *)
(* the rest of the buffer is sent again.                                   *)
HandleTcpSend(m, v, n, left, io) ==
    LET a == [m EXCEPT !.r.InFlightTcpSends = @ - 1, !.vs[v].TcpSendPending = FALSE]
        w == [a EXCEPT !.r.TcpWriteBytes = @ + n]
        done(z) == IF z.ok THEN ScheduleRelayMaintenance(ScheduleRelayReceiveDrain(z.m))
                   ELSE CloseRelay(z.m, "shutdown")
    IN IF a.vs[v].Drained THEN ScheduleRelayMaintenance(a)
       ELSE IF env.compress /\ left # <<>>
       THEN IF io.post = "ok" THEN done(WSASend(w, v, left, io))
            ELSE ScheduleRelayMaintenance(
                   HandleTcpPostFailure(CompletePendingQuicReceive(w, v), io.post))
       ELSE IF left = <<>> /\ (Drained(w) \/ w.r.Closing)
       THEN ScheduleRelayMaintenance(CloseRelayIfDrained(w))
       ELSE IF env.compress THEN done(PostTcpSendFromCompressedReceiveView(w, v, io))
       ELSE done(PostTcpSendFromReceiveView(
              ActiveFlushDeferredReceiveCompletion(AdvanceReceiveView(w, v, n), v, FALSE), v, io))

(* Run: a failed WSASend. *)
TcpSendFailed(m, error) ==
    IF error = "teardown"
    THEN IF m.r.Closing \/ m.r.CloseAfterDrained THEN m ELSE CloseRelay(m, "shutdown")
    ELSE IF m.r.Closing \/ m.r.StreamShutdownComplete \/ m.r.TcpWriteClosed \/ ~m.r.TcpFd
    THEN DowngradeIocpCompletion(m) ELSE FailRelayFatal(m)

TcpSendFails(m, v, error) ==
    TcpSendFailed(CompletePendingQuicReceive([m EXCEPT !.r.InFlightTcpSends = @ - 1], v), error)

-----------------------------------------------------------------------------
(* What the stream's callbacks post.                                       *)

ProcessQuicPeerAborted(m, side) ==
    LET a == RequestRelayShutdown(m, IF side = "send" THEN "AbortReceive" ELSE "AbortSend") IN
    IF ~m.r.Mapped \/ m.r.StreamShutdownComplete THEN m
    ELSE IF ~HasPendingAfterStreamShutdown(a) THEN CloseRelay(a, "shutdown")
    ELSE CloseRelayIfDrained([a EXCEPT !.r.CloseAfterDrained = TRUE])

ProcessQuicPeerSendShutdown(m) ==
    LET empty == m.r.PendingReceives = <<>> /\ m.r.PendingQuicReceiveQueueDepth = 0
                 /\ m.r.PendingQuicReceiveBytes = 0
    IN IF ~m.r.Mapped \/ m.r.StreamShutdownComplete THEN m
       ELSE CloseRelayIfDrained(
              [IF empty THEN ShutdownTcpWrite(m) ELSE m EXCEPT !.r.CloseAfterDrained = TRUE])

ProcessQuicShutdownComplete(m) ==
    LET pending == HasPendingAfterStreamShutdown(m)
        a == CloseRelay(IF pending THEN [m EXCEPT !.r.CloseAfterDrained = TRUE] ELSE m, "detach")
    IN IF m.r.StreamShutdownComplete THEN TryRetireRelay(m)
       ELSE IF pending THEN TryRetireRelay(CloseRelayIfDrained(a)) ELSE a

(* ProcessTerminalShutdownComplete; `found' is the record's relay. *)
ProcessTerminalShutdownComplete(m, found) ==
    IF found \/ m.r.Mapped THEN ProcessQuicShutdownComplete(m) ELSE PublishStopToControl(m)

DrainTerminalShutdownSink(m) ==
    IF ~m.k.TerminalShutdownSink THEN m
    ELSE ProcessTerminalShutdownComplete([m EXCEPT !.k.TerminalShutdownSink = FALSE], TRUE)

(* RelayReceiveReady: a view whose relay is gone is completed at once. *)
ReceiveReady(m, v, io) ==
    IF ~m.r.Mapped THEN ActiveCompleteRemainingReceiveOwnership(m, v)
    ELSE DrainRelayReceives(EnqueueDeferredQuicReceiveView(m, v), io)

-----------------------------------------------------------------------------
(* The maintenance queue.                                                  *)

RelayNeedsMaintenance(m) ==
    /\ ~m.r.StopPublished
    /\ \/ m.r.QuicReceivePaused /\ (\/ m.r.PendingQuicReceiveQueueDepth # 0
                                    \/ 2 * m.r.PendingQuicReceiveBytes < env.recv)
       \/ m.r.Closing \/ m.r.CloseAfterDrained \/ m.r.TcpReadPausedByQuicBacklog
       \/ m.r.PendingQuicSendRetries # <<>> \/ m.r.PendingQuicReceiveQueueDepth # 0

(* EnqueueFullMaintenanceScan, every 256th turn. *)
EnqueueFullMaintenanceScan(m) ==
    IF m.r.Mapped /\ RelayNeedsMaintenance(m) THEN ScheduleRelayMaintenance(m) ELSE m

(* DrainPerRelayMaintenance.  Within its budget it repeats itself; what    *)
(* the kernel and MsQuic answer is the same each time.                     *)
Reschedule(m) == IF RelayNeedsMaintenance(m) THEN ScheduleRelayMaintenance(m) ELSE m

DrainPerRelayMaintenance(m, io) ==
    LET a == [m EXCEPT !.r.Maintenance = FALSE] IN
    IF ~m.r.Maintenance THEN m
    ELSE IF m.r.StopPublished THEN a
    ELSE Reschedule(TryRetireRelay(CloseRelayIfDrained(MaybeResumeQuicReceive(
           MaybePostTcpRecv(RetryPendingQuicSends(a, io), io)))))

-----------------------------------------------------------------------------
(* RegisterRelayWithIdLocal, on the worker: PrepareRelay, PublishRelayTarget *)
(* and CommitRelay.  Once the route is published, callbacks may run between  *)
(* its steps.                                                              *)

FailManagedBinding(m) ==
    PublishStopToControl(
      [m EXCEPT !.b.Activation = "Failed", !.b.PrecommitReceives = <<>>, !.b.Closing = TRUE,
                !.vs = [v \in DOMAIN @ |-> IF v \in Range(m.b.PrecommitReceives)
                                           THEN Settled(@[v], "TerminalDiscarded") ELSE @[v]]])

(* WithdrawPublishedRelayTarget. *)
Withdraw(m) == [m EXCEPT !.s = IF @.Phase = "Started" THEN PublishTerminal(@) ELSE @]

(* RollbackPreparedRelay, and the failed activation in CommitRelay: the    *)
(* stream is asked to shut down only while its owner is not terminal.      *)
Rollback(m, published) ==
    LET a == FailManagedBinding(IF published THEN Withdraw(m) ELSE m) IN
    RequestRelayShutdown(
      BeginTcpCancellation([a EXCEPT !.r.Mapped = FALSE, !.k.reg = "failed"]), "AbortBoth")

(* CreateIoCompletionPort fails when env.control is "filterFails"; until   *)
(* then the socket is the tunnel's.                                        *)
PrepareRelay(m) ==
    LET a == [m EXCEPT !.h.fdOwner = "relay", !.r.Mapped = TRUE, !.r.TcpFd = TRUE,
                       !.r.Owned = TRUE, !.r.IdealSendBufferBytes = env.sends]
    IN IF m.k.Stopping \/ m.s.Phase # "Started" \/ env.control = "filterFails"
       THEN [m EXCEPT !.k.reg = "failed"]
       ELSE IF ~CanPublishTarget(a.s, a.s.RouteGeneration) THEN Rollback(a, FALSE)
       ELSE [a EXCEPT !.s = PublishTarget(@, "binding"), !.k.pc = "commit"]

CommitPosted(m) ==
    IF ~m.r.TcpRecvPosted THEN Rollback(m, TRUE)
    ELSE [m EXCEPT !.r.Committed = TRUE, !.k.pc = "activate"]

CommitRelay(m, io) ==
    IF m.s.Phase # "Started" \/ m.b.Closing THEN Rollback(m, TRUE)
    ELSE CommitPosted(MaybePostTcpRecv(m, io))

(* ActivateManagedBinding: what arrived before is queued, and waits there  *)
(* for the next event of the relay.                                        *)
ActivateManagedBinding(m) ==
    ScheduleRelayMaintenance(
      FoldLeft(EnqueueDeferredQuicReceiveView,
               [m EXCEPT !.b.Activation = "Active", !.b.PrecommitReceives = <<>>,
                         !.k.reg = "ok"],
               m.b.PrecommitReceives))

-----------------------------------------------------------------------------
(* The stop of the worker, on its own thread.                              *)

SwitchRelayTargetToShutdownSink(m) ==
    IF ~m.r.Owned THEN m
    ELSE [m EXCEPT !.s = IF CanPublishTarget(@, @.RouteGeneration)
                         THEN PublishTarget(@, "sink") ELSE @,
                   !.b.Closing = TRUE]

NudgeClosingRelayRetirement(m) == IF m.r.Mapped THEN TryRetireRelay(m) ELSE m

WorkerIocpOwnershipIsZero(m) ==
    /\ ~m.k.TerminalShutdownSink /\ ~Posted(m, "QuicShutdownComplete")
    /\ m.r.Mapped => /\ m.r.ActiveHandlers = 0 /\ ~Posted(m, "RelayReceiveDrain")
                     /\ m.r.InFlightTcpRecvs = 0 /\ m.r.InFlightTcpSends = 0
                     /\ m.r.InFlightQuicSends = 0
    /\ ~m.r.Maintenance

FinalizeWorkerStopOnWorkerThread(m) ==
    [m EXCEPT !.s = IF m.r.Mapped /\ m.r.Owned /\ @.Phase = "Started"
                    THEN PublishTerminal(@) ELSE @,
              !.r.Mapped = FALSE, !.b.Retired = FALSE, !.k.stop = "closing"]

FinalizeIfIdle(m) ==
    IF m.k.Stopping /\ WorkerIocpOwnershipIsZero(m) THEN FinalizeWorkerStopOnWorkerThread(m)
    ELSE m

BeginWorkerStopOnWorkerThread(m, io) ==
    LET a == IF m.r.Mapped /\ m.r.Committed
             THEN CloseRelay(BeginTcpCancellation(FlushPendingQuicReceivesOnClose(
                    SwitchRelayTargetToShutdownSink(m))), "shutdown")
             ELSE m
    IN [NudgeClosingRelayRetirement(DrainPerRelayMaintenance(
          DrainTerminalShutdownSink(a), io)) EXCEPT !.b.Retired = FALSE,
                                                    !.k.WorkerStopBeginDone = TRUE]

-----------------------------------------------------------------------------
(* Run.                                                                    *)

(* The head of the loop, and the same at the tail after a handler: what    *)
(* is left to the maintenance queue and to the sink.                       *)
Housekeeping(m, io) ==
    DrainPerRelayMaintenance(DrainTerminalShutdownSink(DrainPerRelayMaintenance(m, io)), io)

(* A handler runs under HandlerGuard: its relay is not retired before it   *)
(* has returned and the tail of the loop has passed.                       *)
Hold(m) == IF m.r.Mapped THEN [m EXCEPT !.r.ActiveHandlers = 1] ELSE m
LoopTail(m, io) == FinalizeIfIdle(NudgeClosingRelayRetirement(Housekeeping(m, io)))
Release(m) ==
    IF m.r.ActiveHandlers = 0 THEN m ELSE TryRetireRelay([m EXCEPT !.r.ActiveHandlers = 0])

(* BuildSnapshotLocal: the relay as its worker sees it. *)
BuildSnapshotLocal(m) ==
    [Mapped |-> m.r.Mapped, PendingQuicReceiveBytes |-> m.r.PendingQuicReceiveBytes,
     OutstandingQuicSendBytes |-> m.r.OutstandingQuicSendBytes]

(* CompleteSnapshotCommand, whether or not its caller still waits. *)
CompleteSnapshotCommand(m) ==
    LET result == IF m.k.Stopping THEN "Incomplete" ELSE "Complete" IN
    [m EXCEPT !.k.SnapshotOutstanding = FALSE,
              !.k.snap = IF @ = "Cancelled" THEN @ ELSE result,
              !.k.seen = IF m.k.snap = "Cancelled" \/ m.k.Stopping THEN @
                         ELSE <<BuildSnapshotLocal(m)>>]

Handler(m, e, c, io) ==
    CASE e.Type = "TcpRecv" ->
           IF e.x.error = "none" THEN HandleTcpRecv(m, e.x.ids, c, io)
           ELSE TcpRecvFails(m, e.x.error)
      [] e.Type = "TcpSend" ->
           IF e.x.error = "none" THEN HandleTcpSend(m, e.x.v, e.x.n, e.x.left, io)
           ELSE TcpSendFails(m, e.x.v, e.x.error)
      [] e.Type = "RelayReceiveReady" -> ReceiveReady(m, e.x, io)
      [] e.Type = "RelayReceiveDrain" ->
           DrainRelayReceives([m EXCEPT !.r.ReceiveDrainQueued = FALSE], io)
      [] e.Type = "QuicIdealSendBuffer" -> HandleQuicIdealSendBuffer(m, e.x, io)
      [] e.Type = "QuicPeerAborted" -> ProcessQuicPeerAborted(m, e.x)
      [] e.Type = "QuicPeerSendShutdown" -> ProcessQuicPeerSendShutdown(m)
      [] e.Type = "QuicShutdownComplete" -> ProcessTerminalShutdownComplete(m, e.x)
      [] e.Type = "CloseRelay" -> CloseRelay(m, "shutdown")

Handle(m, e, c, io) ==
    CASE e.Type = "RegisterRelay" -> PrepareRelay(m)
      [] e.Type = "Snapshot" -> CompleteSnapshotCommand(m)
      [] e.Type = "StopWorker" -> FinalizeIfIdle(BeginWorkerStopOnWorkerThread(m, io))
      [] e.Type = "QuicSendComplete" ->
           LoopTail(ProcessQuicSendCompleteOperation(m, e.x, io), io)
      [] e.Type = "CloseRelay" /\ ~m.r.Mapped -> m
      [] OTHER -> Release(LoopTail(Handler(Hold(m), e, c, io), io))

(* What the kernel and MsQuic may answer in one step.                      *)
SendAnswers ==
    {"accepted"} \cup (IF MayRefuse(stream) THEN {"refused"} ELSE {})
                 \cup (IF SendCanceled(stream) THEN {"teardown"} ELSE {})
                 \cup (IF env.fault = "allocFails" THEN {"failed", "fatal"} ELSE {})

IO ==
    [send : SendAnswers, post : IF tcp.reset THEN {"ok", "teardown", "hard"} ELSE {"ok"},
     out : IF env.compress THEN BOOLEAN ELSE {FALSE},
     bad : {FALSE} \cup {env.compress /\ env.fault = "corrupt"}]

Running == worker.pc = "idle" /\ worker.stop \in {"none", "stopping"}

(* Before the next wait; from time to time all relays are looked at.       *)
NextTurn(m, scan, io) ==
    IF m.k.pc # "idle" THEN m
    ELSE Housekeeping(IF scan THEN EnqueueFullMaintenanceScan(m) ELSE m, io)

(* GetQueuedCompletionStatus returns an operation. *)
Dequeue ==
    /\ Running /\ queue # <<>>
    /\ \E io \in IO :
       \E c \in IF env.compress /\ Head(queue).Type = "TcpRecv"
                THEN 1..(Len(relay.Compressor) + 1) ELSE {1} :
       \E scan \in BOOLEAN :
         Becomes(NextTurn(Handle([Now EXCEPT !.q = Tail(@)], Head(queue), c, io), scan, io))

(* It times out, which it does only while the worker is stopping. *)
StopPoll ==
    /\ Running /\ worker.Stopping /\ queue = <<>>
    /\ \E io \in IO :
         Becomes(FinalizeIfIdle(NudgeClosingRelayRetirement(Housekeeping(Now, io))))

CommitPreparedRelay ==
    /\ worker.pc = "commit"
    /\ \E io \in IO :
         Becomes(NextTurn(CommitRelay([Now EXCEPT !.k.pc = "idle"], io), FALSE, io))

(* The receive of an activation may find no buffer. *)
ActivationFails ==
    /\ worker.pc = "commit" /\ env.fault = "allocFails"
    /\ Becomes(Rollback([Now EXCEPT !.k.pc = "idle"], TRUE))

ActivateCommittedRelay ==
    /\ worker.pc = "activate"
    /\ \E io \in IO :
         Becomes(Housekeeping(ActivateManagedBinding([Now EXCEPT !.k.pc = "idle"]), io))

-----------------------------------------------------------------------------
(* The kernel finishes the operation it holds.  After CancelIoEx and the   *)
(* close it is aborted; after a reset by the peer it fails with an error   *)
(* the worker calls a teardown or with another one.                        *)

Errors == IF ~tcp.open THEN {"teardown"} ELSE {"teardown", "hard"}

TcpRecvCompletes ==
    /\ relay.receiving
    /\ LET Done(m, ids, error) ==
             Post([m EXCEPT !.r.receiving = FALSE],
                  Ev("TcpRecv", [ids |-> ids, error |-> error]))
       IN \/ /\ tcp.open /\ ~tcp.reset /\ tcp.read < env.up
             /\ Becomes(Done([Now EXCEPT !.t.read = @ + 1], <<tcp.read + 1>>, "none"))
          \/ /\ tcp.open /\ ~tcp.reset /\ tcp.read = env.up
             /\ Becomes(Done([Now EXCEPT !.t.eof = TRUE], <<>>, "none"))
          \/ /\ ~tcp.open \/ tcp.reset
             /\ \E error \in Errors : Becomes(Done(Now, <<>>, error))

TcpSendCompletes ==
    /\ relay.sending # <<>>
    /\ LET all == relay.sending
           Done(m, n, error) ==
             Post([m EXCEPT !.r.sending = <<>>],
                  Ev("TcpSend", [v |-> relay.sendView, n |-> n, error |-> error,
                                 left |-> SubSeq(all, n + 1, Len(all))]))
       IN \/ /\ tcp.open /\ ~tcp.reset
             /\ \E n \in 1..Len(all) :
                  Becomes(Done([Now EXCEPT !.t.out = @ \o SubSeq(all, 1, n)], n, "none"))
          \/ /\ ~tcp.open \/ tcp.reset
             /\ \E error \in Errors : Becomes(Done(Now, 0, error))

-----------------------------------------------------------------------------
(* MsQuic's callbacks, one at a time for a stream.                         *)

OnBinding(s) == s.Target = "binding"
Serial == binding.cb = NoCallback
Admitted == OnBinding(stream) /\ binding.EndpointOpen /\ ~binding.Closing

(* ResolveRelayForCallback. *)
Resolved == relay.Mapped /\ ~relay.Closing

(* PostCallbackOperationById: refused once the worker is stopping. *)
PostCallback(m, e) == IF m.k.Stopping THEN m ELSE Post(m, e)

TakeAll(m, n, fin) == [m EXCEPT !.s = Consumed(@, n, fin)]

(* The peer's first bytes come before the activation only if env.early. *)
ReceiveBegins ==
    /\ Serial /\ stream.Target \in {"binding", "sink"}
    /\ env.early \/ binding.Activation # "Prepared"
    /\ \E n \in 0..2, fin \in BOOLEAN :
       /\ CanIndicate(stream, n, fin)
       /\ Becomes(IF Admitted
                  THEN [Now EXCEPT !.b.cb = [at |-> "queue", n |-> n, fin |-> fin]]
                  ELSE TakeAll(Now, n, fin))

PrecommitBytes(m) ==
    FoldLeft(LAMBDA n, v : n + Len(m.vs[v].ids), 0, m.b.PrecommitReceives)

BuildDeferredQuicReceiveView(m, n, fin) ==
    [m EXCEPT !.s = Indicated(@, n, fin),
              !.vs = Append(@, NewView(Ids(m.s.indicated + 1, m.s.indicated + n), fin,
                                       Resolved))]

(* QueuePrecommitQuicReceive takes it. *)
Precommit(m, n) ==
    /\ Resolved /\ m.b.Activation = "Prepared" /\ ~m.b.Closing
    /\ PrecommitBytes(m) + n <= env.recv

ShouldRejectReceiveInCallback(m, n, fin) ==
    /\ ~fin /\ n > 0 /\ Resolved
    /\ m.r.PendingQuicReceiveBytes >= env.recv \/ n >= 2 * env.recv

(* A rejected receive is consumed; PauseQuicReceiveFromCallback then takes *)
(* two steps.                                                              *)
ReceiveQueues ==
    /\ binding.cb.at = "queue"
    /\ LET n == binding.cb.n
           fin == binding.cb.fin
           m == [Now EXCEPT !.b.cb = NoCallback]
           a == BuildDeferredQuicReceiveView(m, n, fin)
       IN Becomes(
            IF Precommit(m, n) THEN [a EXCEPT !.b.PrecommitReceives = Append(@, Len(a.vs))]
            ELSE IF ShouldRejectReceiveInCallback(m, n, fin)
            THEN [TakeAll(m, n, fin) EXCEPT
                    !.r.QuicReceivePaused = TRUE,
                    !.b.cb = IF relay.QuicReceivePaused THEN @
                             ELSE [NoCallback EXCEPT !.at = "pause"]]
            ELSE IF worker.Stopping THEN TakeAll(m, n, fin)
            ELSE Post(a, Ev("RelayReceiveReady", Len(a.vs))))

ReceivePauses ==
    /\ binding.cb.at = "pause"
    /\ Becomes([Now EXCEPT !.b.cb = NoCallback,
                           !.s.enabled = IF TryAcquireApi(stream) THEN FALSE ELSE @])

(* SEND_COMPLETE goes to the binding whatever the target is by now.  A     *)
(* worker that is stopping takes no more operations: the callback settles  *)
(* the accounts itself.                                                    *)
OnSendComplete(m, o) ==
    IF ~m.b.EndpointOpen THEN m
    ELSE IF ~m.k.Stopping THEN Post(m, Ev("QuicSendComplete", o))
    ELSE IF m.r.Mapped THEN TryRetireRelay(CompleteQuicSendAccounting(m, o))
    ELSE [m EXCEPT !.os[o].State = "Deleted"]

SendComplete ==
    /\ Serial /\ CanSendComplete(stream)
    /\ Becomes(OnSendComplete([Now EXCEPT !.s.flight = Tail(@)], Head(stream.flight)))

IdealSendBuffer ==
    /\ env.control = "idealSendBuffer" /\ Serial /\ Open(stream) /\ Admitted /\ Resolved
    /\ relay.IdealSendBufferBytes = env.sends /\ ~Posted(Now, "QuicIdealSendBuffer")
    /\ Becomes(PostCallback(Now, Ev("QuicIdealSendBuffer", env.sends + 1)))

PeerSendShutdown ==
    /\ Serial /\ CanPeerSendShutdown(stream)
    /\ LET a == [Now EXCEPT !.s.peerShut = TRUE] IN
       Becomes(IF Admitted /\ Resolved THEN PostCallback(a, Ev("QuicPeerSendShutdown", 0)) ELSE a)

SendShutdownComplete ==
    /\ Serial /\ CanSendShutdownComplete(stream)
    /\ Becomes([Now EXCEPT !.s.sendDone = TRUE,
                           !.r.QuicSendFinCompleted = @ \/ (Admitted /\ Resolved)])

PeerAborted ==
    /\ Serial /\ Open(stream) /\ stream.peerAbort = "none"
    /\ \E side \in {"send", "receive"} :
       /\ env.fault = IF side = "send" THEN "peerAbortsSend" ELSE "peerAbortsReceive"
       /\ LET a == [Now EXCEPT !.s.peerAbort = side] IN
          Becomes(IF Admitted /\ Resolved THEN PostCallback(a, Ev("QuicPeerAborted", side)) ELSE a)

(* SHUTDOWN_COMPLETE: the owner turns terminal, the binding is sealed, and *)
(* the cleanup is posted once, or left in the sink for a stopping worker.  *)
PostTerminalShutdownComplete(m) ==
    LET a == [m EXCEPT !.b.Closing = TRUE, !.b.TerminalShutdownPosted = TRUE] IN
    IF m.b.TerminalShutdownPosted THEN [m EXCEPT !.b.Closing = TRUE]
    ELSE IF m.k.Stopping
    THEN PublishStopToControl([a EXCEPT !.k.TerminalShutdownSink = TRUE])
    ELSE Post(a, Ev("QuicShutdownComplete", m.r.Mapped))

ShutdownComplete ==
    /\ Serial /\ CanShutdownComplete(stream)
    /\ LET a == [Now EXCEPT !.s = PublishTerminal(@)] IN
       Becomes(IF OnBinding(stream) /\ binding.EndpointOpen
               THEN PostTerminalShutdownComplete(a)
               ELSE IF stream.Target = "sink" THEN PublishStopToControl(a) ELSE a)

-----------------------------------------------------------------------------
(* The caller of TqRelayStart and TqRelayStop.                             *)

TqRelayStart ==
    /\ handle.Backend = "None"
    /\ LET a == [Now EXCEPT !.h.Backend = "Starting"] IN
       Becomes(IF worker.Stopping THEN [a EXCEPT !.k.reg = "failed"]
               ELSE Post([a EXCEPT !.k.reg = "queued"], Ev("RegisterRelay", 0)))

StartReturns ==
    /\ handle.Backend = "Starting"
    /\ \/ /\ worker.reg = "ok"
          /\ Becomes([Now EXCEPT !.h.Backend = "Worker", !.h.active = 1])
       \/ /\ worker.reg = "failed"
          /\ LET a == [Now EXCEPT !.h.Backend = "Failed",
                                  !.s = RequestShutdown(@, "AbortBoth")] IN
             Becomes(IF handle.fdOwner = "tunnel" THEN [a EXCEPT !.t = CloseFd(@)] ELSE a)

(* TqRelayStop, by the reaper or with the connection: the relay is closed  *)
(* by the worker later, and the handle forgets it at once.                 *)
TqRelayStop ==
    /\ handle.Backend = "Worker" /\ (handle.stop \/ env.control = "unregister")
    /\ LET a == [Now EXCEPT !.h = [SignalStop(@) EXCEPT !.Backend = "Stopped", !.active = 0],
                            !.s.lost = @ \/ ~handle.stop] IN
       Becomes(IF worker.Stopping \/ ~relay.Mapped THEN a ELSE Post(a, Ev("CloseRelay", 0)))

-----------------------------------------------------------------------------
(* Snapshot: at most one is posted; the caller waits until its deadline.   *)

Snapshot ==
    /\ env.control = "snapshot" /\ worker.snap \in {"none", "Cancelled"}
    /\ ~worker.SnapshotOutstanding /\ ~worker.Stopping
    /\ Becomes(Post([Now EXCEPT !.k.snap = "Pending", !.k.SnapshotOutstanding = TRUE],
                    Ev("Snapshot", 0)))

SnapshotTimesOut ==
    /\ worker.snap = "Pending"
    /\ Becomes([Now EXCEPT !.k.snap = "Cancelled"])

-----------------------------------------------------------------------------
(* TqWindowsRelayWorker::Stop.  The runtime's lock keeps it apart from a   *)
(* registration, and WaitForIdle from a snapshot.                          *)

StopPosts ==
    /\ env.control \in {"stop", "snapshot"} /\ worker.stop = "none"
    /\ handle.Backend # "Starting" /\ ~worker.SnapshotOutstanding
    /\ Becomes(Post([Now EXCEPT !.k.Stopping = TRUE, !.k.stop = "stopping"], Ev("StopWorker", 0)))

(* CloseAndWait on the worker, then the join. *)
StopFinishes ==
    /\ worker.stop = "closing" /\ Serial
    /\ Becomes([Now EXCEPT !.b.EndpointOpen = FALSE, !.k.stop = "done"])

-----------------------------------------------------------------------------
Init ==
    /\ env \in Scenarios
    /\ tcp = TcpInit /\ stream = StreamInit /\ handle = HandleInit
    /\ relay = RelayInit /\ binding = BindingInit /\ views = <<>> /\ ops = <<>>
    /\ queue = <<>> /\ worker = WorkerInit

WorkerStep ==
    \/ Dequeue \/ StopPoll \/ CommitPreparedRelay \/ ActivationFails
    \/ ActivateCommittedRelay

CallbackStep ==
    \/ ReceiveBegins \/ ReceiveQueues \/ ReceivePauses \/ SendComplete \/ IdealSendBuffer
    \/ PeerSendShutdown \/ SendShutdownComplete \/ PeerAborted \/ ShutdownComplete

CallerStep == TqRelayStart \/ StartReturns \/ TqRelayStop
StopStep == StopPosts \/ StopFinishes
SnapshotStep == Snapshot \/ SnapshotTimesOut
NetworkStep == TcpReset \/ ConnectionLost \/ CancelOnLoss
KernelStep == TcpRecvCompletes \/ TcpSendCompletes

Next ==
    \/ WorkerStep \/ KernelStep \/ CallbackStep \/ CallerStep \/ StopStep
    \/ SnapshotStep \/ NetworkStep

(* The threads of the worker, of MsQuic and of the tunnel go on, and the   *)
(* kernel finishes what it holds; nothing makes the network fail, a wait   *)
(* time out, or the runtime stop.                                          *)
CanCall ==
    \/ handle.Backend = "None"
    \/ handle.Backend = "Starting" /\ worker.reg \in {"ok", "failed"}
    \/ handle.Backend = "Worker" /\ handle.stop

CanFinalize ==
    /\ Running /\ worker.Stopping /\ queue = <<>>
    /\ worker.TerminalShutdownSink \/ relay.Maintenance \/ WorkerIocpOwnershipIsZero(Now)

CanReceive ==
    /\ Serial /\ stream.Target \in {"binding", "sink"}
    /\ env.early \/ binding.Activation # "Prepared"
    /\ \E n \in 0..1 : CanIndicate(stream, n, n = 0)

MidStep == CommitPreparedRelay \/ ActivateCommittedRelay

CanNotice ==
    /\ Serial
    /\ \/ CanSendComplete(stream) \/ CanPeerSendShutdown(stream)
       \/ CanSendShutdownComplete(stream) \/ CanShutdownComplete(stream)

NoticeStep == SendComplete \/ PeerSendShutdown \/ SendShutdownComplete \/ ShutdownComplete

CanStop == CanFinalize \/ (worker.stop = "closing" /\ Serial)

Spec == Init /\ [][Next]_vars

-----------------------------------------------------------------------------
(* Properties of this worker.                                              *)

Bytes(items, Of(_)) == FoldLeft(LAMBDA n, x : n + Of(x), 0, items)

(* The ledgers agree with the lists: of the sends with MsQuic, and of the  *)
(* receives that wait or that the kernel is sending (a relay that closes   *)
(* no longer looks at those).                                              *)
LedgersExact ==
    relay.Mapped =>
      /\ relay.InFlightQuicSends = Cardinality({o \in DOMAIN ops : ops[o].State = "InFlight"})
      /\ relay.OutstandingQuicSendBytes =
           Bytes(ops, LAMBDA o : IF o.State = "InFlight" THEN Len(o.ids) ELSE 0)
      /\ ~relay.Closing => relay.PendingQuicReceiveBytes =
           Bytes([v \in DOMAIN views |-> v],
                 LAMBDA v : IF v \in Range(relay.PendingReceives) \/ views[v].TcpSendPending
                            THEN Len(views[v].ids) - views[v].AccountedLength ELSE 0)

(* The buffers of a send belong to MsQuic until SEND_COMPLETE. *)
FlightOwned == \A i \in DOMAIN stream.flight : ops[stream.flight[i]].State # "Deleted"
=============================================================================

-------------------------- MODULE LinuxRelayWorker --------------------------
(***************************************************************************)
(* TqLinuxRelayWorker (src/tunnel/linux_relay_worker.cpp): one epoll       *)
(* worker with one relay, from TqRelayStart to TqRelayStop or to the stop  *)
(* of the worker.  Threads as in DarwinRelayWorker.  A RECEIVE callback    *)
(* takes up to three steps (it checks the binding, queues the view, and    *)
(* pauses the stream when the queue is full), because the worker runs      *)
(* between them; so does the drain of the event queue, whose two ends      *)
(* decide whether a wake-up is seen.                                       *)
(***************************************************************************)
EXTENDS RelayEnvironment

(* RelayState. *)
RelayInit ==
    [Mapped |-> FALSE,              \* in Relays
     InRetired |-> FALSE,           \* in RetiredRelays
     Committed |-> FALSE, Closing |-> FALSE,
     TcpFd |-> FALSE,               \* TcpFd >= 0
     watched |-> FALSE,             \* TcpFd is in the epoll set
     TcpReadClosed |-> FALSE, TcpWriteClosed |-> FALSE,
     TcpReadArmed |-> TRUE, TcpWriteArmed |-> FALSE,
     QuicSendFinSubmitted |-> FALSE, QuicSendFinCompleted |-> FALSE,
     IdealSendBufferBytes |-> 0,
     OutstandingQuicSends |-> 0, OutstandingQuicSendBytes |-> 0,
     PendingQuicSendRetries |-> <<>>,
     Compressor |-> <<>>,           \* chunks taken in and not yet put out
     PendingQuicReceives |-> <<>>, PendingQuicReceiveBytes |-> 0,
     CallbackPendingQuicReceives |-> <<>>,
     PendingTcpWrites |-> <<>>,
     Decompressor |-> <<>>,
     TcpWriteShutdownQueued |-> FALSE, QuicReceivePaused |-> FALSE,
     StreamShutdownComplete |-> FALSE,
     Stream |-> FALSE,              \* Stream != nullptr
     Owned |-> FALSE,               \* StreamOwner != nullptr
     Bound |-> FALSE,               \* StreamBinding != nullptr
     Retiring |-> FALSE]            \* RetiringStreamBinding != nullptr

(* StreamRelayBinding, TerminalHandoffRequest and CallbackEndpoint.  `cb'  *)
(* is the RECEIVE callback in progress.                                    *)
NoCallback == [at |-> "none", n |-> 0, fin |-> FALSE]

BindingInit ==
    [Relay |-> FALSE,               \* Relay != nullptr
     Closing |-> FALSE, Retired |-> FALSE, Activation |-> "Prepared",
     PrecommitReceives |-> <<>>,
     HasControl |-> FALSE,          \* StopControl != nullptr
     EndpointOpen |-> TRUE,
     TerminalObserved |-> FALSE,
     cb |-> NoCallback]

(* TqPendingQuicReceive: a RECEIVE indication of the chunks ids. *)
NewView(ids, fin) ==
    [ids |-> ids, fin |-> fin, CompletedLength |-> 0, PendingCompleteBytes |-> 0]

(* TqLinuxRelaySendOperation. *)
NewOp(ids, fin) == [ids |-> ids, fin |-> fin, State |-> "Pending"]

(* The worker: its thread, its two fallback lanes, and the commands other  *)
(* threads wait for.                                                       *)
WorkerInit ==
    [Running |-> TRUE, pc |-> "idle", wake |-> FALSE,
     SendCompletionFallback |-> <<>>,
     TerminalFallback |-> FALSE,    \* the request is in its lane
     reg |-> "none", Cancelled |-> FALSE, unreg |-> "none", stop |-> "none",
     snap |-> "none", seen |-> <<>>,
     WorkerEndpointAlive |-> TRUE,  \* of this relay's TqRelayStopControl
     dangling |-> FALSE]            \* a destroyed worker was called

Ev(type, x) == [Type |-> type, x |-> x]
Room(m) == Len(m.q) < env.queue
Wake(m) == [m EXCEPT !.k.wake = TRUE]
Enqueue(m, e) == Wake([m EXCEPT !.q = Append(@, e)])

(* Bytes of the relay's buffer budget in use, by either direction. *)
Buffered(m) ==
    Len(m.r.PendingTcpWrites)
    + FoldLeft(LAMBDA n, o : n + (IF o.State = "Deleted" THEN 0 ELSE Len(o.ids)),
               0, m.os)
Free(m) == env.buffers - Buffered(m)

FindRelayById(m) == m.r.Mapped \/ m.r.InRetired

-----------------------------------------------------------------------------
(* The epoll set.                                                          *)

ArmTcpReadable(m, on) ==
    IF ~m.r.TcpFd THEN m
    ELSE [m EXCEPT !.r.TcpReadArmed = on /\ ~m.r.TcpReadClosed]

ArmTcpWritable(m, on) == IF ~m.r.TcpFd THEN m ELSE [m EXCEPT !.r.TcpWriteArmed = on]

(* EPOLL_CTL_DEL, then the descriptor is reset or closed. *)
CloseTcpFd(m) ==
    IF ~m.r.TcpFd THEN m
    ELSE [m EXCEPT !.r.watched = FALSE, !.r.TcpFd = FALSE, !.t = CloseFd(@)]

-----------------------------------------------------------------------------
(* Completing receives towards MsQuic.                                     *)

FlushWithoutLease(m, v, force) ==
    LET n == m.vs[v].PendingCompleteBytes IN
    IF n = 0 \/ (~force /\ n < env.batch) THEN m
    ELSE [m EXCEPT !.vs[v].PendingCompleteBytes = 0, !.s = ReceiveComplete(@, n)]

FlushDeferredReceiveCompletion(m, v, force) ==
    LET n == m.vs[v].PendingCompleteBytes IN
    IF n = 0 \/ (~force /\ n < env.batch) THEN m
    ELSE [m EXCEPT !.vs[v].PendingCompleteBytes = 0,
                   !.s = IF TryAcquireApi(@) THEN ReceiveComplete(@, n) ELSE @]

Rest(view) == Len(view.ids) - view.CompletedLength

ConsumeUnaccounted(m, v, n) ==
    [m EXCEPT !.vs[v].PendingCompleteBytes = @ + n, !.vs[v].CompletedLength = @ + n]

(* The view's next n bytes are done with. *)
Consume(m, v, n) ==
    [m EXCEPT !.vs[v].PendingCompleteBytes = @ + n, !.vs[v].CompletedLength = @ + n,
              !.r.PendingQuicReceiveBytes = IF @ >= n THEN @ - n ELSE 0]

CompleteAndDiscardQuicReceive(m, v) ==
    FlushDeferredReceiveCompletion(
      [m EXCEPT !.vs[v].PendingCompleteBytes = @ + Rest(m.vs[v]),
                !.vs[v].CompletedLength = Len(m.vs[v].ids)], v, TRUE)

DiscardTerminalQuicReceive(m, v) ==
    [m EXCEPT !.vs[v].PendingCompleteBytes = 0,
              !.vs[v].CompletedLength = Len(m.vs[v].ids)]

(* How AbortRelayAndRelease and UnregisterRelayLocal let go of the views.  *)
ReleaseReceives(m) ==
    FoldLeft(LAMBDA n, v : IF m.r.StreamShutdownComplete
                           THEN DiscardTerminalQuicReceive(n, v)
                           ELSE CompleteAndDiscardQuicReceive(n, v),
             [m EXCEPT !.r.PendingQuicReceives = <<>>, !.r.PendingQuicReceiveBytes = 0,
                       !.r.CallbackPendingQuicReceives = <<>>],
             m.r.PendingQuicReceives \o m.r.CallbackPendingQuicReceives)

ReleaseSends(m) ==
    [m EXCEPT !.os = [o \in DOMAIN @ |->
                        IF o \in Range(m.r.PendingQuicSendRetries)
                        THEN [@[o] EXCEPT !.State = "Deleted"] ELSE @[o]],
              !.r.PendingQuicSendRetries = <<>>, !.r.PendingTcpWrites = <<>>]

-----------------------------------------------------------------------------
(* Detaching the binding and closing the relay.                            *)

SetRelayStopWhenSent(m) ==
    IF m.r.OutstandingQuicSends > 0 THEN m ELSE [m EXCEPT !.h = SignalStop(@)]

SetRelayStop(m) == [m EXCEPT !.h = SignalStop(@)]

CloseBinding(m) ==
    [m EXCEPT !.b.Closing = TRUE, !.b.Relay = FALSE, !.b.HasControl = FALSE]

RetireStreamBinding(m) == [m EXCEPT !.b.Retired = TRUE]

DetachRelayStreamBinding(m) ==
    [IF m.r.Bound THEN RetireStreamBinding(CloseBinding(m)) ELSE m
       EXCEPT !.r.Stream = FALSE, !.r.Bound = FALSE]

CompletePendingStreamDetach(m) ==
    [IF m.r.Retiring \/ m.r.Bound THEN RetireStreamBinding(CloseBinding(m)) ELSE m
       EXCEPT !.r.Retiring = FALSE, !.r.Stream = FALSE, !.r.Bound = FALSE,
              !.r.Owned = FALSE]

BeginStreamShutdownCompleteDetach(m) ==
    LET a == [IF m.r.Bound THEN CloseBinding(m) ELSE m
                EXCEPT !.r.Stream = FALSE, !.r.Bound = FALSE]
    IN IF m.r.OutstandingQuicSends # 0 THEN [a EXCEPT !.r.Retiring = m.r.Bound]
       ELSE [IF m.r.Bound THEN RetireStreamBinding(a) ELSE a EXCEPT !.r.Owned = FALSE]

(* AbortRelayAndRelease with abortStream = false. *)
ReleaseRelay(m) ==
    LET a == CloseTcpFd([SetRelayStop(m) EXCEPT !.r.Closing = TRUE])
        c == IF a.r.Bound THEN CloseBinding(a) ELSE a
        d == IF c.r.OutstandingQuicSends = 0 THEN CompletePendingStreamDetach(c) ELSE c
    IN ReleaseReceives(ReleaseSends(d))

(* BeginTerminalHandoff: the sink takes the stream, which is shut down     *)
(* gracefully or aborted; a graceful handoff is complete only when the     *)
(* sink has seen SHUTDOWN_COMPLETE.                                        *)
BeginTerminalHandoff(m, graceful) ==
    IF ~m.r.Owned THEN ReleaseRelay(m)
    ELSE LET a == [SetRelayStop(m) EXCEPT !.r.Closing = TRUE,
                                          !.s = BeginTerminalShutdown(@, graceful)]
         IN [ReleaseRelay(a) EXCEPT
               !.h.handoff = @ \cup (IF graceful /\ m.s.Phase = "Started" THEN {"local"}
                                     ELSE {"local", "terminal"})]

(* AbortRelayAndRelease with abortStream = true, and FailRelayFatal. *)
AbortRelayAndRelease(m) == BeginTerminalHandoff(m, FALSE)
FailRelayFatal(m) == IF m.r.Closing THEN m ELSE AbortRelayAndRelease(m)

MaybeStopFullyClosedRelay(m) ==
    LET r == m.r IN
    IF /\ ~r.Closing /\ r.TcpReadClosed /\ r.TcpWriteClosed
       /\ r.QuicSendFinSubmitted /\ r.QuicSendFinCompleted
       /\ r.OutstandingQuicSends = 0 /\ r.PendingTcpWrites = <<>>
       /\ r.PendingQuicReceives = <<>> /\ r.PendingQuicReceiveBytes = 0
    THEN BeginTerminalHandoff(m, TRUE) ELSE m

UnregisterRelayLocal(m) ==
    IF ~m.r.Mapped THEN m
    ELSE LET a == CloseTcpFd([m EXCEPT !.r.Mapped = FALSE, !.r.Closing = TRUE])
             c == IF a.r.Bound THEN CloseBinding(a) ELSE a
             d == IF c.r.OutstandingQuicSends = 0 THEN DetachRelayStreamBinding(c) ELSE c
         IN [ReleaseReceives(ReleaseSends(d)) EXCEPT !.r.InRetired = TRUE]

(* PurgeRetiredRelaysIfIdle and PurgeRetiredStreamBindings. *)
PurgeRetiredRelaysIfIdle(m) ==
    IF m.q = <<>> /\ m.r.OutstandingQuicSends = 0 /\ ~m.r.Bound /\ m.b.cb = NoCallback
    THEN [m EXCEPT !.r.InRetired = FALSE] ELSE m

-----------------------------------------------------------------------------
(* Flow control of the QUIC to TCP direction: one threshold pauses and     *)
(* resumes.                                                                *)

SetQuicReceiveEnabled(m, on) ==
    IF ~m.r.Stream \/ ~TryAcquireApi(m.s) THEN m ELSE [m EXCEPT !.s.enabled = on]

MaybePauseQuicReceive(m) ==
    IF m.r.QuicReceivePaused \/ m.r.PendingQuicReceiveBytes < env.recv THEN m
    ELSE SetQuicReceiveEnabled([m EXCEPT !.r.QuicReceivePaused = TRUE], FALSE)

MaybeResumeQuicReceive(m) ==
    IF ~m.r.QuicReceivePaused \/ m.r.PendingQuicReceiveBytes >= env.recv THEN m
    ELSE SetQuicReceiveEnabled([m EXCEPT !.r.QuicReceivePaused = FALSE], TRUE)

-----------------------------------------------------------------------------
(* Writing to TCP.  The kernel takes chunks until `out' has `cap' of them, *)
(* then it would block; after a reset or our own SHUT_WR it fails.         *)

Take(m, cap, n) ==
    LET left == IF m.t.shutWr THEN 0 ELSE cap - Len(m.t.out) IN
    IF n < left THEN n ELSE IF left > 0 THEN left ELSE 0

WriteFails(m) == m.t.reset \/ m.t.shutWr

ShutdownTcpWrite(m) ==
    MaybeStopFullyClosedRelay(
      [m EXCEPT !.t.shutWr = TRUE, !.r.TcpWriteShutdownQueued = FALSE,
                !.r.TcpWriteClosed = TRUE])

DisarmIfWritten(m) ==
    IF m.r.PendingTcpWrites = <<>> /\ m.r.PendingQuicReceives = <<>>
    THEN ArmTcpWritable(m, FALSE) ELSE m

(* FlushTcpWrites: the decompressed buffers. *)
FlushTcpWrites(m, cap) ==
    LET n == Take(m, cap, Len(m.r.PendingTcpWrites))
        a == [m EXCEPT !.t.out = @ \o SubSeq(m.r.PendingTcpWrites, 1, n),
                       !.r.PendingTcpWrites = SubSeq(@, n + 1, Len(@))]
    IN IF m.r.Closing THEN m
       ELSE IF a.r.PendingTcpWrites # <<>>
       THEN IF WriteFails(m) THEN AbortRelayAndRelease(a) ELSE ArmTcpWritable(a, TRUE)
       ELSE DisarmIfWritten(IF a.r.TcpWriteShutdownQueued THEN ShutdownTcpWrite(a) ELSE a)

PopView(m, v) ==
    [m EXCEPT !.r.PendingQuicReceives = Tail(@),
              !.r.TcpWriteShutdownQueued = @ \/ m.vs[v].fin]


(* FlushDeferredQuicReceives, the head view of an uncompressed stream. *)
WriteView(m, v, cap) ==
    LET view == m.vs[v]
        n == Take(m, cap, Rest(view))
        a == Consume([m EXCEPT !.t.out = @ \o SubSeq(view.ids, view.CompletedLength + 1,
                                                      view.CompletedLength + n)], v, n)
        c == MaybeResumeQuicReceive(
               FlushDeferredReceiveCompletion(a, v, n = Rest(view)))
    IN IF n = Rest(view) THEN PopView(c, v)
       ELSE IF WriteFails(m) THEN AbortRelayAndRelease(c)
       ELSE ArmTcpWritable(c, TRUE)

(* What the decompressor can put out: a prefix of what it has taken in, at *)
(* the end of the frame all of it, as far as there are buffers.            *)
Decompressed(m, all, io) ==
    LET ready == IF all # <<>> /\ Last(all) = env.down THEN Len(all) ELSE io.d
        n == IF ready < Len(all) THEN ready ELSE Len(all)
    IN SubSeq(all, 1, IF n < Free(m) THEN n ELSE Free(m))

AfterWrite(m) ==
    [m |-> m, at |-> IF m.r.PendingTcpWrites # <<>> \/ m.r.Closing THEN "false" ELSE "loop"]

WriteDecompressed(m, v, out, cap) ==
    IF out = <<>> THEN [m |-> FlushDeferredReceiveCompletion(m, v, TRUE), at |-> "true"]
    ELSE AfterWrite(FlushTcpWrites([m EXCEPT !.r.PendingTcpWrites = @ \o out], cap))

(* One turn of the loop of DrainCompressedQuicReceiveView. *)
DecompressTurn(z, v, io, cap) ==
    LET m == z.m
        view == m.vs[v]
        all == m.r.Decompressor \o SubSeq(view.ids, view.CompletedLength + 1, Len(view.ids))
        out == Decompressed(m, all, io)
        taken == [Consume(m, v, Rest(view)) EXCEPT
                    !.r.Decompressor = SubSeq(all, Len(out) + 1, Len(all))]
    IN IF z.at # "loop" THEN z
       ELSE IF Free(m) = 0 THEN [m |-> ArmTcpWritable(m, TRUE), at |-> "false"]
       ELSE IF io.bad THEN [m |-> SetRelayStop(m), at |-> "false"]
       ELSE WriteDecompressed(
              MaybeResumeQuicReceive(FlushDeferredReceiveCompletion(taken, v, FALSE)), v, out, cap)

PopIfDrained(z, v) == IF z.at = "true" THEN PopView(z.m, v) ELSE z.m

DrainCompressedQuicReceiveView(m, v, io, cap) ==
    PopIfDrained(FoldLeft(LAMBDA z, i : DecompressTurn(z, v, io, cap),
                          [m |-> m, at |-> "loop"], Ids(1, env.down + 1)), v)

(* FlushDeferredQuicReceives: head by head, as long as the head is done.   *)
FlushViews(m, io, cap) ==
    FoldLeft(LAMBDA n, v :
               IF n.r.PendingQuicReceives = <<>> \/ Head(n.r.PendingQuicReceives) # v THEN n
               ELSE IF env.compress THEN DrainCompressedQuicReceiveView(n, v, io, cap)
               ELSE WriteView(n, v, cap),
             m, m.r.PendingQuicReceives)

AfterViews(m) ==
    IF m.r.Closing THEN m
    ELSE DisarmIfWritten(MaybeResumeQuicReceive(
           IF m.r.PendingQuicReceives = <<>> /\ m.r.TcpWriteShutdownQueued
           THEN ShutdownTcpWrite(m) ELSE m))

FlushDeferredQuicReceives(m, io, cap) == AfterViews(FlushViews(m, io, cap))

ProcessQuicReceiveViewEvent(m, v, io, cap) ==
    IF ~FindRelayById(m) \/ m.r.Closing
    THEN IF m.s.Phase = "TerminalPublished" THEN DiscardTerminalQuicReceive(m, v)
         ELSE CompleteAndDiscardQuicReceive(m, v)
    ELSE FlushDeferredQuicReceives(
           MaybePauseQuicReceive(
             [m EXCEPT !.r.PendingQuicReceiveBytes = @ + Rest(m.vs[v]),
                       !.r.PendingQuicReceives = Append(@, v)]), io, cap)

ProcessViews(m, vids, io, cap) ==
    FoldLeft(LAMBDA n, v : ProcessQuicReceiveViewEvent(n, v, io, cap), m, vids)

(* DrainCallbackPendingQuicReceives: the views that found the queue full.  *)
DrainCallbackPendingQuicReceives(m, io, cap) ==
    IF ~m.r.Mapped \/ m.r.Closing THEN m
    ELSE MaybeResumeQuicReceive(
           ProcessViews([m EXCEPT !.r.CallbackPendingQuicReceives = <<>>],
                        m.r.CallbackPendingQuicReceives, io, cap))

-----------------------------------------------------------------------------
(* TCP to QUIC.                                                            *)

ShouldPauseTcpRead(m) == m.r.OutstandingQuicSendBytes >= m.r.IdealSendBufferBytes
ShouldResumeTcpRead(m) ==
    ~m.r.TcpReadClosed /\ m.r.OutstandingQuicSendBytes < m.r.IdealSendBufferBytes

Resume(m) == IF ShouldResumeTcpRead(m) THEN ArmTcpReadable(m, TRUE) ELSE m

(* TrySubmitQuicSendOperation.  The completion is an event of this worker, *)
(* so the accounting after StreamSend comes before it.                     *)
SendOutcome(m, refuse) ==
    IF m.r.Closing \/ ~m.r.Stream \/ ~TryAcquireApi(m.s) THEN "failed"
    ELSE IF refuse THEN "refused" ELSE "accepted"

TrySubmitQuicSendOperation(m, o, refuse) ==
    LET out == SendOutcome(m, refuse) IN
    CASE out = "failed" -> [m EXCEPT !.os[o].State = "Deleted"]
      [] out = "refused" ->
           [ArmTcpReadable(m, FALSE) EXCEPT
              !.s = SendRefused(@), !.os[o].State = "Pending",
              !.r.PendingQuicSendRetries = Append(@, o)]
      [] out = "accepted" ->
           [m EXCEPT !.os[o].State = "InFlight",
                     !.r.OutstandingQuicSends = @ + 1,
                     !.r.OutstandingQuicSendBytes = @ + Len(m.os[o].ids),
                     !.s = SendAccepted(@, o, m.os[o].ids, m.os[o].fin)]

(* RetryPendingQuicSends: one operation for each drain of the queue. *)
RetryPendingQuicSends(m, io) ==
    LET o == Head(m.r.PendingQuicSendRetries)
        popped == [m EXCEPT !.r.PendingQuicSendRetries = Tail(@)]
        a == TrySubmitQuicSendOperation(popped, o, io.refuse)
    IN IF ~m.r.Mapped \/ m.r.Closing THEN m
       ELSE IF m.r.PendingQuicSendRetries = <<>> THEN Resume(m)
       ELSE IF a.os[o].State = "Deleted" THEN SetRelayStop(a)
       ELSE IF a.r.PendingQuicSendRetries = <<>> THEN Resume(a) ELSE a

CompleteQuicSend(m, o, io, cap) ==
    LET a == [m EXCEPT !.os[o].State = "Deleted",
                       !.r.OutstandingQuicSends = IF @ > 0 THEN @ - 1 ELSE 0,
                       !.r.OutstandingQuicSendBytes = @ - Len(m.os[o].ids)]
        c == [a EXCEPT !.r.QuicSendFinCompleted = @ \/ m.os[o].fin]
    IN IF ~FindRelayById(m) THEN [m EXCEPT !.os[o].State = "Deleted"]
       ELSE IF m.r.Closing
       THEN IF a.r.OutstandingQuicSends = 0 THEN CompletePendingStreamDetach(a) ELSE a
       ELSE MaybeStopFullyClosedRelay(Resume(FlushDeferredQuicReceives(c, io, cap)))

HandleQuicIdealSendBuffer(m, n) ==
    IF ~FindRelayById(m) \/ m.r.Closing THEN m
    ELSE Resume([m EXCEPT !.r.IdealSendBufferBytes = IF @ < n THEN n ELSE @])

-----------------------------------------------------------------------------
(* The binding before and after its activation.                            *)

FailManagedBinding(m) ==
    LET a == FoldLeft(LAMBDA n, v : DiscardTerminalQuicReceive(n, v), m, m.b.PrecommitReceives)
    IN [a EXCEPT !.b.Activation = "Failed", !.b.PrecommitReceives = <<>>,
                 !.b.Closing = TRUE, !.b.Relay = FALSE,
                 !.h = IF m.b.HasControl THEN SignalStop(@) ELSE @]

ActivateManagedBinding(m, io, cap) ==
    IF ~m.r.Bound \/ m.b.Activation # "Prepared" THEN m
    ELSE ProcessViews([m EXCEPT !.b.Activation = "Active", !.b.PrecommitReceives = <<>>],
                      m.b.PrecommitReceives, io, cap)

-----------------------------------------------------------------------------
(* Registration: RegisterRelayWithIdLocal, on the worker's thread.         *)

(* The answer reaches the caller unless it has given up waiting. *)
Answer(m, how) ==
    [m EXCEPT !.k.pc = "drain", !.k.reg = IF m.k.Cancelled THEN @ ELSE how]

DropRelay(m) == [m EXCEPT !.r.Mapped = FALSE]

(* Up to PublishTarget, whose success passes the descriptor to the worker. *)
PrepareRelay(m) ==
    LET a == [m EXCEPT
                !.r = [RelayInit EXCEPT
                         !.Mapped = TRUE, !.TcpFd = TRUE, !.Stream = TRUE, !.Owned = TRUE,
                         !.Bound = TRUE, !.IdealSendBufferBytes = env.sends],
                !.b = [BindingInit EXCEPT !.Relay = TRUE, !.HasControl = TRUE,
                                          !.EndpointOpen = m.b.EndpointOpen]]
    IN IF m.k.Cancelled THEN m
       ELSE IF ~CanPublishTarget(m.s, m.s.RouteGeneration)
       THEN Answer(DropRelay([a EXCEPT !.b.Closing = TRUE, !.b.Relay = FALSE]), "failed")
       ELSE [a EXCEPT !.s = PublishTarget(@, "binding"), !.h.fdOwner = "relay",
                      !.k.pc = "commit"]

(* The stream has ended or the binding is closing: the descriptor is       *)
(* closed; epoll_ctl fails: the stream is handed to the sink as well.      *)
CommitRelay(m, added) ==
    IF m.s.Phase = "TerminalPublished" \/ m.b.Closing
    THEN Answer(DropRelay(CloseTcpFd(FailManagedBinding(m))), "failed")
    ELSE IF ~added
    THEN Answer(DropRelay(BeginTerminalHandoff(FailManagedBinding(m), FALSE)), "failed")
    ELSE [m EXCEPT !.r.watched = TRUE, !.r.Committed = TRUE, !.k.pc = "activate"]

(* A registration whose caller has given up is rolled back. *)
RollbackIfCancelled(m) == IF m.k.Cancelled THEN UnregisterRelayLocal(m) ELSE m

ActivateRelay(m, io, cap) ==
    Answer(RollbackIfCancelled(ActivateManagedBinding(m, io, cap)), "ok")

-----------------------------------------------------------------------------
(* The end of the stream, and the callbacks' requests to hand it off.      *)

HasPendingAfterStreamShutdown(m) ==
    \/ m.r.OutstandingQuicSends # 0 \/ m.r.OutstandingQuicSendBytes # 0
    \/ m.r.PendingQuicSendRetries # <<>> \/ m.r.PendingTcpWrites # <<>>
    \/ m.r.PendingQuicReceives # <<>> \/ m.r.CallbackPendingQuicReceives # <<>>
    \/ m.r.PendingQuicReceiveBytes # 0 \/ m.r.TcpWriteShutdownQueued
    \/ m.r.QuicSendFinSubmitted # m.r.QuicSendFinCompleted

ProcessQuicShutdownComplete(m) ==
    IF ~FindRelayById(m) \/ m.r.StreamShutdownComplete THEN m
    ELSE LET a == ReleaseRelay(BeginStreamShutdownCompleteDetach(
                    [m EXCEPT !.r.StreamShutdownComplete = TRUE]))
             c == IF HasPendingAfterStreamShutdown(m) THEN a ELSE UnregisterRelayLocal(a)
         IN [c EXCEPT !.h.handoff = {"local", "terminal"}]

ProcessTerminalHandoffRequest(m) ==
    IF ~FindRelayById(m) \/ ~m.r.Owned THEN m ELSE BeginTerminalHandoff(m, FALSE)

DrainQuicSendCompletionFallbacks(m, io, cap) ==
    FoldLeft(LAMBDA n, o : CompleteQuicSend(n, o, io, cap),
             [m EXCEPT !.k.SendCompletionFallback = <<>>],
             Reverse(m.k.SendCompletionFallback))

DrainQuicTerminalFallbacks(m) ==
    IF ~m.k.TerminalFallback THEN m
    ELSE LET a == [m EXCEPT !.k.TerminalFallback = FALSE, !.b.TerminalObserved = FALSE] IN
         IF m.b.TerminalObserved THEN ProcessQuicShutdownComplete(a)
         ELSE ProcessTerminalHandoffRequest(a)

-----------------------------------------------------------------------------
(* The worker's event loop.                                                *)

(* What the kernel and MsQuic answer during a step: chunks the socket      *)
(* takes, chunks the decompressor puts out, a corrupt frame, a refused send. *)
IO == [w : IF tcp.reset THEN {0} ELSE 0..env.down,
       d : IF env.compress THEN 0..env.down ELSE {0},
       bad : {FALSE} \cup {env.fault = "corrupt"},
       refuse : {FALSE} \cup {MayRefuse(stream) /\ relay.PendingQuicSendRetries # <<>>}]
Cap(io) == Len(tcp.out) + io.w

(* SnapshotLocal: the gauges a snapshot reports of this relay. *)
SnapshotLocal(m) ==
    [ActiveRelays |-> IF m.r.Mapped THEN 1 ELSE 0,
     OutstandingQuicSends |-> IF m.r.Mapped THEN m.r.OutstandingQuicSends ELSE 0,
     PendingReceiveActive |-> IF m.r.Mapped THEN Len(m.r.PendingQuicReceives) ELSE 0,
     StopRemaining |-> (IF m.r.Mapped THEN 1 ELSE 0) + (IF m.r.InRetired THEN 1 ELSE 0)]

CompleteSnapshot(m) ==
    IF m.k.snap # "Pending" THEN m
    ELSE [m EXCEPT !.k.snap = "Completed", !.k.seen = <<SnapshotLocal(m)>>]

DrainEvent(m, io, cap) ==
    LET e == Head(m.q)
        a == [m EXCEPT !.q = Tail(@)]
    IN CASE e.Type = "QuicReceiveView" -> ProcessQuicReceiveViewEvent(a, e.x, io, cap)
         [] e.Type = "QuicSendComplete" -> CompleteQuicSend(a, e.x, io, cap)
         [] e.Type = "QuicIdealSendBuffer" -> HandleQuicIdealSendBuffer(a, e.x)
         [] e.Type = "TerminalHandoff" -> ProcessTerminalHandoffRequest(a)
         [] e.Type = "QuicShutdownComplete" -> ProcessQuicShutdownComplete(a)
         [] e.Type = "RegisterRelay" -> PrepareRelay(a)
         [] e.Type = "UnregisterRelay" ->
              IF a.k.unreg # "queued" THEN a
              ELSE [UnregisterRelayLocal(a) EXCEPT !.k.unreg = "done"]
         [] e.Type = "Snapshot" -> CompleteSnapshot(a)

(* The thread that drains: the worker, and once it is joined, Stop. *)
Draining == worker.stop \in {"none", "closed"}
AtLoop == worker.pc = "idle" /\ worker.stop = "none"

Lanes == worker.SendCompletionFallback # <<>> \/ worker.TerminalFallback

(* DrainEvents begins with the fallback lanes. *)
DrainFallbacks ==
    /\ worker.pc = "idle"
    /\ \/ worker.stop = "none" /\ worker.wake
       \/ worker.stop = "closed" /\ (queue # <<>> \/ Lanes)
    /\ \E io \in IO :
         Becomes([DrainQuicTerminalFallbacks(
                    DrainQuicSendCompletionFallbacks(Now, io, Cap(io)))
                    EXCEPT !.k.pc = "drain"])

(* DrainEvents, one event of the batch. *)
DrainEvents ==
    /\ worker.pc = "drain" /\ Draining /\ queue # <<>>
    /\ \E io \in IO : Becomes(DrainEvent(Now, io, Cap(io)))

(* The budget is used up, or the queue: refused sends and parked receives. *)
FinishDrainEvents ==
    /\ worker.pc = "drain" /\ Draining
    /\ \E io \in IO :
         Becomes([DrainCallbackPendingQuicReceives(RetryPendingQuicSends(Now, io), io, Cap(io))
                    EXCEPT !.k.pc = "tail"])

(* The end of DrainEvents: WakeArmed is cleared, and set again for what is *)
(* left in the queue.                                                      *)
RearmWake ==
    /\ worker.pc = "tail"
    /\ Becomes([PurgeRetiredRelaysIfIdle(Now) EXCEPT
                  !.k.wake = queue # <<>>, !.k.pc = "idle"])

(* RegisterRelayWithIdLocal after PublishTarget. *)
EpollAdds == {TRUE} \cup {env.control # "filterFails"}

CommitPreparedRelay ==
    /\ worker.pc = "commit"
    /\ \E ok \in EpollAdds : Becomes(CommitRelay(Now, ok))

ActivateCommittedRelay ==
    /\ worker.pc = "activate"
    /\ \E io \in IO : Becomes(ActivateRelay(Now, io, Cap(io)))

-----------------------------------------------------------------------------
(* The socket.                                                             *)

Submit(m, out, fin, refuse) ==
    LET o == Len(m.os) + 1 IN
    TrySubmitQuicSendOperation(
      [m EXCEPT !.os = Append(@, NewOp(out, fin)),
                !.r.QuicSendFinSubmitted = @ \/ fin], o, refuse)

Submitted(m) == Last(m.os).State # "Deleted"

Idle(m) == [m EXCEPT !.k.pc = "idle"]

(* readv() into as many of two buffers as the budget allows; the budget    *)
(* being used up disarms the socket even when something was read.          *)
ReadData(m, n, out, refuse) ==
    LET ids == Ids(m.t.read + 1, m.t.read + n)
        read == [m EXCEPT !.t.read = @ + n]
        a == IF Free(m) < 2 THEN ArmTcpReadable(read, FALSE) ELSE read
        all == m.r.Compressor \o ids
        c == [a EXCEPT !.r.Compressor = SubSeq(all, out + 1, Len(all))]
        d == Submit(c, SubSeq(all, 1, out), FALSE, refuse)
    IN IF env.compress /\ n + out > Free(m) THEN Idle(SetRelayStop(c))
       ELSE IF ~Submitted(d) THEN Idle(SetRelayStop(d))
       ELSE IF ShouldPauseTcpRead(d) THEN Idle(ArmTcpReadable(d, FALSE))
       ELSE [d EXCEPT !.k.pc = "read"]

(* BuildTcpToQuicViews: the compressor puts out some of what it has.       *)
Compressed(n) ==
    IF env.compress THEN 1..(Len(relay.Compressor) + n) ELSE {n}

(* End of file: FinishTcpToQuic, while the buffers for the read are held.  *)
ReadEof(m, refuse) ==
    LET a == ArmTcpReadable([m EXCEPT !.t.eof = TRUE, !.r.TcpReadClosed = TRUE], FALSE)
        out == m.r.Compressor
        held == IF Free(m) < 2 THEN Free(m) ELSE 2
        d == Submit([a EXCEPT !.r.Compressor = <<>>], out, TRUE, refuse)
    IN Idle(IF m.r.Closing \/ held + Len(out) > Free(m) THEN SetRelayStop(a)
            ELSE IF ~Submitted(d) THEN SetRelayStop(d) ELSE d)

Readv(refuse) ==
    \/ \E n \in 1..2 : \E out \in Compressed(n) :
          /\ ~tcp.reset /\ tcp.read + n <= env.up /\ n <= Free(Now)
          /\ Becomes(ReadData(Now, n, out, refuse))
    \/ /\ ~tcp.reset /\ tcp.read = env.up /\ ~tcp.eof /\ Free(Now) > 0
       /\ Becomes(ReadEof(Now, refuse))
    \/ /\ Free(Now) = 0
       /\ Becomes(Idle(ArmTcpReadable(Now, FALSE)))
    \/ /\ tcp.reset /\ Free(Now) > 0
       /\ Becomes(Idle(FailRelayFatal(Now)))

Refusals == {FALSE} \cup {MayRefuse(stream)}

(* ProcessTcpEvents: the socket is in the epoll set and its relay is live. *)
Polled ==
    AtLoop /\ relay.watched /\ FindRelayById(Now) /\ relay.Committed /\ ~relay.Closing

(* DrainTcpReadable, from the kernel's event to its first readv().         *)
(* EPOLLRDHUP, the client's FIN, is reported whether or not reading is     *)
(* armed.                                                                  *)
DrainTcpReadable ==
    /\ Polled /\ ~relay.TcpReadClosed
    /\ IF ShouldPauseTcpRead(Now) THEN Becomes(ArmTcpReadable(Now, FALSE))
       ELSE \E refuse \in Refusals : Readv(refuse)

(* A further turn of its loop, or EAGAIN or the end of the tick's budget.  *)
ContinueDrainTcpReadable ==
    /\ worker.pc = "read"
    /\ \/ \E refuse \in Refusals : Readv(refuse)
       \/ Becomes(Idle(Now))

(* ProcessTcpEvents, EPOLLOUT. *)
WriteReady ==
    /\ Polled /\ relay.TcpWriteArmed
    /\ \E io \in IO :
         Becomes(FlushTcpWrites(FlushDeferredQuicReceives(
                   FlushTcpWrites(Now, Cap(io)), io, Cap(io)), Cap(io)))

(* ProcessTcpEvents, EPOLLERR. *)
TcpError ==
    /\ Polled /\ tcp.reset
    /\ Becomes(AbortRelayAndRelease(Now))

-----------------------------------------------------------------------------
(* MsQuic's callbacks, one at a time for a stream.                         *)

OnBinding(s) == s.Target = "binding"
Serial == binding.cb = NoCallback

(* The callback gets past the endpoint and the checks on the binding. *)
Admitted == OnBinding(stream) /\ binding.EndpointOpen
Attached(m) == ~m.b.Closing /\ m.b.Relay

(* RECEIVE answered with an error: MsQuic stops indicating. *)
TakeNothing(m) == [m EXCEPT !.s.enabled = FALSE]

(* RECEIVE answered with success: the bytes are consumed. *)
TakeAll(m, n, fin) == [m EXCEPT !.s = Consumed(@, n, fin)]

(* QueueTerminalHandoffFallback: once until it is drained. *)
QueueTerminalHandoffFallback(m, observed) ==
    LET a == [m EXCEPT !.b.TerminalObserved = @ \/ observed] IN
    IF m.k.TerminalFallback THEN a ELSE Wake([a EXCEPT !.k.TerminalFallback = TRUE])

RequestTerminalHandoff(m) ==
    LET a == [m EXCEPT !.b.Closing = TRUE] IN
    IF Room(a) THEN Enqueue(a, Ev("TerminalHandoff", 0))
    ELSE QueueTerminalHandoffFallback(a, FALSE)

AbortRelayFromCallback(m) == TakeNothing(RequestTerminalHandoff(m))

ReceiveBegins ==
    /\ Serial
    /\ \E n \in 0..2, fin \in BOOLEAN :
       /\ CanIndicate(stream, n, fin)
       /\ \/ /\ OnBinding(stream)
             /\ Becomes(IF binding.EndpointOpen /\ Attached(Now) /\ ~relay.Closing
                        THEN [Now EXCEPT !.b.cb = [at |-> "queue", n |-> n, fin |-> fin]]
                        ELSE TakeAll(Now, n, fin))
          \/ /\ stream.Target = "sink"
             /\ Becomes(TakeNothing([Now EXCEPT !.s = RequestShutdown(@, "AbortReceive")]))

PrecommitBytes(m) ==
    FoldLeft(LAMBDA n, v : n + Len(m.vs[v].ids), 0, m.b.PrecommitReceives)

BuildPendingQuicReceive(m, n, fin) ==
    [m EXCEPT !.s = Indicated(@, n, fin),
              !.vs = Append(@, NewView(Ids(m.s.indicated + 1, m.s.indicated + n), fin))]

(* QueuePrecommitQuicReceive. *)
QueuePrecommitQuicReceive(m, n, fin) ==
    IF m.b.Activation = "Failed" \/ m.b.Closing \/ PrecommitBytes(m) + n > env.recv
    THEN AbortRelayFromCallback(m)
    ELSE LET a == BuildPendingQuicReceive(m, n, fin) IN
         [a EXCEPT !.b.PrecommitReceives = Append(@, Len(a.vs))]

(* QueueDeferredQuicReceive: to the worker, or if its queue is full to the *)
(* relay's own list.                                                       *)
QueueDeferredQuicReceive(m, n, fin) ==
    LET a == BuildPendingQuicReceive(m, n, fin) IN
    IF Room(m) THEN Enqueue(a, Ev("QuicReceiveView", Len(a.vs)))
    ELSE [a EXCEPT !.r.CallbackPendingQuicReceives = Append(@, Len(a.vs)),
                   !.b.cb = [NoCallback EXCEPT !.at = "pause"]]

ReceiveQueues ==
    /\ binding.cb.at = "queue"
    /\ LET n == binding.cb.n
           fin == binding.cb.fin
           a == [Now EXCEPT !.b.cb = NoCallback]
       IN \/ Becomes(IF relay.Closing THEN AbortRelayFromCallback(a)
                     ELSE IF binding.Activation # "Active"
                     THEN QueuePrecommitQuicReceive(a, n, fin)
                     ELSE QueueDeferredQuicReceive(a, n, fin))
          \/ env.fault = "allocFails" /\ Becomes(AbortRelayFromCallback(a))

(* The queue was full: the stream is paused and the worker woken. *)
ReceivePauses ==
    /\ binding.cb.at = "pause"
    /\ LET a == Wake([Now EXCEPT !.b.cb = NoCallback]) IN
       Becomes(IF relay.QuicReceivePaused THEN a
               ELSE SetQuicReceiveEnabled([a EXCEPT !.r.QuicReceivePaused = TRUE], FALSE))

(* SEND_COMPLETE goes to the binding whatever the target is by now; after  *)
(* the endpoint has closed it is dropped.                                  *)
OnSendComplete(m, o) ==
    IF ~m.b.EndpointOpen THEN m
    ELSE IF Room(m) THEN Enqueue(m, Ev("QuicSendComplete", o))
    ELSE Wake([m EXCEPT !.k.SendCompletionFallback = Append(@, o)])

SendComplete ==
    /\ Serial /\ CanSendComplete(stream)
    /\ Becomes(OnSendComplete([Now EXCEPT !.s.flight = Tail(@)], Head(stream.flight)))

(* IDEAL_SEND_BUFFER_SIZE, dropped when the queue is full. *)
IdealSendBuffer ==
    /\ env.control = "idealSendBuffer" /\ Serial /\ Open(stream) /\ Admitted /\ Attached(Now)
    /\ Room(Now) /\ relay.IdealSendBufferBytes = env.sends
    /\ \A i \in DOMAIN queue : queue[i].Type # "QuicIdealSendBuffer"
    /\ Becomes(Enqueue(Now, Ev("QuicIdealSendBuffer", env.sends + 1)))

(* The handler ignores PEER_SEND_SHUTDOWN and SEND_SHUTDOWN_COMPLETE. *)
PeerSendShutdown ==
    /\ Serial /\ CanPeerSendShutdown(stream)
    /\ Becomes([Now EXCEPT !.s.peerShut = TRUE])

SendShutdownComplete ==
    /\ Serial /\ CanSendShutdownComplete(stream)
    /\ Becomes([Now EXCEPT !.s.sendDone = TRUE])

(* PEER_SEND_ABORTED, PEER_RECEIVE_ABORTED and the fake FIN of a RECEIVE.  *)
OnPeerAborted(m) == IF ~Admitted \/ ~Attached(m) THEN m ELSE RequestTerminalHandoff(m)

PeerAborted ==
    /\ Serial /\ Open(stream)
    /\ \/ /\ env.fault = "peerAbortsSend" /\ stream.peerAbort = "none"
          /\ Becomes(OnPeerAborted([Now EXCEPT !.s.peerAbort = "send"]))
       \/ /\ env.fault = "peerAbortsReceive" /\ stream.peerAbort = "none"
          /\ Becomes(OnPeerAborted([Now EXCEPT !.s.peerAbort = "receive"]))
       \/ /\ env.fault = "fakeFin" /\ stream.enabled /\ ~stream.finIndicated
          /\ Admitted /\ Attached(Now)
          /\ Becomes(OnPeerAborted(Now))

(* SHUTDOWN_COMPLETE: the owner turns terminal first, then the route. *)
OnShutdownComplete(m) ==
    IF ~m.b.EndpointOpen \/ ~Attached(m) THEN m
    ELSE LET a == FailManagedBinding(m) IN
         IF Room(a) THEN Enqueue(a, Ev("QuicShutdownComplete", 0))
         ELSE QueueTerminalHandoffFallback(a, TRUE)

ShutdownComplete ==
    /\ Serial /\ CanShutdownComplete(stream)
    /\ LET a == [Now EXCEPT !.s = PublishTerminal(@)] IN
       Becomes(IF OnBinding(stream) THEN OnShutdownComplete(a)
               ELSE IF stream.Target = "sink"
               THEN [a EXCEPT !.h.handoff = @ \cup {"terminal"}] ELSE a)

-----------------------------------------------------------------------------
(* The caller of TqRelayStart and TqRelayStop.                             *)

TqRelayStart ==
    /\ handle.Backend = "None" /\ worker.stop = "none"
    /\ LET a == [Now EXCEPT !.h.Backend = "Starting", !.h.active = 1] IN
       Becomes(IF ~Room(Now) THEN [a EXCEPT !.k.reg = "failed"]
               ELSE Enqueue([a EXCEPT !.k.reg = "queued"], Ev("RegisterRelay", 0)))

(* WaitForCommandDone gives up: the caller learns nothing of the relay, so *)
(* it takes the descriptor to be still its own.                            *)
CommandTimesOut ==
    /\ env.control = "commandTimeout"
    /\ \/ /\ worker.reg = "queued"
          /\ Becomes([Now EXCEPT !.k.reg = "timeout", !.k.Cancelled = TRUE])
       \/ /\ worker.unreg = "queued"
          /\ Becomes([Now EXCEPT !.k.unreg = "done"])

(* RegisterRelayWithId returned; the tunnel disposes of what a failed      *)
(* start left to it.                                                       *)
StartReturns ==
    /\ handle.Backend = "Starting"
    /\ \/ /\ worker.reg = "ok" /\ ~handle.stop
          /\ Becomes([Now EXCEPT !.h.Backend = "Worker"])
       \/ /\ worker.reg = "ok" /\ handle.stop
          /\ Becomes([Now EXCEPT !.h.Backend = "Undoing"])
       \/ /\ worker.reg \in {"failed", "timeout"}
          /\ LET a == [Now EXCEPT !.h.Backend = "Failed", !.h.active = 0,
                                  !.s = RequestShutdown(@, "AbortBoth")] IN
             Becomes(IF worker.reg = "timeout" \/ handle.fdOwner = "tunnel"
                     THEN [a EXCEPT !.t = CloseFd(@)] ELSE a)

(* The reaper stops a relay whose terminal handoff is complete; the tunnel *)
(* stops one whose connection is shutting down.                            *)
TqRelayStop ==
    /\ handle.Backend = "Worker"
    /\ (handle.stop /\ TerminalReleaseReady(handle)) \/ env.control = "unregister"
    /\ Becomes([Now EXCEPT !.h = [SignalStop(@) EXCEPT !.Backend = "Stopping"],
                           !.s.lost = @ \/ ~TerminalReleaseReady(handle)])

(* UnregisterRelay: through the runtime while the relay's worker is alive, *)
(* which does nothing once the runtime has stopped, else on the worker     *)
(* itself.  A queue that stays full makes it give up.                      *)
UnregisterRelay ==
    /\ handle.Backend \in {"Stopping", "Undoing"} /\ worker.unreg = "none"
    /\ \/ /\ worker.stop = "none" /\ Room(Now)
          /\ Becomes(Enqueue([Now EXCEPT !.k.unreg = "queued"], Ev("UnregisterRelay", 0)))
       \/ /\ worker.stop = "none" /\ ~Room(Now)
          /\ Becomes([Now EXCEPT !.k.unreg = "done"])
       \/ /\ worker.stop = "done" /\ worker.WorkerEndpointAlive
          /\ Becomes([Now EXCEPT !.k.unreg = "done"])
       \/ /\ worker.stop \in {"handed", "closed"} /\ ~worker.WorkerEndpointAlive
          /\ worker.pc = "idle"
          /\ Becomes([UnregisterRelayLocal(Now) EXCEPT !.k.unreg = "done"])
       \/ /\ worker.stop = "done" /\ ~worker.WorkerEndpointAlive
          /\ Becomes([Now EXCEPT !.k.unreg = "done", !.k.dangling = TRUE])

StopReturns ==
    /\ worker.unreg = "done"
    /\ LET a == [Now EXCEPT !.h.active = 0] IN
       \/ handle.Backend = "Stopping" /\ Becomes([a EXCEPT !.h.Backend = "Stopped"])
       \/ /\ handle.Backend = "Undoing"
          /\ Becomes([a EXCEPT !.h.Backend = "Failed",
                               !.s = RequestShutdown(@, "AbortBoth")])

-----------------------------------------------------------------------------
(* Snapshot: the caller waits until its deadline.                          *)

Snapshot ==
    /\ env.control = "snapshot" /\ worker.snap = "none"
    /\ \/ /\ worker.stop = "none" /\ Room(Now)
          /\ Becomes(Enqueue([Now EXCEPT !.k.snap = "Pending"], Ev("Snapshot", 0)))
       \/ /\ worker.stop = "none" /\ ~Room(Now)
          /\ Becomes([Now EXCEPT !.k.snap = "Cancelled"])

SnapshotTimesOut ==
    /\ worker.snap = "Pending"
    /\ Becomes([Now EXCEPT !.k.snap = "Cancelled"])

-----------------------------------------------------------------------------
(* TqLinuxRelayWorker::Stop.  The runtime's lock keeps it apart from an    *)
(* UnregisterRelay and a snapshot; that no start is in progress either is  *)
(* left to the callers of the runtime.                                     *)

(* Running = false, Wake, join. *)
StopJoins ==
    /\ env.control \in {"stop", "snapshot"} /\ worker.stop = "none" /\ worker.pc = "idle"
    /\ worker.unreg # "queued" /\ worker.snap # "Pending"
    /\ handle.Backend \notin {"Starting", "Undoing"}
    /\ Becomes([Now EXCEPT !.k.stop = "joined", !.k.Running = FALSE])

StopHandsOff ==
    /\ worker.stop = "joined"
    /\ LET a == [Now EXCEPT !.k.stop = "handed",
                            !.k.WorkerEndpointAlive = ~FindRelayById(Now)] IN
       Becomes(IF relay.Mapped THEN BeginTerminalHandoff(a, FALSE) ELSE a)

(* CloseAndWait: the callbacks inside leave first. *)
StopClosesEndpoint ==
    /\ worker.stop = "handed" /\ Serial
    /\ Becomes([Now EXCEPT !.b.EndpointOpen = FALSE, !.k.stop = "closed"])

(* What was posted has been drained. *)
StopFinishes ==
    /\ worker.stop = "closed" /\ worker.pc = "idle" /\ queue = <<>> /\ ~Lanes
    /\ Becomes([PurgeRetiredRelaysIfIdle(UnregisterRelayLocal(Now)) EXCEPT !.k.stop = "done"])

-----------------------------------------------------------------------------
Init ==
    /\ env \in Scenarios
    /\ tcp = TcpInit /\ stream = StreamInit /\ handle = HandleInit
    /\ relay = RelayInit /\ binding = BindingInit /\ views = <<>> /\ ops = <<>>
    /\ queue = <<>> /\ worker = WorkerInit

WorkerStep ==
    \/ DrainFallbacks \/ DrainEvents \/ FinishDrainEvents \/ RearmWake
    \/ CommitPreparedRelay \/ ActivateCommittedRelay
    \/ DrainTcpReadable \/ ContinueDrainTcpReadable \/ WriteReady \/ TcpError

CallbackStep ==
    \/ ReceiveBegins \/ ReceiveQueues \/ ReceivePauses \/ SendComplete \/ IdealSendBuffer
    \/ PeerSendShutdown \/ SendShutdownComplete \/ PeerAborted \/ ShutdownComplete

CallerStep ==
    \/ TqRelayStart \/ StartReturns \/ TqRelayStop \/ UnregisterRelay \/ StopReturns

StopStep == StopJoins \/ StopHandsOff \/ StopClosesEndpoint \/ StopFinishes
SnapshotStep == Snapshot \/ SnapshotTimesOut
NetworkStep == TcpReset \/ ConnectionLost \/ CancelOnLoss

Next ==
    \/ WorkerStep \/ CallbackStep \/ CallerStep \/ CommandTimesOut \/ StopStep
    \/ SnapshotStep \/ NetworkStep

(* The threads of the worker, of MsQuic, of the tunnel and of the runtime  *)
(* go on; nothing makes the network fail, a wait time out, or the runtime  *)
(* stop.  Each turn of epoll_wait serves every ready descriptor.           *)
CanRead == Polled /\ ~relay.TcpReadClosed /\ relay.TcpReadArmed

CanWrite ==
    /\ Polled /\ relay.TcpWriteArmed
    /\ relay.PendingTcpWrites # <<>> \/ relay.PendingQuicReceives = <<>> \/ Free(Now) > 0

CanCall ==
    \/ handle.Backend = "None" /\ worker.stop = "none"
    \/ handle.Backend = "Starting" /\ worker.reg \in {"ok", "failed", "timeout"}
    \/ handle.Backend = "Worker" /\ handle.stop /\ TerminalReleaseReady(handle)
    \/ /\ handle.Backend \in {"Stopping", "Undoing"}
       /\ \/ worker.unreg = "none" /\ worker.stop \in {"none", "done"}
          \/ worker.unreg = "done"

CanReceive ==
    /\ Serial /\ stream.Target \in {"binding", "sink"}
    /\ \E n \in 0..1 : CanIndicate(stream, n, n = 0)

CanStop ==
    \/ worker.stop \in {"joined", "handed"} /\ Serial
    \/ worker.stop = "closed" /\ worker.pc = "idle" /\ queue = <<>> /\ ~Lanes

MidStep ==
    \/ DrainEvents \/ FinishDrainEvents \/ RearmWake \/ CommitPreparedRelay
    \/ ActivateCommittedRelay \/ ContinueDrainTcpReadable

CanNotice ==
    /\ Serial
    /\ \/ CanSendComplete(stream) \/ CanPeerSendShutdown(stream)
       \/ CanSendShutdownComplete(stream) \/ CanShutdownComplete(stream)

NoticeStep == SendComplete \/ PeerSendShutdown \/ SendShutdownComplete \/ ShutdownComplete

CanDrain ==
    \/ AtLoop /\ worker.wake
    \/ worker.stop = "closed" /\ worker.pc = "idle" /\ (queue # <<>> \/ Lanes)

Spec == Init /\ [][Next]_vars

-----------------------------------------------------------------------------
(* Properties of this worker.                                              *)

Bytes(items, Of(_)) == FoldLeft(LAMBDA n, x : n + Of(x), 0, items)

(* The ledgers agree with the lists: an operation is outstanding from the  *)
(* moment MsQuic has taken it until the worker has handled its completion, *)
(* in the queue or in the fallback lane; the receive ledger holds what the *)
(* queued views have left to complete.                                     *)
LedgersExact ==
    relay.Mapped =>
      /\ relay.OutstandingQuicSends = Cardinality({o \in DOMAIN ops : ops[o].State = "InFlight"})
      /\ relay.OutstandingQuicSendBytes =
           Bytes(ops, LAMBDA o : IF o.State = "InFlight" THEN Len(o.ids) ELSE 0)
      /\ relay.PendingQuicReceiveBytes =
           Bytes(relay.PendingQuicReceives, LAMBDA v : Rest(views[v]))

(* The buffers of a send belong to MsQuic until SEND_COMPLETE. *)
FlightOwned == \A i \in DOMAIN stream.flight : ops[stream.flight[i]].State # "Deleted"
=============================================================================

------------------------- MODULE DarwinRelayWorker -------------------------
(***************************************************************************)
(* TqDarwinRelayWorker (src/tunnel/darwin_relay_worker.cpp): one kqueue    *)
(* worker with one relay, from TqRelayStart to TqRelayStop or to the stop  *)
(* of the worker.  Threads: the tunnel that starts and stops the relay,    *)
(* the worker, MsQuic's callbacks, the runtime that stops the worker and   *)
(* the one that asks for a snapshot.  A callback and one worker event are  *)
(* single steps; reading the socket, sending, and the stages of a          *)
(* registration are separate steps, so callbacks fall between them.        *)
(***************************************************************************)
EXTENDS RelayEnvironment

(* RelayState. *)
RelayInit ==
    [Mapped |-> FALSE,              \* in Relays
     InRetired |-> FALSE,           \* in RetiredRelays
     Closing |-> FALSE, TcpReadClosed |-> FALSE, TcpWriteClosed |-> FALSE,
     TcpReadArmed |-> FALSE, TcpWriteArmed |-> FALSE,
     kr |-> "none", kw |-> "none",  \* the two kqueue filters in the kernel
     TcpReadPausedByQuicBacklog |-> FALSE,
     QuicSendFinSubmitted |-> FALSE, QuicSendFinCompleted |-> FALSE,
     InFlightQuicSends |-> 0, InFlightQuicSendBytes |-> 0,
     PendingQuicSends |-> <<>>,
     PendingQuicReceives |-> <<>>, PendingQuicReceiveBytes |-> 0,
     PendingTcpWrites |-> <<>>,     \* pairs <<view, chunk>>
     Compressor |-> <<>>,           \* chunks taken in and not yet put out
     Decompressor |-> <<>>,
     TcpWriteShutdownQueued |-> FALSE, QuicReceivePaused |-> FALSE,
     LogicallyDetached |-> FALSE, RetiredToWorker |-> FALSE,
     Bound |-> FALSE,               \* Binding != nullptr
     Owned |-> FALSE]               \* StreamOwner != nullptr

(* StreamBinding, CompletionState and CallbackEndpoint. *)
BindingInit ==
    [HasWorker |-> FALSE, EndpointOpen |-> TRUE,
     Active |-> TRUE, Terminal |-> FALSE, Closing |-> FALSE,
     InRetired |-> FALSE,           \* in RetiredStreamBindings
     Activation |-> "Prepared", RouteGeneration |-> 0,
     PrecommitReceives |-> <<>>, PrecommitSettled |-> FALSE,
     CallbackPendingReceiveBytes |-> 0, CallbackPendingReceiveEvents |-> 0,
     CallbackPendingQuicReceives |-> <<>>, CallbackQuicReceivePaused |-> FALSE,
     PeerSendShutdownSticky |-> FALSE, SendShutdownCompleteSticky |-> FALSE,
     ConvergenceCheckSticky |-> FALSE]

(* TqDarwinPendingQuicReceive: a RECEIVE indication of the chunks ids. *)
NewView(ids, fin, st) ==
    [ids |-> ids, fin |-> fin, CompletionState |-> st, PendingCompleteBytes |-> 0,
     settled |-> ids = <<>>,        \* CompletedLength >= TotalLength
     CallbackBudgetHeld |-> FALSE]

(* TqDarwinRelaySendOperation; `at' is the registry that knows it. *)
NewOp(ids, fin) ==
    [ids |-> ids, fin |-> fin, State |-> "Created", at |-> "none",
     CompletionCanceled |-> FALSE]

(* The worker: its thread, and the commands other threads wait for. *)
WorkerInit ==
    [Running |-> TRUE, pc |-> "idle", x |-> 0, wake |-> FALSE,
     reg |-> "none", unreg |-> "none", stop |-> "none",
     snap |-> "none", permit |-> FALSE, seen |-> <<>>]

Ev(type, x) == [Type |-> type, x |-> x]
Room(m) == Len(m.q) < env.queue
Wake(m) == [m EXCEPT !.k.wake = m.k.Running]
TryPush(m, e) == Wake([m EXCEPT !.q = Append(@, e)])

(* Bytes of the relay's buffer budget in use: TcpReadBuffers, from which   *)
(* both directions allocate.                                               *)
Buffered(m) ==
    Len(m.r.PendingTcpWrites)
    + FoldLeft(LAMBDA n, o : n + (IF o.State = "Deleted" THEN 0 ELSE Len(o.ids)),
               0, m.os)

-----------------------------------------------------------------------------
(* Half-close convergence.                                                 *)

FullyClosedPredicateReady(m) ==
    LET r == m.r IN
    /\ ~r.Closing /\ r.TcpReadClosed /\ r.TcpWriteClosed
    /\ r.QuicSendFinSubmitted /\ r.QuicSendFinCompleted
    /\ r.InFlightQuicSends = 0 /\ r.PendingQuicSends = <<>>
    /\ r.PendingTcpWrites = <<>> /\ r.PendingQuicReceives = <<>>
    /\ r.PendingQuicReceiveBytes = 0 /\ ~r.TcpWriteShutdownQueued
    /\ r.Bound => /\ ~m.b.PeerSendShutdownSticky
                  /\ ~m.b.SendShutdownCompleteSticky
                  /\ ~m.b.ConvergenceCheckSticky
                  /\ m.b.CallbackPendingReceiveEvents = 0
                  /\ m.b.CallbackPendingReceiveBytes = 0

MaybePublishFullyClosedStop(m) ==
    IF FullyClosedPredicateReady(m) THEN [m EXCEPT !.h = SignalStop(@)] ELSE m


(* TcpReadArmed and TcpWriteArmed reach the kernel only here. *)
UpdateTcpInterest(m) ==
    [m EXCEPT !.r.kr = IF m.r.TcpReadArmed THEN "on" ELSE "off",
              !.r.kw = IF m.r.TcpWriteArmed THEN "on" ELSE "off"]

InstallInactiveTcpFilters(m) == [m EXCEPT !.r.kr = "off", !.r.kw = "off"]
RemoveTcpFilters(m) == [m EXCEPT !.r.kr = "none", !.r.kw = "none"]

-----------------------------------------------------------------------------
(* Completing receives towards MsQuic.  The binding turns Terminal only    *)
(* after the owner did, so the owner's phase decides.                      *)

CompleteDeferredQuicReceive(m, v) ==
    LET x == m.vs[v] IN
    IF x.PendingCompleteBytes = 0 \/ x.CompletionState # "Pending" THEN m
    ELSE IF ~TryAcquireApi(m.s)
    THEN [m EXCEPT !.vs[v].CompletionState = "TerminalDiscarded",
                   !.vs[v].PendingCompleteBytes = 0]
    ELSE [m EXCEPT !.vs[v].CompletionState = "ActiveCompleted",
                   !.vs[v].PendingCompleteBytes = 0,
                   !.s = ReceiveComplete(@, x.PendingCompleteBytes)]

(* ReserveCallbackReceiveBudget: bytes only, except that one oversized     *)
(* receive is let in when no oversized one is pending.                     *)
CanReserveCallbackReceiveBudget(b, n) ==
    IF n > env.recv THEN b.CallbackPendingReceiveEvents = 0
    ELSE b.CallbackPendingReceiveBytes + n <= env.recv

ReserveCallbackReceiveBudget(b, n) ==
    [b EXCEPT !.CallbackPendingReceiveBytes = @ + n,
              !.CallbackPendingReceiveEvents = IF n > env.recv THEN 1 ELSE @ + 1]

ReleaseCallbackReceiveBudget(m, v) ==
    IF ~m.vs[v].CallbackBudgetHeld THEN m
    ELSE [m EXCEPT
            !.vs[v].CallbackBudgetHeld = FALSE,
            !.b.CallbackPendingReceiveBytes = @ - Len(m.vs[v].ids),
            !.b.CallbackPendingReceiveEvents = IF @ = 0 THEN 0 ELSE @ - 1]

Without(s, e) == SelectSeq(s, LAMBDA y : y # e)

(* DiscardDeferredQuicReceive; `known' says that the relay is passed, and  *)
(* on the worker's thread.                                                 *)
ForgetSettled(m, v) ==
    IF m.vs[v].CompletionState = "Pending" THEN m
    ELSE [m EXCEPT !.r.PendingQuicReceives = Without(@, v)]

SettleDeferredQuicReceive(m, v, debit) ==
    LET x == m.vs[v] IN
    CompleteDeferredQuicReceive(
      [ReleaseCallbackReceiveBudget(m, v) EXCEPT
         !.vs[v].settled = TRUE,
         !.vs[v].PendingCompleteBytes =
            IF x.PendingCompleteBytes = 0 /\ x.settled THEN 0 ELSE Len(x.ids),
         !.r.PendingQuicReceiveBytes = IF @ >= debit THEN @ - debit ELSE 0], v)

DiscardDeferredQuicReceive(m, v, known) ==
    IF ~known THEN SettleDeferredQuicReceive(m, v, 0)
    ELSE ForgetSettled(SettleDeferredQuicReceive(
           m, v, IF m.vs[v].settled THEN 0 ELSE Len(m.vs[v].ids)), v)

DiscardAll(m, vids, known) ==
    FoldLeft(LAMBDA n, v : DiscardDeferredQuicReceive(n, v, known), m, vids)

-----------------------------------------------------------------------------
(* Flow control of the QUIC to TCP direction.                              *)

SetQuicReceiveEnabled(m, on) == [m EXCEPT !.s.enabled = on]

CanSetQuicReceiveEnabled(m) ==
    /\ m.r.Bound => ~m.b.Terminal /\ m.b.Active
    /\ TryAcquireApi(m.s)

Pressure(m) == m.r.PendingQuicReceiveBytes + Len(m.r.PendingTcpWrites)

MaybePauseQuicReceive(m) ==
    IF m.r.QuicReceivePaused \/ Pressure(m) < env.recv THEN m
    ELSE IF CanSetQuicReceiveEnabled(m)
    THEN SetQuicReceiveEnabled([m EXCEPT !.r.QuicReceivePaused = TRUE], FALSE)
    ELSE [m EXCEPT !.r.Closing = TRUE]

MaybeResumeQuicReceive(m) ==
    IF ~m.r.QuicReceivePaused \/ Pressure(m) > env.recv \div 2 THEN m
    ELSE IF CanSetQuicReceiveEnabled(m)
    THEN SetQuicReceiveEnabled([m EXCEPT !.r.QuicReceivePaused = FALSE], TRUE)
    ELSE [m EXCEPT !.r.Closing = TRUE]

-----------------------------------------------------------------------------
(* Writing to TCP.                                                         *)

PublishPendingDrainedIfEmpty(m) ==
    IF m.r.PendingTcpWrites = <<>> /\ m.r.PendingQuicReceives = <<>>
         /\ m.r.PendingQuicReceiveBytes = 0
    THEN MaybePublishFullyClosedStop(m) ELSE m

(* FlushTcpWrites, sendmsg() > 0: the kernel takes the next chunk. *)
WriteChunk(m) ==
    LET v == Head(m.r.PendingTcpWrites)[1]
        x == m.vs[v]
        a == [m EXCEPT !.t.out = Append(@, Head(m.r.PendingTcpWrites)[2]),
                       !.r.PendingTcpWrites = Tail(@)]
        last == \A i \in DOMAIN a.r.PendingTcpWrites : a.r.PendingTcpWrites[i][1] # v
        c == IF last /\ x.PendingCompleteBytes = 0 /\ ~x.settled
             THEN CompleteDeferredQuicReceive(
                    [a EXCEPT !.vs[v].PendingCompleteBytes = Len(x.ids),
                              !.vs[v].settled = TRUE,
                              !.r.PendingQuicReceiveBytes = @ - Len(x.ids),
                              !.r.PendingQuicReceives = Without(@, v)], v)
             ELSE a
    IN PublishPendingDrainedIfEmpty(MaybeResumeQuicReceive(c))

(* FlushTcpWrites, nothing left to write. *)
FinishTcpWrites(m) ==
    IF m.r.TcpWriteShutdownQueued
    THEN MaybePublishFullyClosedStop(
           [m EXCEPT !.t.shutWr = TRUE, !.r.TcpWriteShutdownQueued = FALSE,
                     !.r.TcpWriteArmed = FALSE, !.r.TcpWriteClosed = TRUE])
    ELSE PublishPendingDrainedIfEmpty([m EXCEPT !.r.TcpWriteArmed = FALSE])

(* FlushTcpWrites, a hard error of sendmsg(). *)
FailTcpWrites(m) ==
    DiscardAll([m EXCEPT !.r.Closing = TRUE, !.r.PendingQuicReceives = <<>>,
                         !.r.PendingQuicReceiveBytes = 0, !.r.PendingTcpWrites = <<>>],
               m.r.PendingQuicReceives, TRUE)

(* The kernel takes up to io.w chunks, then would block or fails.  The     *)
(* function returns false exactly when the relay is Closing afterwards.    *)
FlushTcpWrites(m, io) ==
    LET a == FoldLeft(LAMBDA n, i : IF n.r.Closing \/ n.r.PendingTcpWrites = <<>>
                                    THEN n ELSE WriteChunk(n), m, Ids(1, io.w))
    IN IF a.r.Closing THEN a
       ELSE IF a.r.PendingTcpWrites = <<>> THEN FinishTcpWrites(a)
       ELSE IF a.t.reset THEN FailTcpWrites(a)
       ELSE PublishPendingDrainedIfEmpty(
              UpdateTcpInterest([a EXCEPT !.r.TcpWriteArmed = TRUE]))

(* EnqueueQuicReceiveForTcp: copy the view, decompressed if need be, into  *)
(* buffers of the relay.  A decompressor takes everything in and puts out  *)
(* what it can; at the end of the frame that is everything.                *)
DecompressorOutput(m, v, io) ==
    LET all == m.r.Decompressor \o m.vs[v].ids IN
    IF ~env.compress THEN m.vs[v].ids
    ELSE IF all # <<>> /\ Last(all) = env.down THEN all
    ELSE SubSeq(all, 1, IF io.d < Len(all) THEN io.d ELSE Len(all))

SettleWithoutOutput(m, v) ==
    IF m.vs[v].settled
    THEN [m EXCEPT !.r.PendingQuicReceives = Without(@, v),
                   !.r.TcpWriteShutdownQueued = @ \/ m.vs[v].fin]
    ELSE LET n == Len(m.vs[v].ids)
             c == CompleteDeferredQuicReceive(
                    [m EXCEPT !.vs[v].settled = TRUE, !.vs[v].PendingCompleteBytes = n,
                              !.r.PendingQuicReceiveBytes = @ - n], v)
         IN [c EXCEPT !.r.PendingQuicReceives = Without(@, v),
                      !.r.TcpWriteShutdownQueued = @ \/
                         (m.vs[v].fin /\ c.vs[v].CompletionState = "ActiveCompleted")]

EnqueueQuicReceiveForTcp(m, v, io) ==
    LET out == DecompressorOutput(m, v, io)
        rest == IF env.compress
                THEN SubSeq(m.r.Decompressor \o m.vs[v].ids, Len(out) + 1,
                            Len(m.r.Decompressor) + Len(m.vs[v].ids))
                ELSE <<>>
        a == [m EXCEPT !.r.Decompressor = rest]
    IN IF io.bad \/ Buffered(m) + Len(out) > env.buffers
       THEN [DiscardDeferredQuicReceive(m, v, TRUE) EXCEPT !.r.Closing = TRUE]
       ELSE MaybeResumeQuicReceive(
              IF out = <<>> THEN SettleWithoutOutput(a, v)
              ELSE [a EXCEPT
                      !.r.PendingTcpWrites = @ \o [i \in DOMAIN out |-> <<v, out[i]>>],
                      !.r.TcpWriteShutdownQueued = @ \/ m.vs[v].fin])

ProcessQuicReceiveViewEvent(m, v, io) ==
    IF ~m.r.Mapped
    THEN DiscardDeferredQuicReceive(ReleaseCallbackReceiveBudget(m, v), v, FALSE)
    ELSE IF m.r.Closing
    THEN DiscardDeferredQuicReceive(ReleaseCallbackReceiveBudget(m, v), v, TRUE)
    ELSE LET a == [m EXCEPT
                     !.r.QuicReceivePaused = @ \/ m.b.CallbackQuicReceivePaused,
                     !.b.CallbackQuicReceivePaused = FALSE,
                     !.r.PendingQuicReceiveBytes = @ + Len(m.vs[v].ids),
                     !.r.PendingQuicReceives = Append(@, v)]
             c == MaybePauseQuicReceive(ReleaseCallbackReceiveBudget(a, v))
         IN IF c.r.Closing THEN DiscardDeferredQuicReceive(c, v, TRUE)
            ELSE FlushTcpWrites(EnqueueQuicReceiveForTcp(c, v, io), io)

-----------------------------------------------------------------------------
(* TCP to QUIC.                                                            *)

ShouldPauseTcpRead(m) ==
    m.r.InFlightQuicSends >= env.sends \/ m.r.InFlightQuicSendBytes >= env.buffers
ShouldResumeTcpRead(m) ==
    /\ ~m.r.TcpReadClosed
    /\ m.r.InFlightQuicSends < env.sends
    /\ m.r.InFlightQuicSendBytes <= env.buffers \div 2

SetTcpReadBackpressure(m, paused) ==
    IF m.r.TcpReadPausedByQuicBacklog = paused THEN m
    ELSE LET a == UpdateTcpInterest(
                    [m EXCEPT !.r.TcpReadPausedByQuicBacklog = paused,
                              !.r.TcpReadArmed = ~paused /\ ~m.r.TcpReadClosed])
         IN IF paused THEN a ELSE MaybePublishFullyClosedStop(a)

DeleteOp(m, o) == [m EXCEPT !.os[o].State = "Deleted"]

(* TrySubmitQuicSendOperation up to the return of StreamSend.  "dropped"   *)
(* and "accepted" and "refused" return true to the caller.                 *)
SendOutcome(m, refuse) ==
    IF m.r.Closing THEN "dropped"
    ELSE IF ~TryAcquireApi(m.s) \/ m.s.Target = "none" THEN "failed"
    ELSE IF ~m.r.Bound \/ ~m.b.Active THEN "dropped"
    ELSE IF refuse THEN "refused" ELSE "accepted"

StartSend(m, o, refuse) ==
    LET out == SendOutcome(m, refuse) IN
    CASE out \in {"dropped", "failed"} -> DeleteOp(m, o)
      [] out = "refused" ->
           [SetTcpReadBackpressure([m EXCEPT !.s = SendRefused(@)], TRUE)
              EXCEPT !.r.PendingQuicSends = Append(@, o)]
      [] out = "accepted" ->
           [m EXCEPT !.os[o].State = "Registered", !.os[o].at = "active",
                     !.r.InFlightQuicSends = @ + 1,
                     !.r.InFlightQuicSendBytes = @ + Len(m.os[o].ids),
                     !.s = SendAccepted(@, o, m.os[o].ids, m.os[o].fin)]

(* MarkKnownSendOperationSubmittedLocal and TryMarkSubmitted: unless the   *)
(* completion was claimed first.                                           *)
MarkSubmitted(m, o) ==
    IF m.os[o].at = "active" /\ m.os[o].State = "Registered"
    THEN [m EXCEPT !.os[o].State = "Submitted"] ELSE m

(* RetryPendingQuicSends: one operation for each call, and the read side   *)
(* resumes once none is left.                                              *)
Retried(m, closing) ==
    IF /\ m.r.PendingQuicSends = <<>> /\ (m.r.Closing => closing)
       /\ ShouldResumeTcpRead(m)
    THEN SetTcpReadBackpressure(m, FALSE) ELSE m

RetryHead(m, o, io) ==
    IF SendOutcome(m, io.refuse) = "failed" THEN [DeleteOp(m, o) EXCEPT !.r.Closing = TRUE]
    ELSE MarkSubmitted(StartSend(m, o, io.refuse), o)

RetryPendingQuicSends(m, io) ==
    IF m.r.Bound /\ m.b.Terminal THEN m
    ELSE Retried(IF m.r.Closing \/ m.r.PendingQuicSends = <<>> THEN m
                 ELSE RetryHead([m EXCEPT !.r.PendingQuicSends = Tail(@)],
                                Head(m.r.PendingQuicSends), io), m.r.Closing)

(* KnownSendOperationCount counts these. *)
Known(m) == {o \in DOMAIN m.os : m.os[o].at # "none"}

PurgeRetiredRelaysIfSafe(m) ==
    LET a == [m EXCEPT !.r.InRetired =
                 @ /\ (m.r.InFlightQuicSends # 0 \/ m.r.Owned)]
    IN IF a.b.InRetired /\ Known(a) = {}
          /\ a.b.CallbackPendingReceiveEvents = 0
          /\ a.b.CallbackPendingQuicReceives = <<>>
          /\ ~(a.r.InRetired /\ a.r.Owned /\ ~a.r.LogicallyDetached)
       THEN [a EXCEPT !.b.InRetired = FALSE, !.b.HasWorker = FALSE] ELSE a

(* CompleteQuicSend, on the worker's thread or on another one.  Only the   *)
(* worker retries refused sends and lets the TCP side read again.          *)
SendSettled(m, o, done) ==
    [m EXCEPT !.os[o].State = "Deleted",
              !.os[o].at = IF @ = "active" THEN "none" ELSE @,
              !.r.InFlightQuicSends = IF @ > 0 THEN @ - 1 ELSE 0,
              !.r.InFlightQuicSendBytes = @ - Len(m.os[o].ids),
              !.r.QuicSendFinCompleted = @ \/ done]

AnnounceFin(m, local) ==
    IF local THEN MaybePublishFullyClosedStop(m)
    ELSE IF m.r.Bound THEN Wake([m EXCEPT !.b.ConvergenceCheckSticky = TRUE]) ELSE m

ResumeTcpRead(m) == IF ShouldResumeTcpRead(m) THEN SetTcpReadBackpressure(m, FALSE) ELSE m

SendMore(m, local, io) ==
    IF ~local \/ m.r.Closing THEN m ELSE ResumeTcpRead(RetryPendingQuicSends(m, io))

CompleteQuicSend(m, o, onWorker, io) ==
    LET local == onWorker /\ (m.r.Mapped \/ m.r.InRetired)
        done == m.os[o].fin /\ ~m.os[o].CompletionCanceled
        a == SendSettled(m, o, done)
        c == SendMore(IF done THEN AnnounceFin(a, local) ELSE a, local, io)
    IN IF m.os[o].State \in {"Detached", "Deleted"} THEN m
       ELSE IF local /\ m.r.Mapped THEN c ELSE PurgeRetiredRelaysIfSafe(c)

(* CompleteDetachedQuicSend: an operation the worker no longer tracks. *)
CompleteDetachedQuicSend(m, o) ==
    IF m.os[o].at # "fallback" THEN m
    ELSE LET a == [m EXCEPT !.os[o].at = "none"] IN
         IF m.os[o].State = "Detached" THEN a
         ELSE [a EXCEPT
                 !.os[o].State = "Deleted",
                 !.r.InFlightQuicSends = IF @ > 0 THEN @ - 1 ELSE 0,
                 !.r.InFlightQuicSendBytes = @ - Len(m.os[o].ids),
                 !.r.QuicSendFinCompleted =
                    @ \/ (m.os[o].fin /\ ~m.os[o].CompletionCanceled)]

-----------------------------------------------------------------------------
(* Closing a relay.                                                        *)

CloseTcpFdOnce(m) == IF m.t.open THEN [m EXCEPT !.t = CloseFd(@)] ELSE m

RequestRelayShutdown(m, intent) ==
    [m EXCEPT !.s = IF m.r.Owned THEN RequestShutdown(@, intent) ELSE @,
              !.h = SignalStop(@)]

(* Both dispositions detach once: TerminalLogicalDetach after the stream   *)
(* ended, ActiveShutdown before.                                           *)
MayRetire(m, terminal) ==
    /\ ~m.r.LogicallyDetached
    /\ terminal \/ ~m.r.RetiredToWorker

ClearRelay(m, terminal) ==
    CloseTcpFdOnce(
      [m EXCEPT
         !.r.LogicallyDetached = @ \/ terminal, !.r.RetiredToWorker = @ \/ ~terminal,
         !.r.Closing = TRUE, !.r.TcpReadClosed = TRUE, !.r.TcpWriteClosed = TRUE,
         !.r.TcpReadArmed = FALSE, !.r.TcpWriteArmed = FALSE,
         !.os = [o \in DOMAIN @ |-> IF o \in Range(m.r.PendingQuicSends)
                                    THEN [@[o] EXCEPT !.State = "Deleted"] ELSE @[o]],
         !.r.PendingQuicSends = <<>>, !.r.PendingQuicReceives = <<>>,
         !.r.PendingQuicReceiveBytes = 0, !.r.PendingTcpWrites = <<>>,
         !.r.Bound = FALSE, !.r.Owned = @ /\ ~terminal])

RetireBinding(m, terminal) ==
    [DiscardAll([m EXCEPT !.b.CallbackPendingQuicReceives = <<>>],
                m.b.CallbackPendingQuicReceives, FALSE)
       EXCEPT !.b.Active = FALSE, !.b.InRetired = TRUE,
              !.b.HasWorker = @ /\ ~(terminal /\ Known(m) = {})]

KeepRetired(m) == [m EXCEPT !.r.InRetired = @ \/ m.r.InFlightQuicSends # 0 \/ m.r.Owned]

RetireRelay(m, terminal, onWorker) ==
    LET c == DiscardAll(ClearRelay(m, terminal), m.r.PendingQuicReceives, onWorker) IN
    IF ~MayRetire(m, terminal) THEN m
    ELSE KeepRetired(IF m.r.Bound THEN RetireBinding(c, terminal) ELSE c)

(* CloseRelay.  A relay already taken out of Relays is closed again only   *)
(* for the terminal detach of one that waits in RetiredRelays.             *)
CloseRelay(m, terminal, onWorker) ==
    IF IF terminal THEN m.r.LogicallyDetached \/ ~(m.r.Mapped \/ m.r.InRetired)
       ELSE ~m.r.Mapped
    THEN m
    ELSE LET a == IF m.r.Mapped THEN RemoveTcpFilters([m EXCEPT !.r.Mapped = FALSE])
                  ELSE m
             c == IF terminal THEN a ELSE RequestRelayShutdown(a, "AbortBoth")
         IN PurgeRetiredRelaysIfSafe(RetireRelay(c, terminal, onWorker))

UnregisterRelayLocal(m, onWorker) == CloseRelay(m, FALSE, onWorker)

-----------------------------------------------------------------------------
(* The binding before and after its activation.                            *)

(* TakePrecommitForSettlementLocked and DiscardPrecommitReceives. *)
DiscardPrecommit(m) ==
    DiscardAll([m EXCEPT !.b.PrecommitSettled = TRUE, !.b.PrecommitReceives = <<>>],
               m.b.PrecommitReceives, FALSE)

EndActivation(m, how) ==
    [m EXCEPT !.b.Activation = IF @ \in {"Terminal", "Failed"} THEN @ ELSE how]

FailManagedBinding(m) ==
    [DiscardPrecommit(EndActivation(m, "Failed"))
       EXCEPT !.b.Closing = TRUE, !.b.Active = FALSE, !.r.Bound = FALSE,
              !.h = SignalStop(@)]

SealManagedBindingTerminal(m) ==
    [DiscardPrecommit(EndActivation(m, "Terminal"))
       EXCEPT !.b.Active = FALSE, !.b.Terminal = TRUE, !.b.Closing = TRUE,
              !.h = SignalStop(@)]

ActivateManagedBinding(m, io) ==
    LET taken == [m EXCEPT !.b.PrecommitSettled = TRUE, !.b.PrecommitReceives = <<>>]
    IN IF m.b.PrecommitSettled THEN m
       ELSE IF m.b.Activation = "Active"
       THEN FoldLeft(LAMBDA n, v : ProcessQuicReceiveViewEvent(n, v, io),
                     taken, m.b.PrecommitReceives)
       ELSE DiscardPrecommit(m)

-----------------------------------------------------------------------------
(* Registration, on the worker's thread: RegisterRelayWithIdLocal.         *)

RollbackPreparedRelay(m, ownsFd) ==
    LET a == RemoveTcpFilters(RequestRelayShutdown(FailManagedBinding(m), "AbortBoth"))
        c == [a EXCEPT !.r.Mapped = FALSE, !.r.Owned = FALSE]
    IN [IF ownsFd THEN CloseTcpFdOnce(c) ELSE c
          EXCEPT !.k.pc = "idle", !.k.reg = "failed"]

(* Everything a callback may see is set before PublishTarget; its success  *)
(* passes the descriptor to the worker.                                    *)
PrepareRelay(m) ==
    LET a == [m EXCEPT
                !.r = [RelayInit EXCEPT !.Mapped = TRUE, !.TcpReadArmed = TRUE,
                                        !.Bound = TRUE, !.Owned = TRUE],
                !.b = [BindingInit EXCEPT !.HasWorker = TRUE,
                                          !.EndpointOpen = m.b.EndpointOpen,
                                          !.RouteGeneration = m.s.RouteGeneration + 1]]
    IN IF ~CanPublishTarget(m.s, m.s.RouteGeneration) THEN RollbackPreparedRelay(a, FALSE)
       ELSE [a EXCEPT !.s = PublishTarget(@, "binding"), !.h.fdOwner = "relay",
                      !.k.pc = "commit"]

(* TryCommitPreparedActivation. *)
MayCommit(m) ==
    /\ m.b.Activation = "Prepared" /\ ~m.b.Terminal /\ ~m.b.Closing
    /\ TryAcquireApi(m.s)
    /\ m.s.RouteGeneration = m.b.RouteGeneration

CommitRelay(m, installed) ==
    LET a == InstallInactiveTcpFilters(m) IN
    IF ~installed THEN RollbackPreparedRelay(m, TRUE)
    ELSE IF ~MayCommit(a) THEN RollbackPreparedRelay(a, TRUE)
    ELSE [a EXCEPT !.b.Activation = "Active", !.k.pc = "enable"]

(* A terminal event after the commit keeps the filters inactive. *)
EnableRelay(m, enabled, io) ==
    LET ended == m.b.Terminal \/ m.b.Activation = "Terminal"
        a == IF ended THEN m ELSE UpdateTcpInterest(m)
    IN IF ~ended /\ ~enabled THEN RollbackPreparedRelay(m, TRUE)
       ELSE [ActivateManagedBinding(a, io) EXCEPT !.k.pc = "idle", !.k.reg = "ok"]

-----------------------------------------------------------------------------
(* The worker's event loop.                                                *)

(* What the kernel and MsQuic answer during a step: chunks the socket      *)
(* takes, chunks the decompressor puts out, a corrupt frame, a refused send. *)
IO == [w : IF tcp.reset THEN {0} ELSE 0..env.down,
       d : IF env.compress THEN 0..env.down ELSE {0},
       bad : {FALSE} \cup {env.fault = "corrupt"},
       refuse : {FALSE} \cup {MayRefuse(stream) /\ relay.PendingQuicSends # <<>>}]

ProcessPeerSendShutdown(m) ==
    IF m.r.Closing \/ m.r.TcpWriteClosed \/ (m.r.Bound /\ m.b.Terminal) \/ ~m.r.Mapped
    THEN m
    ELSE LET a == [m EXCEPT !.r.TcpWriteShutdownQueued = TRUE] IN
         MaybePublishFullyClosedStop(
           IF m.r.PendingTcpWrites = <<>>
           THEN UpdateTcpInterest([a EXCEPT !.r.TcpWriteArmed = TRUE]) ELSE a)

ProcessSendShutdownComplete(m) ==
    IF (m.r.Bound /\ m.b.Terminal) \/ ~m.r.Mapped THEN m
    ELSE MaybePublishFullyClosedStop(m)

(* SnapshotLocal: the gauges a snapshot reports of this relay. *)
SnapshotLocal(m) ==
    [ActiveRelays |-> IF m.r.Mapped THEN 1 ELSE 0,
     OutstandingQuicSends |->
        IF m.r.Mapped THEN m.r.InFlightQuicSends + Len(m.r.PendingQuicSends) ELSE 0,
     PendingReceiveActive |-> IF m.r.Mapped THEN Len(m.r.PendingQuicReceives) ELSE 0,
     StopRemaining |-> (IF m.r.Mapped THEN 1 ELSE 0) + (IF m.r.InRetired THEN 1 ELSE 0)]

(* CompleteSnapshotCommand and CancelSnapshotCommand: the permit is given  *)
(* back once, whether somebody still waits for the answer or not.          *)
EndSnapshotCommand(m, how) ==
    IF m.k.snap \in {"Completed", "Cancelled"} THEN m
    ELSE [m EXCEPT !.k.snap = how, !.k.permit = FALSE,
                   !.k.seen = IF how = "Completed" THEN <<SnapshotLocal(m)>> ELSE <<>>]

DrainEvent(m, io) ==
    LET e == Head(m.q)
        a == [m EXCEPT !.q = Tail(@)]
    IN CASE e.Type = "QuicReceiveView" -> ProcessQuicReceiveViewEvent(a, e.x, io)
         [] e.Type = "QuicSendComplete" -> CompleteQuicSend(a, e.x, TRUE, io)
         [] e.Type = "QuicActiveShutdown" -> CloseRelay(a, FALSE, TRUE)
         [] e.Type = "QuicPeerSendShutdown" -> ProcessPeerSendShutdown(a)
         [] e.Type = "QuicSendShutdownComplete" -> ProcessSendShutdownComplete(a)
         [] e.Type = "QuicShutdownComplete" -> CloseRelay(a, TRUE, TRUE)
         [] e.Type = "RegisterRelay" -> PrepareRelay(a)
         [] e.Type = "UnregisterRelay" ->
              [UnregisterRelayLocal(a, TRUE) EXCEPT !.k.unreg = "done"]
         [] e.Type = "Snapshot" -> EndSnapshotCommand(a, "Completed")

(* FlushCallbackPendingQuicReceives: the views that found the queue full.  *)
FlushCallbackPendingQuicReceives(m) ==
    IF ~m.r.Mapped \/ ~m.r.Bound \/ m.b.Terminal \/ ~m.b.Active THEN m
    ELSE LET parked == m.b.CallbackPendingQuicReceives
             free == env.queue - Len(m.q)
             n == IF Len(parked) < free THEN Len(parked) ELSE free
             a == [m EXCEPT
                     !.r.QuicReceivePaused = @ \/ m.b.CallbackQuicReceivePaused,
                     !.b.CallbackQuicReceivePaused = FALSE,
                     !.q = @ \o [i \in 1..n |-> Ev("QuicReceiveView", parked[i])],
                     !.b.CallbackPendingQuicReceives = SubSeq(@, n + 1, Len(@))]
         IN IF n = Len(parked) THEN MaybeResumeQuicReceive(a) ELSE a

ConsumeHalfCloseStickies(m) ==
    IF ~m.r.Mapped \/ ~m.r.Bound THEN m
    ELSE LET clear == [m EXCEPT !.b.PeerSendShutdownSticky = FALSE]
             a == IF m.b.PeerSendShutdownSticky THEN ProcessPeerSendShutdown(clear) ELSE m
             c == [a EXCEPT !.b.SendShutdownCompleteSticky = FALSE]
             d == IF a.b.SendShutdownCompleteSticky
                  THEN ProcessSendShutdownComplete(c) ELSE c
         IN MaybePublishFullyClosedStop([d EXCEPT !.b.ConvergenceCheckSticky = FALSE])

(* The end of DrainEvents. *)
EndDrain(m) == ConsumeHalfCloseStickies(FlushCallbackPendingQuicReceives(m))

AtLoop == worker.pc = "idle" /\ worker.stop # "exited" /\ worker.stop # "done"

(* DrainEvents, one event of the batch. *)
DrainEvents ==
    /\ AtLoop /\ worker.wake /\ queue # <<>>
    /\ \E io \in IO : Becomes(DrainEvent(Now, io))

(* DrainEvents, the end of a batch: the budget is used up, or the queue.   *)
FinishDrainEvents ==
    /\ AtLoop /\ worker.wake
    /\ LET m == EndDrain(Now) IN Becomes([m EXCEPT !.k.wake = m.q # <<>>])

(* RegisterRelayWithIdLocal after PublishTarget. *)
FilterFails == {TRUE} \cup {env.control # "filterFails"}

CommitPreparedRelay ==
    /\ worker.pc = "commit"
    /\ \E ok \in FilterFails : Becomes(CommitRelay(Now, ok))

EnableCommittedRelay ==
    /\ worker.pc = "enable"
    /\ \E ok \in FilterFails, io \in IO : Becomes(EnableRelay(Now, ok, io))

-----------------------------------------------------------------------------
(* The socket.  A read takes one or two chunks, as far as there are        *)
(* buffers; a compressed read needs buffers for its output as well.        *)

Free(m) == env.buffers - Buffered(m)

(* DrainTcpReadable after SubmitTcpBatchToQuic. *)
AfterSubmit(m, o) ==
    LET a == [m EXCEPT !.k.pc = "idle"] IN
    IF m.os[o].fin THEN MaybePublishFullyClosedStop(a)
    ELSE IF m.r.Closing \/ ~m.r.Bound \/ ~m.b.Active THEN a
    ELSE IF ShouldPauseTcpRead(m) THEN SetTcpReadBackpressure(a, TRUE)
    ELSE [a EXCEPT !.k.pc = "read"]

(* SubmitTcpBatchToQuic. *)
Submit(m, ids, fin, refuse) ==
    LET o == Len(m.os) + 1
        c == [m EXCEPT !.r.QuicSendFinSubmitted = @ \/ fin,
                       !.os = Append(@, NewOp(ids, fin)), !.k.x = o]
        out == SendOutcome(c, refuse)
        d == StartSend(c, o, refuse)
    IN IF m.r.Closing \/ (m.r.Bound /\ ~m.b.Active) THEN [m EXCEPT !.k.pc = "idle"]
       ELSE IF out = "failed" THEN CloseRelay([d EXCEPT !.k.pc = "idle"], FALSE, TRUE)
       ELSE IF out = "accepted" THEN [d EXCEPT !.k.pc = "sent"]
       ELSE AfterSubmit(d, o)

(* The compressor puts out some of what it has, and everything at the end; *)
(* the buffers of the read are held meanwhile.                             *)
Compressed(n) ==
    IF env.compress THEN 1..(Len(relay.Compressor) + n) ELSE {n}

Held(m) == IF ~env.compress THEN 0 ELSE IF Free(m) < 2 THEN Free(m) ELSE 2

SubmitCompressed(m, held, out, fin, refuse) ==
    LET c == [m EXCEPT !.r.Compressor = SubSeq(@, out + 1, Len(@))]
    IN IF env.compress /\ held + out > Free(m)
       THEN CloseRelay([c EXCEPT !.k.pc = "idle"], FALSE, TRUE)
       ELSE Submit(c, SubSeq(m.r.Compressor, 1, out), fin, refuse)

ReadData(m, n, out, refuse) ==
    SubmitCompressed(
      [m EXCEPT !.t.read = @ + n,
                !.r.Compressor = @ \o Ids(m.t.read + 1, m.t.read + n)],
      Held(m), out, FALSE, refuse)

ReadEof(m, refuse) ==
    SubmitCompressed(
      UpdateTcpInterest([m EXCEPT !.t.eof = TRUE, !.r.TcpReadClosed = TRUE,
                                  !.r.TcpReadArmed = FALSE]),
      Held(m), Len(m.r.Compressor), TRUE, refuse)

Readv(refuse) ==
    \/ \E n \in 1..2 : \E out \in Compressed(n) :
          /\ ~tcp.reset /\ tcp.read + n <= env.up /\ n <= Free(Now)
          /\ Becomes(ReadData(Now, n, out, refuse))
    \/ /\ ~tcp.reset /\ tcp.read = env.up /\ ~tcp.eof /\ Free(Now) > 0
       /\ Becomes(ReadEof(Now, refuse))
    \/ /\ Free(Now) = 0
       /\ Becomes(SetTcpReadBackpressure([Now EXCEPT !.k.pc = "idle"], TRUE))
    \/ /\ tcp.reset /\ Free(Now) > 0
       /\ Becomes(CloseRelay([Now EXCEPT !.r.Closing = TRUE, !.k.pc = "idle"], FALSE, TRUE))

Refusals == {FALSE} \cup {MayRefuse(stream)}

ReadReady == AtLoop /\ relay.Mapped /\ tcp.open /\ relay.kr = "on"

(* DrainTcpReadable, from the kernel's event to its first readv(). *)
DrainTcpReadable ==
    /\ ReadReady
    /\ ~relay.Closing /\ ~relay.TcpReadClosed /\ (relay.Bound => binding.Active)
    /\ IF ShouldPauseTcpRead(Now) THEN Becomes(SetTcpReadBackpressure(Now, TRUE))
       ELSE \E refuse \in Refusals : Readv(refuse)

(* A further turn of its loop, or EAGAIN or the end of the tick's budget.  *)
ContinueDrainTcpReadable ==
    /\ worker.pc = "read"
    /\ \/ \E refuse \in Refusals : Readv(refuse)
       \/ Becomes([Now EXCEPT !.k.pc = "idle"])

(* After a send was accepted: if its completion was claimed meanwhile, one *)
(* event is processed in place.                                            *)
FinishSend ==
    /\ worker.pc = "sent"
    /\ \E io \in IO :
         LET a == MarkSubmitted(Now, worker.x)
             claimed == a.os[worker.x].State = "CompletionClaimed"
         IN Becomes(AfterSubmit(
                      IF claimed THEN EndDrain(IF a.q = <<>> THEN a ELSE DrainEvent(a, io))
                      ELSE a, worker.x))

(* ProcessTcpEvents, EVFILT_WRITE: level triggered, the socket has room.   *)
WriteReady ==
    /\ AtLoop /\ relay.Mapped /\ tcp.open /\ relay.kw = "on"
    /\ \E io \in IO :
         /\ io.w > 0 \/ tcp.reset \/ relay.PendingTcpWrites = <<>> \/ relay.Closing
         /\ LET m == IF relay.Closing THEN Now ELSE FlushTcpWrites(Now, io) IN
            Becomes(IF m.r.Closing THEN CloseRelay(m, FALSE, TRUE) ELSE m)

(* ProcessTcpEvents, EV_ERROR. *)
TcpError ==
    /\ AtLoop /\ relay.Mapped /\ tcp.open /\ tcp.reset
    /\ relay.kr = "on" \/ relay.kw = "on"
    /\ Becomes(CloseRelay(Now, FALSE, TRUE))

-----------------------------------------------------------------------------
(* MsQuic's callbacks.  The endpoint admits them until the worker stops.   *)

OnBinding(s) == s.Target = "binding"
Admitted == binding.EndpointOpen

(* binding->Relay.lock() succeeds while somebody owns the RelayState. *)
RelayAlive(m) ==
    m.r.Mapped \/ m.r.InRetired
    \/ \E i \in DOMAIN m.q : m.q[i].Type \in
          {"QuicActiveShutdown", "QuicPeerSendShutdown", "QuicSendShutdownComplete",
           "QuicShutdownComplete"}

PushOr(m, e, otherwise) == IF Room(m) THEN TryPush(m, e) ELSE otherwise

(* RECEIVE, nothing taken: MsQuic stops indicating until it is re-enabled. *)
TakeNothing(m) == [m EXCEPT !.s.enabled = FALSE]

QueueDeferredQuicReceive(m, ids, fin) ==
    LET v == Len(m.vs) + 1
        view == [NewView(ids, fin, IF ids = <<>> THEN "NotRequired" ELSE "Pending")
                   EXCEPT !.CallbackBudgetHeld = TRUE]
        a == [m EXCEPT !.s = Indicated(@, Len(ids), fin),
                       !.vs = Append(@, view),
                       !.b = ReserveCallbackReceiveBudget(@, Len(ids))]
    IN PushOr(a, Ev("QuicReceiveView", v),
              Wake([a EXCEPT !.b.CallbackPendingQuicReceives = Append(@, v),
                             !.b.CallbackQuicReceivePaused = TRUE,
                             !.s.enabled = FALSE]))

QueuePrecommitQuicReceive(m, ids, fin) ==
    [m EXCEPT !.s = Indicated(@, Len(ids), fin),
              !.vs = Append(@, NewView(ids, fin, IF ids = <<>> THEN "NotRequired"
                                                 ELSE "Pending")),
              !.b.PrecommitReceives = Append(@, Len(m.vs) + 1)]

PrecommitBytes(m) ==
    FoldLeft(LAMBDA n, v : n + Len(m.vs[v].ids), 0, m.b.PrecommitReceives)

(* CallbackBudgetRejected: the bytes are completed and given up. *)
RejectForBudget(m, n, fin) ==
    [m EXCEPT !.b.CallbackQuicReceivePaused = TRUE,
              !.s = ReceiveComplete([Indicated(@, n, fin) EXCEPT !.enabled = FALSE], n)]

OnReceive(m, n, fin) ==
    LET ids == Ids(m.s.indicated + 1, m.s.indicated + n)
        fail == RequestRelayShutdown(FailManagedBinding(m), "AbortBoth")
        closed == m.b.Activation \in {"Failed", "Terminal"} \/ m.b.Closing
    IN IF m.b.Terminal THEN TakeNothing(m)
       ELSE IF ~m.b.HasWorker \/ ~m.b.Active
       THEN TakeNothing([m EXCEPT !.s = IF RelayAlive(m) /\ m.r.Owned
                                        THEN RequestShutdown(@, "AbortReceive") ELSE @])
       ELSE IF m.b.Activation # "Active"
       THEN IF closed \/ m.b.PrecommitSettled \/ PrecommitBytes(m) + n > env.recv
            THEN TakeNothing(IF RelayAlive(m) THEN fail ELSE m)
            ELSE QueuePrecommitQuicReceive(m, ids, fin)
       ELSE IF CanReserveCallbackReceiveBudget(m.b, n)
       THEN QueueDeferredQuicReceive(m, ids, fin)
       ELSE RejectForBudget(m, n, fin)

(* AllocationFailed: the view cannot be built. *)
OnReceiveOutOfMemory(m) ==
    LET a == TakeNothing([m EXCEPT !.s = RequestShutdown(@, "AbortBoth")]) IN
    PushOr(a, Ev("QuicActiveShutdown", 0), [a EXCEPT !.h = SignalStop(@)])

Receive ==
    \E n \in 0..2, fin \in BOOLEAN :
       /\ CanIndicate(stream, n, fin)
       /\ \/ /\ OnBinding(stream) /\ Admitted
             /\ \/ Becomes(OnReceive(Now, n, fin))
                \/ /\ env.fault = "allocFails" /\ binding.Active /\ binding.Activation = "Active"
                   /\ Becomes(OnReceiveOutOfMemory(Now))
          \/ /\ OnBinding(stream) /\ ~Admitted
             /\ Becomes([Now EXCEPT !.s = Consumed(@, n, fin)])
          \/ /\ stream.Target = "sink"
             /\ Becomes(TakeNothing([Now EXCEPT !.s = RequestShutdown(@, "AbortReceive")]))

(* SEND_COMPLETE goes to the route captured when the send was registered,  *)
(* the binding, whatever the target is by now.                             *)
OnSendComplete(m, o, canceled) ==
    LET a == [m EXCEPT !.os[o].CompletionCanceled = canceled] IN
    IF m.b.HasWorker /\ m.os[o].at = "active"
       /\ m.os[o].State \in {"Registered", "Submitted"}
    THEN LET c == [a EXCEPT !.os[o].State = "CompletionClaimed"] IN
         PushOr(c, Ev("QuicSendComplete", o),
                CompleteQuicSend(c, o, FALSE,
                                 [w |-> 0, d |-> 0, bad |-> FALSE, refuse |-> FALSE]))
    ELSE CompleteDetachedQuicSend(a, o)

SendComplete ==
    /\ CanSendComplete(stream)
    /\ LET a == [Now EXCEPT !.s.flight = Tail(@)] IN
       Becomes(IF Admitted THEN OnSendComplete(a, Head(stream.flight), SendCanceled(stream))
               ELSE a)

(* PEER_SEND_SHUTDOWN and SEND_SHUTDOWN_COMPLETE. *)
OnHalfClose(m, type, sticky) ==
    IF ~OnBinding(m.s) \/ ~Admitted \/ ~m.b.HasWorker \/ m.b.Terminal \/ ~RelayAlive(m)
    THEN m ELSE PushOr(m, Ev(type, 0), Wake(sticky))

PeerSendShutdown ==
    /\ CanPeerSendShutdown(stream)
    /\ LET a == [Now EXCEPT !.s.peerShut = TRUE] IN
       Becomes(OnHalfClose(a, "QuicPeerSendShutdown",
                           [a EXCEPT !.b.PeerSendShutdownSticky = TRUE]))

SendShutdownComplete ==
    /\ CanSendShutdownComplete(stream)
    /\ LET a == [Now EXCEPT !.s.sendDone = TRUE] IN
       Becomes(OnHalfClose(a, "QuicSendShutdownComplete",
                           [a EXCEPT !.b.SendShutdownCompleteSticky = TRUE]))

(* PEER_SEND_ABORTED and PEER_RECEIVE_ABORTED. *)
OnPeerAborted(m, intent) ==
    IF ~OnBinding(m.s) \/ ~Admitted \/ ~m.b.HasWorker \/ m.b.Terminal \/ ~RelayAlive(m)
    THEN m
    ELSE LET a == [m EXCEPT !.s = IF m.r.Owned THEN RequestShutdown(@, intent) ELSE @] IN
         PushOr(a, Ev("QuicActiveShutdown", 0), [a EXCEPT !.h = SignalStop(@)])

PeerAborted ==
    /\ Open(stream) /\ stream.peerAbort = "none"
    /\ \/ /\ env.fault = "peerAbortsSend"
          /\ Becomes(OnPeerAborted([Now EXCEPT !.s.peerAbort = "send"], "AbortReceive"))
       \/ /\ env.fault = "peerAbortsReceive"
          /\ Becomes(OnPeerAborted([Now EXCEPT !.s.peerAbort = "receive"], "AbortSend"))

(* SHUTDOWN_COMPLETE: the owner turns terminal first, then the route. *)
OnShutdownComplete(m) ==
    IF ~m.b.EndpointOpen \/ ~m.b.HasWorker \/ ~RelayAlive(m) THEN m
    ELSE LET a == SealManagedBindingTerminal(m) IN
         PushOr(a, Ev("QuicShutdownComplete", 0), a)

ShutdownComplete ==
    /\ CanShutdownComplete(stream)
    /\ LET a == [Now EXCEPT !.s = PublishTerminal(@)] IN
       Becomes(IF OnBinding(stream) THEN OnShutdownComplete(a)
               ELSE IF stream.Target = "sink" THEN [a EXCEPT !.h = SignalStop(@)]
               ELSE a)

-----------------------------------------------------------------------------
(* The caller of TqRelayStart and TqRelayStop.                             *)

TqRelayStart ==
    /\ handle.Backend = "None"
    /\ LET a == [Now EXCEPT !.h.Backend = "Starting", !.h.active = 1] IN
       Becomes(IF worker.stop # "none" \/ ~Room(Now)
               THEN [a EXCEPT !.k.reg = "failed"]
               ELSE TryPush([a EXCEPT !.k.reg = "queued"], Ev("RegisterRelay", 0)))

(* RegisterRelayWithId returned; the tunnel disposes of what a failed      *)
(* start left to it.                                                       *)
StartReturns ==
    /\ handle.Backend = "Starting"
    /\ \/ /\ worker.reg = "ok" /\ ~handle.stop
          /\ Becomes([Now EXCEPT !.h.Backend = "Worker"])
       \/ /\ worker.reg = "ok" /\ handle.stop
          /\ Becomes([Now EXCEPT !.h.Backend = "Undoing"])
       \/ /\ worker.reg = "failed"
          /\ LET a == [Now EXCEPT !.h.Backend = "Failed", !.h.active = 0,
                                  !.s = RequestShutdown(@, "AbortBoth")] IN
             Becomes(IF handle.fdOwner = "tunnel" THEN CloseTcpFdOnce(a) ELSE a)

(* The reaper stops a relay that has set the stop flag; the tunnel stops   *)
(* one whose connection is shutting down.                                  *)
TqRelayStop ==
    /\ handle.Backend = "Worker"
    /\ handle.stop \/ env.control = "unregister"
    /\ Becomes([Now EXCEPT !.h = [SignalStop(@) EXCEPT !.Backend = "Stopping"],
                           !.s.lost = @ \/ ~handle.stop])

(* UnregisterRelay: queued while the worker runs, local once it stopped.   *)
(* Stop holds LifecycleMutex from its first step to its last.              *)
UnregisterRelay ==
    /\ handle.Backend \in {"Stopping", "Undoing"} /\ worker.unreg = "none"
    /\ \/ /\ worker.stop = "none" /\ Room(Now)
          /\ Becomes(TryPush([Now EXCEPT !.k.unreg = "queued"], Ev("UnregisterRelay", 0)))
       \/ /\ worker.stop = "done"
          /\ Becomes([UnregisterRelayLocal(Now, FALSE) EXCEPT !.k.unreg = "done"])

StopReturns ==
    /\ worker.unreg = "done"
    /\ LET a == [Now EXCEPT !.h.active = 0] IN
       \/ handle.Backend = "Stopping" /\ Becomes([a EXCEPT !.h.Backend = "Stopped"])
       \/ /\ handle.Backend = "Undoing"
          /\ Becomes([a EXCEPT !.h.Backend = "Failed",
                               !.s = RequestShutdown(@, "AbortBoth")])

-----------------------------------------------------------------------------
(* Snapshot: the caller waits until its deadline, then leaves the command  *)
(* and its permit to the worker.                                           *)

Snapshot ==
    /\ env.control = "snapshot" /\ worker.snap = "none"
    /\ \/ /\ worker.stop = "none" /\ Room(Now)
          /\ Becomes(TryPush([Now EXCEPT !.k.snap = "Pending", !.k.permit = TRUE],
                             Ev("Snapshot", 0)))
       \/ /\ worker.stop = "none" /\ ~Room(Now)
          /\ Becomes(EndSnapshotCommand(Now, "Cancelled"))
       \/ /\ worker.stop = "done"
          /\ Becomes([EndSnapshotCommand(Now, "Cancelled") EXCEPT
                        !.k.seen = <<SnapshotLocal(Now)>>])

SnapshotTimesOut ==
    /\ worker.snap = "Pending"
    /\ Becomes([Now EXCEPT !.k.snap = "Detached"])

-----------------------------------------------------------------------------
(* TqDarwinRelayWorker::Stop.                                              *)

(* InstallShutdownSinksForStop. *)
StopInstallsSinks ==
    /\ env.control \in {"stop", "snapshot"} /\ worker.stop = "none"
    /\ LET a == [Now EXCEPT !.k.stop = "sinks"] IN
       Becomes(IF relay.Mapped /\ relay.Owned /\ relay.Bound
                  /\ CanPublishTarget(stream, binding.RouteGeneration)
               THEN [a EXCEPT !.s = PublishTarget(@, "sink")] ELSE a)

(* CloseAndWait of the endpoint, Running = false, Wake. *)
StopClosesEndpoint ==
    /\ worker.stop = "sinks"
    /\ Becomes([Now EXCEPT !.b.EndpointOpen = FALSE, !.k.Running = FALSE,
                           !.k.wake = TRUE, !.k.stop = "closed"])

(* Run returns: DetachActiveSendOperationsForStop, and Stop's join. *)
WorkerExits ==
    /\ worker.stop = "closed" /\ worker.pc = "idle"
    /\ Becomes([Now EXCEPT
         !.k.stop = "exited",
         !.os = [o \in DOMAIN @ |->
                   IF @[o].at # "active" THEN @[o]
                   ELSE [@[o] EXCEPT !.at = "fallback",
                           !.State = IF @ = "CompletionClaimed" THEN @ ELSE "Detached"]]])

(* SettleQueuedReceiveViewsBeforeRetire. *)
SettleQueuedReceiveViews(m) ==
    FoldLeft(LAMBDA n, e : IF e.Type = "QuicReceiveView"
                           THEN DiscardDeferredQuicReceive(n, e.x, FALSE)
                           ELSE [n EXCEPT !.q = Append(@, e)],
             [m EXCEPT !.q = <<>>], m.q)

(* PurgeQueuedEventsForStop. *)
PurgeQueuedEvents(m) ==
    FoldLeft(LAMBDA n, e :
               CASE e.Type = "QuicSendComplete" ->
                      CompleteQuicSend(n, e.x, FALSE,
                                       [w |-> 0, d |-> 0, bad |-> FALSE, refuse |-> FALSE])
                 [] e.Type = "QuicActiveShutdown" -> CloseRelay(n, FALSE, FALSE)
                 [] e.Type = "QuicShutdownComplete" -> CloseRelay(n, TRUE, FALSE)
                 [] e.Type = "RegisterRelay" -> [n EXCEPT !.k.reg = "failed"]
                 [] e.Type = "UnregisterRelay" -> [n EXCEPT !.k.unreg = "done"]
                 [] e.Type = "Snapshot" -> EndSnapshotCommand(n, "Cancelled")
                 [] OTHER -> n,
             [m EXCEPT !.q = <<>>], m.q)

StopFinishes ==
    /\ worker.stop = "exited"
    /\ LET mapped == relay.Mapped
           a == SettleQueuedReceiveViews([Now EXCEPT !.r.Mapped = FALSE])
           c == IF mapped THEN RetireRelay(RemoveTcpFilters(RequestRelayShutdown(a, "AbortBoth")),
                                           FALSE, FALSE)
                ELSE a
           d == PurgeRetiredRelaysIfSafe(PurgeQueuedEvents(c))
       IN Becomes([d EXCEPT !.k.stop = "done", !.k.wake = FALSE])

-----------------------------------------------------------------------------
Init ==
    /\ env \in Scenarios
    /\ tcp = TcpInit /\ stream = StreamInit /\ handle = HandleInit
    /\ relay = RelayInit /\ binding = BindingInit /\ views = <<>> /\ ops = <<>>
    /\ queue = <<>> /\ worker = WorkerInit

WorkerStep ==
    \/ DrainEvents \/ FinishDrainEvents \/ CommitPreparedRelay \/ EnableCommittedRelay
    \/ DrainTcpReadable \/ ContinueDrainTcpReadable \/ FinishSend
    \/ WriteReady \/ TcpError

CallbackStep ==
    \/ Receive \/ SendComplete \/ PeerSendShutdown \/ SendShutdownComplete
    \/ PeerAborted \/ ShutdownComplete

CallerStep ==
    TqRelayStart \/ StartReturns \/ TqRelayStop \/ UnregisterRelay \/ StopReturns

StopStep == StopInstallsSinks \/ StopClosesEndpoint \/ WorkerExits \/ StopFinishes
SnapshotStep == Snapshot \/ SnapshotTimesOut
NetworkStep == TcpReset \/ ConnectionLost \/ CancelOnLoss

Next ==
    WorkerStep \/ CallbackStep \/ CallerStep \/ StopStep \/ SnapshotStep \/ NetworkStep

(* The threads of the worker, of MsQuic, of the tunnel and of the runtime   *)
(* go on; nothing makes the network fail, or a caller start the next relay. *)
CanRead ==
    /\ AtLoop /\ ReadReady /\ ~relay.Closing /\ ~relay.TcpReadClosed
    /\ relay.Bound => binding.Active

CanWrite ==
    /\ AtLoop /\ relay.Mapped /\ tcp.open /\ relay.kw = "on"
    /\ relay.PendingTcpWrites # <<>> \/ relay.TcpWriteArmed \/ relay.Closing

CanCall ==
    \/ handle.Backend = "None"
    \/ handle.Backend = "Starting" /\ worker.reg \in {"ok", "failed"}
    \/ handle.Backend = "Worker" /\ handle.stop
    \/ /\ handle.Backend \in {"Stopping", "Undoing"}
       /\ \/ worker.unreg = "none" /\ worker.stop = "none" /\ Room(Now)
          \/ worker.unreg = "none" /\ worker.stop = "done"
          \/ worker.unreg = "done"

CanReceive ==
    stream.Target # "tunnel" /\ \E n \in 0..1 : CanIndicate(stream, n, n = 0)

MidStep ==
    CommitPreparedRelay \/ EnableCommittedRelay \/ FinishSend \/ ContinueDrainTcpReadable

CanNotice ==
    \/ CanSendComplete(stream) \/ CanPeerSendShutdown(stream)
    \/ CanSendShutdownComplete(stream) \/ CanShutdownComplete(stream)

NoticeStep == SendComplete \/ PeerSendShutdown \/ SendShutdownComplete \/ ShutdownComplete

CanStop == worker.stop \in {"sinks", "closed", "exited"} /\ worker.pc = "idle"

Spec == Init /\ [][Next]_vars

-----------------------------------------------------------------------------
(* Properties of this worker.                                              *)

InFlight(o) == o.State \in {"Registered", "Submitted", "CompletionClaimed", "Detached"}
Bytes(items, Of(_)) == FoldLeft(LAMBDA n, x : n + Of(x), 0, items)

(* The ledgers agree with the lists: an operation counts as in flight from *)
(* its registration until the worker has finished it, whoever claims its   *)
(* completion; the receive ledger holds what the queued views hold, and    *)
(* the callback budget what the callbacks have taken and the worker has    *)
(* not yet admitted.  A drift would pause reading for ever or let the      *)
(* queues grow without limit.                                              *)
LedgersExact ==
    /\ relay.Mapped =>
         /\ relay.InFlightQuicSends = Cardinality({o \in DOMAIN ops : InFlight(ops[o])})
         /\ relay.InFlightQuicSendBytes =
              Bytes(ops, LAMBDA o : IF InFlight(o) THEN Len(o.ids) ELSE 0)
         /\ relay.PendingQuicReceiveBytes =
              Bytes(relay.PendingQuicReceives, LAMBDA v : Len(views[v].ids))
    /\ binding.CallbackPendingReceiveBytes =
         Bytes(views, LAMBDA v : IF v.CallbackBudgetHeld THEN Len(v.ids) ELSE 0)

(* The buffers of a send belong to MsQuic until SEND_COMPLETE: none is     *)
(* freed before, by a teardown, a stop or a failed send.                   *)
FlightOwned == \A i \in DOMAIN stream.flight : ops[stream.flight[i]].State # "Deleted"
=============================================================================

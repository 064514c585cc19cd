-------------------------- MODULE LibuvRelayWorker --------------------------
(***************************************************************************)
(* TqUvRelayWorker (src/tunnel/libuv_relay_*.cpp): one libuv loop with one *)
(* relay, the backend a build may choose instead of the platform's own.    *)
(* Everything but the stream's callbacks and the callers runs on the loop, *)
(* one uv callback at a time.  HandleWake is cut where other threads come  *)
(* between: it counts the commands, runs that many, and then looks at what *)
(* the callbacks have left in the relay.  A RECEIVE callback is cut where  *)
(* it lets go of ActivationMutex, SHUTDOWN_COMPLETE where the owner has    *)
(* turned terminal and the binding does not know yet.                      *)
(***************************************************************************)
EXTENDS RelayEnvironment

(* TqUvRelayState.  TerminalTriggerMask keeps what tells triggers apart:   *)
(* whether they abort.  PrecommitReceives stands for its fallback list too,*)
(* which continues it in order.                                            *)
RelayInit ==
    [Mapped |-> FALSE,              \* in Relays_
     Activation |-> "Prepared",
     SocketOwnership |-> "CallerOwned",
     TcpReadStarted |-> FALSE, TcpReadClosed |-> FALSE, TcpWriteClosed |-> FALSE,
     TcpShutdownPending |-> FALSE, TcpClosePending |-> FALSE, TcpCloseCompleted |-> FALSE,
     PrecommitReceives |-> <<>>, PrecommitSettled |-> FALSE,
     TcpWrites |-> <<>>,
     PendingQuicSendRetries |-> <<>>,
     PendingQuicReceiveBytes |-> 0, AdmittedQuicReceiveBytes |-> 0,
     QuicToTcpPressureBytes |-> 0, PendingQuicSendBytes |-> 0,
     AccountedQuicToTcpBytes |-> 0, AccountedTcpToQuicBytes |-> 0,
     QuicToTcpContinuationPending |-> FALSE,
     Compressor |-> <<>>, Decompressor |-> <<>>,
     TcpReadPausedByQuicBacklog |-> FALSE, QuicReceivePausedByTcpBacklog |-> FALSE,
     QuicFinObserved |-> FALSE, QuicFinSubmitted |-> FALSE, QuicFinCompleted |-> FALSE,
     TerminalStarted |-> FALSE, TerminalAborted |-> FALSE,
     TerminalAbortUpgradePending |-> FALSE, TerminalHandoffComplete |-> FALSE,
     TerminalReleased |-> FALSE, TerminalTriggerMask |-> {},
     QuicShutdownObserved |-> FALSE,
     ReleaseAccountingAtBackendTerminal |-> FALSE]

(* TqUvStreamBinding: the callback in progress.  The route generation of   *)
(* the binding is that of the target "binding", its TerminalRouteGeneration*)
(* that of "sink": the binding is published a second time as its own sink. *)
NoCallback == [at |-> "none", n |-> 0, fin |-> FALSE]
BindingInit == [cb |-> NoCallback]

(* TqUvPendingQuicReceive.  in: chunks the decompressor has taken.         *)
NewView(ids, fin) ==
    [ids |-> ids, Fin |-> fin, CompletedBytes |-> 0, CompletionPendingBytes |-> 0,
     in |-> 0, DeferredOutputBytes |-> 0,
     TcpWriteSubmitted |-> FALSE, DecompressionDrained |-> FALSE]

(* TqUvQuicSendOperation and TqUvTcpWriteOperation. *)
NewOp(ids, fin) == [ids |-> ids, Fin |-> fin, Ownership |-> "Created", Cancelled |-> FALSE]
NewWrite(v, ids, complete, pressure) ==
    [v |-> v, ids |-> ids, ReceiveCompleteBytes |-> complete, PressureBytes |-> pressure]

WorkerInit ==
    [Running |-> TRUE, Accepting |-> TRUE, RuntimeStopRequested |-> FALSE,
     StopSignaled |-> FALSE,        \* StopRequestSequence_ # ObservedStopSequence_
     SendCompletionFallback |-> <<>>,
     pc |-> "idle", left |-> 0,     \* commands HandleWake still has to run
     close |-> "no",                \* shouldClose and closeTrigger
     reg |-> "none", asked |-> FALSE]

Cmd(type, x) == [Type |-> type, x |-> x]
Accepts(m) == m.k.Accepting /\ Len(m.q) < env.queue
Enqueue(m, e) == [m EXCEPT !.q = Append(@, e)]
MinOf(a, b) == IF a < b THEN a ELSE b
Less(a, b) == IF a >= b THEN a - b ELSE 0

(* TcpReadBufferBudget: what the send operations hold. *)
Free(m) ==
    env.buffers - FoldLeft(LAMBDA n, o : n + (IF o.Ownership = "Deleted" THEN 0 ELSE Len(o.ids)),
                           0, m.os)

-----------------------------------------------------------------------------
(* The ledgers of the QUIC to TCP direction.                               *)

SetReceiveEnabled(m, on) == [m EXCEPT !.s.enabled = on]

UpdateBackpressure(m) ==
    LET r == m.r IN
    IF ~TryAcquireApi(m.s) THEN m
    ELSE IF ~r.QuicReceivePausedByTcpBacklog /\ r.QuicToTcpPressureBytes >= env.recv
    THEN SetReceiveEnabled([m EXCEPT !.r.QuicReceivePausedByTcpBacklog = TRUE], FALSE)
    ELSE IF r.QuicReceivePausedByTcpBacklog /\ r.QuicToTcpPressureBytes <= env.recv \div 2
    THEN SetReceiveEnabled([m EXCEPT !.r.QuicReceivePausedByTcpBacklog = FALSE], TRUE)
    ELSE m

CanReservePressure(m, n) == m.r.QuicToTcpPressureBytes + n <= env.recv
ReservePressure(m, n) == [m EXCEPT !.r.QuicToTcpPressureBytes = @ + n]
ReleasePressure(m, n) == [m EXCEPT !.r.QuicToTcpPressureBytes = Less(@, n)]

(* CompletePendingBytes changes nothing when more than the ledger holds.   *)
CompleteQuicToTcp(m, n) ==
    [m EXCEPT !.r.AccountedQuicToTcpBytes = IF n > @ THEN @ ELSE @ - n]
CompleteTcpToQuic(m, n) ==
    [m EXCEPT !.r.AccountedTcpToQuicBytes = IF n > @ THEN @ ELSE @ - n]

ReleaseAdmitted(m, n) ==
    LET released == MinOf(m.r.AdmittedQuicReceiveBytes, n) IN
    CompleteQuicToTcp([m EXCEPT !.r.AdmittedQuicReceiveBytes = @ - released], released)

(* What follows every completed receive of n bytes. *)
ReleaseReceive(m, n) ==
    ReleasePressure(ReleaseAdmitted(
      [m EXCEPT !.r.PendingQuicReceiveBytes = Less(@, n)], n), n)

RemainingBytes(view) == Len(view.ids) - view.CompletedBytes
Settled(view) == RemainingBytes(view) = 0
Drained(view) == Settled(view) /\ (env.compress => view.DecompressionDrained)

(* CompleteReceiveForRelay: after SHUTDOWN_COMPLETE only the books.        *)
CanComplete(m, n) == n = 0 \/ m.r.QuicShutdownObserved \/ TryAcquireApi(m.s)
CompleteReceive(m, v, n) ==
    [m EXCEPT !.vs[v].CompletedBytes = @ + n,
              !.s = IF m.r.QuicShutdownObserved \/ n = 0 THEN @ ELSE ReceiveComplete(@, n)]

-----------------------------------------------------------------------------
(* Terminal convergence.                                                   *)

RequestTerminal(m, trigger) == [m EXCEPT !.r.TerminalTriggerMask = @ \cup {trigger}]

(* SelectTerminalTrigger: a stop of the runtime outranks the aborts. *)
SelectTerminalTrigger(mask) ==
    IF "RuntimeStop" \in mask THEN "RuntimeStop"
    ELSE IF "Abort" \in mask THEN "Abort" ELSE "TcpEof"

(* The send operations that wait for a retry are let go. *)
DeleteSends(m, retries, n) ==
    CompleteTcpToQuic(
      [m EXCEPT !.r.PendingQuicSendRetries = <<>>, !.r.PendingQuicSendBytes = @ - n,
                !.os = [o \in DOMAIN @ |-> IF o \in Range(retries)
                                           THEN [@[o] EXCEPT !.Ownership = "Deleted"]
                                           ELSE @[o]]], n)

DiscardUnsubmittedSends(m) ==
    LET retries == m.r.PendingQuicSendRetries IN
    DeleteSends(m, retries,
      MinOf(m.r.PendingQuicSendBytes, FoldLeft(LAMBDA k, o : k + Len(m.os[o].ids), 0, retries)))

(* A receive is completed unwritten, with the output that waits for it. *)
DiscardReceive(m, v, n) ==
    ReleasePressure(ReleaseReceive(
      [CompleteReceive(m, v, n) EXCEPT !.vs[v].CompletionPendingBytes = 0,
                                       !.vs[v].DeferredOutputBytes = 0], n),
      m.vs[v].DeferredOutputBytes)

(* PopReceive without the check for convergence that follows it.           *)
TakeOff(m, v) ==
    [m EXCEPT !.r.PrecommitReceives = Tail(@),
              !.r.QuicFinObserved = @ \/ m.vs[v].Fin]

(* TqUvSettleQuicReceivesAtTerminal: from the head, up to a receive that   *)
(* is being written or cannot be completed now.                            *)
SettleQuicReceivesAtTerminal(m) ==
    FoldLeft(LAMBDA x, v :
        LET n == RemainingBytes(x.vs[v]) IN
        IF Head(x.r.PrecommitReceives) # v \/ x.vs[v].TcpWriteSubmitted THEN x
        ELSE IF ~CanComplete(x, n) THEN [x EXCEPT !.vs[v].CompletionPendingBytes = n]
        ELSE TakeOff(DiscardReceive(x, v, n), v),
      m, m.r.PrecommitReceives)

(* SettlePrecommit(false): what came before the activation is discarded. *)
CompletePrecommit(m, n) ==
    CompleteQuicToTcp(
      [m EXCEPT !.r.PrecommitSettled = TRUE, !.r.PrecommitReceives = <<>>,
                !.r.PendingQuicReceiveBytes = 0,
                !.vs = [v \in DOMAIN @ |-> IF v \in Range(m.r.PrecommitReceives)
                                           THEN [@[v] EXCEPT !.CompletedBytes = Len(m.vs[v].ids)]
                                           ELSE @[v]],
                !.s = IF n # 0 /\ TryAcquireApi(@) THEN ReceiveComplete(@, n) ELSE @], n)

DiscardPrecommit(m) ==
    IF m.r.PrecommitSettled THEN m
    ELSE CompletePrecommit(m, FoldLeft(LAMBDA k, v : k + RemainingBytes(m.vs[v]), 0,
                                       m.r.PrecommitReceives))

CloseRelayOfCaller(m) ==
    IF m.r.TcpClosePending \/ m.r.TcpCloseCompleted THEN m
    ELSE [m EXCEPT !.r.TcpReadStarted = FALSE, !.r.TcpClosePending = TRUE, !.t = CloseFd(@)]

(* CloseRelay: uv_close stops the reads and closes the descriptor. *)
CloseRelay(m) ==
    IF m.r.TcpClosePending \/ m.r.TcpCloseCompleted THEN m
    ELSE [m EXCEPT !.r.TcpReadStarted = FALSE, !.r.TcpClosePending = TRUE,
                   !.t = IF m.r.SocketOwnership = "CallerOwned" THEN @ ELSE CloseFd(@)]

EraseRelay(m) ==
    [m EXCEPT !.r.Mapped = FALSE,
              !.r.AccountedQuicToTcpBytes = 0, !.r.AccountedTcpToQuicBytes = 0]

QuicSends(m) == {o \in DOMAIN m.os : m.os[o].Ownership = "Submitted"}

LocalOwnershipDrained(m) ==
    LET r == m.r IN
    /\ r.TcpWrites = <<>> /\ QuicSends(m) = {} /\ r.PendingQuicSendRetries = <<>>
    /\ r.PrecommitReceives = <<>>
    /\ r.PendingQuicSendBytes = 0 /\ r.PendingQuicReceiveBytes = 0
    /\ r.AccountedQuicToTcpBytes = 0 /\ r.AccountedTcpToQuicBytes = 0
    /\ r.AdmittedQuicReceiveBytes = 0 /\ r.QuicToTcpPressureBytes = 0

(* UpgradeTerminalShutdownToAbort; the connection is shut down too, which  *)
(* the other streams see and this one does not wait for.                   *)
UpgradeToAbort(m) ==
    IF ~m.r.TerminalAbortUpgradePending THEN m
    ELSE [m EXCEPT !.s = RequestShutdown(@, "AbortBoth"),
                   !.r.TerminalAbortUpgradePending = FALSE]

(* The rest of TqUvCheckTerminalConvergence, once TerminalStarted. *)
SettleIfAborted(m) == IF m.r.TerminalAborted THEN SettleQuicReceivesAtTerminal(m) ELSE m

ReportFacts(m) ==
    LET complete == m.r.TerminalHandoffComplete \/ m.r.QuicShutdownObserved IN
    [m EXCEPT !.r.TerminalHandoffComplete = complete,
              !.h.handoff = (IF m.r.TcpCloseCompleted /\ LocalOwnershipDrained(m)
                             THEN {"local"} ELSE {})
                            \cup (IF complete THEN {"terminal"} ELSE {})]

ReleaseWhenReady(m) ==
    IF m.r.TerminalReleased \/ ~TerminalReleaseReady(m.h) THEN m
    ELSE EraseRelay([m EXCEPT !.r.TerminalReleased = TRUE,
                              !.h.active = IF m.r.ReleaseAccountingAtBackendTerminal
                                           THEN 0 ELSE @])

Converge(m) == ReleaseWhenReady(ReportFacts(SettleIfAborted(CloseRelay(UpgradeToAbort(m)))))

(* TqUvBeginTerminalLocal, the first time and after that. *)
UpgradeTerminal(m, trigger) ==
    IF m.r.TerminalAborted \/ trigger # "Abort" THEN m
    ELSE Converge(SettleQuicReceivesAtTerminal(DiscardUnsubmittedSends(
           [m EXCEPT !.r.TerminalAborted = TRUE,
                     !.r.TerminalAbortUpgradePending = ~m.r.TerminalHandoffComplete])))

(* What BeginTerminalShutdown answers: the stream may be past its end.     *)
RecordHandoffResult(m, already) == [m EXCEPT !.r.TerminalHandoffComplete = already]

StartTerminal(m, trigger) ==
    LET abort == trigger = "Abort"
        a == DiscardPrecommit([m EXCEPT !.r.TerminalStarted = TRUE,
                                        !.r.TerminalAborted = abort,
                                        !.r.Activation = "Terminal",
                                        !.r.TcpReadStarted = FALSE])
        c == IF abort THEN SettleQuicReceivesAtTerminal(DiscardUnsubmittedSends(a)) ELSE a
    IN Converge(CloseRelay(RecordHandoffResult(
         [c EXCEPT !.s = BeginTerminalShutdown(@, ~abort), !.h = SignalStop(@)],
         c.s.Phase # "Started")))

BeginTerminalLocal(m, mask) ==
    LET a == [m EXCEPT !.r.TerminalTriggerMask = {}]
        trigger == SelectTerminalTrigger(mask)
    IN IF m.r.TerminalStarted THEN UpgradeTerminal(a, trigger) ELSE StartTerminal(a, trigger)

NormalFinReady(m) ==
    LET r == m.r IN
    /\ r.TcpReadClosed /\ r.QuicFinSubmitted /\ r.QuicFinCompleted /\ r.QuicFinObserved
    /\ r.TcpWriteClosed /\ ~r.TcpShutdownPending /\ LocalOwnershipDrained(m)

(* A FIN of the peer that nothing is being written for ends the writing:   *)
(* uv_shutdown.                                                            *)
ShutdownReady(r) ==
    /\ r.QuicFinObserved /\ ~r.TcpWriteClosed /\ ~r.TcpShutdownPending
    /\ r.TcpWrites = <<>>

CheckTerminalConvergence(m) ==
    LET a == IF ShutdownReady(m.r) THEN [m EXCEPT !.r.TcpShutdownPending = TRUE] ELSE m IN
    IF m.r.TerminalStarted THEN Converge(m)
    ELSE IF NormalFinReady(a)
    THEN BeginTerminalLocal(a, a.r.TerminalTriggerMask \cup {"TcpEof"})
    ELSE a

ProcessTerminalFactsLocal(m) ==
    IF m.r.TerminalTriggerMask = {} THEN CheckTerminalConvergence(m)
    ELSE BeginTerminalLocal(m, m.r.TerminalTriggerMask)

(* RequestTerminal and, on the loop, ProcessTerminalFactsLocal at once. *)
Fail(m) == ProcessTerminalFactsLocal(RequestTerminal(m, "Abort"))

-----------------------------------------------------------------------------
(* QUIC to TCP, on the loop.                                               *)

PopReceive(m, v) ==
    IF m.vs[v].Fin THEN CheckTerminalConvergence(TakeOff(m, v)) ELSE TakeOff(m, v)

(* uv_write, which fails once the write direction is shut down. *)
SubmitWrite(m, v, ids, complete, pressure) ==
    LET a == RequestTerminal(ReleasePressure(m, pressure), "Abort")
        c == IF complete = 0 THEN a
             ELSE IF ~TryAcquireApi(m.s) THEN [a EXCEPT !.vs[v].CompletionPendingBytes = complete]
             ELSE ReleaseReceive(CompleteReceive(a, v, complete), complete)
    IN IF m.r.TcpShutdownPending \/ m.r.TcpWriteClosed THEN UpdateBackpressure(c)
       ELSE [m EXCEPT !.r.TcpWrites = Append(@, NewWrite(v, ids, complete, pressure)),
                      !.vs[v].TcpWriteSubmitted = TRUE]

(* ScheduleCompletionRetry: on the loop the posted command runs at once,   *)
(* so its four tries all find the same and the relay is ended.             *)
ScheduleCompletionRetry(m) == RequestTerminal(m, "Abort")

ScheduleProcessingContinuation(m) ==
    IF Accepts(m) THEN Enqueue([m EXCEPT !.r.QuicToTcpContinuationPending = TRUE],
                               Cmd("Continue", 0))
    ELSE Fail(m)

(* The decompressor holds back what it likes except at the end of its      *)
(* input.                                                                  *)
Decompressed(all, io) ==
    LET ready == IF all # <<>> /\ Last(all) = env.down THEN Len(all) ELSE io.d
    IN SubSeq(all, 1, MinOf(ready, Len(all)))

Done(m) == [m |-> m, at |-> "done", calls |-> 1]
Again(m) == [m |-> m, at |-> "again", calls |-> 1]

(* One call of the decompressor for the receive v.                         *)
PopIfDrained(m, v) == IF Drained(m.vs[v]) THEN PopReceive(m, v) ELSE m
TakenIn(m, v, n) == IF n = 0 THEN m ELSE ReleaseReceive(CompleteReceive(m, v, n), n)
Written(m, v, out) == IF out = <<>> THEN Again(m) ELSE Done(SubmitWrite(m, v, out, 0, Len(out)))

DecompressTurn(z, v, io) ==
    LET m == z.m
        rest == SubSeq(m.vs[v].ids, m.vs[v].in + 1, Len(m.vs[v].ids))
        n == Len(rest)
        all == m.r.Decompressor \o rest
        out == Decompressed(all, io)
        a == UpdateBackpressure(ReservePressure(
               [m EXCEPT !.r.Decompressor = SubSeq(all, Len(out) + 1, Len(all)),
                         !.vs[v].in = @ + n,
                         !.vs[v].DecompressionDrained = n = 0 /\ out = <<>>], Len(out)))
    IN IF z.calls > 0 /\ io.yield THEN Done(ScheduleProcessingContinuation(m))
       ELSE IF (io.bad /\ n > 0) \/ ~CanReservePressure(m, Len(out))
       THEN Done(RequestTerminal(m, "Abort"))
       ELSE IF n > 0 /\ ~TryAcquireApi(m.s)
       THEN Done(ScheduleCompletionRetry([a EXCEPT !.vs[v].CompletionPendingBytes = n,
                                                   !.vs[v].DeferredOutputBytes = Len(out)]))
       ELSE Written(UpdateBackpressure(PopIfDrained(TakenIn(a, v, n), v)), v, out)

(* One turn of the loop of TqUvProcessQuicToTcp: the head is popped when   *)
(* nothing is left of it, discarded when the relay has ended, and else     *)
(* written, after which the loop waits for uv_write's callback.            *)
ProcessHead(z, io) ==
    LET m == z.m
        v == Head(m.r.PrecommitReceives)
        view == m.vs[v]
        n == RemainingBytes(view)
        terminal == m.r.TerminalStarted \/ m.r.QuicShutdownObserved \/ m.r.Activation # "Active"
    IN IF Drained(view) THEN [z EXCEPT !.m = PopReceive(m, v)]
       ELSE IF view.TcpWriteSubmitted THEN Done(m)
       ELSE IF terminal
       THEN IF CanComplete(m, n)
            THEN [z EXCEPT !.m = UpdateBackpressure(PopReceive(DiscardReceive(m, v, n), v))]
            ELSE Done(ScheduleCompletionRetry([m EXCEPT !.vs[v].CompletionPendingBytes = n]))
       ELSE IF view.CompletionPendingBytes # 0 THEN Done(ScheduleCompletionRetry(m))
       ELSE IF env.compress THEN DecompressTurn(z, v, io)
       ELSE Done(SubmitWrite(m, v, view.ids, n, 0))

ProcessTurn(z, io) ==
    IF z.at = "done" \/ z.m.r.PrecommitReceives = <<>> THEN Done(z.m)
    ELSE ProcessHead([z EXCEPT !.m = UpdateBackpressure(@)], io)

ProcessQuicToTcp(m, io) ==
    IF m.r.QuicToTcpContinuationPending THEN m
    ELSE FoldLeft(LAMBDA z, i : ProcessTurn(z, io), [m |-> m, at |-> "go", calls |-> 0],
                  Ids(1, 3 * env.down + 1)).m

QueueReceiveOnLoop(m, v, io) ==
    ProcessQuicToTcp([m EXCEPT !.r.PrecommitReceives = Append(@, v),
                               !.r.PendingQuicReceiveBytes = @ + Len(m.vs[v].ids)], io)

(* TqUvOnTcpWriteComplete. *)
CompleteOrDefer(m, v, n) ==
    IF n = 0 THEN m
    ELSE IF CanComplete(m, n) THEN ReleaseReceive(CompleteReceive(m, v, n), n)
    ELSE [m EXCEPT !.vs[v].CompletionPendingBytes = n]

OnTcpWriteComplete(m, ok, io) ==
    LET w == Head(m.r.TcpWrites)
        a == ReleasePressure([m EXCEPT !.r.TcpWrites = Tail(@),
                                       !.vs[w.v].TcpWriteSubmitted = FALSE], w.PressureBytes)
        d == PopIfDrained(CompleteOrDefer(a, w.v, w.ReceiveCompleteBytes), w.v)
    IN IF ok THEN ProcessQuicToTcp(UpdateBackpressure(CheckTerminalConvergence(d)), io)
       ELSE UpdateBackpressure(RequestTerminal(d, "Abort"))

-----------------------------------------------------------------------------
(* TCP to QUIC, on the loop.                                               *)

ReleasePendingSend(m, n) ==
    LET released == MinOf(m.r.PendingQuicSendBytes, n) IN
    CompleteTcpToQuic([m EXCEPT !.r.PendingQuicSendBytes = @ - released], released)

(* TrySubmitOperation: submitted, to be retried, or not possible.  A       *)
(* refused operation goes to the end of the retries.                       *)
TrySubmitOperation(m, o, refuse) ==
    LET op == m.os[o] IN
    IF ~TryAcquireApi(m.s)
    THEN ReleasePendingSend([m EXCEPT !.os[o].Ownership = "Deleted"], Len(op.ids))
    ELSE IF refuse /\ MayRefuse(m.s)
    THEN [m EXCEPT !.s = SendRefused(@),
                   !.r.PendingQuicSendRetries = Append(@, o),
                   !.r.QuicFinSubmitted = @ /\ ~op.Fin]
    ELSE [m EXCEPT !.s = SendAccepted(@, o, op.ids, op.Fin),
                   !.os[o].Ownership = "Submitted",
                   !.r.QuicFinSubmitted = @ \/ op.Fin]

Fatal(m, o) == m.os[o].Ownership = "Deleted"
Blocked(m, o) == m.os[o].Ownership = "Created"

Submit(m, ids, fin, refuse) ==
    TrySubmitOperation(
      [m EXCEPT !.os = Append(@, NewOp(ids, fin)),
                !.r.PendingQuicSendBytes = @ + Len(ids),
                !.r.AccountedTcpToQuicBytes = @ + Len(ids)],
      Len(m.os) + 1, refuse)

PauseTcpRead(m) ==
    [m EXCEPT !.r.TcpReadStarted = FALSE, !.r.TcpReadPausedByQuicBacklog = TRUE]

(* TqUvHandleTcpRead: a buffer of data, of which with compression any part *)
(* of what has been held back comes out; TcpReadBuffers is empty between   *)
(* the callbacks of the loop.                                              *)
ReadData(m, k, refuse) ==
    LET all == Append(m.r.Compressor, m.t.read + 1)
        out == SubSeq(all, 1, k)
        a == [m EXCEPT !.t.read = @ + 1, !.r.Compressor = SubSeq(all, k + 1, Len(all))]
        c == Submit(a, out, FALSE, refuse)
        o == Len(c.os)
    IN IF k = 0 THEN a
       ELSE IF k > Free(m) \/ Fatal(c, o) THEN Fail(IF k > Free(m) THEN a ELSE c)
       ELSE IF Blocked(c, o) \/ c.r.PendingQuicSendBytes >= env.buffers THEN PauseTcpRead(c)
       ELSE c

ReadEof(m, refuse) ==
    LET out == m.r.Compressor
        a == [m EXCEPT !.t.eof = TRUE, !.r.TcpReadClosed = TRUE, !.r.TcpReadStarted = FALSE,
                       !.r.Compressor = <<>>]
        c == Submit(a, out, TRUE, refuse)
        o == Len(c.os)
    IN IF Len(out) > Free(m) THEN Fail(a)
       ELSE IF Fatal(c, o) THEN Fail(c)
       ELSE IF Blocked(c, o) THEN [c EXCEPT !.r.TcpReadPausedByQuicBacklog = TRUE]
       ELSE c

ReadError(m) == Fail([m EXCEPT !.r.TcpReadClosed = TRUE])

(* TqUvRetryPendingQuicSends, until one is refused. *)
RetryPendingQuicSends(m, refuse) ==
    FoldLeft(LAMBDA x, o :
        LET a == TrySubmitOperation([x EXCEPT !.r.PendingQuicSendRetries = Tail(@)], o, refuse)
        IN IF x.r.TerminalStarted \/ x.s.refused # m.s.refused THEN x
           ELSE IF Fatal(a, o) THEN Fail(a) ELSE a,
      m, m.r.PendingQuicSendRetries)

(* TqUvHandleSendComplete. *)
ResumeTcpRead(m) ==
    IF /\ ~m.r.TerminalStarted /\ m.r.TcpReadPausedByQuicBacklog /\ ~m.r.TcpReadClosed
       /\ m.r.PendingQuicSendBytes <= env.buffers \div 2
       /\ env.buffers - Free(m) <= env.buffers \div 2
    THEN [m EXCEPT !.r.TcpReadStarted = TRUE, !.r.TcpReadPausedByQuicBacklog = FALSE] ELSE m

FinCompleted(m, fin) ==
    IF fin THEN CheckTerminalConvergence([m EXCEPT !.r.QuicFinCompleted = TRUE]) ELSE m

HandleSendComplete(m, o, refuse) ==
    LET op == m.os[o]
        a == ReleasePendingSend([m EXCEPT !.os[o].Ownership = "Deleted"], Len(op.ids))
    IN IF op.Cancelled THEN Fail(a)
       ELSE CheckTerminalConvergence(ResumeTcpRead(
              RetryPendingQuicSends(FinCompleted(a, op.Fin), refuse)))

-----------------------------------------------------------------------------
(* The loop.                                                               *)

(* What the decompressor and MsQuic may answer within a step. *)
IO == [d : IF env.compress THEN 0..env.down ELSE {0},
       yield : {FALSE} \cup {env.compress},
       bad : {FALSE} \cup {env.fault = "corrupt"},
       refuse : {FALSE} \cup {MayRefuse(stream)}]

(* RegisterRelayWithIdLocal: the callbacks may come as soon as the binding *)
(* is the target.                                                          *)
RegisterRelay(m) ==
    LET a == [m EXCEPT !.r.Mapped = TRUE] IN
    IF m.k.reg = "cancelled" THEN m
    ELSE IF CanPublishTarget(m.s, m.s.RouteGeneration)
    THEN [a EXCEPT !.s = PublishTarget(@, "binding"), !.k.pc = "activate", !.k.reg = "executing"]
    ELSE CloseRelay([a EXCEPT !.r.Activation = "Failed", !.k.reg = "failed"])

(* TerminalCleanupPending: the accounting is released with the relay. *)
FailRegistration(m, mask) ==
    [ProcessTerminalFactsLocal(
       [m EXCEPT !.r.ReleaseAccountingAtBackendTerminal = TRUE,
                 !.r.TerminalTriggerMask = @ \cup mask])
     EXCEPT !.k.reg = "cleanup", !.k.pc = "wake"]

TcpOpened(m) == [m EXCEPT !.r.SocketOwnership = "UvHandleOwned", !.h.fdOwner = "relay"]

ActivateRelay(m, io) ==
    LET a == [TcpOpened(m) EXCEPT !.r.TcpReadStarted = TRUE]
        lost == \/ m.r.Activation # "Prepared" \/ m.h.stop \/ m.r.QuicShutdownObserved
                \/ m.r.TerminalTriggerMask # {}
        c == [a EXCEPT !.r.Activation = "Active", !.r.PrecommitSettled = TRUE,
                       !.r.AdmittedQuicReceiveBytes = m.r.PendingQuicReceiveBytes,
                       !.r.QuicToTcpPressureBytes = m.r.PendingQuicReceiveBytes,
                       !.k.reg = "ok", !.k.pc = "wake"]
    IN IF lost THEN FailRegistration(DiscardPrecommit(a), {"RuntimeStop"})
       ELSE ProcessQuicToTcp(c, io)

DispatchCommand(m, io) ==
    LET e == Head(m.q)
        a == [m EXCEPT !.q = Tail(@), !.k.left = @ - 1]
    IN CASE e.Type = "Register" -> RegisterRelay(a)
         [] e.Type = "Receive" -> QueueReceiveOnLoop(a, e.x, io)
         [] e.Type = "Continue" ->
              ProcessQuicToTcp([a EXCEPT !.r.QuicToTcpContinuationPending = FALSE], io)
         [] e.Type = "SendComplete" -> HandleSendComplete(a, e.x, io.refuse)

DrainSendCompletionFallbacks(m, refuse) ==
    FoldLeft(LAMBDA x, o : HandleSendComplete(x, o, refuse),
             [m EXCEPT !.k.SendCompletionFallback = <<>>], m.k.SendCompletionFallback)

Facts(r) ==
    r.TerminalStarted \/ r.TerminalTriggerMask # {} \/ r.QuicFinObserved \/ r.QuicShutdownObserved

ScanTerminalFacts(m) ==
    IF m.r.Mapped /\ Facts(m.r) THEN ProcessTerminalFactsLocal(m) ELSE m

ProcessSignaledStops(m) ==
    LET a == [m EXCEPT !.k.StopSignaled = FALSE] IN
    IF m.k.StopSignaled /\ m.r.Mapped /\ m.h.stop
    THEN ProcessTerminalFactsLocal(RequestTerminal(a, "RuntimeStop")) ELSE a

(* The loop ends only when no relay is left. *)
LeaveWhenErased(m) == [m EXCEPT !.k.Running = m.r.Mapped, !.k.close = "no"]

BeginCloseHandles(m) ==
    IF m.k.close = "no" THEN m
    ELSE LeaveWhenErased(IF m.r.Mapped
                         THEN ProcessTerminalFactsLocal(RequestTerminal(m, m.k.close)) ELSE m)

(* HandleWake, called for uv_async_send and by the safety timer.           *)
LoopIdle == worker.Running /\ worker.pc = "idle"

ToDo ==
    \/ queue # <<>> \/ worker.SendCompletionFallback # <<>>
    \/ worker.StopSignaled \/ worker.RuntimeStopRequested
    \/ relay.Mapped /\ (relay.PendingQuicSendRetries # <<>> \/ Facts(relay))

HandleWake ==
    /\ LoopIdle /\ ToDo
    /\ \E close \in IF worker.RuntimeStopRequested THEN {"RuntimeStop", "Abort"} ELSE {"no"} :
         Becomes([Now EXCEPT !.k.pc = "wake", !.k.left = Len(queue), !.k.close = close])

RunCommand ==
    /\ worker.pc = "wake" /\ worker.left > 0
    /\ \E io \in IO : Becomes(DispatchCommand(Now, io))

FinishWake ==
    /\ worker.pc = "wake" /\ worker.left = 0
    /\ \E io \in IO :
         LET a == RetryPendingQuicSends(DrainSendCompletionFallbacks(Now, io.refuse), io.refuse)
         IN Becomes([BeginCloseHandles(ProcessSignaledStops(ScanTerminalFacts(a)))
                     EXCEPT !.k.pc = "idle"])

(* uv_tcp_open, uv_read_start and, under ActivationMutex, the activation.  *)
Activate ==
    /\ worker.pc = "activate"
    /\ \/ \E io \in IO : Becomes(ActivateRelay(Now, io))
       \/ /\ env.control = "filterFails"
          /\ \E m \in {Now, TcpOpened(Now)} : Becomes(FailRegistration(m, {"Abort"}))

(* The callbacks of the TCP handle.                                        *)
TcpLive == LoopIdle /\ relay.Mapped /\ ~relay.TcpClosePending /\ ~relay.TcpCloseCompleted

Compressed == IF env.compress THEN 0..(Len(relay.Compressor) + 1) ELSE {1}

OnTcpRead ==
    /\ TcpLive /\ relay.TcpReadStarted
    /\ \/ Free(Now) = 0 /\ Becomes(PauseTcpRead(Now))
       \/ env.fault = "allocFails" /\ Becomes(Fail(Now))
       \/ Free(Now) > 0 /\ tcp.reset /\ Becomes(ReadError(Now))
       \/ /\ Free(Now) > 0 /\ ~tcp.reset
          /\ \E io \in IO :
             \/ /\ tcp.read < env.up
                /\ \E k \in Compressed : Becomes(ReadData(Now, k, io.refuse))
             \/ tcp.read = env.up /\ Becomes(ReadEof(Now, io.refuse))

(* The kernel takes a part of a write. *)
TcpTakes ==
    /\ TcpLive /\ ~tcp.reset /\ relay.TcpWrites # <<>>
    /\ Len(Head(relay.TcpWrites).ids) > 1
    /\ LET w == Head(relay.TcpWrites) IN
       Becomes([Now EXCEPT !.t.out = Append(@, Head(w.ids)),
                           !.r.TcpWrites[1].ids = Tail(@)])

OnTcpWritten ==
    /\ TcpLive /\ relay.TcpWrites # <<>>
    /\ \E io \in IO :
         Becomes(IF tcp.reset THEN OnTcpWriteComplete(Now, FALSE, io)
                 ELSE OnTcpWriteComplete([Now EXCEPT !.t.out = @ \o Head(relay.TcpWrites).ids],
                                         TRUE, io))

OnTcpShutdownComplete ==
    /\ TcpLive /\ relay.TcpShutdownPending
    /\ LET a == [Now EXCEPT !.r.TcpShutdownPending = FALSE] IN
       Becomes(IF tcp.reset THEN Fail(a)
               ELSE CheckTerminalConvergence([a EXCEPT !.t.shutWr = TRUE,
                                                       !.r.TcpWriteClosed = TRUE]))

(* uv_close: the write and the shutdown in progress are called back as     *)
(* cancelled, then TqUvOnTcpClosed.                                        *)
CancelWrites(m, io) == IF m.r.TcpWrites = <<>> THEN m ELSE OnTcpWriteComplete(m, FALSE, io)
CancelShutdown(m) ==
    IF m.r.TcpShutdownPending THEN Fail([m EXCEPT !.r.TcpShutdownPending = FALSE]) ELSE m

Closed(m) ==
    IF m.r.TerminalStarted THEN CheckTerminalConvergence(m) ELSE EraseRelay(m)

OnTcpClosed ==
    /\ LoopIdle /\ relay.TcpClosePending
    /\ \E io \in IO :
         Becomes(Closed([CancelShutdown(CancelWrites(Now, io)) EXCEPT
                           !.r.TcpClosePending = FALSE, !.r.TcpCloseCompleted = TRUE]))

-----------------------------------------------------------------------------
(* MsQuic's callbacks, one at a time for a stream.                         *)

Serial == binding.cb = NoCallback
TakeNothing(m) == [m EXCEPT !.s.enabled = FALSE]
TakeAll(m, n, fin) == [m EXCEPT !.s = Consumed(@, n, fin)]

NewReceive(m, n, fin) ==
    [m EXCEPT !.s = Indicated(@, n, fin),
              !.vs = Append(@, NewView(Ids(m.s.indicated + 1, m.s.indicated + n), fin))]

FailActivation(m) == TakeNothing([m EXCEPT !.r.Activation = "Failed"])

ReceivePrepared(m, n, fin) ==
    LET a == NewReceive(m, n, fin) IN
    IF n = 0 THEN TakeAll([m EXCEPT !.r.QuicFinObserved = TRUE], n, fin)
    ELSE IF m.r.PendingQuicReceiveBytes + n > env.recv THEN FailActivation(m)
    ELSE [a EXCEPT !.r.PrecommitReceives = Append(@, Len(a.vs)),
                   !.r.PendingQuicReceiveBytes = @ + n,
                   !.r.AccountedQuicToTcpBytes = @ + n]

(* TqUvAcceptQuicReceive: a FIN without data is a fact at once, data are   *)
(* admitted under the mutex and posted after it.                           *)
AcceptQuicReceive(m, n, fin) ==
    IF n = 0 THEN TakeAll([m EXCEPT !.r.QuicFinObserved = TRUE], n, fin)
    ELSE IF ~CanReservePressure(m, n) THEN TakeNothing(m)
    ELSE ReservePressure([m EXCEPT !.r.AdmittedQuicReceiveBytes = @ + n,
                                   !.r.AccountedQuicToTcpBytes = @ + n,
                                   !.b.cb = [at |-> "post", n |-> n, fin |-> fin]], n)

(* RECEIVE.  With env.finAlone the peer's FIN may come without data. *)
ReceiveBegins ==
    /\ Serial
    /\ \E n \in 0..2, fin \in BOOLEAN :
       /\ CanIndicate(stream, n, fin)
       /\ env.finAlone \/ (n > 0 /\ fin = (stream.indicated + n = env.down))
       /\ \/ /\ stream.Target = "binding"
             /\ Becomes(CASE relay.Activation = "Prepared" -> ReceivePrepared(Now, n, fin)
                          [] relay.Activation = "Active" -> AcceptQuicReceive(Now, n, fin)
                          [] OTHER -> TakeAll(Now, n, fin))
          \/ /\ stream.Target = "binding" /\ env.fault = "allocFails" /\ n > 0
             /\ Becomes(CASE relay.Activation = "Prepared" -> FailActivation(Now)
                          [] relay.Activation = "Active" -> TakeNothing(Now)
                          [] OTHER -> TakeAll(Now, n, fin))
          \/ stream.Target = "sink" /\ Becomes(TakeAll(Now, n, fin))

ReceivePosts ==
    /\ binding.cb.at = "post"
    /\ LET n == binding.cb.n
           a == [Now EXCEPT !.b.cb = NoCallback]
           c == NewReceive(a, n, binding.cb.fin)
       IN Becomes(IF Accepts(Now) THEN Enqueue(c, Cmd("Receive", Len(c.vs)))
                  ELSE TakeNothing(ReleasePressure(ReleaseAdmitted(a, n), n)))

(* QueueSendComplete: to the queue, or else the lane beside it, last in    *)
(* first out.                                                              *)
SendComplete ==
    /\ Serial /\ CanSendComplete(stream)
    /\ LET o == Head(stream.flight)
           a == [Now EXCEPT !.s.flight = Tail(@), !.os[o].Cancelled = SendCanceled(stream)]
       IN Becomes(IF Accepts(Now) THEN Enqueue(a, Cmd("SendComplete", o))
                  ELSE [a EXCEPT !.k.SendCompletionFallback = <<o>> \o @])

PeerSendShutdown ==
    /\ Serial /\ CanPeerSendShutdown(stream)
    /\ Becomes([Now EXCEPT !.s.peerShut = TRUE])

SendShutdownComplete ==
    /\ Serial /\ CanSendShutdownComplete(stream)
    /\ Becomes([Now EXCEPT !.s.sendDone = TRUE])

OnPeerAborted(m) ==
    IF m.s.Target \in {"binding", "sink"} /\ m.r.Mapped THEN RequestTerminal(m, "Abort") ELSE m

PeerAborted ==
    /\ Serial /\ Open(stream) /\ stream.peerAbort = "none"
    /\ \/ /\ env.fault = "peerAbortsSend"
          /\ Becomes(OnPeerAborted([Now EXCEPT !.s.peerAbort = "send"]))
       \/ /\ env.fault = "peerAbortsReceive"
          /\ Becomes(OnPeerAborted([Now EXCEPT !.s.peerAbort = "receive"]))

(* SHUTDOWN_COMPLETE: the owner turns terminal, then tells the binding. *)
ShutdownComplete ==
    /\ Serial /\ CanShutdownComplete(stream)
    /\ LET a == [Now EXCEPT !.s = PublishTerminal(@)] IN
       Becomes(IF stream.Target \in {"binding", "sink"}
               THEN [a EXCEPT !.b.cb = [NoCallback EXCEPT !.at = "shutdown"]] ELSE a)

ShutdownObserved ==
    /\ binding.cb.at = "shutdown"
    /\ LET a == [Now EXCEPT !.b.cb = NoCallback, !.r.QuicShutdownObserved = TRUE] IN
       Becomes(IF ~relay.Mapped THEN [Now EXCEPT !.b.cb = NoCallback]
               ELSE IF relay.Activation = "Terminal" THEN a ELSE RequestTerminal(a, "Abort"))

-----------------------------------------------------------------------------
(* The caller of TqRelayStart and TqRelayStop, and the end of the worker.  *)

TqRelayStart ==
    /\ handle.Backend = "None" /\ ~worker.RuntimeStopRequested
    /\ LET a == [Now EXCEPT !.h.Backend = "Starting", !.h.active = 1] IN
       \/ Becomes(IF Accepts(Now) THEN Enqueue([a EXCEPT !.k.reg = "queued"], Cmd("Register", 0))
                  ELSE [a EXCEPT !.k.reg = "failed"])
       \/ env.fault = "allocFails" /\ Becomes([a EXCEPT !.k.reg = "failed"])

(* RegisterRelayWithId gives up while the command is still queued, and     *)
(* takes it back.                                                          *)
CommandTimesOut ==
    /\ env.control = "commandTimeout" /\ worker.reg = "queued"
    /\ Becomes([Now EXCEPT !.k.reg = "cancelled"])

(* AcceptStop: the stop fact, seen by the next HandleWake. *)
AcceptStop(m) ==
    [m EXCEPT !.h = SignalStop(@), !.k.StopSignaled = @ \/ m.k.Running]

(* The runtime has no worker to ask once it has stopped. *)
StopRelay(m) == [AcceptStop(m) EXCEPT !.h.active = IF m.k.Running THEN 0 ELSE @]

StartFails(m) ==
    [m EXCEPT !.h.Backend = "Failed", !.s = RequestShutdown(@, "AbortBoth"),
              !.t = IF m.h.fdOwner = "tunnel" THEN CloseFd(@) ELSE @]

StartReturns ==
    /\ handle.Backend = "Starting"
    /\ \/ /\ worker.reg = "ok" /\ ~handle.stop
          /\ Becomes([Now EXCEPT !.h.Backend = "Worker"])
       \/ /\ worker.reg = "ok" /\ handle.stop
          /\ Becomes(StartFails(AcceptStop(
               [Now EXCEPT !.r.ReleaseAccountingAtBackendTerminal = TRUE])))
       \/ /\ worker.reg = "cleanup"
          /\ Becomes(StartFails(Now))
       \/ /\ worker.reg \in {"failed", "cancelled"}
          /\ Becomes(StartFails([Now EXCEPT !.h.active = 0]))

(* Called by the reaper once the handoff is complete, and by the tunnel    *)
(* whose connection is shutting down.                                      *)
TqRelayStop ==
    /\ handle.Backend = "Worker"
    /\ \/ /\ env.control = "unregister" /\ ~worker.asked
          /\ Becomes(AcceptStop([Now EXCEPT !.k.asked = TRUE, !.s.lost = TRUE]))
       \/ /\ handle.stop /\ TerminalReleaseReady(handle)
          /\ Becomes([StopRelay(Now) EXCEPT !.h.Backend = "Stopped"])

(* StopAndJoin: registrations still queued are cancelled. *)
StopAndJoin ==
    /\ env.control = "stop" /\ ~worker.RuntimeStopRequested
    /\ Becomes([Now EXCEPT !.k.Accepting = FALSE, !.k.RuntimeStopRequested = TRUE,
                           !.k.reg = IF @ = "queued" THEN "cancelled" ELSE @])

-----------------------------------------------------------------------------
Init ==
    /\ env \in Scenarios
    /\ tcp = TcpInit /\ stream = StreamInit /\ handle = HandleInit
    /\ relay = RelayInit /\ binding = BindingInit /\ views = <<>> /\ ops = <<>>
    /\ queue = <<>> /\ worker = WorkerInit

WakeStep == RunCommand \/ FinishWake \/ Activate

WorkerStep ==
    \/ HandleWake \/ WakeStep \/ OnTcpRead \/ TcpTakes \/ OnTcpWritten
    \/ OnTcpShutdownComplete \/ OnTcpClosed

CallbackStep ==
    \/ ReceiveBegins \/ ReceivePosts \/ SendComplete \/ PeerSendShutdown
    \/ SendShutdownComplete \/ PeerAborted \/ ShutdownComplete \/ ShutdownObserved

CallerStep == TqRelayStart \/ StartReturns \/ TqRelayStop
NetworkStep == TcpReset \/ ConnectionLost \/ CancelOnLoss

Next ==
    \/ WorkerStep \/ CallbackStep \/ CallerStep \/ CommandTimesOut \/ StopAndJoin
    \/ NetworkStep

(* The threads of the loop, of MsQuic and of the tunnel go on; nothing     *)
(* makes the network fail, a wait time out, or the worker stop.  A turn of *)
(* uv_run serves the timer and every ready handle.                         *)
CanReceive ==
    /\ Serial /\ stream.Target \in {"binding", "sink"}
    /\ CanIndicate(stream, 1, stream.indicated + 1 = env.down)
       \/ (env.finAlone /\ CanIndicate(stream, 0, TRUE))

CanCall ==
    \/ handle.Backend = "None" /\ ~worker.RuntimeStopRequested
    \/ handle.Backend = "Starting" /\ worker.reg \in {"ok", "failed", "cancelled", "cleanup"}
    \/ handle.Backend = "Worker" /\ handle.stop /\ TerminalReleaseReady(handle)

CanNotice ==
    /\ Serial
    /\ \/ CanSendComplete(stream) \/ CanPeerSendShutdown(stream)
       \/ CanSendShutdownComplete(stream) \/ CanShutdownComplete(stream)

NoticeStep == SendComplete \/ PeerSendShutdown \/ SendShutdownComplete \/ ShutdownComplete

CanRead == TcpLive /\ relay.TcpReadStarted
CanWrite == TcpLive /\ relay.TcpWrites # <<>>
CanFinish ==
    \/ TcpLive /\ relay.TcpShutdownPending
    \/ LoopIdle /\ relay.TcpClosePending

Spec == Init /\ [][Next]_vars

-----------------------------------------------------------------------------
(* Properties of this worker.                                              *)

Bytes(items, Of(_)) == FoldLeft(LAMBDA n, x : n + Of(x), 0, items)

(* The ledgers agree with the lists: PendingQuicSendBytes and the worker's *)
(* share of it hold what the send operations hold that are not deleted;    *)
(* the other direction holds what the queued receives have left, with the  *)
(* one a callback is posting; and the pressure that pauses the stream is   *)
(* that and the output that waits to be written.                           *)
LedgersExact ==
    relay.Mapped =>
      LET sends == Bytes(ops, LAMBDA o : IF o.Ownership = "Deleted" THEN 0 ELSE Len(o.ids))
          commands == SelectSeq(queue, LAMBDA e : e.Type = "Receive")
          receives == binding.cb.n
                      + Bytes(relay.PrecommitReceives, LAMBDA v : RemainingBytes(views[v]))
                      + Bytes(commands, LAMBDA e : RemainingBytes(views[e.x]))
          output == Bytes(relay.TcpWrites, LAMBDA w : w.PressureBytes)
                    + Bytes(views, LAMBDA v : v.DeferredOutputBytes)
      IN /\ relay.PendingQuicSendBytes = sends /\ relay.AccountedTcpToQuicBytes = sends
         /\ relay.AccountedQuicToTcpBytes = receives
         /\ relay.Activation = "Active" => relay.QuicToTcpPressureBytes = receives + output

(* The buffers of a send belong to MsQuic until SEND_COMPLETE. *)
FlightOwned == \A i \in DOMAIN stream.flight : ops[stream.flight[i]].Ownership # "Deleted"
=============================================================================

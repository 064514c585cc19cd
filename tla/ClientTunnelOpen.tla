-------------------------- MODULE ClientTunnelOpen --------------------------
(***************************************************************************)
(* One asynchronous OPEN on the client: the ingress reactor's client entry *)
(* (src/ingress/client_ingress_reactor.cpp), the open handle and the       *)
(* tunnel context behind it (src/tunnel/tcp_tunnel.cpp), the client's      *)
(* socket they pass between them, and the stream's callbacks.              *)
(*                                                                         *)
(* Three threads run: the reactor's, the QUIC worker that delivers the     *)
(* stream's events, and the one that aborts a connection's tunnels.  A     *)
(* step is a section the code executes under one lock, or a call it makes  *)
(* between two of them.  Misuse of memory or of the socket does not stop   *)
(* the model: it is recorded in `faults' and the step goes on as if the    *)
(* memory still held its last value, one of the outcomes a build can have. *)
(***************************************************************************)
EXTENDS Naturals

CONSTANTS
    Proto,          \* "Proxy" (SOCKS5, HTTP CONNECT) or "PortForward"
    Scenarios       \* what may happen to the client and what is promised then

ASSUME ProtoAssumption == Proto \in {"Proxy", "PortForward"}

\* What may happen: the OPEN timer expires before an answer; the connection's
\* tunnels are aborted; the peer or the connection ends the stream early; the
\* answer overtakes the OPEN's SEND_COMPLETE; starting the relay fails; a relay
\* ends before the accept that began it returns.
Disturbances == {"openTimesOut", "connAborts", "streamEnds", "sendCompletesLate",
                 "relayFails", "relayEndsEarly"}

ASSUME ScenariosAssumption ==
    Scenarios \subseteq [may : SUBSET Disturbances,
                         promises : SUBSET {"fd", "handle", "context", "progress"}]

VARIABLES
    hnd,       \* TqClientTunnelOpenHandle
    ctx,       \* TqTunnelContext
    cli,       \* the reactor's ClientEntry
    terminal,  \* OpenCompletionState.TerminalCalled
    task,      \* the queued open completion, or "none"
    timer,     \* is the OPEN timeout queued?
    life,      \* the reactor's LifecycleState
    stream,    \* the MsQuic stream as its callbacks reveal it
    fdOpen,    \* is the client's socket open?
    relayFd,   \* does a relay worker own the socket?
    op,        \* the holder of StreamOpLock, or "none"
    pc, frame, \* where each thread is, and what it remembers
    faults,    \* misuse seen so far
    env        \* the scenario, chosen once

state == <<hnd, ctx, cli, terminal, task, timer, life, stream, fdOpen, relayFd,
           op, pc, frame, faults>>
vars == <<state, env>>

Threads == {"reactor", "quic", "abort"}
Ended == {"Accepted", "Rejected", "Cancelled"}
Faults == {"fdClosedTwice", "fdUsedAfterClose", "handleUsedAfterRelease",
           "contextUsedAfterDelete", "callbackAfterDelete", "contextDeletedTwice"}

Init ==
    /\ hnd = [state |-> "None", ctx |-> FALSE, refs |-> 0]
    /\ ctx = [alive |-> FALSE, tcp |-> FALSE, stream |-> FALSE,
              openDone |-> FALSE, openOk |-> FALSE, relay |-> FALSE,
              selfDelete |-> FALSE, done |-> FALSE, queued |-> FALSE,
              pending |-> FALSE, sendDone |-> FALSE, owner |-> TRUE,
              handle |-> FALSE, accepted |-> FALSE, aborted |-> FALSE]
    /\ cli = [in |-> TRUE, phase |-> "Handshake", handle |-> FALSE,
              ok |-> FALSE, unsent |-> FALSE]
    /\ terminal = FALSE /\ task = "none" /\ timer = FALSE
    /\ life = "Running"
    /\ stream = [started |-> FALSE, answered |-> FALSE, sent |-> FALSE,
                 asked |-> FALSE, ended |-> FALSE, target |-> "tunnel"]
    /\ fdOpen = TRUE /\ relayFd = FALSE /\ op = "none"
    /\ pc = [t \in Threads |-> "idle"]
    /\ frame = [t \in Threads |-> [kind |-> "none", del |-> FALSE,
                                   res |-> FALSE, back |-> "idle",
                                   event |-> "none", locked |-> FALSE]]
    /\ faults = {} /\ env \in Scenarios

-----------------------------------------------------------------------------
(* What the sections share. *)

Blame(S) == faults' = faults \cup S

At(t, label) == pc[t] = label

May(what) == what \in env.may

GoTo(t, label) == pc' = [pc EXCEPT ![t] = label]

\* A step that reads or writes the context, or the handle, wherever it lives.
ContextFault(t) ==
    IF ctx.alive THEN {}
    ELSE IF t = "quic" THEN {"callbackAfterDelete"}
                       ELSE {"contextUsedAfterDelete"}
HandleFault == IF hnd.refs > 0 THEN {} ELSE {"handleUsedAfterRelease"}
CloseFault == IF fdOpen THEN {} ELSE {"fdClosedTwice"}

\* TqTunnelContext::ShouldDeletePreRelayLocked.
ShouldDeletePreRelayOwned(c) ==
    c.selfDelete /\ ~c.relay /\ (c.done \/ (~c.queued /\ ~c.stream))
ShouldDeletePreRelayEager(c) == c.selfDelete /\ ~c.relay /\ ~c.owner
ShouldDeletePreRelay(c) ==
    /\ c.selfDelete /\ ~c.relay /\ ~c.owner
    /\ c.done \/ (~c.queued /\ ~c.stream)

\* May a section that wants the stream aborted submit the abort?
MayShutdown(c) == c.stream /\ ~c.done /\ ~c.queued

\* TqReleaseClientTunnelOpenHandle.
ReleaseTwice(h) == [h EXCEPT !.refs = @ - 2]
Release(h) == [h EXCEPT !.refs = @ - 1]

\* TqRetainClientTunnelOpenHandle.
RetainForgotten(h) == h
Retain(h) == [h EXCEPT !.refs = @ + 1]

\* MarkOpenCompletionTerminal answers whether the caller may end the handle.
MarkTerminalAlways == TRUE
MarkTerminal == ~terminal

-----------------------------------------------------------------------------
(* The reactor starts an OPEN. *)

\* StartClientOpen up to RegisterWithConnectionIfNeeded: the handle and the
\* context exist and the connection can abort the tunnel; the OPEN is not sent.
StartClientOpen ==
    /\ At("reactor", "idle") /\ life # "Stopped"
    /\ cli.in /\ cli.phase = "Handshake"
    /\ cli' = [cli EXCEPT !.phase = "Opening"]
    /\ \/ GoTo("reactor", "Complete") /\ UNCHANGED <<hnd, ctx>>
       \/ /\ hnd' = [state |-> "Opening", ctx |-> TRUE, refs |-> 2]
          /\ ctx' = [ctx EXCEPT !.alive = TRUE, !.tcp = TRUE, !.stream = TRUE,
                                !.handle = TRUE]
          /\ GoTo("reactor", "Send")
    /\ UNCHANGED <<terminal, task, timer, life, stream, fdOpen, relayFd, op,
                   frame, faults>>

\* SendOpenRequest -> SendBytes(QUIC_SEND_FLAG_START).  It fails before it
\* reaches the stream (encoding, allocation, no lease, the stream is going),
\* or because the stream could not be started.
SendOpenRequest ==
    /\ At("reactor", "Send") /\ op = "none"
    /\ \/ /\ MayShutdown(ctx)
          /\ stream' = [stream EXCEPT !.started = TRUE]
          /\ GoTo("reactor", "Install") /\ UNCHANGED ctx
       \/ /\ MayShutdown(ctx)
          /\ ctx' = [ctx EXCEPT !.stream = FALSE, !.done = TRUE]
          /\ GoTo("reactor", "Abandon") /\ UNCHANGED stream
       \/ GoTo("reactor", "Abandon") /\ UNCHANGED <<ctx, stream>>
    /\ UNCHANGED <<hnd, cli, terminal, task, timer, life, fdOpen, relayFd, op,
                   frame, faults>>

\* The context as RejectAsyncClientOpen, CancelAsyncClientOpen and
\* AbandonAsyncClientOpenWithoutClosingTcp leave it.
EndedContext(c) ==
    [c EXCEPT !.handle = FALSE, !.owner = FALSE, !.selfDelete = TRUE,
              !.tcp = FALSE, !.queued = @ \/ MayShutdown(c)]

\* The OPEN could not be sent: the handle is cancelled and freed, and the
\* context forgets the socket without closing it
\* (AbandonAsyncClientOpenWithoutClosingTcp).
AbandonOpen ==
    /\ At("reactor", "Abandon") /\ op = "none"
    /\ hnd' = [state |-> "Cancelled", ctx |-> FALSE, refs |-> 0]
    /\ ctx' = EndedContext(ctx)
    /\ op' = IF MayShutdown(ctx) THEN "reactor" ELSE "none"
    /\ GoTo("reactor", IF MayShutdown(ctx) THEN "SubmitAbandon"
                       ELSE IF ShouldDeletePreRelay(EndedContext(ctx))
                       THEN "DeleteAbandoned" ELSE "Complete")
    /\ UNCHANGED <<cli, terminal, task, timer, life, stream, fdOpen, relayFd,
                   frame, faults>>

\* The tail of StartClientOpen: the entry learns its handle, the timer is set.
InstallHandle ==
    /\ At("reactor", "Install")
    /\ cli' = [cli EXCEPT !.handle = TRUE, !.unsent = (Proto = "Proxy")]
    /\ timer' = (life = "Running")
    /\ GoTo("reactor", "idle")
    /\ UNCHANGED <<hnd, ctx, terminal, task, life, stream, fdOpen, relayFd, op,
                   frame, faults>>

-----------------------------------------------------------------------------
(* The reactor ends an OPEN: completion, timeout, close, stop. *)

\* Begin a terminal call of the given kind, to come back at `back', unless the
\* completion state says that one was already made.  `locked': the reactor's
\* Mutex is held across the call.
EndOnce(t, kind, back, locked) ==
    IF MarkTerminal
    THEN /\ terminal' = TRUE
         /\ frame' = [frame EXCEPT ![t].kind = kind, ![t].back = back,
                                   ![t].locked = locked]
         /\ GoTo(t, "EndHandle")
    ELSE GoTo(t, back) /\ UNCHANGED <<terminal, frame>>

\* CompleteClientOpen's change of the entry.
Completed(ok) ==
    [cli EXCEPT !.phase = "WritingOpenResponse", !.ok = ok,
                !.unsent = (Proto = "Proxy")]

\* CompleteClientOpen without a handle: the OPEN never started.
CompleteWithoutHandle ==
    /\ At("reactor", "Complete")
    /\ cli' = Completed(FALSE)
    /\ GoTo("reactor", "Write")
    /\ UNCHANGED <<hnd, ctx, terminal, task, timer, life, stream, fdOpen,
                   relayFd, op, frame, faults>>

\* Does a queued completion still belong to the entry that is waiting for it?
CompletionAppliesAnyPhase == cli.in
CompletionApplies == cli.in /\ cli.phase = "Opening"

\* The queued completion runs: EnqueueOpenCompletion's task.
RunCompletion ==
    /\ At("reactor", "idle") /\ task # "none" /\ life # "Stopped"
    /\ task' = "none"
    /\ IF life = "Running" /\ CompletionApplies
       THEN /\ cli' = [Completed(task = "ok") EXCEPT !.handle = TRUE]
            /\ GoTo("reactor", "Write") /\ UNCHANGED <<terminal, frame>>
       ELSE EndOnce("reactor", "Rejected", "idle", life = "Running") /\ UNCHANGED cli
    /\ UNCHANGED <<hnd, ctx, timer, life, stream, fdOpen, relayFd, op, faults>>

\* TimeoutClientOpen.
TimeoutClientOpen ==
    /\ May("openTimesOut")
    /\ At("reactor", "idle") /\ timer /\ life = "Running"
    /\ timer' = FALSE
    /\ IF cli.in /\ cli.phase = "Opening"
       THEN /\ cli' = [Completed(FALSE) EXCEPT !.handle = FALSE]
            /\ EndOnce("reactor", "Cancelled", "Write", FALSE)
       ELSE UNCHANGED <<cli, terminal, frame, pc>>
    /\ UNCHANGED <<hnd, ctx, task, life, stream, fdOpen, relayFd, op, faults>>

\* CloseClientLocked: the entry goes; its handle is cancelled, which closes the
\* socket, or the reactor closes the socket itself.  `seen' is what its caller
\* already did wrong.
CloseClientLockedForgets(back, seen) ==
    /\ cli' = [cli EXCEPT !.in = FALSE]
    /\ Blame(seen \cup IF cli.handle THEN {} ELSE CloseFault)
    /\ fdOpen' = (fdOpen /\ cli.handle)
    /\ GoTo("reactor", back) /\ UNCHANGED <<terminal, frame>>
CloseClientLockedLeaks(back, seen) ==
    /\ cli' = [cli EXCEPT !.in = FALSE]
    /\ Blame(seen)
    /\ UNCHANGED fdOpen
    /\ IF cli.handle THEN EndOnce("reactor", "Cancelled", back, TRUE)
       ELSE GoTo("reactor", back) /\ UNCHANGED <<terminal, frame>>
CloseClientLocked(back, seen) ==
    /\ cli' = [cli EXCEPT !.in = FALSE]
    /\ Blame(seen \cup IF cli.handle THEN {} ELSE CloseFault)
    /\ fdOpen' = (fdOpen /\ cli.handle)
    /\ IF cli.handle THEN EndOnce("reactor", "Cancelled", back, TRUE)
       ELSE GoTo("reactor", back) /\ UNCHANGED <<terminal, frame>>

\* The client hangs up, or its peer is removed (HandleClientEvents' Error,
\* HandleClientRead, RemovePeerLocked).
CloseClient ==
    /\ At("reactor", "idle") /\ life # "Stopped" /\ cli.in
    /\ CloseClientLocked("idle", {})
    /\ UNCHANGED <<hnd, ctx, task, timer, life, stream, relayFd, op>>

\* Stop: the completion token is cut and the worker told to leave its loop.
StopBegin ==
    /\ life = "Running"
    /\ life' = "Stopping"
    /\ UNCHANGED <<hnd, ctx, cli, terminal, task, timer, stream, fdOpen,
                   relayFd, op, pc, frame, faults>>

\* Stop, once the worker has been joined and the last tasks have run:
\* CloseAllLocked, and the queues are dropped.
StopFinish ==
    /\ life = "Stopping" /\ At("reactor", "idle") /\ task = "none"
    /\ life' = "Stopped" /\ timer' = FALSE
    /\ IF cli.in THEN CloseClientLocked("idle", {})
       ELSE UNCHANGED <<cli, terminal, frame, pc, fdOpen, faults>>
    /\ UNCHANGED <<hnd, ctx, task, stream, relayFd, op>>

\* HandleClientWrite once the answer is out: who ends the handle, and how.
WriteDone(c) ==
    IF ~c.handle THEN "Remove" ELSE IF c.ok THEN "Accept" ELSE "Reject"

\* The entry HandleClientWrite leaves behind: a port forward whose OPEN failed
\* takes the socket back.
WrittenDetached(c) ==
    [c EXCEPT !.unsent = FALSE, !.handle = @ /\ c.ok]
Written(c) ==
    [c EXCEPT !.unsent = FALSE,
              !.handle = @ /\ (Proto # "PortForward" \/ c.ok)]

\* What a send on the client's socket may do wrong.
SendFault == IF cli.unsent /\ ~fdOpen THEN {"fdUsedAfterClose"} ELSE {}

\* HandleClientWrite with nothing (left) to send, or the rest being sent.
WriteSent ==
    /\ At("reactor", "Write") /\ cli.in
    /\ cli' = Written(cli)
    /\ GoTo("reactor", WriteDone(cli))
    /\ Blame(SendFault)
    /\ UNCHANGED <<hnd, ctx, terminal, task, timer, life, stream, fdOpen,
                   relayFd, op, frame>>

\* HandleClientWrite when the socket takes no more, or fails.
WriteStops ==
    /\ At("reactor", "Write") /\ cli.in /\ cli.unsent
    /\ \/ /\ GoTo("reactor", "idle")
          /\ Blame(SendFault)
          /\ UNCHANGED <<cli, terminal, frame, fdOpen>>
       \/ CloseClientLocked("idle", SendFault)
    /\ UNCHANGED <<hnd, ctx, task, timer, life, stream, relayFd, op>>

\* The socket is writable again.
Writable ==
    /\ At("reactor", "idle") /\ life # "Stopped"
    /\ cli.in /\ cli.phase = "WritingOpenResponse"
    /\ GoTo("reactor", "Write")
    /\ UNCHANGED <<hnd, ctx, cli, terminal, task, timer, life, stream, fdOpen,
                   relayFd, op, frame, faults>>

\* The failed OPEN's handle is rejected after its answer was written.
RejectFailedOpen ==
    /\ At("reactor", "Reject")
    /\ EndOnce("reactor", "Rejected", "Remove", FALSE)
    /\ UNCHANGED <<hnd, ctx, cli, task, timer, life, stream, fdOpen, relayFd,
                   op, faults>>

\* CloseClientOwnedByTunnelLocked, or CloseClientLocked for an entry that has
\* no handle (any more).
RemoveClient ==
    /\ At("reactor", "Remove")
    /\ cli' = [cli EXCEPT !.in = FALSE]
    /\ IF cli.handle THEN UNCHANGED <<fdOpen, faults>>
       ELSE Blame(CloseFault) /\ fdOpen' = FALSE
    /\ GoTo("reactor", "idle")
    /\ UNCHANGED <<hnd, ctx, terminal, task, timer, life, stream, relayFd, op,
                   frame>>

-----------------------------------------------------------------------------
(* TqRejectClientTunnelOpen and TqCancelClientTunnelOpen, on any thread. *)

\* The handle's section: the first terminal call takes the context.
EndHandle(t) ==
    /\ At(t, "EndHandle")
    /\ Blame(HandleFault)
    /\ IF hnd.state \in Ended
       THEN GoTo(t, frame[t].back) /\ UNCHANGED hnd
       ELSE /\ hnd' = [hnd EXCEPT !.state = frame[t].kind, !.ctx = FALSE]
            /\ GoTo(t, IF hnd.ctx THEN "EndContext" ELSE "EndUser")
    /\ UNCHANGED <<ctx, cli, terminal, task, timer, life, stream, fdOpen,
                   relayFd, op, frame>>

\* RejectAsyncClientOpen / CancelAsyncClientOpen under StreamOpLock and Lock.
EndContext(t) ==
    /\ At(t, "EndContext") /\ op = "none"
    /\ IF ~ctx.handle
       THEN /\ GoTo(t, "EndUser") /\ Blame(ContextFault(t))
            /\ UNCHANGED <<ctx, fdOpen, op, frame>>
       ELSE /\ ctx' = EndedContext(ctx)
            /\ Blame(ContextFault(t) \cup (IF ctx.tcp THEN CloseFault ELSE {}))
            /\ fdOpen' = (fdOpen /\ ~ctx.tcp)
            /\ frame' = [frame EXCEPT
                   ![t].del = ShouldDeletePreRelay(EndedContext(ctx))]
            /\ op' = t
            /\ GoTo(t, IF MayShutdown(ctx) THEN "SubmitEnd" ELSE "EndRelease")
    /\ UNCHANGED <<hnd, cli, terminal, task, timer, life, stream, relayFd>>

\* What follows TqSubmitStreamShutdown in the function that calls it.
AfterSubmit == [SubmitEnd |-> "EndRelease", SubmitAccept |-> "AcceptUser",
                SubmitAbandon |-> "Complete",
                SubmitSend |-> "idle", SubmitAbort |-> "idle"]

\* TqSubmitStreamShutdown: the context's StreamOwner is read after Lock is
\* released, still under StreamOpLock.
SubmitShutdown(t) ==
    /\ pc[t] \in DOMAIN AfterSubmit
    /\ stream' = [stream EXCEPT !.asked = @ \/ stream.started]
    /\ Blame(ContextFault(t))
    /\ op' = IF At(t, "SubmitEnd") THEN t ELSE "none"
    /\ GoTo(t, AfterSubmit[pc[t]])
    /\ UNCHANGED <<hnd, ctx, cli, terminal, task, timer, life, fdOpen, relayFd,
                   frame>>

\* The context's reference to the handle goes; then the context, if it is due.
\* RejectAsyncClientOpen deletes it before its StreamOpLock guard is released,
\* the caller of CancelAsyncClientOpen after.
EndRelease(t) ==
    /\ At(t, "EndRelease")
    /\ hnd' = Release(hnd)
    /\ op' = IF frame[t].del /\ frame[t].kind = "Rejected" THEN t ELSE "none"
    /\ GoTo(t, IF frame[t].del THEN "DeleteEnded" ELSE "EndUser")
    /\ UNCHANGED <<ctx, cli, terminal, task, timer, life, stream, fdOpen,
                   relayFd, frame, faults>>

\* The caller's reference goes, and the terminal call returns.
EndUser(t) ==
    /\ At(t, "EndUser")
    /\ hnd' = Release(hnd)
    /\ GoTo(t, frame[t].back)
    /\ UNCHANGED <<ctx, cli, terminal, task, timer, life, stream, fdOpen,
                   relayFd, op, frame, faults>>

AfterDelete == [DeleteEnded |-> "EndUser", DeleteAccepted |-> "AcceptUser",
                DeleteAbandoned |-> "Complete", DeleteEvent |-> "idle"]

\* ~TqTunnelContext: Detach waits for a callback that another thread is in,
\* UnregisterFromConnection for an abort that is running.
DeleteContextAtOnce(t) ==
    /\ pc[t] \in DOMAIN AfterDelete
    /\ At("abort", "idle")
    /\ Blame(IF ctx.alive THEN {} ELSE {"contextDeletedTwice"})
    /\ ctx' = [ctx EXCEPT !.alive = FALSE]
    /\ op' = IF op = t THEN "none" ELSE op
    /\ GoTo(t, AfterDelete[pc[t]])
    /\ UNCHANGED <<hnd, cli, terminal, task, timer, life, stream, fdOpen,
                   relayFd, frame>>
DeleteContext(t) ==
    /\ pc[t] \in DOMAIN AfterDelete
    /\ t = "quic" \/ At("quic", "idle")
    /\ At("abort", "idle")
    /\ Blame(IF ctx.alive THEN {} ELSE {"contextDeletedTwice"})
    /\ ctx' = [ctx EXCEPT !.alive = FALSE]
    /\ op' = IF op = t THEN "none" ELSE op
    /\ GoTo(t, AfterDelete[pc[t]])
    /\ UNCHANGED <<hnd, cli, terminal, task, timer, life, stream, fdOpen,
                   relayFd, frame>>

-----------------------------------------------------------------------------
(* TqAcceptClientTunnelOpen, on the reactor's thread. *)

\* HandleClientWrite reserves the terminal call, then the handle's section of
\* TqAcceptClientTunnelOpen.
AcceptHandle ==
    /\ At("reactor", "Accept")
    /\ IF MarkTerminal
       THEN /\ terminal' = TRUE
            /\ Blame(HandleFault)
            /\ IF hnd.state = "OpenSucceeded" /\ hnd.ctx
               THEN /\ hnd' = [hnd EXCEPT !.state = "Accepted", !.ctx = FALSE]
                    /\ GoTo("reactor", "AcceptContext")
                    /\ UNCHANGED frame
               ELSE /\ frame' = [frame EXCEPT !["reactor"].res = FALSE]
                    /\ GoTo("reactor", "AcceptReturn") /\ UNCHANGED hnd
       ELSE GoTo("reactor", "Remove") /\ UNCHANGED <<terminal, hnd, frame, faults>>
    /\ UNCHANGED <<ctx, cli, task, timer, life, stream, fdOpen, relayFd, op>>

\* AcceptAsyncClientOpen's first section: the relay is wanted.
AcceptContext ==
    /\ At("reactor", "AcceptContext")
    /\ Blame(ContextFault("reactor"))
    /\ ctx' = [ctx EXCEPT !.handle = FALSE, !.accepted = TRUE,
                          !.selfDelete = TRUE, !.pending = TRUE]
    /\ hnd' = Release(hnd)
    /\ GoTo("reactor", "Pending")
    /\ UNCHANGED <<cli, terminal, task, timer, life, stream, fdOpen, relayFd,
                   op, frame>>

\* StartPendingClientRelay did not start the relay: is it queued behind the
\* OPEN's send completion?
WaitsForOpenSendComplete(c) ==
    c.accepted /\ c.pending /\ ~c.sendDone /\ ~c.relay /\ ~c.done /\ ~c.queued

AcceptWait ==
    /\ At("reactor", "AcceptWait")
    /\ Blame(ContextFault("reactor"))
    /\ frame' = [frame EXCEPT
           !["reactor"].res = WaitsForOpenSendComplete(ctx)]
    /\ GoTo("reactor", IF WaitsForOpenSendComplete(ctx)
                       THEN "AcceptOwner" ELSE "AcceptAbort")
    /\ UNCHANGED <<hnd, ctx, cli, terminal, task, timer, life, stream, fdOpen,
                   relayFd, op>>

\* ReleaseClientOpenOwnerAndMaybeDelete.
AcceptOwner ==
    /\ At("reactor", "AcceptOwner")
    /\ Blame(ContextFault("reactor"))
    /\ LET c == [ctx EXCEPT !.owner = FALSE]
       IN  /\ ctx' = c
           /\ GoTo("reactor", IF ShouldDeletePreRelay(c) THEN "DeleteAccepted"
                              ELSE "AcceptUser")
    /\ UNCHANGED <<hnd, cli, terminal, task, timer, life, stream, fdOpen,
                   relayFd, op, frame>>

\* The context as AbortAcceptedClientOpenBeforeRelay leaves it.
AbortedContext(c) ==
    [c EXCEPT !.pending = FALSE, !.owner = FALSE, !.selfDelete = TRUE,
              !.tcp = FALSE, !.queued = TRUE]

\* AbortAcceptedClientOpenBeforeRelay, by the accepting thread or by the
\* thread that delivered the send completion.  A context that has not seen
\* SHUTDOWN_COMPLETE still has its stream, so the abort is always submitted.
AbortAccepted(t) ==
    /\ \/ t = "reactor" /\ At(t, "AcceptAbort")
       \/ t = "quic" /\ At(t, "SendAbort")
    /\ op = "none"
    /\ IF ~ctx.accepted \/ ctx.relay \/ ctx.done \/ ctx.queued
       THEN /\ Blame(ContextFault(t))
            /\ GoTo(t, IF t = "reactor" THEN "AcceptUser" ELSE "idle")
            /\ UNCHANGED <<ctx, fdOpen, op>>
       ELSE /\ ctx' = AbortedContext(ctx)
            /\ Blame(ContextFault(t) \cup (IF ctx.tcp THEN CloseFault ELSE {}))
            /\ fdOpen' = (fdOpen /\ ~ctx.tcp)
            /\ op' = t
            /\ GoTo(t, IF t = "reactor" THEN "SubmitAccept" ELSE "SubmitSend")
    /\ UNCHANGED <<hnd, cli, terminal, task, timer, life, stream, relayFd,
                   frame>>

\* The caller's reference goes at the end of TqAcceptClientTunnelOpen.
AcceptUser ==
    /\ At("reactor", "AcceptUser")
    /\ hnd' = Release(hnd)
    /\ GoTo("reactor", "AcceptReturn")
    /\ UNCHANGED <<ctx, cli, terminal, task, timer, life, stream, fdOpen,
                   relayFd, op, frame, faults>>

\* Back in HandleClientWrite: an accept that failed is followed by
\* RejectOpenHandleOnce on the same handle, whose state is read again.
AcceptReturn ==
    /\ At("reactor", "AcceptReturn")
    /\ IF frame["reactor"].res
       THEN GoTo("reactor", "Remove") /\ UNCHANGED <<frame, faults>>
       ELSE /\ Blame(HandleFault)
            /\ frame' = [frame EXCEPT !["reactor"].kind = "Rejected",
                                      !["reactor"].back = "Remove",
                                      !["reactor"].locked = FALSE]
            /\ GoTo("reactor", IF hnd.refs > 0 THEN "EndHandle" ELSE "Remove")
    /\ UNCHANGED <<hnd, ctx, cli, terminal, task, timer, life, stream, fdOpen,
                   relayFd, op>>

-----------------------------------------------------------------------------
(* StartPendingClientRelay and StartRelay, on the reactor's thread from an  *)
(* accept, on the QUIC thread from the send completion.                     *)

\* Where a relay start that ended with `res' returns to.
RelayReturn(t, res) ==
    IF t = "reactor" THEN IF res THEN "AcceptOwner" ELSE "AcceptWait"
                     ELSE IF res THEN "idle" ELSE "SendAbort"

ReturnRelay(t, res) ==
    /\ GoTo(t, RelayReturn(t, res))
    /\ frame' = [frame EXCEPT ![t].res = res]

\* May this call take the pending relay start?
TakesPendingUnaccepted(c) ==
    c.openOk /\ c.sendDone /\ ~c.relay /\ ~c.done /\ ~c.queued
TakesPendingShared(c) ==
    c.accepted /\ c.sendDone /\ ~c.relay /\ ~c.done /\ ~c.queued
TakesPending(c) ==
    c.pending /\ c.sendDone /\ ~c.relay /\ ~c.done /\ ~c.queued

StartPendingClientRelay(t) ==
    /\ At(t, "Pending")
    /\ Blame(ContextFault(t))
    /\ IF TakesPending(ctx)
       THEN /\ ctx' = [ctx EXCEPT !.pending = FALSE]
            /\ GoTo(t, "RelayCheck") /\ UNCHANGED frame
       ELSE ReturnRelay(t, ctx.relay) /\ UNCHANGED ctx
    /\ UNCHANGED <<hnd, cli, terminal, task, timer, life, stream, fdOpen,
                   relayFd, op>>

\* StartRelay's first section copies the socket.
RelayCheck(t) ==
    /\ At(t, "RelayCheck")
    /\ Blame(ContextFault(t))
    /\ IF MayShutdown(ctx) /\ ~ctx.relay
       THEN GoTo(t, "RelayRegister") /\ UNCHANGED frame
       ELSE ReturnRelay(t, FALSE)
    /\ UNCHANGED <<hnd, ctx, cli, terminal, task, timer, life, stream, fdOpen,
                   relayFd, op>>

\* TqRelayStartManaged: the relay's target replaces the context's and the
\* worker takes the socket; it may fail before that, or after it, when the
\* worker closes the socket itself.
RelayRegister(t) ==
    /\ At(t, "RelayRegister")
    /\ LET used == IF fdOpen THEN {} ELSE {"fdUsedAfterClose"}
       IN \/ /\ ~stream.ended
             /\ stream' = [stream EXCEPT !.target = "relay"]
             /\ relayFd' = TRUE
             /\ GoTo(t, "RelayCommit")
             /\ Blame(ContextFault(t) \cup used)
             /\ UNCHANGED <<ctx, fdOpen, frame>>
          \/ /\ May("relayFails") /\ ~stream.ended
             /\ stream' = [stream EXCEPT !.target = "relay"]
             /\ Blame(ContextFault(t) \cup used \cup CloseFault)
             /\ fdOpen' = FALSE
             /\ ctx' = [ctx EXCEPT !.tcp = FALSE]
             /\ ReturnRelay(t, FALSE) /\ UNCHANGED relayFd
          \/ /\ May("relayFails") \/ stream.ended
             /\ Blame(ContextFault(t))
             /\ ReturnRelay(t, FALSE)
             /\ UNCHANGED <<ctx, stream, fdOpen, relayFd>>
    /\ UNCHANGED <<hnd, cli, terminal, task, timer, life, op>>

\* StartRelay's second section: the relay is on, or it is stopped again
\* because the stream went in the meantime; TcpFd is not cleared then.
RelayCommit(t) ==
    /\ At(t, "RelayCommit")
    /\ IF MayShutdown(ctx)
       THEN /\ ctx' = [ctx EXCEPT !.relay = TRUE, !.tcp = FALSE]
            /\ GoTo(t, "RelayReady")
            /\ Blame(ContextFault(t))
            /\ UNCHANGED <<fdOpen, relayFd, frame>>
       ELSE /\ Blame(ContextFault(t) \cup CloseFault)
            /\ fdOpen' = FALSE /\ relayFd' = FALSE
            /\ ReturnRelay(t, FALSE) /\ UNCHANGED ctx
    /\ UNCHANGED <<hnd, cli, terminal, task, timer, life, stream, op>>

\* The rest of StartRelay, after the reaper has been told of the context.
RelayReady(t) ==
    /\ At(t, "RelayReady")
    /\ Blame(ContextFault(t))
    /\ ReturnRelay(t, TRUE)
    /\ UNCHANGED <<hnd, ctx, cli, terminal, task, timer, life, stream, fdOpen,
                   relayFd, op>>

\* The relay ends, closes the socket, and the reaper deletes the context
\* (TunnelReaper's loop, TqReapTunnelContext).
Reap ==
    /\ ctx.relay /\ ctx.alive /\ relayFd
    /\ May("relayEndsEarly") \/ At("reactor", "idle")
    /\ At("abort", "idle") /\ At("quic", "idle")
    /\ Blame(CloseFault)
    /\ fdOpen' = FALSE /\ relayFd' = FALSE
    /\ ctx' = [ctx EXCEPT !.alive = FALSE]
    /\ stream' = [stream EXCEPT !.ended = TRUE]
    /\ UNCHANGED <<hnd, cli, terminal, task, timer, life, op, pc, frame>>

-----------------------------------------------------------------------------
(* The stream's events, one at a time on the QUIC thread. *)

\* Does an event still reach the context, whose target its destructor detaches?
Delivered == ctx.alive /\ stream.target = "tunnel"

\* CompleteOpen: the first outcome counts; the handle is then told.
CompleteOpen(event, ok) ==
    /\ frame' = [frame EXCEPT !["quic"].event = event]
    /\ IF ctx.openDone
       THEN GoTo("quic", "EventTail") /\ UNCHANGED ctx
       ELSE /\ ctx' = [ctx EXCEPT !.openDone = TRUE, !.openOk = ok]
            /\ GoTo("quic", "Async")

\* RECEIVE with the whole OPEN response: OnReceive, TryCompleteClientOpen.
OnReceive(ok) ==
    /\ At("quic", "idle") /\ stream.started /\ ~stream.ended
    /\ ~stream.answered /\ Delivered
    /\ stream.sent \/ May("sendCompletesLate")
    /\ stream' = [stream EXCEPT !.answered = TRUE]
    /\ CompleteOpen("Receive", ok)
    /\ UNCHANGED <<hnd, cli, terminal, task, timer, life, fdOpen, relayFd, op,
                   faults>>

\* PEER_SEND_ABORTED or PEER_RECEIVE_ABORTED before an outcome is known.
OnPeerAborted ==
    /\ May("streamEnds")
    /\ At("quic", "idle") /\ stream.started /\ ~stream.ended
    /\ Delivered /\ ~ctx.openDone
    /\ CompleteOpen("PeerAborted", FALSE)
    /\ UNCHANGED <<hnd, cli, terminal, task, timer, life, stream, fdOpen,
                   relayFd, op, faults>>

\* START_COMPLETE with a failure, the last event of a stream that never ran.
OnStartFailed ==
    /\ May("streamEnds")
    /\ At("quic", "idle") /\ stream.started /\ ~stream.ended
    /\ ~stream.answered /\ ~stream.sent /\ Delivered
    /\ stream' = [stream EXCEPT !.ended = TRUE]
    /\ CompleteOpen("StartFailed", FALSE)
    /\ UNCHANGED <<hnd, cli, terminal, task, timer, life, fdOpen, relayFd, op,
                   faults>>

\* SHUTDOWN_COMPLETE, after every send has completed.
OnShutdownComplete ==
    /\ May("streamEnds") \/ stream.asked
    /\ At("quic", "idle") /\ stream.started /\ ~stream.ended /\ stream.sent
    /\ stream' = [stream EXCEPT !.ended = TRUE]
    /\ IF Delivered THEN CompleteOpen("ShutdownComplete", FALSE)
       ELSE UNCHANGED <<ctx, frame, pc>>
    /\ UNCHANGED <<hnd, cli, terminal, task, timer, life, fdOpen, relayFd, op,
                   faults>>

\* SEND_COMPLETE of the OPEN, routed to the target it was registered with.
OnSendComplete ==
    /\ At("quic", "idle") /\ stream.started /\ ~stream.sent
    /\ stream' = [stream EXCEPT !.sent = TRUE]
    /\ IF ctx.alive
       THEN ctx' = [ctx EXCEPT !.sendDone = TRUE] /\ GoTo("quic", "Pending")
       ELSE UNCHANGED <<ctx, pc>>
    /\ UNCHANGED <<hnd, cli, terminal, task, timer, life, fdOpen, relayFd, op,
                   frame, faults>>

\* CompleteAsyncClientOpenIfNeeded holds the handle while it notifies.
CompleteAsync ==
    /\ At("quic", "Async")
    /\ Blame(ContextFault("quic"))
    /\ IF ctx.handle
       THEN /\ hnd' = Retain(hnd)
            /\ GoTo("quic", "Notify")
       ELSE GoTo("quic", "EventTail") /\ UNCHANGED hnd
    /\ UNCHANGED <<ctx, cli, terminal, task, timer, life, stream, fdOpen,
                   relayFd, op, frame>>

\* The handle's section of TqNotifyClientTunnelOpenComplete.
NotifyComplete ==
    /\ At("quic", "Notify")
    /\ IF hnd.state = "Opening"
       THEN /\ hnd' = [hnd EXCEPT !.state = IF ctx.openOk THEN "OpenSucceeded"
                                                          ELSE "OpenFailed"]
            /\ GoTo("quic", "Callback")
       ELSE GoTo("quic", "NotifyDone") /\ UNCHANGED hnd
    /\ UNCHANGED <<ctx, cli, terminal, task, timer, life, stream, fdOpen,
                   relayFd, op, frame, faults>>

\* The labels of a terminal call, and the reactor's Mutex when its caller holds
\* it there (CloseClientLocked, the early returns of CompleteClientOpen).
EndLabels == {"EndContext", "SubmitEnd", "EndRelease", "DeleteEnded", "EndUser"}
MutexHeld ==
    pc["reactor"] \in EndLabels \cup {"EndHandle"} /\ frame["reactor"].locked

\* onComplete, the closure StartClientOpen made: the completion is queued for
\* the reactor, or the handle is rejected here because the reactor is going.
OnComplete ==
    /\ At("quic", "Callback")
    /\ life = "Running" => ~MutexHeld
    /\ IF life = "Running"
       THEN /\ task' = IF ctx.openOk THEN "ok" ELSE "fail"
            /\ GoTo("quic", "NotifyDone") /\ UNCHANGED <<terminal, frame>>
       ELSE IF MarkTerminal
       THEN /\ terminal' = TRUE
            /\ frame' = [frame EXCEPT !["quic"].kind = "Rejected",
                                      !["quic"].back = "NotifyDone"]
            /\ GoTo("quic", "EndHandle") /\ UNCHANGED task
       ELSE GoTo("quic", "NotifyDone") /\ UNCHANGED <<terminal, frame, task>>
    /\ UNCHANGED <<hnd, ctx, cli, timer, life, stream, fdOpen, relayFd, op,
                   faults>>

\* The notification's reference goes.
NotifyDone ==
    /\ At("quic", "NotifyDone")
    /\ hnd' = Release(hnd)
    /\ GoTo("quic", "EventTail")
    /\ UNCHANGED <<ctx, cli, terminal, task, timer, life, stream, fdOpen,
                   relayFd, op, frame, faults>>

\* The context when the event that ends the stream has been handled.
StreamGone(c, event) ==
    [c EXCEPT !.done = TRUE, !.stream = FALSE,
              !.queued = @ /\ event = "StartFailed"]

\* The rest of OnStreamEvent after CompleteOpen.
EventTail ==
    /\ At("quic", "EventTail")
    /\ LET event == frame["quic"].event
           c == StreamGone(ctx, event)
       IN IF event \in {"StartFailed", "ShutdownComplete"}
           THEN /\ ctx' = c
                /\ Blame(ContextFault("quic"))
                /\ GoTo("quic", IF ShouldDeletePreRelay(c) THEN "DeleteEvent"
                                ELSE "idle")
           ELSE GoTo("quic", "idle") /\ UNCHANGED <<ctx, faults>>
    /\ UNCHANGED <<hnd, cli, terminal, task, timer, life, stream, fdOpen,
                   relayFd, op, frame>>

-----------------------------------------------------------------------------
(* The connection's tunnels are aborted. *)

\* TqAbortConnectionTunnels marks the registered tunnel: from here on its
\* destructor waits for the abort to return.
AbortBegin ==
    /\ May("connAborts")
    /\ At("abort", "idle") /\ ctx.alive /\ ~ctx.aborted
    /\ ctx' = [ctx EXCEPT !.aborted = TRUE]
    /\ GoTo("abort", "Abort")
    /\ UNCHANGED <<hnd, cli, terminal, task, timer, life, stream, fdOpen,
                   relayFd, op, frame, faults>>

\* AbortForConnectionShutdown.  A relay that runs is stopped by TqRelayStop: see
\* Reap.
AbortForConnectionShutdown ==
    /\ At("abort", "Abort") /\ op = "none"
    /\ ctx' = [ctx EXCEPT !.selfDelete = TRUE, !.tcp = FALSE,
                          !.queued = @ \/ (~ctx.relay /\ MayShutdown(ctx))]
    /\ Blame(IF ctx.tcp THEN CloseFault ELSE {})
    /\ fdOpen' = (fdOpen /\ ~ctx.tcp)
    /\ IF ~ctx.relay /\ MayShutdown(ctx)
       THEN op' = "abort" /\ GoTo("abort", "SubmitAbort")
       ELSE GoTo("abort", "idle") /\ UNCHANGED op
    /\ UNCHANGED <<hnd, cli, terminal, task, timer, life, stream, relayFd,
                   frame>>

-----------------------------------------------------------------------------
Reactor ==
    \/ StartClientOpen \/ SendOpenRequest \/ AbandonOpen \/ InstallHandle
    \/ CompleteWithoutHandle \/ RunCompletion \/ TimeoutClientOpen
    \/ CloseClient \/ WriteSent \/ WriteStops \/ Writable \/ RejectFailedOpen
    \/ RemoveClient \/ AcceptHandle \/ AcceptContext \/ AcceptWait
    \/ AcceptOwner \/ AcceptUser \/ AcceptReturn

Quic ==
    \/ \E ok \in BOOLEAN : OnReceive(ok)
    \/ OnPeerAborted \/ OnStartFailed \/ OnShutdownComplete \/ OnSendComplete
    \/ CompleteAsync \/ NotifyComplete \/ OnComplete \/ NotifyDone \/ EventTail

\* The functions more than one thread calls.
Shared(t) ==
    \/ EndHandle(t) \/ EndContext(t) \/ SubmitShutdown(t) \/ EndRelease(t)
    \/ EndUser(t) \/ DeleteContext(t) \/ AbortAccepted(t)
    \/ StartPendingClientRelay(t) \/ RelayCheck(t) \/ RelayRegister(t)
    \/ RelayCommit(t) \/ RelayReady(t)

Step ==
    \/ Reactor \/ Quic \/ AbortBegin \/ AbortForConnectionShutdown \/ Reap
    \/ StopBegin \/ StopFinish
    \/ \E t \in Threads : Shared(t)

Next == Step /\ UNCHANGED env

Spec == Init /\ [][Next]_vars

-----------------------------------------------------------------------------
(* Properties. *)

Live == {"Opening", "OpenSucceeded", "OpenFailed"}
StartLabels == {"RelayCheck", "RelayRegister", "RelayCommit", "RelayReady"}
AcceptLabels == StartLabels \cup
    {"AcceptContext", "Pending", "AcceptWait", "AcceptOwner", "AcceptAbort",
     "SubmitAccept", "DeleteAccepted", "AcceptUser"}
ReactorLabels == AcceptLabels \cup EndLabels \cup
    {"idle", "Send", "Abandon", "SubmitAbandon", "DeleteAbandoned", "Install",
     "Complete", "Write", "Accept", "Reject", "Remove", "EndHandle",
     "AcceptReturn"}
QuicLabels == StartLabels \cup EndLabels \cup
    {"idle", "Async", "Notify", "Callback", "NotifyDone", "EventTail",
     "EndHandle", "Pending", "SendAbort", "SubmitSend", "DeleteEvent"}
Events == {"none", "Receive", "PeerAborted", "StartFailed", "ShutdownComplete"}

\* The variables keep their types and every thread is at a label of its own
\* code.
TypeOK ==
    /\ hnd \in [state : Live \cup Ended \cup {"None"}, ctx : BOOLEAN, refs : 0..3]
    /\ DOMAIN ctx = {"alive", "tcp", "stream", "openDone", "openOk", "relay",
                     "selfDelete", "done", "queued", "pending", "sendDone",
                     "owner", "handle", "accepted", "aborted"}
    /\ \A f \in DOMAIN ctx : ctx[f] \in BOOLEAN
    /\ cli \in [in : BOOLEAN, phase : {"Handshake", "Opening",
                "WritingOpenResponse"}, handle : BOOLEAN, ok : BOOLEAN,
                unsent : BOOLEAN]
    /\ terminal \in BOOLEAN /\ task \in {"none", "ok", "fail"}
    /\ timer \in BOOLEAN /\ life \in {"Running", "Stopping", "Stopped"}
    /\ stream \in [started : BOOLEAN, answered : BOOLEAN, sent : BOOLEAN,
                   asked : BOOLEAN, ended : BOOLEAN,
                   target : {"tunnel", "relay"}]
    /\ fdOpen \in BOOLEAN /\ relayFd \in BOOLEAN
    /\ op \in Threads \cup {"none"}
    /\ DOMAIN pc = Threads
    /\ pc["reactor"] \in ReactorLabels /\ pc["quic"] \in QuicLabels
    /\ pc["abort"] \in {"idle", "Abort", "SubmitAbort"}
    /\ frame \in [Threads -> [kind : Ended \cup {"none"}, del : BOOLEAN,
                              res : BOOLEAN, event : Events, locked : BOOLEAN,
                              back : {"idle", "Write", "Remove", "NotifyDone"}]]
    /\ faults \subseteq Faults

\* The holders of the handle: its caller until a terminal call has returned,
\* the context until it lets go, a notification while it runs.
CallerHolds ==
    \/ hnd.state \in Live
    \/ pc["reactor"] \in AcceptLabels \cup EndLabels
    \/ pc["quic"] \in EndLabels
ContextHolds ==
    ctx.handle \/ \E t \in {"reactor", "quic"} : pc[t] \in {"SubmitEnd", "EndRelease"}
NotificationHolds ==
    pc["quic"] \in {"Notify", "Callback", "NotifyDone", "EndHandle"} \cup EndLabels

One(holds) == IF holds THEN 1 ELSE 0

Promised(what) == what \in env.promises

\* The reference count of the open handle is the number of its holders, in
\* every interleaving of a completion with a terminal call, so the handle is
\* freed exactly when the last of them lets go; and, where promised, no call
\* is given a handle that its terminal call has released.
HandleRefsConserved ==
    /\ hnd.refs = One(CallerHolds) + One(ContextHolds) + One(NotificationHolds)
    /\ Promised("handle") => "handleUsedAfterRelease" \notin faults

\* A relay runs only for an OPEN the server answered positively, whose handle
\* the reactor accepted after the client had been sent the whole answer; and
\* the accepting thread and the send completion never both start it: whoever
\* clears PendingClientRelay is alone in StartRelay.
RelayOnlyAccepted ==
    /\ ctx.relay => hnd.state = "Accepted" /\ ctx.openOk /\ ~cli.unsent
    /\ ~(\A t \in {"reactor", "quic"} : pc[t] \in StartLabels)

\* t cannot go on before u does: it wants StreamOpLock, the reactor's Mutex, or
\* its destructor waits for a callback or an abort.
WaitsFor(t, u) ==
    \/ /\ pc[t] \in {"Send", "Abandon", "EndContext", "AcceptAbort", "SendAbort",
                     "Abort"}
       /\ op = u
    \/ t = "quic" /\ At(t, "Callback") /\ life = "Running"
       /\ u = "reactor" /\ MutexHeld
    \/ pc[t] \in DOMAIN AfterDelete /\ u # "reactor" /\ u # t /\ pc[u] # "idle"

\* The threads never wait for each other: the locks, the destructor's wait for
\* the running callback and its wait for the running abort form no cycle.
NoDeadlock ==
    Promised("progress") => ~\E t, u \in Threads :
        /\ WaitsFor(t, u)
        /\ \/ WaitsFor(u, t)
           \/ \E v \in Threads : WaitsFor(u, v) /\ WaitsFor(v, t)

\* A completion that was overtaken by a cancel, a timeout or a rejection is
\* not applied: an entry turns into a successful one only while its handle is
\* waiting for the accept.
StaleCompletionIgnored ==
    [][cli'.ok /\ ~cli.ok => cli.phase = "Opening" /\ hnd.state = "OpenSucceeded"]_vars

\* The socket is closed at most once between the reactor, the context and the
\* relay, and never used after that.
FdClosedOnce ==
    Promised("fd") => faults \cap {"fdClosedTwice", "fdUsedAfterClose"} = {}

\* No callback of the stream runs on a deleted context: the destructor waits
\* for one that is running, and none deletes the context under its own feet
\* when it rejects the handle from within the notification.  Where promised,
\* the context is deleted once, although the terminal call, the stream's last
\* event and the reaper may each be the one to do it, and no call of the
\* reactor's or the aborting thread uses it afterwards.
ContextSafe ==
    /\ "callbackAfterDelete" \notin faults
    /\ Promised("context") =>
         /\ faults \cap {"contextDeletedTwice", "contextUsedAfterDelete"} = {}
         /\ ~(\A t \in {"reactor", "quic"} : pc[t] \in DOMAIN AfterDelete)

\* No open socket is left behind: when the threads are out of the tunnel, the
\* entry is gone and no handle waits for a terminal call, the socket is closed
\* unless a relay has it or will get it with the OPEN's send completion.
FdReleased ==
    /\ Promised("context")
    /\ \A t \in Threads : pc[t] = "idle"
    /\ hnd.state \notin Live /\ ~cli.in /\ ~relayFd
    /\ ~WaitsForOpenSendComplete(ctx)
    => ~fdOpen

-----------------------------------------------------------------------------
(* Liveness.  A thread in a call goes on; the reactor runs queued tasks and  *)
(* due timers; a stream that was asked to abort completes; a client's socket *)
(* takes the few bytes of an answer if it is tried again and again.          *)
ReactorRuns ==
    Reactor /\ (pc["reactor"] # "idle" \/ task # task' \/ timer # timer')

Fairness ==
    /\ WF_state(ReactorRuns)
    /\ SF_state(WriteSent) /\ WF_state(Writable)
    /\ WF_state(Quic /\ (pc["quic"] # "idle" \/ stream.asked))
    /\ \A t \in Threads : WF_state(Shared(t))
    /\ WF_state(AbortForConnectionShutdown) /\ WF_state(StopFinish)

FairSpec == Spec /\ Fairness

\* Every OPEN ends: a handle that was created is accepted, rejected or
\* cancelled, because the timer, the completion or the stop ends it.
HandleSettles == May("openTimesOut") /\ hnd.state \in Live ~> hnd.state \in Ended

=============================================================================

------------------------ MODULE ServerIncomingStream ------------------------
(***************************************************************************)
(* What the contexts behind a stream do in its callbacks.  On the server   *)
(* the first one is TqServerIncomingStreamDispatcher (tcp_tunnel.cpp): it  *)
(* reads the command of an accepted stream and hands the stream to a       *)
(* tunnel context or to a speed-test control stream (speed_test.cpp), or   *)
(* answers and closes it.  On the client it is the tunnel context.  A      *)
(* tunnel context's own protocol is in ClientTunnelOpen; here it may       *)
(* request any shutdown, and deletes itself when its stream has ended or   *)
(* could not be started.                                                   *)
(***************************************************************************)
EXTENDS StreamLifetime

VARIABLES
    body,        \* what the callback in progress has still to do
    dispatcher,  \* Close... flags and Stream_ of the dispatcher
    kind,        \* what the second context is
    speed,       \* the control stream, and its session at the controller
    OnComplete   \* who is to call the completion function, and the calls made

contextVars == <<body, dispatcher, kind, speed, OnComplete>>
vars == <<lifeVars, contextVars>>

Init ==
    /\ LifeInit
    /\ body = "none"
    /\ dispatcher = [closing |-> FALSE, Stream |-> TRUE]
    /\ kind = "none"
    /\ speed = [SessionStarted |-> FALSE, SessionActive |-> FALSE,
                FinalFrameQueued |-> FALSE, session |-> "none"]
    /\ OnComplete = [with |-> "first", calls |-> 0]

\* The stream is over for its owner.
Over == Phase \in {"StartFailed", "TerminalPublished"}

\* The destructor of a context calls the completion function it was given.
Completed(c) == IF OnComplete.with = c
                THEN [with |-> "none", calls |-> OnComplete.calls + 1]
                ELSE OnComplete

\* FinishSession of a session that is still there closes its listener.
CleanupSession == IF speed.SessionActive
                  THEN [speed EXCEPT !.SessionActive = FALSE, !.session = "closed"]
                  ELSE speed

InBody(c, event) == Inside(Msquic, c) /\ callback[Msquic].event = event /\ body = "none"

Do(next) == body' = next

\* Mutant of DeleteThis: the control stream leaves its session behind.
DeleteThisOnly(c) ==
    /\ DeleteInside(Msquic, c)
    /\ OnComplete' = Completed(c)
    /\ UNCHANGED speed

\* A context deletes itself in its callback.
DeleteThis(c) ==
    /\ DeleteInside(Msquic, c)
    /\ OnComplete' = Completed(c)
    /\ speed' = IF c = "second" /\ kind = "speed" THEN CleanupSession ELSE speed

-----------------------------------------------------------------------------
(* TqServerIncomingStreamDispatcher.                                        *)

DispatcherReceives(next) ==
    /\ env.role = "server" /\ InBody("first", "RECEIVE")
    /\ dispatcher.closing => next = "done"
    /\ Do(next)

\* The second context takes the route, then the dispatcher deletes itself.
HandOff(what, next) ==
    /\ DispatcherReceives(next) /\ ~dispatcher.closing /\ Usable
    /\ kind' = what
    /\ Target' = "second"
    /\ RouteGeneration' = RouteGeneration + 1
    /\ contexts' = [DeletedInside(Msquic, "first") EXCEPT !["second"] =
                      [state |-> "live", Accepting |-> TRUE, by |-> "none"]]
    /\ holders' = (holders \ {"first"}) \cup {"second"}
    /\ OnComplete' = IF OnComplete.with = "first"
                     THEN [OnComplete EXCEPT !.with = "second"] ELSE OnComplete
    /\ dispatcher' = [dispatcher EXCEPT !.Stream = FALSE]
    /\ UNCHANGED <<env, Phase, TerminalRetained, terminal, relay, shut, calls,
                   sends, completions, callback, quic, speed>>

HandOffToTunnelContext == HandOff("tunnel", "done")

\* Prime processes the bytes that came with the command.
HandOffToSpeedControlStream == HandOff("speed", "speed")

\* TryDispatch: not enough bytes, a malformed or unknown command, a hello, or a
\* context that could not be allocated.  The completion function is already
\* moved away when the speed-test context cannot be made.
TryDispatch ==
    \/ /\ DispatcherReceives("done")
       /\ UNCHANGED <<lifeVars, dispatcher, kind, speed, OnComplete>>
    \/ /\ DispatcherReceives("abort")
       /\ UNCHANGED <<lifeVars, dispatcher, kind, speed, OnComplete>>
    \/ /\ DispatcherReceives("error")
       /\ UNCHANGED <<lifeVars, dispatcher, kind, speed, OnComplete>>
    \/ /\ DispatcherReceives("finish")
       /\ dispatcher' = [dispatcher EXCEPT !.closing = TRUE]
       /\ UNCHANGED <<lifeVars, kind, speed, OnComplete>>

SpeedContextNotMade ==
    /\ DispatcherReceives("abort") /\ OnComplete.with = "first"
    /\ OnComplete' = [OnComplete EXCEPT !.with = "lost"]
    /\ UNCHANGED <<lifeVars, dispatcher, kind, speed>>

DispatcherEnds ==
    /\ env.role = "server" /\ InBody("first", "SHUTDOWN_COMPLETE")
    /\ DeleteThis("first")
    /\ Do("done")
    /\ dispatcher' = [dispatcher EXCEPT !.Stream = FALSE]
    /\ UNCHANGED kind

DispatcherIgnores ==
    /\ env.role = "server" /\ Inside(Msquic, "first") /\ body = "none"
    /\ callback[Msquic].event \notin {"RECEIVE", "SHUTDOWN_COMPLETE"}
    /\ Do("done")
    /\ UNCHANGED <<lifeVars, dispatcher, kind, speed, OnComplete>>

-----------------------------------------------------------------------------
(* TqServerSpeedControlStreamContext.                                       *)

SpeedIn(event) == kind = "speed" /\ InBody("second", event)

SpeedReceives ==
    /\ SpeedIn("RECEIVE")
    /\ Do(IF speed.FinalFrameQueued THEN "done" ELSE "speed")
    /\ UNCHANGED <<lifeVars, dispatcher, kind, speed, OnComplete>>

SpeedPeerAborts ==
    /\ SpeedIn("PEER_SEND_ABORTED")
    /\ speed' = CleanupSession
    /\ Do("done")
    /\ UNCHANGED <<lifeVars, dispatcher, kind, OnComplete>>

SpeedEnds ==
    /\ SpeedIn("SHUTDOWN_COMPLETE")
    /\ DeleteThis("second")
    /\ Do("done")
    /\ UNCHANGED <<dispatcher, kind>>

SpeedIgnores ==
    /\ kind = "speed" /\ Inside(Msquic, "second") /\ body = "none"
    /\ callback[Msquic].event \notin {"RECEIVE", "PEER_SEND_ABORTED", "SHUTDOWN_COMPLETE"}
    /\ Do("done")
    /\ UNCHANGED <<lifeVars, dispatcher, kind, speed, OnComplete>>

\* ProcessBuffered, one round: too few bytes, a bad frame, or the frame that is
\* due.  StartSession may fail; FinishSession fails if the session is gone.
ProcessBuffered ==
    /\ body = "speed"
    /\ \/ Do("done") /\ UNCHANGED speed
       \/ Do("speedError") /\ UNCHANGED speed
       \/ /\ ~speed.SessionStarted
          /\ speed' = [speed EXCEPT !.SessionStarted = TRUE, !.SessionActive = TRUE,
                                    !.session = "open"]
          /\ Do("ready")
       \/ /\ speed.SessionStarted
          /\ speed' = [speed EXCEPT !.SessionActive = FALSE, !.session = "closed",
                                    !.FinalFrameQueued = speed.session = "open"]
          /\ Do(IF speed.session = "open" THEN "result" ELSE "speedError")
    /\ UNCHANGED <<lifeVars, dispatcher, kind, OnComplete>>

\* The controller stops all its sessions.
StopAll ==
    /\ speed.session = "open"
    /\ speed' = [speed EXCEPT !.session = "closed"]
    /\ UNCHANGED <<lifeVars, body, dispatcher, kind, OnComplete>>

-----------------------------------------------------------------------------
(* What a callback does through the owner of the stream.                    *)

Frames == {"error", "ready", "result", "speedError"}
Sent == [error |-> "errorSent", ready |-> "readySent", result |-> "resultSent",
         speedError |-> "speedErrorSent"]

\* TqSendDispatcherBytes and SendFrame of the control stream.
SendFrame ==
    /\ body \in Frames
    /\ \E k \in Keys : BeginSend(k, Msquic)
    /\ Do(Sent[body])
    /\ UNCHANGED <<dispatcher, kind, speed, OnComplete>>

\* A frame that could not be sent ends in an abort; SendErrorAndFinish and
\* QueueStructuredError take note of the one that was sent.
AfterFrame(frame, ok) ==
    /\ Do(IF ~ok THEN "abort" ELSE IF frame = "ready" THEN "speed" ELSE "done")
    /\ dispatcher' = IF frame = "error" /\ ok
                     THEN [dispatcher EXCEPT !.closing = TRUE] ELSE dispatcher
    /\ speed' = IF frame = "error" THEN speed
                ELSE IF ~ok THEN CleanupSession
                ELSE IF frame = "speedError" THEN [speed EXCEPT !.FinalFrameQueued = TRUE]
                ELSE speed
    /\ UNCHANGED <<kind, OnComplete>>

FrameNotMade ==
    /\ body \in Frames
    /\ AfterFrame(body, FALSE)
    /\ UNCHANGED lifeVars

FrameReturns ==
    \E k \in Keys, frame \in Frames :
      /\ body = Sent[frame]
      /\ sends[k].stage = "done" /\ sends[k].by = Msquic
      /\ sends' = [sends EXCEPT ![k].by = "none"]
      /\ AfterFrame(frame, sends[k].ok)
      /\ UNCHANGED <<env, Phase, Target, RouteGeneration, TerminalRetained, terminal,
                     relay, shut, calls, completions, contexts, holders, callback,
                     quic>>

\* AbortOrClose, AbortAndCleanupSession; and the graceful end after a hello.
CallbackRequests ==
    /\ \/ body = "abort" /\ RequestShutdown(Msquic, "AbortBoth")
       \/ body = "finish" /\ RequestShutdown(Msquic, "GracefulSend")
    /\ Do("done")
    /\ UNCHANGED <<dispatcher, kind, speed, OnComplete>>

CallbackReturns ==
    /\ body = "done"
    /\ ReturnFromCallback
    /\ Do("none")
    /\ UNCHANGED <<dispatcher, kind, speed, OnComplete>>

-----------------------------------------------------------------------------
(* A tunnel context, and the threads that use a stream.                     *)

IsTunnel(c) == (c = "first" /\ env.role = "client") \/ (c = "second" /\ kind = "tunnel")

TunnelCallback(c) ==
    /\ IsTunnel(c) /\ Inside(Msquic, c) /\ body = "none"
    /\ \/ /\ Do("done")
          /\ UNCHANGED <<lifeVars, OnComplete, speed>>
       \/ /\ Do("abort")
          /\ UNCHANGED <<lifeVars, OnComplete, speed>>
       \/ /\ Over /\ callback[Msquic].event \in {"START_COMPLETE", "SHUTDOWN_COMPLETE"}
          /\ DeleteThis(c)
          /\ Do("done")
    /\ UNCHANGED <<dispatcher, kind>>

\* The tunnel is deleted by another thread (its reaper, or who opened it).
TunnelDetaches(c) == IsTunnel(c) /\ Detach(c) /\ UNCHANGED contextVars

TunnelDeleted(c) ==
    /\ IsTunnel(c) /\ Drained(c)
    /\ OnComplete' = Completed(c)
    /\ UNCHANGED <<body, dispatcher, kind, speed>>

\* A tunnel's sends are made one at a time, under its StreamOpLock.
TunnelSends(k) ==
    /\ \E c \in Contexts : IsTunnel(c) /\ Live(c)
    /\ \A j \in Keys : sends[j].stage \in {"idle", "done"}
    /\ BeginSend(k, "thread")

Keep(action) == action /\ UNCHANGED contextVars

Factory == \/ Keep(OpenOutgoing) \/ Keep(AdoptAccepted)
           \/ /\ FactoryFails
              /\ OnComplete' = Completed("first")
              /\ UNCHANGED <<body, dispatcher, kind, speed>>

DispatcherStep == \/ TryDispatch \/ SpeedContextNotMade \/ HandOffToTunnelContext
                  \/ HandOffToSpeedControlStream \/ DispatcherEnds \/ DispatcherIgnores

SpeedStep == SpeedReceives \/ SpeedPeerAborts \/ SpeedEnds \/ SpeedIgnores
             \/ ProcessBuffered

BodyStep == \/ DispatcherStep \/ SpeedStep
            \/ \E c \in Contexts : TunnelCallback(c)
            \/ SendFrame \/ FrameNotMade \/ FrameReturns
            \/ CallbackRequests \/ CallbackReturns

TunnelStep == \/ \E c \in Contexts : TunnelDetaches(c)
              \/ \E k \in Keys : Keep(TunnelSends(k))
              \/ \E t \in env.threads, intent \in env.intents :
                    holders # {} /\ Keep(RequestShutdown(t, intent))
              \/ (\E c \in Contexts : IsTunnel(c)) /\ Keep(ReadGeneration)
              \/ Keep(DispatchBufferedEvent)

\* What has begun goes on.
Continue == \/ \E k \in Keys : Keep(SendStep(k))
            \/ \E t \in Callers : Keep(CallStep(t))
            \/ \E d \in Dispatchers : Keep(DispatchStep(d))
            \/ Keep(CancelRequests)
            \/ BodyStep
            \/ Keep(PublishTarget) \/ Keep(CallTerminalShutdown)
            \/ \E c \in Contexts : TunnelDeleted(c)

Next == \/ Factory
        \/ Keep(QuicStep)
        \/ TunnelStep
        \/ Continue
        \/ Keep(BeginTerminalShutdown)
        \/ Keep(RelayRetires)
        \/ StopAll

Spec == Init /\ [][Next]_vars

\* The threads finish what they began, MsQuic completes the sends it took and
\* the streams it was told to abort, and a tunnel and its relay let go of a stream
\* that is over.  Nothing makes a peer or a connection end a stream.
FairSpec == /\ Spec
            /\ WF_vars(Continue)
            /\ WF_vars(Keep(\E k \in Keys : SendComplete(k)))
            /\ WF_vars(Keep(EmergencyAcceptedCallback))
            /\ WF_vars(Over /\ \E c \in Contexts : TunnelDetaches(c))
            /\ WF_vars(Keep(RelayRetires))

-----------------------------------------------------------------------------
(* Properties.                                                              *)

Strengths == [Directions -> 0..2]
CallType ==
    [stage : {"idle", "downcall", "settle"}, request : Strengths,
     owns : SUBSET Directions, ok : BOOLEAN]
SendStages == {"idle", "begun", "leased", "captured", "registered", "accepted",
               "refused", "done"}
SendType ==
    [stage : SendStages, start : BOOLEAN, by : {"none", "thread", Msquic}, ok : BOOLEAN]
CompletionType ==
    [state : {"none", "registered", "claimed", "cancelled", "unknown"},
     route : Targets, delivered : Targets, cleanups : Nat]
ContextType ==
    [state : {"none", "live", "detaching", "deleted"}, Accepting : BOOLEAN,
     by : Dispatchers \cup {"none"}]
EventKinds ==
    {"none", "done", "START_COMPLETE", "SEND_COMPLETE", "RECEIVE", "PEER_SEND_ABORTED",
     "SEND_SHUTDOWN_COMPLETE", "CANCEL_ON_LOSS", "SHUTDOWN_COMPLETE"}
CallbackType ==
    [stage : {"idle", "capture", "cancel", "routed", "inside", "leaving"},
     event : EventKinds, target : Targets, key : Keys \cup {"none"}]
QuicType ==
    [handle : {"none", "wrapped", "emergency", "closed"},
     start : {"none", "pending", "ok", "failed"}, pending : SUBSET Keys,
     send : 0..2, receive : 0..2, sendDone : BOOLEAN, cancelled : BOOLEAN,
     receives : Nat, failures : Nat, complete : BOOLEAN]
SpeedType ==
    [SessionStarted : BOOLEAN, SessionActive : BOOLEAN, FinalFrameQueued : BOOLEAN,
     session : {"none", "open", "closed"}]

\* The values the owner, its calls, sends and callbacks, the stream and the
\* contexts can have.
OwnerTypes ==
    /\ env \in Scenarios /\ Phase \in Phases /\ Target \in Targets
    /\ RouteGeneration \in Nat /\ TerminalRetained \in BOOLEAN
    /\ holders \subseteq Contexts \cup {"relay"}
    /\ relay \in [stage : {"none", "reading", "routed", "gone"}, expected : Nat]
    /\ terminal \in [Phase : {"Active", "ShutdownReserved", "ShutdownSubmitted",
                              "TerminalObserved"}, calling : BOOLEAN]
TypeOK ==
    /\ OwnerTypes
    /\ shut \in [desired : Strengths, reserved : Strengths, submitted : Strengths]
    /\ calls \in [Callers -> CallType]
    /\ sends \in [Keys -> SendType]
    /\ completions \in [Keys -> CompletionType]
    /\ contexts \in [Contexts -> ContextType]
    /\ callback \in [Dispatchers -> CallbackType]
    /\ quic \in QuicType
    /\ kind \in {"none", "tunnel", "speed"}
    /\ dispatcher \in [closing : BOOLEAN, Stream : BOOLEAN]
    /\ speed \in SpeedType
    /\ OnComplete \in [with : Contexts \cup {"none", "lost"}, calls : Nat]

\* The retention and the leases keep a stream open: ~TqStreamLifetime, which
\* closes the handle and with it the stream, only runs when the start failed or
\* SHUTDOWN_COMPLETE was published, and no send is still to be completed.
ClosedWhenOver ==
    quic.handle = "wrapped" /\ ~Alive => Over /\ quic.pending = {}

\* Every send MsQuic took finds its registration when it completes, is cleaned
\* up at most once whether it completes or is cancelled, and is reported to the
\* object that was routed when it was registered, whatever was published since.
SendsSettleOnce ==
    \A k \in Keys :
      /\ completions[k].state # "unknown"
      /\ completions[k].cleanups <= 1
      /\ completions[k].state = "cancelled" => k \notin quic.pending
      /\ completions[k].delivered \in {"none", completions[k].route}

\* Detach: once a context is deleted, no thread is inside its callback except
\* the one that deleted it there, even when the event was routed before.
DeletedContextsAreLeft ==
    \A c \in Contexts, d \in Dispatchers :
      contexts[c].state = "deleted" /\ Inside(d, c) => contexts[c].by = d

\* RequestShutdown: between calls no reservation is left behind, which would
\* silence every later request, and, while the stream is not over and unless
\* MsQuic refused a downcall, all that was wished was submitted, in whatever
\* order the callers were served.
NoShutdownLost ==
    (\A t \in Callers : calls[t].stage = "idle") =>
      /\ shut.reserved = Nothing
      /\ quic.failures = 0 /\ ~Over =>
           \A d \in Directions : shut.submitted[d] >= shut.desired[d]

\* When the contexts of a stream are deleted its completion function was called,
\* exactly once (unless it was lost with a control stream that could not be
\* allocated), and the speed-test session it started is closed.
ContextsSettle ==
    /\ OnComplete.calls <= 1
    /\ (\A c \in Contexts : contexts[c].state \in {"none", "deleted"}) =>
         /\ OnComplete.calls = 1 \/ OnComplete.with = "lost"
         /\ speed.session # "open"

\* A stream that failed to start or has shut down is eventually closed: every
\* reference (retention, sends, leases, contexts, relay) is given back.
StreamClosed == Over ~> ~Alive
=============================================================================

--------------------------- MODULE StreamLifetime ---------------------------
(***************************************************************************)
(* TqStreamLifetime (tunnel/stream_lifetime.cpp): the owner of one QUIC    *)
(* stream.  It decides who keeps the stream's handle open, which object    *)
(* the stream's callbacks are routed to, what becomes of every send that   *)
(* MsQuic was given, and which of the concurrent wishes to shut the stream *)
(* down reach MsQuic.                                                      *)
(*                                                                         *)
(* Every critical section of the code is one step; what the code does      *)
(* outside its locks (a downcall into MsQuic, a callback of the routed     *)
(* object) is a step of its own.  The owner is a shared_ptr: Alive lists   *)
(* what holds it, and the handle is closed in the state where nothing      *)
(* does.  BeginTerminalShutdown's retries, watchdog and escalation are in  *)
(* TerminalConvergence; here it is what it does to the routing.            *)
(***************************************************************************)
EXTENDS Naturals, FiniteSets, FiniteSetsExt

CONSTANTS
    Keys,            \* sends, one per call of RegisterSendCompletion
    Threads,         \* threads that call RequestShutdown
    Scenarios        \* what a behaviour may contain: see env

VARIABLES
    env,             \* the scenario: the role ("client": the stream is opened,
                     \* "server": it is accepted), the keys, threads, intents and
                     \* events used, whether a relay takes over, and the bounds on
                     \* RECEIVE events and on downcalls that MsQuic refuses
    Phase, Target, RouteGeneration, TerminalRetained,
    terminal,        \* TerminalPhase, and BeginTerminalShutdown in progress
    relay,           \* the relay that takes the route over
    shut,            \* Desired..., Reserved... and Submitted... of the shutdown
    calls,           \* calls of RequestShutdown in progress
    sends,           \* the sends, each with its caller's progress
    completions,     \* g_sendCompletions, and what became of its entries
    contexts,        \* the objects behind a TqStreamCallbackTarget
    holders,         \* those who keep a StreamOwner pointer
    callback,        \* stream events being dispatched
    quic             \* the stream as MsQuic sees it

lifeVars == <<env, Phase, Target, RouteGeneration, TerminalRetained,
              terminal, relay, shut, calls, sends, completions, contexts,
              holders, callback, quic>>

Phases == {"None", "CreatedNotStarted", "Starting", "Started", "StartFailed",
           "TerminalPublished"}

\* "first" is the context the factory was given; on the server it hands the
\* stream to a second one.
Contexts == {"first", "second"}
Targets == Contexts \cup {"relay", "sink", "none"}

Msquic == "msquic"                       \* the thread of the stream's callbacks
Dispatchers == {Msquic, "buffered"}
Callers == Threads \cup {Msquic}

Directions == {"send", "receive", "immediate"}
Nothing == [d \in Directions |-> 0]

\* ShutdownIntent: how strongly each direction is to be shut down.
\* 0: open, 1: graceful (send) or abort (receive), 2: abort (send).
Intents == [GracefulSend |-> [Nothing EXCEPT !.send = 1],
            AbortSend |-> [Nothing EXCEPT !.send = 2],
            AbortReceive |-> [Nothing EXCEPT !.receive = 1],
            AbortBoth |-> [send |-> 2, receive |-> 1, immediate |-> 0],
            AbortBothImmediate |-> [send |-> 2, receive |-> 1, immediate |-> 1]]

\* A scenario lets known threads ask for known shutdowns; "none" is not a send.
ASSUME LifetimeAssumption ==
    /\ "none" \notin Keys
    /\ \A s \in Scenarios : /\ s.threads \subseteq Threads
                            /\ s.intents \subseteq DOMAIN Intents
                            /\ s.failures \in Nat

NoCall == [stage |-> "idle", request |-> Nothing, owns |-> {}, ok |-> TRUE]
NoCallback == [stage |-> "idle", event |-> "none", target |-> "none",
               key |-> "none"]

-----------------------------------------------------------------------------
(* Ownership.                                                              *)

\* A lease lives on the stack of a send, of a shutdown or of a dispatch.
SendLease(k) == sends[k].stage \in {"leased", "captured", "registered", "accepted",
                                    "refused"}

CallLease(t) == calls[t].stage # "idle"

DispatchLease(d) == callback[d].stage # "idle"

Registered(k) == completions[k].state = "registered"

\* Something holds the owner; when nothing does ~TqStreamLifetime deletes the
\* wrapper, which closes the handle.
Alive == \/ TerminalRetained
         \/ holders # {}
         \/ \E k \in Keys : SendLease(k) \/ Registered(k)
         \/ \E t \in Callers : CallLease(t)
         \/ \E d \in Dispatchers : DispatchLease(d)
         \/ terminal.calling

Usable == Phase \in {"Starting", "Started"}

Live(c) == contexts[c].state = "live"

LifeInit ==
    /\ env \in Scenarios
    /\ Phase = "None"
    /\ Target = "none"
    /\ RouteGeneration = 1
    /\ TerminalRetained = FALSE
    /\ terminal = [Phase |-> "Active", calling |-> FALSE]
    /\ relay = [stage |-> "none", expected |-> 0]
    /\ shut = [desired |-> Nothing, reserved |-> Nothing, submitted |-> Nothing]
    /\ calls = [t \in Callers |-> NoCall]
    /\ sends = [k \in Keys |-> [stage |-> "idle", start |-> FALSE, by |-> "none",
                                ok |-> FALSE]]
    /\ completions = [k \in Keys |-> [state |-> "none", route |-> "none",
                                      delivered |-> "none", cleanups |-> 0]]
    /\ contexts = [c \in Contexts |->
                     [state |-> IF c = "first" THEN "live" ELSE "none",
                      Accepting |-> c = "first", by |-> "none"]]
    /\ holders = {}
    /\ callback = [d \in Dispatchers |-> NoCallback]
    /\ quic = [handle |-> "none", start |-> "none", pending |-> {}, send |-> 0,
               receive |-> 0, sendDone |-> FALSE, cancelled |-> FALSE,
               receives |-> 0, failures |-> 0, complete |-> FALSE]

-----------------------------------------------------------------------------
(* The factories.                                                          *)

\* A context is deleted by a thread that is not inside its callback.
Delete(c) == contexts' = [contexts EXCEPT ![c] = [@ EXCEPT !.state = "deleted",
                                                  !.Accepting = FALSE]]

\* OpenOutgoing, and its caller storing the owner in the context.
OpenOutgoing ==
    /\ env.role = "client" /\ Phase = "None" /\ Live("first")
    /\ Phase' = "CreatedNotStarted"
    /\ TerminalRetained' = TRUE
    /\ Target' = "first"
    /\ holders' = {"first"}
    /\ quic' = [quic EXCEPT !.handle = "wrapped"]
    /\ UNCHANGED <<env, RouteGeneration, terminal, relay, shut, calls,
                   sends, completions, contexts, callback>>

\* Mutant of AdoptAccepted: the stream is not retained.
AdoptAcceptedUnretained ==
    /\ env.role = "server" /\ Phase = "None" /\ Live("first")
    /\ Phase' = "Started"
    /\ Target' = "first"
    /\ holders' = {"first"}
    /\ quic' = [quic EXCEPT !.handle = "wrapped", !.start = "ok"]
    /\ UNCHANGED <<env, RouteGeneration, TerminalRetained, terminal, relay, shut,
                   calls, sends, completions, contexts, callback>>

\* AdoptAccepted: the stream is already started, and is retained before its
\* callback is installed.
AdoptAccepted ==
    /\ env.role = "server" /\ Phase = "None" /\ Live("first")
    /\ Phase' = "Started"
    /\ TerminalRetained' = TRUE
    /\ Target' = "first"
    /\ holders' = {"first"}
    /\ quic' = [quic EXCEPT !.handle = "wrapped", !.start = "ok"]
    /\ UNCHANGED <<env, RouteGeneration, terminal, relay, shut, calls,
                   sends, completions, contexts, callback>>

\* The owner, its ledger or the wrapper could not be made.  The caller deletes
\* its context; an accepted stream is handed to EmergencyAcceptedCallback.
FactoryFails ==
    /\ Phase = "None" /\ Live("first")
    /\ Delete("first")
    /\ quic' = [quic EXCEPT !.handle = IF env.role = "server" THEN "emergency" ELSE "none"]
    /\ UNCHANGED <<env, Phase, Target, RouteGeneration, TerminalRetained,
                   terminal, relay, shut, calls, sends, completions, holders,
                   callback>>

\* RejectAccepted aborted the stream: its SHUTDOWN_COMPLETE closes the handle.
EmergencyAcceptedCallback ==
    /\ quic.handle = "emergency"
    /\ quic' = [quic EXCEPT !.handle = "closed"]
    /\ UNCHANGED <<env, Phase, Target, RouteGeneration, TerminalRetained,
                   terminal, relay, shut, calls, sends, completions,
                   contexts, holders, callback>>

-----------------------------------------------------------------------------
(* Sends: TqTunnelContext::TrySend, TqSendDispatcherBytes, SendFrame.       *)

SendStage(k, stage) == sends' = [sends EXCEPT ![k].stage = stage]

\* Mutant of PublishStartFailureAndTakeTarget: the retention is not released.
PublishStartFailureRetained ==
    IF Phase = "Starting"
    THEN /\ Phase' = "StartFailed"
         /\ Target' = "none"
         /\ UNCHANGED TerminalRetained
    ELSE UNCHANGED <<Phase, Target, TerminalRetained>>

\* The owner takes back what was routed and the retention, once.
PublishStartFailureAndTakeTarget ==
    IF Phase = "Starting"
    THEN /\ Phase' = "StartFailed"
         /\ Target' = "none"
         /\ TerminalRetained' = FALSE
    ELSE UNCHANGED <<Phase, Target, TerminalRetained>>

\* A send begins; the first one of an opened stream carries QUIC_SEND_FLAG_START
\* and so calls BeginStart.  The sender runs a method of a holder, on a thread
\* of its own ("thread") or inside a callback of the stream (Msquic).
BeginSend(k, by) ==
    /\ k \in env.keys /\ holders # {} /\ sends[k].stage = "idle"
    /\ sends' = [sends EXCEPT ![k] = [stage |-> "begun", by |-> by, ok |-> FALSE,
                                      start |-> Phase = "CreatedNotStarted"]]
    /\ IF Phase = "CreatedNotStarted"
       THEN Phase' = "Starting" /\ TerminalRetained' = TRUE
       ELSE UNCHANGED <<Phase, TerminalRetained>>
    /\ UNCHANGED <<env, Target, RouteGeneration, terminal, relay, shut,
                   calls, completions, contexts, holders, callback, quic>>

TryAcquireApi(k) ==
    /\ sends[k].stage = "begun"
    /\ SendStage(k, IF Usable THEN "leased" ELSE "done")
    /\ UNCHANGED <<env, Phase, Target, RouteGeneration, TerminalRetained,
                   terminal, relay, shut, calls, completions, contexts,
                   holders, callback, quic>>

\* RegisterSendCompletion, first critical section: the route is captured; or the
\* owner has no route left, or there is no memory for the key.
CaptureRoute(k) ==
    /\ sends[k].stage = "leased"
    /\ \/ /\ Usable /\ Target # "none"
          /\ SendStage(k, "captured")
          /\ completions' = [completions EXCEPT ![k].route = Target]
       \/ /\ SendStage(k, "done")
          /\ UNCHANGED completions
    /\ UNCHANGED <<env, Phase, Target, RouteGeneration, TerminalRetained,
                   terminal, relay, shut, calls, contexts, holders, callback,
                   quic>>

\* RegisterSendCompletion, second critical section.
RegisterSendCompletion(k) ==
    /\ sends[k].stage = "captured"
    /\ SendStage(k, "registered")
    /\ completions' = [completions EXCEPT ![k].state = "registered"]
    /\ UNCHANGED <<env, Phase, Target, RouteGeneration, TerminalRetained,
                   terminal, relay, shut, calls, contexts, holders, callback,
                   quic>>

\* MsQuic takes a send while the send direction is open.
SendsAccepted == ~quic.complete /\ ~quic.sendDone /\ quic.send = 0

Send(k) ==
    /\ sends[k].stage = "registered"
    /\ \/ /\ SendsAccepted
          /\ SendStage(k, "accepted")
          /\ quic' = [quic EXCEPT !.pending = @ \cup {k},
                                  !.start = IF sends[k].start THEN "pending" ELSE @]
       \/ /\ SendStage(k, "refused")
          /\ UNCHANGED quic
    /\ UNCHANGED <<env, Phase, Target, RouteGeneration, TerminalRetained,
                   terminal, relay, shut, calls, completions, contexts,
                   holders, callback>>

\* The call returns; a reservation, if there is one, is dismissed.
SendReturns(k) ==
    /\ sends[k].stage = "accepted"
    /\ sends' = [sends EXCEPT ![k] = [@ EXCEPT !.stage = "done", !.ok = TRUE]]
    /\ UNCHANGED <<env, Phase, Target, RouteGeneration, TerminalRetained,
                   terminal, relay, shut, calls, completions, contexts,
                   holders, callback, quic>>

\* CancelSendCompletion, explicitly or by an armed reservation: the entry is
\* taken out and its cleanup runs.
Cancelled(k) ==
    IF Registered(k)
    THEN [completions EXCEPT ![k].state = "cancelled", ![k].cleanups = @ + 1]
    ELSE completions

\* A refused send is cancelled; if it was to start the stream, the start failed.
CancelSendCompletion(k) ==
    /\ sends[k].stage = "refused"
    /\ SendStage(k, "done")
    /\ completions' = Cancelled(k)
    /\ IF sends[k].start
       THEN PublishStartFailureAndTakeTarget
       ELSE UNCHANGED <<Phase, Target, TerminalRetained>>
    /\ UNCHANGED <<env, RouteGeneration, terminal, relay, shut, calls,
                   contexts, holders, callback, quic>>

SendStep(k) == \/ TryAcquireApi(k) \/ CaptureRoute(k) \/ RegisterSendCompletion(k)
               \/ Send(k) \/ SendReturns(k) \/ CancelSendCompletion(k)

-----------------------------------------------------------------------------
(* RequestShutdown.                                                         *)

Stronger(f, g) == [d \in Directions |-> Max({f[d], g[d]})]

\* The directions in which this call asks for more than was submitted and than
\* another call is about to submit.
Reserves(intent, desired) ==
    {d \in Directions : /\ desired[d] > shut.submitted[d]
                        /\ desired[d] > shut.reserved[d]
                        /\ d = "immediate" => intent = "AbortBothImmediate"}

\* IMMEDIATE carries both directions even if an abort of both is in flight.
Request(owns, desired) ==
    IF "immediate" \in owns
    THEN Intents.AbortBothImmediate
    ELSE [d \in Directions |-> IF d \in owns THEN desired[d] ELSE 0]

ReserveShutdown(t, intent, desired, owns) ==
    /\ shut' = [shut EXCEPT !.desired = desired,
                            !.reserved = [d \in Directions |->
                                IF d \in owns THEN desired[d] ELSE @[d]]]
    /\ calls' = [calls EXCEPT ![t] =
                   IF owns = {} THEN NoCall
                   ELSE [stage |-> "downcall", request |-> Request(owns, desired),
                         owns |-> owns, ok |-> TRUE]]

RequestShutdown(t, intent) ==
    /\ calls[t].stage = "idle"
    /\ IF Usable
       THEN LET desired == Stronger(shut.desired, Intents[intent])
            IN  ReserveShutdown(t, intent, desired, Reserves(intent, desired))
       ELSE UNCHANGED <<shut, calls>>
    /\ UNCHANGED <<env, Phase, Target, RouteGeneration, TerminalRetained,
                   terminal, relay, sends, completions, contexts, holders,
                   callback, quic>>

\* MsQuic aborts or finishes the directions, or refuses.
Downcall(t) ==
    /\ calls[t].stage = "downcall"
    /\ \/ /\ calls' = [calls EXCEPT ![t].stage = "settle"]
          /\ quic' = [quic EXCEPT !.send = Max({@, calls[t].request.send}),
                                  !.receive = Max({@, calls[t].request.receive})]
       \/ /\ quic.complete \/ quic.failures < env.failures
          /\ calls' = [calls EXCEPT ![t] = [@ EXCEPT !.stage = "settle", !.ok = FALSE]]
          /\ quic' = [quic EXCEPT !.failures = Min({@ + 1, env.failures})]
    /\ UNCHANGED <<env, Phase, Target, RouteGeneration, TerminalRetained,
                   terminal, relay, shut, sends, completions, contexts,
                   holders, callback>>

\* Mutant of SettleShutdown: a reservation is given back on success only.
SettleSubmitted(t) ==
    /\ calls[t].stage = "settle"
    /\ shut' = IF calls[t].ok
               THEN [shut EXCEPT
                 !.reserved = [d \in Directions |->
                     IF d \in calls[t].owns /\ @[d] = calls[t].request[d] THEN 0 ELSE @[d]],
                 !.submitted = Stronger(@, calls[t].request)]
               ELSE shut
    /\ calls' = [calls EXCEPT ![t] = NoCall]
    /\ UNCHANGED <<env, Phase, Target, RouteGeneration, TerminalRetained, terminal,
                   relay, sends, completions, contexts, holders, callback, quic>>

\* The reservations this call still owns are given back.
SettleShutdown(t) ==
    /\ calls[t].stage = "settle"
    /\ shut' = [shut EXCEPT
         !.reserved = [d \in Directions |->
             IF d \in calls[t].owns /\ @[d] = calls[t].request[d] THEN 0 ELSE @[d]],
         !.submitted = IF calls[t].ok THEN Stronger(@, calls[t].request) ELSE @]
    /\ calls' = [calls EXCEPT ![t] = NoCall]
    /\ UNCHANGED <<env, Phase, Target, RouteGeneration, TerminalRetained,
                   terminal, relay, sends, completions, contexts, holders,
                   callback, quic>>

CallStep(t) == Downcall(t) \/ SettleShutdown(t)

-----------------------------------------------------------------------------
(* Routing.                                                                 *)

\* A relay registers for the stream: it reads the generation ...
ReadGeneration ==
    /\ env.relay /\ relay.stage = "none" /\ Usable
    /\ \E c \in Contexts : Live(c) /\ c \in holders
    /\ relay' = [stage |-> "reading", expected |-> RouteGeneration]
    /\ holders' = holders \cup {"relay"}
    /\ UNCHANGED <<env, Phase, Target, RouteGeneration, TerminalRetained, terminal,
                   shut, calls, sends, completions, contexts, callback, quic>>

\* ... and publishes itself, unless the route moved meanwhile.
PublishTarget ==
    /\ relay.stage = "reading"
    /\ IF Usable /\ relay.expected = RouteGeneration
       THEN /\ Target' = "relay"
            /\ RouteGeneration' = RouteGeneration + 1
            /\ relay' = [relay EXCEPT !.stage = "routed"]
            /\ UNCHANGED holders
       ELSE /\ relay' = [relay EXCEPT !.stage = "gone"]
            /\ holders' = holders \ {"relay"}
            /\ UNCHANGED <<Target, RouteGeneration>>
    /\ UNCHANGED <<env, Phase, TerminalRetained, terminal, shut, calls, sends,
                   completions, contexts, callback, quic>>

\* The relay ends: the route goes to a TqTerminalSink, which needs no context.
\* The scheduler repeats the call after a failure.
BeginTerminalShutdown ==
    /\ relay.stage = "routed" /\ ~terminal.calling
    /\ terminal.Phase = "Active" /\ Usable
    /\ Target' = "sink"
    /\ RouteGeneration' = RouteGeneration + 1
    /\ terminal' = [Phase |-> "ShutdownReserved", calling |-> TRUE]
    /\ UNCHANGED <<env, Phase, TerminalRetained, relay, shut, calls, sends,
                   completions, contexts, holders, callback, quic>>

CallTerminalShutdown ==
    /\ terminal.calling
    /\ \/ /\ terminal' = [calling |-> FALSE,
                          Phase |-> IF terminal.Phase = "TerminalObserved"
                                    THEN terminal.Phase ELSE "ShutdownSubmitted"]
          /\ quic' = [quic EXCEPT !.send = 2, !.receive = 1]
       \/ /\ quic.complete \/ quic.failures < env.failures
          /\ terminal' = [calling |-> FALSE,
                          Phase |-> IF terminal.Phase = "TerminalObserved"
                                    THEN terminal.Phase ELSE "Active"]
          /\ quic' = [quic EXCEPT !.failures = Min({@ + 1, env.failures})]
    /\ UNCHANGED <<env, Phase, Target, RouteGeneration, TerminalRetained, relay,
                   shut, calls, sends, completions, contexts, holders, callback>>

\* The relay lets go of its StreamOwner after it handed the route over or the
\* stream ended.
RelayRetires ==
    /\ relay.stage = "routed" /\ ~terminal.calling
    /\ terminal.Phase \in {"ShutdownSubmitted", "TerminalObserved"}
       \/ Phase = "StartFailed"
    /\ relay' = [relay EXCEPT !.stage = "gone"]
    /\ holders' = holders \ {"relay"}
    /\ UNCHANGED <<env, Phase, Target, RouteGeneration, TerminalRetained, terminal,
                   shut, calls, sends, completions, contexts, callback, quic>>

-----------------------------------------------------------------------------
(* TqStreamCallbackTarget.                                                  *)

Inside(d, c) == callback[d].stage = "inside" /\ callback[d].target = c

\* OnStreamEvent of the routed object.  A context that no longer accepts is not
\* entered; the relay and the sink have no Detach.
OnStreamEvent(d) ==
    /\ callback[d].stage = "routed"
    /\ callback' = [callback EXCEPT ![d].stage =
         IF callback[d].target \in Contexts /\ contexts[callback[d].target].Accepting
         THEN "inside" ELSE "leaving"]
    /\ UNCHANGED <<env, Phase, Target, RouteGeneration, TerminalRetained, terminal,
                   relay, shut, calls, sends, completions, contexts, holders, quic>>

\* The context's callback returns.  The context may have been deleted in it.
ReturnFromCallback ==
    /\ callback[Msquic].stage = "inside" /\ calls[Msquic].stage = "idle"
    /\ callback' = [callback EXCEPT ![Msquic].stage = "leaving"]
    /\ UNCHANGED <<env, Phase, Target, RouteGeneration, TerminalRetained, terminal,
                   relay, shut, calls, sends, completions, contexts, holders, quic>>

\* Detach from another thread: no callback is admitted from now on ...  (A
\* context is not deleted while a send of its own is about to begin.)
Detach(c) ==
    /\ Live(c) /\ c \in holders
    /\ \A k \in Keys : sends[k].stage # "begun"
    /\ contexts' = [contexts EXCEPT ![c] = [@ EXCEPT !.state = "detaching",
                                                     !.Accepting = FALSE]]
    /\ UNCHANGED <<env, Phase, Target, RouteGeneration, TerminalRetained, terminal,
                   relay, shut, calls, sends, completions, holders, callback, quic>>

\* Mutant of Drained: Detach does not wait for the callback inside.
DrainedAtOnce(c) ==
    /\ contexts[c].state = "detaching"
    /\ contexts' = [contexts EXCEPT ![c].state = "deleted"]
    /\ holders' = holders \ {c}
    /\ UNCHANGED <<env, Phase, Target, RouteGeneration, TerminalRetained, terminal,
                   relay, shut, calls, sends, completions, callback, quic>>

\* ... and the context is deleted once the ones inside have left.
Drained(c) ==
    /\ contexts[c].state = "detaching"
    /\ \A d \in Dispatchers : ~Inside(d, c)
    /\ contexts' = [contexts EXCEPT ![c].state = "deleted"]
    /\ holders' = holders \ {c}
    /\ UNCHANGED <<env, Phase, Target, RouteGeneration, TerminalRetained, terminal,
                   relay, shut, calls, sends, completions, callback, quic>>

\* Detach inside the context's own callback only closes the admission.
DeletedInside(d, c) == [contexts EXCEPT ![c] = [state |-> "deleted",
                                                Accepting |-> FALSE, by |-> d]]

DeleteInside(d, c) ==
    /\ Inside(d, c) /\ Live(c)
    /\ contexts' = DeletedInside(d, c)
    /\ holders' = holders \ {c}
    /\ UNCHANGED <<env, Phase, Target, RouteGeneration, TerminalRetained, terminal,
                   relay, shut, calls, sends, completions, callback, quic>>

-----------------------------------------------------------------------------
(* Callback and Dispatch.  MsQuic serialises the events of a stream, sends  *)
(* none after SHUTDOWN_COMPLETE, and completes every send before it.        *)

MayEvent == callback[Msquic].stage = "idle" /\ Alive /\ ~quic.complete
            /\ quic.handle = "wrapped"

Begun == quic.start = "ok"

\* Dispatch holds the owner; the route is taken in a later critical section, or
\* (Take) it was taken together with what the event changed.
Dispatch(event, stage, target, key) ==
    callback' = [callback EXCEPT ![Msquic] = [stage |-> stage, event |-> event,
                                              target |-> target, key |-> key]]

StartComplete(ok) ==
    /\ MayEvent /\ quic.start = "pending"
    /\ quic' = [quic EXCEPT !.start = IF ok THEN "ok" ELSE "failed"]
    /\ IF ok
       THEN /\ Phase' = IF Phase = "Starting" THEN "Started" ELSE Phase
            /\ Dispatch("START_COMPLETE", "capture", "none", "none")
            /\ UNCHANGED <<Target, TerminalRetained>>
       ELSE /\ PublishStartFailureAndTakeTarget
            /\ Dispatch("START_COMPLETE", "routed", Target, "none")
    /\ UNCHANGED <<env, RouteGeneration, terminal, relay, shut, calls, sends,
                   completions, contexts, holders>>

\* RECEIVE, and the other events that only go to the routed object.
Receive(event) ==
    /\ MayEvent /\ event \in env.events /\ Begun /\ quic.receives < env.receives
    /\ quic' = [quic EXCEPT !.receives = @ + 1]
    /\ Dispatch(event, "capture", "none", "none")
    /\ UNCHANGED <<env, Phase, Target, RouteGeneration, TerminalRetained, terminal,
                   relay, shut, calls, sends, completions, contexts, holders>>

\* Mutant of SendComplete: the completion goes to the object routed now.
SendCompleteToCurrent(k) ==
    /\ MayEvent /\ k \in quic.pending /\ quic.start \in {"ok", "failed"}
    /\ quic' = [quic EXCEPT !.pending = @ \ {k}]
    /\ IF Registered(k)
       THEN /\ completions' = [completions EXCEPT ![k].state = "claimed"]
            /\ Dispatch("SEND_COMPLETE", "routed", Target, k)
       ELSE /\ completions' = [completions EXCEPT ![k].state = "unknown"]
            /\ UNCHANGED callback
    /\ UNCHANGED <<env, Phase, Target, RouteGeneration, TerminalRetained, terminal,
                   relay, shut, calls, sends, contexts, holders>>

\* The entry is claimed together with the route it captured; an entry that is
\* not there is an unknown or a duplicate claim.
SendComplete(k) ==
    /\ MayEvent /\ k \in quic.pending /\ quic.start \in {"ok", "failed"}
    /\ quic' = [quic EXCEPT !.pending = @ \ {k}]
    /\ IF Registered(k)
       THEN /\ completions' = [completions EXCEPT ![k].state = "claimed"]
            /\ Dispatch("SEND_COMPLETE", "routed", completions[k].route, k)
       ELSE /\ completions' = [completions EXCEPT ![k].state = "unknown"]
            /\ UNCHANGED callback
    /\ UNCHANGED <<env, Phase, Target, RouteGeneration, TerminalRetained, terminal,
                   relay, shut, calls, sends, contexts, holders>>

\* The send direction is over: gracefully if MsQuic was asked to, else aborted.
SendShutdownComplete(graceful) ==
    /\ MayEvent /\ "SEND_SHUTDOWN_COMPLETE" \in env.events /\ Begun /\ ~quic.sendDone
    /\ graceful => quic.send = 1
    /\ quic' = [quic EXCEPT !.sendDone = TRUE]
    /\ shut' = [shut EXCEPT !.submitted.send =
                  Max({@, IF graceful THEN 1 ELSE 2})]
    /\ Dispatch("SEND_SHUTDOWN_COMPLETE", "capture", "none", "none")
    /\ UNCHANGED <<env, Phase, Target, RouteGeneration, TerminalRetained, terminal,
                   relay, calls, sends, completions, contexts, holders>>

\* CANCEL_ON_LOSS requests an abort of both directions before it is routed.
CancelOnLoss ==
    /\ MayEvent /\ "CANCEL_ON_LOSS" \in env.events /\ Begun /\ ~quic.cancelled
    /\ quic' = [quic EXCEPT !.cancelled = TRUE]
    /\ Dispatch("CANCEL_ON_LOSS", "cancel", "none", "none")
    /\ UNCHANGED <<env, Phase, Target, RouteGeneration, TerminalRetained, terminal,
                   relay, shut, calls, sends, completions, contexts, holders>>

CancelRequests ==
    /\ callback[Msquic].stage = "cancel"
    /\ calls[Msquic].stage = "idle"
    /\ Dispatch("CANCEL_ON_LOSS", "capture", "none", "none")
    /\ IF Usable
       THEN LET desired == Stronger(shut.desired, Intents.AbortBoth)
            IN  ReserveShutdown(Msquic, "AbortBoth", desired,
                                Reserves("AbortBoth", desired))
       ELSE UNCHANGED <<shut, calls>>
    /\ UNCHANGED <<env, Phase, Target, RouteGeneration, TerminalRetained, terminal,
                   relay, sends, completions, contexts, holders, quic>>

\* SHUTDOWN_COMPLETE: PublishTerminalAndTakeTarget.
ShutdownComplete ==
    /\ MayEvent /\ quic.start \in {"ok", "failed"} /\ quic.pending = {}
    /\ quic' = [quic EXCEPT !.complete = TRUE]
    /\ IF Usable
       THEN /\ Phase' = "TerminalPublished"
            /\ terminal' = [terminal EXCEPT !.Phase = "TerminalObserved"]
            /\ Target' = "none"
            /\ TerminalRetained' = FALSE
            /\ Dispatch("SHUTDOWN_COMPLETE", "routed", Target, "none")
       ELSE /\ Dispatch("SHUTDOWN_COMPLETE", "leaving", "none", "none")
            /\ UNCHANGED <<Phase, terminal, Target, TerminalRetained>>
    /\ UNCHANGED <<env, RouteGeneration, relay, shut, calls, sends, completions,
                   contexts, holders>>

\* Dispatch takes the route that is published now.
TakeRoute(d) ==
    /\ callback[d].stage = "capture"
    /\ d = Msquic => calls[Msquic].stage = "idle"
    /\ callback' = [callback EXCEPT ![d] = [@ EXCEPT !.stage = "routed",
                                                     !.target = Target]]
    /\ UNCHANGED <<env, Phase, Target, RouteGeneration, TerminalRetained, terminal,
                   relay, shut, calls, sends, completions, contexts, holders, quic>>

\* DispatchBufferedEvent: bytes the tunnel received before its relay started.
DispatchBufferedEvent ==
    /\ "BUFFERED" \in env.events
    /\ relay.stage = "routed" /\ holders \cap Contexts # {}
    /\ callback["buffered"] = NoCallback
    /\ callback' = [callback EXCEPT !["buffered"] =
         [NoCallback EXCEPT !.stage = "capture", !.event = "RECEIVE"]]
    /\ UNCHANGED <<env, Phase, Target, RouteGeneration, TerminalRetained, terminal,
                   relay, shut, calls, sends, completions, contexts, holders, quic>>

\* Dispatch returns; a claimed completion's cleanup has run by then.
Leave(d) ==
    /\ callback[d].stage = "leaving"
    /\ completions' =
         IF callback[d].key \in Keys
         THEN [completions EXCEPT ![callback[d].key].cleanups = @ + 1,
                                  ![callback[d].key].delivered = callback[d].target]
         ELSE completions
    /\ callback' = [callback EXCEPT ![d] =
         IF d = Msquic THEN NoCallback ELSE [NoCallback EXCEPT !.event = "done"]]
    /\ UNCHANGED <<env, Phase, Target, RouteGeneration, TerminalRetained, terminal,
                   relay, shut, calls, sends, contexts, holders, quic>>

DispatchStep(d) == TakeRoute(d) \/ OnStreamEvent(d) \/ Leave(d)

QuicStep == \/ \E ok \in BOOLEAN : StartComplete(ok)
            \/ \E event \in {"RECEIVE", "PEER_SEND_ABORTED"} : Receive(event)
            \/ \E k \in Keys : SendComplete(k)
            \/ \E graceful \in BOOLEAN : SendShutdownComplete(graceful)
            \/ CancelOnLoss \/ ShutdownComplete
            \/ EmergencyAcceptedCallback
=============================================================================

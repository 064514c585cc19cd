------------------------ MODULE StreamLifetimeProofs ------------------------
(***************************************************************************)
(* Proofs about StreamLifetime and the contexts of ServerIncomingStream,   *)
(* for any number of sends and threads and for every scenario.             *)
(***************************************************************************)
EXTENDS ServerIncomingStream, TLAPS

-----------------------------------------------------------------------------
(* The steps of the owner of a stream that the steps of the system make.   *)

\* FrameReturns as the owner sees it.
FrameReturned(k) ==
    /\ sends' = [sends EXCEPT ![k].by = "none"]
    /\ UNCHANGED <<env, Phase, Target, RouteGeneration, TerminalRetained, terminal,
                   relay, shut, calls, completions, contexts, holders, callback,
                   quic>>

MakeStep == OpenOutgoing \/ AdoptAccepted \/ FactoryFails \/ EmergencyAcceptedCallback

OwnerSendStep(k) ==
    \/ BeginSend(k, Msquic) \/ BeginSend(k, "thread") \/ FrameReturned(k)
    \/ SendStep(k) \/ SendComplete(k)

OwnerShutdownStep ==
    \/ \E t \in Callers, intent \in DOMAIN Intents : RequestShutdown(t, intent)
    \/ \E t \in Callers : CallStep(t)
    \/ CancelRequests

OwnerEventStep ==
    \/ \E ok \in BOOLEAN : StartComplete(ok)
    \/ \E event \in {"RECEIVE", "PEER_SEND_ABORTED"} : Receive(event)
    \/ \E graceful \in BOOLEAN : SendShutdownComplete(graceful)
    \/ CancelOnLoss \/ ShutdownComplete

OwnerDispatchStep ==
    \/ \E d \in Dispatchers : TakeRoute(d) \/ OnStreamEvent(d) \/ Leave(d)
    \/ ReturnFromCallback \/ DispatchBufferedEvent

OwnerRouteStep ==
    \/ ReadGeneration \/ PublishTarget \/ BeginTerminalShutdown
    \/ CallTerminalShutdown \/ RelayRetires

OwnerContextStep ==
    \/ \E c \in Contexts : Detach(c) \/ Drained(c) \/ DeleteInside(Msquic, c)
    \/ HandOffToTunnelContext \/ HandOffToSpeedControlStream

OwnerStep ==
    \/ MakeStep \/ OwnerShutdownStep \/ OwnerEventStep \/ OwnerDispatchStep
    \/ OwnerRouteStep \/ OwnerContextStep
    \/ \E k \in Keys : OwnerSendStep(k)

\* What the contexts do in a callback changes the owner by one of its steps.
LEMMA BodySteps == ASSUME BodyStep PROVE OwnerStep \/ UNCHANGED lifeVars
<1>1. CASE DispatcherStep
  BY <1>1, Zenon DEF DispatcherStep, TryDispatch, SpeedContextNotMade, DispatcherEnds,
     DispatcherIgnores, DeleteThis, OwnerStep, OwnerContextStep, Contexts
<1>2. CASE SpeedStep
  BY <1>2, Zenon DEF SpeedStep, SpeedReceives, SpeedPeerAborts, SpeedEnds, SpeedIgnores,
     ProcessBuffered, DeleteThis, OwnerStep, OwnerContextStep, Contexts
<1>3. ASSUME NEW c \in Contexts, TunnelCallback(c) PROVE OwnerStep \/ UNCHANGED lifeVars
  BY <1>3, Zenon DEF TunnelCallback, DeleteThis, OwnerStep, OwnerContextStep
<1>4. CASE SendFrame
  BY <1>4, Zenon DEF SendFrame, OwnerStep, OwnerSendStep
<1>5. CASE FrameNotMade
  BY <1>5, Zenon DEF FrameNotMade
<1>6. CASE FrameReturns
  BY <1>6, Zenon DEF FrameReturns, FrameReturned, OwnerStep, OwnerSendStep
<1>7. CASE CallbackRequests
  <2>1. "AbortBoth" \in DOMAIN Intents /\ "GracefulSend" \in DOMAIN Intents
    BY DEF Intents
  <2> QED BY <1>7, <2>1, Zenon DEF CallbackRequests, OwnerStep, OwnerShutdownStep, Callers
<1>8. CASE CallbackReturns
  BY <1>8, Zenon DEF CallbackReturns, OwnerStep, OwnerDispatchStep
<1> QED BY <1>1, <1>2, <1>3, <1>4, <1>5, <1>6, <1>7, <1>8, Zenon DEF BodyStep

\* Every step of the system is a step of the owner, or leaves the owner alone.
LEMMA OwnerSteps ==
    ASSUME env \in Scenarios, Next PROVE OwnerStep \/ UNCHANGED lifeVars
<1>1. CASE Factory
  BY <1>1, Zenon DEF Factory, Keep, OwnerStep, MakeStep
<1>2. CASE Keep(QuicStep)
  BY <1>2, Zenon DEF Keep, QuicStep, OwnerStep, OwnerEventStep, OwnerSendStep, MakeStep
<1>3. CASE TunnelStep
  <2>1. env.threads \subseteq Callers /\ env.intents \subseteq DOMAIN Intents
    BY LifetimeAssumption DEF Callers
  <2>2. CASE \E c \in Contexts : TunnelDetaches(c)
    BY <2>2, Zenon DEF TunnelDetaches, OwnerStep, OwnerContextStep
  <2>3. CASE \E k \in Keys : Keep(TunnelSends(k))
    BY <2>3, Zenon DEF Keep, TunnelSends, OwnerStep, OwnerSendStep
  <2>4. CASE \E t \in env.threads, intent \in env.intents :
                holders # {} /\ Keep(RequestShutdown(t, intent))
    BY <2>1, <2>4, Zenon DEF Keep, OwnerStep, OwnerShutdownStep
  <2>5. CASE (\E c \in Contexts : IsTunnel(c)) /\ Keep(ReadGeneration)
    BY <2>5, Zenon DEF Keep, OwnerStep, OwnerRouteStep
  <2>6. CASE Keep(DispatchBufferedEvent)
    BY <2>6, Zenon DEF Keep, OwnerStep, OwnerDispatchStep
  <2> QED BY <1>3, <2>2, <2>3, <2>4, <2>5, <2>6, Zenon DEF TunnelStep
<1>4. CASE Continue
  <2>1. CASE \E k \in Keys : Keep(SendStep(k))
    BY <2>1, Zenon DEF Keep, OwnerStep, OwnerSendStep
  <2>2. CASE \E t \in Callers : Keep(CallStep(t))
    BY <2>2, Zenon DEF Keep, OwnerStep, OwnerShutdownStep
  <2>3. CASE \E d \in Dispatchers : Keep(DispatchStep(d))
    BY <2>3, Zenon DEF Keep, DispatchStep, OwnerStep, OwnerDispatchStep
  <2>4. CASE Keep(CancelRequests)
    BY <2>4, Zenon DEF Keep, OwnerStep, OwnerShutdownStep
  <2>5. CASE BodyStep
    BY <2>5, BodySteps
  <2>6. CASE Keep(PublishTarget) \/ Keep(CallTerminalShutdown)
    BY <2>6, Zenon DEF Keep, OwnerStep, OwnerRouteStep
  <2>7. CASE \E c \in Contexts : TunnelDeleted(c)
    BY <2>7, Zenon DEF TunnelDeleted, OwnerStep, OwnerContextStep
  <2> QED BY <1>4, <2>1, <2>2, <2>3, <2>4, <2>5, <2>6, <2>7, Zenon DEF Continue
<1>5. CASE Keep(BeginTerminalShutdown) \/ Keep(RelayRetires)
  BY <1>5, Zenon DEF Keep, OwnerStep, OwnerRouteStep
<1>6. CASE StopAll
  BY <1>6, Zenon DEF StopAll
<1> QED BY <1>1, <1>2, <1>3, <1>4, <1>5, <1>6, Zenon DEF Next

-----------------------------------------------------------------------------
(* What the steps do to the records of the state.                          *)

LEMMA MaxOfTwo ==
    ASSUME NEW a \in Nat, NEW b \in Nat
    PROVE  /\ Max({a, b}) \in {a, b}
           /\ Max({a, b}) >= a
           /\ Max({a, b}) >= b
<1>1. \E x \in {a, b} : \A y \in {a, b} : x >= y
  OBVIOUS
<1>2. /\ Max({a, b}) \in {a, b}
      /\ \A y \in {a, b} : Max({a, b}) >= y
  BY <1>1, Zenon DEF Max
<1> QED BY <1>2

LEMMA MinOfTwo ==
    ASSUME NEW a \in Nat, NEW b \in Nat
    PROVE  /\ Min({a, b}) \in {a, b}
           /\ Min({a, b}) <= a
           /\ Min({a, b}) <= b
<1>1. \E x \in {a, b} : \A y \in {a, b} : x <= y
  OBVIOUS
<1>2. /\ Min({a, b}) \in {a, b}
      /\ \A y \in {a, b} : Min({a, b}) <= y
  BY <1>1, Zenon DEF Min
<1> QED BY <1>2

CallbackStages == {"idle", "capture", "cancel", "routed", "inside", "leaving"}

LEMMA DispatchEffect ==
    ASSUME callback \in [Dispatchers -> CallbackType], NEW event \in EventKinds,
           NEW stage \in CallbackStages, NEW target \in Targets,
           NEW key \in Keys \cup {"none"}, Dispatch(event, stage, target, key)
    PROVE  /\ callback' \in [Dispatchers -> CallbackType]
           /\ callback'[Msquic].stage = stage
           /\ callback'[Msquic].target = target
           /\ callback'[Msquic].event = event
           /\ callback'[Msquic].key = key
           /\ callback'["buffered"] = callback["buffered"]
<1> DEFINE r == [stage |-> stage, event |-> event, target |-> target, key |-> key]
<1>1. r \in CallbackType
  BY DEF CallbackType, CallbackStages
<1>2. r.stage = stage /\ r.event = event /\ r.target = target /\ r.key = key
  OBVIOUS
<1>3. callback' = [callback EXCEPT ![Msquic] = r]
  BY DEF Dispatch
<1>4. Msquic \in Dispatchers /\ "buffered" \in Dispatchers /\ "buffered" # Msquic
  BY DEF Dispatchers, Msquic
<1> HIDE DEF r
<1> QED BY <1>1, <1>2, <1>3, <1>4

\* Taking the route, entering and leaving an object, and the end of a dispatch.
LEMMA TakeRouteEffect ==
    ASSUME callback \in [Dispatchers -> CallbackType], Target \in Targets,
           NEW d \in Dispatchers, TakeRoute(d)
    PROVE  /\ callback' \in [Dispatchers -> CallbackType]
           /\ callback'[d].stage = "routed" /\ callback'[d].target = Target
           /\ callback'[d].key = callback[d].key
           /\ \A e \in Dispatchers \ {d} : callback'[e] = callback[e]
<1> DEFINE r == [callback[d] EXCEPT !.stage = "routed", !.target = Target]
<1>1. /\ r \in CallbackType /\ r.stage = "routed" /\ r.target = Target
      /\ r.key = callback[d].key
  BY Zenon DEF CallbackType
<1>2. callback' = [callback EXCEPT ![d] = r]
  BY DEF TakeRoute
<1> HIDE DEF r
<1> QED BY <1>1, <1>2

LEMMA EnterEffect ==
    ASSUME callback \in [Dispatchers -> CallbackType], NEW d \in Dispatchers,
           OnStreamEvent(d)
    PROVE  /\ callback' \in [Dispatchers -> CallbackType]
           /\ callback'[d].stage \in {"inside", "leaving"}
           /\ callback'[d].stage = "inside" =>
                /\ callback[d].target \in Contexts
                /\ contexts[callback[d].target].Accepting
           /\ callback'[d].target = callback[d].target
           /\ callback'[d].key = callback[d].key
           /\ \A e \in Dispatchers \ {d} : callback'[e] = callback[e]
<1> DEFINE s == IF callback[d].target \in Contexts
                   /\ contexts[callback[d].target].Accepting
                THEN "inside" ELSE "leaving"
           r == [callback[d] EXCEPT !.stage = s]
<1>1. s \in {"inside", "leaving"}
  OBVIOUS
<1>2. s = "inside" => /\ callback[d].target \in Contexts
                      /\ contexts[callback[d].target].Accepting
  OBVIOUS
<1>3. callback' = [callback EXCEPT ![d] = r]
  BY DEF OnStreamEvent
<1> HIDE DEF s
<1>4. /\ r \in CallbackType /\ r.stage = s /\ r.target = callback[d].target
      /\ r.key = callback[d].key
  BY <1>1 DEF CallbackType
<1> HIDE DEF r
<1> QED BY <1>1, <1>2, <1>3, <1>4

LEMMA ReturnEffect ==
    ASSUME callback \in [Dispatchers -> CallbackType], ReturnFromCallback
    PROVE  /\ callback' \in [Dispatchers -> CallbackType]
           /\ callback'[Msquic].stage = "leaving"
           /\ callback'[Msquic].target = callback[Msquic].target
           /\ callback'[Msquic].key = callback[Msquic].key
           /\ callback'["buffered"] = callback["buffered"]
<1> DEFINE r == [callback[Msquic] EXCEPT !.stage = "leaving"]
<1>1. Msquic \in Dispatchers /\ "buffered" \in Dispatchers /\ "buffered" # Msquic
  BY DEF Dispatchers, Msquic
<1>2. /\ r \in CallbackType /\ r.stage = "leaving"
      /\ r.target = callback[Msquic].target /\ r.key = callback[Msquic].key
  BY <1>1 DEF CallbackType
<1>3. callback' = [callback EXCEPT ![Msquic] = r]
  BY DEF ReturnFromCallback
<1> HIDE DEF r
<1> QED BY <1>1, <1>2, <1>3

LEMMA NoCallbackType ==
    /\ NoCallback \in CallbackType /\ NoCallback.stage = "idle"
    /\ NoCallback.target = "none" /\ NoCallback.key = "none"
BY DEF CallbackType, NoCallback, Targets, EventKinds

LEMMA CallbackEdit ==
    ASSUME NEW c \in CallbackType, NEW event \in EventKinds, NEW stage \in CallbackStages
    PROVE  LET r == [c EXCEPT !.stage = stage, !.event = event]
           IN  /\ r \in CallbackType /\ r.stage = stage
               /\ r.target = c.target /\ r.key = c.key
BY Zenon DEF CallbackType, CallbackStages

LEMMA EventEdit ==
    ASSUME NEW c \in CallbackType, NEW event \in EventKinds
    PROVE  LET r == [c EXCEPT !.event = event]
           IN  /\ r \in CallbackType /\ r.stage = c.stage
               /\ r.target = c.target /\ r.key = c.key
BY Zenon DEF CallbackType

LEMMA LeaveEffect ==
    ASSUME callback \in [Dispatchers -> CallbackType], NEW d \in Dispatchers, Leave(d)
    PROVE  /\ callback' \in [Dispatchers -> CallbackType]
           /\ callback'[d].stage = "idle" /\ callback'[d].target = "none"
           /\ callback'[d].key = "none"
           /\ \A e \in Dispatchers \ {d} : callback'[e] = callback[e]
<1> DEFINE r == IF d = Msquic THEN NoCallback ELSE [NoCallback EXCEPT !.event = "done"]
<1>1. /\ r \in CallbackType /\ r.stage = "idle" /\ r.target = "none" /\ r.key = "none"
  <2>1. CASE d = Msquic
    BY <2>1, NoCallbackType
  <2>2. CASE d # Msquic
    BY Zenon, <2>2, NoCallbackType, EventEdit DEF EventKinds
  <2> QED BY <2>1, <2>2
<1>2. callback' = [callback EXCEPT ![d] = r]
  BY DEF Leave
<1> HIDE DEF r
<1> QED BY <1>1, <1>2

LEMMA BufferedEffect ==
    ASSUME callback \in [Dispatchers -> CallbackType], DispatchBufferedEvent
    PROVE  /\ callback' \in [Dispatchers -> CallbackType]
           /\ callback'["buffered"].target = "none"
           /\ callback'["buffered"].key = "none"
           /\ callback'[Msquic] = callback[Msquic]
<1> DEFINE r == [NoCallback EXCEPT !.stage = "capture", !.event = "RECEIVE"]
<1>1. r \in CallbackType /\ r.target = "none" /\ r.key = "none"
  <2>1. "capture" \in CallbackStages /\ "RECEIVE" \in EventKinds
    BY DEF CallbackStages, EventKinds
  <2> QED BY <2>1, NoCallbackType, CallbackEdit, Zenon
<1>2. callback' = [callback EXCEPT !["buffered"] = r]
  BY DEF DispatchBufferedEvent
<1>3. Msquic \in Dispatchers /\ "buffered" \in Dispatchers /\ "buffered" # Msquic
  BY DEF Dispatchers, Msquic
<1> HIDE DEF r
<1> QED BY <1>1, <1>2, <1>3

\* A send that advances: only its own record changes, and not what it starts.
LEMMA SendStageEffect ==
    ASSUME sends \in [Keys -> SendType], NEW k \in Keys, NEW stage \in SendStages,
           SendStage(k, stage)
    PROVE  /\ sends' \in [Keys -> SendType]
           /\ sends'[k].stage = stage /\ sends'[k].start = sends[k].start
           /\ \A j \in Keys \ {k} : sends'[j] = sends[j]
<1> DEFINE r == [sends[k] EXCEPT !.stage = stage]
<1>1. r \in SendType /\ r.stage = stage /\ r.start = sends[k].start
  BY DEF SendType
<1>2. sends' = [sends EXCEPT ![k] = r]
  BY DEF SendStage
<1> HIDE DEF r
<1> QED BY <1>1, <1>2

LEMMA BeginSendEffect ==
    ASSUME sends \in [Keys -> SendType], NEW k \in Keys,
           NEW by \in {"thread", Msquic}, BeginSend(k, by)
    PROVE  /\ sends' \in [Keys -> SendType]
           /\ sends'[k].stage = "begun"
           /\ sends'[k].start => Phase = "CreatedNotStarted"
           /\ \A j \in Keys \ {k} : sends'[j] = sends[j]
<1> DEFINE b == (Phase = "CreatedNotStarted")
           r == [stage |-> "begun", by |-> by, ok |-> FALSE, start |-> b]
<1>1. r \in SendType /\ r.stage = "begun" /\ r.start = b
  BY DEF SendType, SendStages
<1>2. sends' = [sends EXCEPT ![k] = r]
  BY DEF BeginSend
<1> HIDE DEF r
<1> QED BY Zenon, <1>1, <1>2

LEMMA SendReturnsEffect ==
    ASSUME sends \in [Keys -> SendType], NEW k \in Keys, SendReturns(k)
    PROVE  /\ sends' \in [Keys -> SendType]
           /\ sends'[k].stage = "done" /\ sends'[k].start = sends[k].start
           /\ \A j \in Keys \ {k} : sends'[j] = sends[j]
<1> DEFINE r == [sends[k] EXCEPT !.stage = "done", !.ok = TRUE]
<1>1. r \in SendType /\ r.stage = "done" /\ r.start = sends[k].start
  BY Zenon DEF SendType, SendStages
<1>2. sends' = [sends EXCEPT ![k] = r]
  BY DEF SendReturns
<1> HIDE DEF r
<1> QED BY <1>1, <1>2

LEMMA FrameReturnedEffect ==
    ASSUME sends \in [Keys -> SendType], NEW k \in Keys, FrameReturned(k)
    PROVE  /\ sends' \in [Keys -> SendType]
           /\ sends'[k].stage = sends[k].stage /\ sends'[k].start = sends[k].start
           /\ \A j \in Keys \ {k} : sends'[j] = sends[j]
<1> DEFINE r == [sends[k] EXCEPT !.by = "none"]
<1>1. r \in SendType /\ r.stage = sends[k].stage /\ r.start = sends[k].start
  BY DEF SendType
<1>2. sends' = [sends EXCEPT ![k] = r]
  BY DEF FrameReturned
<1> HIDE DEF r
<1> QED BY <1>1, <1>2

\* What a step of the send k does to the sends.
LEMMA OwnerSendEffect ==
    ASSUME sends \in [Keys -> SendType], NEW k \in Keys, OwnerSendStep(k)
    PROVE  /\ sends' \in [Keys -> SendType]
           /\ \A j \in Keys \ {k} : sends'[j] = sends[j]
           /\ sends'[k].start => sends[k].start \/ Phase = "CreatedNotStarted"
<1>1. CASE BeginSend(k, Msquic) \/ BeginSend(k, "thread")
  BY <1>1, BeginSendEffect, Zenon
<1>2. CASE FrameReturned(k)
  BY <1>2, FrameReturnedEffect, Zenon
<1>3. CASE SendReturns(k)
  BY <1>3, SendReturnsEffect, Zenon
<1>4. CASE SendComplete(k)
  BY <1>4, Zenon DEF SendComplete
<1>5. ASSUME NEW stage \in SendStages, SendStage(k, stage)
      PROVE  /\ sends' \in [Keys -> SendType]
             /\ \A j \in Keys \ {k} : sends'[j] = sends[j]
             /\ sends'[k].start => sends[k].start \/ Phase = "CreatedNotStarted"
  BY <1>5, SendStageEffect, Zenon
<1>6. CASE TryAcquireApi(k)
  <2>1. (IF Usable THEN "leased" ELSE "done") \in SendStages
    BY DEF SendStages
  <2> QED BY <1>5, <1>6, <2>1 DEF TryAcquireApi
<1>7. CASE CaptureRoute(k) \/ RegisterSendCompletion(k) \/ Send(k)
           \/ CancelSendCompletion(k)
  <2>1. \E stage \in {"captured", "done", "registered", "accepted", "refused"} :
           SendStage(k, stage)
    BY <1>7, Zenon DEF CaptureRoute, RegisterSendCompletion, Send, CancelSendCompletion
  <2>2. PICK stage \in {"captured", "done", "registered", "accepted", "refused"} :
           SendStage(k, stage)
    BY <2>1
  <2>3. stage \in SendStages
    BY <2>2 DEF SendStages
  <2> QED BY <1>5, <2>2, <2>3
<1> QED BY <1>1, <1>2, <1>3, <1>4, <1>6, <1>7, Zenon DEF OwnerSendStep, SendStep

\* One entry of g_sendCompletions.
LEMMA CompletionEdit ==
    ASSUME completions \in [Keys -> CompletionType], NEW k \in Keys,
           NEW r \in CompletionType, completions' = [completions EXCEPT ![k] = r]
    PROVE  /\ completions' \in [Keys -> CompletionType]
           /\ completions'[k] = r
           /\ \A j \in Keys \ {k} : completions'[j] = completions[j]
OBVIOUS

CompletionStates == {"none", "registered", "claimed", "cancelled", "unknown"}

LEMMA CompletionStateEffect ==
    ASSUME completions \in [Keys -> CompletionType], NEW k \in Keys,
           NEW state \in CompletionStates,
           completions' = [completions EXCEPT ![k].state = state]
    PROVE  /\ completions' \in [Keys -> CompletionType]
           /\ completions'[k].state = state
           /\ completions'[k].route = completions[k].route
           /\ completions'[k].delivered = completions[k].delivered
           /\ completions'[k].cleanups = completions[k].cleanups
           /\ \A j \in Keys \ {k} : completions'[j] = completions[j]
<1> DEFINE r == [completions[k] EXCEPT !.state = state]
<1>1. /\ r \in CompletionType /\ r.state = state /\ r.route = completions[k].route
      /\ r.delivered = completions[k].delivered /\ r.cleanups = completions[k].cleanups
  BY DEF CompletionType, CompletionStates
<1>2. completions' = [completions EXCEPT ![k] = r]
  OBVIOUS
<1> HIDE DEF r
<1> QED BY <1>1, <1>2, CompletionEdit

LEMMA CompletionRouteEffect ==
    ASSUME completions \in [Keys -> CompletionType], NEW k \in Keys,
           NEW target \in Targets,
           completions' = [completions EXCEPT ![k].route = target]
    PROVE  /\ completions' \in [Keys -> CompletionType]
           /\ completions'[k].state = completions[k].state
           /\ completions'[k].route = target
           /\ completions'[k].delivered = completions[k].delivered
           /\ completions'[k].cleanups = completions[k].cleanups
           /\ \A j \in Keys \ {k} : completions'[j] = completions[j]
<1> DEFINE r == [completions[k] EXCEPT !.route = target]
<1>1. /\ r \in CompletionType /\ r.state = completions[k].state /\ r.route = target
      /\ r.delivered = completions[k].delivered /\ r.cleanups = completions[k].cleanups
  BY DEF CompletionType
<1>2. completions' = [completions EXCEPT ![k] = r]
  OBVIOUS
<1> HIDE DEF r
<1> QED BY <1>1, <1>2, CompletionEdit

LEMMA CancelledEdit ==
    ASSUME NEW c \in CompletionType
    PROVE  LET r == [c EXCEPT !.state = "cancelled", !.cleanups = @ + 1]
           IN  /\ r \in CompletionType /\ r.state = "cancelled"
               /\ r.cleanups = c.cleanups + 1
               /\ r.route = c.route /\ r.delivered = c.delivered
<1>1. PICK n \in Nat : n = c.cleanups + 1
  BY DEF CompletionType
<1>2. /\ [c EXCEPT !.state = "cancelled", !.cleanups = n] \in CompletionType
      /\ [c EXCEPT !.state = "cancelled", !.cleanups = n].state = "cancelled"
      /\ [c EXCEPT !.state = "cancelled", !.cleanups = n].cleanups = n
      /\ [c EXCEPT !.state = "cancelled", !.cleanups = n].route = c.route
      /\ [c EXCEPT !.state = "cancelled", !.cleanups = n].delivered = c.delivered
  BY Zenon DEF CompletionType
<1>3. [c EXCEPT !.state = "cancelled", !.cleanups = @ + 1]
        = [c EXCEPT !.state = "cancelled", !.cleanups = n]
  BY <1>1, Zenon DEF CompletionType
<1> QED BY <1>1, <1>2, <1>3, Zenon

LEMMA CleanedEdit ==
    ASSUME NEW c \in CompletionType, NEW target \in Targets
    PROVE  LET r == [c EXCEPT !.cleanups = @ + 1, !.delivered = target]
           IN  /\ r \in CompletionType /\ r.state = c.state
               /\ r.cleanups = c.cleanups + 1
               /\ r.route = c.route /\ r.delivered = target
<1>1. PICK n \in Nat : n = c.cleanups + 1
  BY DEF CompletionType
<1>2. /\ [c EXCEPT !.cleanups = n, !.delivered = target] \in CompletionType
      /\ [c EXCEPT !.cleanups = n, !.delivered = target].state = c.state
      /\ [c EXCEPT !.cleanups = n, !.delivered = target].cleanups = n
      /\ [c EXCEPT !.cleanups = n, !.delivered = target].route = c.route
      /\ [c EXCEPT !.cleanups = n, !.delivered = target].delivered = target
  BY Zenon DEF CompletionType
<1>3. [c EXCEPT !.cleanups = @ + 1, !.delivered = target]
        = [c EXCEPT !.cleanups = n, !.delivered = target]
  BY <1>1, Zenon DEF CompletionType
<1> QED BY <1>1, <1>2, <1>3, Zenon

LEMMA CancelledEffect ==
    ASSUME completions \in [Keys -> CompletionType], NEW k \in Keys, Registered(k),
           completions' = Cancelled(k)
    PROVE  /\ completions' \in [Keys -> CompletionType]
           /\ completions'[k].state = "cancelled"
           /\ completions'[k].route = completions[k].route
           /\ completions'[k].delivered = completions[k].delivered
           /\ completions'[k].cleanups = completions[k].cleanups + 1
           /\ \A j \in Keys \ {k} : completions'[j] = completions[j]
<1> DEFINE r == [completions[k] EXCEPT !.state = "cancelled", !.cleanups = @ + 1]
<1>1. /\ r \in CompletionType /\ r.state = "cancelled" /\ r.route = completions[k].route
      /\ r.delivered = completions[k].delivered
      /\ r.cleanups = completions[k].cleanups + 1
  <2>1. completions[k] \in CompletionType
    OBVIOUS
  <2> QED BY <2>1, CancelledEdit, Zenon
<1>2. completions' = [completions EXCEPT ![k] = r]
  BY Zenon DEF Cancelled
<1> HIDE DEF r
<1> QED BY <1>1, <1>2, CompletionEdit

\* The end of a dispatch cleans up the send that it completes.
LEMMA CleanupEffect ==
    ASSUME completions \in [Keys -> CompletionType], NEW d \in Dispatchers,
           callback \in [Dispatchers -> CallbackType], NEW k \in Keys,
           callback[d].key = k, Leave(d)
    PROVE  /\ completions' \in [Keys -> CompletionType]
           /\ completions'[k].state = completions[k].state
           /\ completions'[k].route = completions[k].route
           /\ completions'[k].delivered = callback[d].target
           /\ completions'[k].cleanups = completions[k].cleanups + 1
           /\ \A j \in Keys \ {k} : completions'[j] = completions[j]
<1> DEFINE r == [completions[k] EXCEPT !.cleanups = @ + 1, !.delivered = callback[d].target]
<1>0. callback[d].target \in Targets
  BY DEF CallbackType
<1>1. /\ r \in CompletionType /\ r.state = completions[k].state
      /\ r.route = completions[k].route /\ r.delivered = callback[d].target
      /\ r.cleanups = completions[k].cleanups + 1
  <2>1. completions[k] \in CompletionType
    OBVIOUS
  <2> QED BY <1>0, <2>1, CleanedEdit, Zenon
<1>2. completions' = [completions EXCEPT ![k] = r]
  BY Zenon DEF Leave
<1> HIDE DEF r
<1> QED BY <1>1, <1>2, CompletionEdit

-----------------------------------------------------------------------------
(* The stream as MsQuic sees it.                                            *)

QuicIs(handle, start, pending, failures, complete) ==
    /\ quic' \in QuicType
    /\ quic'.handle = handle /\ quic'.start = start /\ quic'.pending = pending
    /\ quic'.failures = failures /\ quic'.complete = complete

\* What of the stream the invariants of the owner speak of is as it was.
QuicSame == QuicIs(quic.handle, quic.start, quic.pending, quic.failures, quic.complete)

LEMMA QuicUnchanged == ASSUME quic \in QuicType, UNCHANGED quic PROVE QuicSame
BY DEF QuicSame, QuicIs

LEMMA OpenOutgoingQuic ==
    ASSUME quic \in QuicType, OpenOutgoing
    PROVE  QuicIs("wrapped", quic.start, quic.pending, quic.failures, quic.complete)
BY DEF QuicIs, QuicType, OpenOutgoing

LEMMA AdoptAcceptedQuic ==
    ASSUME quic \in QuicType, AdoptAccepted
    PROVE  QuicIs("wrapped", "ok", quic.pending, quic.failures, quic.complete)
BY Zenon DEF QuicIs, QuicType, AdoptAccepted

LEMMA UnwrappedQuic ==
    ASSUME quic \in QuicType, FactoryFails \/ EmergencyAcceptedCallback
    PROVE  /\ QuicIs(quic'.handle, quic.start, quic.pending, quic.failures, quic.complete)
           /\ quic'.handle # "wrapped"
<1> DEFINE h == IF FactoryFails
                THEN IF env.role = "server" THEN "emergency" ELSE "none"
                ELSE "closed"
<1>1. h \in {"emergency", "none", "closed"}
  OBVIOUS
<1>2. quic' = [quic EXCEPT !.handle = h]
  BY DEF FactoryFails, EmergencyAcceptedCallback
<1> HIDE DEF h
<1> QED BY <1>1, <1>2 DEF QuicIs, QuicType

LEMMA FailuresBound ==
    ASSUME quic \in QuicType, env.failures \in Nat
    PROVE  /\ Min({quic.failures + 1, env.failures}) \in Nat
           /\ Min({quic.failures + 1, env.failures}) \in {quic.failures + 1, env.failures}
           /\ Min({quic.failures + 1, env.failures}) <= env.failures
<1>1. quic.failures \in Nat
  BY DEF QuicType
<1> QED BY <1>1, MinOfTwo

\* A downcall is executed, or refused.
LEMMA DowncallQuic ==
    ASSUME quic \in QuicType, calls \in [Callers -> CallType], env.failures \in Nat,
           quic.failures <= env.failures, NEW t \in Callers, Downcall(t)
    PROVE  /\ QuicIs(quic.handle, quic.start, quic.pending, quic'.failures, quic.complete)
           /\ quic.failures <= quic'.failures /\ quic'.failures <= env.failures
           /\ \/ /\ calls' = [calls EXCEPT ![t].stage = "settle"]
              \/ /\ calls' = [calls EXCEPT ![t] = [@ EXCEPT !.stage = "settle", !.ok = FALSE]]
                 /\ quic'.failures > 0 \/ quic.complete
<1>1. CASE /\ calls' = [calls EXCEPT ![t].stage = "settle"]
           /\ quic' = [quic EXCEPT !.send = Max({@, calls[t].request.send}),
                                   !.receive = Max({@, calls[t].request.receive})]
  <2> DEFINE s == Max({quic.send, calls[t].request.send})
             r == Max({quic.receive, calls[t].request.receive})
  <2>1. /\ calls[t].request.send \in 0..2 /\ calls[t].request.receive \in 0..2
        /\ quic.send \in 0..2 /\ quic.receive \in 0..2
    BY DEF CallType, Strengths, Directions, QuicType
  <2>2. s \in 0..2 /\ r \in 0..2
    BY <2>1, MaxOfTwo
  <2>3. quic' = [quic EXCEPT !.send = s, !.receive = r]
    BY <1>1
  <2> HIDE DEF s, r
  <2>4. QuicSame
    BY Zenon, <2>2, <2>3 DEF QuicSame, QuicIs, QuicType
  <2>5. quic.failures \in Nat
    BY DEF QuicType
  <2> QED BY <1>1, <2>4, <2>5 DEF QuicSame, QuicIs
<1>2. CASE /\ quic.complete \/ quic.failures < env.failures
           /\ calls' = [calls EXCEPT ![t] = [@ EXCEPT !.stage = "settle", !.ok = FALSE]]
           /\ quic' = [quic EXCEPT !.failures = Min({@ + 1, env.failures})]
  <2> DEFINE f == Min({quic.failures + 1, env.failures})
  <2>1. /\ f \in Nat /\ f \in {quic.failures + 1, env.failures}
        /\ f <= env.failures /\ quic.failures \in Nat
    BY FailuresBound DEF QuicType
  <2>2. quic' = [quic EXCEPT !.failures = f]
    BY <1>2
  <2> HIDE DEF f
  <2>3. QuicIs(quic.handle, quic.start, quic.pending, f, quic.complete)
    BY <2>1, <2>2 DEF QuicIs, QuicType
  <2>4. quic.failures <= f /\ (f > 0 \/ quic.complete)
    BY <1>2, <2>1
  <2> QED BY <1>2, <2>1, <2>3, <2>4 DEF QuicIs
<1> QED BY <1>1, <1>2, Zenon DEF Downcall

\* MsQuic's record with the two directions' aborts.
Aborted(q, s, r) == [q EXCEPT !.send = s, !.receive = r]

LEMMA AbortEdit ==
    ASSUME NEW q \in QuicType, NEW s \in 0..2, NEW r \in 0..2
    PROVE  /\ Aborted(q, s, r) \in QuicType
           /\ Aborted(q, s, r).handle = q.handle /\ Aborted(q, s, r).start = q.start
           /\ Aborted(q, s, r).pending = q.pending
           /\ Aborted(q, s, r).failures = q.failures
           /\ Aborted(q, s, r).complete = q.complete
BY Zenon DEF QuicType, Aborted

LEMMA CallTerminalShutdownQuic ==
    ASSUME quic \in QuicType, env.failures \in Nat, quic.failures <= env.failures,
           CallTerminalShutdown
    PROVE  /\ QuicIs(quic.handle, quic.start, quic.pending, quic'.failures, quic.complete)
           /\ quic.failures <= quic'.failures /\ quic'.failures <= env.failures
<1>1. CASE quic' = [quic EXCEPT !.send = 2, !.receive = 1]
  <2>1. QuicSame
    <3>1. PICK s \in 0..2 : s = 2
      OBVIOUS
    <3>2. PICK r \in 0..2 : r = 1
      OBVIOUS
    <3>3. quic' = Aborted(quic, s, r)
      BY <1>1, <3>1, <3>2, Zenon DEF Aborted
    <3>4. /\ quic' \in QuicType
          /\ quic'.handle = quic.handle /\ quic'.start = quic.start
          /\ quic'.pending = quic.pending
          /\ quic'.failures = quic.failures /\ quic'.complete = quic.complete
      BY <3>3, AbortEdit, Zenon
    <3> QED BY <3>4, Zenon DEF QuicSame, QuicIs
  <2> QED BY <2>1 DEF QuicSame, QuicIs, QuicType
<1>2. CASE quic' = [quic EXCEPT !.failures = Min({@ + 1, env.failures})]
  <2> DEFINE f == Min({quic.failures + 1, env.failures})
  <2>1. /\ f \in Nat /\ f \in {quic.failures + 1, env.failures}
        /\ f <= env.failures /\ quic.failures \in Nat
    BY FailuresBound DEF QuicType
  <2>2. quic' = [quic EXCEPT !.failures = f]
    BY <1>2
  <2> HIDE DEF f
  <2>3. QuicIs(quic.handle, quic.start, quic.pending, f, quic.complete)
    BY <2>1, <2>2 DEF QuicIs, QuicType
  <2>4. quic.failures <= f
    BY <2>1
  <2> QED BY <2>1, <2>3, <2>4 DEF QuicIs
<1> QED BY <1>1, <1>2, Zenon DEF CallTerminalShutdown

LEMMA SendQuic ==
    ASSUME quic \in QuicType, NEW k \in Keys, Send(k)
    PROVE  \/ /\ SendStage(k, "accepted")
              /\ QuicIs(quic.handle, quic'.start, quic.pending \cup {k}, quic.failures,
                        quic.complete)
              /\ ~sends[k].start => quic'.start = quic.start
           \/ SendStage(k, "refused") /\ QuicSame
<1>1. CASE /\ SendStage(k, "accepted")
           /\ quic' = [quic EXCEPT !.pending = @ \cup {k},
                                   !.start = IF sends[k].start THEN "pending" ELSE @]
  <2> DEFINE s == IF sends[k].start THEN "pending" ELSE quic.start
             p == quic.pending \cup {k}
  <2>1. s \in {"none", "pending", "ok", "failed"} /\ p \in SUBSET Keys
    BY DEF QuicType
  <2>2. ~sends[k].start => s = quic.start
    OBVIOUS
  <2>3. quic' = [quic EXCEPT !.pending = p, !.start = s]
    BY <1>1
  <2>4. p = quic.pending \cup {k}
    OBVIOUS
  <2> HIDE DEF s, p
  <2>5. QuicIs(quic.handle, s, p, quic.failures, quic.complete)
    BY Zenon, <2>1, <2>3 DEF QuicIs, QuicType
  <2> QED BY <1>1, <2>2, <2>4, <2>5 DEF QuicIs
<1>2. CASE SendStage(k, "refused") /\ UNCHANGED quic
  BY <1>2, QuicUnchanged
<1> QED BY <1>1, <1>2, Zenon DEF Send

LEMMA SendCompleteQuic ==
    ASSUME quic \in QuicType, NEW k \in Keys, SendComplete(k)
    PROVE  QuicIs(quic.handle, quic.start, quic.pending \ {k}, quic.failures, quic.complete)
BY DEF QuicIs, QuicType, SendComplete

LEMMA StartCompleteQuic ==
    ASSUME quic \in QuicType, NEW ok \in BOOLEAN, StartComplete(ok)
    PROVE  QuicIs(quic.handle, quic'.start, quic.pending, quic.failures, quic.complete)
<1> DEFINE s == IF ok THEN "ok" ELSE "failed"
<1>1. s \in {"ok", "failed"}
  OBVIOUS
<1>2. quic' = [quic EXCEPT !.start = s]
  BY DEF StartComplete
<1> HIDE DEF s
<1> QED BY <1>1, <1>2 DEF QuicIs, QuicType

LEMMA ReceiveQuic == ASSUME quic \in QuicType, NEW event, Receive(event) PROVE QuicSame
BY DEF QuicSame, QuicIs, QuicType, Receive

LEMMA SendShutdownCompleteQuic ==
    ASSUME quic \in QuicType, NEW graceful \in BOOLEAN, SendShutdownComplete(graceful)
    PROVE  QuicSame
BY Zenon DEF QuicSame, QuicIs, QuicType, SendShutdownComplete

LEMMA CancelOnLossQuic == ASSUME quic \in QuicType, CancelOnLoss PROVE QuicSame
BY Zenon DEF QuicSame, QuicIs, QuicType, CancelOnLoss

LEMMA ShutdownCompleteQuic ==
    ASSUME quic \in QuicType, ShutdownComplete
    PROVE  QuicIs(quic.handle, quic.start, quic.pending, quic.failures, TRUE)
BY Zenon DEF QuicIs, QuicType, ShutdownComplete

-----------------------------------------------------------------------------
(* The requests to shut the stream down.                                    *)

ShutType == [desired : Strengths, reserved : Strengths, submitted : Strengths]

LEMMA StrongerFacts ==
    ASSUME NEW f \in Strengths, NEW g \in Strengths
    PROVE  /\ Stronger(f, g) \in Strengths
           /\ \A d \in Directions : /\ Stronger(f, g)[d] \in {f[d], g[d]}
                                    /\ Stronger(f, g)[d] >= f[d]
                                    /\ Stronger(f, g)[d] >= g[d]
<1>1. ASSUME NEW d \in Directions
      PROVE  /\ Max({f[d], g[d]}) \in 0..2
             /\ Max({f[d], g[d]}) \in {f[d], g[d]}
             /\ Max({f[d], g[d]}) >= f[d]
             /\ Max({f[d], g[d]}) >= g[d]
  <2>1. f[d] \in 0..2 /\ g[d] \in 0..2
    BY DEF Strengths
  <2> QED BY <2>1, MaxOfTwo
<1> QED BY <1>1 DEF Stronger, Strengths

LEMMA IntentFacts ==
    ASSUME NEW intent \in DOMAIN Intents
    PROVE  /\ Intents[intent] \in Strengths
           /\ Intents[intent].receive <= 1 /\ Intents[intent].immediate <= 1
           /\ intent # "AbortBothImmediate" => Intents[intent].immediate = 0
           /\ intent = "AbortBothImmediate" =>
                Intents[intent].send = 2 /\ Intents[intent].receive = 1
                /\ Intents[intent].immediate = 1
BY DEF Intents, Nothing, Strengths, Directions

LEMMA ImmediateFacts ==
    /\ Intents.AbortBothImmediate \in Strengths
    /\ Intents.AbortBothImmediate["send"] = 2
    /\ Intents.AbortBothImmediate["receive"] = 1
    /\ Intents.AbortBothImmediate["immediate"] = 1
BY DEF Intents, Strengths, Directions

\* A call of RequestShutdown asks MsQuic for what it reserved.
LEMMA RequestFacts ==
    ASSUME NEW desired \in Strengths, NEW intent \in DOMAIN Intents,
           desired.receive <= 1, desired.immediate <= 1,
           \A d \in Directions : desired[d] >= Intents[intent][d]
    PROVE  /\ Reserves(intent, desired) \subseteq Directions
           /\ Request(Reserves(intent, desired), desired) \in Strengths
           /\ \A d \in Reserves(intent, desired) :
                Request(Reserves(intent, desired), desired)[d] = desired[d]
<1> DEFINE owns == Reserves(intent, desired)
<1>1. owns \subseteq Directions
  BY DEF Reserves
<1>2. "immediate" \in owns => intent = "AbortBothImmediate"
  BY DEF Reserves
<1> HIDE DEF owns
<1>3. CASE "immediate" \in owns
  <2>1. Request(owns, desired) = Intents.AbortBothImmediate
    BY <1>3 DEF Request
  <2>2. desired["send"] >= 2 /\ desired["receive"] >= 1 /\ desired["immediate"] >= 1
    BY <1>2, <1>3, IntentFacts DEF Directions
  <2>3. desired["send"] = 2 /\ desired["receive"] = 1 /\ desired["immediate"] = 1
    BY <2>2 DEF Strengths, Directions
  <2> QED BY <1>1, <2>1, <2>3, ImmediateFacts DEF Directions, owns
<1>4. CASE "immediate" \notin owns
  <2>1. Request(owns, desired) = [d \in Directions |-> IF d \in owns THEN desired[d] ELSE 0]
    BY <1>4 DEF Request
  <2>2. Request(owns, desired) \in Strengths
    BY <2>1 DEF Strengths
  <2>3. \A d \in owns : Request(owns, desired)[d] = desired[d]
    BY <1>1, <2>1
  <2> QED BY <1>1, <2>2, <2>3 DEF owns
<1> QED BY <1>3, <1>4

NoCallFacts == NoCall \in CallType /\ NoCall.stage = "idle" /\ NoCall.ok = TRUE

LEMMA NoCallIsIdle == NoCallFacts
BY DEF NoCallFacts, NoCall, CallType, Nothing, Strengths, Directions

\* The reservation of a call, seen direction by direction.
LEMMA ReserveEffect ==
    ASSUME shut \in ShutType, calls \in [Callers -> CallType], NEW t \in Callers,
           NEW intent \in DOMAIN Intents, NEW desired \in Strengths,
           NEW owns \in SUBSET Directions, Request(owns, desired) \in Strengths,
           ReserveShutdown(t, intent, desired, owns)
    PROVE  /\ shut' \in ShutType
           /\ shut'.desired = desired /\ shut'.submitted = shut.submitted
           /\ \A d \in Directions :
                shut'.reserved[d] = IF d \in owns THEN desired[d] ELSE shut.reserved[d]
           /\ calls' \in [Callers -> CallType]
           /\ calls'[t].ok = TRUE
           /\ owns # {} => /\ calls'[t].stage # "idle" /\ calls'[t].owns = owns
                           /\ calls'[t].request = Request(owns, desired)
           /\ \A u \in Callers \ {t} : calls'[u] = calls[u]
<1> DEFINE reserved == [d \in Directions |-> IF d \in owns THEN desired[d]
                                             ELSE shut.reserved[d]]
<1>1. reserved \in Strengths
  BY DEF ShutType, Strengths
<1>2. shut' = [shut EXCEPT !.desired = desired, !.reserved = reserved]
  BY DEF ReserveShutdown
<1>3. \A d \in Directions :
         reserved[d] = IF d \in owns THEN desired[d] ELSE shut.reserved[d]
  OBVIOUS
<1> HIDE DEF reserved
<1>4. /\ shut' \in ShutType
      /\ shut'.desired = desired /\ shut'.submitted = shut.submitted
      /\ shut'.reserved = reserved
  BY Zenon, <1>1, <1>2 DEF ShutType
<1> DEFINE q == Request(owns, desired)
           r == [stage |-> "downcall", request |-> q, owns |-> owns, ok |-> TRUE]
           c == IF owns = {} THEN NoCall ELSE r
<1>5. /\ r \in CallType /\ r.ok = TRUE /\ r.stage # "idle" /\ r.owns = owns
      /\ r.request = q
  <2>1. q \in Strengths
    OBVIOUS
  <2> HIDE DEF q
  <2> QED BY <2>1 DEF CallType
<1>6. calls' = [calls EXCEPT ![t] = c]
  BY DEF ReserveShutdown
<1> HIDE DEF r
<1>7. c \in CallType /\ c.ok = TRUE /\ (owns # {} => c = r)
  BY <1>5, NoCallIsIdle DEF NoCallFacts
<1> HIDE DEF c
<1>8. /\ calls' \in [Callers -> CallType] /\ calls'[t] = c
      /\ \A u \in Callers \ {t} : calls'[u] = calls[u]
  BY <1>6, <1>7
<1> QED BY <1>3, <1>4, <1>5, <1>7, <1>8

LEMMA SettleEffect ==
    ASSUME shut \in ShutType, calls \in [Callers -> CallType], NEW t \in Callers,
           SettleShutdown(t)
    PROVE  /\ shut' \in ShutType
           /\ shut'.desired = shut.desired
           /\ \A d \in Directions :
                shut'.reserved[d] =
                  IF d \in calls[t].owns /\ shut.reserved[d] = calls[t].request[d]
                  THEN 0 ELSE shut.reserved[d]
           /\ \A d \in Directions : shut'.submitted[d] >= shut.submitted[d]
           /\ calls[t].ok =>
                \A d \in Directions : shut'.submitted[d] >= calls[t].request[d]
           /\ calls' \in [Callers -> CallType] /\ calls'[t].stage = "idle"
           /\ calls'[t].ok = TRUE
           /\ \A u \in Callers \ {t} : calls'[u] = calls[u]
<1> DEFINE reserved == [d \in Directions |->
                          IF d \in calls[t].owns /\ shut.reserved[d] = calls[t].request[d]
                          THEN 0 ELSE shut.reserved[d]]
           more == Stronger(shut.submitted, calls[t].request)
           submitted == IF calls[t].ok THEN more ELSE shut.submitted
<1>1. reserved \in Strengths /\ shut.submitted \in Strengths
      /\ calls[t].request \in Strengths
  BY DEF ShutType, Strengths, CallType
<1>2. \A d \in Directions :
        reserved[d] = IF d \in calls[t].owns /\ shut.reserved[d] = calls[t].request[d]
                      THEN 0 ELSE shut.reserved[d]
  OBVIOUS
<1>3. /\ more \in Strengths
      /\ \A d \in Directions : /\ more[d] >= shut.submitted[d]
                               /\ more[d] >= calls[t].request[d]
  BY <1>1, StrongerFacts
<1>4. shut' = [shut EXCEPT !.reserved = reserved, !.submitted = submitted]
  BY DEF SettleShutdown
<1> HIDE DEF reserved, more
<1>5. /\ submitted \in Strengths
      /\ \A d \in Directions : submitted[d] >= shut.submitted[d]
      /\ calls[t].ok => \A d \in Directions : submitted[d] >= calls[t].request[d]
  <2>1. \A d \in Directions : shut.submitted[d] >= shut.submitted[d]
    BY <1>1 DEF Strengths
  <2> QED BY <1>1, <1>3, <2>1
<1> HIDE DEF submitted
<1>6. /\ shut' \in ShutType /\ shut'.desired = shut.desired
      /\ shut'.reserved = reserved /\ shut'.submitted = submitted
  BY Zenon, <1>1, <1>4, <1>5 DEF ShutType
<1>7. calls' = [calls EXCEPT ![t] = NoCall]
  BY DEF SettleShutdown
<1>8. /\ calls' \in [Callers -> CallType] /\ calls'[t].stage = "idle"
      /\ calls'[t].ok = TRUE
      /\ \A u \in Callers \ {t} : calls'[u] = calls[u]
  BY <1>7, NoCallIsIdle DEF NoCallFacts
<1> QED BY <1>2, <1>5, <1>6, <1>8

LEMMA DowncallEffect ==
    ASSUME calls \in [Callers -> CallType], NEW t \in Callers,
           \/ calls' = [calls EXCEPT ![t].stage = "settle"]
           \/ calls' = [calls EXCEPT ![t] = [@ EXCEPT !.stage = "settle", !.ok = FALSE]]
    PROVE  /\ calls' \in [Callers -> CallType]
           /\ calls'[t].stage = "settle" /\ calls'[t].owns = calls[t].owns
           /\ calls'[t].request = calls[t].request
           /\ calls'[t].ok = calls[t].ok
              \/ calls' = [calls EXCEPT ![t] = [@ EXCEPT !.stage = "settle", !.ok = FALSE]]
           /\ \A u \in Callers \ {t} : calls'[u] = calls[u]
<1> DEFINE r == [calls[t] EXCEPT !.stage = "settle"]
           n == [calls[t] EXCEPT !.stage = "settle", !.ok = FALSE]
<1>1. /\ r \in CallType /\ r.stage = "settle" /\ r.owns = calls[t].owns
      /\ r.request = calls[t].request /\ r.ok = calls[t].ok
  BY DEF CallType
<1>2. /\ n \in CallType /\ n.stage = "settle" /\ n.owns = calls[t].owns
      /\ n.request = calls[t].request
  BY Zenon DEF CallType
<1>3. calls' = [calls EXCEPT ![t] = r] \/ calls' = [calls EXCEPT ![t] = n]
  OBVIOUS
<1> HIDE DEF r
<1>4. CASE calls' = [calls EXCEPT ![t] = r]
  BY <1>1, <1>4
<1>5. CASE calls' = [calls EXCEPT ![t] = n]
  <2>1. calls' = [calls EXCEPT ![t] = [@ EXCEPT !.stage = "settle", !.ok = FALSE]]
    BY <1>5
  <2> HIDE DEF n
  <2> QED BY Zenon, <1>2, <1>5, <2>1
<1> QED BY <1>3, <1>4, <1>5

\* SEND_SHUTDOWN_COMPLETE counts as submitted.
LEMMA SendShutdownEffect ==
    ASSUME shut \in ShutType, NEW graceful \in BOOLEAN, SendShutdownComplete(graceful)
    PROVE  /\ shut' \in ShutType
           /\ shut'.desired = shut.desired /\ shut'.reserved = shut.reserved
           /\ \A d \in Directions : shut'.submitted[d] >= shut.submitted[d]
<1> DEFINE n == IF graceful THEN 1 ELSE 2
           m == Max({shut.submitted["send"], n})
           s == [shut.submitted EXCEPT !["send"] = m]
<1>1. shut.submitted \in Strengths /\ n \in 0..2
  BY DEF ShutType
<1>2. m \in 0..2 /\ m >= shut.submitted["send"]
  <2>1. shut.submitted["send"] \in 0..2
    BY <1>1 DEF Strengths, Directions
  <2> HIDE DEF n
  <2> QED BY <1>1, <2>1, MaxOfTwo
<1>3. shut' = [shut EXCEPT !.submitted = s]
  BY DEF SendShutdownComplete, ShutType
<1> HIDE DEF m
<1>4. s \in Strengths /\ \A d \in Directions : s[d] >= shut.submitted[d]
  <2>1. shut.submitted \in [Directions -> 0..2] /\ m \in 0..2
    BY <1>1, <1>2 DEF Strengths
  <2>2. \A d \in Directions : s[d] = IF d = "send" THEN m ELSE shut.submitted[d]
    BY <2>1
  <2>3. s \in Strengths
    BY Zenon, <2>1 DEF Strengths
  <2> HIDE DEF s
  <2> QED BY <1>2, <2>1, <2>2, <2>3
<1> HIDE DEF s
<1> QED BY <1>3, <1>4 DEF ShutType

-----------------------------------------------------------------------------
(* What each group of steps leaves alone.                                   *)

LEMMA MakeFrame ==
    ASSUME MakeStep
    PROVE  UNCHANGED <<env, RouteGeneration, terminal, relay, shut, calls, sends,
                       completions, callback>>
BY Zenon DEF MakeStep, OpenOutgoing, AdoptAccepted, FactoryFails, EmergencyAcceptedCallback

LEMMA SendFrames ==
    ASSUME NEW k \in Keys, OwnerSendStep(k)
    PROVE  UNCHANGED <<env, RouteGeneration, terminal, relay, shut, calls, contexts,
                       holders>>
<1>1. CASE SendStep(k)
  BY <1>1, Zenon DEF SendStep, TryAcquireApi, CaptureRoute, RegisterSendCompletion, Send,
     SendReturns, CancelSendCompletion
<1>2. CASE ~SendStep(k)
  BY <1>2, Zenon DEF OwnerSendStep, BeginSend, FrameReturned, SendComplete
<1> QED BY <1>1, <1>2

LEMMA ShutdownFrame ==
    ASSUME OwnerShutdownStep
    PROVE  UNCHANGED <<env, Phase, Target, RouteGeneration, TerminalRetained, terminal,
                       relay, sends, completions, contexts, holders>>
BY Zenon DEF OwnerShutdownStep, RequestShutdown, CallStep, Downcall, SettleShutdown,
   CancelRequests

LEMMA EventFrame ==
    ASSUME OwnerEventStep
    PROVE  UNCHANGED <<env, RouteGeneration, relay, calls, sends, completions, contexts,
                       holders>>
BY Zenon DEF OwnerEventStep, StartComplete, Receive, SendShutdownComplete, CancelOnLoss,
   ShutdownComplete

LEMMA DispatchFrame ==
    ASSUME OwnerDispatchStep
    PROVE  UNCHANGED <<env, Phase, Target, RouteGeneration, TerminalRetained, terminal,
                       relay, shut, calls, sends, contexts, holders, quic>>
BY Zenon DEF OwnerDispatchStep, TakeRoute, OnStreamEvent, Leave, ReturnFromCallback,
   DispatchBufferedEvent

LEMMA RouteFrame ==
    ASSUME OwnerRouteStep
    PROVE  UNCHANGED <<env, Phase, TerminalRetained, shut, calls, sends, completions,
                       contexts, callback>>
BY Zenon DEF OwnerRouteStep, ReadGeneration, PublishTarget, BeginTerminalShutdown,
   CallTerminalShutdown, RelayRetires

LEMMA ContextFrame ==
    ASSUME OwnerContextStep
    PROVE  UNCHANGED <<env, Phase, TerminalRetained, terminal, relay, shut, calls, sends,
                       completions, callback, quic>>
BY Zenon DEF OwnerContextStep, Detach, Drained, DeleteInside, HandOffToTunnelContext,
   HandOffToSpeedControlStream, HandOff

\* An owner's phase only advances, and the retention goes with it.
PhaseStep ==
    \/ Phase' = Phase /\ TerminalRetained' = TerminalRetained
    \/ /\ Phase = "None" /\ Phase' \in {"CreatedNotStarted", "Started"}
       /\ TerminalRetained' = TRUE
    \/ Phase = "CreatedNotStarted" /\ Phase' = "Starting" /\ TerminalRetained' = TRUE
    \/ Phase = "Starting" /\ Phase' = "StartFailed" /\ TerminalRetained' = FALSE
    \/ Phase = "Starting" /\ Phase' = "Started" /\ TerminalRetained' = TerminalRetained
    \/ /\ Phase \in {"Starting", "Started"} /\ Phase' = "TerminalPublished"
       /\ TerminalRetained' = FALSE

LEMMA PhaseSteps ==
    ASSUME OwnerStep PROVE PhaseStep
<1>1. CASE MakeStep
  BY <1>1, Zenon DEF MakeStep, OpenOutgoing, AdoptAccepted, FactoryFails,
     EmergencyAcceptedCallback, PhaseStep
<1>2. ASSUME NEW k \in Keys, OwnerSendStep(k) PROVE PhaseStep
  <2>1. CASE BeginSend(k, Msquic) \/ BeginSend(k, "thread")
    BY <2>1, Zenon DEF BeginSend, PhaseStep
  <2>2. CASE CancelSendCompletion(k)
    BY <2>2, Zenon DEF CancelSendCompletion, PublishStartFailureAndTakeTarget, PhaseStep
  <2>3. CASE \/ TryAcquireApi(k) \/ CaptureRoute(k) \/ RegisterSendCompletion(k)
             \/ Send(k) \/ SendReturns(k) \/ FrameReturned(k) \/ SendComplete(k)
    BY <2>3, Zenon DEF TryAcquireApi, CaptureRoute, RegisterSendCompletion, Send,
       SendReturns, FrameReturned, SendComplete, PhaseStep
  <2> QED BY <1>2, <2>1, <2>2, <2>3, Zenon DEF OwnerSendStep, SendStep
<1>3. CASE OwnerShutdownStep
  BY <1>3, ShutdownFrame DEF PhaseStep
<1>4. CASE OwnerEventStep
  <2>1. ASSUME NEW ok \in BOOLEAN, StartComplete(ok) PROVE PhaseStep
    BY <2>1, Zenon DEF StartComplete, PublishStartFailureAndTakeTarget, PhaseStep
  <2>2. CASE ShutdownComplete
    BY <2>2 DEF ShutdownComplete, Usable, PhaseStep
  <2>3. ASSUME UNCHANGED <<Phase, TerminalRetained>> PROVE PhaseStep
    BY <2>3 DEF PhaseStep
  <2> QED BY <1>4, <2>1, <2>2, <2>3, Zenon DEF OwnerEventStep, Receive,
             SendShutdownComplete, CancelOnLoss
<1>5. CASE OwnerDispatchStep
  BY <1>5, DispatchFrame DEF PhaseStep
<1>6. CASE OwnerRouteStep
  BY <1>6, RouteFrame DEF PhaseStep
<1>7. CASE OwnerContextStep
  BY <1>7, ContextFrame DEF PhaseStep
<1> QED BY <1>1, <1>2, <1>3, <1>4, <1>5, <1>6, <1>7, Zenon DEF OwnerStep

LEMMA OverStays == ASSUME OwnerStep, Over PROVE Over'
BY Zenon, PhaseSteps DEF PhaseStep, Over

-----------------------------------------------------------------------------
(* The values of the state.                                                 *)

LifeTypes ==
    /\ OwnerTypes
    /\ shut \in ShutType
    /\ calls \in [Callers -> CallType]
    /\ sends \in [Keys -> SendType]
    /\ completions \in [Keys -> CompletionType]
    /\ contexts \in [Contexts -> ContextType]
    /\ callback \in [Dispatchers -> CallbackType]
    /\ quic \in QuicType

LEMMA ScenarioFailures == ASSUME env \in Scenarios PROVE env.failures \in Nat
BY LifetimeAssumption

\* A context that is deleted in its callback, and a stream that is handed on.
LEMMA DeletedInsideEffect ==
    ASSUME contexts \in [Contexts -> ContextType], NEW c \in Contexts
    PROVE  /\ DeletedInside(Msquic, c) \in [Contexts -> ContextType]
           /\ DeletedInside(Msquic, c)[c].state = "deleted"
           /\ DeletedInside(Msquic, c)[c].Accepting = FALSE
           /\ DeletedInside(Msquic, c)[c].by = Msquic
           /\ \A e \in Contexts \ {c} : DeletedInside(Msquic, c)[e] = contexts[e]
<1> DEFINE r == [state |-> "deleted", Accepting |-> FALSE, by |-> Msquic]
<1>1. r \in ContextType /\ r.state = "deleted" /\ r.Accepting = FALSE /\ r.by = Msquic
  BY DEF ContextType, Dispatchers
<1>2. DeletedInside(Msquic, c) = [contexts EXCEPT ![c] = r]
  BY DEF DeletedInside
<1> HIDE DEF r
<1> QED BY <1>1, <1>2

LEMMA HandOffEffect ==
    ASSUME contexts \in [Contexts -> ContextType], NEW what, NEW next, HandOff(what, next)
    PROVE  /\ contexts' \in [Contexts -> ContextType]
           /\ contexts'["first"].state = "deleted" /\ ~contexts'["first"].Accepting
           /\ contexts'["first"].by = Msquic
           /\ contexts'["second"].state = "live"
<1> DEFINE r == [state |-> "live", Accepting |-> TRUE, by |-> "none"]
           m == DeletedInside(Msquic, "first")
<1>1. r \in ContextType /\ r.state = "live"
  BY DEF ContextType
<1>2. contexts' = [m EXCEPT !["second"] = r]
  BY DEF HandOff
<1>3. /\ m \in [Contexts -> ContextType] /\ m["first"].state = "deleted"
      /\ m["first"].Accepting = FALSE /\ m["first"].by = Msquic
  BY Zenon, DeletedInsideEffect DEF Contexts
<1>4. "first" \in Contexts /\ "second" \in Contexts /\ "first" # "second"
  BY DEF Contexts
<1> HIDE DEF r, m
<1> QED BY <1>1, <1>2, <1>3, <1>4

\* What a step other than HandOff does to a context.
LEMMA DetachEffect ==
    ASSUME contexts \in [Contexts -> ContextType], NEW c \in Contexts, Detach(c)
    PROVE  /\ contexts' \in [Contexts -> ContextType]
           /\ contexts'[c].state = "detaching" /\ ~contexts'[c].Accepting
           /\ \A e \in Contexts \ {c} : contexts'[e] = contexts[e]
<1> DEFINE r == [contexts[c] EXCEPT !.state = "detaching", !.Accepting = FALSE]
<1>1. r \in ContextType /\ r.state = "detaching" /\ ~r.Accepting
  BY Zenon DEF ContextType
<1>2. contexts' = [contexts EXCEPT ![c] = r]
  BY DEF Detach
<1> HIDE DEF r
<1> QED BY <1>1, <1>2

LEMMA DrainedEffect ==
    ASSUME contexts \in [Contexts -> ContextType], NEW c \in Contexts, Drained(c)
    PROVE  /\ contexts' \in [Contexts -> ContextType]
           /\ contexts'[c].state = "deleted"
           /\ contexts'[c].Accepting = contexts[c].Accepting
           /\ \A e \in Contexts \ {c} : contexts'[e] = contexts[e]
<1> DEFINE r == [contexts[c] EXCEPT !.state = "deleted"]
<1>1. r \in ContextType /\ r.state = "deleted" /\ r.Accepting = contexts[c].Accepting
  BY DEF ContextType
<1>2. contexts' = [contexts EXCEPT ![c] = r]
  BY DEF Drained
<1> HIDE DEF r
<1> QED BY <1>1, <1>2

LEMMA FactoryFailsEffect ==
    ASSUME contexts \in [Contexts -> ContextType], FactoryFails
    PROVE  /\ contexts' \in [Contexts -> ContextType]
           /\ contexts'["first"].state = "deleted" /\ ~contexts'["first"].Accepting
           /\ contexts'["second"] = contexts["second"]
<1> DEFINE r == [contexts["first"] EXCEPT !.state = "deleted", !.Accepting = FALSE]
<1>0. "first" \in Contexts /\ "second" \in Contexts /\ "first" # "second"
  BY DEF Contexts
<1>1. r \in ContextType /\ r.state = "deleted" /\ ~r.Accepting
  BY Zenon, <1>0 DEF ContextType
<1>2. contexts' = [contexts EXCEPT !["first"] = r]
  BY DEF FactoryFails, Delete
<1> HIDE DEF r
<1> QED BY <1>0, <1>1, <1>2

LEMMA MakeTypes == ASSUME LifeTypes, MakeStep PROVE LifeTypes'
<1>1. quic' \in QuicType
  BY OpenOutgoingQuic, AdoptAcceptedQuic, UnwrappedQuic, Zenon DEF LifeTypes, MakeStep, QuicIs
<1>2. contexts' \in [Contexts -> ContextType]
  <2>1. CASE FactoryFails
    BY <2>1, FactoryFailsEffect DEF LifeTypes
  <2>2. CASE ~FactoryFails
    BY <2>2, Zenon DEF LifeTypes, MakeStep, OpenOutgoing, AdoptAccepted,
       EmergencyAcceptedCallback
  <2> QED BY <2>1, <2>2
<1>3. /\ Target' \in Targets /\ holders' \subseteq Contexts \cup {"relay"}
      /\ Phase' \in Phases /\ TerminalRetained' \in BOOLEAN
  BY Zenon DEF LifeTypes, OwnerTypes, MakeStep, OpenOutgoing, AdoptAccepted, FactoryFails,
     EmergencyAcceptedCallback, Targets, Contexts, Phases
<1> QED BY <1>1, <1>2, <1>3, MakeFrame, Zenon DEF LifeTypes, OwnerTypes

LEMMA PhaseTypes ==
    ASSUME Phase \in Phases, TerminalRetained \in BOOLEAN, OwnerStep
    PROVE  Phase' \in Phases /\ TerminalRetained' \in BOOLEAN
BY Zenon, PhaseSteps DEF PhaseStep, Phases

LEMMA StartFailureTarget ==
    ASSUME Target \in Targets, PublishStartFailureAndTakeTarget PROVE Target' \in Targets
BY DEF PublishStartFailureAndTakeTarget, Targets

LEMMA SendTypes ==
    ASSUME LifeTypes, NEW k \in Keys, OwnerSendStep(k) PROVE LifeTypes'
<1>1. sends' \in [Keys -> SendType]
  BY OwnerSendEffect DEF LifeTypes
<1>2. Phase' \in Phases /\ TerminalRetained' \in BOOLEAN
  BY PhaseTypes DEF LifeTypes, OwnerTypes, OwnerStep
<1>3. quic' \in QuicType
  <2>1. CASE Send(k)
    BY <2>1, SendQuic, Zenon DEF LifeTypes, QuicIs, QuicSame
  <2>2. CASE SendComplete(k)
    BY <2>2, SendCompleteQuic, Zenon DEF LifeTypes, QuicIs
  <2>3. CASE ~Send(k) /\ ~SendComplete(k)
    BY <2>3, Zenon DEF LifeTypes, OwnerSendStep, SendStep, BeginSend, FrameReturned,
       TryAcquireApi, CaptureRoute, RegisterSendCompletion, SendReturns,
       CancelSendCompletion
  <2> QED BY <2>1, <2>2, <2>3
<1>4. completions' \in [Keys -> CompletionType] /\ callback' \in [Dispatchers -> CallbackType]
  <2>1. CASE SendComplete(k)
    <3>1. CASE Registered(k)
      <4>1. completions[k].route \in Targets
        BY DEF LifeTypes, CompletionType
      <4>2. callback' \in [Dispatchers -> CallbackType]
        BY <2>1, <3>1, <4>1, DispatchEffect
           DEF LifeTypes, SendComplete, CallbackStages, EventKinds
      <4>3. completions' \in [Keys -> CompletionType]
        BY <2>1, <3>1, CompletionStateEffect DEF LifeTypes, SendComplete, CompletionStates
      <4> QED BY <4>2, <4>3
    <3>2. CASE ~Registered(k)
      BY <2>1, <3>2, CompletionStateEffect DEF LifeTypes, SendComplete, CompletionStates
    <3> QED BY <3>1, <3>2
  <2>2. CASE CaptureRoute(k)
    BY <2>2, CompletionRouteEffect DEF LifeTypes, OwnerTypes, CaptureRoute
  <2>3. CASE RegisterSendCompletion(k)
    BY Zenon, <2>3, CompletionStateEffect DEF LifeTypes, RegisterSendCompletion, CompletionStates
  <2>4. CASE CancelSendCompletion(k)
    <3>1. CASE Registered(k)
      BY <2>4, <3>1, CancelledEffect DEF LifeTypes, CancelSendCompletion
    <3>2. CASE ~Registered(k)
      BY <2>4, <3>2 DEF LifeTypes, CancelSendCompletion, Cancelled
    <3> QED BY <3>1, <3>2
  <2>5. CASE ~SendComplete(k) /\ ~CaptureRoute(k) /\ ~RegisterSendCompletion(k)
             /\ ~CancelSendCompletion(k)
    BY <2>5, Zenon DEF LifeTypes, OwnerSendStep, SendStep, BeginSend, FrameReturned,
       TryAcquireApi, SendReturns, Send
  <2> QED BY <2>1, <2>2, <2>3, <2>4, <2>5
<1>5. Target' \in Targets
  <2>1. CASE CancelSendCompletion(k)
    BY <2>1, StartFailureTarget DEF LifeTypes, OwnerTypes, CancelSendCompletion
  <2>2. CASE ~CancelSendCompletion(k)
    BY <2>2, Zenon DEF LifeTypes, OwnerTypes, OwnerSendStep, SendStep, BeginSend,
       FrameReturned, TryAcquireApi, CaptureRoute, RegisterSendCompletion, Send,
       SendReturns, SendComplete
  <2> QED BY <2>1, <2>2
<1> QED BY <1>1, <1>2, <1>3, <1>4, <1>5, SendFrames, Zenon DEF LifeTypes, OwnerTypes

\* The wish of a call of RequestShutdown, and what it reserves of it.
LEMMA WishFacts ==
    ASSUME shut \in ShutType, NEW intent \in DOMAIN Intents,
           shut.desired.receive <= 1, shut.desired.immediate <= 1
    PROVE  LET desired == Stronger(shut.desired, Intents[intent])
               owns == Reserves(intent, desired)
           IN  /\ desired \in Strengths
               /\ desired.receive <= 1 /\ desired.immediate <= 1
               /\ \A d \in Directions : desired[d] >= shut.desired[d]
               /\ intent # "AbortBothImmediate" =>
                    desired["immediate"] = shut.desired["immediate"]
               /\ owns \subseteq Directions
               /\ Request(owns, desired) \in Strengths
               /\ \A d \in owns : Request(owns, desired)[d] = desired[d]
<1> DEFINE desired == Stronger(shut.desired, Intents[intent])
<1>1. shut.desired \in Strengths /\ Intents[intent] \in Strengths
  BY IntentFacts DEF ShutType
<1>2. /\ desired \in Strengths
      /\ \A d \in Directions : /\ desired[d] \in {shut.desired[d], Intents[intent][d]}
                               /\ desired[d] >= shut.desired[d]
                               /\ desired[d] >= Intents[intent][d]
  BY <1>1, StrongerFacts
<1> HIDE DEF desired
<1>3. desired.receive <= 1 /\ desired.immediate <= 1
  BY <1>1, <1>2, IntentFacts DEF Strengths, Directions
<1>4. intent # "AbortBothImmediate" => desired["immediate"] = shut.desired["immediate"]
  <2>1. intent # "AbortBothImmediate" => Intents[intent]["immediate"] = 0
    BY IntentFacts
  <2>2. /\ desired["immediate"] \in {shut.desired["immediate"], Intents[intent]["immediate"]}
        /\ desired["immediate"] >= shut.desired["immediate"]
        /\ shut.desired["immediate"] \in 0..2
    BY <1>1, <1>2 DEF Strengths, Directions
  <2> QED BY <2>1, <2>2
<1>5. /\ Reserves(intent, desired) \subseteq Directions
      /\ Request(Reserves(intent, desired), desired) \in Strengths
      /\ \A d \in Reserves(intent, desired) :
           Request(Reserves(intent, desired), desired)[d] = desired[d]
  BY <1>2, <1>3, RequestFacts
<1> QED BY <1>2, <1>3, <1>4, <1>5 DEF desired

\* The part of a call of RequestShutdown under the lock.
Reserving(t, intent) ==
    LET desired == Stronger(shut.desired, Intents[intent])
    IN  ReserveShutdown(t, intent, desired, Reserves(intent, desired))

LEMMA ReservingEffect ==
    ASSUME shut \in ShutType, calls \in [Callers -> CallType], NEW t \in Callers,
           NEW intent \in DOMAIN Intents,
           shut.desired.receive <= 1, shut.desired.immediate <= 1, Reserving(t, intent)
    PROVE  /\ shut' \in ShutType /\ calls' \in [Callers -> CallType]
           /\ shut'.desired.receive <= 1 /\ shut'.desired.immediate <= 1
           /\ calls'[t].ok = TRUE
           /\ \A u \in Callers \ {t} : calls'[u] = calls[u]
           /\ shut'.submitted = shut.submitted
           /\ \A d \in Directions :
                \/ shut'.reserved[d] = shut.reserved[d]
                \/ /\ calls'[t].stage # "idle" /\ d \in calls'[t].owns
                   /\ calls'[t].request[d] = shut'.reserved[d]
           /\ \A d \in Directions :
                \/ shut'.reserved[d] = shut'.desired[d]
                \/ /\ shut'.reserved[d] = shut.reserved[d]
                   /\ \/ shut'.desired[d] = shut.desired[d]
                      \/ shut.submitted[d] >= shut'.desired[d]
                      \/ shut.reserved[d] >= shut'.desired[d]
<1> DEFINE desired == Stronger(shut.desired, Intents[intent])
           owns == Reserves(intent, desired)
<1>1. /\ desired \in Strengths /\ owns \subseteq Directions
      /\ Request(owns, desired) \in Strengths
      /\ desired.receive <= 1 /\ desired.immediate <= 1
      /\ intent # "AbortBothImmediate" => desired["immediate"] = shut.desired["immediate"]
      /\ \A d \in owns : Request(owns, desired)[d] = desired[d]
  BY WishFacts
<1>2. ReserveShutdown(t, intent, desired, owns)
  BY DEF Reserving
<1>3. \A d \in Directions \ owns :
         \/ ~(desired[d] > shut.submitted[d]) \/ ~(desired[d] > shut.reserved[d])
         \/ d = "immediate" /\ intent # "AbortBothImmediate"
  BY DEF Reserves
<1> HIDE DEF desired, owns
<1>4. /\ shut' \in ShutType
      /\ shut'.desired = desired /\ shut'.submitted = shut.submitted
      /\ \A d \in Directions :
           shut'.reserved[d] = IF d \in owns THEN desired[d] ELSE shut.reserved[d]
      /\ calls' \in [Callers -> CallType]
      /\ calls'[t].ok = TRUE
      /\ owns # {} => /\ calls'[t].stage # "idle" /\ calls'[t].owns = owns
                      /\ calls'[t].request = Request(owns, desired)
      /\ \A u \in Callers \ {t} : calls'[u] = calls[u]
  <2>1. owns \in SUBSET Directions
    BY <1>1, Zenon
  <2> QED BY <1>1, <1>2, <2>1, ReserveEffect, Zenon
<1>5. ASSUME NEW d \in Directions
      PROVE  \/ shut'.reserved[d] = shut.reserved[d]
             \/ /\ calls'[t].stage # "idle" /\ d \in calls'[t].owns
                /\ calls'[t].request[d] = shut'.reserved[d]
  BY <1>1, <1>4
<1>6. ASSUME NEW d \in Directions
      PROVE  \/ shut'.reserved[d] = shut'.desired[d]
             \/ /\ shut'.reserved[d] = shut.reserved[d]
                /\ \/ shut'.desired[d] = shut.desired[d]
                   \/ shut.submitted[d] >= shut'.desired[d]
                   \/ shut.reserved[d] >= shut'.desired[d]
  <2>1. CASE d \in owns
    BY <1>4, <2>1
  <2>2. CASE d \notin owns
    <3>1. desired[d] \in 0..2 /\ shut.submitted[d] \in 0..2 /\ shut.reserved[d] \in 0..2
      BY <1>1 DEF ShutType, Strengths
    <3> QED BY <1>1, <1>3, <1>4, <2>2, <3>1
  <2> QED BY <2>1, <2>2
<1> QED BY <1>1, <1>4, <1>5, <1>6

\* Bounds that the values of the shutdown state keep.
ShutBounds ==
    /\ quic.failures <= env.failures
    /\ shut.desired.receive <= 1 /\ shut.desired.immediate <= 1

LEMMA ShutdownTypes ==
    ASSUME LifeTypes, ShutBounds, OwnerShutdownStep PROVE LifeTypes'
<1>1. env.failures \in Nat
  BY ScenarioFailures DEF LifeTypes, OwnerTypes
<1>2. ASSUME NEW t \in Callers, NEW intent \in DOMAIN Intents, Reserving(t, intent)
      PROVE  shut' \in ShutType /\ calls' \in [Callers -> CallType]
  BY Zenon, <1>2, ReservingEffect DEF LifeTypes, ShutBounds
<1>3. /\ shut' \in ShutType /\ calls' \in [Callers -> CallType]
      /\ callback' \in [Dispatchers -> CallbackType] /\ quic' \in QuicType
  <2>1. ASSUME NEW t \in Callers, NEW intent \in DOMAIN Intents, RequestShutdown(t, intent)
        PROVE  /\ shut' \in ShutType /\ calls' \in [Callers -> CallType]
               /\ callback' \in [Dispatchers -> CallbackType] /\ quic' \in QuicType
    <3>1. UNCHANGED <<callback, quic>>
      BY <2>1, Zenon DEF RequestShutdown
    <3>2. Reserving(t, intent) \/ UNCHANGED <<shut, calls>>
      BY <2>1, Zenon DEF RequestShutdown, Reserving
    <3> QED BY <1>2, <3>1, <3>2 DEF LifeTypes
  <2>2. ASSUME NEW t \in Callers, Downcall(t)
        PROVE  /\ shut' \in ShutType /\ calls' \in [Callers -> CallType]
               /\ callback' \in [Dispatchers -> CallbackType] /\ quic' \in QuicType
    <3>1. UNCHANGED <<callback, shut>>
      BY <2>2, Zenon DEF Downcall
    <3>2. quic' \in QuicType
      BY Zenon, <1>1, <2>2, DowncallQuic DEF LifeTypes, ShutBounds, QuicIs
    <3>3. \/ calls' = [calls EXCEPT ![t].stage = "settle"]
          \/ calls' = [calls EXCEPT ![t] = [@ EXCEPT !.stage = "settle", !.ok = FALSE]]
      BY <2>2, Zenon DEF Downcall
    <3> QED BY Zenon, <3>1, <3>2, <3>3, DowncallEffect DEF LifeTypes
  <2>3. ASSUME NEW t \in Callers, SettleShutdown(t)
        PROVE  /\ shut' \in ShutType /\ calls' \in [Callers -> CallType]
               /\ callback' \in [Dispatchers -> CallbackType] /\ quic' \in QuicType
    <3>1. UNCHANGED <<callback, quic>>
      BY <2>3, Zenon DEF SettleShutdown
    <3> QED BY Zenon, <2>3, <3>1, SettleEffect DEF LifeTypes
  <2>4. CASE CancelRequests
    <3>1. UNCHANGED quic /\ Dispatch("CANCEL_ON_LOSS", "capture", "none", "none")
      BY <2>4, Zenon DEF CancelRequests
    <3>2. callback' \in [Dispatchers -> CallbackType]
      BY Zenon, <3>1, DispatchEffect DEF LifeTypes, CallbackStages, Targets, EventKinds
    <3>4. Reserving(Msquic, "AbortBoth") \/ UNCHANGED <<shut, calls>>
      BY <2>4, Zenon DEF CancelRequests, Reserving
    <3>5. Msquic \in Callers /\ "AbortBoth" \in DOMAIN Intents
      BY DEF Callers, Intents
    <3> QED BY <1>2, <3>1, <3>2, <3>4, <3>5 DEF LifeTypes
  <2> QED BY <2>1, <2>2, <2>3, <2>4, Zenon DEF OwnerShutdownStep, CallStep
<1> QED BY <1>3, ShutdownFrame, Zenon DEF LifeTypes, OwnerTypes

EventNames == {"START_COMPLETE", "RECEIVE", "PEER_SEND_ABORTED", "SEND_SHUTDOWN_COMPLETE",
               "CANCEL_ON_LOSS", "SHUTDOWN_COMPLETE"}

\* How the dispatch of an event begins.
LEMMA EventDispatch ==
    ASSUME OwnerEventStep, Target \in Targets
    PROVE  \E event \in EventKinds, stage \in CallbackStages, target \in Targets :
             Dispatch(event, stage, target, "none")
<1>1. \E event \in EventNames, stage \in {"capture", "cancel", "routed", "leaving"},
         target \in {Target, "none"} : Dispatch(event, stage, target, "none")
  BY Zenon DEF OwnerEventStep, StartComplete, Receive, SendShutdownComplete, CancelOnLoss,
     ShutdownComplete, EventNames
<1>2. PICK event \in EventNames, stage \in {"capture", "cancel", "routed", "leaving"},
           target \in {Target, "none"} : Dispatch(event, stage, target, "none")
  BY <1>1
<1>3. event \in EventKinds /\ stage \in CallbackStages /\ target \in Targets
  BY DEF EventNames, EventKinds, CallbackStages, Targets
<1> QED BY <1>2, <1>3, Zenon

LEMMA EventTypes == ASSUME LifeTypes, OwnerEventStep PROVE LifeTypes'
<1>1. Phase' \in Phases /\ TerminalRetained' \in BOOLEAN
  BY PhaseTypes DEF LifeTypes, OwnerTypes, OwnerStep
<1>2. quic' \in QuicType
  BY StartCompleteQuic, ReceiveQuic, SendShutdownCompleteQuic, CancelOnLossQuic,
     ShutdownCompleteQuic, Zenon DEF LifeTypes, OwnerEventStep, QuicSame, QuicIs
<1>3. shut' \in ShutType
  <2>1. ASSUME NEW graceful \in BOOLEAN, SendShutdownComplete(graceful)
        PROVE  shut' \in ShutType
    BY <2>1, SendShutdownEffect DEF LifeTypes
  <2>2. CASE UNCHANGED shut
    BY <2>2 DEF LifeTypes
  <2> QED BY <2>1, <2>2, Zenon DEF OwnerEventStep, StartComplete, Receive, CancelOnLoss,
             ShutdownComplete
<1>5. callback' \in [Dispatchers -> CallbackType]
  BY EventDispatch, DispatchEffect, Zenon DEF LifeTypes, OwnerTypes
<1>6. Target' \in Targets
  <2>1. Target' = "none" \/ Target' = Target
    BY Zenon DEF OwnerEventStep, StartComplete, Receive, SendShutdownComplete, CancelOnLoss,
       ShutdownComplete, PublishStartFailureAndTakeTarget
  <2> QED BY <2>1 DEF LifeTypes, OwnerTypes, Targets
<1>7. terminal' \in [Phase : {"Active", "ShutdownReserved", "ShutdownSubmitted",
                              "TerminalObserved"}, calling : BOOLEAN]
  <2>1. terminal' = terminal \/ terminal' = [terminal EXCEPT !.Phase = "TerminalObserved"]
    BY Zenon DEF OwnerEventStep, StartComplete, Receive, SendShutdownComplete, CancelOnLoss,
       ShutdownComplete
  <2> QED BY <2>1 DEF LifeTypes, OwnerTypes
<1> QED BY <1>1, <1>2, <1>3, <1>5, <1>6, <1>7, EventFrame, Zenon DEF LifeTypes, OwnerTypes

LEMMA DispatchTypes == ASSUME LifeTypes, OwnerDispatchStep PROVE LifeTypes'
<1>1. callback' \in [Dispatchers -> CallbackType]
  <2>1. Target \in Targets /\ callback \in [Dispatchers -> CallbackType]
    BY DEF LifeTypes, OwnerTypes
  <2> QED BY <2>1, TakeRouteEffect, EnterEffect, LeaveEffect, ReturnEffect, BufferedEffect,
             Zenon DEF OwnerDispatchStep
<1>2. completions' \in [Keys -> CompletionType]
  <2>1. ASSUME NEW d \in Dispatchers, Leave(d) PROVE completions' \in [Keys -> CompletionType]
    <3>1. CASE callback[d].key \in Keys
      BY <2>1, <3>1, CleanupEffect DEF LifeTypes
    <3>2. CASE callback[d].key \notin Keys
      BY <2>1, <3>2 DEF LifeTypes, Leave
    <3> QED BY <3>1, <3>2
  <2>2. CASE UNCHANGED completions
    BY <2>2 DEF LifeTypes
  <2> QED BY <2>1, <2>2, Zenon DEF OwnerDispatchStep, TakeRoute, OnStreamEvent,
             ReturnFromCallback, DispatchBufferedEvent
<1> QED BY <1>1, <1>2, DispatchFrame, Zenon DEF LifeTypes, OwnerTypes

LEMMA RouteTypes ==
    ASSUME LifeTypes, ShutBounds, OwnerRouteStep PROVE LifeTypes'
<1>1. env.failures \in Nat
  BY ScenarioFailures DEF LifeTypes, OwnerTypes
<1>2. quic' \in QuicType
  <2>1. CASE CallTerminalShutdown
    BY <1>1, <2>1, CallTerminalShutdownQuic DEF LifeTypes, ShutBounds, QuicIs
  <2>2. CASE ~CallTerminalShutdown
    BY <2>2, Zenon DEF LifeTypes, OwnerRouteStep, ReadGeneration, PublishTarget,
       BeginTerminalShutdown, RelayRetires
  <2> QED BY <2>1, <2>2
<1>3. Target' \in Targets /\ RouteGeneration' \in Nat
  <2>1. Target' \in {Target, "relay", "sink"}
    BY Zenon DEF OwnerRouteStep, ReadGeneration, PublishTarget, BeginTerminalShutdown,
       CallTerminalShutdown, RelayRetires
  <2>2. RouteGeneration' \in {RouteGeneration, RouteGeneration + 1}
    BY Zenon DEF OwnerRouteStep, ReadGeneration, PublishTarget, BeginTerminalShutdown,
       CallTerminalShutdown, RelayRetires
  <2> QED BY <2>1, <2>2 DEF LifeTypes, OwnerTypes, Targets
<1>4. holders' \subseteq Contexts \cup {"relay"}
  <2>1. holders' \in {holders, holders \cup {"relay"}, holders \ {"relay"}}
    BY Zenon DEF OwnerRouteStep, ReadGeneration, PublishTarget, BeginTerminalShutdown,
       CallTerminalShutdown, RelayRetires
  <2> QED BY <2>1 DEF LifeTypes, OwnerTypes
<1>5. relay' \in [stage : {"none", "reading", "routed", "gone"}, expected : Nat]
  <2>1. \/ relay' = relay
        \/ relay' = [stage |-> "reading", expected |-> RouteGeneration]
        \/ relay' = [relay EXCEPT !.stage = "routed"]
        \/ relay' = [relay EXCEPT !.stage = "gone"]
    BY Zenon DEF OwnerRouteStep, ReadGeneration, PublishTarget, BeginTerminalShutdown,
       CallTerminalShutdown, RelayRetires
  <2> QED BY <2>1 DEF LifeTypes, OwnerTypes
<1>6. terminal' \in [Phase : {"Active", "ShutdownReserved", "ShutdownSubmitted",
                              "TerminalObserved"}, calling : BOOLEAN]
  <2>1. CASE CallTerminalShutdown
    <3>1. PICK p \in {terminal.Phase, "ShutdownSubmitted", "Active"} :
             terminal' = [calling |-> FALSE, Phase |-> p]
      BY <2>1 DEF CallTerminalShutdown
    <3> QED BY <3>1 DEF LifeTypes, OwnerTypes
  <2>2. CASE BeginTerminalShutdown
    BY <2>2 DEF BeginTerminalShutdown
  <2>3. CASE UNCHANGED terminal
    BY <2>3 DEF LifeTypes, OwnerTypes
  <2> QED BY <2>1, <2>2, <2>3, Zenon DEF OwnerRouteStep, ReadGeneration, PublishTarget,
             RelayRetires
<1> QED BY <1>2, <1>3, <1>4, <1>5, <1>6, RouteFrame, Zenon DEF LifeTypes, OwnerTypes

LEMMA ContextStepTypes == ASSUME LifeTypes, OwnerContextStep PROVE LifeTypes'
<1>1. contexts' \in [Contexts -> ContextType]
  <2>1. ASSUME NEW c \in Contexts, DeleteInside(Msquic, c)
        PROVE  contexts' \in [Contexts -> ContextType]
    BY Zenon, <2>1, DeletedInsideEffect DEF LifeTypes, DeleteInside
  <2> QED BY <2>1, DetachEffect, DrainedEffect, HandOffEffect, Zenon
          DEF LifeTypes, OwnerContextStep, HandOffToTunnelContext,
              HandOffToSpeedControlStream
<1>2. /\ holders' \subseteq Contexts \cup {"relay"}
      /\ Target' \in Targets /\ RouteGeneration' \in Nat
  <2>1. ASSUME NEW c \in Contexts, Detach(c) \/ Drained(c) \/ DeleteInside(Msquic, c)
        PROVE  /\ holders' \subseteq holders /\ Target' = Target
               /\ RouteGeneration' = RouteGeneration
    BY <2>1 DEF Detach, Drained, DeleteInside
  <2>2. ASSUME NEW what, NEW next, HandOff(what, next)
        PROVE  /\ holders' = (holders \ {"first"}) \cup {"second"}
               /\ Target' = "second" /\ RouteGeneration' = RouteGeneration + 1
    BY <2>2, Zenon DEF HandOff
  <2>3. \/ /\ holders' \subseteq holders /\ Target' = Target
           /\ RouteGeneration' = RouteGeneration
        \/ /\ holders' = (holders \ {"first"}) \cup {"second"}
           /\ Target' = "second" /\ RouteGeneration' = RouteGeneration + 1
    BY <2>1, <2>2, Zenon DEF OwnerContextStep, HandOffToTunnelContext,
       HandOffToSpeedControlStream
  <2>4. /\ holders \subseteq Contexts \cup {"relay"} /\ Target \in Targets
        /\ RouteGeneration \in Nat
    BY DEF LifeTypes, OwnerTypes
  <2>5. "second" \in Contexts /\ "second" \in Targets
    BY DEF Targets, Contexts
  <2>6. Target' \in Targets /\ RouteGeneration' \in Nat
    BY <2>3, <2>4, <2>5
  <2> QED BY <2>3, <2>4, <2>5, <2>6, Zenon
<1> QED BY <1>1, <1>2, ContextFrame, Zenon DEF LifeTypes, OwnerTypes

LEMMA LifeTypesStep ==
    ASSUME LifeTypes, ShutBounds, OwnerStep PROVE LifeTypes'
BY MakeTypes, SendTypes, ShutdownTypes, EventTypes, DispatchTypes, RouteTypes,
   ContextStepTypes, Zenon DEF OwnerStep

-----------------------------------------------------------------------------
(* Sends: from the caller's stack to g_sendCompletions, to MsQuic, and back  *)
(* through the callback.                                                    *)

\* The entry of a send agrees with the progress of its caller, with what MsQuic
\* has and with the callback that completes it.
SendOK(k) ==
    /\ sends[k].stage \in {"idle", "begun", "leased", "captured"} =>
         completions[k].state = "none"
    /\ sends[k].stage \in {"registered", "refused"} =>
         completions[k].state = "registered" /\ k \notin quic.pending
    /\ k \in quic.pending => completions[k].state = "registered"
    /\ completions[k].state \in {"none", "registered"} =>
         completions[k].cleanups = 0 /\ completions[k].delivered = "none"
    /\ callback[Msquic].key = k =>
         /\ completions[k].state = "claimed" /\ completions[k].cleanups = 0
         /\ callback[Msquic].target = completions[k].route
    /\ completions[k].state # "unknown" /\ completions[k].cleanups <= 1
    /\ completions[k].delivered \in {"none", completions[k].route}

\* Only MsQuic's thread completes sends, after the entry was claimed.
KeyOK(d) ==
    callback[d].key \in Keys =>
      d = Msquic /\ callback[d].stage \in {"routed", "inside", "leaving"}

SendInv == (\A k \in Keys : SendOK(k)) /\ (\A d \in Dispatchers : KeyOK(d))

\* What leaves an entry as it was.
LEMMA SendOKStays ==
    ASSUME NEW k \in Keys, SendOK(k),
           sends'[k].stage = sends[k].stage, completions'[k] = completions[k],
           k \in quic'.pending => k \in quic.pending,
           callback'[Msquic].key = k => /\ callback[Msquic].key = k
                                        /\ callback'[Msquic].target = callback[Msquic].target
    PROVE  SendOK(k)'
BY DEF SendOK

LEMMA MsquicDispatches ==
    Msquic \in Dispatchers /\ "buffered" \in Dispatchers /\ "buffered" # Msquic
    /\ \A d \in Dispatchers : d = Msquic \/ d = "buffered"
BY DEF Dispatchers, Msquic

\* A step that neither sends nor completes: the dispatches it changes complete no
\* send, or go on with the same one.
LEMMA SendInvStays ==
    ASSUME SendInv, UNCHANGED <<sends, completions>>, quic'.pending \subseteq quic.pending,
           \A d \in Dispatchers :
             \/ callback'[d] = callback[d]
             \/ callback'[d].key \notin Keys
             \/ /\ callback'[d].key = callback[d].key
                /\ callback'[d].target = callback[d].target
                /\ callback'[d].stage \in {"routed", "inside", "leaving"}
    PROVE  SendInv'
<1>1. ASSUME NEW k \in Keys PROVE SendOK(k)'
  <2>1. callback'[Msquic].key = k => /\ callback[Msquic].key = k
                                     /\ callback'[Msquic].target = callback[Msquic].target
    BY MsquicDispatches
  <2>2. SendOK(k) /\ (k \in quic'.pending => k \in quic.pending)
    BY DEF SendInv
  <2> QED BY <2>1, <2>2, SendOKStays
<1>2. ASSUME NEW d \in Dispatchers PROVE KeyOK(d)'
  <2>1. KeyOK(d)
    BY DEF SendInv
  <2> QED BY <2>1 DEF KeyOK
<1> QED BY <1>1, <1>2 DEF SendInv

\* A dispatch that begins, or that requests the abort, completes no send.
LEMMA NewDispatchKey ==
    ASSUME callback \in [Dispatchers -> CallbackType], Target \in Targets,
           NEW event \in EventKinds, NEW stage \in CallbackStages, NEW target \in Targets,
           Dispatch(event, stage, target, "none")
    PROVE  \A d \in Dispatchers : callback'[d] = callback[d] \/ callback'[d].key \notin Keys
<1>1. callback'[Msquic].key = "none" /\ callback'["buffered"] = callback["buffered"]
  BY DispatchEffect
<1> QED BY <1>1, MsquicDispatches, LifetimeAssumption

LEMMA SendInvMake == ASSUME LifeTypes, SendInv, MakeStep PROVE SendInv'
<1>1. quic'.pending = quic.pending
  BY OpenOutgoingQuic, AdoptAcceptedQuic, UnwrappedQuic, Zenon DEF LifeTypes, MakeStep, QuicIs
<1> QED BY <1>1, MakeFrame, SendInvStays

LEMMA SendInvShutdown ==
    ASSUME LifeTypes, ShutBounds, SendInv, OwnerShutdownStep PROVE SendInv'
<1>1. env.failures \in Nat
  BY ScenarioFailures DEF LifeTypes, OwnerTypes
<1>2. quic'.pending = quic.pending
  <2>1. ASSUME NEW t \in Callers, Downcall(t) PROVE quic'.pending = quic.pending
    BY Zenon, <1>1, <2>1, DowncallQuic DEF LifeTypes, ShutBounds, QuicIs
  <2> QED BY <2>1, Zenon DEF OwnerShutdownStep, CallStep, RequestShutdown, SettleShutdown,
             CancelRequests
<1>3. \A d \in Dispatchers : callback'[d] = callback[d] \/ callback'[d].key \notin Keys
  <2>1. CASE CancelRequests
    <3>1. Dispatch("CANCEL_ON_LOSS", "capture", "none", "none")
      BY <2>1, Zenon DEF CancelRequests
    <3> QED BY <3>1, NewDispatchKey
            DEF LifeTypes, OwnerTypes, CallbackStages, Targets, EventKinds
  <2>2. CASE UNCHANGED callback
    BY <2>2
  <2> QED BY <2>1, <2>2, Zenon DEF OwnerShutdownStep, CallStep, RequestShutdown, Downcall,
             SettleShutdown
<1> QED BY <1>2, <1>3, ShutdownFrame, SendInvStays

LEMMA SendInvEvent == ASSUME LifeTypes, SendInv, OwnerEventStep PROVE SendInv'
<1>1. quic'.pending = quic.pending
  BY StartCompleteQuic, ReceiveQuic, SendShutdownCompleteQuic, CancelOnLossQuic,
     ShutdownCompleteQuic, Zenon DEF LifeTypes, OwnerEventStep, QuicSame, QuicIs
<1>2. \A d \in Dispatchers : callback'[d] = callback[d] \/ callback'[d].key \notin Keys
  BY EventDispatch, NewDispatchKey, Zenon DEF LifeTypes, OwnerTypes
<1> QED BY <1>1, <1>2, EventFrame, SendInvStays

LEMMA SendInvDispatch == ASSUME LifeTypes, SendInv, OwnerDispatchStep PROVE SendInv'
<1>1. /\ Target \in Targets /\ callback \in [Dispatchers -> CallbackType]
      /\ completions \in [Keys -> CompletionType]
  BY DEF LifeTypes, OwnerTypes
<1>2. UNCHANGED <<sends, quic>>
  BY DispatchFrame
<1>3. ASSUME NEW d \in Dispatchers, TakeRoute(d) PROVE SendInv'
  <2>1. KeyOK(d) /\ callback[d].stage = "capture"
    BY <1>3 DEF SendInv, TakeRoute
  <2>2. callback[d].key \notin Keys
    BY <2>1 DEF KeyOK
  <2>3. UNCHANGED completions
    BY <1>3 DEF TakeRoute
  <2>4. /\ callback'[d].key = callback[d].key
        /\ \A e \in Dispatchers \ {d} : callback'[e] = callback[e]
    BY <1>1, <1>3, TakeRouteEffect
  <2> QED BY <1>2, <2>2, <2>3, <2>4, SendInvStays
<1>4. ASSUME NEW d \in Dispatchers, OnStreamEvent(d) PROVE SendInv'
  <2>1. UNCHANGED completions
    BY <1>4 DEF OnStreamEvent
  <2>2. /\ callback'[d].stage \in {"inside", "leaving"}
        /\ callback'[d].target = callback[d].target
        /\ callback'[d].key = callback[d].key
        /\ \A e \in Dispatchers \ {d} : callback'[e] = callback[e]
    BY <1>1, <1>4, EnterEffect
  <2> QED BY <1>2, <2>1, <2>2, SendInvStays
<1>5. CASE ReturnFromCallback
  <2>1. UNCHANGED completions
    BY <1>5 DEF ReturnFromCallback
  <2>2. /\ callback'[Msquic].stage = "leaving"
        /\ callback'[Msquic].target = callback[Msquic].target
        /\ callback'[Msquic].key = callback[Msquic].key
        /\ callback'["buffered"] = callback["buffered"]
    BY <1>1, <1>5, ReturnEffect
  <2> QED BY <1>2, <2>1, <2>2, MsquicDispatches, SendInvStays
<1>6. CASE DispatchBufferedEvent
  <2>1. UNCHANGED completions
    BY <1>6 DEF DispatchBufferedEvent
  <2>2. callback'["buffered"].key = "none" /\ callback'[Msquic] = callback[Msquic]
    BY <1>1, <1>6, BufferedEffect
  <2> QED BY <1>2, <2>1, <2>2, MsquicDispatches, LifetimeAssumption, SendInvStays
<1>7. ASSUME NEW d \in Dispatchers, Leave(d) PROVE SendInv'
  <2>1. /\ callback'[d].stage = "idle" /\ callback'[d].target = "none"
        /\ callback'[d].key = "none"
        /\ \A e \in Dispatchers \ {d} : callback'[e] = callback[e]
    BY <1>1, <1>7, LeaveEffect
  <2>2. CASE callback[d].key \notin Keys
    <3>1. UNCHANGED completions
      BY <1>7, <2>2 DEF Leave
    <3> QED BY <1>2, <2>1, <3>1, LifetimeAssumption, SendInvStays
  <2>3. CASE callback[d].key \in Keys
    <3>0. PICK k \in Keys : k = callback[d].key
      BY <2>3
    <3>1. d = Msquic /\ callback[Msquic].key = k
      BY <2>3, <3>0 DEF SendInv, KeyOK
    <3>2. /\ completions'[k].state = completions[k].state
          /\ completions'[k].route = completions[k].route
          /\ completions'[k].delivered = callback[d].target
          /\ completions'[k].cleanups = completions[k].cleanups + 1
          /\ \A j \in Keys \ {k} : completions'[j] = completions[j]
      BY <1>1, <1>7, <3>0, CleanupEffect
    <3>3. SendOK(k)
      BY <3>1 DEF SendInv
    <3>4. callback'[Msquic].key \notin Keys
      BY <2>1, <3>1, LifetimeAssumption
    <3>5. SendOK(k)'
      BY <1>2, <3>1, <3>2, <3>3, <3>4 DEF SendOK
    <3>6. ASSUME NEW j \in Keys, j # k PROVE SendOK(j)'
      <4>1. SendOK(j)
        BY DEF SendInv
      <4> QED BY <1>2, <3>2, <3>4, <3>6, <4>1, SendOKStays
    <3>7. ASSUME NEW e \in Dispatchers PROVE KeyOK(e)'
      <4>1. KeyOK(e)
        BY DEF SendInv
      <4> QED BY <2>1, <3>1, <3>4, <4>1 DEF KeyOK
    <3> QED BY <3>5, <3>6, <3>7, Zenon DEF SendInv
  <2> QED BY <2>2, <2>3
<1> QED BY <1>3, <1>4, <1>5, <1>6, <1>7, Zenon DEF OwnerDispatchStep

LEMMA SendInvRest ==
    ASSUME LifeTypes, ShutBounds, SendInv, OwnerRouteStep \/ OwnerContextStep PROVE SendInv'
<1>1. env.failures \in Nat
  BY ScenarioFailures DEF LifeTypes, OwnerTypes
<1>2. UNCHANGED <<sends, completions, callback>>
  BY RouteFrame, ContextFrame
<1>3. quic'.pending = quic.pending
  <2>1. CASE CallTerminalShutdown
    BY <1>1, <2>1, CallTerminalShutdownQuic DEF LifeTypes, ShutBounds, QuicIs
  <2>2. CASE OwnerContextStep
    BY <2>2, ContextFrame
  <2> QED BY <2>1, <2>2, Zenon DEF OwnerRouteStep, ReadGeneration, PublishTarget,
             BeginTerminalShutdown, RelayRetires
<1> QED BY <1>2, <1>3, SendInvStays

\* A step of the send k leaves the others alone.
LEMMA OtherSends ==
    ASSUME LifeTypes, SendInv, NEW k \in Keys, OwnerSendStep(k),
           \A j \in Keys \ {k} : completions'[j] = completions[j],
           quic'.pending \subseteq quic.pending \cup {k},
           \/ UNCHANGED callback
           \/ /\ callback'[Msquic].key = k
              /\ callback'[Msquic].stage = "routed"
              /\ callback'["buffered"] = callback["buffered"],
           SendOK(k)'
    PROVE  SendInv'
<1>1. \A j \in Keys \ {k} : sends'[j] = sends[j]
  BY OwnerSendEffect DEF LifeTypes
<1>2. ASSUME NEW j \in Keys, j # k PROVE SendOK(j)'
  <2>1. SendOK(j)
    BY DEF SendInv
  <2>2. callback'[Msquic].key = j => /\ callback[Msquic].key = j
                                     /\ callback'[Msquic].target = callback[Msquic].target
    BY <1>2
  <2>3. j \in quic'.pending => j \in quic.pending
    BY <1>2
  <2> QED BY <1>1, <1>2, <2>1, <2>2, <2>3, SendOKStays
<1>3. ASSUME NEW d \in Dispatchers PROVE KeyOK(d)'
  <2>1. KeyOK(d)
    BY DEF SendInv
  <2> QED BY <2>1, MsquicDispatches DEF KeyOK
<1> QED BY <1>2, <1>3 DEF SendInv

LEMMA SendInvSend ==
    ASSUME LifeTypes, SendInv, NEW k \in Keys, OwnerSendStep(k) PROVE SendInv'
<1>1. /\ sends \in [Keys -> SendType] /\ completions \in [Keys -> CompletionType]
      /\ callback \in [Dispatchers -> CallbackType] /\ quic \in QuicType
      /\ Target \in Targets
  BY DEF LifeTypes, OwnerTypes
<1>2. SendOK(k)
  BY DEF SendInv
<1>3. ASSUME UNCHANGED callback, \A j \in Keys \ {k} : completions'[j] = completions[j],
             quic'.pending \subseteq quic.pending \cup {k}, SendOK(k)'
      PROVE  SendInv'
  BY <1>3, OtherSends
<1>4. CASE BeginSend(k, Msquic) \/ BeginSend(k, "thread")
  <2>1. UNCHANGED <<callback, completions, quic>> /\ sends[k].stage = "idle"
    BY <1>4, Zenon DEF BeginSend
  <2>2. sends'[k].stage = "begun"
    BY <1>1, <1>4, BeginSendEffect, Zenon
  <2>3. SendOK(k)'
    BY <1>2, <2>1, <2>2 DEF SendOK
  <2> QED BY <1>3, <2>1, <2>3
<1>5. CASE FrameReturned(k)
  <2>1. UNCHANGED <<callback, completions, quic>>
    BY <1>5 DEF FrameReturned
  <2>2. sends'[k].stage = sends[k].stage
    BY <1>1, <1>5, FrameReturnedEffect
  <2>3. SendOK(k)'
    BY <1>2, <2>1, <2>2, SendOKStays
  <2> QED BY <1>3, <2>1, <2>3
<1>6. CASE TryAcquireApi(k)
  <2>1. UNCHANGED <<callback, completions, quic>> /\ sends[k].stage = "begun"
    BY <1>6 DEF TryAcquireApi
  <2>2. PICK stage \in {"leased", "done"} : SendStage(k, stage)
    BY <1>6 DEF TryAcquireApi
  <2>3. sends'[k].stage \in {"leased", "done"}
    BY <1>1, <2>2, SendStageEffect DEF SendStages
  <2>4. SendOK(k)'
    BY <1>2, <2>1, <2>3 DEF SendOK
  <2> QED BY <1>3, <2>1, <2>4
<1>7. CASE CaptureRoute(k)
  <2>1. UNCHANGED <<callback, quic>> /\ sends[k].stage = "leased"
    BY <1>7 DEF CaptureRoute
  <2>2. CASE SendStage(k, "captured") /\ completions' = [completions EXCEPT ![k].route = Target]
    <3>1. sends'[k].stage = "captured"
      BY <1>1, <2>2, SendStageEffect DEF SendStages
    <3>2. /\ completions'[k].state = completions[k].state
          /\ completions'[k].delivered = completions[k].delivered
          /\ completions'[k].cleanups = completions[k].cleanups
          /\ \A j \in Keys \ {k} : completions'[j] = completions[j]
      BY <1>1, <2>2, CompletionRouteEffect
    <3>3. SendOK(k)'
      BY <1>2, <2>1, <3>1, <3>2 DEF SendOK
    <3> QED BY <1>3, <2>1, <3>2, <3>3
  <2>3. CASE SendStage(k, "done") /\ UNCHANGED completions
    <3>1. sends'[k].stage = "done"
      BY <1>1, <2>3, SendStageEffect DEF SendStages
    <3>2. SendOK(k)'
      BY <1>2, <2>1, <2>3, <3>1 DEF SendOK
    <3> QED BY <1>3, <2>1, <2>3, <3>2
  <2> QED BY <1>7, <2>2, <2>3, Zenon DEF CaptureRoute
<1>8. CASE RegisterSendCompletion(k)
  <2>1. UNCHANGED <<callback, quic>> /\ sends[k].stage = "captured"
    BY <1>8 DEF RegisterSendCompletion
  <2>2. sends'[k].stage = "registered"
    BY <1>1, <1>8, SendStageEffect DEF SendStages, RegisterSendCompletion
  <2>3. /\ completions'[k].state = "registered"
        /\ completions'[k].route = completions[k].route
        /\ completions'[k].delivered = completions[k].delivered
        /\ completions'[k].cleanups = completions[k].cleanups
        /\ \A j \in Keys \ {k} : completions'[j] = completions[j]
    BY <1>1, <1>8, CompletionStateEffect DEF CompletionStates, RegisterSendCompletion
  <2>4. SendOK(k)'
    BY Zenon, <1>2, <2>1, <2>2, <2>3 DEF SendOK
  <2> QED BY <1>3, <2>1, <2>3, <2>4
<1>9. CASE Send(k)
  <2>1. UNCHANGED <<callback, completions>> /\ sends[k].stage = "registered"
    BY <1>9 DEF Send
  <2>2. CASE SendStage(k, "accepted") /\ quic'.pending = quic.pending \cup {k}
    <3>1. sends'[k].stage = "accepted"
      BY <1>1, <2>2, SendStageEffect DEF SendStages
    <3>2. SendOK(k)'
      BY <1>2, <2>1, <2>2, <3>1 DEF SendOK
    <3> QED BY <1>3, <2>1, <2>2, <3>2
  <2>3. CASE SendStage(k, "refused") /\ quic'.pending = quic.pending
    <3>1. sends'[k].stage = "refused"
      BY <1>1, <2>3, SendStageEffect DEF SendStages
    <3>2. SendOK(k)'
      BY <1>2, <2>1, <2>3, <3>1 DEF SendOK
    <3> QED BY <1>3, <2>1, <2>3, <3>2
  <2> QED BY <1>1, <1>9, <2>2, <2>3, SendQuic, Zenon DEF QuicIs, QuicSame
<1>10. CASE SendReturns(k)
  <2>1. UNCHANGED <<callback, completions, quic>> /\ sends[k].stage = "accepted"
    BY <1>10 DEF SendReturns
  <2>2. sends'[k].stage = "done"
    BY <1>1, <1>10, SendReturnsEffect
  <2>3. SendOK(k)'
    BY <1>2, <2>1, <2>2 DEF SendOK
  <2> QED BY <1>3, <2>1, <2>3
<1>11. CASE CancelSendCompletion(k)
  <2>1. UNCHANGED <<callback, quic>> /\ sends[k].stage = "refused"
        /\ SendStage(k, "done") /\ completions' = Cancelled(k)
    BY <1>11 DEF CancelSendCompletion
  <2>2. sends'[k].stage = "done"
    BY <1>1, <2>1, SendStageEffect DEF SendStages
  <2>3. Registered(k)
    BY <1>2, <2>1 DEF SendOK, Registered
  <2>4. /\ completions'[k].state = "cancelled"
        /\ completions'[k].route = completions[k].route
        /\ completions'[k].delivered = completions[k].delivered
        /\ completions'[k].cleanups = completions[k].cleanups + 1
        /\ \A j \in Keys \ {k} : completions'[j] = completions[j]
    BY <1>1, <2>1, <2>3, CancelledEffect
  <2>5. SendOK(k)'
    BY <1>2, <2>1, <2>2, <2>4 DEF SendOK
  <2> QED BY <1>3, <2>1, <2>4, <2>5
<1>12. CASE SendComplete(k)
  <2>1. UNCHANGED sends /\ k \in quic.pending
    BY <1>12, Zenon DEF SendComplete
  <2>2. Registered(k) /\ quic'.pending = quic.pending \ {k}
    BY <1>1, <1>2, <1>12, <2>1, SendCompleteQuic DEF SendOK, Registered, QuicIs
  <2>3. /\ completions' = [completions EXCEPT ![k].state = "claimed"]
        /\ Dispatch("SEND_COMPLETE", "routed", completions[k].route, k)
    BY <1>12, <2>2, Zenon DEF SendComplete
  <2>4. /\ completions'[k].state = "claimed"
        /\ completions'[k].route = completions[k].route
        /\ completions'[k].delivered = completions[k].delivered
        /\ completions'[k].cleanups = completions[k].cleanups
        /\ \A j \in Keys \ {k} : completions'[j] = completions[j]
    BY <1>1, <2>3, CompletionStateEffect DEF CompletionStates
  <2>5. completions[k].route \in Targets
    BY <1>1 DEF CompletionType
  <2>6. /\ callback'[Msquic].stage = "routed" /\ callback'[Msquic].key = k
        /\ callback'[Msquic].target = completions[k].route
        /\ callback'["buffered"] = callback["buffered"]
    BY <1>1, <2>3, <2>5, DispatchEffect DEF CallbackStages, EventKinds
  <2>7. SendOK(k)'
    BY <1>2, <2>1, <2>2, <2>4, <2>6 DEF SendOK, Registered
  <2> QED BY <2>2, <2>4, <2>6, <2>7, OtherSends
<1> QED BY <1>4, <1>5, <1>6, <1>7, <1>8, <1>9, <1>10, <1>11, <1>12, Zenon
        DEF OwnerSendStep, SendStep

LEMMA SendInvStep ==
    ASSUME LifeTypes, ShutBounds, SendInv, OwnerStep PROVE SendInv'
BY SendInvMake, SendInvShutdown, SendInvEvent, SendInvDispatch, SendInvRest, SendInvSend,
   Zenon DEF OwnerStep

-----------------------------------------------------------------------------
(* The retention.                                                           *)

\* From its making to the publication of its end a stream is retained; only a
\* stream that was made was started, and only one that is over is complete.
RetainInv ==
    /\ Phase \in {"CreatedNotStarted", "Starting", "Started"} => TerminalRetained
    /\ quic.handle = "wrapped" => Phase # "None"
    /\ \A k \in Keys : sends[k].start => Phase \notin {"None", "CreatedNotStarted"}
    /\ quic.start # "none" => Phase \notin {"None", "CreatedNotStarted"}
    /\ quic.complete => Over

\* Once made a stream stays made, once started it stays started.
LEMMA StartedStays ==
    ASSUME OwnerStep
    PROVE  /\ Phase # "None" => Phase' # "None"
           /\ Phase \notin {"None", "CreatedNotStarted"} =>
                Phase' \notin {"None", "CreatedNotStarted"}
BY Zenon, PhaseSteps DEF PhaseStep

\* A step that makes no stream, begins no send and starts or ends nothing.
LEMMA RetainInvStays ==
    ASSUME RetainInv, OwnerStep,
           quic'.handle = "wrapped" => quic.handle = "wrapped" \/ Phase' # "None",
           \A k \in Keys : sends'[k].start =>
                             sends[k].start \/ Phase' \notin {"None", "CreatedNotStarted"},
           quic'.start # "none" => quic.start # "none"
                                   \/ Phase' \notin {"None", "CreatedNotStarted"},
           quic'.complete => quic.complete \/ Over'
    PROVE  RetainInv'
<1>1. Phase' \in {"CreatedNotStarted", "Starting", "Started"} => TerminalRetained'
  BY Zenon, PhaseSteps DEF PhaseStep, RetainInv
<1>2. quic'.handle = "wrapped" => Phase' # "None"
  BY StartedStays DEF RetainInv
<1>3. \A k \in Keys : sends'[k].start => Phase' \notin {"None", "CreatedNotStarted"}
  BY StartedStays DEF RetainInv
<1>4. quic'.start # "none" => Phase' \notin {"None", "CreatedNotStarted"}
  BY StartedStays DEF RetainInv
<1>5. quic'.complete => Over'
  BY OverStays DEF RetainInv
<1> QED BY <1>1, <1>2, <1>3, <1>4, <1>5 DEF RetainInv

LEMMA RetainInvStep ==
    ASSUME LifeTypes, ShutBounds, RetainInv, OwnerStep PROVE RetainInv'
<1>1. env.failures \in Nat /\ quic \in QuicType /\ sends \in [Keys -> SendType]
      /\ calls \in [Callers -> CallType]
  BY ScenarioFailures DEF LifeTypes, OwnerTypes
<1>2. ASSUME QuicSame, UNCHANGED sends PROVE RetainInv'
  BY <1>2, RetainInvStays DEF QuicSame, QuicIs
<1>3. CASE MakeStep
  <2>1. UNCHANGED sends
    BY <1>3, MakeFrame
  <2>2. CASE OpenOutgoing
    <3>1. Phase' = "CreatedNotStarted"
      BY <2>2 DEF OpenOutgoing
    <3>2. QuicIs("wrapped", quic.start, quic.pending, quic.failures, quic.complete)
      BY <1>1, <2>2, OpenOutgoingQuic
    <3> QED BY <2>1, <3>1, <3>2, RetainInvStays DEF QuicIs
  <2>3. CASE AdoptAccepted
    <3>1. Phase' = "Started"
      BY <2>3 DEF AdoptAccepted
    <3>2. QuicIs("wrapped", "ok", quic.pending, quic.failures, quic.complete)
      BY <1>1, <2>3, AdoptAcceptedQuic
    <3> QED BY <2>1, <3>1, <3>2, RetainInvStays DEF QuicIs
  <2>4. CASE FactoryFails \/ EmergencyAcceptedCallback
    BY <1>1, <2>1, <2>4, UnwrappedQuic, RetainInvStays DEF QuicIs
  <2> QED BY <1>3, <2>2, <2>3, <2>4, Zenon DEF MakeStep
<1>4. ASSUME NEW k \in Keys, OwnerSendStep(k) PROVE RetainInv'
  <2>1. /\ \A j \in Keys \ {k} : sends'[j] = sends[j]
        /\ sends'[k].start => sends[k].start \/ Phase = "CreatedNotStarted"
    BY <1>1, <1>4, OwnerSendEffect
  <2>2. CASE BeginSend(k, Msquic) \/ BeginSend(k, "thread")
    <3>1. UNCHANGED quic /\ (Phase = "CreatedNotStarted" => Phase' = "Starting")
      BY <2>2, Zenon DEF BeginSend
    <3> QED BY <2>1, <3>1, RetainInvStays
  <2>3. CASE ~(BeginSend(k, Msquic) \/ BeginSend(k, "thread"))
    <3>1. sends'[k].start = sends[k].start
      <4>1. ASSUME NEW stage \in SendStages, SendStage(k, stage)
            PROVE  sends'[k].start = sends[k].start
        BY <1>1, <4>1, SendStageEffect
      <4>2. CASE TryAcquireApi(k)
        <5>1. (IF Usable THEN "leased" ELSE "done") \in SendStages
          BY DEF SendStages
        <5> QED BY <4>1, <4>2, <5>1 DEF TryAcquireApi
      <4>3. CASE CaptureRoute(k) \/ RegisterSendCompletion(k) \/ Send(k)
                 \/ CancelSendCompletion(k)
        <5>1. PICK stage \in {"captured", "done", "registered", "accepted", "refused"} :
                 SendStage(k, stage)
          BY <4>3, Zenon DEF CaptureRoute, RegisterSendCompletion, Send,
             CancelSendCompletion
        <5>2. stage \in SendStages
          BY <5>1 DEF SendStages
        <5> QED BY <4>1, <5>1, <5>2
      <4>4. CASE SendReturns(k)
        BY <1>1, <4>4, SendReturnsEffect
      <4>5. CASE FrameReturned(k)
        BY <1>1, <4>5, FrameReturnedEffect
      <4>6. CASE SendComplete(k)
        BY <4>6, Zenon DEF SendComplete
      <4> QED BY <1>4, <2>3, <4>2, <4>3, <4>4, <4>5, <4>6, Zenon
              DEF OwnerSendStep, SendStep
    <3>2. CASE Send(k)
      <4>1. /\ quic'.handle = quic.handle /\ quic'.complete = quic.complete
            /\ ~sends[k].start => quic'.start = quic.start
        BY <1>1, <3>2, SendQuic DEF QuicIs, QuicSame
      <4>2. Phase' = Phase
        BY <3>2 DEF Send
      <4>3. sends[k].start => Phase' \notin {"None", "CreatedNotStarted"}
        BY <4>2 DEF RetainInv
      <4> QED BY <2>1, <3>1, <4>1, <4>3, RetainInvStays, <1>4 DEF OwnerStep
    <3>3. CASE SendComplete(k)
      <4>1. quic'.handle = quic.handle /\ quic'.complete = quic.complete
            /\ quic'.start = quic.start
        BY <1>1, <3>3, SendCompleteQuic DEF QuicIs
      <4> QED BY <2>1, <3>1, <4>1, RetainInvStays
    <3>4. CASE UNCHANGED quic
      BY <2>1, <3>1, <3>4, RetainInvStays
    <3> QED BY <1>4, <2>3, <3>2, <3>3, <3>4, Zenon DEF OwnerSendStep, SendStep,
               FrameReturned, TryAcquireApi, CaptureRoute, RegisterSendCompletion,
               SendReturns, CancelSendCompletion
  <2> QED BY <2>2, <2>3
<1>5. CASE OwnerShutdownStep
  <2>1. UNCHANGED sends
    BY <1>5, ShutdownFrame
  <2>2. ASSUME NEW t \in Callers, Downcall(t) PROVE RetainInv'
    BY Zenon, <1>1, <2>1, <2>2, DowncallQuic, RetainInvStays DEF QuicIs, ShutBounds
  <2>3. CASE UNCHANGED quic
    BY <1>1, <1>2, <2>1, <2>3, QuicUnchanged
  <2> QED BY <1>5, <2>2, <2>3, Zenon DEF OwnerShutdownStep, CallStep, RequestShutdown,
             SettleShutdown, CancelRequests
<1>6. CASE OwnerEventStep
  <2>1. UNCHANGED sends
    BY <1>6, EventFrame
  <2>2. ASSUME NEW ok \in BOOLEAN, StartComplete(ok) PROVE RetainInv'
    <3>1. quic.start = "pending"
      BY <2>2, Zenon DEF StartComplete
    <3>2. QuicIs(quic.handle, quic'.start, quic.pending, quic.failures, quic.complete)
      BY <1>1, <2>2, StartCompleteQuic
    <3> QED BY <2>1, <3>1, <3>2, RetainInvStays DEF QuicIs
  <2>3. CASE ShutdownComplete
    <3>1. QuicIs(quic.handle, quic.start, quic.pending, quic.failures, TRUE)
      BY Zenon, <1>1, <2>3, ShutdownCompleteQuic
    <3>2. quic.start # "none"
      BY <2>3 DEF ShutdownComplete
    <3>3. Phase \in {"Starting", "Started", "StartFailed", "TerminalPublished"}
      BY <3>2 DEF RetainInv, LifeTypes, OwnerTypes, Phases
    <3>4. Over'
      BY <2>3, <3>3 DEF ShutdownComplete, Usable, Over
    <3> QED BY <2>1, <3>1, <3>4, RetainInvStays DEF QuicIs
  <2>4. CASE QuicSame
    BY <1>2, <2>1, <2>4
  <2> QED BY <1>1, <1>6, <2>2, <2>3, <2>4, ReceiveQuic, SendShutdownCompleteQuic,
             CancelOnLossQuic, Zenon DEF OwnerEventStep
<1>7. CASE OwnerDispatchStep
  BY <1>1, <1>2, <1>7, DispatchFrame, QuicUnchanged
<1>8. CASE OwnerRouteStep
  <2>1. UNCHANGED sends
    BY <1>8, RouteFrame
  <2>2. CASE CallTerminalShutdown
    BY <1>1, <2>1, <2>2, CallTerminalShutdownQuic, RetainInvStays DEF QuicIs, ShutBounds
  <2>3. CASE UNCHANGED quic
    BY <1>1, <1>2, <2>1, <2>3, QuicUnchanged
  <2> QED BY <1>8, <2>2, <2>3, Zenon DEF OwnerRouteStep, ReadGeneration, PublishTarget,
             BeginTerminalShutdown, RelayRetires
<1>9. CASE OwnerContextStep
  BY <1>1, <1>2, <1>9, ContextFrame, QuicUnchanged
<1> QED BY <1>3, <1>4, <1>5, <1>6, <1>7, <1>8, <1>9, Zenon DEF OwnerStep

-----------------------------------------------------------------------------
(* The reservations.                                                        *)

\* A reservation belongs to a call in progress that is about to ask for it.
ReservedOK(d) ==
    shut.reserved[d] # 0 =>
      \E t \in Callers : /\ calls[t].stage # "idle" /\ d \in calls[t].owns
                         /\ calls[t].request[d] = shut.reserved[d]

\* What was wished was submitted or is reserved.
WishedOK(d) == \/ shut.submitted[d] >= shut.desired[d]
               \/ shut.reserved[d] >= shut.desired[d]

\* A downcall fails when MsQuic refuses it or the stream is over.
RefusedOK(t) == ~calls[t].ok => quic.failures > 0 \/ Over

ShutInv ==
    /\ ShutBounds
    /\ \A d \in Directions : ReservedOK(d)
    /\ quic.failures = 0 /\ ~Over => \A d \in Directions : WishedOK(d)
    /\ \A t \in Callers : RefusedOK(t)

\* A step in which nobody asks.
LEMMA ShutInvStays ==
    ASSUME LifeTypes, LifeTypes', ShutInv, OwnerStep, UNCHANGED <<env, calls>>,
           shut'.desired = shut.desired, shut'.reserved = shut.reserved,
           \A d \in Directions : shut'.submitted[d] >= shut.submitted[d],
           quic.failures <= quic'.failures, quic'.failures <= env.failures
    PROVE  ShutInv'
<1>0. env.failures \in Nat /\ quic.failures \in Nat /\ quic'.failures \in Nat
  BY ScenarioFailures DEF LifeTypes, OwnerTypes, QuicType
<1>1. ShutBounds'
  BY DEF ShutInv, ShutBounds
<1>2. \A d \in Directions : ReservedOK(d)'
  BY Zenon DEF ShutInv, ReservedOK
<1>3. quic'.failures = 0 /\ ~Over' => \A d \in Directions : WishedOK(d)'
  <2>1. SUFFICES ASSUME quic'.failures = 0, ~Over', NEW d \in Directions PROVE WishedOK(d)'
    OBVIOUS
  <2>2. quic.failures = 0 /\ ~Over
    BY <1>0, <2>1, OverStays
  <2>3. WishedOK(d)
    BY <2>2 DEF ShutInv
  <2>4. /\ shut.submitted[d] \in 0..2 /\ shut'.submitted[d] \in 0..2
        /\ shut.desired[d] \in 0..2
    BY DEF LifeTypes, ShutType, Strengths
  <2> QED BY <2>3, <2>4 DEF WishedOK
<1>4. \A t \in Callers : RefusedOK(t)'
  <2>1. ASSUME NEW t \in Callers PROVE RefusedOK(t)'
    <3>1. RefusedOK(t)
      BY DEF ShutInv
    <3> QED BY <1>0, <3>1, OverStays DEF RefusedOK
  <2> QED BY <2>1
<1> QED BY <1>1, <1>2, <1>3, <1>4, Zenon DEF ShutInv

\* Nothing of it changes at all.
LEMMA ShutInvSame ==
    ASSUME LifeTypes, LifeTypes', ShutInv, OwnerStep, UNCHANGED <<env, calls, shut>>,
           quic'.failures = quic.failures
    PROVE  ShutInv'
<1>1. \A d \in Directions : shut'.submitted[d] >= shut.submitted[d]
  BY DEF LifeTypes, ShutType, Strengths
<1>2. quic.failures <= quic'.failures /\ quic'.failures <= env.failures
  BY DEF LifeTypes, QuicType, ShutInv, ShutBounds
<1> QED BY <1>1, <1>2, ShutInvStays

LEMMA ShutInvReserving ==
    ASSUME LifeTypes, LifeTypes', ShutInv, OwnerStep, UNCHANGED <<env, quic>>,
           NEW t \in Callers, NEW intent \in DOMAIN Intents,
           calls[t].stage = "idle", Reserving(t, intent)
    PROVE  ShutInv'
<1>1. /\ shut'.desired.receive <= 1 /\ shut'.desired.immediate <= 1
      /\ calls'[t].ok = TRUE
      /\ \A u \in Callers \ {t} : calls'[u] = calls[u]
      /\ shut'.submitted = shut.submitted
      /\ \A d \in Directions :
           \/ shut'.reserved[d] = shut.reserved[d]
           \/ /\ calls'[t].stage # "idle" /\ d \in calls'[t].owns
              /\ calls'[t].request[d] = shut'.reserved[d]
      /\ \A d \in Directions :
           \/ shut'.reserved[d] = shut'.desired[d]
           \/ /\ shut'.reserved[d] = shut.reserved[d]
              /\ \/ shut'.desired[d] = shut.desired[d]
                 \/ shut.submitted[d] >= shut'.desired[d]
                 \/ shut.reserved[d] >= shut'.desired[d]
  BY Zenon, ReservingEffect DEF LifeTypes, ShutInv, ShutBounds
<1>2. ShutBounds'
  BY Zenon, <1>1 DEF ShutInv, ShutBounds
<1>3. ASSUME NEW d \in Directions PROVE ReservedOK(d)'
  <2>1. CASE shut'.reserved[d] = shut.reserved[d]
    <3>1. SUFFICES ASSUME shut'.reserved[d] # 0
                   PROVE  \E u \in Callers : /\ calls'[u].stage # "idle" /\ d \in calls'[u].owns
                                             /\ calls'[u].request[d] = shut'.reserved[d]
      BY DEF ReservedOK
    <3>2. ReservedOK(d)
      BY DEF ShutInv
    <3>3. PICK u \in Callers : /\ calls[u].stage # "idle" /\ d \in calls[u].owns
                               /\ calls[u].request[d] = shut.reserved[d]
      BY <2>1, <3>1, <3>2 DEF ReservedOK
    <3>4. calls'[u] = calls[u]
      BY <1>1, <3>3
    <3> QED BY <2>1, <3>3, <3>4
  <2>2. CASE /\ calls'[t].stage # "idle" /\ d \in calls'[t].owns
             /\ calls'[t].request[d] = shut'.reserved[d]
    BY <2>2 DEF ReservedOK
  <2> QED BY <1>1, <2>1, <2>2
<1>4. quic'.failures = 0 /\ ~Over' => \A d \in Directions : WishedOK(d)'
  <2>1. SUFFICES ASSUME quic'.failures = 0, ~Over', NEW d \in Directions PROVE WishedOK(d)'
    OBVIOUS
  <2>2. WishedOK(d)
    BY <2>1, OverStays DEF ShutInv
  <2>3. /\ shut.submitted[d] \in 0..2 /\ shut.reserved[d] \in 0..2
        /\ shut'.desired[d] \in 0..2 /\ shut'.reserved[d] \in 0..2
    BY DEF LifeTypes, ShutType, Strengths
  <2> QED BY <1>1, <2>2, <2>3 DEF WishedOK
<1>5. ASSUME NEW u \in Callers PROVE RefusedOK(u)'
  <2>1. RefusedOK(u)
    BY DEF ShutInv
  <2>2. CASE u = t
    BY <1>1, <2>2 DEF RefusedOK
  <2>3. CASE u # t
    BY <1>1, <2>1, <2>3, OverStays DEF RefusedOK
  <2> QED BY <2>2, <2>3
<1> QED BY <1>2, <1>3, <1>4, <1>5 DEF ShutInv

LEMMA ShutInvDowncall ==
    ASSUME LifeTypes, LifeTypes', RetainInv, ShutInv, OwnerStep, NEW t \in Callers,
           Downcall(t)
    PROVE  ShutInv'
<1>0. /\ env.failures \in Nat /\ quic \in QuicType /\ calls \in [Callers -> CallType]
      /\ quic.failures \in Nat /\ quic'.failures \in Nat /\ quic.failures <= env.failures
  BY Zenon, ScenarioFailures DEF LifeTypes, OwnerTypes, QuicType, ShutInv, ShutBounds
<1>1. UNCHANGED <<env, Phase, shut>> /\ calls[t].stage = "downcall"
  BY Zenon DEF Downcall
<1>2. /\ quic.failures <= quic'.failures /\ quic'.failures <= env.failures
      /\ \/ calls' = [calls EXCEPT ![t].stage = "settle"]
         \/ /\ calls' = [calls EXCEPT ![t] = [@ EXCEPT !.stage = "settle", !.ok = FALSE]]
            /\ quic'.failures > 0 \/ quic.complete
  BY Zenon, <1>0, DowncallQuic
<1>3. /\ calls'[t].stage = "settle" /\ calls'[t].owns = calls[t].owns
      /\ calls'[t].request = calls[t].request
      /\ \A u \in Callers \ {t} : calls'[u] = calls[u]
  BY Zenon, <1>0, <1>2, DowncallEffect
<1>4. ShutBounds'
  BY <1>1, <1>2 DEF ShutInv, ShutBounds
<1>5. ASSUME NEW d \in Directions PROVE ReservedOK(d)'
  <2>1. SUFFICES ASSUME shut'.reserved[d] # 0
                 PROVE  \E u \in Callers : /\ calls'[u].stage # "idle" /\ d \in calls'[u].owns
                                           /\ calls'[u].request[d] = shut'.reserved[d]
    BY DEF ReservedOK
  <2>2. ReservedOK(d)
    BY DEF ShutInv
  <2>3. PICK u \in Callers : /\ calls[u].stage # "idle" /\ d \in calls[u].owns
                             /\ calls[u].request[d] = shut.reserved[d]
    BY <1>1, <2>1, <2>2 DEF ReservedOK
  <2>4. /\ calls'[u].stage # "idle" /\ d \in calls'[u].owns
        /\ calls'[u].request[d] = shut'.reserved[d]
    BY <1>1, <1>3, <2>3
  <2> QED BY <2>4
<1>6. quic'.failures = 0 /\ ~Over' => \A d \in Directions : WishedOK(d)'
  BY <1>0, <1>1, <1>2, OverStays DEF ShutInv, WishedOK
<1>7. ASSUME NEW u \in Callers PROVE RefusedOK(u)'
  <2>1. RefusedOK(u)
    BY DEF ShutInv
  <2>2. CASE u # t
    BY <1>0, <1>2, <1>3, <2>1, <2>2, OverStays DEF RefusedOK
  <2>3. CASE u = t /\ (quic'.failures > 0 \/ quic.complete)
    BY <2>3, OverStays DEF RefusedOK, RetainInv
  <2>4. CASE u = t /\ calls' = [calls EXCEPT ![t].stage = "settle"]
    <3>1. calls'[t].ok = calls[t].ok
      BY <1>0, <2>4 DEF CallType
    <3> QED BY <1>0, <1>2, <2>1, <2>4, <3>1, OverStays DEF RefusedOK
  <2> QED BY <1>2, <2>2, <2>3, <2>4
<1> QED BY <1>4, <1>5, <1>6, <1>7 DEF ShutInv

LEMMA ShutInvSettle ==
    ASSUME LifeTypes, LifeTypes', ShutInv, OwnerStep, NEW t \in Callers,
           SettleShutdown(t)
    PROVE  ShutInv'
<1>0. UNCHANGED <<env, Phase, quic>> /\ calls[t].stage = "settle"
  BY Zenon DEF SettleShutdown
<1>1. /\ shut'.desired = shut.desired
      /\ \A d \in Directions :
           shut'.reserved[d] =
             IF d \in calls[t].owns /\ shut.reserved[d] = calls[t].request[d]
             THEN 0 ELSE shut.reserved[d]
      /\ \A d \in Directions : shut'.submitted[d] >= shut.submitted[d]
      /\ calls[t].ok => \A d \in Directions : shut'.submitted[d] >= calls[t].request[d]
      /\ calls'[t].stage = "idle" /\ calls'[t].ok = TRUE
      /\ \A u \in Callers \ {t} : calls'[u] = calls[u]
  BY Zenon, SettleEffect DEF LifeTypes
<1>2. ShutBounds'
  BY <1>0, <1>1 DEF ShutInv, ShutBounds
<1>3. ASSUME NEW d \in Directions PROVE ReservedOK(d)'
  <2>1. SUFFICES ASSUME shut'.reserved[d] # 0
                 PROVE  \E u \in Callers : /\ calls'[u].stage # "idle" /\ d \in calls'[u].owns
                                           /\ calls'[u].request[d] = shut'.reserved[d]
    BY DEF ReservedOK
  <2>2. /\ shut'.reserved[d] = shut.reserved[d]
        /\ ~(d \in calls[t].owns /\ shut.reserved[d] = calls[t].request[d])
    BY <1>1, <2>1
  <2>3. ReservedOK(d)
    BY DEF ShutInv
  <2>4. PICK u \in Callers : /\ calls[u].stage # "idle" /\ d \in calls[u].owns
                             /\ calls[u].request[d] = shut.reserved[d]
    BY <2>1, <2>2, <2>3 DEF ReservedOK
  <2>5. calls'[u] = calls[u]
    BY <1>1, <2>2, <2>4
  <2> QED BY <2>2, <2>4, <2>5
<1>4. quic'.failures = 0 /\ ~Over' => \A d \in Directions : WishedOK(d)'
  <2>1. SUFFICES ASSUME quic'.failures = 0, ~Over', NEW d \in Directions PROVE WishedOK(d)'
    OBVIOUS
  <2>2. quic.failures = 0 /\ ~Over
    BY <1>0, <2>1, OverStays
  <2>3. WishedOK(d) /\ calls[t].ok
    BY <2>2 DEF ShutInv, RefusedOK
  <2>4. /\ shut.submitted[d] \in 0..2 /\ shut.reserved[d] \in 0..2
        /\ shut.desired[d] \in 0..2 /\ shut'.submitted[d] \in 0..2
    BY DEF LifeTypes, ShutType, Strengths
  <2> QED BY <1>1, <2>3, <2>4 DEF WishedOK
<1>5. ASSUME NEW u \in Callers PROVE RefusedOK(u)'
  <2>1. RefusedOK(u)
    BY DEF ShutInv
  <2>2. CASE u = t
    BY <1>1, <2>2 DEF RefusedOK
  <2>3. CASE u # t
    BY <1>0, <1>1, <2>1, <2>3, OverStays DEF RefusedOK
  <2> QED BY <2>2, <2>3
<1> QED BY <1>2, <1>3, <1>4, <1>5 DEF ShutInv

LEMMA ShutInvStep ==
    ASSUME LifeTypes, LifeTypes', RetainInv, ShutInv, OwnerStep PROVE ShutInv'
<1>1. /\ env.failures \in Nat /\ quic \in QuicType /\ quic.failures <= env.failures
      /\ shut \in ShutType
  BY ScenarioFailures DEF LifeTypes, OwnerTypes, ShutInv, ShutBounds
<1>2. CASE MakeStep
  <2>1. UNCHANGED <<env, calls, shut>>
    BY <1>2, MakeFrame
  <2>2. quic'.failures = quic.failures
    BY <1>1, <1>2, OpenOutgoingQuic, AdoptAcceptedQuic, UnwrappedQuic, Zenon
       DEF MakeStep, QuicIs
  <2> QED BY <2>1, <2>2, ShutInvSame
<1>3. ASSUME NEW k \in Keys, OwnerSendStep(k) PROVE ShutInv'
  <2>1. UNCHANGED <<env, calls, shut>>
    BY <1>3, SendFrames
  <2>2. quic'.failures = quic.failures
    <3>1. CASE Send(k)
      BY <1>1, <3>1, SendQuic DEF QuicIs, QuicSame
    <3>2. CASE SendComplete(k)
      BY <1>1, <3>2, SendCompleteQuic DEF QuicIs
    <3> QED BY <1>3, <3>1, <3>2, Zenon DEF OwnerSendStep, SendStep, BeginSend,
               FrameReturned, TryAcquireApi, CaptureRoute, RegisterSendCompletion,
               SendReturns, CancelSendCompletion
  <2> QED BY <2>1, <2>2, ShutInvSame
<1>4. CASE OwnerShutdownStep
  <2>1. UNCHANGED env
    BY <1>4, ShutdownFrame
  <2>2. ASSUME NEW t \in Callers, NEW intent \in DOMAIN Intents,
               RequestShutdown(t, intent)
        PROVE  ShutInv'
    <3>1. UNCHANGED quic /\ calls[t].stage = "idle"
          /\ (Reserving(t, intent) \/ UNCHANGED <<shut, calls>>)
      BY <2>2, Zenon DEF RequestShutdown, Reserving
    <3> QED BY <2>1, <3>1, ShutInvReserving, ShutInvSame
  <2>3. CASE CancelRequests
    <3>1. UNCHANGED quic /\ calls[Msquic].stage = "idle"
          /\ (Reserving(Msquic, "AbortBoth") \/ UNCHANGED <<shut, calls>>)
      BY <2>3, Zenon DEF CancelRequests, Reserving
    <3>2. Msquic \in Callers /\ "AbortBoth" \in DOMAIN Intents
      BY DEF Callers, Intents
    <3> QED BY <2>1, <3>1, <3>2, ShutInvReserving, ShutInvSame
  <2> QED BY <1>4, <2>2, <2>3, ShutInvDowncall, ShutInvSettle, Zenon
          DEF OwnerShutdownStep, CallStep
<1>5. CASE OwnerEventStep
  <2>1. UNCHANGED <<env, calls>>
    BY <1>5, EventFrame
  <2>2. quic'.failures = quic.failures
    BY <1>1, <1>5, StartCompleteQuic, ReceiveQuic, SendShutdownCompleteQuic,
       CancelOnLossQuic, ShutdownCompleteQuic, Zenon DEF OwnerEventStep, QuicSame, QuicIs
  <2>3. ASSUME NEW graceful \in BOOLEAN, SendShutdownComplete(graceful) PROVE ShutInv'
    <3>1. quic.failures <= quic'.failures /\ quic'.failures <= env.failures
      BY <1>1, <2>2 DEF QuicType
    <3> QED BY <1>1, <2>1, <2>3, <3>1, SendShutdownEffect, ShutInvStays
  <2>4. CASE UNCHANGED shut
    BY <2>1, <2>2, <2>4, ShutInvSame
  <2> QED BY <1>5, <2>3, <2>4, Zenon DEF OwnerEventStep, StartComplete, Receive,
             CancelOnLoss, ShutdownComplete
<1>6. CASE OwnerDispatchStep \/ OwnerContextStep
  BY <1>6, DispatchFrame, ContextFrame, ShutInvSame
<1>7. CASE OwnerRouteStep
  <2>1. UNCHANGED <<env, calls, shut>>
    BY <1>7, RouteFrame
  <2>2. CASE CallTerminalShutdown
    <3>1. quic.failures <= quic'.failures /\ quic'.failures <= env.failures
      BY <1>1, <2>2, CallTerminalShutdownQuic
    <3>2. \A d \in Directions : shut'.submitted[d] >= shut.submitted[d]
      BY <1>1, <2>1 DEF ShutType, Strengths
    <3> QED BY <2>1, <3>1, <3>2, ShutInvStays
  <2>3. CASE UNCHANGED quic
    BY <2>1, <2>3, ShutInvSame
  <2> QED BY <1>7, <2>2, <2>3, Zenon DEF OwnerRouteStep, ReadGeneration, PublishTarget,
             BeginTerminalShutdown, RelayRetires
<1> QED BY <1>2, <1>3, <1>4, <1>5, <1>6, <1>7, Zenon DEF OwnerStep

-----------------------------------------------------------------------------
(* The theorems about the owner.                                            *)

LifeInv == LifeTypes /\ SendInv /\ RetainInv /\ ShutInv

LEMMA LifeTypesInit == ASSUME Init PROVE LifeTypes
<1>1. OwnerTypes
  BY Zenon DEF Init, LifeInit, OwnerTypes, Phases, Targets, Contexts
<1>2. Nothing \in Strengths
  BY DEF Nothing, Strengths
<1>3. shut \in ShutType
  BY Zenon, <1>2 DEF Init, LifeInit, ShutType
<1>4. calls \in [Callers -> CallType]
  BY Zenon, NoCallIsIdle DEF Init, LifeInit, NoCallFacts
<1>5. sends \in [Keys -> SendType]
  BY Zenon DEF Init, LifeInit, SendType, SendStages
<1>6. completions \in [Keys -> CompletionType]
  BY Zenon DEF Init, LifeInit, CompletionType, Targets
<1>7. contexts \in [Contexts -> ContextType]
  BY Zenon DEF Init, LifeInit, ContextType
<1>8. callback \in [Dispatchers -> CallbackType]
  BY Zenon DEF Init, LifeInit, CallbackType, NoCallback, Targets, EventKinds
<1>9. quic \in QuicType
  <2>1. quic = [handle |-> "none", start |-> "none", pending |-> {}, send |-> 0,
                receive |-> 0, sendDone |-> FALSE, cancelled |-> FALSE,
                receives |-> 0, failures |-> 0, complete |-> FALSE]
    BY Zenon DEF Init, LifeInit
  <2> QED BY <2>1 DEF QuicType
<1> QED BY <1>1, <1>3, <1>4, <1>5, <1>6, <1>7, <1>8, <1>9 DEF LifeTypes

LEMMA LifeInvInit == ASSUME Init PROVE LifeInv
<1>1. LifeTypes
  BY LifeTypesInit
<1>2. SendInv
  <2>1. ASSUME NEW d \in Dispatchers PROVE callback[d].key = "none"
    BY Zenon DEF Init, LifeInit, NoCallback
  <2>2. ASSUME NEW k \in Keys
        PROVE  /\ sends[k].stage = "idle" /\ completions[k].state = "none"
               /\ completions[k].cleanups = 0 /\ completions[k].delivered = "none"
               /\ quic.pending = {}
    BY Zenon DEF Init, LifeInit
  <2>3. callback[Msquic].key \notin Keys
    BY <2>1, MsquicDispatches, LifetimeAssumption
  <2>4. ASSUME NEW k \in Keys PROVE SendOK(k)
    BY <2>2, <2>3 DEF SendOK
  <2>5. ASSUME NEW d \in Dispatchers PROVE KeyOK(d)
    BY Zenon, <2>1, LifetimeAssumption DEF KeyOK
  <2> QED BY <2>4, <2>5 DEF SendInv
<1>3. RetainInv
  BY Zenon DEF Init, LifeInit, RetainInv
<1>4. ShutInv
  <2>1. /\ \A d \in Directions : Nothing[d] = 0
        /\ Nothing.receive = 0 /\ Nothing.immediate = 0
    BY DEF Nothing, Directions
  <2>2. /\ shut.desired = Nothing /\ shut.reserved = Nothing /\ shut.submitted = Nothing
        /\ quic.failures = 0
    BY Zenon DEF Init, LifeInit
  <2>3. \A t \in Callers : calls[t].ok = TRUE
    BY Zenon, NoCallIsIdle DEF Init, LifeInit, NoCallFacts
  <2>4. env.failures \in Nat
    BY <1>1, ScenarioFailures DEF LifeTypes, OwnerTypes
  <2>5. ShutBounds
    BY <2>1, <2>2, <2>4 DEF ShutBounds
  <2>6. \A d \in Directions : ReservedOK(d) /\ WishedOK(d)
    BY <2>1, <2>2 DEF ReservedOK, WishedOK
  <2>7. \A t \in Callers : RefusedOK(t)
    BY <2>3 DEF RefusedOK
  <2> QED BY <2>5, <2>6, <2>7 DEF ShutInv
<1> QED BY <1>1, <1>2, <1>3, <1>4 DEF LifeInv

\* A step that leaves the owner alone.
LEMMA LifeInvStutter == ASSUME LifeInv, UNCHANGED lifeVars PROVE LifeInv'
<1>1. LifeTypes'
  BY DEF LifeInv, LifeTypes, OwnerTypes, lifeVars
<1>2. SendInv'
  BY Zenon DEF LifeInv, SendInv, SendOK, KeyOK, lifeVars
<1>3. RetainInv'
  BY DEF LifeInv, RetainInv, Over, lifeVars
<1>4. ShutInv'
  BY DEF LifeInv, ShutInv, ShutBounds, ReservedOK, WishedOK, RefusedOK, Over, lifeVars
<1> QED BY <1>1, <1>2, <1>3, <1>4 DEF LifeInv

LEMMA LifeInvStep == ASSUME LifeInv, [Next]_vars PROVE LifeInv'
<1>1. CASE OwnerStep
  <2>1. LifeTypes /\ SendInv /\ RetainInv /\ ShutInv /\ ShutBounds
    BY DEF LifeInv, ShutInv
  <2>2. LifeTypes'
    BY <1>1, <2>1, LifeTypesStep
  <2>3. SendInv' /\ RetainInv'
    BY <1>1, <2>1, SendInvStep, RetainInvStep
  <2>4. ShutInv'
    BY <1>1, <2>1, <2>2, ShutInvStep
  <2> QED BY <2>2, <2>3, <2>4 DEF LifeInv
<1>2. CASE UNCHANGED lifeVars
  BY <1>2, LifeInvStutter
<1>3. env \in Scenarios
  BY DEF LifeInv, LifeTypes, OwnerTypes
<1> QED BY <1>1, <1>2, <1>3, OwnerSteps, Zenon DEF vars

\* For any sends, threads and scenarios: the sends, the retention and the
\* reservations of a stream's owner agree with each other in every state.
THEOREM LifeInvariant == Spec => []LifeInv
<1>1. Init => LifeInv
  BY LifeInvInit
<1>2. LifeInv /\ [Next]_vars => LifeInv'
  BY LifeInvStep
<1> QED BY <1>1, <1>2, PTL DEF Spec

\* ~TqStreamLifetime never closes a stream that is neither over nor failed to
\* start, nor one that MsQuic still has sends of.
THEOREM ClosedWhenOverHolds == Spec => []ClosedWhenOver
<1>1. LifeInv => ClosedWhenOver
  <2>1. SUFFICES ASSUME LifeInv, quic.handle = "wrapped", ~Alive
                 PROVE  Over /\ quic.pending = {}
    BY DEF ClosedWhenOver
  <2>2. ~TerminalRetained /\ \A k \in Keys : ~Registered(k)
    BY <2>1 DEF Alive
  <2>3. Phase \in Phases /\ quic.pending \subseteq Keys
    BY <2>1 DEF LifeInv, LifeTypes, OwnerTypes, QuicType
  <2>4. Over
    BY <2>1, <2>2, <2>3 DEF LifeInv, RetainInv, Phases, Over
  <2>5. \A k \in quic.pending : Registered(k)
    BY <2>1, <2>3 DEF LifeInv, SendInv, SendOK, Registered
  <2> QED BY <2>2, <2>3, <2>4, <2>5
<1> QED BY <1>1, LifeInvariant, PTL

\* Every send that MsQuic took is claimed once, cleaned up at most once, and
\* reported to the object that was routed when it was registered.
THEOREM SendsSettleOnceHolds == Spec => []SendsSettleOnce
<1>1. LifeInv => SendsSettleOnce
  <2>1. SUFFICES ASSUME LifeInv, NEW k \in Keys
                 PROVE  /\ completions[k].state # "unknown"
                        /\ completions[k].cleanups <= 1
                        /\ completions[k].state = "cancelled" => k \notin quic.pending
                        /\ completions[k].delivered \in {"none", completions[k].route}
    BY DEF SendsSettleOnce
  <2>2. SendOK(k)
    BY <2>1 DEF LifeInv, SendInv
  <2> QED BY <2>2 DEF SendOK
<1> QED BY <1>1, LifeInvariant, PTL

\* RequestShutdown leaves no reservation behind, and what was wished of a stream
\* that is not over has reached MsQuic unless it refused a downcall.
THEOREM NoShutdownLostHolds == Spec => []NoShutdownLost
<1>1. LifeInv => NoShutdownLost
  <2>1. SUFFICES ASSUME LifeInv, \A t \in Callers : calls[t].stage = "idle"
                 PROVE  /\ shut.reserved = Nothing
                        /\ quic.failures = 0 /\ ~Over =>
                             \A d \in Directions : shut.submitted[d] >= shut.desired[d]
    BY DEF NoShutdownLost
  <2>2. shut.desired \in Strengths /\ shut.reserved \in Strengths /\ shut.submitted \in Strengths
    BY <2>1 DEF LifeInv, LifeTypes, ShutType
  <2>3. \A d \in Directions : shut.reserved[d] = 0
    BY <2>1 DEF LifeInv, ShutInv, ReservedOK
  <2>4. shut.reserved = Nothing
    BY <2>2, <2>3 DEF Strengths, Nothing
  <2>5. ASSUME quic.failures = 0, ~Over, NEW d \in Directions
        PROVE  shut.submitted[d] >= shut.desired[d]
    <3>1. WishedOK(d)
      BY <2>1, <2>5 DEF LifeInv, ShutInv
    <3>2. shut.desired[d] \in 0..2 /\ shut.submitted[d] \in 0..2
      BY <2>2 DEF Strengths
    <3> QED BY <2>3, <3>1, <3>2 DEF WishedOK
  <2> QED BY <2>4, <2>5
<1> QED BY <1>1, LifeInvariant, PTL

=============================================================================

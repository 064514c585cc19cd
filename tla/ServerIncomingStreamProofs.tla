--------------------- MODULE ServerIncomingStreamProofs ---------------------
(***************************************************************************)
(* Proofs about the contexts behind a stream, on top of what               *)
(* StreamLifetimeProofs shows about its owner: no thread is left inside a  *)
(* deleted context, and the contexts settle what they were given.          *)
(***************************************************************************)
EXTENDS StreamLifetimeProofs

-----------------------------------------------------------------------------
(* The inductive invariant.                                                 *)

\* Only a live context is entered; who is inside a deleted one deleted it there
\* and has not returned.
DeleteInv ==
    \A c \in Contexts :
      /\ contexts[c].Accepting => contexts[c].state = "live"
      /\ contexts[c].state = "deleted" /\ Inside(Msquic, c) =>
           contexts[c].by = Msquic /\ body # "none"

\* From the registration of a relay on the route leads to no context, and
\* only buffered events, which follow it, are dispatched by another thread.
RouteInv ==
    /\ callback["buffered"].target \notin Contexts
    /\ relay.stage = "routed" \/ callback["buffered"].stage # "idle" =>
         Target \notin Contexts
    /\ callback["buffered"].stage # "idle" => relay.stage # "none"
    /\ relay.stage # "none" => Phase # "None" /\ (env.role = "client" \/ kind = "tunnel")
    /\ callback[Msquic].stage # "idle" => Phase # "None"

\* The second context exists once it has a kind; the first one is gone then.
KindInv ==
    /\ kind = "none" <=> contexts["second"].state = "none"
    /\ kind # "none" => contexts["first"].state = "deleted"

ContextInv == DeleteInv /\ RouteInv /\ KindInv

SpeedBodies == {"speed", "ready", "result", "speedError", "readySent", "resultSent",
                "speedErrorSent"}

\* Who is to call the completion function has not been deleted, and an open
\* session belongs to a control stream that is there to close it.
SettleInv ==
    /\ OnComplete.calls <= 1
    /\ OnComplete.with = "none" <=> OnComplete.calls = 1
    /\ \A c \in Contexts : OnComplete.with = c => contexts[c].state \in {"live", "detaching"}
    /\ OnComplete.with \in {"none", "second"} => contexts["first"].state = "deleted"
    /\ speed.session = "open" =>
         speed.SessionActive /\ kind = "speed" /\ contexts["second"].state = "live"
    /\ body \in SpeedBodies => kind = "speed" /\ contexts["second"].state = "live"
    /\ kind = "speed" => contexts["second"].state # "detaching"

CompleteType == [with : Contexts \cup {"none", "lost"}, calls : Nat]

ContextTypes ==
    /\ kind \in {"none", "tunnel", "speed"}
    /\ dispatcher \in [closing : BOOLEAN, Stream : BOOLEAN]
    /\ speed \in SpeedType
    /\ OnComplete \in CompleteType

-----------------------------------------------------------------------------
(* The steps of the owner.                                                  *)

LEMMA TwoContexts == "first" \in Contexts /\ "second" \in Contexts /\ "first" # "second"
                     /\ \A c \in Contexts : c = "first" \/ c = "second"
BY DEF Contexts

\* A step of the owner in which contexts stay as they are.
Quiet == UNCHANGED <<contexts, kind>> /\ (body' = body \/ body' # "none")

LEMMA QuietDelete ==
    ASSUME DeleteInv, Quiet,
           \A c \in Contexts : Inside(Msquic, c)' => Inside(Msquic, c) \/ contexts[c].Accepting
    PROVE  DeleteInv'
<1>1. ASSUME NEW c \in Contexts
      PROVE  /\ contexts'[c].Accepting => contexts'[c].state = "live"
             /\ contexts'[c].state = "deleted" /\ Inside(Msquic, c)' =>
                  contexts'[c].by = Msquic /\ body' # "none"
  BY Zenon DEF DeleteInv, Quiet
<1> QED BY <1>1 DEF DeleteInv

LEMMA QuietKind == ASSUME KindInv, UNCHANGED <<contexts, kind>> PROVE KindInv'
BY DEF KindInv

LEMMA QuietSettle ==
    ASSUME SettleInv, UNCHANGED <<contexts, kind, speed, OnComplete>>,
           body' \in SpeedBodies => body \in SpeedBodies
    PROVE  SettleInv'
BY DEF SettleInv

\* MsQuic's thread is inside a context only if it was, or was let in just now.
LEMMA InsideSteps ==
    ASSUME LifeTypes, OwnerStep, NEW c \in Contexts, Inside(Msquic, c)'
    PROVE  Inside(Msquic, c) \/ contexts[c].Accepting
<1>1. callback \in [Dispatchers -> CallbackType] /\ Target \in Targets
  BY DEF LifeTypes, OwnerTypes
<1>2. callback'[Msquic].stage = "inside" /\ callback'[Msquic].target = c
  BY DEF Inside
<1>3. CASE callback'[Msquic] = callback[Msquic]
  BY <1>2, <1>3 DEF Inside
<1>4. ASSUME NEW event \in EventKinds, NEW stage \in CallbackStages, NEW target \in Targets,
             NEW key \in Keys \cup {"none"}, Dispatch(event, stage, target, key),
             stage # "inside"
      PROVE  FALSE
  <2>1. callback'[Msquic].stage = stage
    BY <1>1, <1>4, DispatchEffect
  <2> QED BY <1>2, <1>4, <2>1
<1>5. ASSUME NEW k \in Keys, OwnerSendStep(k)
      PROVE  callback'[Msquic] = callback[Msquic]
  <2>1. CASE SendComplete(k) /\ Registered(k)
    <3>1. completions[k].route \in Targets
      BY DEF LifeTypes, CompletionType
    <3>2. Dispatch("SEND_COMPLETE", "routed", completions[k].route, k)
      BY <2>1, Zenon DEF SendComplete
    <3> QED BY <1>4, <3>1, <3>2 DEF CallbackStages, EventKinds
  <2> QED BY <1>5, <2>1, Zenon DEF OwnerSendStep, SendStep, SendComplete, BeginSend,
             FrameReturned, TryAcquireApi, CaptureRoute, RegisterSendCompletion, Send,
             SendReturns, CancelSendCompletion
<1>6. ASSUME OwnerShutdownStep PROVE callback'[Msquic] = callback[Msquic]
  <2>1. CASE CancelRequests
    <3>1. Dispatch("CANCEL_ON_LOSS", "capture", "none", "none")
      BY <2>1, Zenon DEF CancelRequests
    <3> QED BY <1>4, <3>1 DEF CallbackStages, Targets, EventKinds
  <2> QED BY <1>6, <2>1, Zenon DEF OwnerShutdownStep, CallStep, RequestShutdown, Downcall,
             SettleShutdown
<1>7. ASSUME OwnerEventStep PROVE FALSE
  <2>1. \E event \in EventNames, stage \in {"capture", "cancel", "routed", "leaving"},
           target \in {Target, "none"} : Dispatch(event, stage, target, "none")
    BY <1>7, Zenon DEF OwnerEventStep, StartComplete, Receive, SendShutdownComplete,
       CancelOnLoss, ShutdownComplete, EventNames
  <2>2. PICK event \in EventNames, stage \in {"capture", "cancel", "routed", "leaving"},
             target \in {Target, "none"} : Dispatch(event, stage, target, "none")
    BY <2>1
  <2>3. event \in EventKinds /\ stage \in CallbackStages /\ target \in Targets
        /\ stage # "inside"
    BY <1>1 DEF EventNames, EventKinds, CallbackStages, Targets
  <2> QED BY <1>4, <2>2, <2>3
<1>8. ASSUME OwnerDispatchStep PROVE Inside(Msquic, c) \/ contexts[c].Accepting
  <2>1. ASSUME NEW d \in Dispatchers, TakeRoute(d) PROVE callback'[Msquic] = callback[Msquic]
    BY <1>1, <1>2, <2>1, TakeRouteEffect, MsquicDispatches
  <2>2. ASSUME NEW d \in Dispatchers, OnStreamEvent(d)
        PROVE  callback'[Msquic] = callback[Msquic] \/ contexts[c].Accepting
    BY <1>1, <1>2, <2>2, EnterEffect, MsquicDispatches
  <2>3. ASSUME NEW d \in Dispatchers, Leave(d) PROVE callback'[Msquic] = callback[Msquic]
    BY <1>1, <1>2, <2>3, LeaveEffect, MsquicDispatches
  <2>4. ASSUME ReturnFromCallback PROVE callback'[Msquic] = callback[Msquic]
    BY <1>1, <1>2, <2>4, ReturnEffect
  <2>5. ASSUME DispatchBufferedEvent PROVE callback'[Msquic] = callback[Msquic]
    BY <1>1, <2>5, BufferedEffect
  <2> QED BY <1>3, <1>8, <2>1, <2>2, <2>3, <2>4, <2>5, Zenon DEF OwnerDispatchStep
<1>9. CASE MakeStep \/ OwnerRouteStep \/ OwnerContextStep
  BY <1>3, <1>9, MakeFrame, RouteFrame, ContextFrame
<1> QED BY <1>3, <1>5, <1>6, <1>7, <1>8, <1>9, Zenon DEF OwnerStep

\* A step that keeps the relay and the buffered dispatch as they are, and routes to
\* no context anew.
LEMMA RouteInvStays ==
    ASSUME RouteInv, OwnerStep, UNCHANGED <<env, kind>>, relay'.stage = relay.stage,
           Target' = Target \/ Target' \notin Contexts,
           callback'["buffered"] = callback["buffered"],
           callback'[Msquic].stage # "idle" =>
             callback[Msquic].stage # "idle" \/ Phase # "None"
    PROVE  RouteInv'
BY StartedStays DEF RouteInv

LEMMA StartFailureRoute ==
    ASSUME PublishStartFailureAndTakeTarget
    PROVE  Target' = Target \/ Target' \notin Contexts
BY DEF PublishStartFailureAndTakeTarget, Contexts

LEMMA RouteInvMake ==
    ASSUME LifeInv, RouteInv, MakeStep, UNCHANGED kind PROVE RouteInv'
<1>1. UNCHANGED <<env, relay, callback>> /\ OwnerStep
  BY MakeFrame DEF OwnerStep
<1>2. CASE Phase = "None"
  <2>1. relay.stage = "none" /\ callback["buffered"].stage = "idle"
        /\ callback[Msquic].stage = "idle"
    BY <1>2 DEF RouteInv
  <2> QED BY <1>1, <2>1 DEF RouteInv
<1>3. CASE Phase # "None"
  <2>1. UNCHANGED Target
    BY <1>3, Zenon DEF MakeStep, OpenOutgoing, AdoptAccepted, FactoryFails,
       EmergencyAcceptedCallback
  <2> QED BY <1>1, <2>1, RouteInvStays
<1> QED BY <1>2, <1>3

\* MsQuic reports events of a stream that was made.
LEMMA EventsOfMade == ASSUME LifeInv, MayEvent PROVE Phase # "None"
BY DEF LifeInv, RetainInv, MayEvent

LEMMA RouteInvSend ==
    ASSUME LifeInv, RouteInv, NEW k \in Keys, OwnerSendStep(k), UNCHANGED kind
    PROVE  RouteInv'
<1>1. UNCHANGED <<env, relay>> /\ OwnerStep
  BY SendFrames DEF OwnerStep
<1>2. /\ callback \in [Dispatchers -> CallbackType]
      /\ completions \in [Keys -> CompletionType]
  BY DEF LifeInv, LifeTypes
<1>3. Target' = Target \/ Target' \notin Contexts
  <2>1. CASE CancelSendCompletion(k)
    BY <2>1, StartFailureRoute, Zenon DEF CancelSendCompletion
  <2> QED BY <2>1, Zenon DEF OwnerSendStep, SendStep, SendComplete, BeginSend,
             FrameReturned, TryAcquireApi, CaptureRoute, RegisterSendCompletion, Send,
             SendReturns
<1>4. CASE SendComplete(k)
  <2>1. Phase # "None"
    BY <1>4, EventsOfMade, Zenon DEF SendComplete
  <2>2. callback'["buffered"] = callback["buffered"]
    <3>1. CASE Registered(k)
      <4>1. completions[k].route \in Targets
        BY <1>2 DEF CompletionType
      <4>2. Dispatch("SEND_COMPLETE", "routed", completions[k].route, k)
        BY <1>4, <3>1, Zenon DEF SendComplete
      <4> QED BY <1>2, <4>1, <4>2, DispatchEffect DEF CallbackStages, EventKinds
    <3>2. CASE ~Registered(k)
      BY <1>4, <3>2 DEF SendComplete
    <3> QED BY <3>1, <3>2
  <2> QED BY <1>1, <1>3, <2>1, <2>2, RouteInvStays
<1>5. CASE UNCHANGED callback
  BY <1>1, <1>3, <1>5, RouteInvStays
<1> QED BY <1>4, <1>5, Zenon DEF OwnerSendStep, SendStep, BeginSend, FrameReturned,
           TryAcquireApi, CaptureRoute, RegisterSendCompletion, Send, SendReturns,
           CancelSendCompletion

LEMMA RouteInvShutdown ==
    ASSUME LifeInv, RouteInv, OwnerShutdownStep, UNCHANGED kind PROVE RouteInv'
<1>1. UNCHANGED <<env, relay, Target>> /\ OwnerStep
  BY ShutdownFrame DEF OwnerStep
<1>2. CASE CancelRequests
  <2>1. /\ Dispatch("CANCEL_ON_LOSS", "capture", "none", "none")
        /\ callback[Msquic].stage = "cancel"
    BY <1>2, Zenon DEF CancelRequests
  <2>2. callback'["buffered"] = callback["buffered"]
    BY Zenon, <2>1, DispatchEffect DEF LifeInv, LifeTypes, CallbackStages, Targets, EventKinds
  <2> QED BY <1>1, <2>1, <2>2, RouteInvStays
<1>3. CASE UNCHANGED callback
  BY <1>1, <1>3, RouteInvStays
<1> QED BY <1>2, <1>3, Zenon DEF OwnerShutdownStep, CallStep, RequestShutdown, Downcall,
           SettleShutdown

LEMMA RouteInvEvent ==
    ASSUME LifeInv, RouteInv, OwnerEventStep, UNCHANGED kind PROVE RouteInv'
<1>1. UNCHANGED <<env, relay>> /\ OwnerStep
  BY EventFrame DEF OwnerStep
<1>2. /\ callback \in [Dispatchers -> CallbackType] /\ Target \in Targets
  BY DEF LifeInv, LifeTypes, OwnerTypes
<1>3. Phase # "None"
  <2>1. MayEvent
    BY Zenon DEF OwnerEventStep, StartComplete, Receive, SendShutdownComplete,
       CancelOnLoss, ShutdownComplete
  <2> QED BY <2>1, EventsOfMade
<1>4. callback'["buffered"] = callback["buffered"]
  BY <1>2, EventDispatch, DispatchEffect, Zenon
<1>5. Target' = Target \/ Target' \notin Contexts
  <2>1. Target' = Target \/ Target' = "none"
    BY Zenon DEF OwnerEventStep, StartComplete, Receive, SendShutdownComplete, CancelOnLoss,
       ShutdownComplete, PublishStartFailureAndTakeTarget
  <2> QED BY <2>1 DEF Contexts
<1> QED BY <1>1, <1>3, <1>4, <1>5, RouteInvStays

LEMMA RouteInvDispatch ==
    ASSUME LifeInv, RouteInv, OwnerDispatchStep, UNCHANGED kind PROVE RouteInv'
<1>1. UNCHANGED <<env, relay, Target, Phase>> /\ OwnerStep
  BY DispatchFrame DEF OwnerStep
<1>2. /\ callback \in [Dispatchers -> CallbackType] /\ Target \in Targets
  BY DEF LifeInv, LifeTypes, OwnerTypes
<1>3. ASSUME \A d \in Dispatchers : callback'[d].stage # "idle" => callback[d].stage # "idle",
             callback'["buffered"].target \notin Contexts
      PROVE  RouteInv'
  <2>1. /\ callback'["buffered"].stage # "idle" => callback["buffered"].stage # "idle"
        /\ callback'[Msquic].stage # "idle" => callback[Msquic].stage # "idle"
    BY <1>3, MsquicDispatches
  <2> QED BY <1>1, <1>3, <2>1 DEF RouteInv
<1>4. ASSUME NEW d \in Dispatchers, TakeRoute(d) PROVE RouteInv'
  <2>1. /\ callback'[d].target = Target
        /\ \A e \in Dispatchers \ {d} : callback'[e] = callback[e]
    BY <1>2, <1>4, TakeRouteEffect
  <2>2. callback[d].stage = "capture"
    BY <1>4 DEF TakeRoute
  <2>3. callback'["buffered"].target \notin Contexts
    BY <2>1, <2>2, MsquicDispatches DEF RouteInv
  <2> QED BY <1>3, <2>1, <2>2, <2>3
<1>5. ASSUME NEW d \in Dispatchers, OnStreamEvent(d) PROVE RouteInv'
  <2>1. /\ callback'[d].target = callback[d].target
        /\ \A e \in Dispatchers \ {d} : callback'[e] = callback[e]
    BY <1>2, <1>5, EnterEffect
  <2>2. callback[d].stage = "routed"
    BY <1>5 DEF OnStreamEvent
  <2>3. callback'["buffered"].target \notin Contexts
    BY <2>1, MsquicDispatches DEF RouteInv
  <2> QED BY <1>3, <2>1, <2>2, <2>3
<1>6. ASSUME NEW d \in Dispatchers, Leave(d) PROVE RouteInv'
  <2>1. /\ callback'[d].stage = "idle" /\ callback'[d].target = "none"
        /\ \A e \in Dispatchers \ {d} : callback'[e] = callback[e]
    BY <1>2, <1>6, LeaveEffect
  <2>2. callback'["buffered"].target \notin Contexts
    BY <2>1, MsquicDispatches DEF RouteInv, Contexts
  <2> QED BY <1>3, <2>1, <2>2
<1>7. CASE ReturnFromCallback
  <2>1. callback'["buffered"] = callback["buffered"] /\ callback[Msquic].stage = "inside"
    BY <1>2, <1>7, ReturnEffect DEF ReturnFromCallback
  <2> QED BY <1>3, <2>1, MsquicDispatches DEF RouteInv
<1>8. CASE DispatchBufferedEvent
  <2>1. /\ callback'["buffered"].target = "none" /\ callback'[Msquic] = callback[Msquic]
        /\ relay.stage = "routed"
    BY <1>2, <1>8, BufferedEffect DEF DispatchBufferedEvent
  <2> QED BY <1>1, <2>1 DEF RouteInv, Contexts
<1> QED BY <1>4, <1>5, <1>6, <1>7, <1>8, Zenon DEF OwnerDispatchStep

\* The relay registers at a stream that has a tunnel.
LEMMA RouteInvRoute ==
    ASSUME LifeInv, RouteInv, OwnerRouteStep, UNCHANGED kind,
           ReadGeneration => env.role = "client" \/ kind = "tunnel"
    PROVE  RouteInv'
<1>1. UNCHANGED <<env, Phase, callback>>
  BY RouteFrame
<1>2. relay \in [stage : {"none", "reading", "routed", "gone"}, expected : Nat]
  BY DEF LifeInv, LifeTypes, OwnerTypes
<1>3. CASE ReadGeneration
  <2>1. Phase # "None" /\ relay.stage = "none" /\ Target' = Target
    BY <1>3 DEF ReadGeneration, Usable
  <2>2. relay'.stage = "reading"
    BY <1>3 DEF ReadGeneration
  <2> QED BY <1>1, <1>3, <2>1, <2>2 DEF RouteInv
<1>4. CASE PublishTarget
  <2>1. relay.stage = "reading"
    BY <1>4 DEF PublishTarget
  <2>2. \/ relay'.stage = "routed" /\ Target' = "relay"
        \/ relay'.stage = "gone" /\ Target' = Target
    BY <1>2, <1>4 DEF PublishTarget
  <2> QED BY <1>1, <2>1, <2>2 DEF RouteInv, Contexts
<1>5. CASE BeginTerminalShutdown \/ CallTerminalShutdown
  <2>1. relay' = relay /\ (Target' = Target \/ Target' = "sink")
    BY <1>5, Zenon DEF BeginTerminalShutdown, CallTerminalShutdown
  <2> QED BY <1>1, <2>1 DEF RouteInv, Contexts
<1>6. CASE RelayRetires
  <2>1. relay.stage = "routed" /\ Target' = Target /\ relay'.stage = "gone"
    BY <1>2, <1>6 DEF RelayRetires
  <2> QED BY <1>1, <2>1 DEF RouteInv
<1> QED BY <1>3, <1>4, <1>5, <1>6, Zenon DEF OwnerRouteStep

\* The groups of steps that leave the contexts alone.
PlainStep ==
    \/ OpenOutgoing \/ AdoptAccepted \/ EmergencyAcceptedCallback \/ OwnerShutdownStep
    \/ OwnerEventStep \/ OwnerDispatchStep \/ OwnerRouteStep
    \/ \E k \in Keys : OwnerSendStep(k)

LEMMA PlainSteps == ASSUME PlainStep PROVE OwnerStep /\ UNCHANGED contexts
<1>1. OwnerStep
  BY Zenon DEF PlainStep, OwnerStep, MakeStep
<1>2. UNCHANGED contexts
  BY ShutdownFrame, EventFrame, DispatchFrame, RouteFrame, SendFrames, Zenon
     DEF PlainStep, OpenOutgoing, AdoptAccepted, EmergencyAcceptedCallback
<1> QED BY <1>1, <1>2

\* The contexts keep what is said of them in a step of the owner, or of a context,
\* that makes and deletes none.
LEMMA QuietStep ==
    ASSUME LifeInv, ContextInv, PlainStep, UNCHANGED kind, body' = body \/ body' # "none",
           ReadGeneration => env.role = "client" \/ kind = "tunnel"
    PROVE  ContextInv'
<1>1. OwnerStep /\ Quiet
  BY PlainSteps DEF Quiet
<1>2. DeleteInv'
  <2>1. \A c \in Contexts : Inside(Msquic, c)' => Inside(Msquic, c) \/ contexts[c].Accepting
    BY <1>1, InsideSteps DEF LifeInv
  <2> QED BY <1>1, <2>1, QuietDelete DEF ContextInv
<1>3. KindInv'
  BY <1>1, QuietKind DEF ContextInv, Quiet
<1>4. RouteInv'
  BY RouteInvMake, RouteInvSend, RouteInvShutdown, RouteInvEvent, RouteInvDispatch,
     RouteInvRoute, Zenon DEF PlainStep, MakeStep, ContextInv
<1> QED BY <1>2, <1>3, <1>4 DEF ContextInv

LEMMA QuietStutter ==
    ASSUME ContextInv, UNCHANGED lifeVars, UNCHANGED kind, body' = body \/ body' # "none"
    PROVE  ContextInv'
<1>1. DeleteInv'
  BY DEF ContextInv, DeleteInv, Inside, lifeVars
<1>2. RouteInv' /\ KindInv'
  BY DEF ContextInv, RouteInv, KindInv, lifeVars
<1> QED BY <1>1, <1>2 DEF ContextInv

-----------------------------------------------------------------------------
(* Contexts that go.                                                        *)

LEMMA CompletedFacts ==
    ASSUME OnComplete \in CompleteType, OnComplete.calls <= 1,
           OnComplete.with = "none" <=> OnComplete.calls = 1, NEW c \in Contexts
    PROVE  /\ Completed(c) \in CompleteType
           /\ Completed(c).calls <= 1
           /\ Completed(c).with = "none" <=> Completed(c).calls = 1
           /\ Completed(c).with = IF OnComplete.with = c THEN "none" ELSE OnComplete.with
<1>1. CASE OnComplete.with = c
  <2>1. c # "none"
    BY DEF Contexts
  <2>2. OnComplete.calls = 0
    BY <1>1, <2>1 DEF CompleteType
  <2>3. Completed(c) = [with |-> "none", calls |-> 1]
    BY <1>1, <2>2 DEF Completed
  <2> QED BY <1>1, <2>3 DEF CompleteType
<1>2. CASE OnComplete.with # c
  BY <1>2 DEF Completed
<1> QED BY <1>1, <1>2

LEMMA CleanupFacts ==
    ASSUME speed \in SpeedType, speed.session = "open" => speed.SessionActive
    PROVE  CleanupSession \in SpeedType /\ CleanupSession.session # "open"
BY Zenon DEF CleanupSession, SpeedType

\* A context that goes, whoever deletes it.
LEMMA ContextGoes ==
    ASSUME ContextTypes, DeleteInv, KindInv, SettleInv, NEW c \in Contexts,
           contexts[c].state \in {"live", "detaching"},
           contexts'[c].state = "deleted", ~contexts'[c].Accepting,
           \A e \in Contexts \ {c} : contexts'[e] = contexts[e],
           Inside(Msquic, c) => contexts'[c].by = Msquic /\ body' # "none",
           UNCHANGED <<callback, kind>>, body' = body \/ body' = "done",
           OnComplete' = Completed(c),
           \/ speed' = speed /\ (c = "first" \/ kind = "tunnel")
           \/ /\ c = "second" /\ kind = "speed" /\ speed' = CleanupSession
              /\ body' = "done"
    PROVE  DeleteInv' /\ KindInv' /\ SettleInv'
<1>1. ASSUME NEW e \in Contexts
      PROVE  /\ contexts'[e].Accepting => contexts'[e].state = "live"
             /\ contexts'[e].state = "deleted" /\ Inside(Msquic, e)' =>
                  contexts'[e].by = Msquic /\ body' # "none"
  <2>1. Inside(Msquic, e)' = Inside(Msquic, e)
    BY DEF Inside
  <2>2. CASE e = c
    BY <2>1, <2>2
  <2>3. CASE e # c
    BY <2>1, <2>3 DEF DeleteInv
  <2> QED BY <2>2, <2>3
<1>2. DeleteInv'
  BY <1>1 DEF DeleteInv
<1>3. \/ c = "first" /\ contexts'["second"] = contexts["second"]
      \/ c = "second" /\ contexts'["first"] = contexts["first"]
  BY TwoContexts
<1>4. KindInv'
  BY <1>3 DEF KindInv
<1>5. /\ OnComplete'.calls <= 1
      /\ OnComplete'.with = "none" <=> OnComplete'.calls = 1
      /\ OnComplete'.with = IF OnComplete.with = c THEN "none" ELSE OnComplete.with
  BY CompletedFacts DEF ContextTypes, SettleInv
<1>6. c # "none"
  BY DEF Contexts
<1>7. ASSUME NEW e \in Contexts, OnComplete'.with = e
      PROVE  contexts'[e].state \in {"live", "detaching"}
  <2>1. e # c /\ OnComplete.with = e
    BY <1>5, <1>6, <1>7 DEF Contexts
  <2> QED BY <2>1 DEF SettleInv
<1>8. OnComplete'.with \in {"none", "second"} => contexts'["first"].state = "deleted"
  BY <1>3, <1>5, <1>6 DEF SettleInv
<1>9. speed'.session = "open" =>
        speed'.SessionActive /\ kind' = "speed" /\ contexts'["second"].state = "live"
  <2>1. CASE speed' = CleanupSession
    BY <2>1, CleanupFacts DEF ContextTypes, SettleInv
  <2>2. CASE speed' = speed /\ (c = "first" \/ kind = "tunnel")
    BY <1>3, <2>2 DEF SettleInv
  <2> QED BY <2>1, <2>2
<1>10. body' \in SpeedBodies => kind' = "speed" /\ contexts'["second"].state = "live"
  BY <1>3 DEF SettleInv, SpeedBodies
<1>11. kind' = "speed" => contexts'["second"].state # "detaching"
  BY <1>3 DEF SettleInv
<1>12. SettleInv'
  BY <1>5, <1>7, <1>8, <1>9, <1>10, <1>11 DEF SettleInv
<1> QED BY <1>2, <1>4, <1>12

\* What is the same as it was keeps its type.
LEMMA TypesStay ==
    ASSUME ContextTypes, UNCHANGED kind,
           dispatcher' \in [closing : BOOLEAN, Stream : BOOLEAN],
           speed' \in SpeedType, OnComplete' \in CompleteType
    PROVE  ContextTypes'
BY DEF ContextTypes

LEMMA RouteUnchanged ==
    ASSUME RouteInv, UNCHANGED <<env, kind, relay, Target, Phase, callback>> PROVE RouteInv'
BY DEF RouteInv

ContextsInv == ContextTypes /\ ContextInv /\ SettleInv

LEMMA FactoryFailsStep ==
    ASSUME LifeInv, ContextsInv, FactoryFails, OnComplete' = Completed("first"),
           UNCHANGED <<body, dispatcher, kind, speed>>
    PROVE  ContextsInv'
<1>1. /\ ContextTypes /\ DeleteInv /\ RouteInv /\ KindInv /\ SettleInv
      /\ contexts \in [Contexts -> ContextType]
  BY DEF ContextsInv, ContextInv, LifeInv, LifeTypes
<1>2. Phase = "None" /\ contexts["first"].state = "live" /\ UNCHANGED callback
  BY DEF FactoryFails, Live
<1>3. /\ contexts'["first"].state = "deleted" /\ ~contexts'["first"].Accepting
      /\ contexts'["second"] = contexts["second"]
  BY <1>1, FactoryFailsEffect
<1>4. ~Inside(Msquic, "first")
  BY <1>1, <1>2 DEF RouteInv, Inside
<1>5. \A e \in Contexts \ {"first"} : contexts'[e] = contexts[e]
  BY <1>3, TwoContexts
<1>6. DeleteInv' /\ KindInv' /\ SettleInv'
  BY <1>1, <1>2, <1>3, <1>4, <1>5, TwoContexts, ContextGoes
<1>7. RouteInv'
  BY <1>1, RouteInvMake DEF MakeStep
<1>8. OnComplete' \in CompleteType
  BY <1>1, TwoContexts, CompletedFacts DEF ContextTypes, SettleInv
<1>9. ContextTypes'
  BY <1>1, <1>8 DEF ContextTypes
<1> QED BY <1>6, <1>7, <1>9 DEF ContextsInv, ContextInv

\* The callback deletes its own context.
LEMMA DeleteThisStep ==
    ASSUME LifeInv, ContextsInv, NEW c \in Contexts, DeleteThis(c), body' = "done",
           UNCHANGED kind, dispatcher' \in [closing : BOOLEAN, Stream : BOOLEAN]
    PROVE  ContextsInv'
<1>1. /\ ContextTypes /\ DeleteInv /\ RouteInv /\ KindInv /\ SettleInv
      /\ contexts \in [Contexts -> ContextType]
  BY DEF ContextsInv, ContextInv, LifeInv, LifeTypes
<1>2. /\ contexts[c].state = "live" /\ contexts' = DeletedInside(Msquic, c)
      /\ UNCHANGED <<env, relay, Target, Phase, callback>>
      /\ OnComplete' = Completed(c)
      /\ speed' = IF c = "second" /\ kind = "speed" THEN CleanupSession ELSE speed
  BY Zenon DEF DeleteThis, DeleteInside, Live
<1>3. /\ contexts'[c].state = "deleted" /\ ~contexts'[c].Accepting
      /\ contexts'[c].by = Msquic
      /\ \A e \in Contexts \ {c} : contexts'[e] = contexts[e]
  BY Zenon, <1>1, <1>2, DeletedInsideEffect
<1>4. \/ speed' = speed /\ (c = "first" \/ kind = "tunnel")
      \/ c = "second" /\ kind = "speed" /\ speed' = CleanupSession
  <2>1. c = "second" => kind # "none"
    BY <1>1, <1>2 DEF KindInv
  <2> QED BY <1>1, <1>2, <2>1, TwoContexts DEF ContextTypes
<1>5. DeleteInv' /\ KindInv' /\ SettleInv'
  BY <1>1, <1>2, <1>3, <1>4, ContextGoes
<1>6. RouteInv'
  BY <1>1, <1>2, RouteUnchanged
<1>7. OnComplete' \in CompleteType
  BY <1>1, <1>2, CompletedFacts DEF ContextTypes, SettleInv
<1>8. speed' \in SpeedType
  BY <1>1, <1>4, CleanupFacts DEF ContextTypes, SettleInv
<1>9. ContextTypes'
  BY <1>1, <1>7, <1>8, TypesStay
<1> QED BY <1>5, <1>6, <1>9 DEF ContextsInv, ContextInv

LEMMA TunnelDeletedStep ==
    ASSUME LifeInv, ContextsInv, NEW c \in Contexts, TunnelDeleted(c)
    PROVE  ContextsInv'
<1>1. /\ ContextTypes /\ DeleteInv /\ RouteInv /\ KindInv /\ SettleInv
      /\ contexts \in [Contexts -> ContextType]
  BY DEF ContextsInv, ContextInv, LifeInv, LifeTypes
<1>2. /\ IsTunnel(c) /\ Drained(c) /\ OnComplete' = Completed(c)
      /\ UNCHANGED <<body, dispatcher, kind, speed>>
  BY Zenon DEF TunnelDeleted
<1>3. /\ contexts[c].state = "detaching" /\ ~Inside(Msquic, c)
      /\ UNCHANGED <<env, relay, Target, Phase, callback>>
  BY <1>2, MsquicDispatches, Zenon DEF Drained
<1>4. /\ contexts'[c].state = "deleted" /\ contexts'[c].Accepting = contexts[c].Accepting
      /\ \A e \in Contexts \ {c} : contexts'[e] = contexts[e]
  BY <1>1, <1>2, DrainedEffect
<1>5. ~contexts'[c].Accepting
  BY <1>1, <1>3, <1>4 DEF DeleteInv
<1>6. c = "first" \/ kind = "tunnel"
  BY <1>2 DEF IsTunnel
<1>7. DeleteInv' /\ KindInv' /\ SettleInv'
  BY <1>1, <1>2, <1>3, <1>4, <1>5, <1>6, ContextGoes
<1>8. RouteInv'
  BY <1>1, <1>2, <1>3, RouteUnchanged
<1>9. OnComplete' \in CompleteType
  BY <1>1, <1>2, CompletedFacts DEF ContextTypes, SettleInv
<1>10. ContextTypes'
  BY <1>1, <1>2, <1>9 DEF ContextTypes
<1> QED BY <1>7, <1>8, <1>10 DEF ContextsInv, ContextInv

LEMMA TunnelDetachesStep ==
    ASSUME LifeInv, ContextsInv, NEW c \in Contexts, TunnelDetaches(c)
    PROVE  ContextsInv'
<1>1. /\ ContextTypes /\ DeleteInv /\ RouteInv /\ KindInv /\ SettleInv
      /\ contexts \in [Contexts -> ContextType]
  BY DEF ContextsInv, ContextInv, LifeInv, LifeTypes
<1>2. /\ IsTunnel(c) /\ Detach(c)
      /\ UNCHANGED <<body, dispatcher, kind, speed, OnComplete>>
  BY Zenon DEF TunnelDetaches, contextVars
<1>3. /\ contexts[c].state = "live"
      /\ UNCHANGED <<env, relay, Target, Phase, callback>>
  BY <1>2, Zenon DEF Detach, Live
<1>4. /\ contexts'[c].state = "detaching" /\ ~contexts'[c].Accepting
      /\ \A e \in Contexts \ {c} : contexts'[e] = contexts[e]
  BY <1>1, <1>2, DetachEffect
<1>5. \/ c = "first" /\ contexts'["second"] = contexts["second"]
      \/ c = "second" /\ contexts'["first"] = contexts["first"] /\ kind = "tunnel"
  BY <1>2, <1>4, TwoContexts DEF IsTunnel
<1>6. ASSUME NEW e \in Contexts
      PROVE  /\ contexts'[e].Accepting => contexts'[e].state = "live"
             /\ contexts'[e].state = "deleted" /\ Inside(Msquic, e)' =>
                  contexts'[e].by = Msquic /\ body' # "none"
  <2>1. Inside(Msquic, e)' = Inside(Msquic, e)
    BY Zenon, <1>3 DEF Inside
  <2>2. CASE e = c
    BY <1>4, <2>2
  <2>3. CASE e # c
    BY <1>1, <1>2, <1>4, <2>1, <2>3 DEF DeleteInv
  <2> QED BY <2>2, <2>3
<1>7. DeleteInv'
  BY <1>6 DEF DeleteInv
<1>8. KindInv'
  BY <1>1, <1>2, <1>3, <1>4, <1>5 DEF KindInv
<1>9. SettleInv'
  <2>1. ASSUME NEW e \in Contexts, OnComplete'.with = e
        PROVE  contexts'[e].state \in {"live", "detaching"}
    BY <1>1, <1>2, <1>4, <2>1 DEF SettleInv
  <2>2. OnComplete'.with \in {"none", "second"} => contexts'["first"].state = "deleted"
    BY <1>1, <1>2, <1>3, <1>5 DEF SettleInv
  <2>3. /\ speed'.session = "open" =>
             speed'.SessionActive /\ kind' = "speed" /\ contexts'["second"].state = "live"
        /\ body' \in SpeedBodies => kind' = "speed" /\ contexts'["second"].state = "live"
        /\ kind' = "speed" => contexts'["second"].state # "detaching"
    BY <1>1, <1>2, <1>5 DEF SettleInv
  <2> QED BY Zenon, <1>1, <1>2, <2>1, <2>2, <2>3 DEF SettleInv
<1>10. RouteInv'
  BY <1>1, <1>2, <1>3, RouteUnchanged
<1>11. ContextTypes'
  BY <1>1, <1>2 DEF ContextTypes
<1> QED BY <1>7, <1>8, <1>9, <1>10, <1>11 DEF ContextsInv, ContextInv

\* Who is inside a context and has not begun its callback is inside a context that
\* is not deleted.
LEMMA BodyBegins ==
    ASSUME DeleteInv, NEW c \in Contexts, Inside(Msquic, c), body = "none"
    PROVE  contexts[c].state # "deleted"
BY DEF DeleteInv

\* The stream is handed on: no relay can have registered before.
LEMMA HandOffStep ==
    ASSUME LifeInv, ContextsInv, NEW what, NEW next, HandOff(what, next),
           <<what, next>> \in {<<"tunnel", "done">>, <<"speed", "speed">>}
    PROVE  ContextsInv'
<1>0. \/ what = "tunnel" /\ next = "done"
      \/ what = "speed" /\ next = "speed"
  OBVIOUS
<1>1. /\ ContextTypes /\ DeleteInv /\ RouteInv /\ KindInv /\ SettleInv
      /\ contexts \in [Contexts -> ContextType]
  BY DEF ContextsInv, ContextInv, LifeInv, LifeTypes
<1>2. /\ env.role = "server" /\ Inside(Msquic, "first") /\ body = "none" /\ body' = next
      /\ Usable
  BY Zenon DEF HandOff, DispatcherReceives, InBody, Do
<1>3. /\ kind' = what /\ dispatcher' = [dispatcher EXCEPT !.Stream = FALSE]
      /\ OnComplete' = IF OnComplete.with = "first"
                       THEN [OnComplete EXCEPT !.with = "second"] ELSE OnComplete
      /\ UNCHANGED <<env, Phase, relay, callback, speed>>
  BY Zenon DEF HandOff
<1>4. /\ contexts'["first"].state = "deleted" /\ ~contexts'["first"].Accepting
      /\ contexts'["first"].by = Msquic
      /\ contexts'["second"].state = "live"
  BY <1>1, HandOffEffect
<1>5. contexts["first"].state # "deleted" /\ kind = "none"
  BY <1>1, <1>2, BodyBegins, TwoContexts DEF KindInv
<1>6. relay.stage = "none" /\ callback["buffered"].stage = "idle"
  BY <1>1, <1>2, <1>5 DEF RouteInv
<1>7. Phase # "None"
  BY <1>2 DEF Usable
<1>8. RouteInv'
  BY <1>1, <1>3, <1>6, <1>7 DEF RouteInv
<1>9. DeleteInv'
  <2>1. body' # "none"
    BY <1>0, <1>2
  <2>2. ASSUME NEW e \in Contexts
        PROVE  /\ contexts'[e].Accepting => contexts'[e].state = "live"
               /\ contexts'[e].state = "deleted" /\ Inside(Msquic, e)' =>
                    contexts'[e].by = Msquic /\ body' # "none"
    BY <1>4, <2>1, TwoContexts
  <2> QED BY <2>2 DEF DeleteInv
<1>10. KindInv'
  BY <1>0, <1>3, <1>4 DEF KindInv
<1>11. OnComplete' \in CompleteType /\ OnComplete'.calls = OnComplete.calls
       /\ OnComplete'.with \notin {"none", "first"} /\ OnComplete.with # "none"
  <2>1. OnComplete.with \notin {"none", "second"}
    BY <1>1, <1>5 DEF SettleInv
  <2> QED BY <1>1, <1>3, <2>1 DEF ContextTypes, CompleteType, Contexts
<1>12. SettleInv'
  <2>1. /\ OnComplete'.calls <= 1
        /\ OnComplete'.with = "none" <=> OnComplete'.calls = 1
    BY <1>1, <1>11 DEF SettleInv
  <2>2. ASSUME NEW e \in Contexts, OnComplete'.with = e
        PROVE  contexts'[e].state \in {"live", "detaching"}
    BY <1>4, <1>11, <2>2, TwoContexts
  <2>3. speed'.session # "open"
    BY <1>1, <1>3, <1>5 DEF SettleInv
  <2>4. body' \in SpeedBodies => kind' = "speed"
    BY <1>0, <1>2, <1>3 DEF SpeedBodies
  <2> QED BY <1>4, <2>1, <2>2, <2>3, <2>4 DEF SettleInv
<1>13. ContextTypes'
  BY Zenon, <1>0, <1>1, <1>3, <1>11 DEF ContextTypes
<1> QED BY <1>8, <1>9, <1>10, <1>12, <1>13 DEF ContextsInv, ContextInv

-----------------------------------------------------------------------------
(* What a callback does without deleting its context.                       *)

\* The part of ContextsInv that a step changes which keeps the contexts.
LEMMA BodySettle ==
    ASSUME SettleInv, UNCHANGED <<contexts, kind, OnComplete>>,
           body' \in SpeedBodies =>
             body \in SpeedBodies \/ (kind = "speed" /\ contexts["second"].state = "live"),
           speed'.session = "open" =>
             speed'.SessionActive /\ (speed.session = "open" \/ body \in SpeedBodies)
    PROVE  SettleInv'
BY DEF SettleInv

\* A step of a callback that leaves the owner alone.
BodyOnly == UNCHANGED lifeVars /\ UNCHANGED kind /\ body' # "none"

LEMMA BodyOnlyStep ==
    ASSUME ContextsInv, BodyOnly, dispatcher' \in [closing : BOOLEAN, Stream : BOOLEAN],
           speed' \in SpeedType, OnComplete' = OnComplete,
           body' \in SpeedBodies =>
             body \in SpeedBodies \/ (kind = "speed" /\ contexts["second"].state = "live"),
           speed'.session = "open" =>
             speed'.SessionActive /\ (speed.session = "open" \/ body \in SpeedBodies)
    PROVE  ContextsInv'
<1>1. ContextInv'
  BY QuietStutter DEF ContextsInv, BodyOnly
<1>2. SettleInv'
  BY BodySettle DEF ContextsInv, BodyOnly, lifeVars
<1>3. ContextTypes'
  BY DEF ContextsInv, ContextTypes, BodyOnly
<1> QED BY <1>1, <1>2, <1>3 DEF ContextsInv

LEMMA OpenIsActive ==
    ASSUME ContextsInv
    PROVE  /\ speed \in SpeedType /\ dispatcher \in [closing : BOOLEAN, Stream : BOOLEAN]
           /\ OnComplete \in CompleteType
           /\ speed.session = "open" => speed.SessionActive
BY DEF ContextsInv, ContextTypes, SettleInv

\* The dispatcher reads, or ignores, an event.
LEMMA DispatcherStays ==
    ASSUME ContextsInv, TryDispatch \/ DispatcherIgnores PROVE ContextsInv'
<1>1. BodyOnly /\ UNCHANGED <<speed, OnComplete>> /\ body' \notin SpeedBodies
  <2>1. /\ UNCHANGED lifeVars /\ UNCHANGED <<kind, speed, OnComplete>>
        /\ body' \in {"done", "abort", "error", "finish"}
    BY DEF TryDispatch, DispatcherIgnores, DispatcherReceives, Do
  <2> QED BY <2>1 DEF BodyOnly, SpeedBodies
<1>2. dispatcher' \in [closing : BOOLEAN, Stream : BOOLEAN]
  <2>1. dispatcher' = dispatcher \/ dispatcher' = [dispatcher EXCEPT !.closing = TRUE]
    BY Zenon DEF TryDispatch, DispatcherIgnores
  <2> QED BY Zenon, <2>1, OpenIsActive
<1> QED BY <1>1, <1>2, OpenIsActive, BodyOnlyStep

LEMMA SpeedContextNotMadeStep ==
    ASSUME ContextsInv, SpeedContextNotMade PROVE ContextsInv'
<1>1. /\ UNCHANGED lifeVars /\ UNCHANGED <<dispatcher, kind, speed>> /\ body' = "abort"
      /\ OnComplete.with = "first" /\ OnComplete' = [OnComplete EXCEPT !.with = "lost"]
  BY Zenon DEF SpeedContextNotMade, DispatcherReceives, Do
<1>2. ContextInv'
  BY <1>1, QuietStutter DEF ContextsInv
<1>3. /\ OnComplete' \in CompleteType /\ OnComplete'.with = "lost"
      /\ OnComplete'.calls = OnComplete.calls
  BY <1>1, OpenIsActive DEF CompleteType
<1>4. UNCHANGED contexts
  BY <1>1 DEF lifeVars
<1>5. SettleInv'
  BY <1>1, <1>3, <1>4 DEF ContextsInv, SettleInv, Contexts, SpeedBodies
<1>6. ContextTypes'
  BY <1>1, <1>3 DEF ContextsInv, ContextTypes
<1> QED BY <1>2, <1>5, <1>6 DEF ContextsInv

\* The control stream begins to process what it received, or does not.
LEMMA SpeedBeginsStep ==
    ASSUME LifeInv, ContextsInv, SpeedReceives \/ SpeedPeerAborts \/ SpeedIgnores
    PROVE  ContextsInv'
<1>1. /\ UNCHANGED lifeVars /\ UNCHANGED <<dispatcher, kind, OnComplete>>
      /\ kind = "speed" /\ Inside(Msquic, "second") /\ body = "none"
      /\ body' \in {"done", "speed"}
      /\ speed' = speed \/ speed' = CleanupSession
  BY DEF SpeedReceives, SpeedPeerAborts, SpeedIgnores, SpeedIn, InBody, Do
<1>2. contexts["second"].state = "live"
  <2>1. contexts["second"].state # "deleted"
    BY <1>1, BodyBegins, TwoContexts DEF ContextsInv, ContextInv
  <2>2. contexts["second"].state \notin {"none", "detaching"}
    BY <1>1 DEF ContextsInv, ContextInv, KindInv, SettleInv
  <2>3. contexts["second"].state \in {"none", "live", "detaching", "deleted"}
    BY TwoContexts DEF LifeInv, LifeTypes, ContextType
  <2> QED BY <2>1, <2>2, <2>3
<1>3. /\ speed' \in SpeedType
      /\ speed'.session = "open" => speed'.SessionActive /\ speed.session = "open"
  BY <1>1, OpenIsActive, CleanupFacts
<1> QED BY <1>1, <1>2, <1>3, OpenIsActive, BodyOnlyStep DEF BodyOnly

LEMMA ProcessBufferedStep == ASSUME ContextsInv, ProcessBuffered PROVE ContextsInv'
<1>1. /\ UNCHANGED lifeVars /\ UNCHANGED <<dispatcher, kind, OnComplete>>
      /\ body = "speed"
  BY Zenon DEF ProcessBuffered
<1>2. body \in SpeedBodies /\ speed \in SpeedType
  BY <1>1, OpenIsActive DEF SpeedBodies
<1>3. /\ body' # "none" /\ speed' \in SpeedType
      /\ speed'.session = "open" => speed'.SessionActive
  <2>1. CASE body' \in {"done", "speedError"} /\ UNCHANGED speed
    BY <2>1, OpenIsActive
  <2>2. CASE /\ speed' = [speed EXCEPT !.SessionStarted = TRUE, !.SessionActive = TRUE,
                                       !.session = "open"]
             /\ body' = "ready"
    BY Zenon, <1>2, <2>2 DEF SpeedType
  <2>3. CASE /\ speed' = [speed EXCEPT !.SessionActive = FALSE, !.session = "closed",
                                       !.FinalFrameQueued = speed.session = "open"]
             /\ body' = IF speed.session = "open" THEN "result" ELSE "speedError"
    BY Zenon, <1>2, <2>3 DEF SpeedType
  <2> QED BY <2>1, <2>2, <2>3 DEF ProcessBuffered, Do
<1> QED BY <1>1, <1>2, <1>3, OpenIsActive, BodyOnlyStep DEF BodyOnly

\* What AfterFrame does with the frame that the callback sent, or could not send.
LEMMA AfterFrameEffect ==
    ASSUME ContextsInv, NEW frame \in Frames, NEW ok \in BOOLEAN, AfterFrame(frame, ok),
           body \in {frame, Sent[frame]}
    PROVE  /\ UNCHANGED <<kind, OnComplete>> /\ body' # "none"
           /\ dispatcher' \in [closing : BOOLEAN, Stream : BOOLEAN]
           /\ speed' \in SpeedType
           /\ body' \in SpeedBodies => body \in SpeedBodies
           /\ speed'.session = "open" => speed'.SessionActive /\ speed.session = "open"
<1>1. UNCHANGED <<kind, OnComplete>>
  BY DEF AfterFrame
<1>2. body' = IF ~ok THEN "abort" ELSE IF frame = "ready" THEN "speed" ELSE "done"
  BY DEF AfterFrame, Do
<1>3. body' # "none" /\ (body' \in SpeedBodies => frame = "ready")
  BY <1>2 DEF SpeedBodies
<1>4. frame = "ready" => body \in SpeedBodies
  BY DEF Sent, SpeedBodies
<1>5. dispatcher' = dispatcher \/ dispatcher' = [dispatcher EXCEPT !.closing = TRUE]
  BY DEF AfterFrame
<1>6. dispatcher' \in [closing : BOOLEAN, Stream : BOOLEAN]
  BY Zenon, <1>5, OpenIsActive
<1>7. \/ speed' = speed \/ speed' = CleanupSession
      \/ speed' = [speed EXCEPT !.FinalFrameQueued = TRUE]
  BY DEF AfterFrame
<1>8. /\ speed' \in SpeedType
      /\ speed'.session = "open" => speed'.SessionActive /\ speed.session = "open"
  <2>1. CASE speed' = speed
    BY <2>1, OpenIsActive
  <2>2. CASE speed' = CleanupSession
    BY <2>2, OpenIsActive, CleanupFacts
  <2>3. CASE speed' = [speed EXCEPT !.FinalFrameQueued = TRUE]
    BY Zenon, <2>3, OpenIsActive DEF SpeedType
  <2> QED BY <1>7, <2>1, <2>2, <2>3
<1> QED BY <1>1, <1>3, <1>4, <1>6, <1>8

LEMMA FrameNotMadeStep == ASSUME ContextsInv, FrameNotMade PROVE ContextsInv'
<1>1. UNCHANGED lifeVars /\ body \in Frames /\ AfterFrame(body, FALSE)
  BY Zenon DEF FrameNotMade
<1>2. /\ UNCHANGED <<kind, OnComplete>> /\ body' # "none"
      /\ dispatcher' \in [closing : BOOLEAN, Stream : BOOLEAN]
      /\ speed' \in SpeedType
      /\ body' \in SpeedBodies => body \in SpeedBodies
      /\ speed'.session = "open" => speed'.SessionActive /\ speed.session = "open"
  BY Zenon, <1>1, AfterFrameEffect
<1> QED BY <1>1, <1>2, BodyOnlyStep DEF BodyOnly

LEMMA StopAllStep == ASSUME ContextsInv, StopAll PROVE ContextsInv'
<1>1. /\ UNCHANGED lifeVars /\ UNCHANGED <<body, dispatcher, kind, OnComplete>>
      /\ speed' = [speed EXCEPT !.session = "closed"]
  BY Zenon DEF StopAll
<1>2. speed' \in SpeedType /\ speed'.session = "closed"
  BY <1>1, OpenIsActive DEF SpeedType
<1>3. ContextInv'
  BY <1>1, QuietStutter DEF ContextsInv
<1>4. SettleInv'
  BY <1>1, <1>2, BodySettle DEF ContextsInv, lifeVars
<1>5. ContextTypes'
  BY <1>1, <1>2 DEF ContextsInv, ContextTypes
<1> QED BY <1>3, <1>4, <1>5 DEF ContextsInv

-----------------------------------------------------------------------------
(* Steps of the owner that the contexts, or others, make.                   *)

LEMMA OwnerQuietStep ==
    ASSUME LifeInv, ContextsInv, PlainStep,
           UNCHANGED <<kind, OnComplete>>, body' = body \/ body' # "none",
           dispatcher' \in [closing : BOOLEAN, Stream : BOOLEAN], speed' \in SpeedType,
           body' \in SpeedBodies => body \in SpeedBodies,
           speed'.session = "open" => speed'.SessionActive /\ speed.session = "open",
           ReadGeneration => env.role = "client" \/ kind = "tunnel"
    PROVE  ContextsInv'
<1>1. ContextInv'
  BY QuietStep DEF ContextsInv
<1>2. SettleInv'
  BY PlainSteps, BodySettle DEF ContextsInv
<1>3. ContextTypes'
  BY DEF ContextsInv, ContextTypes
<1> QED BY <1>1, <1>2, <1>3 DEF ContextsInv

LEMMA KeptStep ==
    ASSUME LifeInv, ContextsInv, PlainStep, UNCHANGED contextVars,
           ReadGeneration => env.role = "client" \/ kind = "tunnel"
    PROVE  ContextsInv'
<1>1. UNCHANGED <<body, dispatcher, kind, speed, OnComplete>>
  BY DEF contextVars
<1> QED BY <1>1, PlainSteps, OpenIsActive, OwnerQuietStep

\* The sends and the requests of a callback.
LEMMA CallbackActsStep ==
    ASSUME LifeInv, ContextsInv, SendFrame \/ CallbackRequests PROVE ContextsInv'
<1>1. UNCHANGED <<dispatcher, kind, speed, OnComplete>>
  BY Zenon DEF SendFrame, CallbackRequests
<1>2. CASE SendFrame
  <2>1. PICK k \in Keys : BeginSend(k, Msquic)
    BY <1>2 DEF SendFrame
  <2>2. PlainStep
    BY <2>1, Zenon DEF PlainStep, OwnerSendStep
  <2>3. body \in Frames /\ body' = Sent[body]
    BY <1>2 DEF SendFrame, Do
  <2>4. body' # "none" /\ (body' \in SpeedBodies => body \in SpeedBodies)
    BY <2>3 DEF Frames, Sent, SpeedBodies
  <2>5. ~ReadGeneration
    <3>1. sends'[k].stage = "begun" /\ sends[k].stage = "idle"
      BY Zenon, <2>1, BeginSendEffect DEF LifeInv, LifeTypes, BeginSend
    <3> QED BY <3>1 DEF ReadGeneration
  <2> QED BY <1>1, <2>2, <2>4, <2>5, PlainSteps, OpenIsActive, OwnerQuietStep
<1>3. CASE CallbackRequests
  <2>1. PICK intent \in DOMAIN Intents : RequestShutdown(Msquic, intent)
    BY <1>3 DEF CallbackRequests, Intents
  <2>2. PlainStep
    BY <2>1, Zenon DEF PlainStep, OwnerShutdownStep, Callers
  <2>3. body' = "done"
    BY <1>3, Zenon DEF CallbackRequests, Do
  <2>4. ReadGeneration => relay' # relay
    BY DEF ReadGeneration, LifeInv, LifeTypes, OwnerTypes
  <2>5. relay' = relay
    BY <2>1, Zenon DEF RequestShutdown
  <2> QED BY <1>1, <2>2, <2>3, <2>4, <2>5, PlainSteps, OpenIsActive, OwnerQuietStep
          DEF SpeedBodies
<1> QED BY <1>2, <1>3

LEMMA FrameReturnsStep ==
    ASSUME LifeInv, ContextsInv, FrameReturns PROVE ContextsInv'
<1>1. PICK k \in Keys, frame \in Frames :
        /\ body = Sent[frame] /\ FrameReturned(k) /\ AfterFrame(frame, sends[k].ok)
        /\ relay' = relay
  BY Zenon DEF FrameReturns, FrameReturned
<1>2. sends[k].ok \in BOOLEAN
  BY DEF LifeInv, LifeTypes, SendType
<1>3. /\ UNCHANGED <<kind, OnComplete>> /\ body' # "none"
      /\ dispatcher' \in [closing : BOOLEAN, Stream : BOOLEAN]
      /\ speed' \in SpeedType
      /\ body' \in SpeedBodies => body \in SpeedBodies
      /\ speed'.session = "open" => speed'.SessionActive /\ speed.session = "open"
  BY Zenon, <1>1, <1>2, AfterFrameEffect
<1>4. PlainStep
  BY <1>1, Zenon DEF PlainStep, OwnerSendStep
<1>5. ReadGeneration => relay' # relay
  BY DEF ReadGeneration, LifeInv, LifeTypes, OwnerTypes
<1> QED BY <1>1, <1>3, <1>4, <1>5, PlainSteps, OwnerQuietStep

\* The callback returns: nobody is inside a context then.
LEMMA CallbackReturnsStep ==
    ASSUME LifeInv, ContextsInv, CallbackReturns PROVE ContextsInv'
<1>1. /\ ReturnFromCallback /\ body = "done" /\ body' = "none"
      /\ UNCHANGED <<dispatcher, kind, speed, OnComplete>>
  BY Zenon DEF CallbackReturns, Do
<1>2. UNCHANGED contexts
  BY <1>1 DEF ReturnFromCallback
<1>3. callback'[Msquic].stage = "leaving"
  BY <1>1, ReturnEffect DEF LifeInv, LifeTypes
<1>4. DeleteInv'
  <2>1. \A c \in Contexts : ~Inside(Msquic, c)'
    BY <1>3 DEF Inside
  <2> QED BY <1>2, <2>1 DEF ContextsInv, ContextInv, DeleteInv
<1>5. RouteInv'
  BY <1>1, RouteInvDispatch DEF ContextsInv, ContextInv, OwnerDispatchStep
<1>6. KindInv'
  BY <1>1, <1>2, QuietKind DEF ContextsInv, ContextInv
<1>7. SettleInv'
  BY <1>1, <1>2, QuietSettle DEF ContextsInv, SpeedBodies
<1>8. ContextTypes'
  BY <1>1 DEF ContextsInv, ContextTypes
<1> QED BY <1>4, <1>5, <1>6, <1>7, <1>8 DEF ContextsInv, ContextInv

LEMMA TunnelCallbackStep ==
    ASSUME LifeInv, ContextsInv, NEW c \in Contexts, TunnelCallback(c) PROVE ContextsInv'
<1>1. UNCHANGED <<dispatcher, kind>>
  BY Zenon DEF TunnelCallback
<1>2. CASE DeleteThis(c) /\ body' = "done"
  BY <1>1, <1>2, OpenIsActive, DeleteThisStep
<1>3. CASE body' \in {"done", "abort"} /\ UNCHANGED lifeVars /\ UNCHANGED <<OnComplete, speed>>
  BY <1>1, <1>3, OpenIsActive, BodyOnlyStep DEF BodyOnly, SpeedBodies
<1> QED BY <1>2, <1>3 DEF TunnelCallback, Do

-----------------------------------------------------------------------------
(* The theorems about the contexts.                                         *)

LEMMA BodyStepInv == ASSUME LifeInv, ContextsInv, BodyStep PROVE ContextsInv'
<1>1. CASE DispatcherStep
  <2>1. CASE HandOffToTunnelContext
    BY <2>1, HandOffStep DEF HandOffToTunnelContext
  <2>2. CASE HandOffToSpeedControlStream
    BY <2>2, HandOffStep DEF HandOffToSpeedControlStream
  <2>3. CASE DispatcherEnds
    <3>1. /\ DeleteThis("first") /\ body' = "done" /\ UNCHANGED kind
          /\ dispatcher' = [dispatcher EXCEPT !.Stream = FALSE]
      BY <2>3, Zenon DEF DispatcherEnds, Do
    <3>2. dispatcher' \in [closing : BOOLEAN, Stream : BOOLEAN]
      BY Zenon, <3>1, OpenIsActive
    <3> QED BY Zenon, <3>1, <3>2, TwoContexts, DeleteThisStep
  <2> QED BY <1>1, <2>1, <2>2, <2>3, DispatcherStays, SpeedContextNotMadeStep, Zenon
          DEF DispatcherStep
<1>2. CASE SpeedStep
  <2>1. CASE SpeedEnds
    <3>1. DeleteThis("second") /\ body' = "done" /\ UNCHANGED <<dispatcher, kind>>
      BY <2>1, Zenon DEF SpeedEnds, Do
    <3> QED BY <3>1, OpenIsActive, TwoContexts, DeleteThisStep
  <2> QED BY <1>2, <2>1, SpeedBeginsStep, ProcessBufferedStep, Zenon DEF SpeedStep
<1> QED BY <1>1, <1>2, TunnelCallbackStep, CallbackActsStep, FrameNotMadeStep,
           FrameReturnsStep, CallbackReturnsStep, Zenon DEF BodyStep

LEMMA ContextsInvNext == ASSUME LifeInv, ContextsInv, Next PROVE ContextsInv'
<1>1. ASSUME PlainStep, UNCHANGED contextVars, relay' = relay PROVE ContextsInv'
  <2>1. ReadGeneration => relay' # relay
    BY DEF ReadGeneration, LifeInv, LifeTypes, OwnerTypes
  <2> QED BY <1>1, <2>1, KeptStep
<1>2. CASE Factory
  <2>1. CASE Keep(OpenOutgoing) \/ Keep(AdoptAccepted)
    BY <1>1, <2>1, Zenon DEF Keep, PlainStep, OpenOutgoing, AdoptAccepted
  <2>2. CASE /\ FactoryFails /\ OnComplete' = Completed("first")
             /\ UNCHANGED <<body, dispatcher, kind, speed>>
    BY <2>2, FactoryFailsStep
  <2> QED BY <1>2, <2>1, <2>2, Zenon DEF Factory
<1>3. CASE Keep(QuicStep)
  <2>1. UNCHANGED contextVars /\ QuicStep
    BY <1>3, Zenon DEF Keep
  <2>2. PlainStep
    BY <2>1, Zenon DEF QuicStep, PlainStep, OwnerEventStep, OwnerSendStep
  <2>3. relay' = relay
    BY <2>1, Zenon DEF QuicStep, StartComplete, Receive, SendComplete,
       SendShutdownComplete, CancelOnLoss, ShutdownComplete, EmergencyAcceptedCallback
  <2> QED BY <1>1, <2>1, <2>2, <2>3
<1>4. CASE TunnelStep
  <2>1. env.threads \subseteq Callers /\ env.intents \subseteq DOMAIN Intents
    BY LifetimeAssumption DEF Callers, LifeInv, LifeTypes, OwnerTypes
  <2>2. CASE \E k \in Keys : Keep(TunnelSends(k))
    BY <1>1, <2>2, Zenon DEF Keep, TunnelSends, PlainStep, OwnerSendStep, BeginSend
  <2>3. CASE \E t \in env.threads, intent \in env.intents :
                holders # {} /\ Keep(RequestShutdown(t, intent))
    BY <1>1, <2>1, <2>3, Zenon DEF Keep, PlainStep, OwnerShutdownStep, RequestShutdown
  <2>4. CASE (\E c \in Contexts : IsTunnel(c)) /\ Keep(ReadGeneration)
    <3>1. env.role = "client" \/ kind = "tunnel"
      BY <2>4, Zenon DEF IsTunnel
    <3>2. PlainStep /\ UNCHANGED contextVars
      BY <2>4, Zenon DEF Keep, PlainStep, OwnerRouteStep
    <3> QED BY <3>1, <3>2, KeptStep
  <2>5. CASE Keep(DispatchBufferedEvent)
    BY <1>1, <2>5, Zenon DEF Keep, PlainStep, OwnerDispatchStep, DispatchBufferedEvent
  <2> QED BY <1>4, <2>2, <2>3, <2>4, <2>5, TunnelDetachesStep, Zenon DEF TunnelStep
<1>5. CASE Continue
  <2>1. CASE \E k \in Keys : Keep(SendStep(k))
    BY <1>1, <2>1, SendFrames, Zenon DEF Keep, PlainStep, OwnerSendStep
  <2>2. CASE \E t \in Callers : Keep(CallStep(t))
    BY <1>1, <2>2, ShutdownFrame, Zenon DEF Keep, PlainStep, OwnerShutdownStep
  <2>3. CASE \E d \in Dispatchers : Keep(DispatchStep(d))
    BY <1>1, <2>3, DispatchFrame, Zenon DEF Keep, PlainStep, OwnerDispatchStep,
       DispatchStep
  <2>4. CASE Keep(CancelRequests)
    BY <1>1, <2>4, ShutdownFrame, Zenon DEF Keep, PlainStep, OwnerShutdownStep
  <2>5. CASE Keep(PublishTarget)
    <3>1. PublishTarget /\ UNCHANGED contextVars /\ PlainStep
      BY <2>5, Zenon DEF Keep, PlainStep, OwnerRouteStep
    <3>2. ReadGeneration => FALSE
      BY <3>1 DEF PublishTarget, ReadGeneration
    <3> QED BY <3>1, <3>2, KeptStep
  <2>6. CASE Keep(CallTerminalShutdown)
    BY <1>1, <2>6, Zenon DEF Keep, PlainStep, OwnerRouteStep, CallTerminalShutdown
  <2> QED BY <1>5, <2>1, <2>2, <2>3, <2>4, <2>5, <2>6, BodyStepInv, TunnelDeletedStep,
             Zenon DEF Continue
<1>6. CASE Keep(BeginTerminalShutdown)
  BY <1>1, <1>6, Zenon DEF Keep, PlainStep, OwnerRouteStep, BeginTerminalShutdown
<1>7. CASE Keep(RelayRetires)
  <2>1. RelayRetires /\ UNCHANGED contextVars /\ PlainStep
    BY <1>7, Zenon DEF Keep, PlainStep, OwnerRouteStep
  <2>2. ReadGeneration => FALSE
    BY <2>1 DEF RelayRetires, ReadGeneration
  <2> QED BY <2>1, <2>2, KeptStep
<1> QED BY <1>2, <1>3, <1>4, <1>5, <1>6, <1>7, StopAllStep, Zenon DEF Next

LEMMA ContextsInvInit == ASSUME Init PROVE ContextsInv
<1>1. ContextTypes
  BY DEF Init, ContextTypes, SpeedType, CompleteType, Contexts
<1>2. /\ contexts["first"].state = "live" /\ contexts["second"].state = "none"
      /\ ~contexts["second"].Accepting
  BY Zenon, TwoContexts DEF Init, LifeInit
<1>3. \A d \in Dispatchers : callback[d].stage = "idle" /\ callback[d].target = "none"
  BY Zenon DEF Init, LifeInit, NoCallback
<1>4. DeleteInv
  BY <1>2, <1>3, MsquicDispatches, TwoContexts DEF DeleteInv, Inside
<1>5. relay.stage = "none"
  BY Zenon DEF Init, LifeInit
<1>6. RouteInv
  BY <1>3, <1>5, MsquicDispatches DEF RouteInv, Contexts
<1>7. kind = "none" /\ body = "none" /\ OnComplete.with = "first" /\ OnComplete.calls = 0
      /\ speed.session = "none"
  BY DEF Init
<1>8. KindInv
  BY <1>2, <1>7 DEF KindInv
<1>9. SettleInv
  BY <1>2, <1>7, TwoContexts DEF SettleInv, SpeedBodies
<1> QED BY <1>1, <1>4, <1>6, <1>8, <1>9 DEF ContextsInv, ContextInv

LEMMA ContextsInvStep == ASSUME LifeInv, ContextsInv, [Next]_vars PROVE ContextsInv'
<1>1. CASE UNCHANGED vars
  <2>1. UNCHANGED lifeVars /\ UNCHANGED <<body, dispatcher, kind, speed, OnComplete>>
    BY <1>1, Zenon DEF vars, contextVars
  <2>2. ContextInv'
    BY <2>1, QuietStutter DEF ContextsInv
  <2>3. SettleInv'
    BY <2>1, QuietSettle DEF ContextsInv, lifeVars
  <2>4. ContextTypes'
    BY <2>1 DEF ContextsInv, ContextTypes
  <2> QED BY <2>2, <2>3, <2>4 DEF ContextsInv
<1> QED BY <1>1, ContextsInvNext

\* For any sends, threads and scenarios: contexts, route, completion function and
\* session agree with each other in every state.
THEOREM ContextsInvariant == Spec => []ContextsInv
<1>1. Init => ContextsInv
  BY ContextsInvInit
<1>2. LifeInv /\ ContextsInv /\ [Next]_vars => ContextsInv'
  BY ContextsInvStep
<1> QED BY <1>1, <1>2, LifeInvariant, PTL DEF Spec

\* The state of a stream, its owner and its contexts has the values it should.
THEOREM TypeCorrect == Spec => []TypeOK
<1>1. LifeInv /\ ContextsInv => TypeOK
  BY Zenon DEF LifeInv, LifeTypes, ContextsInv, ContextTypes, TypeOK, ShutType, CompleteType
<1> QED BY <1>1, LifeInvariant, ContextsInvariant, PTL

\* Detach: no thread is inside a context that another one deleted.
THEOREM DeletedContextsAreLeftHolds == Spec => []DeletedContextsAreLeft
<1>1. ContextsInv => DeletedContextsAreLeft
  <2>1. SUFFICES ASSUME ContextsInv, NEW c \in Contexts, NEW d \in Dispatchers,
                        contexts[c].state = "deleted", Inside(d, c)
                 PROVE  contexts[c].by = d
    BY DEF DeletedContextsAreLeft
  <2>2. CASE d = Msquic
    BY <2>1, <2>2 DEF ContextsInv, ContextInv, DeleteInv
  <2>3. CASE d = "buffered"
    BY <2>1, <2>3 DEF ContextsInv, ContextInv, RouteInv, Inside
  <2> QED BY <2>2, <2>3, MsquicDispatches
<1> QED BY <1>1, ContextsInvariant, PTL

\* The completion function is called exactly once, unless it was lost, by the time
\* the contexts are gone, and no speed-test session is left open.
THEOREM ContextsSettleHolds == Spec => []ContextsSettle
<1>1. ContextsInv => ContextsSettle
  <2>1. SUFFICES ASSUME ContextsInv
                 PROVE  ContextsSettle
    OBVIOUS
  <2>2. OnComplete \in CompleteType /\ SettleInv
    BY <2>1 DEF ContextsInv, ContextTypes
  <2>3. ASSUME \A c \in Contexts : contexts[c].state \in {"none", "deleted"}
        PROVE  (OnComplete.calls = 1 \/ OnComplete.with = "lost") /\ speed.session # "open"
    <3>1. \A c \in Contexts : OnComplete.with # c
      BY <2>2, <2>3 DEF SettleInv
    <3>2. OnComplete.with \in {"none", "lost"}
      BY <2>2, <3>1 DEF CompleteType
    <3>3. speed.session # "open"
      BY <2>2, <2>3, TwoContexts DEF SettleInv
    <3> QED BY <2>2, <3>2, <3>3 DEF SettleInv
  <2> QED BY <2>2, <2>3 DEF SettleInv, ContextsSettle
<1> QED BY <1>1, ContextsInvariant, PTL
=============================================================================

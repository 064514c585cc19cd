-------------------- MODULE QuicClientSessionStopProofs --------------------
(***************************************************************************)
(* What a step does to the calls that hold the session and to the open      *)
(* connections: the lemmas behind QuicClientSessionTheorems.                *)
(*                                                                          *)
(* Stop waits for calls to become 0.  By the count no StartSlot is then     *)
(* between its AcquireLiveSession and the guard's destructor, so that every *)
(* open connection is in a slot (LiveInv), where StopSession finds it; and  *)
(* the closed gate lets nobody in again.                                    *)
(***************************************************************************)
EXTENDS QuicClientSessionInvariants, FiniteSets, FiniteSetTheorems, TLAPS

\* The labels of StartSlot between AcquireLiveSession and ~LiveCallGuard.
GuardedLabels == {"claim", "shutold", "push", "build", "publish", "start", "check",
                  "sched", "submit", "submitted", "release"}

\* Who holds the session: a StartSlot, a retry's task, a callback that submits.
StartCalls == {t \in Threads : thr[t].op \in StartOps /\ thr[t].pc \in GuardedLabels}
RetryCalls == {t \in Threads : thr[t].op = "Retry"}
CallbackCalls == {c \in Conns : conns[c].cb \in {"submit", "submitted"}}

\* gate->ActiveCalls is the number of the calls that hold the session.
CallsCounted ==
    /\ IsFiniteSet(StartCalls) /\ IsFiniteSet(RetryCalls) /\ IsFiniteSet(CallbackCalls)
    /\ calls = Cardinality(StartCalls) + Cardinality(RetryCalls)
               + Cardinality(CallbackCalls)

\* Only the caller runs the caller's operations; who is idle runs none, and who
\* runs a terminal operation is in no StartSlot.
CallerOps == {"Start", "Reconnect", "Remove", "Stop"}
RolesInv ==
    \A t \in Threads :
        /\ thr[t].pc = "idle" => thr[t].op = "none"
        /\ thr[t].pc \in {"defer", "operate", "pinned"} => thr[t].op = "Terminal"
        /\ thr[t].op \in CallerOps => t = "caller"

\* Before Start there is nothing.
FreshInv ==
    ~started /\ ~stopping =>
        /\ \A t \in Threads : thr[t].pc = "idle"
        /\ \A c \in Conns : conns[c].phase = "none"
        /\ tasks = {}

\* A connection that is open is a slot's, or a thread's that shuts it down or
\* publishes it next; callbacks of its shutdown come later.
Live(c) == conns[c].phase \in {"opened", "started", "up"}
InSlot(c) == \E i \in 1 .. count : slots[i].conn = c
InHand(c) == \E t \in Threads : \/ thr[t].pc = "shutold" /\ thr[t].old = c
                                \/ thr[t].pc = "publish" /\ thr[t].conn = c
LiveInv == \A c \in Conns : Live(c) => InSlot(c) \/ InHand(c)
ShutInv == \A c \in Conns : conns[c].cb # "idle" => ~Live(c)

\* After Stop nobody holds the session.
StoppedInv ==
    stopping => calls = 0 /\ thr["caller"].pc = "stopped" /\ StopQuiesces

-----------------------------------------------------------------------------
(* How a thread moves.                                                      *)

LEMMA ThreadNames == "caller" \in Threads /\ "reactor" \in Threads /\ "terminal" \in Threads
BY DEF Threads

LEMMA ConnPhase == ASSUME NEW c \in ConnRecord PROVE c.phase \in Phases
BY DEF ConnRecord

LEMMA OtherConns ==
    ASSUME Typed, NEW c \in Conns, CallbackStep(c)
    PROVE  \A d \in Conns \ {c} : conns'[d] = conns[d]
BY Zenon DEF Typed, CallbackStep, OnSlotConnected, OnSlotDisconnected,
   CompleteSlotShutdownLocked, DropOrphanedConnection, CallbackSubmit,
   CallbackSubmitEnd, Free

\* The thread whose frame becomes f.
LEMMA FrameBecomes ==
    ASSUME Typed, NEW t \in Threads, NEW f, thr' = [thr EXCEPT ![t] = f]
    PROVE  thr'[t] = f /\ \A u \in Threads \ {t} : thr'[u] = thr[u]
BY DEF Typed

LEMMA GotoFrame ==
    ASSUME Typed, NEW t \in Threads, NEW l, Goto(t, l)
    PROVE  /\ thr'[t].pc = l /\ thr'[t].op = thr[t].op /\ thr'[t].conn = thr[t].conn
           /\ \A u \in Threads \ {t} : thr'[u] = thr[u]
BY DEF Typed, Frame, Goto

LEMMA GiveUpFrame ==
    ASSUME Typed, NEW t \in Threads, GiveUp(t)
    PROVE  /\ thr'[t].pc = "release" /\ thr'[t].op = thr[t].op
           /\ \A u \in Threads \ {t} : thr'[u] = thr[u]
BY DEF Typed, Frame, GiveUp

LEMMA ConnFrame ==
    ASSUME Typed, NEW t \in Threads, NEW c, NEW l,
           thr' = [thr EXCEPT ![t].conn = c, ![t].pc = l]
    PROVE  /\ thr'[t].pc = l /\ thr'[t].op = thr[t].op /\ thr'[t].conn = c
           /\ \A u \in Threads \ {t} : thr'[u] = thr[u]
BY DEF Typed, Frame

LEMMA OkFrame ==
    ASSUME Typed, NEW t \in Threads, NEW b, NEW l,
           thr' = [thr EXCEPT ![t].ok = b, ![t].pc = l]
    PROVE  /\ thr'[t].pc = l /\ thr'[t].op = thr[t].op
           /\ \A u \in Threads \ {t} : thr'[u] = thr[u]
BY DEF Typed, Frame

LEMMA TicketFrame ==
    ASSUME Typed, NEW t \in Threads, NEW k, NEW l,
           thr' = [thr EXCEPT ![t].ticket = k, ![t].pc = l]
    PROVE  /\ thr'[t].pc = l /\ thr'[t].op = thr[t].op
           /\ \A u \in Threads \ {t} : thr'[u] = thr[u]
BY DEF Typed, Frame

\* What a claim does to the slot and to the thread.
LEMMA ClaimFrame ==
    ASSUME Typed, NEW t \in Threads, thr[t].idx \in Slots, Claim(t)
    PROVE  /\ thr'[t].op = thr[t].op
           /\ \A u \in Threads \ {t} : thr'[u] = thr[u]
           /\ \/ thr'[t].pc = "release" /\ slots'[thr[t].idx].conn = slots[thr[t].idx].conn
              \/ thr'[t].pc = "build" /\ slots[thr[t].idx].conn = NoConn
              \/ thr'[t].pc = "shutold" /\ thr'[t].old = slots[thr[t].idx].conn
           /\ \A i \in Slots \ {thr[t].idx} : slots'[i] = slots[i]
<1> DEFINE i == thr[t].idx
           s == slots[i]
           l == IF s.conn = NoConn THEN "build" ELSE "shutold"
<1>0. s \in SlotRecord /\ thr[t] \in Frame
  BY DEF Typed
<1>1. CASE /\ slots' = [slots EXCEPT ![i] = ClaimedSlot(s)]
           /\ thr' = [thr EXCEPT ![t].claim = nextClaim, ![t].ticket = NoTicket,
                                 ![t].pc = "release"]
  <2>1. ClaimedSlot(s).conn = s.conn
    BY <1>0 DEF ClaimedSlot, SlotRecord
  <2>2. /\ slots'[i] = ClaimedSlot(s)
        /\ \A j \in Slots \ {i} : slots'[j] = slots[j]
    BY <1>1 DEF Typed
  <2>3. /\ thr'[t].op = thr[t].op /\ thr'[t].pc = "release"
        /\ \A u \in Threads \ {t} : thr'[u] = thr[u]
    BY <1>1 DEF Typed, Frame
  <2> QED BY <2>1, <2>2, <2>3
<1>2. CASE /\ slots' = [slots EXCEPT ![i] =
                          [ClaimedSlot(s) EXCEPT !.conn = NoConn, !.connected = FALSE]]
           /\ thr' = [thr EXCEPT ![t].claim = nextClaim, ![t].ticket = NoTicket,
                                 ![t].num = s.num, ![t].gen = s.gen,
                                 ![t].old = s.conn, ![t].pc = l]
  <2>1. \A j \in Slots \ {i} : slots'[j] = slots[j]
    BY <1>2 DEF Typed
  <2>2. (l = "build" /\ s.conn = NoConn) \/ l = "shutold"
    OBVIOUS
  <2> HIDE DEF l, s
  <2>3. PICK h : h = [thr[t] EXCEPT !.claim = nextClaim, !.ticket = NoTicket,
                                    !.num = s.num, !.gen = s.gen,
                                    !.old = s.conn, !.pc = l]
    OBVIOUS
  <2>4. h.op = thr[t].op /\ h.pc = l /\ h.old = s.conn
    BY <1>0, <2>3 DEF Frame
  <2>5. thr' = [thr EXCEPT ![t] = h]
    BY <1>2, <2>3, Zenon
  <2>6. thr'[t] = h /\ \A u \in Threads \ {t} : thr'[u] = thr[u]
    BY <2>5, FrameBecomes, Zenon
  <2> QED BY <2>1, <2>2, <2>4, <2>6 DEF s
<1> QED BY <1>1, <1>2, Zenon DEF Claim

\* The steps of StartSlot inside the session.
GuardedStep(t) ==
    \/ ClaimRefused(t) \/ ClaimExhausted(t) \/ Claim(t)
    \/ ShutdownOld(t) \/ PushOrphan(t) \/ OpenConnection(t) \/ Publish(t)
    \/ StartConnection(t) \/ CheckStart(t) \/ ScheduleStartRetry(t)
    \/ SubmitRetry(t) \/ SubmitEnd(t)

LEMMA GuardedFrame ==
    ASSUME Typed, FramesOK, NEW t \in Threads, GuardedStep(t)
    PROVE  /\ thr[t].pc \in GuardedLabels \ {"release"}
           /\ \A u \in Threads \ {t} : thr'[u] = thr[u]
           /\ \/ thr'[t].op = thr[t].op /\ thr'[t].pc \in GuardedLabels
              \/ thr[t].op = "Remove" /\ thr'[t] = NoFrame
<1> USE DEF GuardedLabels, At
<1>1. CASE ClaimRefused(t) \/ ClaimExhausted(t) \/ SubmitEnd(t)
  BY <1>1, GiveUpFrame DEF ClaimRefused, ClaimExhausted, SubmitEnd
<1>2. CASE Claim(t)
  <2>1. thr[t].pc = "claim"
    BY <1>2 DEF Claim
  <2>2. thr[t].idx \in Slots
    BY <2>1 DEF FramesOK, FrameOK, StartLabels
  <2> QED BY <1>2, <2>1, <2>2, ClaimFrame
<1>3. CASE ShutdownOld(t)
  BY <1>3, GotoFrame DEF ShutdownOld
<1>4. CASE PushOrphan(t)
  <2>1. thr[t].pc = "push"
    BY <1>4 DEF PushOrphan
  <2>2. CASE thr[t].op = "Remove"
    <3>1. thr' = [thr EXCEPT ![t] = NoFrame]
      BY <1>4, <2>2 DEF PushOrphan
    <3> QED BY <2>1, <2>2, <3>1, FrameBecomes
  <2>3. CASE thr[t].op # "Remove"
    <3>1. thr' = [thr EXCEPT ![t] = [thr[t] EXCEPT !.old = NoConn, !.pc = "build"]]
      BY <1>4, <2>3 DEF PushOrphan
    <3>2. /\ [thr[t] EXCEPT !.old = NoConn, !.pc = "build"].op = thr[t].op
          /\ [thr[t] EXCEPT !.old = NoConn, !.pc = "build"].pc = "build"
      BY DEF Typed, Frame
    <3> QED BY <2>1, <3>1, <3>2, FrameBecomes
  <2> QED BY <2>2, <2>3
<1>5. CASE OpenConnection(t)
  <2>1. thr[t].pc = "build"
    BY <1>5 DEF OpenConnection
  <2>2. Goto(t, "sched") \/ \E c : thr' = [thr EXCEPT ![t].conn = c, ![t].pc = "publish"]
    BY <1>5, Zenon DEF OpenConnection
  <2>3. CASE Goto(t, "sched")
    BY <2>1, <2>3, GotoFrame
  <2>4. ASSUME NEW c, thr' = [thr EXCEPT ![t].conn = c, ![t].pc = "publish"]
        PROVE  /\ \A u \in Threads \ {t} : thr'[u] = thr[u]
               /\ thr'[t].op = thr[t].op /\ thr'[t].pc \in GuardedLabels
    BY <2>4, SMT DEF Typed, Frame
  <2> QED BY <2>1, <2>2, <2>3, <2>4, Zenon
<1>6. CASE Publish(t)
  <2>1. thr[t].pc = "publish"
    BY <1>6 DEF Publish
  <2>2. Goto(t, "start") \/ thr' = [thr EXCEPT ![t].conn = NoConn, ![t].pc = "release"]
    BY <1>6, Zenon DEF Publish
  <2>3. CASE Goto(t, "start")
    BY <2>1, <2>3, GotoFrame
  <2>4. CASE thr' = [thr EXCEPT ![t].conn = NoConn, ![t].pc = "release"]
    BY <2>1, <2>4, SMT DEF Typed, Frame
  <2> QED BY <2>2, <2>3, <2>4
<1>7. CASE StartConnection(t)
  <2>1. thr[t].pc = "start"
    BY <1>7 DEF StartConnection
  <2>2. \E b : thr' = [thr EXCEPT ![t].ok = b, ![t].pc = "check"]
    BY <1>7, Zenon DEF StartConnection
  <2>3. ASSUME NEW b,
               thr' = [thr EXCEPT ![t].ok = b, ![t].pc = "check"]
        PROVE  /\ \A u \in Threads \ {t} : thr'[u] = thr[u]
               /\ thr'[t].op = thr[t].op /\ thr'[t].pc \in GuardedLabels
    BY <2>3, SMT DEF Typed, Frame
  <2> QED BY <2>1, <2>2, <2>3, Zenon
<1>8. CASE CheckStart(t)
  <2>1. thr[t].pc = "check"
    BY <1>8 DEF CheckStart
  <2>2. \E l \in {"sched", "release"} :
           thr' = [thr EXCEPT ![t].conn = NoConn, ![t].pc = l]
    BY <1>8, Zenon DEF CheckStart
  <2>3. ASSUME NEW l \in {"sched", "release"},
               thr' = [thr EXCEPT ![t].conn = NoConn, ![t].pc = l]
        PROVE  /\ \A u \in Threads \ {t} : thr'[u] = thr[u]
               /\ thr'[t].op = thr[t].op /\ thr'[t].pc \in GuardedLabels
    BY <2>3, SMT DEF Typed, Frame
  <2> QED BY <2>1, <2>2, <2>3, Zenon
<1>9. CASE ScheduleStartRetry(t)
  <2>1. thr[t].pc = "sched"
    BY <1>9 DEF ScheduleStartRetry
  <2>2. \E k : \E l \in {"release", "submit"} :
           thr' = [thr EXCEPT ![t].ticket = k, ![t].pc = l]
    BY <1>9, Zenon DEF ScheduleStartRetry
  <2>3. ASSUME NEW k, NEW l \in {"release", "submit"},
               thr' = [thr EXCEPT ![t].ticket = k, ![t].pc = l]
        PROVE  /\ \A u \in Threads \ {t} : thr'[u] = thr[u]
               /\ thr'[t].op = thr[t].op /\ thr'[t].pc \in GuardedLabels
    BY <2>3, TicketFrame, Zenon
  <2> QED BY <2>1, <2>2, <2>3, Zenon
<1>10. CASE SubmitRetry(t)
  <2>1. thr[t].pc = "submit"
    BY <1>10 DEF SubmitRetry
  <2>2. \E b : thr' = [thr EXCEPT ![t].ok = b, ![t].pc = "submitted"]
    BY <1>10, Zenon DEF SubmitRetry
  <2>3. ASSUME NEW b,
               thr' = [thr EXCEPT ![t].ok = b, ![t].pc = "submitted"]
        PROVE  /\ \A u \in Threads \ {t} : thr'[u] = thr[u]
               /\ thr'[t].op = thr[t].op /\ thr'[t].pc \in GuardedLabels
    BY <2>3, SMT DEF Typed, Frame
  <2> QED BY <2>1, <2>2, <2>3, Zenon
<1> QED BY <1>1, <1>2, <1>3, <1>4, <1>5, <1>6, <1>7, <1>8, <1>9, <1>10, Zenon
        DEF GuardedStep

-----------------------------------------------------------------------------
(* The count of the calls.                                                  *)

LEMMA SameCount ==
    ASSUME CallsCounted, StartCalls' = StartCalls, RetryCalls' = RetryCalls,
           CallbackCalls' = CallbackCalls, calls' = calls
    PROVE  CallsCounted'
BY DEF CallsCounted

LEMMA EmptyCount ==
    ASSUME CallsCounted, calls = 0
    PROVE  StartCalls = {} /\ RetryCalls = {} /\ CallbackCalls = {}
<1>1. /\ Cardinality(StartCalls) \in Nat /\ Cardinality(RetryCalls) \in Nat
      /\ Cardinality(CallbackCalls) \in Nat
  BY FS_CardinalityType DEF CallsCounted
<1>2. /\ Cardinality(StartCalls) = 0 /\ Cardinality(RetryCalls) = 0
      /\ Cardinality(CallbackCalls) = 0
  BY <1>1 DEF CallsCounted
<1> QED BY <1>2, FS_EmptySet DEF CallsCounted

LEMMA CountIsNat == CallsCounted => calls \in Nat
BY FS_CardinalityType DEF CallsCounted

LEMMA CountsAreNat ==
    ASSUME CallsCounted
    PROVE  /\ Cardinality(StartCalls) \in Nat /\ Cardinality(RetryCalls) \in Nat
           /\ Cardinality(CallbackCalls) \in Nat
BY FS_CardinalityType DEF CallsCounted

\* One set changes by one element.
LEMMA CountStart ==
    ASSUME CallsCounted, NEW t, RetryCalls' = RetryCalls, CallbackCalls' = CallbackCalls,
           \/ t \notin StartCalls /\ StartCalls' = StartCalls \cup {t} /\ calls' = calls + 1
           \/ t \in StartCalls /\ StartCalls' = StartCalls \ {t} /\ calls' = calls - 1
    PROVE  CallsCounted'
<1>1. IsFiniteSet(StartCalls)
  BY DEF CallsCounted
<1>2. /\ IsFiniteSet(StartCalls')
      /\ \/ Cardinality(StartCalls') = Cardinality(StartCalls) + 1 /\ calls' = calls + 1
         \/ Cardinality(StartCalls') = Cardinality(StartCalls) - 1 /\ calls' = calls - 1
  BY <1>1, FS_AddElement, FS_RemoveElement
<1> QED BY <1>2, CountsAreNat DEF CallsCounted

LEMMA CountRetry ==
    ASSUME CallsCounted, NEW t, StartCalls' = StartCalls, CallbackCalls' = CallbackCalls,
           \/ t \notin RetryCalls /\ RetryCalls' = RetryCalls \cup {t} /\ calls' = calls + 1
           \/ t \in RetryCalls /\ RetryCalls' = RetryCalls \ {t} /\ calls' = calls - 1
    PROVE  CallsCounted'
<1>1. IsFiniteSet(RetryCalls)
  BY DEF CallsCounted
<1>2. /\ IsFiniteSet(RetryCalls')
      /\ \/ Cardinality(RetryCalls') = Cardinality(RetryCalls) + 1 /\ calls' = calls + 1
         \/ Cardinality(RetryCalls') = Cardinality(RetryCalls) - 1 /\ calls' = calls - 1
  BY <1>1, FS_AddElement, FS_RemoveElement
<1> QED BY <1>2, CountsAreNat DEF CallsCounted

LEMMA CountCallback ==
    ASSUME CallsCounted, NEW c, StartCalls' = StartCalls, RetryCalls' = RetryCalls,
           \/ /\ c \notin CallbackCalls /\ CallbackCalls' = CallbackCalls \cup {c}
              /\ calls' = calls + 1
           \/ /\ c \in CallbackCalls /\ CallbackCalls' = CallbackCalls \ {c}
              /\ calls' = calls - 1
    PROVE  CallsCounted'
<1>1. IsFiniteSet(CallbackCalls)
  BY DEF CallsCounted
<1>2. /\ IsFiniteSet(CallbackCalls')
      /\ \/ Cardinality(CallbackCalls') = Cardinality(CallbackCalls) + 1 /\ calls' = calls + 1
         \/ Cardinality(CallbackCalls') = Cardinality(CallbackCalls) - 1 /\ calls' = calls - 1
  BY <1>1, FS_AddElement, FS_RemoveElement
<1> QED BY <1>2, CountsAreNat DEF CallsCounted

\* The thread t alone moves.
LEMMA ThreadCalls ==
    ASSUME NEW t \in Threads, \A u \in Threads \ {t} : thr'[u] = thr[u]
    PROVE  /\ t \in StartCalls <=> thr[t].op \in StartOps /\ thr[t].pc \in GuardedLabels
           /\ t \in RetryCalls <=> thr[t].op = "Retry"
           /\ StartCalls' = IF thr'[t].op \in StartOps /\ thr'[t].pc \in GuardedLabels
                            THEN StartCalls \cup {t} ELSE StartCalls \ {t}
           /\ RetryCalls' = IF thr'[t].op = "Retry"
                            THEN RetryCalls \cup {t} ELSE RetryCalls \ {t}
<1>1. /\ t \in StartCalls <=> thr[t].op \in StartOps /\ thr[t].pc \in GuardedLabels
      /\ t \in RetryCalls <=> thr[t].op = "Retry"
  BY DEF StartCalls, RetryCalls
<1>2. StartCalls' = IF thr'[t].op \in StartOps /\ thr'[t].pc \in GuardedLabels
                    THEN StartCalls \cup {t} ELSE StartCalls \ {t}
  BY DEF StartCalls
<1>3. RetryCalls' = IF thr'[t].op = "Retry" THEN RetryCalls \cup {t} ELSE RetryCalls \ {t}
  BY DEF RetryCalls
<1> QED BY <1>1, <1>2, <1>3

\* It stays inside the session, or outside; it stays in a retry, or in none.
LEMMA SameCalls ==
    ASSUME NEW t \in Threads, \A u \in Threads \ {t} : thr'[u] = thr[u],
           (thr'[t].op \in StartOps /\ thr'[t].pc \in GuardedLabels)
             <=> (thr[t].op \in StartOps /\ thr[t].pc \in GuardedLabels)
    PROVE  StartCalls' = StartCalls
BY DEF StartCalls

LEMMA SameRetries ==
    ASSUME NEW t \in Threads, \A u \in Threads \ {t} : thr'[u] = thr[u],
           thr'[t].op = "Retry" <=> thr[t].op = "Retry"
    PROVE  RetryCalls' = RetryCalls
BY DEF RetryCalls

LEMMA NobodyCalls ==
    ASSUME NEW t \in Threads, \A u \in Threads \ {t} : thr'[u] = thr[u],
           thr[t].op \notin StartOps, thr'[t].op \notin StartOps
    PROVE  StartCalls' = StartCalls /\ RetryCalls' = RetryCalls
<1>1. thr[t].op # "Retry" /\ thr'[t].op # "Retry"
  BY DEF StartOps
<1> QED BY <1>1, SameCalls, SameRetries

LEMMA SameThreadsSameCalls ==
    ASSUME UNCHANGED thr PROVE StartCalls' = StartCalls /\ RetryCalls' = RetryCalls
BY DEF StartCalls, RetryCalls

LEMMA SameCallbackCalls ==
    ASSUME \A c \in Conns : conns'[c].cb = conns[c].cb
    PROVE  CallbackCalls' = CallbackCalls
BY DEF CallbackCalls

\* No step of a thread changes the callback in progress on a connection.
LEMMA ShutdownCallbacks ==
    ASSUME Typed, NEW C, conns' = Shutdown(conns, C)
    PROVE  \A c \in Conns : /\ conns'[c].cb = conns[c].cb
                            /\ Live(c)' => Live(c) /\ c \notin C
BY DEF Typed, Shutdown, ConnRecord, Live

LEMMA DestroyedCallbacks ==
    ASSUME ShutInv, NEW d, conns' = Destroyed(conns, d)
    PROVE  \A c \in Conns : /\ conns'[c].cb = conns[c].cb
                            /\ Live(c)' => Live(c) /\ c # d
<1>1. NoConnection.cb = "idle" /\ NoConnection.phase = "none"
  BY DEF NoConnection
<1>2. \A c \in Conns : conns'[c] = IF c = d /\ conns[c].cb = "idle"
                                   THEN NoConnection ELSE conns[c]
  BY DEF Destroyed
<1> QED BY <1>1, <1>2 DEF ShutInv, Live

LEMMA StartSlotCallbacks ==
    ASSUME Typed, ConnInv, ShutInv, NEW t \in Threads, StartSlotStep(t)
    PROVE  \A c \in Conns : conns'[c].cb = conns[c].cb
<1>1. CASE UNCHANGED conns
  BY <1>1
<1>2. CASE ShutdownOld(t)
  BY <1>2, ShutdownCallbacks DEF ShutdownOld
<1>3. CASE OpenConnection(t)
  <2>1. ASSUME NEW d \in Conns, conns[d].phase = "none",
               conns' = [conns EXCEPT ![d] =
                    [NoConnection EXCEPT !.phase = "opened",
                                         !.slot = thr[t].idx,
                                         !.num = thr[t].num,
                                         !.gen = thr[t].gen]]
        PROVE  \A c \in Conns : conns'[c].cb = conns[c].cb
    <3>1. conns'[d].cb = "idle" /\ \A c \in Conns \ {d} : conns'[c] = conns[c]
      BY <2>1, Zenon DEF Typed, NoConnection
    <3> QED BY <2>1, <3>1 DEF ConnInv
  <2> QED BY <1>1, <1>3, <2>1, Zenon DEF OpenConnection
<1>4. CASE Publish(t)
  <2>1. \E d : conns' = Destroyed(conns, d)
    BY <1>4, Zenon DEF Publish
  <2> QED BY <2>1, DestroyedCallbacks
<1>5. CASE StartConnection(t)
  BY <1>5 DEF StartConnection, Typed, ConnRecord
<1>6. CASE CheckStart(t)
  <2>1. UNCHANGED conns \/ \E d : conns' = Destroyed(conns, d)
    BY <1>6, Zenon DEF CheckStart
  <2> QED BY <1>1, <2>1, DestroyedCallbacks
<1>7. \/ UNCHANGED conns \/ ShutdownOld(t) \/ OpenConnection(t) \/ Publish(t)
      \/ StartConnection(t) \/ CheckStart(t)
  BY Zenon DEF StartSlotStep, Enter, ClaimRefused, ClaimExhausted, Claim, PushOrphan,
     ScheduleStartRetry, SubmitRetry, SubmitEnd, Release, Unclaim, Return
<1> QED BY <1>1, <1>2, <1>3, <1>4, <1>5, <1>6, <1>7

LEMMA ReturnFrame ==
    ASSUME Typed, NEW t \in Threads, Return(t)
    PROVE  /\ \A u \in Threads \ {t} : thr'[u] = thr[u]
           /\ \/ thr'[t] = NoFrame
              \/ /\ thr[t].op = "Start" /\ thr'[t].op = "Start" /\ thr'[t].pc = "enter"
<1>1. CASE thr[t].op = "Start" /\ thr[t].idx < thr[t].last
  <2>1. PICK f : f = StartCall("Start", thr[t].idx + 1, thr[t].last, NoTicket)
    OBVIOUS
  <2>2. thr' = [thr EXCEPT ![t] = f]
    BY <1>1, <2>1 DEF Return
  <2>3. f.op = "Start" /\ f.pc = "enter"
    BY <2>1, Zenon DEF StartCall, NoFrame
  <2>4. thr'[t] = f /\ \A u \in Threads \ {t} : thr'[u] = thr[u]
    BY <2>2, FrameBecomes, Zenon
  <2> QED BY <1>1, <2>3, <2>4
<1>2. CASE ~(thr[t].op = "Start" /\ thr[t].idx < thr[t].last)
  <2>1. thr' = [thr EXCEPT ![t] = NoFrame]
    BY <1>2, Zenon DEF Return
  <2> QED BY <2>1, FrameBecomes
<1> QED BY <1>1, <1>2

LEMMA NoFrameFields == NoFrame.op = "none" /\ NoFrame.pc = "idle"
BY DEF NoFrame

LEMMA StartSlotCount ==
    ASSUME Typed, FramesOK, ConnInv, ShutInv, CallsCounted, NEW t \in Threads,
           StartSlotStep(t)
    PROVE  CallsCounted'
<1> USE DEF At
<1>0. CallbackCalls' = CallbackCalls
  BY StartSlotCallbacks, SameCallbackCalls
<1>1. CASE GuardedStep(t)
  <2>1. calls' = calls
    BY <1>1, Zenon DEF GuardedStep, ClaimRefused, ClaimExhausted, Claim, ShutdownOld,
       PushOrphan, OpenConnection, Publish, StartConnection, CheckStart,
       ScheduleStartRetry, SubmitRetry, SubmitEnd
  <2>2. /\ thr[t].pc \in GuardedLabels
        /\ \A u \in Threads \ {t} : thr'[u] = thr[u]
        /\ \/ thr'[t].op = thr[t].op /\ thr'[t].pc \in GuardedLabels
           \/ thr[t].op = "Remove" /\ thr'[t] = NoFrame
    BY <1>1, GuardedFrame
  <2>3. CASE thr'[t].op = thr[t].op /\ thr'[t].pc \in GuardedLabels
    <3>1. StartCalls' = StartCalls /\ RetryCalls' = RetryCalls
      BY <2>2, <2>3, SameCalls, SameRetries
    <3> QED BY <1>0, <2>1, <3>1, SameCount
  <2>4. CASE thr[t].op = "Remove" /\ thr'[t] = NoFrame
    <3>1. thr[t].op \notin StartOps /\ thr'[t].op \notin StartOps
      BY <2>4, NoFrameFields DEF StartOps
    <3>2. StartCalls' = StartCalls /\ RetryCalls' = RetryCalls
      BY <2>2, <3>1, NobodyCalls
    <3> QED BY <1>0, <2>1, <3>2, SameCount
  <2> QED BY <2>2, <2>3, <2>4
<1>2. CASE Enter(t)
  <2>1. thr[t].pc = "enter" /\ thr[t].op \in StartOps
    BY <1>2 DEF Enter, FramesOK, FrameOK, StartLabels
  <2>2. t \notin StartCalls
    BY <2>1 DEF StartCalls, GuardedLabels
  <2>3. CASE Goto(t, "claim") /\ calls' = calls + 1
    <3>1. /\ thr'[t].pc = "claim" /\ thr'[t].op = thr[t].op
          /\ \A u \in Threads \ {t} : thr'[u] = thr[u]
      BY <2>3, GotoFrame
    <3>2. StartCalls' = StartCalls \cup {t} /\ RetryCalls' = RetryCalls
      BY <2>1, <3>1, ThreadCalls, SameRetries DEF GuardedLabels
    <3> QED BY <1>0, <2>2, <2>3, <3>2, CountStart
  <2>4. CASE Goto(t, "return") /\ calls' = calls
    <3>1. /\ thr'[t].pc = "return" /\ thr'[t].op = thr[t].op
          /\ \A u \in Threads \ {t} : thr'[u] = thr[u]
      BY <2>4, GotoFrame
    <3>2. StartCalls' = StartCalls /\ RetryCalls' = RetryCalls
      BY <2>1, <3>1, SameCalls, SameRetries DEF GuardedLabels
    <3> QED BY <1>0, <2>4, <3>2, SameCount
  <2> QED BY <1>2, <2>3, <2>4 DEF Enter
<1>3. CASE Release(t)
  <2>1. /\ thr[t].pc = "release" /\ thr[t].op \in StartOps /\ calls' = calls - 1
        /\ Goto(t, "unclaim")
    BY <1>3 DEF Release, FramesOK, FrameOK, StartLabels
  <2>2. t \in StartCalls
    BY <2>1 DEF StartCalls, GuardedLabels
  <2>3. /\ thr'[t].pc = "unclaim" /\ thr'[t].op = thr[t].op
        /\ \A u \in Threads \ {t} : thr'[u] = thr[u]
    BY <2>1, GotoFrame
  <2>4. StartCalls' = StartCalls \ {t} /\ RetryCalls' = RetryCalls
    BY <2>1, <2>3, ThreadCalls, SameRetries DEF GuardedLabels
  <2> QED BY <1>0, <2>1, <2>2, <2>4, CountStart
<1>4. CASE Unclaim(t)
  <2>1. thr[t].pc = "unclaim" /\ calls' = calls /\ Goto(t, "return")
    BY <1>4 DEF Unclaim
  <2>2. /\ thr'[t].pc = "return" /\ thr'[t].op = thr[t].op
        /\ \A u \in Threads \ {t} : thr'[u] = thr[u]
    BY <2>1, GotoFrame
  <2>3. StartCalls' = StartCalls /\ RetryCalls' = RetryCalls
    BY <2>1, <2>2, SameCalls, SameRetries DEF GuardedLabels
  <2> QED BY <1>0, <2>1, <2>3, SameCount
<1>5. CASE Return(t)
  <2>1. /\ thr[t].pc = "return"
        /\ calls' = IF thr[t].op = "Retry" THEN calls - 1 ELSE calls
    BY <1>5 DEF Return
  <2>2. /\ \A u \in Threads \ {t} : thr'[u] = thr[u]
        /\ thr'[t].pc \in {"idle", "enter"}
        /\ thr'[t].op # "Retry"
    BY <1>5, ReturnFrame, NoFrameFields
  <2>3. StartCalls' = StartCalls
    BY <2>1, <2>2, ThreadCalls DEF GuardedLabels
  <2>4. RetryCalls' = RetryCalls \ {t} /\ (t \in RetryCalls <=> thr[t].op = "Retry")
    BY <2>2, ThreadCalls
  <2> QED BY <1>0, <2>1, <2>3, <2>4, CountRetry, SameCount
<1> QED BY <1>1, <1>2, <1>3, <1>4, <1>5, Zenon DEF StartSlotStep, GuardedStep

\* How the caller moves.
LEMMA CallerFrame ==
    ASSUME Typed, CallerStep
    PROVE  /\ \A u \in Threads \ {"caller"} : thr'[u] = thr[u]
           /\ \/ /\ thr["caller"].pc = "idle"
                 /\ \/ thr'["caller"].op \in {"Start", "Reconnect"} /\ thr'["caller"].pc = "enter"
                    \/ thr'["caller"] = NoFrame
                    \/ thr'["caller"].op = "Remove" /\ thr'["caller"].pc = "shutold"
                    \/ thr'["caller"].op = "Stop" /\ thr'["caller"].pc = "drain"
              \/ /\ thr["caller"].pc = "drain" /\ thr'["caller"].pc = "stopped"
                 /\ thr'["caller"].op = thr["caller"].op
<1> USE ThreadNames DEF At, CallerIdle
<1>1. \A op, a, b : /\ StartCall(op, a, b, NoTicket).op = op
                    /\ StartCall(op, a, b, NoTicket).pc = "enter"
  BY Zenon DEF StartCall, NoFrame
<1>2. CASE \/ Start
           \/ \E i \in Slots : ReconnectSlot(i) \/ SetDesiredConnectionCount(i)
  <2>1. /\ thr["caller"].pc = "idle"
        /\ \E op \in {"Start", "Reconnect"} : \E a, b :
              thr' = [thr EXCEPT !["caller"] = StartCall(op, a, b, NoTicket)]
    BY <1>2, Zenon DEF Start, ReconnectSlot, SetDesiredConnectionCount
  <2>2. PICK op \in {"Start", "Reconnect"} : \E a, b :
           thr' = [thr EXCEPT !["caller"] = StartCall(op, a, b, NoTicket)]
    BY <2>1, Zenon
  <2>3. PICK a, b : thr' = [thr EXCEPT !["caller"] = StartCall(op, a, b, NoTicket)]
    BY <2>2, Zenon
  <2>4. PICK f : f = StartCall(op, a, b, NoTicket)
    OBVIOUS
  <2>5. thr'["caller"] = f /\ \A u \in Threads \ {"caller"} : thr'[u] = thr[u]
    BY <2>3, <2>4, FrameBecomes, Zenon
  <2>6. f.op = op /\ f.pc = "enter"
    BY <1>1, <2>4
  <2> QED BY <2>1, <2>5, <2>6
<1>3. CASE StopHighestConnection
  <2>1. PICK c : \/ thr' = [thr EXCEPT !["caller"] = NoFrame]
                 \/ thr' = [thr EXCEPT !["caller"] =
                             [NoFrame EXCEPT !.op = "Remove", !.pc = "shutold", !.old = c]]
    BY <1>3, Zenon DEF StopHighestConnection
  <2>2. /\ [NoFrame EXCEPT !.op = "Remove", !.pc = "shutold", !.old = c].op = "Remove"
        /\ [NoFrame EXCEPT !.op = "Remove", !.pc = "shutold", !.old = c].pc = "shutold"
    BY DEF NoFrame
  <2>3. thr["caller"].pc = "idle"
    BY <1>3, Zenon DEF StopHighestConnection
  <2> QED BY <2>1, <2>2, <2>3, FrameBecomes
<1>4. CASE StopGate
  BY <1>4 DEF StopGate, Typed, Frame
<1>5. CASE StopSession
  BY <1>5, GotoFrame DEF StopSession
<1> QED BY <1>2, <1>3, <1>4, <1>5 DEF CallerStep

\* How the reactor and the terminal thread move.
LEMMA TaskFrame ==
    ASSUME Typed, TaskStep
    PROVE  \E t \in Threads :
              /\ \A u \in Threads \ {t} : thr'[u] = thr[u]
              /\ \/ thr'[t] = thr[t] /\ calls' = calls
                 \/ /\ thr[t].pc = "idle" /\ thr'[t].op = "Retry" /\ thr'[t].pc = "enter"
                    /\ gate /\ calls' = calls + 1
                 \/ /\ thr[t].pc \in {"idle", "defer", "operate", "pinned"}
                    /\ calls' = calls
                    /\ \/ thr'[t] = NoFrame
                       \/ /\ thr'[t].op = "Terminal" /\ thr[t].pc = "idle"
                          /\ thr'[t].pc \in {"defer", "operate"}
                       \/ /\ thr'[t].op = thr[t].op /\ thr[t].pc \in {"defer", "operate"}
                          /\ thr'[t].pc \in {"operate", "pinned"}
<1> USE ThreadNames DEF At
<1>1. ASSUME NEW k \in tasks, RunRetry(k)
      PROVE  \/ thr' = thr /\ calls' = calls
             \/ /\ \A u \in Threads \ {"reactor"} : thr'[u] = thr[u]
                /\ thr["reactor"].pc = "idle" /\ thr'["reactor"].op = "Retry"
                /\ thr'["reactor"].pc = "enter" /\ gate /\ calls' = calls + 1
  <2>1. /\ StartCall("Retry", k.slot, k.slot, k).op = "Retry"
        /\ StartCall("Retry", k.slot, k.slot, k).pc = "enter"
    BY Zenon DEF StartCall, NoFrame
  <2>2. /\ thr["reactor"].pc = "idle"
        /\ \/ thr' = thr /\ calls' = calls
           \/ /\ gate /\ calls' = calls + 1
              /\ thr' = [thr EXCEPT !["reactor"] = StartCall("Retry", k.slot, k.slot, k)]
    BY <1>1 DEF RunRetry
  <2> QED BY <2>1, <2>2, FrameBecomes
<1>2. \A k : OperationFrame(k).op = "Terminal" /\ OperationFrame(k).pc = "operate"
  BY Zenon DEF OperationFrame, NoFrame
<1>3. ASSUME NEW k \in tasks, RunOperation(k)
      PROVE  /\ \A u \in Threads \ {"reactor"} : thr'[u] = thr[u]
             /\ thr["reactor"].pc = "idle" /\ calls' = calls
             /\ thr'["reactor"].op = "Terminal" /\ thr'["reactor"].pc = "operate"
  <2>1. PICK f : f = OperationFrame(k)
    OBVIOUS
  <2>2. /\ thr' = [thr EXCEPT !["reactor"] = f]
        /\ thr["reactor"].pc = "idle" /\ calls' = calls
    BY <1>3, <2>1 DEF RunOperation
  <2>3. thr'["reactor"] = f /\ \A u \in Threads \ {"reactor"} : thr'[u] = thr[u]
    BY <2>2, FrameBecomes, Zenon
  <2>4. f.op = "Terminal" /\ f.pc = "operate"
    BY <1>2, <2>1
  <2> QED BY <2>2, <2>3, <2>4
<1>4. ASSUME NEW c \in Conns, Escalate(c)
      PROVE  /\ \A u \in Threads \ {"terminal"} : thr'[u] = thr[u]
             /\ thr["terminal"].pc = "idle" /\ calls' = calls
             /\ thr'["terminal"].op = "Terminal" /\ thr'["terminal"].pc = "defer"
  <2>1. PICK k : thr' = [thr EXCEPT !["terminal"] =
                            [OperationFrame(k) EXCEPT !.pc = "defer"]]
    BY <1>4, Zenon DEF Escalate
  <2>2. /\ [OperationFrame(k) EXCEPT !.pc = "defer"].op = "Terminal"
        /\ [OperationFrame(k) EXCEPT !.pc = "defer"].pc = "defer"
    BY DEF OperationFrame, NoFrame
  <2>3. thr["terminal"].pc = "idle" /\ calls' = calls
    BY <1>4, Zenon DEF Escalate
  <2> QED BY <2>1, <2>2, <2>3, FrameBecomes
<1>5. CASE Defer
  <2>1. /\ thr["terminal"].pc = "defer" /\ calls' = calls
        /\ \/ thr' = [thr EXCEPT !["terminal"] = NoFrame]
           \/ Goto("terminal", "operate")
    BY <1>5, Zenon DEF Defer
  <2> QED BY <2>1, FrameBecomes, GotoFrame
<1>6. ASSUME NEW t \in Threads, PinForShutdown(t)
      PROVE  /\ \A u \in Threads \ {t} : thr'[u] = thr[u]
             /\ thr[t].pc = "operate" /\ calls' = calls
             /\ thr'[t] = NoFrame \/ (thr'[t].op = thr[t].op /\ thr'[t].pc = "pinned")
  <2>1. PICK c : \/ thr' = [thr EXCEPT ![t] = NoFrame]
                 \/ thr' = [thr EXCEPT ![t] =
                              [thr[t] EXCEPT !.old = c, !.pc = "pinned"]]
    BY <1>6, Zenon DEF PinForShutdown
  <2>2. /\ [thr[t] EXCEPT !.old = c, !.pc = "pinned"].op = thr[t].op
        /\ [thr[t] EXCEPT !.old = c, !.pc = "pinned"].pc = "pinned"
    BY DEF Typed, Frame
  <2>3. thr[t].pc = "operate" /\ calls' = calls
    BY <1>6, Zenon DEF PinForShutdown
  <2> QED BY <2>1, <2>2, <2>3, FrameBecomes
<1>7. ASSUME NEW t \in Threads, ShutdownPinned(t)
      PROVE  /\ \A u \in Threads \ {t} : thr'[u] = thr[u]
             /\ thr[t].pc = "pinned" /\ calls' = calls /\ thr'[t] = NoFrame
  BY <1>7, FrameBecomes, Zenon DEF ShutdownPinned
<1> QED BY <1>1, <1>3, <1>4, <1>5, <1>6, <1>7 DEF TaskStep

LEMMA CallerTaskCallbacks ==
    ASSUME Typed, CallerStep \/ TaskStep
    PROVE  \A c \in Conns : conns'[c].cb = conns[c].cb /\ (Live(c)' => Live(c))
<1>1. UNCHANGED conns \/ \E C : conns' = Shutdown(conns, C)
  BY Zenon DEF CallerStep, TaskStep, Start, ReconnectSlot, SetDesiredConnectionCount,
     StopHighestConnection, StopGate, StopSession, RunRetry, RunOperation,
     Escalate, Defer, PinForShutdown, ShutdownPinned
<1> QED BY <1>1, ShutdownCallbacks DEF Live

LEMMA CallerCount ==
    ASSUME Typed, RolesInv, CallsCounted, CallerStep PROVE CallsCounted'
<1>1. CallbackCalls' = CallbackCalls
  BY CallerTaskCallbacks, SameCallbackCalls
<1>2. calls' = calls
  BY Zenon DEF CallerStep, Start, ReconnectSlot, SetDesiredConnectionCount,
     StopHighestConnection, StopGate, StopSession
<1>3. \/ /\ thr["caller"].op = "none"
         /\ \/ thr'["caller"].op \in {"Start", "Reconnect"} /\ thr'["caller"].pc = "enter"
            \/ thr'["caller"].op \in {"none", "Remove", "Stop"}
      \/ /\ thr["caller"].pc = "drain" /\ thr'["caller"].pc = "stopped"
         /\ thr'["caller"].op = thr["caller"].op
  BY CallerFrame, NoFrameFields, ThreadNames DEF RolesInv
<1>4. StartCalls' = StartCalls /\ RetryCalls' = RetryCalls
  BY <1>3, CallerFrame, SameCalls, SameRetries, ThreadNames DEF StartOps, GuardedLabels
<1> QED BY <1>1, <1>2, <1>4, SameCount

LEMMA TaskCount ==
    ASSUME Typed, RolesInv, CallsCounted, TaskStep PROVE CallsCounted'
<1>1. CallbackCalls' = CallbackCalls
  BY CallerTaskCallbacks, SameCallbackCalls
<1>2. PICK t \in Threads :
              /\ \A u \in Threads \ {t} : thr'[u] = thr[u]
              /\ \/ thr'[t] = thr[t] /\ calls' = calls
                 \/ /\ thr[t].pc = "idle" /\ thr'[t].op = "Retry" /\ thr'[t].pc = "enter"
                    /\ gate /\ calls' = calls + 1
                 \/ /\ thr[t].pc \in {"idle", "defer", "operate", "pinned"}
                    /\ calls' = calls
                    /\ \/ thr'[t] = NoFrame
                       \/ /\ thr'[t].op = "Terminal" /\ thr[t].pc = "idle"
                          /\ thr'[t].pc \in {"defer", "operate"}
                       \/ /\ thr'[t].op = thr[t].op /\ thr[t].pc \in {"defer", "operate"}
                          /\ thr'[t].pc \in {"operate", "pinned"}
  BY TaskFrame
<1>3. thr[t].pc \in {"idle", "defer", "operate", "pinned"} =>
        thr[t].op \in {"none", "Terminal"}
  BY DEF RolesInv
<1>4. CASE thr'[t] = thr[t] /\ calls' = calls
  BY <1>1, <1>2, <1>4, ThreadCalls, SameCount, Zenon
<1>5. CASE /\ thr[t].pc = "idle" /\ thr'[t].op = "Retry" /\ thr'[t].pc = "enter"
           /\ calls' = calls + 1
  <2>1. thr[t].op \notin StartOps /\ thr[t].op # "Retry"
    BY <1>3, <1>5 DEF StartOps
  <2>2. /\ StartCalls' = StartCalls /\ RetryCalls' = RetryCalls \cup {t}
        /\ t \notin RetryCalls
    BY <1>2, <1>5, <2>1, ThreadCalls DEF GuardedLabels
  <2> QED BY <1>1, <1>5, <2>2, CountRetry
<1>6. CASE /\ thr[t].pc \in {"idle", "defer", "operate", "pinned"}
           /\ calls' = calls
           /\ \/ thr'[t] = NoFrame
              \/ thr'[t].op = "Terminal"
              \/ thr'[t].op = thr[t].op
  <2>1. thr[t].op \notin StartOps /\ thr'[t].op \notin StartOps
    BY <1>3, <1>6, NoFrameFields DEF StartOps
  <2> QED BY <1>1, <1>2, <1>6, <2>1, NobodyCalls, SameCount
<1> QED BY <1>2, <1>4, <1>5, <1>6

\* How a callback moves.
LEMMA CallbackMoves ==
    ASSUME Typed, NEW c \in Conns, CallbackStep(c)
    PROVE  /\ UNCHANGED thr
           /\ \A d \in Conns \ {c} : conns'[d] = conns[d]
           /\ \/ conns'[c].cb = conns[c].cb /\ conns[c].cb = "idle" /\ calls' = calls
              \/ conns[c].cb = "idle" /\ conns'[c].cb = "drop" /\ calls' = calls
              \/ conns[c].cb = "drop" /\ conns'[c].cb = "idle" /\ calls' = calls
              \/ conns[c].cb = "drop" /\ conns'[c].cb = "submit" /\ calls' = calls + 1 /\ gate
              \/ conns[c].cb = "submit" /\ conns'[c].cb = "submitted" /\ calls' = calls
              \/ /\ conns[c].cb \in {"submit", "submitted"} /\ conns'[c].cb = "idle"
                 /\ calls' = calls - 1
           /\ conns'[c].cb # "idle" => ~Live(c)' \/ conns'[c].phase = conns[c].phase
           /\ Live(c)' => Live(c)
<1>0. conns[c] \in ConnRecord
  BY DEF Typed
<1>1. UNCHANGED thr /\ \A d \in Conns \ {c} : conns'[d] = conns[d]
  <2>1. UNCHANGED thr
    BY Zenon DEF CallbackStep, OnSlotConnected, OnSlotDisconnected,
       CompleteSlotShutdownLocked, DropOrphanedConnection, CallbackSubmit,
       CallbackSubmitEnd, Free
  <2> QED BY <2>1, OtherConns, Zenon
<1>2. CASE OnSlotConnected(c)
  <2>1. /\ conns' = [conns EXCEPT ![c].phase = "up"] /\ conns[c].phase = "started"
        /\ conns[c].cb = "idle" /\ calls' = calls
    BY <1>2, Zenon DEF OnSlotConnected
  <2>2. conns'[c].cb = conns[c].cb /\ conns'[c].phase = "up"
    BY <1>0, <2>1 DEF Typed, ConnRecord
  <2> QED BY <1>1, <2>1, <2>2 DEF Live
<1>3. CASE OnSlotDisconnected(c)
  <2>1. /\ conns' = [conns EXCEPT ![c].phase = "down"]
        /\ conns[c].cb = "idle" /\ calls' = calls
    BY <1>3, Zenon DEF OnSlotDisconnected
  <2>2. conns'[c].cb = conns[c].cb /\ conns'[c].phase = "down"
    BY <1>0, <2>1 DEF Typed, ConnRecord
  <2> QED BY <1>1, <2>1, <2>2 DEF Live
<1>4. CASE CompleteSlotShutdownLocked(c)
  <2>1. /\ \E k : conns' = [conns EXCEPT ![c].cb = "drop", ![c].ticket = k]
        /\ conns[c].phase = "down" /\ conns[c].cb = "idle" /\ calls' = calls
    BY <1>4, Zenon DEF CompleteSlotShutdownLocked
  <2>2. conns'[c].cb = "drop" /\ conns'[c].phase = "down"
    BY <1>0, <2>1 DEF Typed, ConnRecord
  <2> QED BY <1>1, <2>1, <2>2 DEF Live
<1>5. CASE DropOrphanedConnection(c)
  <2>1. \E l, k : /\ conns' = [conns EXCEPT ![c].phase = "done", ![c].cb = l, ![c].ticket = k]
                  /\ \/ l = "submit" /\ calls' = calls + 1 /\ gate
                     \/ l = "idle" /\ calls' = calls
    BY <1>5, Zenon DEF DropOrphanedConnection
  <2>2. /\ conns'[c].phase = "done"
        /\ \/ conns'[c].cb = "submit" /\ calls' = calls + 1 /\ gate
           \/ conns'[c].cb = "idle" /\ calls' = calls
    BY <1>0, <2>1 DEF Typed, ConnRecord
  <2>3. conns[c].cb = "drop"
    BY <1>5 DEF DropOrphanedConnection
  <2> QED BY <1>1, <2>2, <2>3 DEF Live
<1>6. CASE CallbackSubmit(c)
  <2>1. \E l, k : /\ conns' = [conns EXCEPT ![c].cb = l, ![c].ticket = k]
                  /\ \/ l = "idle" /\ calls' = calls - 1
                     \/ l = "submitted" /\ calls' = calls
    BY <1>6, Zenon DEF CallbackSubmit
  <2>2. /\ conns'[c].phase = conns[c].phase
        /\ \/ conns'[c].cb = "idle" /\ calls' = calls - 1
           \/ conns'[c].cb = "submitted" /\ calls' = calls
    BY <1>0, <2>1 DEF Typed, ConnRecord
  <2>3. conns[c].cb = "submit"
    BY <1>6 DEF CallbackSubmit
  <2> QED BY <1>1, <2>2, <2>3 DEF Live
<1>7. CASE CallbackSubmitEnd(c)
  <2>1. /\ conns' = [conns EXCEPT ![c].cb = "idle", ![c].ticket = NoTicket]
        /\ calls' = calls - 1 /\ conns[c].cb = "submitted"
    BY <1>7, Zenon DEF CallbackSubmitEnd
  <2>2. conns'[c].phase = conns[c].phase /\ conns'[c].cb = "idle"
    BY <1>0, <2>1, Zenon DEF Typed, ConnRecord
  <2> QED BY <1>1, <2>1, <2>2 DEF Live
<1>8. CASE Free(c)
  <2>1. conns' = [conns EXCEPT ![c] = NoConnection] /\ conns[c].cb = "idle" /\ calls' = calls
    BY <1>8, Zenon DEF Free
  <2>2. conns'[c].cb = "idle" /\ conns'[c].phase = "none"
    BY <2>1, Zenon DEF Typed, NoConnection
  <2> QED BY <1>1, <2>1, <2>2 DEF Live
<1> QED BY <1>2, <1>3, <1>4, <1>5, <1>6, <1>7, <1>8 DEF CallbackStep

LEMMA CallbackCount ==
    ASSUME Typed, CallsCounted, NEW c \in Conns, CallbackStep(c) PROVE CallsCounted'
<1>1. StartCalls' = StartCalls /\ RetryCalls' = RetryCalls
  BY CallbackMoves, SameThreadsSameCalls
<1>2. /\ c \in CallbackCalls <=> conns[c].cb \in {"submit", "submitted"}
      /\ CallbackCalls' = IF conns'[c].cb \in {"submit", "submitted"}
                          THEN CallbackCalls \cup {c} ELSE CallbackCalls \ {c}
  BY CallbackMoves DEF CallbackCalls
<1>3. \/ CallbackCalls' = CallbackCalls /\ calls' = calls
      \/ /\ c \notin CallbackCalls /\ CallbackCalls' = CallbackCalls \cup {c}
         /\ calls' = calls + 1
      \/ /\ c \in CallbackCalls /\ CallbackCalls' = CallbackCalls \ {c}
         /\ calls' = calls - 1
  BY <1>2, CallbackMoves
<1> QED BY <1>1, <1>3, SameCount, CountCallback

LEMMA CountStep ==
    ASSUME Typed, FramesOK, ConnInv, ShutInv, RolesInv, CallsCounted, [Next]_vars
    PROVE  CallsCounted'
<1>1. CASE UNCHANGED vars
  <2>1. UNCHANGED <<thr, conns, calls>>
    BY <1>1 DEF vars, state
  <2> QED BY <2>1, SameThreadsSameCalls, SameCallbackCalls, SameCount
<1> QED BY <1>1, StartSlotCount, CallerCount, TaskCount, CallbackCount, Zenon
        DEF Next, Step

-----------------------------------------------------------------------------
(* Roles, and the state before Start.                                       *)

LEMMA RolesStep ==
    ASSUME Typed, FramesOK, RolesInv, [Next]_vars PROVE RolesInv'
<1>1. ASSUME NEW t \in Threads, \A u \in Threads \ {t} : thr'[u] = thr[u],
             thr'[t].pc = "idle" => thr'[t].op = "none",
             thr'[t].pc \in {"defer", "operate", "pinned"} => thr'[t].op = "Terminal",
             thr'[t].op \in CallerOps => t = "caller"
      PROVE  RolesInv'
  BY <1>1 DEF RolesInv
<1>2. ASSUME NEW t \in Threads, StartSlotStep(t) PROVE RolesInv'
  <2>0. thr[t].op \in CallerOps => t = "caller"
    BY DEF RolesInv
  <2>1. CASE GuardedStep(t)
    BY <1>1, <2>0, <2>1, GuardedFrame, NoFrameFields DEF GuardedLabels, CallerOps
  <2>2. CASE Enter(t) \/ Release(t) \/ Unclaim(t)
    <3>1. \E l \in {"claim", "unclaim", "return"} : Goto(t, l)
      BY <2>2, Zenon DEF Enter, Release, Unclaim
    <3> QED BY <1>1, <2>0, <3>1, GotoFrame
  <2>3. CASE Return(t)
    BY <1>1, <2>0, <2>3, ReturnFrame, NoFrameFields DEF CallerOps
  <2> QED BY <1>2, <2>1, <2>2, <2>3, Zenon DEF StartSlotStep, GuardedStep
<1>3. CASE CallerStep
  <2>1. thr["caller"].pc = "drain" => thr'["caller"].pc # "idle"
        \/ thr'["caller"].op = "none"
    BY <1>3, CallerFrame, NoFrameFields
  <2> QED BY <1>1, <1>3, CallerFrame, NoFrameFields, ThreadNames
<1>4. CASE TaskStep
  <2>1. PICK t \in Threads :
              /\ \A u \in Threads \ {t} : thr'[u] = thr[u]
              /\ \/ thr'[t] = thr[t]
                 \/ /\ thr[t].pc = "idle" /\ thr'[t].op = "Retry" /\ thr'[t].pc = "enter"
                 \/ thr'[t] = NoFrame
                 \/ thr'[t].op = "Terminal" /\ thr'[t].pc \in {"defer", "operate"}
                 \/ /\ thr'[t].op = thr[t].op /\ thr[t].pc \in {"defer", "operate"}
                    /\ thr'[t].pc \in {"operate", "pinned"}
    BY <1>4, TaskFrame
  <2>2. /\ thr'[t].pc = "idle" => thr'[t].op = "none"
        /\ thr'[t].pc \in {"defer", "operate", "pinned"} => thr'[t].op = "Terminal"
        /\ thr'[t].op \in CallerOps => t = "caller"
    BY <2>1, NoFrameFields DEF RolesInv, CallerOps
  <2> QED BY <1>1, <2>1, <2>2
<1>5. CASE UNCHANGED thr
  BY <1>5 DEF RolesInv
<1>6. CASE UNCHANGED vars
  BY <1>5, <1>6 DEF vars, state
<1> QED BY <1>2, <1>3, <1>4, <1>5, <1>6, CallbackMoves, Zenon DEF Next, Step

LEMMA StartedStep ==
    ASSUME [Next]_vars
    PROVE  StopSession \/ Start \/ UNCHANGED <<started, stopping>>
<1>1. ASSUME NEW t \in Threads, StartSlotStep(t)
      PROVE  started' = started /\ stopping' = stopping
  BY <1>1, Zenon DEF StartSlotStep, Enter, ClaimRefused, ClaimExhausted,
     Claim, ShutdownOld, PushOrphan, OpenConnection, Publish, StartConnection,
     CheckStart, ScheduleStartRetry, SubmitRetry, SubmitEnd, Release, Unclaim, Return
<1>2. CASE CallerStep
  BY <1>2, Zenon DEF CallerStep, ReconnectSlot, SetDesiredConnectionCount,
     StopHighestConnection, StopGate
<1>3. CASE TaskStep
  BY <1>3, Zenon DEF TaskStep, RunRetry, RunOperation, Escalate, Defer,
     PinForShutdown, ShutdownPinned
<1>4. ASSUME NEW c \in Conns, CallbackStep(c)
      PROVE  started' = started /\ stopping' = stopping
  BY <1>4, Zenon DEF CallbackStep, OnSlotConnected, OnSlotDisconnected,
     CompleteSlotShutdownLocked, DropOrphanedConnection, CallbackSubmit,
     CallbackSubmitEnd, Free
<1>5. CASE UNCHANGED vars
  BY <1>5 DEF vars, state
<1> QED BY <1>1, <1>2, <1>3, <1>4, <1>5, Zenon DEF Next, Step

LEMMA FreshStep ==
    ASSUME Typed, ConnInv, FreshInv, [Next]_vars PROVE FreshInv'
<1>1. CASE UNCHANGED vars
  BY <1>1 DEF vars, state, FreshInv
<1>2. CASE started \/ stopping
  <2>1. CASE StopSession \/ Start
    BY <2>1 DEF StopSession, Start, FreshInv
  <2>2. CASE UNCHANGED <<started, stopping>>
    BY <1>2, <2>2 DEF FreshInv
  <2>3. StopSession \/ Start \/ UNCHANGED <<started, stopping>>
    BY StartedStep
  <2> QED BY <2>1, <2>2, <2>3
<1>3. CASE ~started /\ ~stopping /\ Next
  <2>1. /\ \A t \in Threads : thr[t].pc = "idle"
        /\ \A c \in Conns : conns[c].phase = "none" /\ conns[c].cb = "idle"
        /\ tasks = {} /\ ~Running
    BY <1>3 DEF FreshInv, ConnInv, Running
  <2>2. \A t \in Threads : ~StartSlotStep(t)
    <3>1. ASSUME NEW t \in Threads, StartSlotStep(t) PROVE thr[t].pc # "idle"
      <4>1. CASE Enter(t) \/ Release(t) \/ Unclaim(t) \/ Return(t)
        BY <4>1 DEF Enter, Release, Unclaim, Return, At
      <4>2. CASE GuardedStep(t)
        BY <4>2, Zenon DEF GuardedStep, ClaimRefused, ClaimExhausted, Claim, ShutdownOld,
           PushOrphan, OpenConnection, Publish, StartConnection, CheckStart,
           ScheduleStartRetry, SubmitRetry, SubmitEnd, At
      <4> QED BY <3>1, <4>1, <4>2, Zenon DEF StartSlotStep, GuardedStep
    <3> QED BY <2>1, <3>1, Zenon
  <2>3. ~TaskStep
    BY <2>1, ThreadNames, Zenon DEF TaskStep, Escalate, Defer, PinForShutdown, ShutdownPinned, At
  <2>4. \A c \in Conns : ~CallbackStep(c)
    BY <2>1, Zenon DEF CallbackStep, OnSlotConnected, OnSlotDisconnected,
       CompleteSlotShutdownLocked, DropOrphanedConnection, CallbackSubmit,
       CallbackSubmitEnd, Free
  <2>5. CallerStep => Start
    BY <1>3, <2>1, ThreadNames, Zenon DEF CallerStep, ReconnectSlot, SetDesiredConnectionCount,
       StopHighestConnection, StopGate, StopSession, At
  <2>6. Start
    BY <1>3, <2>2, <2>3, <2>4, <2>5 DEF Next, Step
  <2> QED BY <2>6 DEF Start, FreshInv
<1> QED BY <1>1, <1>2, <1>3

-----------------------------------------------------------------------------
(* Where the open connections are.                                          *)

LEMMA ShutStep ==
    ASSUME Typed, ConnInv, ShutInv, [Next]_vars PROVE ShutInv'
<1>1. CASE UNCHANGED conns
  BY <1>1 DEF ShutInv, Live
<1>2. ASSUME NEW t \in Threads, StartSlotStep(t) PROVE ShutInv'
  <2>1. CASE OpenConnection(t)
    <3>1. ASSUME NEW d \in Conns, conns[d].phase = "none",
                 \A c \in Conns \ {d} : conns'[c] = conns[c]
          PROVE  ShutInv'
      <4>1. conns'[d].cb = "idle"
        BY <1>2, <3>1, StartSlotCallbacks DEF ConnInv
      <4> QED BY <3>1, <4>1 DEF ShutInv, Live
    <3>2. UNCHANGED conns \/ \E d \in Conns : /\ conns[d].phase = "none"
                                             /\ \A c \in Conns \ {d} : conns'[c] = conns[c]
      BY <2>1, Zenon DEF OpenConnection, Typed
    <3> QED BY <1>1, <3>1, <3>2
  <2>2. CASE StartConnection(t)
    <3>1. \A c \in Conns : conns'[c].cb = conns[c].cb /\ (Live(c)' => Live(c))
      BY <2>2 DEF StartConnection, Typed, ConnRecord, Live
    <3> QED BY <3>1 DEF ShutInv
  <2>3. CASE \/ \E C : conns' = Shutdown(conns, C)
             \/ \E d : conns' = Destroyed(conns, d)
    <3>1. \A c \in Conns : conns'[c].cb = conns[c].cb /\ (Live(c)' => Live(c))
      BY <2>3, ShutdownCallbacks, DestroyedCallbacks
    <3> QED BY <3>1 DEF ShutInv
  <2>4. \/ UNCHANGED conns \/ OpenConnection(t) \/ StartConnection(t)
        \/ \E C : conns' = Shutdown(conns, C)
        \/ \E d : conns' = Destroyed(conns, d)
    BY <1>2, Zenon DEF StartSlotStep, Enter, ClaimRefused, ClaimExhausted, Claim,
       ShutdownOld, PushOrphan, Publish, CheckStart, ScheduleStartRetry, SubmitRetry,
       SubmitEnd, Release, Unclaim, Return
  <2> QED BY <1>1, <2>1, <2>2, <2>3, <2>4
<1>3. CASE CallerStep \/ TaskStep
  BY <1>3, CallerTaskCallbacks DEF ShutInv
<1>4. ASSUME NEW c \in Conns, CallbackStep(c) PROVE ShutInv'
  <2>1. conns[c].cb = "idle" /\ conns'[c].cb # "idle" => ~Live(c)'
    <3>1. CASE CompleteSlotShutdownLocked(c)
      <4>1. conns[c].phase = "down"
        BY <3>1 DEF CompleteSlotShutdownLocked
      <4>2. ~Live(c)
        BY <4>1 DEF Live
      <4> QED BY <1>4, <4>2, CallbackMoves
    <3>2. CASE ~CompleteSlotShutdownLocked(c)
      <4>1. CASE OnSlotConnected(c) \/ OnSlotDisconnected(c) \/ Free(c)
        <5>1. conns'[c].cb = "idle"
          <6>1. conns[c].cb = "idle" /\ conns[c] \in ConnRecord
            BY <4>1 DEF OnSlotConnected, OnSlotDisconnected, Free, Typed
          <6>2. \/ \E p : conns' = [conns EXCEPT ![c].phase = p]
                \/ conns' = [conns EXCEPT ![c] = NoConnection]
            BY <4>1, Zenon DEF OnSlotConnected, OnSlotDisconnected, Free
          <6>3. NoConnection.cb = "idle"
            BY DEF NoConnection
          <6> QED BY <6>1, <6>2, <6>3 DEF Typed, ConnRecord
        <5> QED BY <5>1
      <4>2. CASE DropOrphanedConnection(c) \/ CallbackSubmit(c) \/ CallbackSubmitEnd(c)
        BY <4>2 DEF DropOrphanedConnection, CallbackSubmit, CallbackSubmitEnd
      <4> QED BY <1>4, <3>2, <4>1, <4>2, Zenon DEF CallbackStep
    <3> QED BY <3>1, <3>2
  <2>2. conns[c].cb # "idle" => ~Live(c)'
    BY <1>4, CallbackMoves DEF ShutInv
  <2> QED BY <1>4, <2>1, <2>2, CallbackMoves DEF ShutInv, Live
<1>5. CASE UNCHANGED vars
  BY <1>1, <1>5 DEF vars, state
<1> QED BY <1>2, <1>3, <1>4, <1>5, Zenon DEF Next, Step

LEMMA LiveStays ==
    ASSUME LiveInv,
           \A c \in Conns : Live(c)' => Live(c),
           \A c \in Conns : Live(c)' /\ InSlot(c) => InSlot(c)' \/ InHand(c)',
           \A c \in Conns : Live(c)' /\ InHand(c) => InSlot(c)' \/ InHand(c)'
    PROVE  LiveInv'
BY DEF LiveInv

\* A step that leaves the connections in the slots they are in.
SameSlots == \A i \in 1 .. count : i \in 1 .. count' /\ slots'[i].conn = slots[i].conn

LEMMA SlotStays == ASSUME SameSlots PROVE \A c : InSlot(c) => InSlot(c)'
BY DEF SameSlots, InSlot

\* A thread moves that has no connection in hand.
LEMMA HandStays ==
    ASSUME NEW t \in Threads, \A u \in Threads \ {t} : thr'[u] = thr[u],
           thr[t].pc \notin {"shutold", "publish"}
    PROVE  \A c : InHand(c) => InHand(c)'
<1> SUFFICES ASSUME NEW c, InHand(c) PROVE InHand(c)'
  OBVIOUS
<1>1. PICK u \in Threads : \/ thr[u].pc = "shutold" /\ thr[u].old = c
                           \/ thr[u].pc = "publish" /\ thr[u].conn = c
  BY DEF InHand
<1>2. thr'[u] = thr[u]
  BY <1>1
<1> QED BY <1>1, <1>2 DEF InHand

\* Who moves with a connection in hand leaves the others' in theirs.
LEMMA OtherHands ==
    ASSUME NEW t \in Threads, \A u \in Threads \ {t} : thr'[u] = thr[u],
           NEW c, InHand(c), ~(thr[t].pc = "shutold" /\ thr[t].old = c),
           ~(thr[t].pc = "publish" /\ thr[t].conn = c)
    PROVE  InHand(c)'
<1>1. PICK u \in Threads : \/ thr[u].pc = "shutold" /\ thr[u].old = c
                           \/ thr[u].pc = "publish" /\ thr[u].conn = c
  BY DEF InHand
<1>2. thr'[u] = thr[u]
  BY <1>1
<1> QED BY <1>1, <1>2 DEF InHand

LEMMA QuietLive ==
    ASSUME LiveInv, SameSlots, \A c \in Conns : Live(c)' => Live(c),
           \A c : InHand(c) => InHand(c)'
    PROVE  LiveInv'
BY SlotStays, LiveStays

LEMMA SlotIndex ==
    ASSUME Typed PROVE \A i \in 1 .. count : i \in Slots
BY SessionAssumption DEF Typed, Slots

LEMMA UnchangedSlots ==
    ASSUME Typed, count' = count, \A i \in Slots : slots'[i].conn = slots[i].conn
    PROVE  SameSlots
BY SlotIndex DEF SameSlots

LEMMA RolledBackSlots ==
    ASSUME Typed, count' = count, NEW k, NEW ok, slots' = RolledBack(k, ok)
    PROVE  SameSlots
<1>1. \A i \in Slots : slots'[i].conn = slots[i].conn
  BY DEF Typed, RolledBack, SlotRecord
<1> QED BY <1>1, UnchangedSlots

LEMMA ReservedSlotConn ==
    ASSUME NEW s \in SlotRecord, NEW n, NEW g
    PROVE  ReservedSlot(s, n, g).conn = s.conn
BY DEF ReservedSlot, SlotRecord

LEMMA SameConnsSameLive ==
    ASSUME UNCHANGED conns PROVE \A c \in Conns : Live(c)' => Live(c)
BY DEF Live

\* A StartSlot takes connections out of slots and puts new ones there.
LEMMA StartSlotLive ==
    ASSUME Typed, FramesOK, ConnInv, ShutInv, LiveInv, NEW t \in Threads, StartSlotStep(t)
    PROVE  LiveInv'
<1> USE DEF At
<1>0. thr[t] \in Frame /\ (thr[t].pc \in StartLabels => thr[t].idx \in Slots)
  BY DEF Typed, FramesOK, FrameOK
<1>1. ASSUME SameSlots, UNCHANGED conns, \A u \in Threads \ {t} : thr'[u] = thr[u],
             thr[t].pc \notin {"shutold", "publish"}
      PROVE  LiveInv'
  BY <1>1, SameConnsSameLive, HandStays, QuietLive
<1>2. UNCHANGED <<count, slots>> => SameSlots
  BY UnchangedSlots
<1>3. CASE Enter(t) \/ Release(t) \/ Return(t)
  <2>1. /\ UNCHANGED <<count, slots, conns>>
        /\ thr[t].pc \in {"enter", "release", "return"}
    BY <1>3, Zenon DEF Enter, Release, Return
  <2>2. (\E l : Goto(t, l)) \/ Return(t)
    BY <1>3, Zenon DEF Enter, Release
  <2>3. \A u \in Threads \ {t} : thr'[u] = thr[u]
    BY <2>2, GotoFrame, ReturnFrame
  <2> QED BY <1>1, <1>2, <2>1, <2>3
<1>4. CASE Unclaim(t)
  <2>1. /\ UNCHANGED <<count, conns>> /\ thr[t].pc = "unclaim" /\ Goto(t, "return")
        /\ slots' = slots \/ slots' = [slots EXCEPT ![thr[t].idx].claim = 0]
    BY <1>4, Zenon DEF Unclaim
  <2>2. \A i \in Slots : slots'[i].conn = slots[i].conn
    BY <2>1 DEF Typed, SlotRecord
  <2> QED BY <1>1, <2>1, <2>2, UnchangedSlots, GotoFrame
<1>5. CASE ClaimRefused(t) \/ SubmitRetry(t) \/ PushOrphan(t)
  <2>1. /\ UNCHANGED <<count, slots, conns>> /\ GuardedStep(t)
        /\ thr[t].pc \in {"claim", "submit", "push"}
    BY <1>5, Zenon DEF ClaimRefused, SubmitRetry, PushOrphan, GuardedStep
  <2> QED BY <1>1, <1>2, <2>1, GuardedFrame
<1>6. CASE ClaimExhausted(t)
  <2>1. UNCHANGED <<count, conns>> /\ thr[t].pc = "claim" /\ GuardedStep(t)
    BY <1>6, Zenon DEF ClaimExhausted, GuardedStep
  <2>2. PICK k : slots' = [slots EXCEPT ![thr[t].idx].token = k, ![thr[t].idx].failed = TRUE]
    BY <1>6, Zenon DEF ClaimExhausted
  <2>3. \A i \in Slots : slots'[i].conn = slots[i].conn
    BY <2>2 DEF Typed, SlotRecord
  <2> QED BY <1>1, <2>1, <2>3, UnchangedSlots, GuardedFrame
<1>7. CASE SubmitEnd(t)
  <2>1. /\ UNCHANGED <<count, conns>> /\ thr[t].pc = "submitted" /\ GuardedStep(t)
        /\ slots' = RolledBack(thr[t].ticket, thr[t].ok)
    BY <1>7, Zenon DEF SubmitEnd, GuardedStep
  <2> QED BY <1>1, <2>1, RolledBackSlots, GuardedFrame
<1>8. CASE ScheduleStartRetry(t)
  <2>1. UNCHANGED <<count, conns>> /\ thr[t].pc = "sched" /\ GuardedStep(t)
    BY <1>8, Zenon DEF ScheduleStartRetry, GuardedStep
  <2>2. \/ slots' = slots
        \/ slots' = [slots EXCEPT ![thr[t].idx] =
                       ReservedSlot(slots[thr[t].idx], thr[t].num, thr[t].gen)]
    BY <1>8, Zenon DEF ScheduleStartRetry
  <2>3. slots[thr[t].idx] \in SlotRecord
    BY <1>0, <2>1 DEF Typed, StartLabels
  <2>4. \A i \in Slots : slots'[i].conn = slots[i].conn
    BY <2>2, <2>3, ReservedSlotConn DEF Typed
  <2> QED BY <1>1, <2>1, <2>4, UnchangedSlots, GuardedFrame
<1>9. CASE Claim(t)
  <2>1. UNCHANGED <<count, conns>> /\ thr[t].pc = "claim"
    BY <1>9, Zenon DEF Claim
  <2>2. thr[t].idx \in Slots
    BY <1>0, <2>1 DEF StartLabels
  <2>3. \A c : InHand(c) => InHand(c)'
    BY <1>9, <2>1, <2>2, ClaimFrame, HandStays
  <2>4. ASSUME NEW c \in Conns, InSlot(c) PROVE InSlot(c)' \/ InHand(c)'
    <3>1. PICK i \in 1 .. count : slots[i].conn = c
      BY <2>4 DEF InSlot
    <3>2. i \in Slots /\ i \in 1 .. count' /\ c # NoConn
      BY <2>1, SlotIndex, SessionAssumption
    <3>3. CASE slots'[i].conn = c
      BY <3>2, <3>3 DEF InSlot
    <3>4. CASE slots'[i].conn # c
      <4>1. thr[t].idx = i /\ thr'[t].pc = "shutold" /\ thr'[t].old = c
        BY <1>9, <2>2, <3>1, <3>2, <3>4, ClaimFrame
      <4> QED BY <4>1 DEF InHand
    <3> QED BY <3>3, <3>4
  <2> QED BY <2>1, <2>3, <2>4, SameConnsSameLive, LiveStays
<1>10. CASE ShutdownOld(t)
  <2>1. /\ UNCHANGED <<count, slots>> /\ thr[t].pc = "shutold"
        /\ conns' = Shutdown(conns, {thr[t].old}) /\ Goto(t, "push")
    BY <1>10, Zenon DEF ShutdownOld
  <2>2. \A c \in Conns : Live(c)' => Live(c) /\ c # thr[t].old
    BY <2>1, ShutdownCallbacks
  <2>3. \A u \in Threads \ {t} : thr'[u] = thr[u]
    BY <2>1, GotoFrame
  <2>4. \A c \in Conns : Live(c)' /\ InHand(c) => InHand(c)'
    BY <2>1, <2>2, <2>3, OtherHands, Zenon
  <2> QED BY <1>2, <2>1, <2>2, <2>4, SlotStays, LiveStays
<1>11. CASE OpenConnection(t)
  <2>1. UNCHANGED <<count, slots>> /\ thr[t].pc = "build" /\ GuardedStep(t)
    BY <1>11, Zenon DEF OpenConnection, GuardedStep
  <2>2. CASE UNCHANGED conns
    BY <1>1, <1>2, <2>1, <2>2, GuardedFrame
  <2>3. ASSUME NEW d \in Conns, \A c \in Conns \ {d} : conns'[c] = conns[c],
               thr' = [thr EXCEPT ![t].conn = d, ![t].pc = "publish"]
        PROVE  LiveInv'
    <3>1. /\ thr'[t].pc = "publish" /\ thr'[t].conn = d
          /\ \A u \in Threads \ {t} : thr'[u] = thr[u]
      BY <2>3, SMT DEF Typed, Frame
    <3>2. InHand(d)'
      BY <3>1 DEF InHand
    <3>3. \A c : InHand(c) => InHand(c)'
      BY <2>1, <3>1, HandStays
    <3>4. \A c : InSlot(c) => InSlot(c)'
      BY <1>2, <2>1, SlotStays
    <3> QED BY <2>3, <3>2, <3>3, <3>4 DEF LiveInv, Live
  <2>4. \/ UNCHANGED conns
        \/ \E d \in Conns : /\ \A c \in Conns \ {d} : conns'[c] = conns[c]
                            /\ thr' = [thr EXCEPT ![t].conn = d, ![t].pc = "publish"]
    BY <1>11, Zenon DEF OpenConnection, Typed
  <2> QED BY <2>2, <2>3, <2>4
<1>12. CASE Publish(t)
  <2>1. count' = count /\ thr[t].pc = "publish" /\ GuardedStep(t) /\ thr[t].idx \in Slots
    BY <1>0, <1>12, Zenon DEF Publish, GuardedStep, StartLabels
  <2>2. \A u \in Threads \ {t} : thr'[u] = thr[u]
    BY <2>1, GuardedFrame
  <2>3. CASE /\ StillClaimed(t)
             /\ slots' = [slots EXCEPT ![thr[t].idx].conn = thr[t].conn,
                                       ![thr[t].idx].closing = FALSE,
                                       ![thr[t].idx].reserved = FALSE]
             /\ conns' = Destroyed(conns, slots[thr[t].idx].conn)
    <3>1. /\ slots'[thr[t].idx].conn = thr[t].conn
          /\ \A i \in Slots \ {thr[t].idx} : slots'[i] = slots[i]
      BY <2>1, <2>3 DEF Typed, SlotRecord
    <3>2. \A c \in Conns : Live(c)' => Live(c) /\ c # slots[thr[t].idx].conn
      BY <2>3, DestroyedCallbacks, Zenon
    <3>3. ASSUME NEW c \in Conns, Live(c)', InSlot(c) PROVE InSlot(c)'
      <4>1. PICK i \in 1 .. count : slots[i].conn = c
        BY <3>3 DEF InSlot
      <4>2. i # thr[t].idx /\ i \in Slots
        BY <3>2, <3>3, <4>1, SlotIndex
      <4> QED BY <2>1, <3>1, <4>1, <4>2 DEF InSlot
    <3>4. thr[t].idx \in 1 .. count
      BY <2>1, <2>3 DEF StillClaimed, Slots, Typed
    <3>5. \A c : c = thr[t].conn => InSlot(c)'
      BY <2>1, <3>1, <3>4 DEF InSlot
    <3>6. \A c \in Conns : InHand(c) => InSlot(c)' \/ InHand(c)'
      BY <2>1, <2>2, <3>5, OtherHands
    <3> QED BY <3>2, <3>3, <3>6, LiveStays
  <2>4. CASE conns' = Destroyed(conns, thr[t].conn) /\ UNCHANGED slots
    <3>1. \A c \in Conns : Live(c)' => Live(c) /\ c # thr[t].conn
      BY <2>4, DestroyedCallbacks
    <3>2. \A c \in Conns : Live(c)' /\ InHand(c) => InHand(c)'
      BY <2>1, <2>2, <3>1, OtherHands, Zenon
    <3> QED BY <1>2, <2>1, <2>4, <3>1, <3>2, SlotStays, LiveStays
  <2> QED BY <1>12, <2>3, <2>4, Zenon DEF Publish
<1>13. CASE StartConnection(t)
  <2>1. UNCHANGED <<count, slots>> /\ thr[t].pc = "start" /\ GuardedStep(t)
    BY <1>13, Zenon DEF StartConnection, GuardedStep
  <2>2. \A c \in Conns : Live(c)' => Live(c)
    BY <1>13 DEF StartConnection, Typed, ConnRecord, Live
  <2> QED BY <1>2, <2>1, <2>2, GuardedFrame, HandStays, QuietLive
<1>14. CASE CheckStart(t)
  <2>1. /\ count' = count /\ thr[t].pc = "check" /\ GuardedStep(t)
    BY <1>14, Zenon DEF CheckStart, GuardedStep
  <2>2. \A c : InHand(c) => InHand(c)'
    BY <2>1, GuardedFrame, HandStays, Zenon
  <2>3. CASE UNCHANGED <<slots, conns>>
    BY <1>2, <2>1, <2>2, <2>3, SameConnsSameLive, QuietLive
  <2>4. CASE /\ slots[thr[t].idx].conn = thr[t].conn
             /\ slots' = [slots EXCEPT ![thr[t].idx].conn = NoConn]
             /\ conns' = Destroyed(conns, thr[t].conn)
    <3>1. \A c \in Conns : Live(c)' => Live(c) /\ c # thr[t].conn
      BY <2>4, DestroyedCallbacks
    <3>2. \A i \in Slots \ {thr[t].idx} : slots'[i] = slots[i]
      BY <2>4 DEF Typed
    <3>3. ASSUME NEW c \in Conns, Live(c)', InSlot(c) PROVE InSlot(c)'
      <4>1. PICK i \in 1 .. count : slots[i].conn = c
        BY <3>3 DEF InSlot
      <4>2. i # thr[t].idx /\ i \in Slots
        BY <2>4, <3>1, <3>3, <4>1, SlotIndex
      <4> QED BY <2>1, <3>2, <4>1, <4>2 DEF InSlot
    <3> QED BY <2>2, <3>1, <3>3, LiveStays
  <2> QED BY <1>14, <2>3, <2>4, Zenon DEF CheckStart
<1> QED BY <1>3, <1>4, <1>5, <1>6, <1>7, <1>8, <1>9, <1>10, <1>11, <1>12, <1>13, <1>14,
           Zenon DEF StartSlotStep

\* When the calls are drained, every open connection is in a slot.
LEMMA DrainedLive ==
    ASSUME Typed, FramesOK, RolesInv, CallsCounted, LiveInv, calls = 0,
           thr["caller"].pc = "drain"
    PROVE  \A c \in Conns : Live(c) => InSlot(c)
<1> SUFFICES ASSUME NEW c \in Conns, InHand(c) PROVE FALSE
  BY DEF LiveInv
<1>1. PICK t \in Threads : thr[t].pc \in {"shutold", "publish"}
  BY DEF InHand
<1>2. thr[t].op \in StartOps \cup {"Remove"}
  BY <1>1 DEF FramesOK, FrameOK, StartLabels
<1>3. CASE thr[t].op \in StartOps
  BY <1>1, <1>3, EmptyCount DEF StartCalls, GuardedLabels
<1>4. CASE thr[t].op = "Remove"
  <2>1. t = "caller"
    BY <1>4 DEF RolesInv, CallerOps
  <2> QED BY <1>1, <2>1
<1> QED BY <1>2, <1>3, <1>4

\* StopSession shuts down every open connection.
LEMMA StopSessionLive ==
    ASSUME Typed, FramesOK, RolesInv, CallsCounted, LiveInv, StopSession
    PROVE  calls' = 0 /\ \A c \in Conns : ~Live(c)'
<1>1. /\ thr["caller"].pc = "drain" /\ calls = 0 /\ calls' = calls
      /\ conns' = Shutdown(conns, {slots[i].conn : i \in 1 .. count} \ {NoConn})
  BY DEF StopSession, At, Drained
<1>2. ASSUME NEW c \in Conns, Live(c)' PROVE FALSE
  <2>1. Live(c) /\ c \notin {slots[i].conn : i \in 1 .. count} \ {NoConn}
    BY <1>1, <1>2, ShutdownCallbacks, Zenon
  <2>2. InSlot(c)
    BY <1>1, <2>1, DrainedLive
  <2> QED BY <2>1, <2>2, SessionAssumption DEF InSlot
<1> QED BY <1>1, <1>2

LEMMA CallerLive ==
    ASSUME Typed, FramesOK, RolesInv, FreshInv, CallsCounted, LiveInv, CallerStep
    PROVE  LiveInv'
<1>1. \A c \in Conns : Live(c)' => Live(c)
  BY CallerTaskCallbacks
<1>2. \A c : InHand(c) => InHand(c)'
  BY CallerFrame, HandStays, ThreadNames
<1>3. CASE Start
  <2>1. \A c \in Conns : ~Live(c)
    BY <1>3 DEF Start, FreshInv, Live
  <2> QED BY <1>1, <2>1 DEF LiveInv
<1>4. ASSUME NEW i \in Slots, ReconnectSlot(i) PROVE LiveInv'
  <2>1. \A j \in Slots : slots'[j].conn = slots[j].conn
    <3>1. PICK s : /\ slots' = [slots EXCEPT ![i] = s]
                   /\ s = [slots[i] EXCEPT !.connected = FALSE, !.closing = TRUE,
                             !.token = 0, !.gen = @ + 1, !.num = nextNum, !.reserved = FALSE]
      BY <1>4, Zenon DEF ReconnectSlot
    <3>2. slots[i] \in SlotRecord
      BY DEF Typed
    <3>3. s.conn = slots[i].conn
      BY <3>1, <3>2 DEF SlotRecord
    <3> QED BY <3>1, <3>3 DEF Typed
  <2>2. count' = count
    BY <1>4, Zenon DEF ReconnectSlot
  <2> QED BY <1>1, <1>2, <2>1, <2>2, UnchangedSlots, QuietLive
<1>5. ASSUME NEW n \in Slots, SetDesiredConnectionCount(n) PROVE LiveInv'
  <2>1. /\ count' = n /\ n > count
        /\ \A i \in Slots : i <= count => slots'[i] = slots[i]
    BY <1>5, SlotIndex DEF SetDesiredConnectionCount, Typed, Slots
  <2>2. SameSlots
    BY <2>1, SlotIndex, SessionAssumption DEF SameSlots, Typed, Slots
  <2> QED BY <1>1, <1>2, <2>2, QuietLive
<1>6. CASE StopHighestConnection
  <2>1. /\ count > 1 /\ count' = count - 1
        /\ slots' = [slots EXCEPT ![count] = EmptySlot]
    BY <1>6, Zenon DEF StopHighestConnection
  <2>2. count \in Slots /\ count \in Nat
    BY <2>1, SessionAssumption DEF Typed, Slots
  <2>3. ASSUME NEW c \in Conns, InSlot(c) PROVE InSlot(c)' \/ InHand(c)'
    <3>1. PICK i \in 1 .. count : slots[i].conn = c
      BY <2>3 DEF InSlot
    <3>2. CASE i # count
      <4>1. i \in 1 .. count' /\ slots'[i] = slots[i]
        BY <2>1, <2>2, <3>2, SlotIndex DEF Typed
      <4> QED BY <3>1, <4>1 DEF InSlot
    <3>3. CASE i = count
      <4>1. c # NoConn
        BY SessionAssumption
      <4>2. thr' = [thr EXCEPT !["caller"] =
                      [NoFrame EXCEPT !.op = "Remove", !.pc = "shutold", !.old = c]]
        BY <1>6, <3>1, <3>3, <4>1, Zenon DEF StopHighestConnection
      <4>3. thr'["caller"] = [NoFrame EXCEPT !.op = "Remove", !.pc = "shutold", !.old = c]
        BY <4>2, FrameBecomes, ThreadNames, Zenon
      <4>4. thr'["caller"].pc = "shutold" /\ thr'["caller"].old = c
        BY <4>3 DEF NoFrame
      <4> QED BY <4>4, ThreadNames DEF InHand
    <3> QED BY <3>2, <3>3
  <2> QED BY <1>1, <1>2, <2>3, LiveStays
<1>7. CASE StopGate
  <2>1. UNCHANGED <<slots, count>>
    BY <1>7 DEF StopGate
  <2> QED BY <1>1, <1>2, <2>1, UnchangedSlots, QuietLive
<1>8. CASE StopSession
  BY <1>8, StopSessionLive DEF LiveInv
<1> QED BY <1>3, <1>4, <1>5, <1>6, <1>7, <1>8, Zenon DEF CallerStep

LEMMA TaskLive ==
    ASSUME Typed, FramesOK, RolesInv, LiveInv, TaskStep PROVE LiveInv'
<1>1. \A c \in Conns : Live(c)' => Live(c)
  BY CallerTaskCallbacks
<1>2. \A c : InHand(c) => InHand(c)'
  <2>1. PICK t \in Threads :
              /\ \A u \in Threads \ {t} : thr'[u] = thr[u]
              /\ thr'[t] = thr[t] \/ thr[t].pc \in {"idle", "defer", "operate", "pinned"}
    BY TaskFrame
  <2>2. CASE thr'[t] = thr[t]
    <3>1. \A u \in Threads : thr'[u] = thr[u]
      BY <2>1, <2>2
    <3> QED BY <3>1 DEF InHand
  <2> QED BY <2>1, <2>2, HandStays
<1>3. count' = count
  BY Zenon DEF TaskStep, RunRetry, RunOperation, Escalate, Defer, PinForShutdown,
     ShutdownPinned
<1>4. CASE UNCHANGED slots
  BY <1>1, <1>2, <1>3, <1>4, UnchangedSlots, QuietLive
<1>5. ASSUME NEW c \in Conns, Escalate(c) PROVE LiveInv'
  <2>1. slots' = [slots EXCEPT ![conns[c].slot].reserved = TRUE,
                               ![conns[c].slot].closing = TRUE]
    BY <1>5, Zenon DEF Escalate
  <2>2. \A i \in Slots : slots'[i].conn = slots[i].conn
    BY <2>1 DEF Typed, SlotRecord
  <2> QED BY <1>1, <1>2, <1>3, <2>2, UnchangedSlots, QuietLive
<1>6. UNCHANGED slots \/ \E c \in Conns : Escalate(c)
  BY Zenon DEF TaskStep, RunRetry, RunOperation, Defer, PinForShutdown, ShutdownPinned
<1> QED BY <1>4, <1>5, <1>6

LEMMA CallbackLive ==
    ASSUME Typed, LiveInv, NEW c \in Conns, CallbackStep(c) PROVE LiveInv'
<1>1. \A d \in Conns : Live(d)' => Live(d)
  BY CallbackMoves DEF Live
<1>2. \A d : InHand(d) => InHand(d)'
  BY CallbackMoves DEF InHand
<1>3. count' = count
  BY Zenon DEF CallbackStep, OnSlotConnected, OnSlotDisconnected,
     CompleteSlotShutdownLocked, DropOrphanedConnection, CallbackSubmit,
     CallbackSubmitEnd, Free
<1>4. ASSUME \A i \in Slots : slots'[i].conn = slots[i].conn PROVE LiveInv'
  BY <1>1, <1>2, <1>3, <1>4, UnchangedSlots, QuietLive
<1>5. CASE UNCHANGED slots
  BY <1>4, <1>5
<1>6. CASE OnSlotConnected(c) \/ OnSlotDisconnected(c)
  <2>1. PICK i : \/ UNCHANGED slots
                 \/ slots' = [slots EXCEPT ![i].connected = TRUE, ![i].token = 0]
                 \/ slots' = [slots EXCEPT ![i].connected = FALSE, ![i].closing = TRUE]
    BY <1>6, Zenon DEF OnSlotConnected, OnSlotDisconnected
  <2>2. \A j \in Slots : slots'[j].conn = slots[j].conn
    BY <2>1 DEF Typed, SlotRecord
  <2> QED BY <1>4, <2>2
<1>7. CASE CallbackSubmitEnd(c)
  BY <1>1, <1>2, <1>3, <1>7, RolledBackSlots, QuietLive, Zenon DEF CallbackSubmitEnd
<1>8. CASE CompleteSlotShutdownLocked(c)
  <2>1. conns[c].phase = "down"
    BY <1>8 DEF CompleteSlotShutdownLocked
  <2>2. PICK s : \/ UNCHANGED slots
                 \/ /\ IsSlotOf(c, conns[c].slot)
                    /\ slots' = [slots EXCEPT ![conns[c].slot] = s]
    BY <1>8, Zenon DEF CompleteSlotShutdownLocked
  <2>3. ASSUME NEW d \in Conns, Live(d)', InSlot(d) PROVE InSlot(d)'
    <3>1. PICK i \in 1 .. count : slots[i].conn = d
      BY <2>3 DEF InSlot
    <3>2. d # c
      BY <1>1, <2>1, <2>3 DEF Live
    <3>3. slots'[i].conn = d
      BY <2>2, <3>1, <3>2, SlotIndex DEF Typed, IsSlotOf
    <3> QED BY <1>3, <3>3 DEF InSlot
  <2> QED BY <1>1, <1>2, <2>3, LiveStays
<1> QED BY <1>5, <1>6, <1>7, <1>8, Zenon DEF CallbackStep, DropOrphanedConnection,
           CallbackSubmit, Free

LEMMA LiveStep ==
    ASSUME Typed, FramesOK, ConnInv, ShutInv, RolesInv, FreshInv, CallsCounted, LiveInv,
           [Next]_vars
    PROVE  LiveInv'
<1>1. CASE UNCHANGED vars
  BY <1>1 DEF vars, state, LiveInv, Live, InSlot, InHand
<1> QED BY <1>1, StartSlotLive, CallerLive, TaskLive, CallbackLive, Zenon DEF Next, Step

-----------------------------------------------------------------------------
(* After Stop.                                                              *)

LEMMA QuiescesIsNotLive ==
    ASSUME Typed PROVE (\A c \in Conns : ~Live(c)) <=>
                       (\A c \in Conns : conns[c].phase \in {"none", "down", "done"})
BY ConnPhase DEF Typed, Live, Phases

LEMMA StoppedStep ==
    ASSUME Typed, Typed', FramesOK, GateInv, ConnInv, ShutInv, RolesInv, FreshInv,
           CallsCounted, LiveInv, StoppedInv, [Next]_vars
    PROVE  StoppedInv'
<1>1. CASE UNCHANGED vars
  BY <1>1 DEF vars, state, StoppedInv, StopQuiesces
<1>2. CASE StopSession
  <2>1. calls' = 0 /\ \A c \in Conns : ~Live(c)'
    BY <1>2, StopSessionLive
  <2>2. thr'["caller"].pc = "stopped"
    BY <1>2, GotoFrame, ThreadNames DEF StopSession
  <2>3. \A c \in Conns : conns'[c].phase \in {"none", "down", "done"}
    BY <2>1, ConnPhase DEF Typed, Live, Phases
  <2> QED BY <2>1, <2>2, <2>3 DEF StoppedInv, StopQuiesces
<1>3. CASE ~StopSession /\ Next
  <2>1. SUFFICES ASSUME stopping' PROVE /\ calls' = 0 /\ thr'["caller"].pc = "stopped"
                                        /\ \A c \in Conns : ~Live(c)'
    <3>1. ASSUME \A c \in Conns : ~Live(c)'
          PROVE  \A c \in Conns : conns'[c].phase \in {"none", "down", "done"}
      BY <3>1, ConnPhase DEF Typed, Live, Phases
    <3> QED BY <2>1, <3>1 DEF StoppedInv, StopQuiesces
  <2>2. UNCHANGED stopping
    BY <1>3, StartedStep, Zenon DEF Start
  <2>3. /\ stopping /\ calls = 0 /\ thr["caller"].pc = "stopped"
        /\ \A c \in Conns : ~Live(c)
    BY <2>1, <2>2 DEF StoppedInv, StopQuiesces, Live
  <2>4. ~gate /\ ~Running /\ StartCalls = {} /\ RetryCalls = {} /\ CallbackCalls = {}
    BY <2>3, EmptyCount DEF GateInv, Running
  <2>5. ~CallerStep
    BY <1>3, <2>3, CallerFrame
  <2>6. ASSUME NEW t \in Threads, StartSlotStep(t)
        PROVE  calls' = 0 /\ thr'["caller"].pc = "stopped" /\ \A c \in Conns : ~Live(c)'
    <3>1. thr[t].pc \in StartLabels \cup {"shutold", "push"}
      BY <2>6, Zenon DEF StartSlotStep, Enter, ClaimRefused, ClaimExhausted,
       Claim, ShutdownOld, PushOrphan, OpenConnection, Publish, StartConnection,
       CheckStart, ScheduleStartRetry, SubmitRetry, SubmitEnd, Release, Unclaim,
       Return, At, StartLabels
    <3>2. t # "caller"
      BY <2>3, <3>1 DEF StartLabels
    <3>3. thr[t].op \in StartOps
      BY <3>1, <3>2 DEF FramesOK, FrameOK, RolesInv, CallerOps
    <3>4. thr[t].pc \notin GuardedLabels /\ thr[t].op # "Retry"
      BY <2>4, <3>3 DEF StartCalls, RetryCalls
    <3>5. FALSE
      BY <3>2, <3>3, <3>4 DEF RolesInv, CallerOps, StartOps
    <3> QED BY <3>5
  <2>7. CASE TaskStep
    <3>1. \A c \in Conns : ~Live(c)'
      BY <2>3, <2>7, CallerTaskCallbacks, Zenon
    <3>2. PICK t \in Threads :
              /\ \A u \in Threads \ {t} : thr'[u] = thr[u]
              /\ \/ thr'[t] = thr[t] /\ calls' = calls
                 \/ gate
                 \/ thr[t].pc \in {"idle", "defer", "operate", "pinned"} /\ calls' = calls
      BY <2>7, TaskFrame
    <3>3. calls' = 0 /\ thr'["caller"] = thr["caller"]
      BY <2>3, <2>4, <3>2, ThreadNames, Zenon
    <3> QED BY <2>3, <3>1, <3>3
  <2>8. ASSUME NEW c \in Conns, CallbackStep(c)
        PROVE  calls' = 0 /\ thr'["caller"].pc = "stopped" /\ \A d \in Conns : ~Live(d)'
    <3>1. conns[c].cb \notin {"submit", "submitted"}
      BY <2>4 DEF CallbackCalls
    <3>2. calls' = calls
      BY <2>4, <2>8, <3>1, CallbackMoves
    <3>3. \A d \in Conns : ~Live(d)'
      BY <2>3, <2>8, CallbackMoves DEF Live
    <3>4. UNCHANGED thr
      BY <2>8, CallbackMoves
    <3> QED BY <2>3, <3>2, <3>3, <3>4
  <2> QED BY <1>3, <2>5, <2>6, <2>7, <2>8, Zenon DEF Next, Step
<1> QED BY <1>1, <1>2, <1>3

LEMMA StopInit == Init => ShutInv /\ RolesInv /\ FreshInv /\ CallsCounted /\ LiveInv /\ StoppedInv
<1> SUFFICES ASSUME Init
             PROVE  ShutInv /\ RolesInv /\ FreshInv /\ CallsCounted /\ LiveInv /\ StoppedInv
  OBVIOUS
<1>1. /\ \A c \in Conns : conns[c].phase = "none" /\ conns[c].cb = "idle"
      /\ \A t \in Threads : thr[t].pc = "idle" /\ thr[t].op = "none"
      /\ tasks = {} /\ calls = 0 /\ ~stopping
  BY DEF Init, NoConnection, NoFrame
<1>2. StartCalls = {} /\ RetryCalls = {} /\ CallbackCalls = {}
  BY <1>1 DEF StartCalls, RetryCalls, CallbackCalls, StartOps
<1>3. CallsCounted
  BY <1>1, <1>2, FS_EmptySet DEF CallsCounted
<1> QED BY <1>1, <1>3 DEF ShutInv, RolesInv, FreshInv, LiveInv, StoppedInv, Live, CallerOps
=============================================================================

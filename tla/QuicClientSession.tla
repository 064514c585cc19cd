------------------------- MODULE QuicClientSession -------------------------
(***************************************************************************)
(* The connection slots of the client's QUIC session                        *)
(* (src/src/protocol/quic_session.cpp).  A session keeps one connection     *)
(* per slot and restarts it after a fixed delay when it fails.  The         *)
(* following run concurrently and meet under ClientSharedState::Lock:       *)
(*                                                                          *)
(*   "caller"    Start, the administrative operations and Stop; the peer    *)
(*               runtime serialises them with TunnelStartMutex.  So too     *)
(*               EnsureConnected, which under that mutex only ever waits:   *)
(*               it starts slots that NotStranded says do not occur;        *)
(*   "reactor"   the ingress reactor's thread, which runs delayed tasks:    *)
(*               retries of StartSlot and deferred terminal shutdowns;      *)
(*   "terminal"  the terminal convergence thread, which asks a slot to shut *)
(*               its connection down;                                       *)
(*   and one serialised stream of MsQuic callbacks for each connection.     *)
(*                                                                          *)
(* One action is one critical section, or one call out of the session       *)
(* (MsQuic, the scheduler).  slot.Context and slot.Connection are assigned  *)
(* together everywhere and a context belongs to one connection, so conn     *)
(* stands for both.                                                         *)
(***************************************************************************)
EXTENDS Naturals

CONSTANTS
    Conns,             \* the connection objects the process may have alive
    NoConn,            \* a null connection pointer
    InitSlots,         \* QuicConnections of the configuration
    MaxSlots,          \* bound: the slots administrators may grow to
    MaxToken,          \* the limit of NextRetryToken (UINT64_MAX)
    MaxClaim,          \* the limit of NextStartClaim (UINT64_MAX)
    MaxNum,            \* bound: numeric connection ids handed out
    Scenarios          \* which disturbances may occur together

Disturbances ==
    {"openFails",         \* opening or starting a connection may fail
     "schedulerRejects",  \* EnqueueDelayed may return false
     "reconnects",        \* administrators reconnect slots
     "resizes",           \* administrators remove and add slots
     "escalates"}         \* terminal convergence escalates to the connection

ASSUME SessionAssumption ==
    /\ NoConn \notin Conns
    /\ Conns \cap {"queue", "caller", "reactor", "terminal"} = {}
    /\ MaxSlots \in Nat /\ InitSlots \in 1 .. MaxSlots
    /\ MaxToken \in Nat \ {0} /\ MaxClaim \in Nat \ {0}
    /\ MaxNum \in Nat /\ MaxNum > InitSlots
    /\ Scenarios \subseteq SUBSET Disturbances

VARIABLES
    slots,      \* State->Slots; the entries above count are removed slots
    count,      \* State->Slots.size()
    started,    \* State->Started
    stopping,   \* State->Stopping
    gate,       \* gate->Session is this session
    calls,      \* gate->ActiveCalls
    orphans,    \* State->OrphanedConnections
    conns,      \* the connections: MsQuic's state, context and callback
    tasks,      \* the session's tasks in the reactor's delayed queue
    thr,        \* what each thread is executing
    nextToken,  \* State->NextRetryToken
    nextClaim,  \* State->NextStartClaim
    nextNum,    \* g_nextNumericConnectionId
    env         \* the scenario of this behaviour; it never changes

state == <<slots, count, started, stopping, gate, calls, orphans, conns,
           tasks, thr, nextToken, nextClaim, nextNum>>
vars == <<state, env>>

May(what) == what \in env

Slots == 1 .. MaxSlots
Threads == {"caller", "reactor", "terminal"}
Ids == Nat

\* RetryTicket, and with token 0 the key of a terminal escalation.
Ticket == [slot : 0 .. MaxSlots, num : Ids, gen : Ids, token : 0 .. MaxToken]
NoTicket == [slot |-> 0, num |-> 0, gen |-> 0, token |-> 0]

\* ConnectionSlot.
SlotRecord ==
    [conn : Conns \cup {NoConn}, num : Ids, gen : Ids, connected : BOOLEAN,
     closing : BOOLEAN, reserved : BOOLEAN, failed : BOOLEAN,
     token : 0 .. MaxToken, claim : 0 .. MaxClaim]

EmptySlot ==
    [conn |-> NoConn, num |-> 0, gen |-> 0, connected |-> FALSE,
     closing |-> FALSE, reserved |-> FALSE, failed |-> FALSE,
     token |-> 0, claim |-> 0]

\* A slot as Start and SetDesiredConnectionCount make it.
NewSlot(num) == [EmptySlot EXCEPT !.num = num, !.gen = 1]

(* A connection: "none" while no object has this name; "opened" after       *)
(* ConnectionOpen; "started"; "up" after CONNECTED; "down" once it is being *)
(* shut down and only SHUTDOWN_COMPLETE is to come; "done" once its         *)
(* SHUTDOWN_COMPLETE callback closed the handle.  slot, num and gen are its *)
(* ClientConnContext; cb and ticket are the callback in progress.           *)
Phases == {"none", "opened", "started", "up", "down", "done"}
CallbackLabels == {"idle", "drop", "submit", "submitted"}
ConnRecord ==
    [phase : Phases, slot : 0 .. MaxSlots, num : Ids, gen : Ids,
     cb : CallbackLabels, ticket : Ticket]
NoConnection ==
    [phase |-> "none", slot |-> 0, num |-> 0, gen |-> 0, cb |-> "idle",
     ticket |-> NoTicket]

(* A thread's activation of an operation.  idx .. last are the slots still  *)
(* to be started; ticket is StartSlot's expectedRetry, later the retry that *)
(* it submits; claim, num, gen and conn are StartSlot's locals; old is a    *)
(* connection it owns through a local shared_ptr.                           *)
Ops == {"none", "Start", "Reconnect", "Retry", "Remove",
        "Terminal", "Stop"}
Labels == {"idle", "enter", "claim", "shutold", "push", "build", "publish",
           "start", "check", "sched", "submit", "submitted", "release",
           "unclaim", "return", "defer", "operate", "pinned", "drain",
           "stopped"}
Frame ==
    [op : Ops, pc : Labels, idx : 0 .. MaxSlots, last : 0 .. MaxSlots,
     ticket : Ticket, claim : 0 .. MaxClaim, num : Ids, gen : Ids,
     conn : Conns \cup {NoConn}, old : Conns \cup {NoConn}, ok : BOOLEAN]
NoFrame ==
    [op |-> "none", pc |-> "idle", idx |-> 0, last |-> 0,
     ticket |-> NoTicket, claim |-> 0, num |-> 0, gen |-> 0,
     conn |-> NoConn, old |-> NoConn, ok |-> FALSE]

At(t, label) == thr[t].pc = label
Goto(t, label) == thr' = [thr EXCEPT ![t].pc = label]

\* StartSlot returns; what is left are its guards' destructors.
GiveUp(t) == thr' = [thr EXCEPT ![t].pc = "release", ![t].ticket = NoTicket]

Running == started /\ ~stopping
IsValid(c) == c # NoConn /\ conns[c].phase \notin {"none", "done"}

\* A connection some shared_ptr refers to: its object exists.
Owned(c) ==
    \/ \E i \in Slots : slots[i].conn = c
    \/ c \in orphans
    \/ \E t \in Threads : thr[t].old = c

\* MsQuicConnection::Shutdown with the silent flag.
Shutdown(f, C) ==
    [c \in Conns |->
        IF c \in C /\ f[c].phase \in {"opened", "started", "up"}
        THEN [f[c] EXCEPT !.phase = "down"] ELSE f[c]]

\* The last shared_ptr goes away: the destructor closes the handle, and
\* MsQuic makes no further callback.
Destroyed(f, c) ==
    [d \in Conns |->
        IF d = c /\ f[d].cb = "idle" THEN NoConnection ELSE f[d]]

----------------------------------------------------------------------------
(* Retry tickets.                                                          *)

\* Mutant: a slot only knows that some retry is scheduled, not which.
RetryScheduledMatches(k) ==
    Running /\ k.slot \in 1 .. count /\ slots[k.slot].token # 0

RetryTicketMatchesLocked(k) ==
    /\ Running
    /\ k.slot \in 1 .. count
    /\ k.token # 0
    /\ slots[k.slot].token = k.token
    /\ slots[k.slot].num = k.num
    /\ slots[k.slot].gen = k.gen

\* Mutant: a slot has to be connected for its retry to be reserved.
MayReserveConnected(s, num, gen) ==
    s.connected /\ s.num = num /\ s.gen = gen /\ s.token = 0 /\ ~s.failed

\* Whether ReserveRetryLocked gets as far as allocating a token.
MayReserve(s, num, gen) ==
    s.num = num /\ s.gen = gen /\ s.token = 0 /\ ~s.failed

\* The ticket ReserveRetryLocked returns, NoTicket for std::nullopt.
ReservedTicket(i, s, num, gen) ==
    IF MayReserve(s, num, gen) /\ nextToken < MaxToken
    THEN [slot |-> i, num |-> num, gen |-> gen, token |-> nextToken]
    ELSE NoTicket

\* The slot after ReserveRetryLocked.
ReservedSlot(s, num, gen) ==
    IF ~MayReserve(s, num, gen) THEN s
    ELSE IF nextToken < MaxToken THEN [s EXCEPT !.token = nextToken]
    ELSE [s EXCEPT !.failed = TRUE]

TokenAfterReserve(k) ==
    nextToken' = IF k.token = 0 THEN nextToken ELSE nextToken + 1

\* Mutant: a rejected submission is not rolled back.
RejectionIgnored(k, accepted) == slots

\* The end of SubmitRetry: a rejected ticket that still matches is rolled back.
RolledBack(k, accepted) ==
    IF ~accepted /\ RetryTicketMatchesLocked(k)
    THEN [slots EXCEPT ![k.slot].token = 0, ![k.slot].failed = TRUE]
    ELSE slots

----------------------------------------------------------------------------
(* StartSlot(index, expectedRetry) on a thread: its critical sections and   *)
(* calls in order.                                                          *)

\* The call to StartSlot for a slot or a range of slots.
StartCall(op, first, last, k) ==
    [NoFrame EXCEPT !.op = op, !.pc = "enter", !.idx = first, !.last = last,
                    !.ticket = k]

\* The first check, then AcquireLiveSession for the whole call.
Enter(t) ==
    /\ At(t, "enter")
    /\ IF Running /\ thr[t].idx <= count /\ gate
       THEN calls' = calls + 1 /\ Goto(t, "claim")
       ELSE Goto(t, "return") /\ UNCHANGED calls
    /\ UNCHANGED <<slots, count, started, stopping, gate, orphans, conns,
                   tasks, nextToken, nextClaim, nextNum>>

\* The early returns of the claim's critical section.
ClaimStale(t) ==
    \/ ~Running
    \/ thr[t].idx > count
    \/ thr[t].op = "Retry" /\ ~RetryTicketMatchesLocked(thr[t].ticket)

ClaimRefused(t) ==
    /\ At(t, "claim") /\ ClaimStale(t)
    /\ GiveUp(t)
    /\ UNCHANGED <<slots, count, started, stopping, gate, calls, orphans,
                   conns, tasks, nextToken, nextClaim, nextNum>>

ClaimExhausted(t) ==
    /\ At(t, "claim") /\ ~ClaimStale(t) /\ nextClaim = MaxClaim
    /\ slots' = [slots EXCEPT
           ![thr[t].idx].token = IF thr[t].op = "Retry" THEN 0 ELSE @,
           ![thr[t].idx].failed = TRUE]
    /\ GiveUp(t)
    /\ UNCHANGED <<count, started, stopping, gate, calls, orphans, conns,
                   tasks, nextToken, nextClaim, nextNum>>

\* What every successful claim does to the slot.
ClaimedSlotKeepsToken(s) == [s EXCEPT !.claim = nextClaim]
ClaimedSlot(s) == [s EXCEPT !.token = 0, !.claim = nextClaim]

\* The retry is consumed, or superseded, and the slot taken over, in one
\* critical section.  A slot that is connected is left alone.
Claim(t) ==
    LET i == thr[t].idx
        s == slots[i]
        serving == s.connected /\ IsValid(s.conn)
        claimed == ClaimedSlot(s)
    IN  /\ At(t, "claim") /\ ~ClaimStale(t) /\ nextClaim < MaxClaim
        /\ nextClaim' = nextClaim + 1
        /\ IF serving
           THEN /\ slots' = [slots EXCEPT ![i] = claimed]
                /\ thr' = [thr EXCEPT ![t].claim = nextClaim,
                                      ![t].ticket = NoTicket,
                                      ![t].pc = "release"]
           ELSE /\ slots' = [slots EXCEPT ![i] =
                       [claimed EXCEPT !.conn = NoConn, !.connected = FALSE]]
                /\ thr' = [thr EXCEPT ![t].claim = nextClaim,
                                      ![t].ticket = NoTicket,
                                      ![t].num = s.num, ![t].gen = s.gen,
                                      ![t].old = s.conn,
                                      ![t].pc = IF s.conn = NoConn
                                                THEN "build" ELSE "shutold"]
        /\ UNCHANGED <<count, started, stopping, gate, calls, orphans, conns,
                       tasks, nextToken, nextNum>>

\* The connection taken from the slot is shut down outside the lock ...
ShutdownOld(t) ==
    /\ At(t, "shutold")
    /\ conns' = Shutdown(conns, {thr[t].old})
    /\ Goto(t, "push")
    /\ UNCHANGED <<slots, count, started, stopping, gate, calls, orphans,
                   tasks, nextToken, nextClaim, nextNum>>

\* ... and kept in OrphanedConnections for its SHUTDOWN_COMPLETE.  This is
\* also the end of StopHighestConnection.
PushOrphan(t) ==
    /\ At(t, "push")
    /\ orphans' = orphans \cup {thr[t].old}
    /\ thr' = [thr EXCEPT ![t] =
           IF @.op = "Remove" THEN NoFrame
           ELSE [@ EXCEPT !.old = NoConn, !.pc = "build"]]
    /\ UNCHANGED <<slots, count, started, stopping, gate, calls, conns,
                   tasks, nextToken, nextClaim, nextNum>>

\* The configuration, the context, ConnectionOpen and the parameters of the
\* new connection, none of which the other threads can see.
OpenConnection(t) ==
    /\ At(t, "build")
    /\ \/ /\ May("openFails")
          /\ Goto(t, "sched")
          /\ UNCHANGED conns
       \/ \E c \in Conns :
             /\ conns[c].phase = "none"
             /\ \A u \in Threads : thr[u].conn # c
             /\ conns' = [conns EXCEPT ![c] =
                    [NoConnection EXCEPT !.phase = "opened",
                                         !.slot = thr[t].idx,
                                         !.num = thr[t].num,
                                         !.gen = thr[t].gen]]
             /\ thr' = [thr EXCEPT ![t].conn = c, ![t].pc = "publish"]
    /\ UNCHANGED <<slots, count, started, stopping, gate, calls, orphans,
                   tasks, nextToken, nextClaim, nextNum>>

\* Mutant: the generation is not compared.
ClaimedByIndex(t) == Running /\ thr[t].idx <= count

\* Whether the slot still is the one StartSlot claimed.
StillClaimed(t) ==
    /\ Running /\ thr[t].idx <= count
    /\ slots[thr[t].idx].gen = thr[t].gen

\* The new connection becomes the slot's; one that the slot holds is destroyed.
Publish(t) ==
    LET i == thr[t].idx IN
    /\ At(t, "publish")
    /\ IF StillClaimed(t)
       THEN /\ slots' = [slots EXCEPT ![i].conn = thr[t].conn,
                                      ![i].closing = FALSE,
                                      ![i].reserved = FALSE]
            /\ conns' = Destroyed(conns, slots[i].conn)
            /\ Goto(t, "start")
       ELSE /\ conns' = Destroyed(conns, thr[t].conn)
            /\ thr' = [thr EXCEPT ![t].conn = NoConn, ![t].pc = "release"]
            /\ UNCHANGED slots
    /\ UNCHANGED <<count, started, stopping, gate, calls, orphans, tasks,
                   nextToken, nextClaim, nextNum>>

\* ConnectionStart through the raw pointer kept from the publication.
StartConnection(t) ==
    /\ At(t, "start")
    /\ \E accepted \in BOOLEAN :
          /\ accepted => conns[thr[t].conn].phase = "opened"
          /\ May("openFails") \/ accepted \/ conns[thr[t].conn].phase # "opened"
          /\ conns' = IF accepted
                      THEN [conns EXCEPT ![thr[t].conn].phase = "started"]
                      ELSE conns
          /\ thr' = [thr EXCEPT ![t].ok = accepted, ![t].pc = "check"]
    /\ UNCHANGED <<slots, count, started, stopping, gate, calls, orphans,
                   tasks, nextToken, nextClaim, nextNum>>

\* A start that failed while its connection is the slot's gives the slot up.
CheckStart(t) ==
    LET i == thr[t].idx
        failed == /\ Running /\ i <= count
                  /\ slots[i].conn = thr[t].conn
                  /\ ~thr[t].ok
    IN  /\ At(t, "check")
        /\ slots' = IF failed THEN [slots EXCEPT ![i].conn = NoConn] ELSE slots
        /\ conns' = IF failed THEN Destroyed(conns, thr[t].conn) ELSE conns
        /\ thr' = [thr EXCEPT ![t].conn = NoConn,
                              ![t].pc = IF failed THEN "sched" ELSE "release"]
        /\ UNCHANGED <<count, started, stopping, gate, calls, orphans, tasks,
                       nextToken, nextClaim, nextNum>>

\* ReserveRetryLocked for the identity the start was made for.
ScheduleStartRetry(t) ==
    LET i == thr[t].idx
        present == Running /\ i <= count
        k == IF present
             THEN ReservedTicket(i, slots[i], thr[t].num, thr[t].gen)
             ELSE NoTicket
    IN  /\ At(t, "sched")
        /\ slots' = IF present
                    THEN [slots EXCEPT ![i] =
                             ReservedSlot(@, thr[t].num, thr[t].gen)]
                    ELSE slots
        /\ TokenAfterReserve(k)
        /\ thr' = [thr EXCEPT ![t].ticket = k,
                              ![t].pc = IF k.token = 0 THEN "release"
                                        ELSE "submit"]
        /\ UNCHANGED <<count, started, stopping, gate, calls, orphans, conns,
                       tasks, nextClaim, nextNum>>

\* SubmitRetry calls the scheduler outside the lock.
SubmitRetry(t) ==
    /\ At(t, "submit")
    /\ \E accepted \in BOOLEAN :
          /\ accepted \/ May("schedulerRejects")
          /\ tasks' = IF accepted THEN tasks \cup {thr[t].ticket} ELSE tasks
          /\ thr' = [thr EXCEPT ![t].ok = accepted, ![t].pc = "submitted"]
    /\ UNCHANGED <<slots, count, started, stopping, gate, calls, orphans,
                   conns, nextToken, nextClaim, nextNum>>

SubmitEnd(t) ==
    /\ At(t, "submitted")
    /\ slots' = RolledBack(thr[t].ticket, thr[t].ok)
    /\ GiveUp(t)
    /\ UNCHANGED <<count, started, stopping, gate, calls, orphans, conns,
                   tasks, nextToken, nextClaim, nextNum>>

\* ~LiveCallGuard, then ~StartClaimGuard.
Release(t) ==
    /\ At(t, "release")
    /\ calls' = calls - 1
    /\ Goto(t, "unclaim")
    /\ UNCHANGED <<slots, count, started, stopping, gate, orphans, conns,
                   tasks, nextToken, nextClaim, nextNum>>

Unclaim(t) ==
    LET i == thr[t].idx IN
    /\ At(t, "unclaim")
    /\ slots' = IF /\ thr[t].claim # 0 /\ i <= count
                   /\ slots[i].claim = thr[t].claim
                THEN [slots EXCEPT ![i].claim = 0] ELSE slots
    /\ Goto(t, "return")
    /\ UNCHANGED <<count, started, stopping, gate, calls, orphans, conns,
                   tasks, nextToken, nextClaim, nextNum>>

\* Mutant: the call's hold on the session is released twice.
ReturnReleasesTwice(t) ==
    /\ At(t, "return")
    /\ calls' = calls - 1
    /\ thr' = [thr EXCEPT ![t] =
           IF @.op = "Start" /\ @.idx < @.last
           THEN StartCall("Start", @.idx + 1, @.last, NoTicket)
           ELSE NoFrame]
    /\ UNCHANGED <<slots, count, started, stopping, gate, orphans, conns,
                   tasks, nextToken, nextClaim, nextNum>>

\* StartSlot returns: to the next slot of the caller's loop, or, for a retry,
\* to the task, which releases its own hold on the session.
Return(t) ==
    /\ At(t, "return")
    /\ calls' = IF thr[t].op = "Retry" THEN calls - 1 ELSE calls
    /\ thr' = [thr EXCEPT ![t] =
           IF @.op = "Start" /\ @.idx < @.last
           THEN StartCall("Start", @.idx + 1, @.last, NoTicket)
           ELSE NoFrame]
    /\ UNCHANGED <<slots, count, started, stopping, gate, orphans, conns,
                   tasks, nextToken, nextClaim, nextNum>>

----------------------------------------------------------------------------
(* The caller's operations.                                                 *)

CallerIdle == At("caller", "idle")

\* Start: the slots are made and StartAllSlots begins.
Start ==
    /\ CallerIdle /\ ~started /\ ~stopping
    /\ started' = TRUE /\ gate' = TRUE
    /\ count' = InitSlots
    /\ slots' = [i \in Slots |-> IF i <= InitSlots THEN NewSlot(i)
                                 ELSE EmptySlot]
    /\ nextNum' = InitSlots + 1
    /\ thr' = [thr EXCEPT !["caller"] =
                  StartCall("Start", 1, InitSlots, NoTicket)]
    /\ UNCHANGED <<stopping, calls, orphans, conns, tasks, nextToken,
                   nextClaim>>

\* The identity changes first; StartSlot follows.
ReconnectSlot(i) ==
    /\ May("reconnects") /\ nextNum <= MaxNum
    /\ CallerIdle /\ Running /\ i <= count /\ ~slots[i].failed
    /\ slots' = [slots EXCEPT ![i].connected = FALSE, ![i].closing = TRUE,
                              ![i].token = 0, ![i].gen = @ + 1,
                              ![i].num = nextNum, ![i].reserved = FALSE]
    /\ nextNum' = nextNum + 1
    /\ thr' = [thr EXCEPT !["caller"] = StartCall("Reconnect", i, i, NoTicket)]
    /\ UNCHANGED <<count, started, stopping, gate, calls, orphans, conns,
                   tasks, nextToken, nextClaim>>

SetDesiredConnectionCount(desired) ==
    LET added == desired - count IN
    /\ May("resizes")
    /\ CallerIdle /\ Running /\ desired > count
    /\ nextNum + added <= MaxNum + 1
    /\ slots' = [i \in Slots |-> IF i \in count + 1 .. desired
                                 THEN NewSlot(nextNum + (i - count) - 1)
                                 ELSE slots[i]]
    /\ count' = desired
    /\ nextNum' = nextNum + added
    /\ thr' = [thr EXCEPT !["caller"] =
                  StartCall("Start", count + 1, desired, NoTicket)]
    /\ UNCHANGED <<started, stopping, gate, calls, orphans, conns, tasks,
                   nextToken, nextClaim>>

\* The router keeps the last slot.  A slot without a connection needs no more.
StopHighestConnection ==
    LET c == slots[count].conn IN
    /\ May("resizes")
    /\ CallerIdle /\ Running /\ count > 1
    /\ slots' = [slots EXCEPT ![count] = EmptySlot]
    /\ count' = count - 1
    /\ thr' = [thr EXCEPT !["caller"] =
                  IF c = NoConn THEN NoFrame
                  ELSE [NoFrame EXCEPT !.op = "Remove", !.pc = "shutold",
                                       !.old = c]]
    /\ UNCHANGED <<started, stopping, gate, calls, orphans, conns, tasks,
                   nextToken, nextClaim, nextNum>>

\* Stop closes the gate ...
StopGate ==
    /\ CallerIdle /\ started
    /\ gate' = FALSE
    /\ thr' = [thr EXCEPT !["caller"].op = "Stop", !["caller"].pc = "drain"]
    /\ UNCHANGED <<slots, count, started, stopping, calls, orphans, conns,
                   tasks, nextToken, nextClaim, nextNum>>

\* Mutant: Stop does not wait for gate->Drained.
DrainSkipped == TRUE

Drained == calls = 0

\* ... waits for the calls in progress, and shuts every connection down.  It
\* then waits up to five seconds for the orphans, whatever they do.
StopSession ==
    LET C == {slots[i].conn : i \in 1 .. count} \ {NoConn} IN
    /\ At("caller", "drain") /\ Drained
    /\ started' = FALSE /\ stopping' = TRUE
    /\ conns' = Shutdown(conns, C)
    /\ orphans' = orphans \cup C
    /\ slots' = [i \in Slots |-> EmptySlot]
    /\ count' = 0
    /\ Goto("caller", "stopped")
    /\ UNCHANGED <<gate, calls, tasks, nextToken, nextClaim, nextNum>>

----------------------------------------------------------------------------
(* The reactor's delayed tasks, and the terminal escalation of a stream.    *)

IsRetry(k) == k.token # 0
SameIdentity(r, k) == r.num = k.num /\ r.gen = k.gen

\* A due retry.  Terminal operations are due at once and retries after three
\* seconds, so one queued for the same identity has run before.
RunRetry(k) ==
    /\ At("reactor", "idle") /\ k \in tasks /\ IsRetry(k)
    /\ \A other \in tasks : ~IsRetry(other) => ~SameIdentity(other, k)
    /\ tasks' = tasks \ {k}
    /\ IF gate
       THEN /\ calls' = calls + 1
            /\ thr' = [thr EXCEPT !["reactor"] =
                          StartCall("Retry", k.slot, k.slot, k)]
       ELSE UNCHANGED <<calls, thr>>
    /\ UNCHANGED <<slots, count, started, stopping, gate, orphans, conns,
                   nextToken, nextClaim, nextNum>>

OperationFrame(k) ==
    [NoFrame EXCEPT !.op = "Terminal", !.pc = "operate", !.ticket = k]

RunOperation(k) ==
    /\ At("reactor", "idle") /\ k \in tasks /\ ~IsRetry(k)
    /\ tasks' = tasks \ {k}
    /\ thr' = [thr EXCEPT !["reactor"] = OperationFrame(k)]
    /\ UNCHANGED <<slots, count, started, stopping, gate, calls, orphans,
                   conns, nextToken, nextClaim, nextNum>>

\* TqTerminalController: a stream of connection c, opened with the identity
\* PickConnectionWithId returned, asks for the connection's shutdown once.
Escalate(c) ==
    LET i == conns[c].slot
        k == [slot |-> i, num |-> conns[c].num, gen |-> conns[c].gen,
              token |-> 0]
    IN  /\ May("escalates") /\ At("terminal", "idle")
        /\ conns[c].phase \in {"up", "down"} /\ conns[c].cb = "idle"
        /\ i \in 1 .. count
        /\ SameIdentity(slots[i], k)
        /\ ~slots[i].reserved /\ ~slots[i].closing /\ slots[i].connected
        /\ slots' = [slots EXCEPT ![i].reserved = TRUE, ![i].closing = TRUE]
        /\ thr' = [thr EXCEPT !["terminal"] =
                      [OperationFrame(k) EXCEPT !.pc = "defer"]]
        /\ UNCHANGED <<count, started, stopping, gate, calls, orphans, conns,
                       tasks, nextToken, nextClaim, nextNum>>

\* The operation is handed to the reactor, or runs here if that is refused.
Defer ==
    /\ At("terminal", "defer")
    /\ \/ /\ tasks' = tasks \cup {thr["terminal"].ticket}
          /\ thr' = [thr EXCEPT !["terminal"] = NoFrame]
       \/ /\ May("schedulerRejects")
          /\ Goto("terminal", "operate")
          /\ UNCHANGED tasks
    /\ UNCHANGED <<slots, count, started, stopping, gate, calls, orphans,
                   conns, nextToken, nextClaim, nextNum>>

\* Mutant: the operation trusts the slot index.
ReservedByIndex(k) == k.slot \in 1 .. count /\ slots[k.slot].reserved

\* Whether the reservation the key made still stands.
ReservationHolds(k) ==
    /\ k.slot \in 1 .. count
    /\ SameIdentity(slots[k.slot], k)
    /\ slots[k.slot].reserved

\* The operation pins the slot's connection under the lock ...
PinForShutdown(t) ==
    LET k == thr[t].ticket
        c == IF ReservationHolds(k) THEN slots[k.slot].conn ELSE NoConn
    IN  /\ At(t, "operate")
        /\ thr' = [thr EXCEPT ![t] =
               IF c = NoConn THEN NoFrame
               ELSE [@ EXCEPT !.old = c, !.pc = "pinned"]]
        /\ UNCHANGED <<slots, count, started, stopping, gate, calls, orphans,
                       conns, tasks, nextToken, nextClaim, nextNum>>

\* ... and shuts it down outside.
ShutdownPinned(t) ==
    /\ At(t, "pinned")
    /\ conns' = Shutdown(conns, {thr[t].old})
    /\ thr' = [thr EXCEPT ![t] = NoFrame]
    /\ UNCHANGED <<slots, count, started, stopping, gate, calls, orphans,
                   tasks, nextToken, nextClaim, nextNum>>

----------------------------------------------------------------------------
(* ConnectionCallback for connection c.                                     *)

\* Mutant: a callback is matched to its slot by index only.
IsSlotByIndex(c, i) == i \in 1 .. count

\* The slot that holds c for c's own context.
IsSlotOf(c, i) ==
    /\ i \in 1 .. count
    /\ slots[i].conn = c
    /\ SameIdentity(slots[i], conns[c])

\* CONNECTED.
OnSlotConnected(c) ==
    LET i == conns[c].slot IN
    /\ conns[c].phase = "started" /\ conns[c].cb = "idle"
    /\ conns' = [conns EXCEPT ![c].phase = "up"]
    /\ slots' = IF IsSlotOf(c, i)
                THEN [slots EXCEPT ![i].connected = TRUE, ![i].token = 0]
                ELSE slots
    /\ UNCHANGED <<count, started, stopping, gate, calls, orphans, tasks, thr,
                   nextToken, nextClaim, nextNum>>

\* SHUTDOWN_INITIATED_BY_TRANSPORT and SHUTDOWN_INITIATED_BY_PEER.
OnSlotDisconnected(c) ==
    LET i == conns[c].slot IN
    /\ conns[c].phase \in {"started", "up"} /\ conns[c].cb = "idle"
    /\ conns' = [conns EXCEPT ![c].phase = "down"]
    /\ slots' = IF i \in 1 .. count /\ slots[i].conn = c
                THEN [slots EXCEPT ![i].connected = FALSE,
                                   ![i].closing = TRUE]
                ELSE slots
    /\ UNCHANGED <<count, started, stopping, gate, calls, orphans, tasks, thr,
                   nextToken, nextClaim, nextNum>>

\* SHUTDOWN_COMPLETE: a current connection leaves its slot and reserves the
\* slot's retry in the same critical section; any other leaves slots alone.
CompleteSlotShutdownLocked(c) ==
    LET i == conns[c].slot
        down == [slots[i] EXCEPT !.conn = NoConn, !.connected = FALSE,
                                 !.closing = TRUE]
        current == IsSlotOf(c, i)
        k == IF current /\ Running
             THEN ReservedTicket(i, down, conns[c].num, conns[c].gen)
             ELSE NoTicket
    IN  /\ conns[c].phase = "down" /\ conns[c].cb = "idle"
        /\ slots' = IF ~current THEN slots
                    ELSE [slots EXCEPT ![i] =
                             IF Running
                             THEN ReservedSlot(down, conns[c].num,
                                               conns[c].gen)
                             ELSE down]
        /\ TokenAfterReserve(k)
        /\ conns' = [conns EXCEPT ![c].cb = "drop", ![c].ticket = k]
        /\ UNCHANGED <<count, started, stopping, gate, calls, orphans, tasks,
                       thr, nextClaim, nextNum>>

\* What OrphanedConnections keeps.
OrphansWithoutForgotten(c) == orphans
OrphansWithout(c) == orphans \ {c}

\* The handle is closed, OrphanedConnections lets the connection go, and the
\* context is deleted.  The object is gone once nothing refers to it.
DropOrphanedConnection(c) ==
    LET resubmit == conns[c].ticket.token # 0 /\ gate IN
    /\ conns[c].cb = "drop"
    /\ orphans' = OrphansWithout(c)
    /\ calls' = IF resubmit THEN calls + 1 ELSE calls
    /\ conns' = [conns EXCEPT ![c].phase = "done",
                              ![c].cb = IF resubmit THEN "submit" ELSE "idle",
                              ![c].ticket = IF resubmit THEN @ ELSE NoTicket]
    /\ UNCHANGED <<slots, count, started, stopping, gate, tasks, thr,
                   nextToken, nextClaim, nextNum>>

\* SubmitRetry on the callback's thread, inside AcquireLiveSession.
CallbackSubmit(c) ==
    /\ conns[c].cb = "submit"
    /\ \E accepted \in BOOLEAN :
          /\ accepted \/ May("schedulerRejects")
          /\ tasks' = IF accepted THEN tasks \cup {conns[c].ticket} ELSE tasks
          /\ conns' = [conns EXCEPT
                 ![c].cb = IF accepted THEN "idle" ELSE "submitted",
                 ![c].ticket = IF accepted THEN NoTicket ELSE @]
          /\ calls' = IF accepted THEN calls - 1 ELSE calls
    /\ UNCHANGED <<slots, count, started, stopping, gate, orphans, thr,
                   nextToken, nextClaim, nextNum>>

CallbackSubmitEnd(c) ==
    /\ conns[c].cb = "submitted"
    /\ slots' = RolledBack(conns[c].ticket, FALSE)
    /\ conns' = [conns EXCEPT ![c].cb = "idle", ![c].ticket = NoTicket]
    /\ calls' = calls - 1
    /\ UNCHANGED <<count, started, stopping, gate, orphans, tasks, thr,
                   nextToken, nextClaim, nextNum>>

\* The closed connection's object is freed with its last shared_ptr.
Free(c) ==
    /\ conns[c].phase = "done" /\ conns[c].cb = "idle" /\ ~Owned(c)
    /\ conns' = [conns EXCEPT ![c] = NoConnection]
    /\ UNCHANGED <<slots, count, started, stopping, gate, calls, orphans,
                   tasks, thr, nextToken, nextClaim, nextNum>>

----------------------------------------------------------------------------

Init ==
    /\ slots = [i \in Slots |-> EmptySlot]
    /\ count = 0
    /\ started = FALSE /\ stopping = FALSE
    /\ gate = FALSE /\ calls = 0
    /\ orphans = {}
    /\ conns = [c \in Conns |-> NoConnection]
    /\ tasks = {}
    /\ thr = [t \in Threads |-> NoFrame]
    /\ nextToken = 1 /\ nextClaim = 1 /\ nextNum = 1
    /\ env \in Scenarios

StartSlotStep(t) ==
    \/ Enter(t) \/ ClaimRefused(t) \/ ClaimExhausted(t) \/ Claim(t)
    \/ ShutdownOld(t) \/ PushOrphan(t) \/ OpenConnection(t) \/ Publish(t)
    \/ StartConnection(t) \/ CheckStart(t) \/ ScheduleStartRetry(t)
    \/ SubmitRetry(t) \/ SubmitEnd(t) \/ Release(t) \/ Unclaim(t) \/ Return(t)

CallerStep ==
    \/ Start
    \/ \E i \in Slots : ReconnectSlot(i) \/ SetDesiredConnectionCount(i)
    \/ StopHighestConnection \/ StopGate \/ StopSession

TaskStep ==
    \/ \E k \in tasks : RunRetry(k) \/ RunOperation(k)
    \/ \E c \in Conns : Escalate(c)
    \/ Defer
    \/ \E t \in Threads : PinForShutdown(t) \/ ShutdownPinned(t)

CallbackStep(c) ==
    \/ OnSlotConnected(c) \/ OnSlotDisconnected(c)
    \/ CompleteSlotShutdownLocked(c) \/ DropOrphanedConnection(c)
    \/ CallbackSubmit(c) \/ CallbackSubmitEnd(c) \/ Free(c)

Step ==
    \/ \E t \in Threads : StartSlotStep(t)
    \/ CallerStep
    \/ TaskStep
    \/ \E c \in Conns : CallbackStep(c)

Next == Step /\ UNCHANGED env

Spec == Init /\ [][Next]_vars

----------------------------------------------------------------------------
(* Properties.                                                              *)

\* Every variable stays in its type; gate->ActiveCalls never underflows.
TypeOK ==
    /\ slots \in [Slots -> SlotRecord]
    /\ count \in 0 .. MaxSlots
    /\ started \in BOOLEAN /\ stopping \in BOOLEAN /\ gate \in BOOLEAN
    /\ calls \in Nat
    /\ orphans \subseteq Conns
    /\ conns \in [Conns -> ConnRecord]
    /\ tasks \subseteq Ticket
    /\ thr \in [Threads -> Frame]
    /\ nextToken \in 1 .. MaxToken /\ nextClaim \in 1 .. MaxClaim
    /\ nextNum \in 1 .. MaxNum + 1

\* Where a reserved retry can be: with a thread or a callback that submits it
\* or must roll it back, with the reactor about to claim the slot, or queued.
ThreadHolds(t) ==
    \/ thr[t].op = "Retry" /\ thr[t].pc \in {"enter", "claim"}
    \/ At(t, "submit")
    \/ At(t, "submitted") /\ ~thr[t].ok
CallbackHolds(c) == conns[c].cb # "idle" /\ IsRetry(conns[c].ticket)
Places == {"queue"} \cup Threads \cup Conns
Held(p) ==
    IF p = "queue" THEN {k \in tasks : IsRetry(k)}
    ELSE IF p \in Threads THEN IF ThreadHolds(p) THEN {thr[p].ticket} ELSE {}
    ELSE IF CallbackHolds(p) THEN {conns[p].ticket} ELSE {}

\* A slot has at most one executable retry, whatever tickets earlier failures,
\* reconnects and removals left in the reactor's queue.
SingleFlight ==
    \A p, q \in Places : \A k \in Held(p), j \in Held(q) :
        /\ k.slot = j.slot
        /\ RetryTicketMatchesLocked(k)
        /\ RetryTicketMatchesLocked(j)
        => p = q /\ k = j

\* The ticket a slot's ActiveRetryToken stands for.
TicketOf(i) ==
    [slot |-> i, num |-> slots[i].num, gen |-> slots[i].gen,
     token |-> slots[i].token]

\* While the session is live, the ActiveRetryToken of a slot belongs to a retry
\* that is queued, or on its way to or from the queue: it is never left over.
RetryBacked ==
    gate => \A i \in 1 .. count :
        slots[i].token # 0 => \E p \in Places : TicketOf(i) \in Held(p)

\* A slot that waits for its retry has no connection: the retry that takes the
\* slot over interrupts nothing.
RetryOnlyWhenDown ==
    \A i \in 1 .. count :
        slots[i].token # 0 => slots[i].conn = NoConn /\ ~slots[i].connected

\* A thread that will start, or is starting, slot i for its present identity.
Starting(t, i) ==
    \/ thr[t].op = "Start" /\ i > thr[t].idx /\ i <= thr[t].last
    \/ /\ thr[t].idx = i
       /\ \/ /\ thr[t].op \in {"Start", "Reconnect"}
             /\ thr[t].pc \in {"enter", "claim"}
          \/ /\ thr[t].pc \in {"shutold", "push", "build", "publish", "start",
                               "check", "sched"}
             /\ SameIdentity(slots[i], thr[t])

\* A slot of a live session always has something that will bring it back: a
\* connection whose callbacks are for this slot, a retry, a start in progress,
\* or the recorded failure that asks for the session's restart.
NotStranded ==
    gate => \A i \in 1 .. count :
        LET s == slots[i] IN
        \/ s.failed
        \/ s.token # 0
        \/ /\ IsValid(s.conn) /\ SameIdentity(s, conns[s.conn])
           /\ conns[s.conn].phase # "opened"
        \/ \E t \in Threads : Starting(t, i)

\* The connection of a connected slot leaves the slot, while slot and identity
\* stay, only after it has been shut down: no late retry, callback of an older
\* connection or concurrent start displaces it.
ServingConnectionKept ==
    [][\A i \in Slots :
          /\ slots[i].connected /\ IsValid(slots[i].conn)
          /\ slots'[i].num = slots[i].num
          /\ slots'[i].conn # slots[i].conn
          => conns[slots[i].conn].phase = "down"]_vars

\* Stop quiesces: once it has shut the connections down none is open, and
\* none is opened, started or connected again.
StopQuiesces ==
    stopping => \A c \in Conns : conns[c].phase \in {"none", "down", "done"}

\* A terminal escalation shuts down a connection of the identity its stream was
\* opened on, never the one that replaced it.
EscalationHitsOwn ==
    \A t \in Threads :
        At(t, "pinned") => SameIdentity(conns[thr[t].old], thr[t].ticket)

\* Without administrative operations a connection object is kept as long as it
\* is used and no longer: StartSlot calls ConnectionStart on one that exists,
\* and OrphanedConnections holds only connections whose SHUTDOWN_COMPLETE is
\* still to release them.
Unattended == ~May("reconnects") /\ ~May("resizes")
ConnectionsHeld ==
    Unattended =>
        /\ \A t \in Threads : At(t, "start") => Owned(thr[t].conn)
        /\ \A c \in orphans : conns[c].phase \notin {"none", "done"}

\* A slot of a live session that lost its connection gets another one, or
\* records that scheduling failed.
SlotRecovers ==
    \A i \in Slots :
        (gate /\ i <= count /\ slots[i].conn = NoConn)
            ~> (~gate \/ i > count \/ slots[i].conn # NoConn
                \/ slots[i].failed)

\* Without administrative operations, after Stop every connection it left behind
\* is released.
StopDrains == (stopping /\ Unattended) ~> (orphans = {})

(* Threads run; the reactor takes due tasks; MsQuic finishes handshakes and *)
(* shutdowns and runs callbacks to their end; a StopSession whose calls are *)
(* drained proceeds.  Nothing obliges administrators to act.                *)
Fairness ==
    /\ \A t \in Threads : WF_state(StartSlotStep(t))
    /\ WF_state(TaskStep)
    /\ WF_state(Start) /\ WF_state(StopSession)
    /\ \A c \in Conns :
          /\ WF_state(OnSlotConnected(c) \/ OnSlotDisconnected(c))
          /\ WF_state(CompleteSlotShutdownLocked(c) \/ DropOrphanedConnection(c)
                      \/ CallbackSubmit(c) \/ CallbackSubmitEnd(c)
                      \/ Free(c))

FairSpec == Spec /\ Fairness

=============================================================================

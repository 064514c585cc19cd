------------------------ MODULE TerminalConvergence ------------------------
(***************************************************************************)
(* Bounded convergence of the final shutdown of one MsQuic stream:         *)
(* TqStreamLifetime::BeginTerminalShutdown / UpgradeTerminalShutdownToAbort*)
(* (stream_lifetime.cpp) together with the terminal ledger and the         *)
(* process-wide TqTerminalScheduler (terminal_convergence.cpp).            *)
(*                                                                         *)
(* Four threads meet here and every action is one critical section or one  *)
(* unlocked call of one of them:                                           *)
(*   "relay"    the relay worker that owns the tunnel's data plane;        *)
(*   "worker"   the scheduler's thread, which runs Retry, Watchdog and     *)
(*              Timeout tasks and re-enters BeginTerminalShutdown;         *)
(*   callback   the MsQuic thread that delivers the stream's events;       *)
(*   stopper    a thread inside TqTerminalScheduler::Stop().               *)
(*                                                                         *)
(* One stream is enough: ledgers, retention and tasks are keyed by the     *)
(* stream id and streams share nothing but the scheduler's life cycle.     *)
(* Deadlines are abstracted: a queued task may run at any later moment.    *)
(***************************************************************************)
EXTENDS Integers

CONSTANTS
    MayUpgrade,     \* the backend uses UpgradeTerminalShutdownToAbort (libuv)
    MayFailStart,   \* the stream's START_COMPLETE may report a failure
    HasEscalation,  \* the handoff carries a TqTerminalEscalation
    Scenarios       \* bounds, and whether allocations and std::thread may throw

ASSUME BoundsAssumption ==
    /\ MayUpgrade \in BOOLEAN /\ MayFailStart \in BOOLEAN /\ HasEscalation \in BOOLEAN
    /\ Scenarios \subseteq
         [calls : Nat,         \* calls the relay thread makes on the stream
          stops : Nat,         \* calls of TqTerminalScheduler::Stop
          starts : Nat,        \* calls of TqTerminalScheduler::Start
          allocFails : BOOLEAN]

VARIABLES
    phase,            \* TqStreamLifetime::Phase_
    terminalPhase,    \* TqStreamLifetime::TerminalPhase_
    attempt,          \* TerminalShutdownAttempt_
    intent,           \* TerminalShutdownIntent_
    upgradeReserved,  \* TerminalAbortUpgradeReserved_
    upgradeApplied,   \* TerminalAbortUpgradeApplied_
    ledgerPhase,      \* TqTerminalLedger State_.Phase
    ledgerAttempt,    \* State_.ShutdownAttempt
    watchdog,         \* State_.Watchdog
    escalated,        \* State_.ConnectionEscalated
    accounted,        \* State_.AccountingCompleted
    lifecycle,        \* SchedulerState::State (Stopping flag = "Stopping")
    workerRunning,    \* SchedulerState::Running
    restartRequested, \* SchedulerState::RestartRequested
    tasks,            \* how many tasks of each kind are queued for the stream
    indexed,          \* the stream is in SchedulerState::Ledgers
    timeoutPending,   \* g_terminalTimeoutPending
    pc, callIntent, callAttempt, callOk, again,  \* locals of the two threads
    callback,         \* progress of PublishTerminalAndTakeTarget
    stopper, stopTimeouts, stopIndexed,          \* locals of Stop()
    calls, stops, starts,                        \* calls made so far
    first,            \* intent of the relay thread's first call
    requests,         \* history: RequestConnectionShutdown calls made
    retries,          \* history: Retry tasks ever queued
    aborting,         \* history: an abort-both shutdown has been reserved
    scheduled,        \* history: the scheduler marked the escalation
    env               \* the scenario, chosen once

ownerVars == <<phase, terminalPhase, attempt, intent, upgradeReserved, upgradeApplied>>
ledgerVars == <<ledgerPhase, ledgerAttempt, watchdog, escalated, accounted>>
schedVars == <<lifecycle, workerRunning, restartRequested, tasks, indexed, timeoutPending>>
localVars == <<callIntent, callAttempt, callOk, again>>
stopVars == <<stopper, stopTimeouts, stopIndexed, stops, starts>>
callVars == <<calls, first>>
histVars == <<requests, retries, aborting, scheduled>>
stateVars == <<ownerVars, ledgerVars, schedVars, pc, localVars, callback, stopVars,
               callVars, histVars>>
vars == <<stateVars, env>>

Threads == {"relay", "worker"}
Kinds == {"Retry", "Watchdog", "Timeout"}
Intents == {"Graceful", "Abort"}
Phases == {"Starting", "Started", "StartFailed", "TerminalPublished"}
TerminalPhases == {"Active", "ShutdownReserved", "ShutdownSubmitted", "TerminalObserved"}
WatchdogStates == {"Idle", "Armed", "Canceled", "Escalated", "TerminalTimeout"}
Lifecycles == {"Ready", "Running", "Stopping", "Stopped"}

\* Where a thread is.  The names are those of the critical section or the
\* call it is about to enter.
BeginPcs == {"begin", "downcall", "submit", "record", "schedule"}
EscalatePcs == {"escalate", "request", "queueTimeout"}
IllegalPcs == {"illegal", "illegalRequest"}
UpgradePcs == {"upDowncall", "upSubmit", "upLedger", "upRequest"}
TaskPcs == {"retryCheck", "retryRead", "timeout", "cleanup"}
Pcs == {"idle"} \union BeginPcs \union EscalatePcs \union IllegalPcs
         \union UpgradePcs \union TaskPcs

NoTasks == [k \in Kinds |-> 0]
\* priority_queue::empty() for this stream.
HasTasks(q) == \E k \in Kinds : q[k] > 0

\* Timeout tasks that TaskQueue::Erase reports to Cancel.
ErasedTimeoutsForgotten == 0
ErasedTimeouts == tasks["Timeout"]

\* DecrementPendingTimeout never goes below zero.
Decrement(n) == IF timeoutPending >= n THEN timeoutPending - n ELSE 0

Observed == terminalPhase = "TerminalObserved"

\* Where a thread goes when BeginTerminalShutdown returns.
Return(t) == IF t = "worker" THEN "cleanup" ELSE "idle"

Goto(t, l) == pc' = [pc EXCEPT ![t] = l]

-----------------------------------------------------------------------------
(* The stream's owner: start, reservation and submission of the shutdown.  *)

\* An outgoing stream has called BeginStart; an accepted one is Started.
Init ==
    /\ phase \in {"Starting", "Started"}
    /\ terminalPhase = "Active" /\ attempt = 0 /\ intent = "Abort"
    /\ upgradeReserved = FALSE /\ upgradeApplied = FALSE
    /\ ledgerPhase = "Active" /\ ledgerAttempt = 0 /\ watchdog = "Idle"
    /\ escalated = FALSE /\ accounted = FALSE
    /\ lifecycle = "Ready" /\ workerRunning = FALSE /\ restartRequested = FALSE
    /\ tasks = NoTasks /\ indexed = FALSE /\ timeoutPending = 0
    /\ pc = [t \in Threads |-> "idle"]
    /\ callIntent = [t \in Threads |-> "Abort"]
    /\ callAttempt = [t \in Threads |-> 0]
    /\ callOk = [t \in Threads |-> FALSE]
    /\ again = [t \in Threads |-> FALSE]
    /\ callback = "none"
    /\ stopper = "idle" /\ stopTimeouts = 0 /\ stopIndexed = FALSE
    /\ calls = 0 /\ stops = 0 /\ starts = 0 /\ first = "None"
    /\ requests = 0 /\ retries = 0 /\ aborting = FALSE /\ scheduled = FALSE
    /\ env \in Scenarios

\* START_COMPLETE: CompleteStart, or PublishStartFailureAndTakeTarget.
StartComplete ==
    /\ phase = "Starting" /\ callback = "none"
    /\ \/ phase' = "Started"
       \/ MayFailStart /\ phase' = "StartFailed"
    /\ UNCHANGED <<terminalPhase, attempt, intent, upgradeReserved, upgradeApplied,
                   ledgerVars, schedVars, pc, localVars, callback, stopVars,
                   callVars, histVars>>

\* The relay thread calls BeginTerminalShutdown.  A graceful completion can
\* only be its first call: libuv sets TerminalStarted once, the Linux worker
\* sets Closing once.
CallBegin(i) ==
    /\ pc["relay"] = "idle" /\ calls < env.calls
    /\ i = "Graceful" => first = "None"
    /\ calls' = calls + 1
    /\ first' = IF first = "None" THEN i ELSE first
    /\ callIntent' = [callIntent EXCEPT !["relay"] = i]
    /\ Goto("relay", "begin")
    /\ UNCHANGED <<ownerVars, ledgerVars, schedVars, callAttempt, callOk, again,
                   callback, stopVars, histVars>>

\* First critical section, early returns: terminal already observed, or a
\* shutdown already submitted or in flight.
BeginDuplicate(t) ==
    /\ pc[t] = "begin"
    /\ terminalPhase # "Active" \/ phase = "TerminalPublished"
    /\ Goto(t, Return(t))
    /\ UNCHANGED <<ownerVars, ledgerVars, schedVars, localVars, callback, stopVars,
                   callVars, histVars>>

\* First critical section, phase not allowed: INVALID_STATE.
BeginIllegal(t) ==
    /\ pc[t] = "begin"
    /\ terminalPhase = "Active" /\ phase = "StartFailed"
    /\ Goto(t, IF HasEscalation THEN "illegal" ELSE Return(t))
    /\ UNCHANGED <<ownerVars, ledgerVars, schedVars, localVars, callback, stopVars,
                   callVars, histVars>>

\* First critical section: the sink becomes the target, the shutdown is
\* reserved in the owner and, under the nested lock, in the ledger.
BeginReserve(t) ==
    /\ pc[t] = "begin"
    /\ terminalPhase = "Active" /\ phase \in {"Starting", "Started"}
    /\ terminalPhase' = "ShutdownReserved"
    /\ attempt' = attempt + 1
    /\ intent' = callIntent[t]
    /\ ledgerPhase' = "ShutdownReserved"
    /\ ledgerAttempt' = attempt + 1
    /\ callAttempt' = [callAttempt EXCEPT ![t] = attempt + 1]
    /\ aborting' = (aborting \/ callIntent[t] = "Abort")
    /\ Goto(t, "downcall")
    /\ UNCHANGED <<phase, upgradeReserved, upgradeApplied, watchdog, escalated,
                   accounted, schedVars, callIntent, callOk, again, callback,
                   stopVars, callVars, requests, retries, scheduled>>

\* CallTerminalShutdown, outside every lock: MsQuic accepts or refuses.
Downcall(t) ==
    /\ pc[t] = "downcall"
    /\ \E ok \in BOOLEAN : callOk' = [callOk EXCEPT ![t] = ok]
    /\ Goto(t, "submit")
    /\ UNCHANGED <<ownerVars, ledgerVars, schedVars, callIntent, callAttempt, again,
                   callback, stopVars, callVars, histVars>>

\* Second critical section: the terminal event wins over the result.
TerminalWinsDropped == FALSE
TerminalWins == Observed \/ phase = "TerminalPublished"

BeginSubmit(t) ==
    /\ pc[t] = "submit"
    /\ IF TerminalWins
       THEN /\ Goto(t, Return(t))
            /\ UNCHANGED terminalPhase
       ELSE /\ terminalPhase' =
                 IF callOk[t] THEN "ShutdownSubmitted"
                 ELSE IF terminalPhase = "ShutdownReserved" THEN "Active"
                 ELSE terminalPhase
            /\ Goto(t, "record")
    /\ UNCHANGED <<phase, attempt, intent, upgradeReserved, upgradeApplied,
                   ledgerVars, schedVars, localVars, callback, stopVars, callVars,
                   histVars>>

\* The phase RecordShutdown writes; a terminal phase is never overwritten.
RecordedPhaseBlind(t) == IF callOk[t] THEN "ShutdownSubmitted" ELSE "Active"
RecordedPhase(t) == IF ledgerPhase = "TerminalObserved" THEN ledgerPhase
                    ELSE IF callOk[t] THEN "ShutdownSubmitted" ELSE "Active"

\* TqTerminalLedger::RecordShutdown: an older attempt is dropped.
RecordShutdown(t) ==
    /\ pc[t] = "record"
    /\ IF callAttempt[t] < ledgerAttempt
       THEN UNCHANGED <<ledgerAttempt, ledgerPhase>>
       ELSE /\ ledgerAttempt' = callAttempt[t]
            /\ ledgerPhase' = RecordedPhase(t)
    /\ Goto(t, IF callIntent[t] = "Graceful" THEN Return(t) ELSE "schedule")
    /\ UNCHANGED <<ownerVars, watchdog, escalated, accounted, schedVars, localVars,
                   callback, stopVars, callVars, histVars>>

-----------------------------------------------------------------------------
(* The scheduler's queue, filled under ledger lock + scheduler lock.       *)

\* EnqueueTaskLocked followed by StartWorkerWithLifecycleLocked.
Enqueue(kind) ==
    /\ lifecycle \notin {"Stopping", "Stopped"}
    /\ tasks' = [tasks EXCEPT ![kind] = @ + 1]
    /\ indexed' = TRUE /\ lifecycle' = "Running" /\ workerRunning' = TRUE
    /\ UNCHANGED <<restartRequested, timeoutPending>>

\* A scheduler that stops refuses, and so does a failed allocation; a thread
\* that cannot be created drops every task of the stream.
Refuse ==
    \/ /\ lifecycle \in {"Stopping", "Stopped"} \/ env.allocFails
       /\ UNCHANGED schedVars
    \/ /\ lifecycle \notin {"Stopping", "Stopped"}
       /\ env.allocFails /\ ~workerRunning
       /\ tasks' = NoTasks /\ indexed' = FALSE /\ lifecycle' = "Ready"
       /\ UNCHANGED <<workerRunning, restartRequested, timeoutPending>>

\* Where a thread goes when its task could not be queued: both callers of the
\* queue fall back to Escalate.
UnqueuedDropped(t) == Return(t)
Unqueued(t) == "escalate"

\* ArmWatchdog: only an idle watchdog of a submitted shutdown is armed.
ArmWatchdog(t) ==
    /\ pc[t] = "schedule" /\ callOk[t]
    /\ IF ledgerPhase = "ShutdownSubmitted" /\ watchdog = "Idle"
       THEN /\ watchdog' = "Armed"
            /\ \/ Enqueue("Watchdog") /\ Goto(t, Return(t))
               \/ Refuse /\ Goto(t, Unqueued(t))
       ELSE /\ Goto(t, Unqueued(t))
            /\ UNCHANGED <<watchdog, schedVars>>
    /\ UNCHANGED <<ownerVars, ledgerPhase, ledgerAttempt, escalated, accounted,
                   localVars, callback, stopVars, callVars, histVars>>

\* RetryAllowed and RetryAndEnqueue: the ledger's test before a retry.
RetryAllowedAfterTerminal == watchdog # "Canceled"
RetryAllowed == ledgerPhase # "TerminalObserved" /\ watchdog # "Canceled"

\* completedAttempt >= 4: the first shutdown and three retries have failed.
RetryExhaustedLate(t) == callAttempt[t] > 4
RetryExhausted(t) == callAttempt[t] >= 4

\* ScheduleRetry after a refused shutdown.  From the fourth attempt on it
\* escalates and reports failure, and BeginTerminalShutdown then calls it a
\* second time with attempt 4 (again); a retry that cannot be queued is
\* escalated the same way.
ScheduleRetry(t) ==
    /\ pc[t] = "schedule" /\ ~callOk[t]
    /\ IF RetryExhausted(t)
       THEN /\ again' = [again EXCEPT ![t] = TRUE]
            /\ Goto(t, "escalate")
            /\ UNCHANGED <<schedVars, retries>>
       ELSE /\ IF RetryAllowed
               THEN \/ Enqueue("Retry") /\ retries' = retries + 1 /\ Goto(t, Return(t))
                    \/ Refuse /\ Goto(t, Unqueued(t)) /\ UNCHANGED retries
               ELSE Goto(t, Unqueued(t)) /\ UNCHANGED <<schedVars, retries>>
            /\ UNCHANGED again
    /\ UNCHANGED <<ownerVars, ledgerVars, callIntent, callAttempt, callOk, callback,
                   stopVars, callVars, requests, aborting, scheduled>>

-----------------------------------------------------------------------------
(* Escalate: mark the ledger, ask for the connection's shutdown, queue the *)
(* 30-second Timeout.                                                      *)

\* Where a thread goes when Escalate returns.
AfterEscalate(t) == IF again[t] THEN "escalate" ELSE Return(t)

\* MarkEscalated's test of the ledger.
MayEscalateAgain == /\ ledgerPhase # "TerminalObserved"
                    /\ watchdog \notin {"Canceled", "TerminalTimeout"}
MayEscalate == /\ ledgerPhase # "TerminalObserved"
               /\ watchdog \notin {"Canceled", "TerminalTimeout"}
               /\ ~escalated

MarkEscalated(t) ==
    /\ pc[t] = "escalate"
    /\ IF MayEscalate
       THEN /\ watchdog' = "Escalated" /\ escalated' = TRUE /\ scheduled' = TRUE
            /\ Goto(t, "request")
            /\ UNCHANGED again
       ELSE /\ Goto(t, AfterEscalate(t))
            /\ again' = [again EXCEPT ![t] = FALSE]
            /\ UNCHANGED <<watchdog, escalated, scheduled>>
    /\ UNCHANGED <<ownerVars, ledgerPhase, ledgerAttempt, accounted, schedVars,
                   callIntent, callAttempt, callOk, callback, stopVars, callVars,
                   requests, retries, aborting>>

\* TqTerminalEscalation::RequestConnectionShutdown, outside every lock.
Request(t) ==
    /\ pc[t] = "request"
    /\ requests' = IF HasEscalation THEN requests + 1 ELSE requests
    /\ Goto(t, "queueTimeout")
    /\ UNCHANGED <<ownerVars, ledgerVars, schedVars, localVars, callback, stopVars,
                   callVars, retries, aborting, scheduled>>

\* QueueTimeout: unlike the other kinds it is accepted while the scheduler
\* stops (which then restarts) and it restarts a stopped scheduler.  It does
\* not look at the ledger again.
QueueTimeout(t) ==
    /\ pc[t] = "queueTimeout"
    /\ \/ env.allocFails /\ UNCHANGED schedVars
       \/ /\ lifecycle = "Stopping"
          /\ tasks' = [tasks EXCEPT !["Timeout"] = @ + 1]
          /\ timeoutPending' = timeoutPending + 1
          /\ indexed' = TRUE /\ restartRequested' = TRUE
          /\ UNCHANGED <<lifecycle, workerRunning>>
       \/ /\ lifecycle # "Stopping"
          /\ tasks' = [tasks EXCEPT !["Timeout"] = @ + 1]
          /\ timeoutPending' = timeoutPending + 1
          /\ indexed' = TRUE /\ lifecycle' = "Running" /\ workerRunning' = TRUE
          /\ UNCHANGED restartRequested
       \/ /\ lifecycle # "Stopping" /\ env.allocFails /\ ~workerRunning
          /\ tasks' = NoTasks /\ indexed' = FALSE /\ lifecycle' = "Ready"
          /\ UNCHANGED <<workerRunning, restartRequested, timeoutPending>>
    /\ Goto(t, AfterEscalate(t))
    /\ again' = [again EXCEPT ![t] = FALSE]
    /\ UNCHANGED <<ownerVars, ledgerVars, callIntent, callAttempt, callOk, callback,
                   stopVars, callVars, histVars>>

\* BeginTerminalShutdown in a phase that does not allow it: mark the ledger
\* once and ask for the connection's shutdown; no task is queued.
IllegalEscalate(t) ==
    /\ pc[t] = "illegal"
    /\ escalated' = TRUE
    /\ watchdog' = IF escalated THEN watchdog ELSE "Escalated"
    /\ Goto(t, IF escalated THEN Return(t) ELSE "illegalRequest")
    /\ UNCHANGED <<ownerVars, ledgerPhase, ledgerAttempt, accounted, schedVars,
                   localVars, callback, stopVars, callVars, histVars>>

IllegalRequest(t) ==
    /\ pc[t] = "illegalRequest"
    /\ requests' = requests + 1
    /\ Goto(t, Return(t))
    /\ UNCHANGED <<ownerVars, ledgerVars, schedVars, localVars, callback, stopVars,
                   callVars, retries, aborting, scheduled>>

-----------------------------------------------------------------------------
(* UpgradeTerminalShutdownToAbort, called by the libuv backend after a     *)
(* graceful handoff when a fatal condition follows.                        *)

\* First critical section; its early returns change nothing.
UpgradeReserve ==
    /\ MayUpgrade
    /\ pc["relay"] = "idle" /\ calls < env.calls /\ first = "Graceful"
    /\ terminalPhase = "ShutdownSubmitted"
    /\ ~upgradeApplied /\ ~upgradeReserved
    /\ upgradeReserved' = TRUE
    /\ intent' = "Abort"
    /\ attempt' = attempt + 1
    /\ callAttempt' = [callAttempt EXCEPT !["relay"] = attempt + 1]
    /\ calls' = calls + 1
    /\ Goto("relay", "upDowncall")
    /\ UNCHANGED <<phase, terminalPhase, upgradeApplied, ledgerVars, schedVars,
                   callIntent, callOk, again, callback, stopVars, first, histVars>>

UpgradeDowncall ==
    /\ pc["relay"] = "upDowncall"
    /\ \E ok \in BOOLEAN : callOk' = [callOk EXCEPT !["relay"] = ok]
    /\ Goto("relay", "upSubmit")
    /\ UNCHANGED <<ownerVars, ledgerVars, schedVars, callIntent, callAttempt, again,
                   callback, stopVars, callVars, histVars>>

\* Second critical section; callOk becomes result.Submitted.
UpgradeSubmit ==
    /\ pc["relay"] = "upSubmit"
    /\ upgradeReserved' = FALSE
    /\ LET submitted == callOk["relay"] /\ ~Observed /\ phase # "TerminalPublished"
       IN /\ upgradeApplied' = (upgradeApplied \/ submitted)
          /\ callOk' = [callOk EXCEPT !["relay"] = submitted]
    /\ Goto("relay", "upLedger")
    /\ UNCHANGED <<phase, terminalPhase, attempt, intent, ledgerVars, schedVars,
                   callIntent, callAttempt, again, callback, stopVars, callVars,
                   histVars>>

\* The ledger's critical section: a submitted upgrade escalates at once.
UpgradeLedger ==
    /\ pc["relay"] = "upLedger"
    /\ ledgerAttempt' = callAttempt["relay"]
    /\ LET live == callOk["relay"] /\ ledgerPhase # "TerminalObserved"
           mark == live /\ HasEscalation /\ ~escalated
       IN /\ ledgerPhase' = IF live THEN "ShutdownSubmitted" ELSE ledgerPhase
          /\ escalated' = (escalated \/ mark)
          /\ watchdog' = IF mark THEN "Escalated" ELSE watchdog
          /\ Goto("relay", IF mark THEN "upRequest" ELSE "idle")
    /\ UNCHANGED <<ownerVars, accounted, schedVars, localVars, callback, stopVars,
                   callVars, histVars>>

UpgradeRequest ==
    /\ pc["relay"] = "upRequest"
    /\ requests' = requests + 1
    /\ Goto("relay", "idle")
    /\ UNCHANGED <<ownerVars, ledgerVars, schedVars, localVars, callback, stopVars,
                   callVars, retries, aborting, scheduled>>

-----------------------------------------------------------------------------
(* The scheduler's worker thread.                                          *)

\* A task of kind k can be taken off the queue.
TaskDueUnchecked(k) == pc["worker"] = "idle"
TaskDue(k) == pc["worker"] = "idle" /\ tasks[k] > 0

\* The loop takes a due task off the queue and leaves the lock.
WorkerTake(k) ==
    /\ workerRunning /\ lifecycle # "Stopping"
    /\ TaskDue(k)
    /\ tasks' = [tasks EXCEPT ![k] = @ - 1]
    /\ Goto("worker", CASE k = "Retry" -> "retryCheck"
                        [] k = "Watchdog" -> "escalate"
                        [] k = "Timeout" -> "timeout")
    /\ UNCHANGED <<ownerVars, ledgerVars, lifecycle, workerRunning, restartRequested,
                   indexed, timeoutPending, localVars, callback, stopVars, callVars,
                   histVars>>

\* ExecuteTask(Retry): RetryAllowed under the ledger lock.
RetryCheck ==
    /\ pc["worker"] = "retryCheck"
    /\ Goto("worker", IF RetryAllowed THEN "retryRead" ELSE "cleanup")
    /\ UNCHANGED <<ownerVars, ledgerVars, schedVars, localVars, callback, stopVars,
                   callVars, histVars>>

\* task.Owner.lock() and RetryTerminalShutdown, which copies the shutdown's
\* parameters and calls Begin.  An owner whose retention has been released
\* (start failed, terminal published) may be gone.
RetryRead ==
    /\ pc["worker"] = "retryRead"
    /\ \/ /\ callIntent' = [callIntent EXCEPT !["worker"] = intent]
          /\ Goto("worker", "begin")
       \/ /\ phase \in {"StartFailed", "TerminalPublished"}
          /\ Goto("worker", "cleanup")
          /\ UNCHANGED callIntent
    /\ UNCHANGED <<ownerVars, ledgerVars, schedVars, callAttempt, callOk, again,
                   callback, stopVars, callVars, histVars>>

\* MarkTimedOut's test of the ledger.
TimeoutAppliesArmed == watchdog = "Armed"
TimeoutApplies == watchdog = "Escalated"

\* ExecuteTask(Timeout): MarkTimedOut and the pending counter.
TimeoutExpire ==
    /\ pc["worker"] = "timeout"
    /\ watchdog' = IF TimeoutApplies THEN "TerminalTimeout" ELSE watchdog
    /\ timeoutPending' = Decrement(1)
    /\ Goto("worker", "cleanup")
    /\ UNCHANGED <<ownerVars, ledgerPhase, ledgerAttempt, escalated, accounted,
                   lifecycle, workerRunning, restartRequested, tasks, indexed,
                   localVars, callback, stopVars, callVars, histVars>>

\* CleanupIndexLocked at the end of ExecuteTask.
WorkerCleanup ==
    /\ pc["worker"] = "cleanup"
    /\ indexed' = (indexed /\ HasTasks(tasks))
    /\ Goto("worker", "idle")
    /\ UNCHANGED <<ownerVars, ledgerVars, lifecycle, workerRunning, restartRequested,
                   tasks, timeoutPending, localVars, callback, stopVars, callVars,
                   histVars>>

\* The loop sees the Stopping flag and the thread ends.
WorkerExit ==
    /\ workerRunning /\ lifecycle = "Stopping" /\ pc["worker"] = "idle"
    /\ workerRunning' = FALSE
    /\ UNCHANGED <<ownerVars, ledgerVars, lifecycle, restartRequested, tasks, indexed,
                   timeoutPending, pc, localVars, callback, stopVars, callVars,
                   histVars>>

-----------------------------------------------------------------------------
(* SHUTDOWN_COMPLETE on the callback thread.                               *)

\* TqTerminalLedger::RecordEvent(ShutdownComplete).
RecordShutdownComplete ==
    /\ ledgerPhase' = "TerminalObserved"
    /\ watchdog' = IF watchdog \in {"Armed", "Escalated"} THEN "Canceled" ELSE watchdog

\* PublishTerminalAndTakeTarget, its critical section.  MsQuic may deliver the
\* event at any time: the peer or the connection can end the stream too.
PublishTerminal ==
    /\ callback = "none" /\ phase \in {"Starting", "Started"}
    /\ terminalPhase' = "TerminalObserved"
    /\ phase' = "TerminalPublished"
    /\ RecordShutdownComplete
    /\ callback' = "find"
    /\ UNCHANGED <<attempt, intent, upgradeReserved, upgradeApplied, ledgerAttempt,
                   escalated, accounted, schedVars, pc, localVars, stopVars,
                   callVars, histVars>>

\* TqTerminalScheduler::Cancel: look the ledger up under the scheduler lock,
CancelFind ==
    /\ callback = "find"
    /\ callback' = IF indexed THEN "cancel" ELSE "erase"
    /\ UNCHANGED <<ownerVars, ledgerVars, schedVars, pc, localVars, stopVars,
                   callVars, histVars>>

\* cancel its watchdog under the ledger lock,
CancelLedger ==
    /\ callback = "cancel"
    /\ watchdog' = IF watchdog = "TerminalTimeout" THEN watchdog ELSE "Canceled"
    /\ callback' = "erase"
    /\ UNCHANGED <<ownerVars, ledgerPhase, ledgerAttempt, escalated, accounted,
                   schedVars, pc, localVars, stopVars, callVars, histVars>>

\* and erase the stream's tasks under the scheduler lock.
CancelErase ==
    /\ callback = "erase"
    /\ timeoutPending' = Decrement(ErasedTimeouts)
    /\ tasks' = NoTasks /\ indexed' = FALSE
    /\ callback' = "deliver"
    /\ UNCHANGED <<ownerVars, ledgerVars, lifecycle, workerRunning, restartRequested,
                   pc, localVars, stopVars, callVars, histVars>>

\* Dispatch delivers the event to the target taken: once a shutdown has been
\* reserved that is the terminal sink (CompleteTerminalOnce).
DeliverTerminal ==
    /\ callback = "deliver"
    /\ callback' = "done"
    /\ IF attempt > 0
       THEN /\ RecordShutdownComplete
            /\ accounted' = TRUE
       ELSE UNCHANGED <<ledgerPhase, watchdog, accounted>>
    /\ UNCHANGED <<ownerVars, ledgerAttempt, escalated, schedVars, pc, localVars,
                   stopVars, callVars, histVars>>

-----------------------------------------------------------------------------
(* TqTerminalScheduler::Start and Stop.                                    *)

\* StartWorkerWithLifecycleLocked; a thread that cannot be created leaves the
\* scheduler Ready.
StartWorker ==
    \/ lifecycle' = "Running" /\ workerRunning' = TRUE
    \/ /\ env.allocFails /\ ~workerRunning
       /\ lifecycle' = "Ready" /\ UNCHANGED workerRunning

Start ==
    /\ starts < env.starts
    /\ starts' = starts + 1
    /\ IF lifecycle = "Stopping"
       THEN restartRequested' = TRUE /\ UNCHANGED <<lifecycle, workerRunning>>
       ELSE StartWorker /\ UNCHANGED restartRequested
    /\ UNCHANGED <<ownerVars, ledgerVars, tasks, indexed, timeoutPending, pc, localVars,
                   callback, stopper, stopTimeouts, stopIndexed, stops, callVars,
                   histVars>>

\* Timeout tasks among those Stop takes, and what it leaves in the watchdog of
\* a ledger it found in the index.
TakenTimeouts == tasks["Timeout"]
StoppedWatchdog == IF stopIndexed /\ watchdog # "TerminalTimeout" THEN "Canceled"
                   ELSE watchdog

\* Stop, first critical section: every task and the ledger index are taken.
StopTake ==
    /\ stopper = "idle" /\ stops < env.stops
    /\ lifecycle \in {"Ready", "Running"}
    /\ stops' = stops + 1
    /\ lifecycle' = "Stopping" /\ restartRequested' = FALSE
    /\ stopTimeouts' = TakenTimeouts /\ tasks' = NoTasks
    /\ stopIndexed' = indexed /\ indexed' = FALSE
    /\ stopper' = "cancel"
    /\ UNCHANGED <<ownerVars, ledgerVars, workerRunning, timeoutPending, pc, localVars,
                   callback, starts, callVars, histVars>>

\* Outside the lock: account for the dropped Timeouts, cancel the watchdogs.
StopCancel ==
    /\ stopper = "cancel"
    /\ timeoutPending' = Decrement(stopTimeouts)
    /\ stopTimeouts' = 0
    /\ watchdog' = StoppedWatchdog
    /\ stopper' = "join"
    /\ UNCHANGED <<ownerVars, ledgerPhase, ledgerAttempt, escalated, accounted,
                   lifecycle, workerRunning, restartRequested, tasks, indexed, pc,
                   localVars, callback, stopIndexed, stops, starts, callVars, histVars>>

\* The worker joined, last critical section: restart when a Timeout or a
\* Start arrived meanwhile.
MustRestartNever == FALSE
MustRestart == restartRequested \/ HasTasks(tasks)

StopFinish ==
    /\ stopper = "join" /\ ~workerRunning
    /\ IF MustRestart
       THEN StartWorker
       ELSE lifecycle' = "Stopped" /\ UNCHANGED workerRunning
    /\ restartRequested' = FALSE
    /\ stopper' = "idle"
    /\ UNCHANGED <<ownerVars, ledgerVars, tasks, indexed, timeoutPending, pc, localVars,
                   callback, stopTimeouts, stopIndexed, stops, starts, callVars,
                   histVars>>

-----------------------------------------------------------------------------
BeginStep(t) == \/ BeginDuplicate(t) \/ BeginIllegal(t) \/ BeginReserve(t)
                \/ Downcall(t) \/ BeginSubmit(t) \/ RecordShutdown(t)
                \/ ArmWatchdog(t) \/ ScheduleRetry(t)

EscalateStep(t) == \/ MarkEscalated(t) \/ Request(t) \/ QueueTimeout(t)
                   \/ IllegalEscalate(t) \/ IllegalRequest(t)

UpgradeStep == UpgradeDowncall \/ UpgradeSubmit \/ UpgradeLedger \/ UpgradeRequest

WorkerStep == \/ \E k \in Kinds : WorkerTake(k)
              \/ RetryCheck \/ RetryRead \/ TimeoutExpire \/ WorkerCleanup
              \/ WorkerExit

CallbackStep == CancelFind \/ CancelLedger \/ CancelErase \/ DeliverTerminal

StopStep == StopCancel \/ StopFinish

Step ==
    \/ \E i \in Intents : CallBegin(i)
    \/ \E t \in Threads : BeginStep(t) \/ EscalateStep(t)
    \/ UpgradeReserve \/ UpgradeStep
    \/ WorkerStep
    \/ StartComplete \/ PublishTerminal \/ CallbackStep
    \/ Start \/ StopTake \/ StopStep

Next == Step /\ UNCHANGED env

Spec == Init /\ [][Next]_vars

\* Threads that hold the CPU go on; the scheduler's thread wakes for a due
\* task.  Nothing obliges MsQuic to deliver an event or a caller to call.
Fairness ==
    /\ \A t \in Threads : WF_stateVars(BeginStep(t) \/ EscalateStep(t))
    /\ WF_stateVars(UpgradeStep)
    /\ WF_stateVars(\E k \in Kinds : WorkerTake(k))
    /\ WF_stateVars(RetryCheck \/ RetryRead \/ TimeoutExpire \/ WorkerCleanup \/ WorkerExit)
    /\ WF_stateVars(CallbackStep)
    /\ WF_stateVars(StopStep)

FairSpec == Spec /\ Fairness
-----------------------------------------------------------------------------
(* Properties.                                                             *)

\* Type invariant: every field holds a value of its enumeration or counter.
FlagsOK ==
    /\ upgradeReserved \in BOOLEAN /\ upgradeApplied \in BOOLEAN
    /\ escalated \in BOOLEAN /\ accounted \in BOOLEAN
    /\ workerRunning \in BOOLEAN /\ restartRequested \in BOOLEAN
    /\ indexed \in BOOLEAN /\ stopIndexed \in BOOLEAN
    /\ aborting \in BOOLEAN /\ scheduled \in BOOLEAN

FieldsOK ==
    /\ phase \in Phases /\ terminalPhase \in TerminalPhases
    /\ attempt \in Nat /\ intent \in Intents
    /\ ledgerPhase \in TerminalPhases /\ ledgerAttempt \in Nat
    /\ watchdog \in WatchdogStates
    /\ lifecycle \in Lifecycles
    /\ tasks \in [Kinds -> Nat] /\ timeoutPending \in Nat
    /\ pc \in [Threads -> Pcs] /\ callIntent \in [Threads -> Intents]
    /\ callAttempt \in [Threads -> Nat] /\ callOk \in [Threads -> BOOLEAN]
    /\ again \in [Threads -> BOOLEAN]
    /\ callback \in {"none", "find", "cancel", "erase", "deliver", "done"}
    /\ stopper \in {"idle", "cancel", "join"} /\ stopTimeouts \in Nat
    /\ calls \in Nat /\ stops \in Nat /\ starts \in Nat
    /\ first \in Intents \union {"None"}
    /\ requests \in Nat /\ retries \in Nat

TypeOK == FieldsOK /\ FlagsOK

\* A fatal shutdown is never abandoned: while an abort-both shutdown has been
\* reserved on a live stream and SHUTDOWN_COMPLETE has not been seen, a thread
\* is working on it, a Retry or Watchdog task is queued, the connection has
\* been escalated, or Stop() has cancelled the stream's supervision
\* (BeginTerminalShutdown, ScheduleRetry, ArmWatchdog, ExecuteTask).
Supervised ==
    aborting /\ phase \in {"Starting", "Started"} =>
        \/ \E t \in Threads :
              pc[t] \in {"downcall", "submit", "record", "schedule", "escalate"}
        \/ pc["worker"] \in {"retryCheck", "retryRead", "begin"}
        \/ tasks["Retry"] > 0 \/ tasks["Watchdog"] > 0
        \/ escalated
        \/ watchdog = "Canceled" \/ (stopper = "cancel" /\ stopIndexed)

\* Why Supervised holds, as an inductive invariant.  Only an abort call enters
\* the scheduler, so the graceful path never carries the supervision; at most
\* one thread is between the reservation and its result; and what carries the
\* supervision is determined by the owner's terminal phase.
InCall(t) == pc[t] \in {"downcall", "submit"}
Live == phase \in {"Starting", "Started"}
Unsupervised == /\ aborting /\ Live /\ ~escalated /\ watchdog # "Canceled"
                /\ ~(stopper = "cancel" /\ stopIndexed)
Carried ==
    /\ terminalPhase = "ShutdownReserved" => \E t \in Threads : InCall(t)
    /\ terminalPhase = "ShutdownSubmitted" =>
          \/ \E t \in Threads : \/ pc[t] \in {"record", "schedule"} /\ callOk[t]
                               \/ pc[t] = "escalate"
          \/ tasks["Watchdog"] > 0
    /\ terminalPhase = "Active" =>
          \/ \E t \in Threads : pc[t] \in {"record", "schedule", "escalate"}
          \/ pc["worker"] \in {"retryCheck", "retryRead", "begin"}
          \/ tasks["Retry"] > 0 \/ tasks["Watchdog"] > 0

TerminalFacts ==
    /\ Observed <=> phase = "TerminalPublished"
    /\ ledgerPhase = "TerminalObserved" <=> Observed
    /\ callback # "none" => Observed
    /\ \A t \in Threads : InCall(t) /\ ~Observed => terminalPhase = "ShutdownReserved"

SupervisionInv ==
    /\ TerminalFacts
    /\ watchdog \in {"Escalated", "TerminalTimeout"} => escalated
    /\ \A t \in Threads :
          /\ pc[t] \in {"request", "queueTimeout"} => escalated
          /\ pc[t] = "schedule" => callIntent[t] = "Abort"
          /\ /\ pc[t] \in BeginPcs \ {"begin"} /\ callIntent[t] = "Abort"
             => aborting
    /\ InCall("relay") /\ InCall("worker") => Observed
    /\ HasTasks(tasks) => indexed
    /\ aborting => first # "None" /\ intent = "Abort"
    /\ pc["relay"] # "idle" => first # "None"
    /\ pc["relay"] \in BeginPcs /\ callIntent["relay"] = "Graceful" => ~aborting
    /\ pc["worker"] \in {"retryCheck", "retryRead"} \union BeginPcs => aborting
    /\ pc["worker"] \in BeginPcs => callIntent["worker"] = "Abort"
    /\ tasks["Retry"] > 0 => aborting
    /\ Unsupervised => Carried

\* The connection's owner is asked to shut the connection down at most once
\* for a stream, whichever of the watchdog, a failed retry, an illegal phase
\* and an abort upgrade gets there (MarkEscalated and its two inlined copies).
EscalatedOnce == requests <= 1

\* A refused shutdown is retried at most three times, however the attempts of
\* the relay thread and of the scheduler interleave (ScheduleRetry).
RetriesBounded == retries <= 3

\* Once SHUTDOWN_COMPLETE has been published and Cancel() has erased the
\* stream's tasks, no Retry and no Watchdog task can be queued again and no
\* retry can reach MsQuic (RetryAndEnqueue, ArmAndEnqueue, Cancel).
QuietAfterTerminal ==
    callback \in {"deliver", "done"} => tasks["Retry"] = 0 /\ tasks["Watchdog"] = 0

\* The terminal_timeout_pending counter is the number of Timeout tasks that
\* are queued, executing, or dropped by a Stop() still accounting for them.
TimeoutsCounted ==
    timeoutPending = tasks["Timeout"] + stopTimeouts
                       + (IF pc["worker"] = "timeout" THEN 1 ELSE 0)

\* No task waits in a queue nobody serves: a Timeout that reaches the queue
\* while Stop() joins the worker makes Stop() start a new one.
QueueServed == HasTasks(tasks) => workerRunning \/ lifecycle = "Stopping"

\* As long as no allocation and no std::thread fails, the scheduler's books are
\* right however often it is stopped and started in the middle of a shutdown:
\* the timeout counter is exact and every queued task has a worker (QueueTimeout,
\* Stop, Erase, TakeAll).
SchedulerConsistent == ~env.allocFails => TimeoutsCounted /\ QueueServed

\* The owner and the ledger agree on the terminal fact at every instant: a
\* late RecordShutdown of an older attempt never hides SHUTDOWN_COMPLETE.
LedgerFollowsOwner == ledgerPhase = "TerminalObserved" <=> Observed

\* What no step may do: leave the observed terminal state, escalate the
\* connection of a stream whose terminal event has been recorded, or go back
\* to an older attempt in the ledger (RecordShutdown, MarkEscalated).
TerminalIsFinal ==
    [][ /\ Observed => Observed' /\ ledgerPhase' = "TerminalObserved"
        /\ escalated' /\ ~escalated => ledgerPhase # "TerminalObserved"
        /\ ledgerAttempt' >= ledgerAttempt ]_vars

\* An abort-both shutdown reaches SHUTDOWN_COMPLETE or escalates to the
\* connection, whatever MsQuic answers and however allocations fail, unless
\* the scheduler is stopped (Stop() drops the tasks that supervise it).
AbortConverges ==
    aborting ~> (phase \notin {"Starting", "Started"} \/ escalated \/ stops > 0)

\* Any escalated stream, the design says, is completed by MsQuic or marked
\* terminal_timeout after 30 seconds.  UpgradeTerminalShutdownToAbort escalates
\* without queueing the Timeout task.
EscalationTimesOut == escalated ~> (Observed \/ watchdog = "TerminalTimeout")

\* A stream escalated by the scheduler is completed by MsQuic or marked
\* terminal_timeout, unless a Stop() or a failed allocation drops its Timeout
\* task (Escalate, QueueTimeout, MarkTimedOut).
ScheduledEscalationTimesOut ==
    scheduled /\ ~env.allocFails ~> (Observed \/ watchdog = "TerminalTimeout" \/ stops > 0)
=============================================================================

---------------------- MODULE TerminalConvergenceProofs ----------------------
(***************************************************************************)
(* Proofs about TerminalConvergence for every value of its bounds.         *)
(***************************************************************************)
EXTENDS TerminalConvergence, TLAPS

\* Every step keeps every field in its enumeration.
LEMMA FieldsStep == FieldsOK /\ [Next]_vars => FieldsOK'
<1> SUFFICES ASSUME FieldsOK, [Next]_vars PROVE FieldsOK'
    OBVIOUS
<1> USE DEF FieldsOK, Phases, TerminalPhases, WatchdogStates, Lifecycles, Intents,
            Threads, Kinds, Pcs, BeginPcs, EscalatePcs, IllegalPcs, UpgradePcs,
            TaskPcs, Goto, Return, ownerVars, ledgerVars, schedVars, localVars,
            stopVars, callVars, histVars
<1>1. ASSUME NEW i \in Intents, CallBegin(i) PROVE FieldsOK'
    BY <1>1 DEF CallBegin
<1>2. ASSUME NEW t \in Threads, BeginDuplicate(t) PROVE FieldsOK'
    BY <1>2 DEF BeginDuplicate
<1>3. ASSUME NEW t \in Threads, BeginIllegal(t) PROVE FieldsOK'
    BY <1>3 DEF BeginIllegal
<1>4. ASSUME NEW t \in Threads, BeginReserve(t) PROVE FieldsOK'
    BY <1>4 DEF BeginReserve
<1>5. ASSUME NEW t \in Threads, Downcall(t) PROVE FieldsOK'
    BY <1>5 DEF Downcall
<1>6. ASSUME NEW t \in Threads, BeginSubmit(t) PROVE FieldsOK'
    BY <1>6 DEF BeginSubmit, TerminalWins, Observed
<1>7. ASSUME NEW t \in Threads, RecordShutdown(t) PROVE FieldsOK'
    BY <1>7 DEF RecordShutdown, RecordedPhase
<1>8. ASSUME NEW t \in Threads, ArmWatchdog(t) PROVE FieldsOK'
    BY <1>8 DEF ArmWatchdog, Enqueue, Refuse, Unqueued, NoTasks
<1>9. ASSUME NEW t \in Threads, ScheduleRetry(t) PROVE FieldsOK'
  <2>1. CASE RetryExhausted(t)
    <3>1. again' = [again EXCEPT ![t] = TRUE]
        BY <1>9, <2>1, Zenon DEF ScheduleRetry
    <3>2. again' \in [Threads -> BOOLEAN]
        BY <3>1
    <3> QED
        BY <1>9, <2>1, <3>2 DEF ScheduleRetry
  <2>2. CASE ~RetryExhausted(t)
    BY <1>9, <2>2 DEF ScheduleRetry, Enqueue, Refuse, Unqueued, NoTasks
  <2> QED
    BY <2>1, <2>2
<1>10. ASSUME NEW t \in Threads, MarkEscalated(t) PROVE FieldsOK'
  <2>1. CASE MayEscalate
    BY <1>10, <2>1 DEF MarkEscalated
  <2>2. CASE ~MayEscalate
    <3>1. again' = [again EXCEPT ![t] = FALSE]
        BY <1>10, <2>2, Zenon DEF MarkEscalated
    <3>2. again' \in [Threads -> BOOLEAN]
        BY <3>1
    <3> QED
        BY <1>10, <2>2, <3>2 DEF MarkEscalated, AfterEscalate
  <2> QED
    BY <2>1, <2>2
<1>11. ASSUME NEW t \in Threads, Request(t) PROVE FieldsOK'
    BY <1>11 DEF Request
<1>12. ASSUME NEW t \in Threads, QueueTimeout(t) PROVE FieldsOK'
    BY <1>12 DEF QueueTimeout, AfterEscalate, NoTasks
<1>13. ASSUME NEW t \in Threads, IllegalEscalate(t) PROVE FieldsOK'
    BY <1>13 DEF IllegalEscalate
<1>14. ASSUME NEW t \in Threads, IllegalRequest(t) PROVE FieldsOK'
    BY <1>14 DEF IllegalRequest
<1>15. ASSUME NEW k \in Kinds, WorkerTake(k) PROVE FieldsOK'
    BY <1>15 DEF WorkerTake, TaskDue
<1>16. CASE UpgradeReserve
    BY <1>16 DEF UpgradeReserve
<1>17. CASE UpgradeDowncall
    BY <1>17 DEF UpgradeDowncall
<1>18. CASE UpgradeSubmit
    BY <1>18 DEF UpgradeSubmit, Observed
<1>19. CASE UpgradeLedger
    BY <1>19 DEF UpgradeLedger
<1>20. CASE UpgradeRequest
    BY <1>20 DEF UpgradeRequest
<1>21. CASE RetryCheck
    BY <1>21 DEF RetryCheck, RetryAllowed
<1>22. CASE RetryRead
    BY <1>22 DEF RetryRead
<1>23. CASE TimeoutExpire
    BY <1>23 DEF TimeoutExpire, TimeoutApplies, Decrement
<1>24. CASE WorkerCleanup
    BY <1>24 DEF WorkerCleanup, HasTasks
<1>25. CASE WorkerExit
    BY <1>25 DEF WorkerExit
<1>26. CASE StartComplete
    BY <1>26 DEF StartComplete
<1>27. CASE PublishTerminal
    BY <1>27 DEF PublishTerminal, RecordShutdownComplete
<1>28. CASE CancelFind
    BY <1>28 DEF CancelFind
<1>29. CASE CancelLedger
    BY <1>29 DEF CancelLedger
<1>30. CASE CancelErase
    BY <1>30 DEF CancelErase, ErasedTimeouts, Decrement, NoTasks
<1>31. CASE DeliverTerminal
    BY <1>31 DEF DeliverTerminal, RecordShutdownComplete
<1>32. CASE Start
    BY <1>32 DEF Start, StartWorker
<1>33. CASE StopTake
    BY <1>33 DEF StopTake, TakenTimeouts, NoTasks
<1>34. CASE StopCancel
    BY <1>34 DEF StopCancel, StoppedWatchdog, Decrement
<1>35. CASE StopFinish
    BY <1>35 DEF StopFinish, StartWorker, MustRestart
<1>36. CASE UNCHANGED vars
    BY <1>36 DEF vars, stateVars
<1> QED
    BY Zenon, <1>1, <1>2, <1>3, <1>4, <1>5, <1>6, <1>7, <1>8, <1>9, <1>10, <1>11, <1>12, <1>13, <1>14, <1>15, <1>16, <1>17, <1>18, <1>19, <1>20, <1>21, <1>22, <1>23, <1>24, <1>25, <1>26, <1>27, <1>28, <1>29, <1>30, <1>31, <1>32, <1>33, <1>34, <1>35, <1>36
       DEF Next, Step, BeginStep, EscalateStep, UpgradeStep, WorkerStep, CallbackStep, StopStep

\* Every step keeps every flag a Boolean.
LEMMA FlagsStep == FlagsOK /\ [Next]_vars => FlagsOK'
<1> SUFFICES ASSUME FlagsOK, [Next]_vars PROVE FlagsOK'
    OBVIOUS
<1> USE DEF FlagsOK, ownerVars, ledgerVars, schedVars, localVars, stopVars,
            callVars, histVars
<1>1. ASSUME NEW i \in Intents, CallBegin(i) PROVE FlagsOK'
    BY Zenon, <1>1 DEF CallBegin
<1>2. ASSUME NEW t \in Threads, BeginDuplicate(t) PROVE FlagsOK'
    BY Zenon, <1>2 DEF BeginDuplicate
<1>3. ASSUME NEW t \in Threads, BeginIllegal(t) PROVE FlagsOK'
    BY Zenon, <1>3 DEF BeginIllegal
<1>4. ASSUME NEW t \in Threads, BeginReserve(t) PROVE FlagsOK'
    BY Zenon, <1>4 DEF BeginReserve
<1>5. ASSUME NEW t \in Threads, Downcall(t) PROVE FlagsOK'
    BY Zenon, <1>5 DEF Downcall
<1>6. ASSUME NEW t \in Threads, BeginSubmit(t) PROVE FlagsOK'
    BY Zenon, <1>6 DEF BeginSubmit, TerminalWins, Observed
<1>7. ASSUME NEW t \in Threads, RecordShutdown(t) PROVE FlagsOK'
    BY Zenon, <1>7 DEF RecordShutdown, RecordedPhase
<1>8. ASSUME NEW t \in Threads, ArmWatchdog(t) PROVE FlagsOK'
    BY Zenon, <1>8 DEF ArmWatchdog, Enqueue, Refuse, Unqueued, NoTasks
<1>9. ASSUME NEW t \in Threads, ScheduleRetry(t) PROVE FlagsOK'
    BY Zenon, <1>9 DEF ScheduleRetry, RetryExhausted, RetryAllowed, Enqueue, Refuse, Unqueued, NoTasks
<1>10. ASSUME NEW t \in Threads, MarkEscalated(t) PROVE FlagsOK'
    BY Zenon, <1>10 DEF MarkEscalated, MayEscalate, AfterEscalate
<1>11. ASSUME NEW t \in Threads, Request(t) PROVE FlagsOK'
    BY Zenon, <1>11 DEF Request
<1>12. ASSUME NEW t \in Threads, QueueTimeout(t) PROVE FlagsOK'
    BY Zenon, <1>12 DEF QueueTimeout, AfterEscalate, NoTasks
<1>13. ASSUME NEW t \in Threads, IllegalEscalate(t) PROVE FlagsOK'
    BY Zenon, <1>13 DEF IllegalEscalate
<1>14. ASSUME NEW t \in Threads, IllegalRequest(t) PROVE FlagsOK'
    BY Zenon, <1>14 DEF IllegalRequest
<1>15. ASSUME NEW k \in Kinds, WorkerTake(k) PROVE FlagsOK'
    BY Zenon, <1>15 DEF WorkerTake, TaskDue
<1>16. CASE UpgradeReserve
    BY Zenon, <1>16 DEF UpgradeReserve
<1>17. CASE UpgradeDowncall
    BY Zenon, <1>17 DEF UpgradeDowncall
<1>18. CASE UpgradeSubmit
    BY Zenon, <1>18 DEF UpgradeSubmit, Observed
<1>19. CASE UpgradeLedger
    BY Zenon, <1>19 DEF UpgradeLedger
<1>20. CASE UpgradeRequest
    BY Zenon, <1>20 DEF UpgradeRequest
<1>21. CASE RetryCheck
    BY Zenon, <1>21 DEF RetryCheck, RetryAllowed
<1>22. CASE RetryRead
    BY Zenon, <1>22 DEF RetryRead
<1>23. CASE TimeoutExpire
    BY Zenon, <1>23 DEF TimeoutExpire, TimeoutApplies, Decrement
<1>24. CASE WorkerCleanup
    BY Zenon, <1>24 DEF WorkerCleanup, HasTasks
<1>25. CASE WorkerExit
    BY Zenon, <1>25 DEF WorkerExit
<1>26. CASE StartComplete
    BY Zenon, <1>26 DEF StartComplete
<1>27. CASE PublishTerminal
    BY Zenon, <1>27 DEF PublishTerminal, RecordShutdownComplete
<1>28. CASE CancelFind
    BY Zenon, <1>28 DEF CancelFind
<1>29. CASE CancelLedger
    BY Zenon, <1>29 DEF CancelLedger
<1>30. CASE CancelErase
    BY Zenon, <1>30 DEF CancelErase, ErasedTimeouts, Decrement, NoTasks
<1>31. CASE DeliverTerminal
    BY Zenon, <1>31 DEF DeliverTerminal, RecordShutdownComplete
<1>32. CASE Start
    BY Zenon, <1>32 DEF Start, StartWorker
<1>33. CASE StopTake
    BY Zenon, <1>33 DEF StopTake, TakenTimeouts, NoTasks
<1>34. CASE StopCancel
    BY Zenon, <1>34 DEF StopCancel, StoppedWatchdog, Decrement
<1>35. CASE StopFinish
    BY Zenon, <1>35 DEF StopFinish, StartWorker, MustRestart
<1>36. CASE UNCHANGED vars
    BY Zenon, <1>36 DEF vars, stateVars
<1> QED
    BY Zenon, <1>1, <1>2, <1>3, <1>4, <1>5, <1>6, <1>7, <1>8, <1>9, <1>10, <1>11, <1>12, <1>13, <1>14, <1>15, <1>16, <1>17, <1>18, <1>19, <1>20, <1>21, <1>22, <1>23, <1>24, <1>25, <1>26, <1>27, <1>28, <1>29, <1>30, <1>31, <1>32, <1>33, <1>34, <1>35, <1>36
       DEF Next, Step, BeginStep, EscalateStep, UpgradeStep, WorkerStep, CallbackStep, StopStep

\* Type correctness, whatever the bounds.
THEOREM TypeCorrect == Spec => []TypeOK
<1>1. Init => FieldsOK
    BY DEF Init, FieldsOK, Phases, TerminalPhases, WatchdogStates, Lifecycles,
           Intents, Threads, Kinds, Pcs, NoTasks
<1>2. Init => FlagsOK
    BY Zenon DEF Init, FlagsOK
<1> QED
    BY <1>1, <1>2, FieldsStep, FlagsStep, PTL DEF Spec, TypeOK

\* No step abandons a fatal shutdown.
LEMMA SupervisionStep == FieldsOK /\ SupervisionInv /\ [Next]_vars => SupervisionInv'
<1> SUFFICES ASSUME FieldsOK, SupervisionInv, [Next]_vars PROVE SupervisionInv'
    OBVIOUS
<1> USE DEF FieldsOK, SupervisionInv, TerminalFacts, InCall, Live, Unsupervised, Carried,
            Observed,
            HasTasks, Phases, TerminalPhases, WatchdogStates, Lifecycles, Intents,
            Threads, Kinds, Pcs, BeginPcs, EscalatePcs, IllegalPcs, UpgradePcs,
            TaskPcs, Goto, Return, ownerVars, ledgerVars, schedVars, localVars,
            stopVars, callVars, histVars
<1>1. ASSUME NEW i \in Intents, CallBegin(i) PROVE SupervisionInv'
    BY <1>1 DEF CallBegin
<1>2. ASSUME NEW t \in Threads, BeginDuplicate(t) PROVE SupervisionInv'
    BY <1>2 DEF BeginDuplicate
<1>3. ASSUME NEW t \in Threads, BeginIllegal(t) PROVE SupervisionInv'
    BY <1>3, SMTT(30) DEF BeginIllegal
<1>4. ASSUME NEW t \in Threads, BeginReserve(t) PROVE SupervisionInv'
    BY <1>4, ZenonT(60) DEF BeginReserve
<1>5. ASSUME NEW t \in Threads, Downcall(t) PROVE SupervisionInv'
    BY <1>5, SMTT(30) DEF Downcall
<1>6. ASSUME NEW t \in Threads, BeginSubmit(t) PROVE SupervisionInv'
    BY <1>6, SMTT(30) DEF BeginSubmit, TerminalWins
<1>7. ASSUME NEW t \in Threads, RecordShutdown(t) PROVE SupervisionInv'
    BY <1>7, SMTT(30) DEF RecordShutdown, RecordedPhase
<1>8. ASSUME NEW t \in Threads, ArmWatchdog(t) PROVE SupervisionInv'
    BY <1>8, SMTT(30) DEF ArmWatchdog, Enqueue, Refuse, Unqueued, NoTasks
<1>9. ASSUME NEW t \in Threads, ScheduleRetry(t) PROVE SupervisionInv'
    BY <1>9, SMTT(30) DEF ScheduleRetry, RetryAllowed, Enqueue, Refuse, Unqueued, NoTasks
<1>10. ASSUME NEW t \in Threads, MarkEscalated(t) PROVE SupervisionInv'
    BY <1>10, SMTT(30) DEF MarkEscalated, MayEscalate, AfterEscalate
<1>11. ASSUME NEW t \in Threads, Request(t) PROVE SupervisionInv'
    BY <1>11, SMTT(30) DEF Request
<1>12. ASSUME NEW t \in Threads, QueueTimeout(t) PROVE SupervisionInv'
    BY <1>12, SMTT(30) DEF QueueTimeout, AfterEscalate, NoTasks
<1>13. ASSUME NEW t \in Threads, IllegalEscalate(t) PROVE SupervisionInv'
    BY <1>13, SMTT(30) DEF IllegalEscalate
<1>14. ASSUME NEW t \in Threads, IllegalRequest(t) PROVE SupervisionInv'
    BY <1>14, SMTT(30) DEF IllegalRequest
<1>15. ASSUME NEW k \in Kinds, WorkerTake(k) PROVE SupervisionInv'
    BY <1>15, SMTT(30) DEF WorkerTake, TaskDue
<1>16. CASE UpgradeReserve
    BY <1>16, SMTT(30) DEF UpgradeReserve
<1>17. CASE UpgradeDowncall
    BY <1>17, SMTT(30) DEF UpgradeDowncall
<1>18. CASE UpgradeSubmit
    BY <1>18, SMTT(30) DEF UpgradeSubmit
<1>19. CASE UpgradeLedger
  <2> DEFINE live == callOk["relay"] /\ ledgerPhase # "TerminalObserved"
             mark == live /\ HasEscalation /\ ~escalated
  <2>1. CASE mark
    <3>1. escalated' /\ watchdog' = "Escalated" /\ ledgerPhase' = "ShutdownSubmitted"
        BY <1>19, <2>1 DEF UpgradeLedger
    <3>2. pc' = [pc EXCEPT !["relay"] = "upRequest"]
        BY <1>19, <2>1 DEF UpgradeLedger
    <3> QED
        BY <1>19, <2>1, <3>1, <3>2 DEF UpgradeLedger
  <2>2. CASE ~mark
    <3>1. (escalated' <=> escalated) /\ watchdog' = watchdog
        BY <1>19, <2>2, Zenon DEF UpgradeLedger
    <3>2. ledgerPhase' = "TerminalObserved" <=> ledgerPhase = "TerminalObserved"
        BY <1>19, <2>2 DEF UpgradeLedger
    <3>3. pc' = [pc EXCEPT !["relay"] = "idle"]
        BY <1>19, <2>2, Zenon DEF UpgradeLedger
    <3> HIDE DEF mark
    <3> QED
        BY <1>19, <3>1, <3>2, <3>3 DEF UpgradeLedger
  <2> QED
    BY <2>1, <2>2
<1>20. CASE UpgradeRequest
    BY <1>20, SMTT(30) DEF UpgradeRequest
<1>21. CASE RetryCheck
    BY <1>21, SMTT(30) DEF RetryCheck, RetryAllowed
<1>22. CASE RetryRead
    BY <1>22, SMTT(30) DEF RetryRead
<1>23. CASE TimeoutExpire
    BY <1>23, SMTT(30) DEF TimeoutExpire, TimeoutApplies
<1>24. CASE WorkerCleanup
    BY <1>24, ZenonT(60) DEF WorkerCleanup
<1>25. CASE WorkerExit
    BY <1>25 DEF WorkerExit
<1>26. CASE StartComplete
    BY <1>26, SMTT(30) DEF StartComplete
<1>27. CASE PublishTerminal
    BY <1>27, SMTT(30) DEF PublishTerminal, RecordShutdownComplete
<1>28. CASE CancelFind
    BY <1>28, SMTT(30) DEF CancelFind
<1>29. CASE CancelLedger
    BY <1>29, SMTT(30) DEF CancelLedger
<1>30. CASE CancelErase
    BY <1>30, SMTT(30) DEF CancelErase, NoTasks
<1>31. CASE DeliverTerminal
    BY <1>31, SMTT(30) DEF DeliverTerminal, RecordShutdownComplete
<1>32. CASE Start
    BY <1>32, SMTT(30) DEF Start, StartWorker
<1>33. CASE StopTake
    BY <1>33, SMTT(30) DEF StopTake, NoTasks
<1>34. CASE StopCancel
    BY <1>34, SMTT(30) DEF StopCancel, StoppedWatchdog
<1>35. CASE StopFinish
    BY <1>35, SMTT(30) DEF StopFinish, StartWorker
<1>36. CASE UNCHANGED vars
    BY <1>36, SMTT(30) DEF vars, stateVars
<1> QED
    BY Zenon, <1>1, <1>2, <1>3, <1>4, <1>5, <1>6, <1>7, <1>8, <1>9, <1>10, <1>11, <1>12, <1>13, <1>14, <1>15, <1>16, <1>17, <1>18, <1>19, <1>20, <1>21, <1>22, <1>23, <1>24, <1>25, <1>26, <1>27, <1>28, <1>29, <1>30, <1>31, <1>32, <1>33, <1>34, <1>35, <1>36
       DEF Next, Step, BeginStep, EscalateStep, UpgradeStep, WorkerStep, CallbackStep, StopStep

\* The strengthened invariant, whatever the bounds.
LEMMA SupervisionHolds == Spec => []SupervisionInv
<1>1. Init => SupervisionInv
    BY DEF Init, SupervisionInv, TerminalFacts, InCall, Live, Unsupervised, Carried,
           Observed,
           HasTasks, Threads, Kinds, BeginPcs, NoTasks
<1> QED
    BY <1>1, TypeCorrect, SupervisionStep, PTL DEF Spec, TypeOK

\* A fatal shutdown is never abandoned.
THEOREM NeverAbandoned == Spec => []Supervised
<1>1. TypeOK /\ SupervisionInv => Supervised
    BY DEF TypeOK, FieldsOK, SupervisionInv, TerminalFacts, Supervised, InCall, Live, Unsupervised,
           Carried, Observed, Threads, TerminalPhases, Phases
<1> QED
    BY <1>1, TypeCorrect, SupervisionHolds, PTL

-----------------------------------------------------------------------------
\* A thread that has marked the ledger and is about to ask for the shutdown of
\* the connection; requests made and requests to come are bounded by the mark.
Asking(t) == IF pc[t] \in {"request", "illegalRequest", "upRequest"} THEN 1 ELSE 0
EscalationInv ==
    requests + Asking("relay") + Asking("worker") <= (IF escalated THEN 1 ELSE 0)

\* The ledger's mark is the licence for one request, and no step renews it.
LEMMA EscalationStep ==
    ASSUME requests \in Nat, pc \in [Threads -> Pcs], EscalationInv,
           [Next]_vars
    PROVE  EscalationInv'
<1> USE DEF EscalationInv, Asking, Threads, Goto, Return, ownerVars, ledgerVars, schedVars,
            localVars, stopVars, callVars, histVars
<1>1. ASSUME NEW i \in Intents, CallBegin(i) PROVE EscalationInv'
    BY <1>1, SMTT(30) DEF CallBegin
<1>2. ASSUME NEW t \in Threads, BeginDuplicate(t) PROVE EscalationInv'
    BY <1>2, SMTT(30) DEF BeginDuplicate
<1>3. ASSUME NEW t \in Threads, BeginIllegal(t) PROVE EscalationInv'
    BY <1>3, SMTT(30) DEF BeginIllegal
<1>4. ASSUME NEW t \in Threads, BeginReserve(t) PROVE EscalationInv'
    BY <1>4, SMTT(30) DEF BeginReserve
<1>5. ASSUME NEW t \in Threads, Downcall(t) PROVE EscalationInv'
    BY <1>5, SMTT(30) DEF Downcall
<1>6. ASSUME NEW t \in Threads, BeginSubmit(t) PROVE EscalationInv'
    BY <1>6, SMTT(30) DEF BeginSubmit, TerminalWins, Observed
<1>7. ASSUME NEW t \in Threads, RecordShutdown(t) PROVE EscalationInv'
    BY <1>7, SMTT(30) DEF RecordShutdown
<1>8. ASSUME NEW t \in Threads, ArmWatchdog(t) PROVE EscalationInv'
    BY <1>8, SMTT(30) DEF ArmWatchdog, Enqueue, Refuse, Unqueued
<1>9. ASSUME NEW t \in Threads, ScheduleRetry(t) PROVE EscalationInv'
    BY <1>9, SMTT(30) DEF ScheduleRetry, Enqueue, Refuse, Unqueued
<1>10. ASSUME NEW t \in Threads, MarkEscalated(t) PROVE EscalationInv'
    BY <1>10, SMTT(30) DEF MarkEscalated, MayEscalate, AfterEscalate
<1>11. ASSUME NEW t \in Threads, Request(t) PROVE EscalationInv'
    BY <1>11, SMTT(30) DEF Request
<1>12. ASSUME NEW t \in Threads, QueueTimeout(t) PROVE EscalationInv'
    BY <1>12, SMTT(30) DEF QueueTimeout, AfterEscalate
<1>13. ASSUME NEW t \in Threads, IllegalEscalate(t) PROVE EscalationInv'
    BY <1>13, SMTT(30) DEF IllegalEscalate
<1>14. ASSUME NEW t \in Threads, IllegalRequest(t) PROVE EscalationInv'
    BY <1>14, SMTT(30) DEF IllegalRequest
<1>15. ASSUME NEW k \in Kinds, WorkerTake(k) PROVE EscalationInv'
    BY <1>15, SMTT(30) DEF WorkerTake, TaskDue, Kinds
<1>16. CASE UpgradeReserve
    BY <1>16, SMTT(30) DEF UpgradeReserve
<1>17. CASE UpgradeDowncall
    BY <1>17, SMTT(30) DEF UpgradeDowncall
<1>18. CASE UpgradeSubmit
    BY <1>18, SMTT(30) DEF UpgradeSubmit
<1>19. CASE UpgradeLedger
  <2>1. requests' = requests /\ pc["relay"] = "upLedger"
    BY <1>19 DEF UpgradeLedger
  <2>2. CASE pc' = [pc EXCEPT !["relay"] = "upRequest"] /\ ~escalated /\ escalated'
    BY <2>1, <2>2
  <2>3. CASE pc' = [pc EXCEPT !["relay"] = "idle"] /\ (escalated' <=> escalated)
    BY <2>1, <2>3
  <2> QED
    BY <1>19, <2>2, <2>3, Zenon DEF UpgradeLedger
<1>20. CASE UpgradeRequest
    BY <1>20, SMTT(30) DEF UpgradeRequest
<1>21. CASE RetryCheck
    BY <1>21, SMTT(30) DEF RetryCheck
<1>22. CASE RetryRead
    BY <1>22, SMTT(30) DEF RetryRead
<1>23. CASE TimeoutExpire
    BY <1>23, SMTT(30) DEF TimeoutExpire
<1>24. CASE WorkerCleanup
    BY <1>24, SMTT(30) DEF WorkerCleanup
<1>25. CASE WorkerExit
    BY <1>25, SMTT(30) DEF WorkerExit
<1>26. CASE StartComplete
    BY <1>26, SMTT(30) DEF StartComplete
<1>27. CASE PublishTerminal
    BY <1>27, SMTT(30) DEF PublishTerminal
<1>28. CASE CancelFind
    BY <1>28, SMTT(30) DEF CancelFind
<1>29. CASE CancelLedger
    BY <1>29, SMTT(30) DEF CancelLedger
<1>30. CASE CancelErase
    BY <1>30, SMTT(30) DEF CancelErase
<1>31. CASE DeliverTerminal
    BY <1>31, SMTT(30) DEF DeliverTerminal
<1>32. CASE Start
    BY <1>32, SMTT(30) DEF Start
<1>33. CASE StopTake
    BY <1>33, SMTT(30) DEF StopTake
<1>34. CASE StopCancel
    BY <1>34, SMTT(30) DEF StopCancel
<1>35. CASE StopFinish
    BY <1>35, SMTT(30) DEF StopFinish
<1>36. CASE UNCHANGED vars
    BY <1>36, SMTT(30) DEF vars, stateVars
<1> QED
    BY Zenon, <1>1, <1>2, <1>3, <1>4, <1>5, <1>6, <1>7, <1>8, <1>9, <1>10,
       <1>11, <1>12, <1>13, <1>14, <1>15, <1>16, <1>17, <1>18, <1>19, <1>20,
       <1>21, <1>22, <1>23, <1>24, <1>25, <1>26, <1>27, <1>28, <1>29, <1>30,
       <1>31, <1>32, <1>33, <1>34, <1>35, <1>36
       DEF Next, Step, BeginStep, EscalateStep, UpgradeStep, WorkerStep, CallbackStep,
           StopStep

\* The connection's shutdown is requested at most once for a stream.
THEOREM OneEscalation == Spec => []EscalatedOnce
<1>1. Init => EscalationInv
    BY DEF Init, EscalationInv, Asking, Threads
<1>2. TypeOK /\ EscalationInv => EscalatedOnce
    BY DEF TypeOK, FieldsOK, EscalationInv, Asking, EscalatedOnce
<1>3. TypeOK /\ EscalationInv /\ [Next]_vars => EscalationInv'
    BY EscalationStep, Zenon DEF TypeOK, FieldsOK
<1> QED
    BY <1>1, <1>2, <1>3, TypeCorrect, PTL DEF Spec

-----------------------------------------------------------------------------
\* An attempt that is still to be followed by a Retry task: one of the first
\* three, not yet past ScheduleRetry.  Retries queued and retries to come are
\* bounded by the attempts made.
Retryable(t) ==
    IF pc[t] \in BeginPcs \ {"begin"} /\ callAttempt[t] <= 3 THEN 1 ELSE 0
RetryInv ==
    /\ \A t \in Threads : callAttempt[t] <= attempt
    /\ retries + Retryable("relay") + Retryable("worker")
          <= (IF attempt <= 3 THEN attempt ELSE 3)

\* Every Retry task is paid for by one of the first three attempts.
LEMMA RetryStep ==
    ASSUME attempt \in Nat, retries \in Nat, callAttempt \in [Threads -> Nat],
           pc \in [Threads -> Pcs], RetryInv, [Next]_vars
    PROVE  RetryInv'
<1> USE DEF RetryInv, Retryable, BeginPcs, Threads, Goto, Return, ownerVars, ledgerVars, schedVars,
            localVars, stopVars, callVars, histVars
<1>1. ASSUME NEW i \in Intents, CallBegin(i) PROVE RetryInv'
    BY <1>1, SMTT(30) DEF CallBegin
<1>2. ASSUME NEW t \in Threads, BeginDuplicate(t) PROVE RetryInv'
    BY <1>2, SMTT(30) DEF BeginDuplicate
<1>3. ASSUME NEW t \in Threads, BeginIllegal(t) PROVE RetryInv'
    BY <1>3, SMTT(30) DEF BeginIllegal
<1>4. ASSUME NEW t \in Threads, BeginReserve(t) PROVE RetryInv'
    BY <1>4, SMTT(30) DEF BeginReserve
<1>5. ASSUME NEW t \in Threads, Downcall(t) PROVE RetryInv'
    BY <1>5, SMTT(30) DEF Downcall
<1>6. ASSUME NEW t \in Threads, BeginSubmit(t) PROVE RetryInv'
    BY <1>6, SMTT(30) DEF BeginSubmit, TerminalWins, Observed
<1>7. ASSUME NEW t \in Threads, RecordShutdown(t) PROVE RetryInv'
    BY <1>7, SMTT(30) DEF RecordShutdown
<1>8. ASSUME NEW t \in Threads, ArmWatchdog(t) PROVE RetryInv'
    BY <1>8, SMTT(30) DEF ArmWatchdog, Enqueue, Refuse, Unqueued
<1>9. ASSUME NEW t \in Threads, ScheduleRetry(t) PROVE RetryInv'
    BY <1>9, SMTT(30) DEF ScheduleRetry, RetryExhausted, Enqueue, Refuse, Unqueued
<1>10. ASSUME NEW t \in Threads, MarkEscalated(t) PROVE RetryInv'
    BY <1>10, SMTT(30) DEF MarkEscalated, AfterEscalate
<1>11. ASSUME NEW t \in Threads, Request(t) PROVE RetryInv'
    BY <1>11, SMTT(30) DEF Request
<1>12. ASSUME NEW t \in Threads, QueueTimeout(t) PROVE RetryInv'
    BY <1>12, SMTT(30) DEF QueueTimeout, AfterEscalate
<1>13. ASSUME NEW t \in Threads, IllegalEscalate(t) PROVE RetryInv'
    BY <1>13, SMTT(30) DEF IllegalEscalate
<1>14. ASSUME NEW t \in Threads, IllegalRequest(t) PROVE RetryInv'
    BY <1>14, SMTT(30) DEF IllegalRequest
<1>15. ASSUME NEW k \in Kinds, WorkerTake(k) PROVE RetryInv'
    BY <1>15, SMTT(30) DEF WorkerTake, TaskDue, Kinds
<1>16. CASE UpgradeReserve
    BY <1>16, SMTT(30) DEF UpgradeReserve
<1>17. CASE UpgradeDowncall
    BY <1>17, SMTT(30) DEF UpgradeDowncall
<1>18. CASE UpgradeSubmit
    BY <1>18, SMTT(30) DEF UpgradeSubmit
<1>19. CASE UpgradeLedger
    BY <1>19 DEF UpgradeLedger
<1>20. CASE UpgradeRequest
    BY <1>20, SMTT(30) DEF UpgradeRequest
<1>21. CASE RetryCheck
    BY <1>21, SMTT(30) DEF RetryCheck
<1>22. CASE RetryRead
    BY <1>22, SMTT(30) DEF RetryRead
<1>23. CASE TimeoutExpire
    BY <1>23, SMTT(30) DEF TimeoutExpire
<1>24. CASE WorkerCleanup
    BY <1>24, SMTT(30) DEF WorkerCleanup
<1>25. CASE WorkerExit
    BY <1>25, SMTT(30) DEF WorkerExit
<1>26. CASE StartComplete
    BY <1>26, SMTT(30) DEF StartComplete
<1>27. CASE PublishTerminal
    BY <1>27, SMTT(30) DEF PublishTerminal
<1>28. CASE CancelFind
    BY <1>28, SMTT(30) DEF CancelFind
<1>29. CASE CancelLedger
    BY <1>29, SMTT(30) DEF CancelLedger
<1>30. CASE CancelErase
    BY <1>30, SMTT(30) DEF CancelErase
<1>31. CASE DeliverTerminal
    BY <1>31, SMTT(30) DEF DeliverTerminal
<1>32. CASE Start
    BY <1>32, SMTT(30) DEF Start
<1>33. CASE StopTake
    BY <1>33, SMTT(30) DEF StopTake
<1>34. CASE StopCancel
    BY <1>34, SMTT(30) DEF StopCancel
<1>35. CASE StopFinish
    BY <1>35, SMTT(30) DEF StopFinish
<1>36. CASE UNCHANGED vars
    BY <1>36, SMTT(30) DEF vars, stateVars
<1> QED
    BY Zenon, <1>1, <1>2, <1>3, <1>4, <1>5, <1>6, <1>7, <1>8, <1>9, <1>10,
       <1>11, <1>12, <1>13, <1>14, <1>15, <1>16, <1>17, <1>18, <1>19, <1>20,
       <1>21, <1>22, <1>23, <1>24, <1>25, <1>26, <1>27, <1>28, <1>29, <1>30,
       <1>31, <1>32, <1>33, <1>34, <1>35, <1>36
       DEF Next, Step, BeginStep, EscalateStep, UpgradeStep, WorkerStep, CallbackStep,
           StopStep

\* The retry accounting, whatever the bounds.
LEMMA RetryHolds == Spec => []RetryInv
<1>1. Init => RetryInv
    BY DEF Init, RetryInv, Retryable, Threads, BeginPcs
<1>2. TypeOK /\ RetryInv /\ [Next]_vars => RetryInv'
    BY RetryStep, Zenon DEF TypeOK, FieldsOK
<1> QED
    BY <1>1, <1>2, TypeCorrect, PTL DEF Spec

\* A refused shutdown is retried at most three times.
THEOREM AtMostThreeRetries == Spec => []RetriesBounded
<1>2. TypeOK /\ RetryInv => RetriesBounded
    BY DEF TypeOK, FieldsOK, RetryInv, Retryable, RetriesBounded
<1> QED
    BY <1>2, TypeCorrect, RetryHolds, PTL

-----------------------------------------------------------------------------
\* The owner and the ledger agree on the terminal fact.
THEOREM LedgerAgrees == Spec => []LedgerFollowsOwner
<1>1. SupervisionInv => LedgerFollowsOwner
    BY DEF SupervisionInv, TerminalFacts, LedgerFollowsOwner
<1> QED
    BY <1>1, SupervisionHolds, PTL

\* Once erased, the stream's Retry and Watchdog tasks stay erased.
LEMMA QuietStep ==
    ASSUME LedgerFollowsOwner, callback # "none" => Observed, tasks \in [Kinds
           -> Nat], QuietAfterTerminal, [Next]_vars
    PROVE  QuietAfterTerminal'
<1> USE DEF QuietAfterTerminal, LedgerFollowsOwner, Observed, Kinds, Threads, Goto, Return, ownerVars, ledgerVars, schedVars,
            localVars, stopVars, callVars, histVars
<1>1. ASSUME NEW i \in Intents, CallBegin(i) PROVE QuietAfterTerminal'
    BY <1>1, SMTT(30) DEF CallBegin
<1>2. ASSUME NEW t \in Threads, BeginDuplicate(t) PROVE QuietAfterTerminal'
    BY <1>2, SMTT(30) DEF BeginDuplicate
<1>3. ASSUME NEW t \in Threads, BeginIllegal(t) PROVE QuietAfterTerminal'
    BY <1>3, SMTT(30) DEF BeginIllegal
<1>4. ASSUME NEW t \in Threads, BeginReserve(t) PROVE QuietAfterTerminal'
    BY <1>4, SMTT(30) DEF BeginReserve
<1>5. ASSUME NEW t \in Threads, Downcall(t) PROVE QuietAfterTerminal'
    BY <1>5, SMTT(30) DEF Downcall
<1>6. ASSUME NEW t \in Threads, BeginSubmit(t) PROVE QuietAfterTerminal'
    BY <1>6, SMTT(30) DEF BeginSubmit, TerminalWins
<1>7. ASSUME NEW t \in Threads, RecordShutdown(t) PROVE QuietAfterTerminal'
    BY <1>7, SMTT(30) DEF RecordShutdown
<1>8. ASSUME NEW t \in Threads, ArmWatchdog(t) PROVE QuietAfterTerminal'
    BY <1>8, SMTT(30) DEF ArmWatchdog, Enqueue, Refuse, NoTasks
<1>9. ASSUME NEW t \in Threads, ScheduleRetry(t) PROVE QuietAfterTerminal'
    BY <1>9, SMTT(30) DEF ScheduleRetry, RetryAllowed, Enqueue, Refuse, NoTasks
<1>10. ASSUME NEW t \in Threads, MarkEscalated(t) PROVE QuietAfterTerminal'
    BY <1>10, SMTT(30) DEF MarkEscalated
<1>11. ASSUME NEW t \in Threads, Request(t) PROVE QuietAfterTerminal'
    BY <1>11, SMTT(30) DEF Request
<1>12. ASSUME NEW t \in Threads, QueueTimeout(t) PROVE QuietAfterTerminal'
    BY <1>12, SMTT(30) DEF QueueTimeout, NoTasks
<1>13. ASSUME NEW t \in Threads, IllegalEscalate(t) PROVE QuietAfterTerminal'
    BY <1>13, SMTT(30) DEF IllegalEscalate
<1>14. ASSUME NEW t \in Threads, IllegalRequest(t) PROVE QuietAfterTerminal'
    BY <1>14, SMTT(30) DEF IllegalRequest
<1>15. ASSUME NEW k \in Kinds, WorkerTake(k) PROVE QuietAfterTerminal'
    BY <1>15, SMTT(30) DEF WorkerTake, TaskDue, Kinds
<1>16. CASE UpgradeReserve
    BY <1>16, SMTT(30) DEF UpgradeReserve
<1>17. CASE UpgradeDowncall
    BY <1>17, SMTT(30) DEF UpgradeDowncall
<1>18. CASE UpgradeSubmit
    BY <1>18, SMTT(30) DEF UpgradeSubmit
<1>19. CASE UpgradeLedger
    BY <1>19 DEF UpgradeLedger
<1>20. CASE UpgradeRequest
    BY <1>20, SMTT(30) DEF UpgradeRequest
<1>21. CASE RetryCheck
    BY <1>21, SMTT(30) DEF RetryCheck
<1>22. CASE RetryRead
    BY <1>22, SMTT(30) DEF RetryRead
<1>23. CASE TimeoutExpire
    BY <1>23, SMTT(30) DEF TimeoutExpire
<1>24. CASE WorkerCleanup
    BY <1>24, SMTT(30) DEF WorkerCleanup
<1>25. CASE WorkerExit
    BY <1>25, SMTT(30) DEF WorkerExit
<1>26. CASE StartComplete
    BY <1>26, SMTT(30) DEF StartComplete
<1>27. CASE PublishTerminal
    BY <1>27, SMTT(30) DEF PublishTerminal
<1>28. CASE CancelFind
    BY <1>28, SMTT(30) DEF CancelFind
<1>29. CASE CancelLedger
    BY <1>29, SMTT(30) DEF CancelLedger
<1>30. CASE CancelErase
    BY <1>30, SMTT(30) DEF CancelErase, NoTasks
<1>31. CASE DeliverTerminal
    BY <1>31, SMTT(30) DEF DeliverTerminal
<1>32. CASE Start
    BY <1>32, SMTT(30) DEF Start
<1>33. CASE StopTake
    BY <1>33, SMTT(30) DEF StopTake, NoTasks
<1>34. CASE StopCancel
    BY <1>34, SMTT(30) DEF StopCancel
<1>35. CASE StopFinish
    BY <1>35, SMTT(30) DEF StopFinish
<1>36. CASE UNCHANGED vars
    BY <1>36, SMTT(30) DEF vars, stateVars
<1> QED
    BY Zenon, <1>1, <1>2, <1>3, <1>4, <1>5, <1>6, <1>7, <1>8, <1>9, <1>10,
       <1>11, <1>12, <1>13, <1>14, <1>15, <1>16, <1>17, <1>18, <1>19, <1>20,
       <1>21, <1>22, <1>23, <1>24, <1>25, <1>26, <1>27, <1>28, <1>29, <1>30,
       <1>31, <1>32, <1>33, <1>34, <1>35, <1>36
       DEF Next, Step, BeginStep, EscalateStep, UpgradeStep, WorkerStep, CallbackStep,
           StopStep

\* No Retry or Watchdog task follows the terminal event.
THEOREM QuietForever == Spec => []QuietAfterTerminal
<1>1. Init => QuietAfterTerminal
    BY DEF Init, QuietAfterTerminal
<1>2. /\ TypeOK /\ SupervisionInv /\ QuietAfterTerminal
      /\ [Next]_vars
      => QuietAfterTerminal'
    BY QuietStep, Zenon
       DEF TypeOK, FieldsOK, SupervisionInv, TerminalFacts, LedgerFollowsOwner
<1> QED
    BY <1>1, <1>2, TypeCorrect, SupervisionHolds, PTL DEF Spec

-----------------------------------------------------------------------------
\* The ledger never runs ahead of the owner's attempts, an upgrade is the last
\* attempt of a submitted shutdown, and an illegal call found a failed start.
AttemptInv ==
    /\ ledgerAttempt <= attempt
    /\ pc["relay"] \in UpgradePcs \ {"upRequest"} =>
          /\ callAttempt["relay"] = attempt
          /\ terminalPhase \in {"ShutdownSubmitted", "TerminalObserved"}
    /\ \A t \in Threads : pc[t] = "illegal" => phase = "StartFailed"

\* No attempt follows an upgrade, and no start follows a failed one.
LEMMA AttemptStep ==
    ASSUME TerminalFacts, attempt \in Nat, ledgerAttempt \in Nat, callAttempt
           \in [Threads -> Nat], RetryInv, pc \in [Threads -> Pcs],
           AttemptInv, [Next]_vars
    PROVE  AttemptInv'
<1> USE DEF AttemptInv, RetryInv, TerminalFacts, InCall, Observed, UpgradePcs, Threads, Goto, Return, ownerVars, ledgerVars, schedVars,
            localVars, stopVars, callVars, histVars
<1>1. ASSUME NEW i \in Intents, CallBegin(i) PROVE AttemptInv'
    BY <1>1, SMTT(30) DEF CallBegin
<1>2. ASSUME NEW t \in Threads, BeginDuplicate(t) PROVE AttemptInv'
    BY <1>2, SMTT(30) DEF BeginDuplicate
<1>3. ASSUME NEW t \in Threads, BeginIllegal(t) PROVE AttemptInv'
    BY <1>3, SMTT(30) DEF BeginIllegal
<1>4. ASSUME NEW t \in Threads, BeginReserve(t) PROVE AttemptInv'
    BY <1>4, SMTT(30) DEF BeginReserve
<1>5. ASSUME NEW t \in Threads, Downcall(t) PROVE AttemptInv'
    BY <1>5, SMTT(30) DEF Downcall
<1>6. ASSUME NEW t \in Threads, BeginSubmit(t) PROVE AttemptInv'
    BY <1>6, SMTT(30) DEF BeginSubmit, TerminalWins
<1>7. ASSUME NEW t \in Threads, RecordShutdown(t) PROVE AttemptInv'
    BY <1>7, SMTT(30) DEF RecordShutdown
<1>8. ASSUME NEW t \in Threads, ArmWatchdog(t) PROVE AttemptInv'
    BY <1>8, SMTT(30) DEF ArmWatchdog, Enqueue, Refuse, Unqueued
<1>9. ASSUME NEW t \in Threads, ScheduleRetry(t) PROVE AttemptInv'
    BY <1>9, SMTT(30) DEF ScheduleRetry, Enqueue, Refuse, Unqueued
<1>10. ASSUME NEW t \in Threads, MarkEscalated(t) PROVE AttemptInv'
    BY <1>10, SMTT(30) DEF MarkEscalated, AfterEscalate
<1>11. ASSUME NEW t \in Threads, Request(t) PROVE AttemptInv'
    BY <1>11, SMTT(30) DEF Request
<1>12. ASSUME NEW t \in Threads, QueueTimeout(t) PROVE AttemptInv'
    BY <1>12, SMTT(30) DEF QueueTimeout, AfterEscalate
<1>13. ASSUME NEW t \in Threads, IllegalEscalate(t) PROVE AttemptInv'
    BY <1>13, SMTT(30) DEF IllegalEscalate
<1>14. ASSUME NEW t \in Threads, IllegalRequest(t) PROVE AttemptInv'
    BY <1>14, SMTT(30) DEF IllegalRequest
<1>15. ASSUME NEW k \in Kinds, WorkerTake(k) PROVE AttemptInv'
    BY <1>15, SMTT(30) DEF WorkerTake, TaskDue, Kinds
<1>16. CASE UpgradeReserve
    BY <1>16, SMTT(30) DEF UpgradeReserve
<1>17. CASE UpgradeDowncall
    BY <1>17, SMTT(30) DEF UpgradeDowncall
<1>18. CASE UpgradeSubmit
    BY <1>18, SMTT(30) DEF UpgradeSubmit
<1>19. CASE UpgradeLedger
    BY <1>19 DEF UpgradeLedger
<1>20. CASE UpgradeRequest
    BY <1>20, SMTT(30) DEF UpgradeRequest
<1>21. CASE RetryCheck
    BY <1>21, SMTT(30) DEF RetryCheck
<1>22. CASE RetryRead
    BY <1>22, SMTT(30) DEF RetryRead
<1>23. CASE TimeoutExpire
    BY <1>23, SMTT(30) DEF TimeoutExpire
<1>24. CASE WorkerCleanup
    BY <1>24, SMTT(30) DEF WorkerCleanup
<1>25. CASE WorkerExit
    BY <1>25, SMTT(30) DEF WorkerExit
<1>26. CASE StartComplete
    BY <1>26, SMTT(30) DEF StartComplete
<1>27. CASE PublishTerminal
    BY <1>27, SMTT(30) DEF PublishTerminal
<1>28. CASE CancelFind
    BY <1>28, SMTT(30) DEF CancelFind
<1>29. CASE CancelLedger
    BY <1>29, SMTT(30) DEF CancelLedger
<1>30. CASE CancelErase
    BY <1>30, SMTT(30) DEF CancelErase
<1>31. CASE DeliverTerminal
    BY <1>31, SMTT(30) DEF DeliverTerminal
<1>32. CASE Start
    BY <1>32, SMTT(30) DEF Start
<1>33. CASE StopTake
    BY <1>33, SMTT(30) DEF StopTake
<1>34. CASE StopCancel
    BY <1>34, SMTT(30) DEF StopCancel
<1>35. CASE StopFinish
    BY <1>35, SMTT(30) DEF StopFinish
<1>36. CASE UNCHANGED vars
    BY <1>36, SMTT(30) DEF vars, stateVars
<1> QED
    BY Zenon, <1>1, <1>2, <1>3, <1>4, <1>5, <1>6, <1>7, <1>8, <1>9, <1>10,
       <1>11, <1>12, <1>13, <1>14, <1>15, <1>16, <1>17, <1>18, <1>19, <1>20,
       <1>21, <1>22, <1>23, <1>24, <1>25, <1>26, <1>27, <1>28, <1>29, <1>30,
       <1>31, <1>32, <1>33, <1>34, <1>35, <1>36
       DEF Next, Step, BeginStep, EscalateStep, UpgradeStep, WorkerStep, CallbackStep,
           StopStep

\* What a step may do to the terminal facts (the action of TerminalIsFinal).
FinalAction ==
    /\ Observed => Observed' /\ ledgerPhase' = "TerminalObserved"
    /\ escalated' /\ ~escalated => ledgerPhase # "TerminalObserved"
    /\ ledgerAttempt' >= ledgerAttempt

\* No step goes back on the terminal event or on a newer attempt.
LEMMA FinalStep ==
    ASSUME attempt \in Nat, ledgerAttempt \in Nat, callAttempt \in [Threads -> Nat],
           TerminalFacts, AttemptInv, [Next]_vars
    PROVE  FinalAction
<1> USE DEF FinalAction, TerminalFacts, AttemptInv, Observed, Threads, UpgradePcs,
            ownerVars, ledgerVars, schedVars, localVars, stopVars, callVars, histVars
<1>1. ASSUME NEW i \in Intents, CallBegin(i) PROVE FinalAction
    BY <1>1, SMTT(30) DEF CallBegin
<1>2. ASSUME NEW t \in Threads, BeginDuplicate(t) PROVE FinalAction
    BY <1>2, SMTT(30) DEF BeginDuplicate
<1>3. ASSUME NEW t \in Threads, BeginIllegal(t) PROVE FinalAction
    BY <1>3, SMTT(30) DEF BeginIllegal
<1>4. ASSUME NEW t \in Threads, BeginReserve(t) PROVE FinalAction
    BY <1>4, SMTT(30) DEF BeginReserve
<1>5. ASSUME NEW t \in Threads, Downcall(t) PROVE FinalAction
    BY <1>5, SMTT(30) DEF Downcall
<1>6. ASSUME NEW t \in Threads, BeginSubmit(t) PROVE FinalAction
    BY <1>6, SMTT(30) DEF BeginSubmit, TerminalWins
<1>7. ASSUME NEW t \in Threads, RecordShutdown(t) PROVE FinalAction
    BY <1>7, SMTT(30) DEF RecordShutdown, RecordedPhase
<1>8. ASSUME NEW t \in Threads, ArmWatchdog(t) PROVE FinalAction
    BY <1>8, SMTT(30) DEF ArmWatchdog
<1>9. ASSUME NEW t \in Threads, ScheduleRetry(t) PROVE FinalAction
    BY <1>9, SMTT(30) DEF ScheduleRetry
<1>10. ASSUME NEW t \in Threads, MarkEscalated(t) PROVE FinalAction
    BY <1>10, SMTT(30) DEF MarkEscalated, MayEscalate
<1>11. ASSUME NEW t \in Threads, Request(t) PROVE FinalAction
    BY <1>11, SMTT(30) DEF Request
<1>12. ASSUME NEW t \in Threads, QueueTimeout(t) PROVE FinalAction
    BY <1>12, SMTT(30) DEF QueueTimeout
<1>13. ASSUME NEW t \in Threads, IllegalEscalate(t) PROVE FinalAction
    BY <1>13, SMTT(30) DEF IllegalEscalate
<1>14. ASSUME NEW t \in Threads, IllegalRequest(t) PROVE FinalAction
    BY <1>14, SMTT(30) DEF IllegalRequest
<1>15. ASSUME NEW k \in Kinds, WorkerTake(k) PROVE FinalAction
    BY <1>15, SMTT(30) DEF WorkerTake
<1>16. CASE UpgradeReserve
    BY <1>16, SMTT(30) DEF UpgradeReserve
<1>17. CASE UpgradeDowncall
    BY <1>17, SMTT(30) DEF UpgradeDowncall
<1>18. CASE UpgradeSubmit
    BY <1>18, SMTT(30) DEF UpgradeSubmit
<1>19. CASE UpgradeLedger
    BY <1>19, Zenon DEF UpgradeLedger
<1>20. CASE UpgradeRequest
    BY <1>20, SMTT(30) DEF UpgradeRequest
<1>21. CASE RetryCheck
    BY <1>21, SMTT(30) DEF RetryCheck
<1>22. CASE RetryRead
    BY <1>22, SMTT(30) DEF RetryRead
<1>23. CASE TimeoutExpire
    BY <1>23, SMTT(30) DEF TimeoutExpire
<1>24. CASE WorkerCleanup
    BY <1>24, SMTT(30) DEF WorkerCleanup
<1>25. CASE WorkerExit
    BY <1>25, SMTT(30) DEF WorkerExit
<1>26. CASE StartComplete
    BY <1>26, SMTT(30) DEF StartComplete
<1>27. CASE PublishTerminal
    BY <1>27, SMTT(30) DEF PublishTerminal, RecordShutdownComplete
<1>28. CASE CancelFind
    BY <1>28, SMTT(30) DEF CancelFind
<1>29. CASE CancelLedger
    BY <1>29, SMTT(30) DEF CancelLedger
<1>30. CASE CancelErase
    BY <1>30, SMTT(30) DEF CancelErase
<1>31. CASE DeliverTerminal
    BY <1>31, SMTT(30) DEF DeliverTerminal, RecordShutdownComplete
<1>32. CASE Start
    BY <1>32, SMTT(30) DEF Start
<1>33. CASE StopTake
    BY <1>33, SMTT(30) DEF StopTake
<1>34. CASE StopCancel
    BY <1>34, SMTT(30) DEF StopCancel
<1>35. CASE StopFinish
    BY <1>35, SMTT(30) DEF StopFinish
<1>36. CASE UNCHANGED vars
    BY <1>36, SMTT(30) DEF vars, stateVars
<1> QED
    BY Zenon, <1>1, <1>2, <1>3, <1>4, <1>5, <1>6, <1>7, <1>8, <1>9, <1>10, <1>11,
       <1>12, <1>13, <1>14, <1>15, <1>16, <1>17, <1>18, <1>19, <1>20, <1>21,
       <1>22, <1>23, <1>24, <1>25, <1>26, <1>27, <1>28, <1>29, <1>30, <1>31,
       <1>32, <1>33, <1>34, <1>35, <1>36
       DEF Next, Step, BeginStep, EscalateStep, UpgradeStep, WorkerStep, CallbackStep,
           StopStep

\* The terminal event is final: no step leaves it, escalates after it or goes
\* back to an older attempt.
THEOREM TerminalFinal == Spec => TerminalIsFinal
<1>1. Init => AttemptInv
    BY DEF Init, AttemptInv, Threads, UpgradePcs
<1>2. Spec => []TerminalFacts
    BY SupervisionHolds, PTL DEF SupervisionInv
<1>3. TypeOK /\ TerminalFacts /\ RetryInv /\ AttemptInv /\ [Next]_vars => AttemptInv'
    BY AttemptStep, Zenon DEF TypeOK, FieldsOK
<1>4. TypeOK /\ TerminalFacts /\ AttemptInv /\ [Next]_vars => FinalAction
    BY FinalStep, Zenon DEF TypeOK, FieldsOK
<1>5. Spec => []AttemptInv
    BY <1>1, <1>2, <1>3, TypeCorrect, RetryHolds, PTL DEF Spec
<1> QED
    BY <1>2, <1>4, <1>5, TypeCorrect, PTL DEF Spec, TerminalIsFinal, FinalAction
-----------------------------------------------------------------------------
\* The scheduler's books: SchedulerConsistent, and Stop() has accounted for the
\* Timeout tasks it took before it joins the worker.
Books == TimeoutsCounted /\ QueueServed /\ (stopper # "cancel" => stopTimeouts = 0)

\* A step that leaves the queue and Stop() alone and neither takes up nor ends a
\* Timeout task keeps the books.
LEMMA BooksStay ==
    ASSUME Books, UNCHANGED <<schedVars, stopVars>>,
           pc'["worker"] = "timeout" <=> pc["worker"] = "timeout"
    PROVE  Books'
BY DEF Books, TimeoutsCounted, QueueServed, HasTasks, schedVars, stopVars

\* Where a thread other than one in a Timeout task goes.
LEMMA NoTimeoutMove ==
    ASSUME pc \in [Threads -> Pcs], NEW t \in Threads, pc[t] # "timeout",
           NEW l, l # "timeout", Goto(t, l)
    PROVE  pc'["worker"] = "timeout" <=> pc["worker"] = "timeout"
BY DEF Goto, Threads

\* A task is queued: whoever queues it has started the worker.
LEMMA BooksEnqueue ==
    ASSUME Books, FieldsOK, NEW k \in Kinds, k # "Timeout", Enqueue(k), UNCHANGED stopVars,
           pc'["worker"] = "timeout" <=> pc["worker"] = "timeout"
    PROVE  Books'
BY DEF Books, FieldsOK, TimeoutsCounted, QueueServed, Enqueue, stopVars, Kinds

\* Without failing allocations the queue refuses by doing nothing.
LEMMA RefuseQuiet == ASSUME ~env.allocFails, Refuse PROVE UNCHANGED schedVars
BY Zenon DEF Refuse

\* The owner's and the ledger's critical sections, of either thread.
LEMMA BooksOwner ==
    ASSUME Books, FieldsOK, NEW t \in Threads,
           \/ BeginDuplicate(t) \/ BeginIllegal(t) \/ BeginReserve(t) \/ Downcall(t)
           \/ BeginSubmit(t) \/ RecordShutdown(t) \/ MarkEscalated(t) \/ Request(t)
           \/ IllegalEscalate(t) \/ IllegalRequest(t)
    PROVE  Books'
<1>1. UNCHANGED <<schedVars, stopVars>>
  BY Zenon DEF BeginDuplicate, BeginIllegal, BeginReserve, Downcall, BeginSubmit,
     RecordShutdown, MarkEscalated, Request, IllegalEscalate, IllegalRequest
<1>2. /\ pc[t] # "timeout"
      /\ \E l \in {"illegal", "downcall", "submit", "record", "schedule", "request",
                   "escalate", "queueTimeout", "illegalRequest", Return(t)} : Goto(t, l)
  BY Zenon DEF BeginDuplicate, BeginIllegal, BeginReserve, Downcall, BeginSubmit,
     RecordShutdown, MarkEscalated, AfterEscalate, Request, IllegalEscalate, IllegalRequest
<1>3. PICK l \in {"illegal", "downcall", "submit", "record", "schedule", "request",
                  "escalate", "queueTimeout", "illegalRequest", Return(t)} : Goto(t, l)
  BY <1>2
<1>4. l # "timeout"
  BY DEF Return
<1> QED BY <1>1, <1>2, <1>3, <1>4, NoTimeoutMove, BooksStay DEF FieldsOK

\* ArmWatchdog and ScheduleRetry queue their task or escalate.
LEMMA BooksSchedule ==
    ASSUME Books, FieldsOK, ~env.allocFails, NEW t \in Threads,
           ArmWatchdog(t) \/ ScheduleRetry(t)
    PROVE  Books'
<1>1. /\ pc[t] # "timeout" /\ UNCHANGED stopVars
      /\ Goto(t, Return(t)) \/ Goto(t, "escalate")
  BY Zenon DEF ArmWatchdog, ScheduleRetry, Unqueued
<1>2. pc'["worker"] = "timeout" <=> pc["worker"] = "timeout"
  BY <1>1, NoTimeoutMove DEF FieldsOK, Return
<1>3. Enqueue("Watchdog") \/ Enqueue("Retry") \/ UNCHANGED schedVars
  BY RefuseQuiet, Zenon DEF ArmWatchdog, ScheduleRetry
<1> QED BY <1>1, <1>2, <1>3, BooksEnqueue, BooksStay DEF Kinds

\* QueueTimeout counts the task it queues, and a scheduler that is not being
\* stopped has a worker for it.
LEMMA BooksTimeout ==
    ASSUME Books, FieldsOK, ~env.allocFails, NEW t \in Threads, QueueTimeout(t)
    PROVE  Books'
<1>1. /\ pc[t] # "timeout" /\ UNCHANGED stopVars
      /\ Goto(t, Return(t)) \/ Goto(t, "escalate")
  BY Zenon DEF QueueTimeout, AfterEscalate
<1>2. pc'["worker"] = "timeout" <=> pc["worker"] = "timeout"
  BY <1>1, NoTimeoutMove DEF FieldsOK, Return
<1>3. /\ tasks' = [tasks EXCEPT !["Timeout"] = @ + 1]
      /\ timeoutPending' = timeoutPending + 1
      /\ workerRunning' \/ lifecycle' = "Stopping"
  BY DEF QueueTimeout
<1>4. tasks'["Timeout"] = tasks["Timeout"] + 1
  BY <1>3 DEF FieldsOK, Kinds
<1>5. TimeoutsCounted'
  BY <1>1, <1>2, <1>3, <1>4 DEF Books, TimeoutsCounted, stopVars, FieldsOK, Kinds
<1> QED BY <1>1, <1>3, <1>5 DEF Books, QueueServed, stopVars

\* The worker takes a task, which stays counted while it runs.
LEMMA BooksTake ==
    ASSUME Books, FieldsOK, NEW k \in Kinds, WorkerTake(k)
    PROVE  Books'
<1>1. /\ workerRunning /\ pc["worker"] = "idle" /\ tasks[k] > 0
      /\ tasks' = [tasks EXCEPT ![k] = tasks[k] - 1]
      /\ UNCHANGED <<workerRunning, timeoutPending, stopVars>>
  BY DEF WorkerTake, TaskDue
<1>2. pc'["worker"] = "timeout" <=> k = "Timeout"
  BY DEF WorkerTake, Goto, FieldsOK, Kinds, Threads
<1>3. tasks'["Timeout"] = IF k = "Timeout" THEN tasks["Timeout"] - 1 ELSE tasks["Timeout"]
  BY <1>1 DEF FieldsOK, Kinds
<1>4. TimeoutsCounted'
  BY <1>1, <1>2, <1>3 DEF Books, TimeoutsCounted, stopVars, FieldsOK, Kinds
<1> QED BY <1>1, <1>4 DEF Books, QueueServed, stopVars

\* A Timeout task ends, Cancel erases the stream's tasks.
LEMMA BooksDecrement ==
    ASSUME Books, FieldsOK, TimeoutExpire \/ CancelErase
    PROVE  Books'
<1>1. CASE TimeoutExpire
  <2>1. /\ pc["worker"] = "timeout" /\ pc'["worker"] = "cleanup"
        /\ timeoutPending' = Decrement(1)
        /\ UNCHANGED <<tasks, workerRunning, lifecycle, stopVars>>
    BY <1>1 DEF TimeoutExpire, Goto, FieldsOK, Threads
  <2>2. TimeoutsCounted'
    BY <2>1 DEF Books, TimeoutsCounted, Decrement, stopVars, FieldsOK, Kinds
  <2> QED BY <2>1, <2>2 DEF Books, QueueServed, HasTasks, stopVars
<1>2. CASE CancelErase
  <2>1. /\ timeoutPending' = Decrement(tasks["Timeout"]) /\ tasks' = NoTasks
        /\ UNCHANGED <<pc, stopVars>>
    BY <1>2 DEF CancelErase, ErasedTimeouts
  <2>2. TimeoutsCounted'
    BY <2>1 DEF Books, TimeoutsCounted, Decrement, stopVars, FieldsOK, Kinds, NoTasks
  <2> QED BY <2>1, <2>2 DEF Books, QueueServed, HasTasks, NoTasks, stopVars
<1> QED BY <1>1, <1>2

\* Start and Stop.
LEMMA BooksStop ==
    ASSUME Books, FieldsOK, ~env.allocFails, Start \/ StopTake \/ StopStep \/ WorkerExit
    PROVE  Books'
<1>1. CASE Start
  BY <1>1 DEF Start, StartWorker, Books, TimeoutsCounted, QueueServed, HasTasks
<1>2. CASE StopTake
  <2>1. /\ stopper = "idle" /\ stopTimeouts' = tasks["Timeout"] /\ tasks' = NoTasks
        /\ stopper' = "cancel" /\ UNCHANGED <<timeoutPending, pc>>
    BY <1>2 DEF StopTake, TakenTimeouts
  <2>2. TimeoutsCounted'
    BY <2>1 DEF Books, TimeoutsCounted, NoTasks, FieldsOK, Kinds
  <2> QED BY <2>1, <2>2 DEF Books, QueueServed, HasTasks, NoTasks
<1>3. CASE StopCancel
  <2>1. /\ timeoutPending' = Decrement(stopTimeouts) /\ stopTimeouts' = 0
        /\ UNCHANGED <<tasks, pc, workerRunning, lifecycle>>
    BY <1>3 DEF StopCancel
  <2>2. TimeoutsCounted'
    BY <2>1 DEF Books, TimeoutsCounted, Decrement, FieldsOK, Kinds
  <2> QED BY <2>1, <2>2 DEF Books, QueueServed, HasTasks
<1>4. CASE StopFinish
  <2>1. /\ stopper = "join" /\ UNCHANGED <<tasks, timeoutPending, pc, stopTimeouts>>
        /\ workerRunning' \/ ~HasTasks(tasks)
    BY <1>4 DEF StopFinish, StartWorker, MustRestart
  <2> QED BY <2>1 DEF Books, TimeoutsCounted, QueueServed, HasTasks
<1>5. CASE WorkerExit
  BY <1>5 DEF WorkerExit, Books, TimeoutsCounted, QueueServed, HasTasks, stopVars
<1> QED BY <1>1, <1>2, <1>3, <1>4, <1>5 DEF StopStep

\* The steps that touch neither the queue nor Stop().
LEMMA BooksRest ==
    ASSUME Books, FieldsOK,
           \/ \E i \in Intents : CallBegin(i)
           \/ UpgradeReserve \/ UpgradeStep \/ StartComplete \/ PublishTerminal
           \/ CancelFind \/ CancelLedger \/ DeliverTerminal
           \/ RetryCheck \/ RetryRead \/ WorkerCleanup
    PROVE  Books'
<1>1. CASE WorkerCleanup
  BY <1>1 DEF WorkerCleanup, Books, TimeoutsCounted, QueueServed, HasTasks, Goto, FieldsOK,
     Threads, stopVars
<1>2. CASE \/ \E i \in Intents : CallBegin(i)
           \/ UpgradeReserve \/ UpgradeStep \/ RetryCheck \/ RetryRead
  <2>1. UNCHANGED <<schedVars, stopVars>>
    BY <1>2, Zenon DEF CallBegin, UpgradeReserve, UpgradeStep, UpgradeDowncall, UpgradeSubmit,
       UpgradeLedger, UpgradeRequest, RetryCheck, RetryRead
  <2>2. \E t \in Threads : pc[t] # "timeout" /\
          \E l \in {"begin", "upDowncall", "upSubmit", "upLedger", "upRequest", "idle",
                    "retryRead", "cleanup"} : Goto(t, l)
    BY <1>2, Zenon DEF CallBegin, UpgradeReserve, UpgradeStep, UpgradeDowncall, UpgradeSubmit,
       UpgradeLedger, UpgradeRequest, RetryCheck, RetryRead, Threads
  <2> QED BY <2>1, <2>2, NoTimeoutMove, BooksStay DEF FieldsOK
<1>3. CASE StartComplete \/ PublishTerminal \/ CancelFind \/ CancelLedger \/ DeliverTerminal
  BY <1>3, BooksStay, Zenon DEF StartComplete, PublishTerminal, CancelFind, CancelLedger,
     DeliverTerminal
<1> QED BY <1>1, <1>2, <1>3

\* However often it is stopped and started in the middle of a shutdown, as long
\* as no allocation fails the scheduler counts its pending timeouts exactly, and
\* no task waits in a queue nobody serves.
THEOREM BooksKept == Spec => []SchedulerConsistent
<1> DEFINE Inv == ~env.allocFails => Books
<1>1. Init => Inv
  BY DEF Init, Books, TimeoutsCounted, QueueServed, HasTasks, NoTasks, Kinds, Threads
<1>2. TypeOK /\ Inv /\ [Next]_vars => Inv'
  <2> SUFFICES ASSUME FieldsOK, Inv, [Next]_vars, ~env'.allocFails PROVE Books'
    BY DEF TypeOK
  <2>1. CASE UNCHANGED vars
    BY <2>1 DEF vars, stateVars, schedVars, stopVars, Books, TimeoutsCounted, QueueServed,
       HasTasks
  <2>2. CASE Next
    <3>1. Books /\ ~env.allocFails
      BY <2>2 DEF Next
    <3> QED BY <2>2, <3>1, BooksOwner, BooksSchedule, BooksTimeout, BooksTake, BooksDecrement,
               BooksStop, BooksRest, Zenon
            DEF Next, Step, BeginStep, EscalateStep, WorkerStep, CallbackStep
  <2> QED BY <2>1, <2>2
<1>3. Inv => SchedulerConsistent
  BY DEF Books, SchedulerConsistent
<1> QED BY <1>1, <1>2, <1>3, TypeCorrect, PTL DEF Spec
=============================================================================

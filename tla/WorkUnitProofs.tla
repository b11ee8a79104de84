--------------------------- MODULE WorkUnitProofs ---------------------------
(***************************************************************************)
(* Proofs about WorkUnit, for every Task Spec, repair limit and number of  *)
(* process starts.                                                         *)
(***************************************************************************)
EXTENDS WorkUnitReport, FiniteSetTheorems, WellFoundedInduction, TLAPS

-----------------------------------------------------------------------------
(* Facts about the operators *)

\* A new execution state and a prepared one are execution states.
LEMMA NewStateType == NewExecutionState \in ExecutionStates
BY DEF NewExecutionState, ExecutionStates, ExecutionStatus, NoTask

\* What prepare_execution_state hands to a run is an execution state.
LEMMA PrepareStateType ==
  ASSUME NEW s \in ExecutionStates
  PROVE  PrepareState(s) \in ExecutionStates
BY NewStateType DEF PrepareState, RecoverInFlight, ExecutionStates, ExecutionStatus, NoTask

\* The table of transitions leads from a status to statuses.
LEMMA TableType == \A s \in ExecutionStatus : ALLOWED_TRANSITIONS[s] \subseteq ExecutionStatus
BY DEF ALLOWED_TRANSITIONS, ExecutionStatus, Stopped

\* The files the program and Codex can leave behind are state files.
LEMMA FileType ==
  /\ Absent \in StateFile
  /\ NonRegular \in StateFile
  /\ \A s \in ExecutionStates : Regular(s) \in StateFile
BY NewStateType DEF Absent, NonRegular, Regular, StateFile

\* Saving a state keeps the type of the file.
LEMMA SaveType ==
  ASSUME TypeOK, NEW s \in ExecutionStates, Save(s)
  PROVE  file' \in StateFile
BY FileType DEF TypeOK, Save

\* Returning from a cycle keeps the types of what it sets.
LEMMA ReturnType ==
  ASSUME TypeOK,
         NEW s \in ExecutionStates,
         NEW outcome \in CycleOutcome,
         NEW class \in FailureClass \cup {"none"},
         NEW task \in Tasks \cup {NoTask},
         Return(s, outcome, class, task)
  PROVE  /\ proc' \in {"none", "work_unit", "task"}
         /\ pc' \in {"idle", "cycle", "codex", "validating", "final", "reporting"}
         /\ state' \in ExecutionStates
         /\ mark' \in StateFile
         /\ iter' \in Nat
         /\ result' \in CycleResults
         /\ report' \in Reports
         /\ error' \in ErrorCode
         /\ runs' \in 0..MaxRuns
         /\ Persist' \in BOOLEAN
<1>1. result' \in CycleResults
  BY DEF Return, CycleResults
<1>2. /\ proc' \in {"none", "work_unit", "task"}
      /\ pc' \in {"idle", "cycle", "codex", "validating", "final", "reporting"}
      /\ iter' \in Nat
  BY DEF Return, TypeOK
<1> QED
  BY <1>1, <1>2, FileType DEF Return, TypeOK

\* Whether a workspace persists its state never changes.
LEMMA ModeFixed == [Next]_vars => Persist' = Persist
<1> SUFFICES ASSUME [Next]_vars
             PROVE  Persist' = Persist
  OBVIOUS
<1>1. CASE Start
  BY <1>1 DEF Start, StartEphemeral, StartPersisted, StartBlocked, StartRunTask, CanStart
<1>2. ASSUME NEW s, NEW outcome, NEW class, NEW t, Return(s, outcome, class, t)
      PROVE  Persist' = Persist
  BY <1>2 DEF Return
<1>3. CASE RejectUnsafeState \/ TamperingFound
  BY <1>2, <1>3 DEF RejectUnsafeState, TamperingFound, StateTampered
<1>4. ASSUME NEW status, NEW class, NEW t, Stop(status, class, t)
      PROVE  Persist' = Persist
  BY <1>2, <1>4 DEF Stop
<1>5. CASE CodexLeavesScope \/ CodexFailsEmptyHanded \/ ValidationFails
             \/ RepairLimitReached \/ FinalVerificationFails
  BY <1>4, <1>5 DEF CodexLeavesScope, CodexFailsEmptyHanded, ValidationFails,
       RepairLimitReached, FinalVerificationFails
<1>6. CASE ValidationPasses \/ FinalVerificationPasses
  BY <1>2, <1>6 DEF ValidationPasses, FinalVerificationPasses
<1>7. CASE RefuseDirtyWorktree \/ RefuseToImplement \/ RefuseFinalVerification
             \/ CodexRaises \/ ValidationRaises \/ Report
  BY <1>7 DEF RefuseDirtyWorktree, RefuseToImplement, RefuseFinalVerification,
       CodexRaises, ValidationRaises, Raise, Report
<1>8. CASE CodexReturns \/ StartRepair \/ StartFinalVerification \/ \E t \in Tasks : StartTask(t)
  BY <1>8 DEF CodexReturns, StartRepair, StartFinalVerification, StartTask
<1>9. CASE Environment \/ UNCHANGED vars
  BY <1>9 DEF Environment, CodexEdits, CodexTouchesState, Crash, FreshCheckout, CleanWorktree,
       UpdateState, InitState, vars
<1> QED
  BY <1>1, <1>3, <1>5, <1>6, <1>7, <1>8, <1>9 DEF Next, Progress

-----------------------------------------------------------------------------
(* Type correctness *)

\* What the type invariant rests on: a process that runs Codex or a validation
\* does so for a task, and one that reports holds the result of a run.
ControlOK ==
  /\ pc \in {"codex", "validating"} => state.current \in Tasks \ state.completed
  /\ pc = "reporting" => result.outcome \in CycleOutcome \ {"TASK_COMPLETED"}

\* Type correctness holds initially.
LEMMA TypeInit == Init => TypeOK /\ ControlOK
  BY NewStateType, FileType, MaxRunsAssumption
  DEF Init, TypeOK, ControlOK, NoResult, CycleResults, NoReport, Reports, ErrorCode, NoTask

\* Every step keeps the type of every variable.
LEMMA TypeStep == TypeOK /\ ControlOK /\ [Next]_vars => TypeOK'
<1> SUFFICES ASSUME TypeOK, ControlOK, [Next]_vars
             PROVE  TypeOK'
  OBVIOUS
<1>p. Persist' = Persist
  BY ModeFixed
<1> USE <1>p
<1> USE NewStateType, FileType, SaveType
<1>1. ASSUME NEW entry \in {"work_unit", "task"}, NEW s \in ExecutionStates,
             Begin(entry, s), CanStart, file' \in StateFile
      PROVE  TypeOK'
  BY <1>1, MaxRunsAssumption
  DEF TypeOK, Begin, CanStart, NoResult, CycleResults, NoTask, ErrorCode
<1>2. CASE StartEphemeral
  BY <1>1, <1>2 DEF StartEphemeral, TypeOK
<1>3. CASE StartPersisted
  <2>1. file.data \in ExecutionStates
    BY DEF TypeOK, StateFile
  <2> DEFINE s == IF file.kind = "absent" THEN NewExecutionState ELSE PrepareState(file.data)
  <2>2. s \in ExecutionStates
    BY <2>1, PrepareStateType
  <2> HIDE DEF s
  <2> QED
    BY <1>1, <1>3, <2>2 DEF StartPersisted, s
<1>4. CASE StartBlocked
  <2>1. report' \in Reports
    BY <1>4 DEF StartBlocked, WriteReport, Reports, TypeOK, StateFile, ExecutionStates,
                BLOCKED, WorkUnitOutcome, CycleOutcome
  <2> QED
    BY <1>4, <2>1, MaxRunsAssumption DEF StartBlocked, CanStart, TypeOK, ErrorCode
<1>5. CASE StartRunTask
  <2> DEFINE s == IF file.kind = "regular" THEN file.data ELSE NewExecutionState
  <2>1. s \in ExecutionStates
    BY DEF TypeOK, StateFile
  <2>2. file' \in StateFile
    BY <1>5, <2>1 DEF StartRunTask, TypeOK
  <2> HIDE DEF s
  <2> QED
    BY <1>1, <1>5, <2>1, <2>2 DEF StartRunTask, s
<1>6. ASSUME NEW task \in Tasks \cup {NoTask}, StateTampered(task)
      PROVE  TypeOK'
  <2> DEFINE s == IF CanTransit(state.status, "SCOPE_VIOLATION")
                  THEN [state EXCEPT !.status = "SCOPE_VIOLATION", !.current = task]
                  ELSE state
  <2>1. s \in ExecutionStates
    BY DEF TypeOK, ExecutionStates, ExecutionStatus
  <2> HIDE DEF s
  <2>2. Return(s, "SCOPE_VIOLATION", "ESCALATION_REQUIRED", task)
    BY <1>6 DEF StateTampered, s
  <2> QED
    BY <1>6, <2>1, <2>2, ReturnType DEF StateTampered, TypeOK, CycleOutcome, FailureClass
<1>7. ASSUME NEW status \in {"FAILED", "ESCALATED", "SCOPE_VIOLATION"},
             NEW class \in FailureClass, NEW task \in Tasks \cup {NoTask},
             Stop(status, class, task), tree' \in SUBSET ChangeKinds
      PROVE  TypeOK'
  <2> DEFINE s == [state EXCEPT !.status = status,
                                !.current = IF task = NoTask THEN @ ELSE task]
  <2>1. s \in ExecutionStates
    BY DEF TypeOK, ExecutionStates, ExecutionStatus, NoTask
  <2> HIDE DEF s
  <2>2. Return(s, status, class, task) /\ Save(s) /\ UNCHANGED passed
    BY <1>7 DEF Stop, s
  <2> QED
    BY <1>7, <2>1, <2>2, ReturnType DEF TypeOK, CycleOutcome
<1>8. ASSUME CommandsRun
      PROVE  tree' \in SUBSET ChangeKinds
  BY <1>8 DEF CommandsRun, TypeOK, ChangeKinds
<1>9. ASSUME NEW code \in ErrorCode, Raise(code), tree' \in SUBSET ChangeKinds
      PROVE  TypeOK'
  BY <1>9 DEF Raise, TypeOK
<1>10. CASE RejectUnsafeState
  BY <1>6, <1>10 DEF RejectUnsafeState
<1>11. ASSUME NEW t \in Tasks, StartTask(t)
       PROVE  TypeOK'
  <2>1. [state EXCEPT !.status = "IMPLEMENTING", !.current = t] \in ExecutionStates
    BY DEF TypeOK, ExecutionStates, ExecutionStatus
  <2> QED
    BY <1>11, <2>1 DEF StartTask, TypeOK
<1>12. CASE RefuseDirtyWorktree \/ RefuseToImplement \/ RefuseFinalVerification
  BY <1>9, <1>12 DEF RefuseDirtyWorktree, RefuseToImplement, RefuseFinalVerification,
                     ErrorCode, TypeOK
<1>13. CASE StartFinalVerification
  <2>1. [state EXCEPT !.status = "FINAL_VALIDATING"] \in ExecutionStates
    BY DEF TypeOK, ExecutionStates, ExecutionStatus
  <2> QED
    BY <1>13, <2>1 DEF StartFinalVerification, TypeOK
<1>14. CASE TamperingFound
  BY <1>6, <1>14 DEF TamperingFound, TypeOK, ExecutionStates
<1>15. CASE CodexRaises
  BY <1>9, <1>15 DEF CodexRaises, ErrorCode, TypeOK
<1>16. CASE CodexLeavesScope \/ CodexFailsEmptyHanded
  BY <1>7, <1>16 DEF CodexLeavesScope, CodexFailsEmptyHanded, StatusOfFailure,
                     FailureClass, TypeOK, ExecutionStates
<1>17. CASE CodexReturns
  <2>1. [state EXCEPT !.status = "VALIDATING"] \in ExecutionStates
    BY DEF TypeOK, ExecutionStates, ExecutionStatus
  <2> QED
    BY <1>17, <2>1 DEF CodexReturns, TypeOK
<1>18. CASE ValidationPasses
  <2> DEFINE s == [state EXCEPT !.status = "TASK_COMPLETED",
                                !.completed = @ \cup {state.current}]
  <2>1. s \in ExecutionStates /\ passed' \in SUBSET Tasks /\ state.current \in Tasks
    BY <1>18 DEF ValidationPasses, TypeOK, ControlOK, ExecutionStates, ExecutionStatus
  <2> HIDE DEF s
  <2>2. Return(s, "TASK_COMPLETED", "none", state.current) /\ Save(s)
    BY <1>18 DEF ValidationPasses, s
  <2> QED
    BY <1>8, <1>18, <2>1, <2>2, ReturnType DEF ValidationPasses, TypeOK, CycleOutcome
<1>19. CASE ValidationFails \/ RepairLimitReached \/ FinalVerificationFails
  BY <1>7, <1>8, <1>19 DEF ValidationFails, RepairLimitReached, FinalVerificationFails,
                           StatusOfFailure, FailureClass, TypeOK, ExecutionStates
<1>20. CASE StartRepair
  <2>1. state.repairs + 1 \in Nat
    BY DEF TypeOK, ExecutionStates
  <2>2. [state EXCEPT !.status = "IMPLEMENTING", !.repairs = @ + 1] \in ExecutionStates
    BY <2>1 DEF TypeOK, ExecutionStates, ExecutionStatus
  <2> QED
    BY <1>8, <1>20, <2>2 DEF StartRepair, TypeOK
<1>21. CASE FinalVerificationPasses
  BY <1>8, <1>21, ReturnType DEF FinalVerificationPasses, TypeOK, CycleOutcome
<1>22. CASE ValidationRaises
  BY <1>8, <1>9, <1>22 DEF ValidationRaises, ErrorCode
<1>23. CASE Report
  <2>1. report' \in Reports
    BY <1>23 DEF Report, WriteReport, Reports, TypeOK, ControlOK, ExecutionStates, WorkUnitOutcome
  <2> QED
    BY <1>23, <2>1 DEF Report, TypeOK
<1>24. CASE CodexEdits
  BY <1>24 DEF CodexEdits, TypeOK, ChangeKinds, control
<1>25. CASE CodexTouchesState \/ Crash
  BY <1>25 DEF CodexTouchesState, Crash, TypeOK, ErrorCode, control
<1>26. CASE FreshCheckout \/ CleanWorktree
  BY <1>26 DEF FreshCheckout, CleanWorktree, TypeOK, NoReport, Reports, control
<1>27. CASE UpdateState
  <2>1. ASSUME NEW to \in ALLOWED_TRANSITIONS[file.data.status]
        PROVE  [file.data EXCEPT !.status = to] \in ExecutionStates
    BY <2>1, TableType DEF TypeOK, StateFile, ExecutionStates
  <2> QED
    BY <1>27, <2>1 DEF UpdateState, TypeOK, control
<1>28. CASE InitState
  BY <1>28 DEF InitState, TypeOK, control
<1>29. CASE UNCHANGED vars
  BY <1>29 DEF vars, control, TypeOK
<1> QED
  BY <1>2, <1>3, <1>4, <1>5, <1>10, <1>11, <1>12, <1>13, <1>14, <1>15, <1>16, <1>17,
     <1>18, <1>19, <1>20, <1>21, <1>22, <1>23, <1>24, <1>25, <1>26, <1>27, <1>28, <1>29
  DEF Next, Start, Progress, Environment

\* Every step keeps the program counter in agreement with task and result.
LEMMA ControlStep == TypeOK /\ ControlOK /\ [Next]_vars => ControlOK'
<1> SUFFICES ASSUME TypeOK, ControlOK, [Next]_vars
             PROVE  ControlOK'
  OBVIOUS
<1>1. CASE pc' \notin {"codex", "validating", "reporting"}
  BY <1>1 DEF ControlOK
<1>2. ASSUME NEW s, NEW outcome \in CycleOutcome, NEW class, NEW task,
             Return(s, outcome, class, task)
      PROVE  ControlOK'
  BY <1>2 DEF Return, ControlOK
<1>3. CASE UNCHANGED <<pc, state, result>>
  BY <1>3 DEF ControlOK
<1>4. CASE RejectUnsafeState \/ TamperingFound
  BY <1>2, <1>4 DEF RejectUnsafeState, TamperingFound, StateTampered, CycleOutcome
<1>5. CASE CodexLeavesScope \/ CodexFailsEmptyHanded \/ ValidationFails
             \/ RepairLimitReached \/ FinalVerificationFails
  BY <1>2, <1>5 DEF CodexLeavesScope, CodexFailsEmptyHanded, ValidationFails,
       RepairLimitReached, FinalVerificationFails, Stop, StatusOfFailure, CycleOutcome
<1>6. CASE ValidationPasses \/ FinalVerificationPasses
  BY <1>2, <1>6 DEF ValidationPasses, FinalVerificationPasses, CycleOutcome
<1>7. ASSUME NEW t \in Tasks, StartTask(t)
      PROVE  ControlOK'
  BY <1>7 DEF StartTask, Selects, ReadyTasks, ControlOK, TypeOK, ExecutionStates
<1>8. CASE CodexReturns
  BY <1>8 DEF CodexReturns, ControlOK, TypeOK, ExecutionStates
<1>9. CASE StartRepair
  BY <1>9 DEF StartRepair, ControlOK, TypeOK, ExecutionStates
<1>10. CASE Start
  BY <1>1, <1>3, <1>10 DEF Start, StartEphemeral, StartPersisted, StartBlocked, StartRunTask, Begin
<1>11. CASE RefuseDirtyWorktree \/ RefuseToImplement \/ RefuseFinalVerification
              \/ CodexRaises \/ ValidationRaises \/ StartFinalVerification \/ Report
  BY <1>1, <1>11 DEF RefuseDirtyWorktree, RefuseToImplement, RefuseFinalVerification,
       CodexRaises, ValidationRaises, Raise, StartFinalVerification, Report
<1>12. CASE Environment
  BY <1>1, <1>3, <1>12 DEF Environment, CodexEdits, CodexTouchesState, Crash, FreshCheckout,
       CleanWorktree, UpdateState, InitState, control
<1>13. CASE UNCHANGED vars
  BY <1>3, <1>13 DEF vars, control
<1> QED
  BY <1>4, <1>5, <1>6, <1>7, <1>8, <1>9, <1>10, <1>11, <1>12, <1>13 DEF Next, Progress

\* Every reachable state of every instance is well typed.
THEOREM TypeCorrect == Spec => []TypeOK
<1>1. Init => TypeOK /\ ControlOK
  BY TypeInit
<1>2. TypeOK /\ ControlOK /\ [Next]_vars => (TypeOK /\ ControlOK)'
  BY TypeStep, ControlStep
<1> QED
  BY <1>1, <1>2, PTL DEF Spec

-----------------------------------------------------------------------------
(* Dependency order and the repair budget *)

\* What holds of every recorded state: the completed tasks are closed under
\* dependencies, the current task may be worked on, the budget is respected.
Sound(s) ==
  /\ DependencyClosed(s.completed)
  /\ s.current \in Tasks => DependsOn[s.current] \subseteq s.completed
  /\ s.repairs <= RepairLimit

\* A file that is absent or of another kind carries no progress.
FileOK == file.kind # "regular" => file.data = NewExecutionState

Ledger == Sound(state) /\ Sound(file.data) /\ FileOK

\* A state that begins anew records nothing, soundly.
LEMMA NewStateSound == Sound(NewExecutionState)
BY RepairLimitAssumption DEF Sound, NewExecutionState, DependencyClosed, NoTask, Tasks

\* Recovery keeps a state sound: what it keeps it keeps whole.
LEMMA PrepareStateSound ==
  ASSUME NEW s \in ExecutionStates, Sound(s)
  PROVE  Sound(PrepareState(s))
<1>1. PrepareState(s) \in
        { NewExecutionState, s, [s EXCEPT !.status = "RUNNING"],
          [s EXCEPT !.status = "TASK_COMPLETED"],
          [s EXCEPT !.status = "PENDING", !.current = NoTask, !.repairs = 0] }
  BY DEF PrepareState, RecoverInFlight
<1>2. \A status \in ExecutionStatus : Sound([s EXCEPT !.status = status])
  BY DEF Sound, ExecutionStates
<1>3. Sound([s EXCEPT !.status = "PENDING", !.current = NoTask, !.repairs = 0])
  BY RepairLimitAssumption DEF Sound, ExecutionStates, NoTask, Tasks
<1> QED
  BY <1>1, <1>2, <1>3, NewStateSound DEF ExecutionStatus

\* Every step keeps the recorded states sound.
LEMMA LedgerStep == TypeOK /\ ControlOK /\ Ledger /\ [Next]_vars => Ledger'
<1> SUFFICES ASSUME TypeOK, ControlOK, Ledger, [Next]_vars
             PROVE  Ledger'
  OBVIOUS
<1> USE NewStateSound
<1>0. state \in ExecutionStates /\ file.data \in ExecutionStates
  BY DEF TypeOK, StateFile
<1>1. ASSUME NEW s \in ExecutionStates, Sound(s), state' = s,
             file' = file \/ file' = Regular(s)
      PROVE  Ledger'
  BY <1>1 DEF Ledger, FileOK, Regular
<1>2. CASE UNCHANGED <<state, file>>
  BY <1>2 DEF Ledger, FileOK
<1>3. ASSUME NEW status \in ExecutionStatus, NEW t \in Tasks \cup {NoTask},
             t \in Tasks => DependsOn[t] \subseteq state.completed
      PROVE  Sound([state EXCEPT !.status = status, !.current = t])
  BY <1>0, <1>3 DEF Ledger, Sound, ExecutionStates
<1>4. ASSUME NEW status \in ExecutionStatus
      PROVE  Sound([state EXCEPT !.status = status])
  BY <1>0 DEF Ledger, Sound, ExecutionStates
<1>5. CASE StartEphemeral
  BY <1>5 DEF StartEphemeral, Begin, Ledger, FileOK
<1>6. CASE StartPersisted
  <2>1. file.kind = "absent" => file' = Regular(NewExecutionState) /\ state' = NewExecutionState
    BY <1>6 DEF StartPersisted, Begin
  <2>2. file.kind # "absent" => file' = Regular(PrepareState(file.data))
                                  /\ state' = PrepareState(file.data)
    BY <1>6 DEF StartPersisted, Begin
  <2> QED
    BY <1>0, <1>1, <2>1, <2>2, NewStateType, PrepareStateType, PrepareStateSound DEF Ledger
<1>7. CASE StartRunTask
  BY <1>7, <1>0, <1>1, NewStateType DEF StartRunTask, Begin, Ledger
<1>8. CASE StartBlocked
  BY <1>2, <1>8 DEF StartBlocked
<1>9. ASSUME NEW t \in Tasks, StartTask(t)
      PROVE  Ledger'
  <2>1. Sound([state EXCEPT !.status = "IMPLEMENTING", !.current = t])
    BY <1>3, <1>9 DEF StartTask, Selects, ReadyTasks, DependenciesMet, ExecutionStatus
  <2>2. [state EXCEPT !.status = "IMPLEMENTING", !.current = t] \in ExecutionStates
    BY <1>0 DEF ExecutionStates, ExecutionStatus
  <2> QED
    BY <1>1, <1>9, <2>1, <2>2 DEF StartTask, Save
<1>10. ASSUME NEW status \in ExecutionStatus, NEW t \in Tasks \cup {NoTask},
              t \in Tasks => DependsOn[t] \subseteq state.completed,
              state' = [state EXCEPT !.status = status, !.current = t],
              file' = file \/ file' = Regular(state')
       PROVE  Ledger'
  <2>1. [state EXCEPT !.status = status, !.current = t] \in ExecutionStates
    BY <1>0, <1>10 DEF ExecutionStates
  <2> QED
    BY <1>1, <1>3, <1>10, <2>1
<1>11. ASSUME NEW status \in ExecutionStatus,
              state' = [state EXCEPT !.status = status],
              file' = file \/ file' = Regular(state')
       PROVE  Ledger'
  <2>1. [state EXCEPT !.status = status] \in ExecutionStates
    BY <1>0, <1>11 DEF ExecutionStates
  <2> QED
    BY <1>1, <1>4, <1>11, <2>1
<1>12. ASSUME NEW t \in Tasks \cup {NoTask}, StateTampered(t),
              t \in Tasks => DependsOn[t] \subseteq state.completed
       PROVE  Ledger'
  BY <1>2, <1>10, <1>12 DEF StateTampered, Return, ExecutionStatus
<1>13. CASE RejectUnsafeState
  BY <1>12, <1>13 DEF RejectUnsafeState, Selects, ReadyTasks, DependenciesMet
<1>14. state.current \in Tasks \cup {NoTask} /\
       (state.current \in Tasks => DependsOn[state.current] \subseteq state.completed)
  BY <1>0 DEF Ledger, Sound, ExecutionStates
<1>15. CASE TamperingFound
  BY <1>12, <1>14, <1>15 DEF TamperingFound
<1>16. ASSUME NEW status \in ExecutionStatus, NEW class,
              NEW t \in {state.current, NoTask}, Stop(status, class, t)
       PROVE  Ledger'
  <2>1. state' = [state EXCEPT !.status = status, !.current = IF t = NoTask THEN @ ELSE t]
        /\ (file' = file \/ file' = Regular(state'))
    BY <1>16 DEF Stop, Return, Save
  <2>2. state' = [state EXCEPT !.status = status, !.current = state.current]
    BY <1>0, <2>1 DEF ExecutionStates
  <2> QED
    BY <1>10, <1>14, <2>1, <2>2
<1>17. CASE CodexLeavesScope \/ CodexFailsEmptyHanded \/ ValidationFails
              \/ RepairLimitReached \/ FinalVerificationFails
  BY <1>16, <1>17 DEF CodexLeavesScope, CodexFailsEmptyHanded, ValidationFails,
       RepairLimitReached, FinalVerificationFails, StatusOfFailure, ExecutionStatus
<1>18. CASE CodexReturns \/ StartFinalVerification
  BY <1>11, <1>18 DEF CodexReturns, StartFinalVerification, Save, ExecutionStatus
<1>19. CASE ValidationPasses
  <2> DEFINE s == [state EXCEPT !.status = "TASK_COMPLETED",
                                !.completed = @ \cup {state.current}]
  <2>1. s \in ExecutionStates /\ Sound(s)
    BY <1>0, <1>14, <1>19
    DEF ValidationPasses, Ledger, Sound, DependencyClosed, ExecutionStates, ExecutionStatus, ControlOK
  <2> HIDE DEF s
  <2> QED
    BY <1>1, <1>19, <2>1 DEF ValidationPasses, Return, Save, s
<1>20. CASE StartRepair
  <2> DEFINE s == [state EXCEPT !.status = "IMPLEMENTING", !.repairs = @ + 1]
  <2>1. state.repairs + 1 \in Nat /\ state.repairs + 1 <= RepairLimit
    BY <1>0, <1>20, RepairLimitAssumption DEF StartRepair, CanAttemptRepair, ExecutionStates
  <2>2. s \in ExecutionStates /\ Sound(s)
    BY <1>0, <2>1 DEF Ledger, Sound, ExecutionStates, ExecutionStatus
  <2> HIDE DEF s
  <2> QED
    BY <1>1, <1>20, <2>2 DEF StartRepair, Save, s
<1>21. CASE FinalVerificationPasses
  BY <1>0, <1>1, <1>21 DEF FinalVerificationPasses, Return, Save, Ledger
<1>22. CASE RefuseDirtyWorktree \/ RefuseToImplement \/ RefuseFinalVerification
              \/ CodexRaises \/ ValidationRaises \/ Report
  BY <1>2, <1>22 DEF RefuseDirtyWorktree, RefuseToImplement, RefuseFinalVerification,
       CodexRaises, ValidationRaises, Raise, Report
<1>23. CASE CodexEdits \/ Crash \/ CleanWorktree
  BY <1>2, <1>23 DEF CodexEdits, Crash, CleanWorktree, control
<1>24. CASE CodexTouchesState \/ FreshCheckout \/ InitState
  BY <1>24 DEF CodexTouchesState, FreshCheckout, InitState, control, Ledger, FileOK,
       Absent, NonRegular, Regular
<1>25. CASE UpdateState
  <2>1. PICK to \in ALLOWED_TRANSITIONS[file.data.status] :
          file' = Regular([file.data EXCEPT !.status = to])
    BY <1>25 DEF UpdateState
  <2>2. Sound([file.data EXCEPT !.status = to])
    BY <1>0, <2>1 DEF Ledger, Sound, ExecutionStates
  <2> QED
    BY <1>25, <2>1, <2>2 DEF UpdateState, control, Ledger, FileOK, Regular
<1>26. CASE UNCHANGED vars
  BY <1>2, <1>26 DEF vars, control
<1> QED
  BY <1>5, <1>6, <1>7, <1>8, <1>9, <1>13, <1>15, <1>17, <1>18, <1>19, <1>20, <1>21,
     <1>22, <1>23, <1>24, <1>25, <1>26
  DEF Next, Start, Progress, Environment

\* The invariant that carries the safety theorems.
Inv == TypeOK /\ ControlOK /\ Ledger

\* Every reachable state satisfies the inductive invariant.
LEMMA InvInductive == Spec => []Inv
<1>1. Init => Inv
  BY TypeInit, NewStateSound DEF Init, Inv, Ledger, FileOK, Absent
<1>2. Inv /\ [Next]_vars => Inv'
  BY TypeStep, ControlStep, LedgerStep DEF Inv
<1> QED
  BY <1>1, <1>2, PTL DEF Spec

\* For every Task Spec, the tasks recorded as completed contain what they depend on.
THEOREM CompletedClosedHolds == Spec => []CompletedClosed
<1>1. Inv => CompletedClosed
  BY DEF Inv, Ledger, Sound, CompletedClosed
<1> QED
  BY <1>1, InvInductive, PTL

-----------------------------------------------------------------------------
(* The selector, the budget and the loop bound *)

\* A non-empty set of naturals has a smallest member.
LEMMA SmallestOf ==
  ASSUME NEW T \in SUBSET Nat, T # {}
  PROVE  \E m \in T : \A n \in T : m <= n
<1>1. \E m \in T : \A n \in T : ~ (<<n, m>> \in OpToRel(<, Nat))
  BY NatLessThanWellFounded, WFMin, Zenon
<1>2. \A m, n \in Nat : n < m => <<n, m>> \in OpToRel(<, Nat)
  BY DEF OpToRel
<1>3. \E m \in T : \A n \in T : ~ (n < m)
  BY <1>1, <1>2, Zenon
<1> QED
  BY <1>3

\* While a task is missing, the selector finds one: a set of incomplete tasks
\* without cycle holds a task whose dependencies are all complete.
LEMMA SelectorTotal ==
  ASSUME NEW s \in ExecutionStates, Sound(s), ~ AllCompleted(s)
  PROVE  \E t \in Tasks : Selects(s, t)
<1>1. CASE Resumed(s)
  BY <1>1 DEF Resumed, Selects, ReadyTasks, DependenciesMet, Sound, ExecutionStates
<1>2. CASE ~ Resumed(s)
  <2>1. Tasks \ s.completed # {}
    BY DEF AllCompleted
  <2>2. PICK t \in Tasks \ s.completed : DependsOn[t] \cap (Tasks \ s.completed) = {}
    BY <2>1, AcyclicAssumption
  <2>3. DependsOn[t] \subseteq s.completed
    BY <2>2, DependsOnAssumption
  <2>4. ReadyTasks(s) # {} /\ ReadyTasks(s) \in SUBSET Nat
    BY <2>3, NumTasksAssumption DEF ReadyTasks, DependenciesMet, Tasks
  <2>5. PICK m \in ReadyTasks(s) : \A n \in ReadyTasks(s) : m <= n
    BY <2>4, SmallestOf
  <2> QED
    BY <1>2, <2>5 DEF Selects, ReadyTasks
<1> QED
  BY <1>1, <1>2

\* The DEPENDENCY_BLOCKED exits are dead code for every acyclic Task Spec.
THEOREM NeverBlockedHolds == Spec => []NeverBlocked
<1>1. Inv => NeverBlocked
  BY SelectorTotal DEF Inv, TypeOK, Ledger, NeverBlocked, DependencyBlocked
<1> QED
  BY <1>1, InvInductive, PTL

\* Every step keeps the repair budget and the rule for its escalation.
LEMMA BudgetStep == Inv /\ RepairBudget /\ [Next]_vars => RepairBudget'
<1> SUFFICES ASSUME Inv, RepairBudget, [Next]_vars
             PROVE  RepairBudget'
  OBVIOUS
<1>0. Inv' /\ state'.repairs <= RepairLimit
  BY TypeStep, ControlStep, LedgerStep DEF Inv, Ledger, Sound
<1>1. ASSUME NEW s, NEW outcome, NEW class, NEW task, Return(s, outcome, class, task),
             class = "AGENT_REPAIRABLE" => task = NoTask
      PROVE  RepairBudget'
  BY <1>0, <1>1 DEF Return, RepairBudget
<1>2. CASE UNCHANGED result /\ (pc' # "reporting" \/ UNCHANGED <<pc, state>>)
  BY <1>0, <1>2 DEF RepairBudget
<1>3. CASE Start
  BY <1>0, <1>2, <1>3
  DEF Start, StartEphemeral, StartPersisted, StartBlocked, StartRunTask, Begin, NoResult, RepairBudget
<1>4. CASE RejectUnsafeState \/ TamperingFound
  BY <1>1, <1>4 DEF RejectUnsafeState, TamperingFound, StateTampered
<1>5. CASE CodexLeavesScope \/ CodexFailsEmptyHanded \/ ValidationFails
  BY <1>1, <1>5 DEF CodexLeavesScope, CodexFailsEmptyHanded, ValidationFails, Stop
<1>6. CASE FinalVerificationFails \/ FinalVerificationPasses \/ ValidationPasses
  <2>1. CASE FinalVerificationFails
    <3>1. PICK class \in FailureClass : Stop(StatusOfFailure(class), class, NoTask)
      BY <2>1 DEF FinalVerificationFails
    <3> QED
      BY <1>1, <3>1 DEF Stop
  <2>2. CASE FinalVerificationPasses
    BY <1>1, <2>2 DEF FinalVerificationPasses
  <2>3. CASE ValidationPasses
    BY <1>1, <2>3 DEF ValidationPasses
  <2> QED
    BY <1>6, <2>1, <2>2, <2>3
<1>7. CASE RepairLimitReached
  <2>1. state.repairs = RepairLimit
    BY <1>7, RepairLimitAssumption
    DEF RepairLimitReached, CanAttemptRepair, RepairBudget, Inv, TypeOK, ExecutionStates
  <2>2. state'.repairs = RepairLimit /\ result'.outcome = "ESCALATED"
    BY <1>7, <2>1 DEF RepairLimitReached, Stop, Return, Inv, TypeOK, ExecutionStates
  <2> QED
    BY <1>0, <2>2 DEF RepairBudget
<1>8. ASSUME NEW t \in Tasks, StartTask(t)
      PROVE  RepairBudget'
  BY <1>2, <1>8 DEF StartTask
<1>9. CASE RefuseDirtyWorktree \/ RefuseToImplement \/ RefuseFinalVerification
             \/ CodexRaises \/ ValidationRaises
  BY <1>2, <1>9 DEF RefuseDirtyWorktree, RefuseToImplement, RefuseFinalVerification,
       CodexRaises, ValidationRaises, Raise
<1>10. CASE CodexReturns \/ StartRepair \/ StartFinalVerification \/ Report
  BY <1>2, <1>10 DEF CodexReturns, StartRepair, StartFinalVerification, Report
<1>11. CASE Environment
  BY <1>2, <1>11 DEF Environment, CodexEdits, CodexTouchesState, Crash, FreshCheckout,
       CleanWorktree, UpdateState, InitState, control
<1>12. CASE UNCHANGED vars
  BY <1>2, <1>12 DEF vars, control
<1> QED
  BY <1>3, <1>4, <1>5, <1>6, <1>7, <1>8, <1>9, <1>10, <1>11, <1>12 DEF Next, Progress

\* The budget is never exceeded, and never left unused when a task escalates.
THEOREM RepairBudgetHolds == Spec => []RepairBudget
<1>1. Init => RepairBudget
  BY RepairLimitAssumption DEF Init, RepairBudget, NewExecutionState, NoResult
<1>2. Inv /\ RepairBudget /\ [Next]_vars => RepairBudget'
  BY BudgetStep
<1> QED
  BY <1>1, <1>2, InvInductive, PTL DEF Spec

-----------------------------------------------------------------------------
(* What a validation judges and a report claims *)

\* Evidence behind a completed task: its validation passed, and while every
\* task is complete nobody edits the tree.
Evidence ==
  /\ pc # "idle" => state.completed \subseteq passed
  /\ file.data.completed \subseteq passed
  /\ ~ Persist => file.kind # "regular"
  /\ pc = "codex" => ~ AllCompleted(file.data)
  /\ pc = "final" => AllCompleted(state)
  /\ pc = "reporting" /\ result.outcome = "FINAL_VERIFICATION_PASSED" => AllCompleted(state)
  /\ AllCompleted(file.data) => "outside" \notin tree
  /\ pc # "idle" /\ AllCompleted(state) => "outside" \notin tree
  /\ pc = "validating" => InScope(tree)

\* A Task Spec has a task, so a new state is not complete.
LEMMA NewStateIncomplete == ~ AllCompleted(NewExecutionState)
BY NumTasksAssumption DEF AllCompleted, NewExecutionState, Tasks

\* Every step keeps the evidence.
LEMMA EvidenceStep == Inv /\ Evidence /\ [Next]_vars => Evidence'
<1> SUFFICES ASSUME Inv, Evidence, [Next]_vars
             PROVE  Evidence'
  OBVIOUS
<1>p. Persist' = Persist
  BY ModeFixed
<1> USE <1>p
<1>0. /\ state \in ExecutionStates /\ file.data \in ExecutionStates
      /\ file.kind # "regular" => file.data = NewExecutionState
  BY DEF Inv, TypeOK, StateFile, Ledger, FileOK
<1>00. NewExecutionState.completed = {}
  BY DEF NewExecutionState
<1> USE NewStateIncomplete
<1>1. CASE StartEphemeral
  BY <1>0, <1>00, <1>1 DEF StartEphemeral, Begin, Evidence
<1>2. ASSUME NEW entry, NEW s \in ExecutionStates, CanStart, Persist, Begin(entry, s),
             \/ s.completed = {} /\ file'.data.completed = {}
             \/ s.completed = file.data.completed /\ file'.data.completed = s.completed
      PROVE  Evidence'
  <2>1. passed' = IF s.completed = {} THEN {} ELSE passed
    BY <1>2 DEF Begin
  <2>2. s.completed \subseteq passed' /\ file'.data.completed \subseteq passed'
    BY <1>2, <2>1 DEF Evidence
  <2>3. AllCompleted(s) \/ AllCompleted(file'.data) => AllCompleted(file.data)
    BY <1>2, <1>00 DEF AllCompleted
  <2> QED
    BY <1>2, <2>2, <2>3 DEF Begin, Evidence
<1>3. CASE StartPersisted
  <2> DEFINE s == IF file.kind = "absent" THEN NewExecutionState ELSE PrepareState(file.data)
  <2>1. s \in ExecutionStates
    BY <1>0, NewStateType, PrepareStateType
  <2>2. s.completed \in {{}, file.data.completed}
    BY <1>0, <1>00 DEF PrepareState, RecoverInFlight, ExecutionStates
  <2> HIDE DEF s
  <2>3. Begin("work_unit", s) /\ file' = Regular(s) /\ CanStart /\ Persist
    BY <1>3 DEF StartPersisted, s
  <2> QED
    BY <1>2, <2>1, <2>2, <2>3 DEF Regular
<1>4. CASE StartRunTask
  <2>1. CASE file.kind = "regular"
    BY <1>0, <1>2, <1>4, <2>1 DEF StartRunTask
  <2>2. CASE file.kind # "regular"
    BY <1>0, <1>00, <1>2, <1>4, <2>2, NewStateType DEF StartRunTask, Regular
  <2> QED
    BY <2>1, <2>2
<1>5. CASE StartBlocked
  BY <1>5 DEF StartBlocked, Evidence
<1>6. ASSUME NEW t, StateTampered(t), pc # "idle"
      PROVE  Evidence'
  <2>1. state'.completed = state.completed
    BY <1>0, <1>6 DEF StateTampered, Return, ExecutionStates
  <2>2. result'.outcome = "SCOPE_VIOLATION" /\ pc' \notin {"codex", "final", "validating"}
    BY <1>6 DEF StateTampered, Return
  <2> QED
    BY <1>6, <2>1, <2>2 DEF StateTampered, Evidence, AllCompleted
<1>7. CASE RejectUnsafeState \/ TamperingFound
  BY <1>6, <1>7 DEF RejectUnsafeState, TamperingFound
<1>8. ASSUME NEW s \in ExecutionStates, s.completed = state.completed, state' = s, Save(s),
             pc # "idle", passed' = passed, tree' = tree \/ tree' = tree \cup {"generated"},
             pc' = "codex" => ~ AllCompleted(s) /\ ~ AllCompleted(file.data),
             pc' = "final" => AllCompleted(s),
             pc' = "validating" => InScope(tree'),
             pc' = "reporting" /\ result'.outcome = "FINAL_VERIFICATION_PASSED" => AllCompleted(s)
      PROVE  Evidence'
  BY <1>8 DEF Save, Regular, Evidence, AllCompleted
<1>9. ASSUME NEW status, NEW class, NEW t, Stop(status, class, t), pc # "idle",
             status \in {"FAILED", "ESCALATED", "SCOPE_VIOLATION"},
             tree' = tree \/ tree' = tree \cup {"generated"}
      PROVE  Evidence'
  <2> DEFINE s == [state EXCEPT !.status = status, !.current = IF t = NoTask THEN @ ELSE t]
  <2>1. s.completed = state.completed
    BY <1>0 DEF ExecutionStates
  <2> HIDE DEF s
  <2>2. Return(s, status, class, t) /\ Save(s) /\ passed' = passed
    BY <1>9 DEF Stop, s
  <2>3. result'.outcome # "FINAL_VERIFICATION_PASSED" /\ pc' \notin {"codex", "final", "validating"}
    BY <1>9, <2>2 DEF Return
  <2>4. state' = s
    BY <2>2 DEF Return
  <2> QED
    BY <1>9, <2>1, <2>2, <2>3, <2>4 DEF Save, Regular, Evidence, AllCompleted
<1>10. CASE CodexLeavesScope \/ CodexFailsEmptyHanded \/ ValidationFails
              \/ RepairLimitReached \/ FinalVerificationFails
  BY <1>9, <1>10 DEF CodexLeavesScope, CodexFailsEmptyHanded, ValidationFails,
       RepairLimitReached, FinalVerificationFails, StatusOfFailure, CommandsRun
<1>11. ASSUME NEW t \in Tasks, StartTask(t)
       PROVE  Evidence'
  <2> DEFINE s == [state EXCEPT !.status = "IMPLEMENTING", !.current = t]
  <2>1. s \in ExecutionStates /\ s.completed = state.completed
    BY <1>0 DEF ExecutionStates, ExecutionStatus
  <2>2. ~ AllCompleted(state)
    BY <1>11 DEF StartTask, Selects, ReadyTasks, AllCompleted
  <2> HIDE DEF s
  <2>3. state' = s /\ Save(s) /\ pc' = "codex" /\ UNCHANGED <<tree, passed>> /\ pc # "idle"
    BY <1>11 DEF StartTask, SafeToLoad, s
  <2>4. ~ AllCompleted(s) /\ ~ AllCompleted(file'.data)
    BY <1>0, <2>1, <2>2, <2>3 DEF Save, Regular, Evidence, AllCompleted
  <2> QED
    BY <2>1, <2>3, <2>4 DEF Save, Regular, Evidence, AllCompleted
<1>12. CASE StartFinalVerification
  <2> DEFINE s == [state EXCEPT !.status = "FINAL_VALIDATING"]
  <2>1. s \in ExecutionStates /\ s.completed = state.completed
    BY <1>0 DEF ExecutionStates, ExecutionStatus
  <2> HIDE DEF s
  <2> QED
    BY <1>8, <1>12, <2>1 DEF StartFinalVerification, SafeToLoad, AllCompleted, s
<1>13. CASE CodexReturns
  <2> DEFINE s == [state EXCEPT !.status = "VALIDATING"]
  <2>1. s \in ExecutionStates /\ s.completed = state.completed
    BY <1>0 DEF ExecutionStates, ExecutionStatus
  <2> HIDE DEF s
  <2> QED
    BY <1>8, <1>13, <2>1 DEF CodexReturns, s
<1>14. CASE StartRepair
  <2> DEFINE s == [state EXCEPT !.status = "IMPLEMENTING", !.repairs = @ + 1]
  <2>1. s \in ExecutionStates /\ s.completed = state.completed
    <3>1. state.repairs + 1 \in Nat
      BY <1>0 DEF ExecutionStates
    <3> QED
      BY <1>0, <3>1 DEF ExecutionStates, ExecutionStatus
  <2>2. ~ AllCompleted(state)
    BY <1>14 DEF StartRepair, Inv, ControlOK, AllCompleted
  <2> HIDE DEF s
  <2>3. state' = s /\ Save(s) /\ pc' = "codex" /\ passed' = passed /\ CommandsRun /\ pc # "idle"
    BY <1>14 DEF StartRepair, s
  <2>4. ~ AllCompleted(s) /\ ~ AllCompleted(file'.data)
    BY <1>0, <2>1, <2>2, <2>3 DEF Save, Regular, Evidence, AllCompleted
  <2> QED
    BY <2>1, <2>3, <2>4 DEF CommandsRun, Save, Regular, Evidence, AllCompleted
<1>15. CASE ValidationPasses
  <2> DEFINE s == [state EXCEPT !.status = "TASK_COMPLETED",
                                !.completed = @ \cup {state.current}]
  <2>1. s.completed = state.completed \cup {state.current}
    BY <1>0 DEF ExecutionStates
  <2> HIDE DEF s
  <2>2. Return(s, "TASK_COMPLETED", "none", state.current) /\ Save(s) /\ CommandsRun
        /\ passed' = passed \cup {state.current} /\ pc = "validating"
    BY <1>15 DEF ValidationPasses, s
  <2>3. state' = s /\ pc' \in {"idle", "cycle"}
    BY <2>2 DEF Return
  <2>4. "outside" \notin tree'
    BY <2>2 DEF CommandsRun, Evidence, InScope
  <2> QED
    BY <1>0, <2>1, <2>2, <2>3, <2>4 DEF Save, Regular, Evidence
<1>16. CASE FinalVerificationPasses
  BY <1>0, <1>8, <1>16 DEF FinalVerificationPasses, Return, CommandsRun, Evidence
<1>17. ASSUME UNCHANGED <<state, file, passed>>, pc' = "idle",
              tree' = tree \/ tree' = tree \cup {"generated"} \/ tree' = {}
       PROVE  Evidence'
  BY <1>17 DEF Evidence, AllCompleted
<1>18. CASE RefuseDirtyWorktree \/ RefuseToImplement \/ RefuseFinalVerification
              \/ CodexRaises \/ ValidationRaises \/ Report
  BY <1>17, <1>18 DEF RefuseDirtyWorktree, RefuseToImplement, RefuseFinalVerification,
       CodexRaises, ValidationRaises, Raise, CommandsRun, Report
<1>19. CASE CodexEdits
  BY <1>19 DEF CodexEdits, control, Inv, ControlOK, Evidence, AllCompleted
<1>20. CASE CodexTouchesState
  BY <1>00, <1>20 DEF CodexTouchesState, control, Evidence, Absent, NonRegular
<1>21. CASE Crash \/ CleanWorktree
  BY <1>17, <1>21 DEF Crash, CleanWorktree, control
<1>22. CASE FreshCheckout \/ InitState
  BY <1>00, <1>22 DEF FreshCheckout, InitState, control, Evidence, Absent, Regular
<1>23. CASE UpdateState
  <2>1. PICK to \in ALLOWED_TRANSITIONS[file.data.status] :
          file' = Regular([file.data EXCEPT !.status = to])
    BY <1>23 DEF UpdateState
  <2>2. file'.data.completed = file.data.completed
    BY <1>0, <2>1 DEF Regular, ExecutionStates
  <2> QED
    BY <1>23, <2>2 DEF UpdateState, control, Evidence, AllCompleted
<1>24. CASE UNCHANGED vars
  BY <1>24 DEF vars, control, Evidence, AllCompleted
<1> QED
  BY <1>1, <1>3, <1>4, <1>5, <1>7, <1>10, <1>11, <1>12, <1>13, <1>14, <1>15, <1>16,
     <1>18, <1>19, <1>20, <1>21, <1>22, <1>23, <1>24
  DEF Next, Start, Progress, Environment

\* Every reachable state has the evidence for what it records.
LEMMA EvidenceInductive == Spec => [](Inv /\ Evidence)
<1>1. Init => Evidence
  BY NewStateIncomplete DEF Init, Evidence, Absent, NewExecutionState, AllCompleted
<1>2. Inv /\ Evidence /\ [Next]_vars => Evidence'
  BY EvidenceStep
<1> QED
  BY <1>1, <1>2, InvInductive, PTL DEF Spec

\* A task is recorded as completed only after its validation passed.
THEOREM CompletedArePassedHolds == Spec => []CompletedArePassed
<1>1. Evidence => CompletedArePassed
  BY DEF Evidence, CompletedArePassed
<1> QED
  BY <1>1, EvidenceInductive, PTL

\* No validation ever judges a tree with an edit outside allowed_paths.
THEOREM VerifiedTreeInScopeHolds == Spec => []VerifiedTreeInScope
<1>1. Evidence => VerifiedTreeInScope
  BY DEF Evidence, VerifiedTreeInScope
<1> QED
  BY <1>1, EvidenceInductive, PTL

\* A report of success covers every task and carries no edit out of scope.
THEOREM PassedReportHolds == Spec => []PassedReport
<1>1. Init => PassedReport
  BY DEF Init, PassedReport, NoReport
<1>2. Inv /\ Evidence /\ PassedReport /\ [Next]_vars => PassedReport'
  <2> SUFFICES ASSUME Inv, Evidence, PassedReport, [Next]_vars
               PROVE  PassedReport'
    OBVIOUS
  <2>1. CASE UNCHANGED report
    BY <2>1 DEF PassedReport
  <2>2. CASE Report
    BY <2>2 DEF Report, WriteReport, PassedReport, Inv, TypeOK, ExecutionStates, Evidence, AllCompleted
  <2>3. CASE StartBlocked
    BY <2>3 DEF StartBlocked, WriteReport, PassedReport, BLOCKED
  <2>4. CASE FreshCheckout
    BY <2>4 DEF FreshCheckout, PassedReport, NoReport
  <2>5. Start => UNCHANGED report \/ StartBlocked
    BY DEF Start, StartEphemeral, StartPersisted, StartRunTask, Begin
  <2>6. Progress => UNCHANGED report \/ Report
    BY DEF Progress, RejectUnsafeState, TamperingFound, StateTampered, StartTask,
       RefuseDirtyWorktree, RefuseToImplement, RefuseFinalVerification, CodexRaises,
       ValidationRaises, Raise, CodexLeavesScope, CodexFailsEmptyHanded, ValidationFails,
       RepairLimitReached, FinalVerificationFails, Stop, CodexReturns, StartRepair,
       StartFinalVerification, ValidationPasses, FinalVerificationPasses, Return
  <2>7. Environment => UNCHANGED report \/ FreshCheckout
    BY DEF Environment, CodexEdits, CodexTouchesState, Crash, CleanWorktree, UpdateState, InitState
  <2>8. CASE UNCHANGED vars
    BY <2>1, <2>8 DEF vars
  <2> QED
    BY <2>1, <2>2, <2>3, <2>4, <2>5, <2>6, <2>7, <2>8 DEF Next
<1> QED
  BY <1>1, <1>2, EvidenceInductive, PTL DEF Spec

-----------------------------------------------------------------------------
(* The loop of run_work_unit *)

\* Each completed cycle has completed one more task.
Counted == pc # "idle" => iter <= Cardinality(state.completed)

\* A set of tasks is finite and has at most NumTasks members.
LEMMA CountCompleted ==
  ASSUME NEW S \in SUBSET Tasks
  PROVE  IsFiniteSet(S) /\ Cardinality(S) \in Nat /\ Cardinality(S) <= NumTasks
<1>1. IsFiniteSet(Tasks) /\ Cardinality(Tasks) = NumTasks
  BY FS_Interval, NumTasksAssumption DEF Tasks
<1>2. IsFiniteSet(S) /\ Cardinality(S) <= Cardinality(Tasks)
  BY <1>1, FS_Subset
<1> QED
  BY <1>1, <1>2, FS_CardinalityType

\* Every step keeps the count.
LEMMA CountStep == Inv /\ Counted /\ [Next]_vars => Counted'
<1> SUFFICES ASSUME Inv, Counted, [Next]_vars
             PROVE  Counted'
  OBVIOUS
<1>0. state \in ExecutionStates /\ iter \in Nat /\ Cardinality(state.completed) \in Nat
  BY CountCompleted DEF Inv, TypeOK, ExecutionStates
<1>1. CASE pc' = "idle"
  BY <1>1 DEF Counted
<1>2. CASE Start
  <2>1. CASE pc' # "idle"
    <3>1. iter' = 0
      BY <1>2, <2>1 DEF Start, StartEphemeral, StartPersisted, StartBlocked, StartRunTask, Begin, CanStart
    <3>2. Cardinality(state'.completed) \in Nat
      BY TypeStep, CountCompleted DEF Inv, TypeOK, ExecutionStates
    <3> QED
      BY <3>1, <3>2 DEF Counted
  <2> QED
    BY <1>1, <2>1
<1>3. ASSUME state'.completed = state.completed, iter' = iter, pc # "idle"
      PROVE  Counted'
  BY <1>3 DEF Counted
<1>4. ASSUME NEW t, StateTampered(t), pc # "idle"
      PROVE  Counted'
  BY <1>0, <1>3, <1>4 DEF StateTampered, Return, ExecutionStates
<1>5. ASSUME NEW status \in {"FAILED", "ESCALATED", "SCOPE_VIOLATION"}, NEW class, NEW t,
             Stop(status, class, t), pc # "idle"
      PROVE  Counted'
  BY <1>0, <1>3, <1>5 DEF Stop, Return, ExecutionStates
<1>6. CASE RejectUnsafeState \/ TamperingFound
  BY <1>4, <1>6 DEF RejectUnsafeState, TamperingFound
<1>7. CASE CodexLeavesScope \/ CodexFailsEmptyHanded \/ ValidationFails
             \/ RepairLimitReached \/ FinalVerificationFails
  BY <1>5, <1>7 DEF CodexLeavesScope, CodexFailsEmptyHanded, ValidationFails,
       RepairLimitReached, FinalVerificationFails, StatusOfFailure
<1>8. ASSUME NEW t \in Tasks, StartTask(t)
      PROVE  Counted'
  BY <1>0, <1>3, <1>8 DEF StartTask, SafeToLoad, ExecutionStates
<1>9. CASE CodexReturns \/ StartRepair \/ StartFinalVerification
  BY <1>0, <1>3, <1>9 DEF CodexReturns, StartRepair, StartFinalVerification, SafeToLoad,
       ExecutionStates
<1>10. CASE FinalVerificationPasses
  BY <1>3, <1>10 DEF FinalVerificationPasses, Return
<1>11. CASE ValidationPasses
  <2>1. state'.completed = state.completed \cup {state.current}
        /\ (iter' = iter \/ iter' = iter + 1)
    BY <1>0, <1>11 DEF ValidationPasses, Return, ExecutionStates
  <2>2. Cardinality(state'.completed) = Cardinality(state.completed) + 1
    BY <1>0, <1>11, <2>1, CountCompleted, FS_AddElement
    DEF ValidationPasses, Inv, ControlOK, ExecutionStates
  <2> QED
    BY <1>0, <1>11, <2>1, <2>2 DEF ValidationPasses, Counted
<1>12. CASE RefuseDirtyWorktree \/ RefuseToImplement \/ RefuseFinalVerification
              \/ CodexRaises \/ ValidationRaises \/ Report
  BY <1>1, <1>12 DEF RefuseDirtyWorktree, RefuseToImplement, RefuseFinalVerification,
       CodexRaises, ValidationRaises, Raise, Report
<1>13. CASE Environment \/ UNCHANGED vars
  BY <1>1, <1>3, <1>13 DEF Environment, CodexEdits, CodexTouchesState, Crash, FreshCheckout,
       CleanWorktree, UpdateState, InitState, control, vars
<1> QED
  BY <1>2, <1>6, <1>7, <1>8, <1>9, <1>10, <1>11, <1>12, <1>13 DEF Next, Progress

\* The loop of run_work_unit never reaches its bound, however many tasks there are.
THEOREM LoopBoundNeverReachedHolds == Spec => []LoopBoundNeverReached
<1>1. Init => Counted
  BY DEF Init, Counted
<1>2. Inv /\ Counted /\ [Next]_vars => Counted'
  BY CountStep
<1>3. Inv /\ Counted => LoopBoundNeverReached
  BY CountCompleted, NumTasksAssumption
  DEF Inv, TypeOK, Counted, LoopBoundNeverReached, ExecutionStates
<1> QED
  BY <1>1, <1>2, <1>3, InvInductive, PTL DEF Spec

-----------------------------------------------------------------------------
(* Action properties *)

\* The status a process is in at each point, and the state file that mirrors
\* the state in memory for as long as the process works on it.
Mirrored ==
  /\ pc = "codex" => state.status = "IMPLEMENTING"
  /\ pc = "validating" => state.status = "VALIDATING"
  /\ pc = "final" => state.status = "FINAL_VALIDATING"
  /\ pc \in {"cycle", "codex", "validating", "final"} /\ file.kind = "regular"
       => file.data = state

\* Every step keeps file and memory in agreement.
LEMMA MirrorStep == Inv /\ Evidence /\ Mirrored /\ [Next]_vars => Mirrored'
<1> SUFFICES ASSUME Inv, Evidence, Mirrored, [Next]_vars
             PROVE  Mirrored'
  OBVIOUS
<1>0. state \in ExecutionStates /\ (Persist \/ file.kind # "regular")
  BY DEF Inv, TypeOK, Evidence
<1>1. CASE pc' \notin {"cycle", "codex", "validating", "final"}
  BY <1>1 DEF Mirrored
<1>2. ASSUME Save(state'), pc' \in {"cycle", "codex", "validating", "final"},
             pc' = "codex" => state'.status = "IMPLEMENTING",
             pc' = "validating" => state'.status = "VALIDATING",
             pc' = "final" => state'.status = "FINAL_VALIDATING"
      PROVE  Mirrored'
  BY <1>0, <1>2 DEF Mirrored, Save, Regular
<1>3. CASE UNCHANGED <<pc, state, file>>
  BY <1>3 DEF Mirrored
<1>4. CASE Start
  BY <1>0, <1>3, <1>4
  DEF Start, StartEphemeral, StartPersisted, StartBlocked, StartRunTask, Begin, Mirrored,
      Regular, CanStart
<1>5. ASSUME NEW t \in Tasks, StartTask(t)
      PROVE  Mirrored'
  BY <1>0, <1>2, <1>5 DEF StartTask, ExecutionStates
<1>6. CASE CodexReturns \/ StartRepair \/ StartFinalVerification
  BY <1>0, <1>2, <1>6 DEF CodexReturns, StartRepair, StartFinalVerification, ExecutionStates
<1>7. CASE ValidationPasses
  BY <1>1, <1>2, <1>7 DEF ValidationPasses, Return
<1>8. CASE RejectUnsafeState \/ TamperingFound \/ FinalVerificationPasses
  BY <1>1, <1>8 DEF RejectUnsafeState, TamperingFound, StateTampered, FinalVerificationPasses, Return
<1>9. ASSUME NEW status, NEW class, NEW t, Stop(status, class, t),
             status \in {"FAILED", "ESCALATED", "SCOPE_VIOLATION"}
      PROVE  Mirrored'
  BY <1>1, <1>9 DEF Stop, Return
<1>10. CASE CodexLeavesScope \/ CodexFailsEmptyHanded \/ ValidationFails
              \/ RepairLimitReached \/ FinalVerificationFails
  BY <1>9, <1>10 DEF CodexLeavesScope, CodexFailsEmptyHanded, ValidationFails,
       RepairLimitReached, FinalVerificationFails, StatusOfFailure
<1>11. CASE RefuseDirtyWorktree \/ RefuseToImplement \/ RefuseFinalVerification
              \/ CodexRaises \/ ValidationRaises \/ Report
  BY <1>1, <1>11 DEF RefuseDirtyWorktree, RefuseToImplement, RefuseFinalVerification,
       CodexRaises, ValidationRaises, Raise, Report
<1>12. CASE CodexTouchesState
  BY <1>12 DEF CodexTouchesState, control, Mirrored, Absent, NonRegular
<1>13. CASE CodexEdits \/ UNCHANGED vars
  BY <1>3, <1>13 DEF CodexEdits, control, vars
<1>14. CASE Crash \/ FreshCheckout \/ CleanWorktree \/ UpdateState \/ InitState
  BY <1>1, <1>14 DEF Crash, FreshCheckout, CleanWorktree, UpdateState, InitState, control
<1> QED
  BY <1>4, <1>5, <1>6, <1>7, <1>8, <1>10, <1>11, <1>12, <1>13, <1>14
  DEF Next, Progress, Environment

\* In every reachable state the saved state mirrors the one in memory.
LEMMA MirrorInductive == Spec => [](Inv /\ Evidence /\ Mirrored)
<1>1. Init => Mirrored
  BY DEF Init, Mirrored, Absent
<1>2. Inv /\ Evidence /\ Mirrored /\ [Next]_vars => Mirrored'
  BY MirrorStep
<1> QED
  BY <1>1, <1>2, EvidenceInductive, PTL DEF Spec

\* The rows of the table a running process uses.
LEMMA TableRows ==
  /\ \A s \in {"RUNNING", "TASK_COMPLETED", "VALIDATING"} : CanTransit(s, "IMPLEMENTING")
  /\ CanTransit("TASK_COMPLETED", "FINAL_VALIDATING")
  /\ CanTransit("IMPLEMENTING", "VALIDATING")
  /\ CanTransit("VALIDATING", "TASK_COMPLETED")
  /\ CanTransit("IMPLEMENTING", "SCOPE_VIOLATION")
  /\ \A s \in {"IMPLEMENTING", "VALIDATING", "FINAL_VALIDATING"}, t \in Stopped : CanTransit(s, t)
BY DEF CanTransit, ALLOWED_TRANSITIONS, ExecutionStatus, Stopped

\* No row of the transition table leads out of a blocked status.
LEMMA BlockedRows == \A s \in BLOCKED : ALLOWED_TRANSITIONS[s] = {}
BY DEF ALLOWED_TRANSITIONS, BLOCKED, ExecutionStatus

\* A running process moves its status along the edges of the table.
THEOREM StepsFollowTransitionTableHolds == Spec => StepsFollowTransitionTable
<1>1. Inv /\ Evidence /\ Mirrored /\ [Next]_vars
        => (pc # "idle" => LegalStep(state.status, state'.status))
  <2> SUFFICES ASSUME Inv, Evidence, Mirrored, [Next]_vars, pc # "idle"
               PROVE  LegalStep(state.status, state'.status)
    OBVIOUS
  <2> USE DEF LegalStep
  <2>0. state \in ExecutionStates
    BY DEF Inv, TypeOK
  <2>1. CASE UNCHANGED state
    BY <2>1
  <2>2. ASSUME NEW t, StateTampered(t)
        PROVE  LegalStep(state.status, state'.status)
    BY <2>0, <2>2 DEF StateTampered, Return, ExecutionStates
  <2>3. CASE RejectUnsafeState \/ TamperingFound
    BY <2>2, <2>3 DEF RejectUnsafeState, TamperingFound
  <2>4. ASSUME NEW status \in Stopped, NEW class, NEW t, Stop(status, class, t),
               state.status \in {"IMPLEMENTING", "VALIDATING", "FINAL_VALIDATING"}
        PROVE  LegalStep(state.status, state'.status)
    BY <2>0, <2>4, TableRows DEF Stop, Return, ExecutionStates
  <2>5. CASE CodexFailsEmptyHanded \/ ValidationFails \/ RepairLimitReached
               \/ FinalVerificationFails
    BY <2>4, <2>5 DEF CodexFailsEmptyHanded, ValidationFails, RepairLimitReached,
         FinalVerificationFails, StatusOfFailure, Stopped, Mirrored
  <2>6. CASE CodexLeavesScope
    BY <2>0, <2>6, TableRows DEF CodexLeavesScope, Stop, Return, Mirrored, ExecutionStates
  <2>7. ASSUME NEW t \in Tasks, StartTask(t)
        PROVE  LegalStep(state.status, state'.status)
    BY <2>0, <2>7, TableRows DEF StartTask, Implementable, ExecutionStates
  <2>8. CASE CodexReturns \/ StartRepair \/ StartFinalVerification \/ ValidationPasses
    BY <2>0, <2>8, TableRows
    DEF CodexReturns, StartRepair, StartFinalVerification, ValidationPasses, Return, Mirrored,
        ExecutionStates
  <2>9. CASE RefuseDirtyWorktree \/ RefuseToImplement \/ RefuseFinalVerification
               \/ CodexRaises \/ ValidationRaises \/ Report \/ FinalVerificationPasses
    BY <2>1, <2>9 DEF RefuseDirtyWorktree, RefuseToImplement, RefuseFinalVerification,
         CodexRaises, ValidationRaises, Raise, Report, FinalVerificationPasses, Return
  <2>10. CASE Start
    BY <2>10 DEF Start, StartEphemeral, StartPersisted, StartBlocked, StartRunTask, CanStart
  <2>11. CASE Environment \/ UNCHANGED vars
    BY <2>1, <2>11 DEF Environment, CodexEdits, CodexTouchesState, Crash, FreshCheckout,
         CleanWorktree, UpdateState, InitState, control, vars
  <2> QED
    BY <2>3, <2>5, <2>6, <2>7, <2>8, <2>9, <2>10, <2>11 DEF Next, Progress
<1> QED
  BY <1>1, MirrorInductive, PTL DEF Spec, StepsFollowTransitionTable

\* No step of a process replaces a state file that blocks the work unit.
THEOREM BlockedStateIsStickyHolds == Spec => BlockedStateIsSticky
<1> DEFINE Kept == \/ file' = file
                   \/ pc = "idle" /\ pc' = "idle"
                        /\ file' \in {Absent, Regular(NewExecutionState)}
<1>1. Inv /\ Evidence /\ Mirrored /\ [Next]_vars
        => (file.kind = "regular" /\ file.data.status \in BLOCKED => Kept)
  <2> SUFFICES ASSUME Inv, Evidence, Mirrored, [Next]_vars,
                      file.kind = "regular", file.data.status \in BLOCKED
               PROVE  Kept
    OBVIOUS
  <2>1. pc \in {"cycle", "codex", "validating", "final"} => pc = "cycle" /\ state.status \in BLOCKED
    BY DEF Mirrored, BLOCKED
  <2>2. CASE Start
    BY <2>2 DEF Start, StartEphemeral, StartPersisted, StartBlocked, StartRunTask, Evidence
  <2>3. CASE RejectUnsafeState \/ TamperingFound
    BY <2>3 DEF RejectUnsafeState, TamperingFound, StateTampered
  <2>4. ASSUME NEW t \in Tasks, StartTask(t)
        PROVE  Kept
    BY <2>1, <2>4 DEF StartTask, SafeToLoad, Implementable, BLOCKED
  <2>5. CASE StartFinalVerification
    BY <2>1, <2>5 DEF StartFinalVerification, SafeToLoad, BLOCKED
  <2>6. CASE CodexLeavesScope \/ CodexFailsEmptyHanded \/ CodexReturns \/ ValidationPasses
               \/ ValidationFails \/ RepairLimitReached \/ StartRepair
               \/ FinalVerificationPasses \/ FinalVerificationFails \/ CodexTouchesState
    BY <2>1, <2>6 DEF CodexLeavesScope, CodexFailsEmptyHanded, CodexReturns, ValidationPasses,
         ValidationFails, RepairLimitReached, StartRepair, FinalVerificationPasses,
         FinalVerificationFails, CodexTouchesState
  <2>7. CASE RefuseDirtyWorktree \/ RefuseToImplement \/ RefuseFinalVerification
               \/ CodexRaises \/ ValidationRaises \/ Report
    BY <2>7 DEF RefuseDirtyWorktree, RefuseToImplement, RefuseFinalVerification,
         CodexRaises, ValidationRaises, Raise, Report
  <2>8. CASE UpdateState
    BY <2>8, BlockedRows DEF UpdateState
  <2>9. CASE CodexEdits \/ Crash \/ FreshCheckout \/ CleanWorktree \/ InitState \/ UNCHANGED vars
    BY <2>9 DEF CodexEdits, Crash, FreshCheckout, CleanWorktree, InitState, control, vars
  <2> QED
    BY <2>2, <2>3, <2>4, <2>5, <2>6, <2>7, <2>8, <2>9 DEF Next, Progress, Environment
<1> QED
  BY <1>1, MirrorInductive, PTL DEF Spec, BlockedStateIsSticky

\* Completed tasks and spent repairs survive every crash, retry and restart.
THEOREM ProgressSurvivesHolds == Spec => ProgressSurvives
<1> DEFINE Before == file.kind = "regular" /\ file'.kind = "regular" /\ file.data.completed # {}
           Grows(s) == /\ file.data.completed \subseteq s.completed
                       /\ file.data.repairs <= s.repairs
           Anew == StartsOver /\ (pc' = "cycle" => file.data.status = "PR_CREATED")
<1>1. Inv /\ Evidence /\ Mirrored /\ [Next]_vars /\ Before => Grows(file'.data) \/ Anew
  <2> SUFFICES ASSUME Inv, Evidence, Mirrored, [Next]_vars, Before
               PROVE  Grows(file'.data) \/ Anew
    OBVIOUS
  <2>0. file.data \in ExecutionStates /\ state \in ExecutionStates
    BY DEF Inv, TypeOK, StateFile
  <2>1. CASE file' = file
    BY <2>0, <2>1 DEF ExecutionStates
  <2>2. CASE StartPersisted
    <3>1. file' = Regular(PrepareState(file.data)) /\ pc = "idle" /\ pc' = "cycle"
      BY <2>2 DEF StartPersisted, Begin, CanStart
    <3>2. CASE file.data.status = "PR_CREATED"
      <4>1. PrepareState(file.data) = NewExecutionState
        BY <3>2 DEF PrepareState, IN_FLIGHT
      <4> QED
        BY <3>1, <3>2, <4>1 DEF StartsOver
    <3>3. CASE file.data.status # "PR_CREATED"
      <4>1. PrepareState(file.data) \in
              { file.data, [file.data EXCEPT !.status = "RUNNING"],
                [file.data EXCEPT !.status = "TASK_COMPLETED"] }
        BY <3>3 DEF PrepareState, RecoverInFlight
      <4> QED
        BY <2>0, <3>1, <4>1 DEF Regular, ExecutionStates
    <3> QED
      BY <3>2, <3>3
  <2>3. CASE StartEphemeral \/ StartBlocked \/ StartRunTask
    BY <2>1, <2>3 DEF StartEphemeral, StartBlocked, StartRunTask
  <2>4. ASSUME Save(state'), pc \in {"cycle", "codex", "validating", "final"},
               state.completed \subseteq state'.completed, state.repairs <= state'.repairs
        PROVE  Grows(file'.data)
    BY <2>0, <2>4 DEF Save, Regular, Mirrored, ExecutionStates
  <2>5. ASSUME NEW t \in Tasks, StartTask(t)
        PROVE  Grows(file'.data)
    BY <2>0, <2>4, <2>5 DEF StartTask, SafeToLoad, ExecutionStates
  <2>6. ASSUME NEW status, NEW class, NEW t, Stop(status, class, t),
               pc \in {"codex", "validating", "final"}
        PROVE  Grows(file'.data)
    BY <2>0, <2>4, <2>6 DEF Stop, Return, ExecutionStates
  <2>7. CASE CodexLeavesScope \/ CodexFailsEmptyHanded \/ ValidationFails
               \/ RepairLimitReached \/ FinalVerificationFails
    BY <2>6, <2>7 DEF CodexLeavesScope, CodexFailsEmptyHanded, ValidationFails,
         RepairLimitReached, FinalVerificationFails
  <2>8. CASE CodexReturns \/ StartFinalVerification \/ FinalVerificationPasses
    BY <2>0, <2>4, <2>8 DEF CodexReturns, StartFinalVerification, FinalVerificationPasses,
         SafeToLoad, Return, ExecutionStates
  <2>9. CASE ValidationPasses
    BY <2>0, <2>4, <2>9 DEF ValidationPasses, Return, ExecutionStates
  <2>10. CASE StartRepair
    BY <2>0, <2>4, <2>10 DEF StartRepair, ExecutionStates
  <2>11. CASE RejectUnsafeState \/ TamperingFound \/ RefuseDirtyWorktree \/ RefuseToImplement
                \/ RefuseFinalVerification \/ CodexRaises \/ ValidationRaises \/ Report
    BY <2>1, <2>11 DEF RejectUnsafeState, TamperingFound, StateTampered, RefuseDirtyWorktree,
         RefuseToImplement, RefuseFinalVerification, CodexRaises, ValidationRaises, Raise, Report
  <2>12. CASE CodexEdits \/ Crash \/ CleanWorktree \/ UNCHANGED vars
    BY <2>1, <2>12 DEF CodexEdits, Crash, CleanWorktree, control, vars
  <2>13. CASE CodexTouchesState \/ FreshCheckout
    BY <2>13 DEF CodexTouchesState, FreshCheckout, Absent, NonRegular
  <2>14. CASE UpdateState
    BY <2>0, <2>14 DEF UpdateState, Regular, ExecutionStates
  <2>15. CASE InitState
    BY <2>15 DEF InitState, StartsOver, control
  <2> QED
    BY <2>2, <2>3, <2>5, <2>7, <2>8, <2>9, <2>10, <2>11, <2>12, <2>13, <2>14, <2>15
    DEF Next, Start, Progress, Environment
<1> QED
  BY <1>1, MirrorInductive, PTL DEF Spec, ProgressSurvives

-----------------------------------------------------------------------------
(* The work unit implements TaskLedger *)

\* In a workspace that persists, the state file is there whenever the process
\* is about to rely on it.
Anchored ==
  Persist =>
    /\ pc = "cycle" => file.kind # "absent"
    /\ pc = "codex" => mark = Regular(state)
    /\ pc \in {"validating", "final"} => file = Regular(state)
    /\ pc = "reporting" /\ result.outcome = "FINAL_VERIFICATION_PASSED" => file = Regular(state)

\* Every step keeps the state file in its place.
LEMMA AnchorStep == Inv /\ Mirrored /\ Anchored /\ [Next]_vars => Anchored'
<1> SUFFICES ASSUME Inv, Mirrored, Anchored, Persist, [Next]_vars
             PROVE  Anchored'
  BY ModeFixed DEF Anchored
<1>p. Persist' = Persist
  BY ModeFixed
<1> USE <1>p
<1>1. CASE pc' = "idle"
  BY <1>1 DEF Anchored
<1>2. ASSUME file' = Regular(state'), pc' = "codex" => mark' = file'
      PROVE  Anchored'
  BY <1>2 DEF Anchored, Regular
<1>3. CASE UNCHANGED <<pc, state, mark, result, file>>
  BY <1>3 DEF Anchored
<1>4. CASE Start
  <2>1. CASE StartPersisted
    BY <2>1 DEF StartPersisted, Begin, Anchored, Regular
  <2>2. CASE StartRunTask
    BY <2>2 DEF StartRunTask, Begin, Anchored, Regular
  <2>3. CASE StartEphemeral \/ StartBlocked
    BY <1>3, <2>3 DEF StartEphemeral, StartBlocked
  <2> QED
    BY <1>4, <2>1, <2>2, <2>3 DEF Start
<1>5. ASSUME NEW t \in Tasks, StartTask(t)
      PROVE  Anchored'
  BY <1>2, <1>5 DEF StartTask, Save
<1>6. CASE CodexReturns \/ StartRepair \/ StartFinalVerification
  BY <1>2, <1>6 DEF CodexReturns, StartRepair, StartFinalVerification, Save
<1>7. CASE ValidationPasses \/ FinalVerificationPasses
  <2>1. file' = Regular(state') /\ pc' # "codex"
    <3>1. CASE ValidationPasses
      BY <3>1 DEF ValidationPasses, Return, Save
    <3>2. CASE FinalVerificationPasses
      BY <3>2 DEF FinalVerificationPasses, Return, Save
    <3> QED
      BY <1>7, <3>1, <3>2
  <2> QED
    BY <1>2, <2>1
<1>8. CASE RejectUnsafeState \/ TamperingFound
  <2>1. ASSUME NEW t, StateTampered(t)
        PROVE  result'.outcome = "SCOPE_VIOLATION" /\ pc' \in {"idle", "reporting"}
    BY <2>1 DEF StateTampered, Return
  <2>2. result'.outcome = "SCOPE_VIOLATION" /\ pc' \in {"idle", "reporting"}
    BY <1>8, <2>1 DEF RejectUnsafeState, TamperingFound
  <2> QED
    BY <2>2 DEF Anchored
<1>9. ASSUME NEW status, NEW class, NEW t, Stop(status, class, t),
             status \in {"FAILED", "ESCALATED", "SCOPE_VIOLATION"}
      PROVE  Anchored'
  BY <1>2, <1>9 DEF Stop, Return, Save
<1>10. CASE CodexLeavesScope \/ CodexFailsEmptyHanded \/ ValidationFails
              \/ RepairLimitReached \/ FinalVerificationFails
  BY <1>9, <1>10 DEF CodexLeavesScope, CodexFailsEmptyHanded, ValidationFails,
       RepairLimitReached, FinalVerificationFails, StatusOfFailure
<1>11. CASE RefuseDirtyWorktree \/ RefuseToImplement \/ RefuseFinalVerification
              \/ CodexRaises \/ ValidationRaises \/ Report
  BY <1>1, <1>11 DEF RefuseDirtyWorktree, RefuseToImplement, RefuseFinalVerification,
       CodexRaises, ValidationRaises, Raise, Report
<1>12. CASE CodexTouchesState
  BY <1>12 DEF CodexTouchesState, control, Anchored
<1>13. CASE CodexEdits \/ UNCHANGED vars
  BY <1>3, <1>13 DEF CodexEdits, control, vars
<1>14. CASE Crash \/ FreshCheckout \/ CleanWorktree \/ UpdateState \/ InitState
  BY <1>1, <1>14 DEF Crash, FreshCheckout, CleanWorktree, UpdateState, InitState, control
<1> QED
  BY <1>4, <1>5, <1>6, <1>7, <1>8, <1>10, <1>11, <1>12, <1>13, <1>14
  DEF Next, Progress, Environment

\* In every reachable state a running process is anchored in what was saved.
LEMMA AnchorInductive == Spec => [](Inv /\ Evidence /\ Mirrored /\ Anchored)
<1>1. Init => Anchored
  BY DEF Init, Anchored
<1>2. Inv /\ Mirrored /\ Anchored /\ [Next]_vars => Anchored'
  BY AnchorStep
<1> QED
  BY <1>1, <1>2, MirrorInductive, PTL DEF Spec

\* The refinement mapping.
Done    == IF Persist THEN file.data.completed ELSE state.completed
Verdict == IF report.outcome = "none" THEN "none"
           ELSE IF report.outcome = "FINAL_VERIFICATION_PASSED" THEN "passed" ELSE "refused"

\* Every step of the work unit is a step of the ledger, or a stutter of it.
LEMMA LedgerNext ==
  ASSUME Inv, Evidence, Mirrored, Anchored, [Next]_vars
  PROVE  [Promise!Next]_(Promise!vars)
<1> USE DEF Promise!vars, Promise!Next
<1>p. Persist' = Persist
  BY ModeFixed
<1> USE <1>p
<1>0. state \in ExecutionStates /\ file.data \in ExecutionStates /\ FileOK
  BY DEF Inv, TypeOK, StateFile, Ledger
<1>1. ASSUME Done' = Done, Verdict' = Verdict
      PROVE  [Promise!Next]_(Promise!vars)
  BY <1>1 DEF Done, Verdict
<1>2. ASSUME Done' = {}, Verdict' = Verdict
      PROVE  [Promise!Next]_(Promise!vars)
  BY <1>2 DEF Promise!StartOver, Done, Verdict
<1>3. CASE StartEphemeral
  BY <1>2, <1>3 DEF StartEphemeral, Begin, Done, Verdict, NewExecutionState
<1>4. CASE StartPersisted
  <2> DEFINE s == IF file.kind = "absent" THEN NewExecutionState ELSE PrepareState(file.data)
  <2>1. s.completed \in {{}, file.data.completed}
    BY <1>0 DEF PrepareState, RecoverInFlight, ExecutionStates, NewExecutionState
  <2> HIDE DEF s
  <2>2. file' = Regular(s) /\ Persist /\ UNCHANGED report
    BY <1>4 DEF StartPersisted, Begin, s
  <2> QED
    BY <1>1, <1>2, <2>1, <2>2 DEF Done, Verdict, Regular
<1>5. CASE StartRunTask
  BY <1>0, <1>1, <1>5 DEF StartRunTask, Begin, Done, Verdict, FileOK, Regular
<1>6. CASE StartBlocked
  <2>1. report'.outcome \notin {"none", "FINAL_VERIFICATION_PASSED"}
    BY <1>6 DEF StartBlocked, WriteReport, BLOCKED
  <2> QED
    BY <1>6, <2>1 DEF StartBlocked, Promise!Refuse
<1>7. ASSUME state'.completed = state.completed, UNCHANGED report,
             file' = file \/ file'.data.completed = file.data.completed
      PROVE  [Promise!Next]_(Promise!vars)
  BY <1>1, <1>7 DEF Done, Verdict
<1>8. CASE RejectUnsafeState \/ TamperingFound
  BY <1>0, <1>7, <1>8 DEF RejectUnsafeState, TamperingFound, StateTampered, Return, ExecutionStates
<1>9. CASE RefuseDirtyWorktree \/ RefuseToImplement \/ RefuseFinalVerification
             \/ CodexRaises \/ ValidationRaises
  BY <1>7, <1>9 DEF RefuseDirtyWorktree, RefuseToImplement, RefuseFinalVerification,
       CodexRaises, ValidationRaises, Raise
<1>10. ASSUME Save(state'), state'.completed = state.completed, UNCHANGED report,
              Persist => file.data = state
       PROVE  [Promise!Next]_(Promise!vars)
  BY <1>7, <1>10 DEF Save, Regular
<1>11. /\ pc \in {"validating", "final"} => (Persist => file.data = state)
       /\ SafeToLoad => (Persist => file.data = state)
       /\ pc = "codex" /\ file = mark => (Persist => file.data = state)
  BY <1>0 DEF Anchored, Regular, Mirrored, SafeToLoad, Inv, TypeOK, StateFile
<1>12. ASSUME NEW t \in Tasks, StartTask(t)
       PROVE  [Promise!Next]_(Promise!vars)
  BY <1>0, <1>10, <1>11, <1>12 DEF StartTask, ExecutionStates
<1>13. CASE CodexReturns \/ StartRepair \/ StartFinalVerification
  BY <1>0, <1>10, <1>11, <1>13 DEF CodexReturns, StartRepair, StartFinalVerification, ExecutionStates
<1>14. ASSUME NEW status, NEW class, NEW t, Stop(status, class, t), Persist => file.data = state
       PROVE  [Promise!Next]_(Promise!vars)
  BY <1>0, <1>10, <1>14 DEF Stop, Return, ExecutionStates
<1>15. CASE CodexLeavesScope \/ CodexFailsEmptyHanded
  BY <1>11, <1>14, <1>15 DEF CodexLeavesScope, CodexFailsEmptyHanded
<1>16. CASE ValidationFails \/ RepairLimitReached \/ FinalVerificationFails
  BY <1>11, <1>14, <1>16 DEF ValidationFails, RepairLimitReached, FinalVerificationFails
<1>17. CASE ValidationPasses
  <2>1. state'.completed = state.completed \cup {state.current} /\ Save(state') /\ UNCHANGED report
    BY <1>0, <1>17 DEF ValidationPasses, Return, ExecutionStates
  <2>2. /\ state.current \in Tasks \ state.completed
        /\ DependsOn[state.current] \subseteq state.completed
    BY <1>17 DEF ValidationPasses, Inv, ControlOK, Ledger, Sound
  <2>3. Done = state.completed /\ Done' = Done \cup {state.current} /\ Verdict' = Verdict
    <3>1. CASE Persist
      <4>1. file.data = state
        BY <1>11, <1>17, <3>1 DEF ValidationPasses
      <4>2. file'.data = state'
        BY <2>1, <3>1 DEF Save, Regular
      <4> QED
        BY <2>1, <3>1, <4>1, <4>2 DEF Done, Verdict
    <3>2. CASE ~ Persist
      BY <2>1, <3>2 DEF Done, Verdict
    <3> QED
      BY <3>1, <3>2
  <2>4. Promise!Complete(state.current)
    BY <2>2, <2>3 DEF Promise!Complete, Done, Verdict
  <2> QED
    BY <2>2, <2>4
<1>18. CASE FinalVerificationPasses
  BY <1>10, <1>11, <1>18 DEF FinalVerificationPasses, Return
<1>19. CASE Report
  <2>1. UNCHANGED <<file, state>> /\ Done' = Done /\ report'.outcome = result.outcome
    BY <1>19 DEF Report, WriteReport, Done
  <2>2. CASE result.outcome = "FINAL_VERIFICATION_PASSED"
    <3>1. Done = Tasks
      BY <1>0, <1>19, <2>2
      DEF Report, Evidence, Anchored, AllCompleted, Done, ExecutionStates, Regular
    <3> QED
      BY <2>1, <2>2, <3>1 DEF Promise!Pass, Done
  <2>3. CASE result.outcome # "FINAL_VERIFICATION_PASSED"
    <3>1. result.outcome # "none"
      BY <1>19 DEF Report, Inv, ControlOK, CycleOutcome
    <3> QED
      BY <2>1, <2>3, <3>1 DEF Promise!Refuse, Done
  <2> QED
    BY <2>2, <2>3
<1>20. CASE CodexEdits \/ Crash \/ CleanWorktree \/ UNCHANGED vars
  BY <1>7, <1>20 DEF CodexEdits, Crash, CleanWorktree, control, vars
<1>21. CASE CodexTouchesState \/ InitState
  BY <1>1, <1>2, <1>21 DEF CodexTouchesState, InitState, control, Done, Verdict, Absent,
       NonRegular, Regular, NewExecutionState
<1>22. CASE FreshCheckout
  BY <1>22 DEF FreshCheckout, control, Promise!Leave, Absent, NewExecutionState, NoReport
<1>23. CASE UpdateState
  BY <1>0, <1>7, <1>23 DEF UpdateState, control, Regular, ExecutionStates
<1> QED
  BY <1>3, <1>4, <1>5, <1>6, <1>8, <1>9, <1>12, <1>13, <1>15, <1>16, <1>17, <1>18, <1>19,
     <1>20, <1>21, <1>22, <1>23
  DEF Next, Start, Progress, Environment

\* For every Task Spec, an execution of the work unit is one of the ledger.
THEOREM ImplementsLedger == Spec => KeepsThePromise
<1>1. Init => Promise!Init
  BY DEF Init, Promise!Init, Absent, NewExecutionState, NoReport
<1>2. Inv /\ Evidence /\ Mirrored /\ Anchored /\ [Next]_vars => [Promise!Next]_(Promise!vars)
  BY LedgerNext
<1> QED
  BY <1>1, <1>2, AnchorInductive, PTL DEF Spec, KeepsThePromise, Promise!Spec

-----------------------------------------------------------------------------
(* The reports *)

\* A result a cycle left behind names an outcome of a cycle, and the class that
\* the outcome requires.
ResultFits ==
  result # NoResult => result.outcome \in CycleOutcome /\ ClassFits(result.outcome, result.class)

\* The class of a stop agrees with the status it stops in.
LEMMA StopFits ==
  /\ \A class \in {"ENVIRONMENT_FAILURE", "ESCALATION_REQUIRED"} :
       ClassFits(StatusOfFailure(class), class)
  /\ \A class \in FailureClass :
       /\ ClassFits(StatusOfFailure(class), class)
       /\ StatusOfFailure(class) \in CycleOutcome
  /\ ClassFits("SCOPE_VIOLATION", "ESCALATION_REQUIRED")
  /\ ClassFits("ESCALATED", "AGENT_REPAIRABLE")
  /\ ClassFits("TASK_COMPLETED", "none") /\ ClassFits("FINAL_VERIFICATION_PASSED", "none")
BY DEF ClassFits, StatusOfFailure, FailureClass, CycleOutcome

\* Every step that sets a result sets one that fits.
LEMMA ResultStep == ResultFits /\ [Next]_vars => ResultFits'
<1> SUFFICES ASSUME ResultFits, [Next]_vars
             PROVE  ResultFits'
  OBVIOUS
<1>1. CASE UNCHANGED result
  BY <1>1 DEF ResultFits
<1>2. CASE result' = NoResult
  BY <1>2 DEF ResultFits, NoResult
<1>3. ASSUME NEW s, NEW outcome \in CycleOutcome, NEW class, NEW task,
             Return(s, outcome, class, task), ClassFits(outcome, class)
      PROVE  ResultFits'
  <2>1. result'.outcome = outcome /\ result'.class = class
    BY <1>3 DEF Return
  <2> QED
    BY <1>3, <2>1 DEF ResultFits
<1>4. CASE RejectUnsafeState \/ TamperingFound
  BY <1>3, <1>4, StopFits DEF RejectUnsafeState, TamperingFound, StateTampered, CycleOutcome
<1>5. CASE CodexLeavesScope \/ RepairLimitReached
  BY <1>3, <1>5, StopFits DEF CodexLeavesScope, RepairLimitReached, Stop, CycleOutcome
<1>6. CASE CodexFailsEmptyHanded \/ ValidationFails \/ FinalVerificationFails
  BY <1>3, <1>6, StopFits
  DEF CodexFailsEmptyHanded, ValidationFails, FinalVerificationFails, Stop, FailureClass
<1>7. CASE ValidationPasses \/ FinalVerificationPasses
  BY <1>3, <1>7, StopFits DEF ValidationPasses, FinalVerificationPasses, CycleOutcome
<1>8. CASE Start
  BY <1>1, <1>2, <1>8 DEF Start, StartEphemeral, StartPersisted, StartBlocked, StartRunTask, Begin
<1>9. CASE RefuseDirtyWorktree \/ RefuseToImplement \/ RefuseFinalVerification
              \/ CodexRaises \/ ValidationRaises \/ StartFinalVerification \/ Report
              \/ CodexReturns \/ StartRepair \/ \E t \in Tasks : StartTask(t)
  BY <1>1, <1>9 DEF RefuseDirtyWorktree, RefuseToImplement, RefuseFinalVerification,
       CodexRaises, ValidationRaises, Raise, StartFinalVerification, Report,
       CodexReturns, StartRepair, StartTask
<1>10. CASE Environment
  BY <1>1, <1>10 DEF Environment, CodexEdits, CodexTouchesState, Crash, FreshCheckout,
       CleanWorktree, UpdateState, InitState, control
<1>11. CASE UNCHANGED vars
  BY <1>1, <1>11 DEF vars, control
<1> QED
  BY <1>4, <1>5, <1>6, <1>7, <1>8, <1>9, <1>10, <1>11 DEF Next, Progress

\* A state of this Task Spec holds no task that it does not have.
LEMMA NoUnknownTask == Unknown \notin Tasks
BY NumTasksAssumption DEF Unknown, Tasks

\* A report that is built for a state of this Task Spec, with a class and a code
\* that fit its outcome, is accepted wherever it is read.
LEMMA BuiltReportDelivers ==
  ASSUME NEW outcome \in WorkUnitOutcome, NEW s \in ExecutionStates,
         NEW class \in FailureClass \cup {"none"}, NEW code,
         ClassFits(outcome, class),
         outcome = "FINAL_VERIFICATION_PASSED" => AllCompleted(s) /\ code = "none"
  PROVE  Delivers(_build_work_unit_report(outcome, s, class, code, target_branch))
<1> DEFINE r == _build_work_unit_report(outcome, s, class, code, target_branch)
<1>1. /\ r.outcome = outcome /\ r.class = class /\ r.code = code /\ r.state = s
      /\ r.branch = target_branch
      /\ r.completed = s.completed /\ r.repairs = s.repairs
      /\ r.compat = derived_compat_booleans(outcome)
  BY DEF _build_work_unit_report
<1>2. s.completed \subseteq Tasks /\ s.repairs \in Nat /\ s.status \in ExecutionStatus
  BY DEF ExecutionStates
<1> HIDE DEF r
<1>3. Succeeds(outcome) => code = "none"
  BY DEF Succeeds, WorkUnitOutcome, CycleOutcome
<1>4. Consistent(r)
  <2>1. BranchOf(s) = target_branch
    BY <1>2, NoUnknownTask DEF BranchOf
  <2> QED
    BY <1>1, <1>3, <2>1 DEF Consistent, _as_work_unit_outcome
<1>5. FitsSpec(r)
  BY <1>1, <1>2 DEF FitsSpec, AllCompleted
<1>6. validate_work_unit_report(r)
  BY <1>4, <1>5 DEF validate_work_unit_report
<1>7. validate_work_unit_report_dict(r)
  BY <1>1, <1>2 DEF validate_work_unit_report_dict, _as_work_unit_outcome, _as_report_class
<1>8. load_work_unit_report(r)
  BY <1>1, <1>2, <1>6, <1>7
  DEF load_work_unit_report, _as_work_unit_outcome, _as_report_class
<1>9. assert_commit_allowed(r) <=> run_work_unit_cli(r) = "ok"
  <2>1. run_work_unit_cli(r) = WORK_UNIT_EXIT_CODES(outcome)
    BY <1>1, <1>4, <1>7 DEF run_work_unit_cli, write_work_unit_report
  <2>2. WORK_UNIT_EXIT_CODES(outcome) = "ok" <=> outcome = "FINAL_VERIFICATION_PASSED"
    BY DEF WORK_UNIT_EXIT_CODES
  <2> QED
    BY <1>1, <2>1, <2>2 DEF assert_commit_allowed
<1> QED
  BY <1>6, <1>8, <1>9 DEF Delivers, r

\* A report for a state of another Task Spec can be written.
LEMMA ForeignReportIsWritten ==
  ASSUME NEW outcome \in WorkUnitOutcome \ {"FINAL_VERIFICATION_PASSED"},
         NEW s, s.repairs \in Nat,
         NEW class \in FailureClass \cup {"none"}, NEW code, NEW branch, branch = BranchOf(s),
         ClassFits(outcome, class)
  PROVE  write_work_unit_report(_build_work_unit_report(outcome, s, class, code, branch))
<1> DEFINE r == _build_work_unit_report(outcome, s, class, code, branch)
<1>1. /\ r.outcome = outcome /\ r.class = class /\ r.code = code /\ r.state = s
      /\ r.branch = BranchOf(r.state)
      /\ r.completed = s.completed /\ r.repairs = s.repairs
      /\ r.compat = derived_compat_booleans(outcome)
  BY DEF _build_work_unit_report
<1> HIDE DEF r
<1>2. ~ Succeeds(outcome)
  BY DEF Succeeds, WorkUnitOutcome, CycleOutcome
<1>3. Consistent(r)
  BY <1>1, <1>2 DEF Consistent, _as_work_unit_outcome
<1>4. validate_work_unit_report_dict(r)
  BY <1>1 DEF validate_work_unit_report_dict, _as_work_unit_outcome, _as_report_class
<1> QED
  BY <1>3, <1>4 DEF write_work_unit_report, r

\* What a reachable state owes its reports to.
LEMMA ReportsRead == Inv /\ Evidence /\ ResultFits => EveryReportIsRead
<1> SUFFICES ASSUME Inv, Evidence, ResultFits
             PROVE  EveryReportIsRead
  OBVIOUS
<1>0. /\ state \in ExecutionStates /\ file.data \in ExecutionStates
      /\ result \in CycleResults
      /\ pc = "reporting" => result.outcome \in CycleOutcome \ {"TASK_COMPLETED"}
  BY DEF Inv, TypeOK, StateFile, ControlOK
<1>1. ASSUME Returned, NEW code \in CycleCodes(result)
      PROVE  /\ validate_cycle_result(result, code)
             /\ pc = "reporting" => Delivers(report_from_cycle(result, code, state))
  <2>1. result.outcome \in CycleOutcome /\ ClassFits(result.outcome, result.class)
    BY <1>1 DEF ResultFits, Returned
  <2>2. result.class \in FailureClass \cup {"none"}
    BY <1>0 DEF CycleResults
  <2>3. Succeeds(result.outcome) => code = "none"
    BY <1>1 DEF Succeeds, CycleCodes, LimitReached
  <2>4. LimitReached(result) => code = "REPAIR_ATTEMPT_LIMIT"
    BY <1>1 DEF CycleCodes, LimitReached
  <2>5. validate_cycle_result(result, code)
    BY <2>1, <2>2, <2>3, <2>4 DEF validate_cycle_result, _as_cycle_outcome, _as_failure_class
  <2>6. ASSUME pc = "reporting"
        PROVE  Delivers(report_from_cycle(result, code, state))
    <3>1. result.outcome \in WorkUnitOutcome
      BY <1>0, <2>6 DEF WorkUnitOutcome
    <3>2. result.outcome = "FINAL_VERIFICATION_PASSED" => AllCompleted(state) /\ code = "none"
      BY <2>3, <2>6 DEF Evidence, Succeeds
    <3>3. work_unit_outcome_from_cycle(result.outcome) = result.outcome
      BY <3>1 DEF work_unit_outcome_from_cycle
    <3> QED
      BY <1>0, <2>1, <2>2, <3>1, <3>2, <3>3, BuiltReportDelivers DEF report_from_cycle
  <2> QED
    BY <2>5, <2>6
<1>2. ASSUME ReportsBlocked
      PROVE  Delivers(report_from_reconcile(file.data))
  <2> DEFINE status == file.data.status
             class == CASE status \in {"ESCALATED", "SCOPE_VIOLATION"} -> "ESCALATION_REQUIRED"
                        [] status = "FAILED"                           -> "ENVIRONMENT_FAILURE"
                        [] OTHER                                       -> "none"
  <2>1. status \in {"ESCALATED", "SCOPE_VIOLATION", "INVALID_SPEC", "COMPLETED"}
    BY <1>2 DEF ReportsBlocked, BLOCKED
  <2>2. class \in FailureClass \cup {"none"} /\ ClassFits(status, class)
    BY <2>1 DEF ClassFits, FailureClass
  <2>3. status \in WorkUnitOutcome \ {"FINAL_VERIFICATION_PASSED"}
    BY <2>1 DEF WorkUnitOutcome, CycleOutcome
  <2>4. report_from_reconcile(file.data)
          = _build_work_unit_report(status, file.data, class, "none", target_branch)
    BY DEF report_from_reconcile
  <2> HIDE DEF status, class
  <2> QED
    BY <1>0, <2>2, <2>3, <2>4, BuiltReportDelivers
<1>3. ASSUME NEW code \in Codes \ {"REPAIR_ATTEMPT_LIMIT"}, NEW s \in ExecutionStates
      PROVE  /\ Delivers(report_from_preparation_error(code, s, target_branch))
             /\ write_work_unit_report(report_from_preparation_error(code, Foreign(s), BranchOf(Foreign(s))))
  <2>1. Foreign(s).repairs \in Nat
    BY DEF Foreign, ExecutionStates
  <2>2. NewExecutionState.repairs \in Nat /\ BranchOf(NewExecutionState) = target_branch
    BY DEF NewExecutionState, BranchOf
  <2>3. /\ "ESCALATION_REQUIRED" \in FailureClass /\ "ENVIRONMENT_FAILURE" \in FailureClass
        /\ {"SCOPE_VIOLATION", "ESCALATED", "FAILED"}
             \subseteq WorkUnitOutcome \ {"FINAL_VERIFICATION_PASSED"}
    BY DEF FailureClass, WorkUnitOutcome, CycleOutcome
  <2>4. /\ ClassFits("SCOPE_VIOLATION", "ESCALATION_REQUIRED")
        /\ ClassFits("ESCALATED", "ESCALATION_REQUIRED")
        /\ ClassFits("FAILED", "ENVIRONMENT_FAILURE")
    BY DEF ClassFits
  <2>5. CASE code = "STATE_TAMPERED"
    <3>1. \A any, branch : report_from_preparation_error(code, any, branch)
            = _build_work_unit_report("SCOPE_VIOLATION", NewExecutionState,
                                      "ESCALATION_REQUIRED", code, target_branch)
      BY <2>5 DEF report_from_preparation_error
    <3> QED
      BY <2>2, <2>3, <2>4, <3>1, NewStateType, BuiltReportDelivers, ForeignReportIsWritten
  <2>6. CASE code \in {"STATE_BRANCH_MISMATCH", "UNSAFE_RECONCILE"}
    <3>1. \A any, branch : report_from_preparation_error(code, any, branch)
            = _build_work_unit_report("ESCALATED", any, "ESCALATION_REQUIRED", code, branch)
      BY <2>6 DEF report_from_preparation_error
    <3> QED
      BY <2>1, <2>3, <2>4, <3>1, BuiltReportDelivers, ForeignReportIsWritten
  <2>7. CASE code = "none"
    <3>1. \A any, branch : report_from_preparation_error(code, any, branch)
            = _build_work_unit_report("FAILED", any, "ENVIRONMENT_FAILURE", code, branch)
      BY <2>7 DEF report_from_preparation_error
    <3> QED
      BY <2>1, <2>3, <2>4, <3>1, BuiltReportDelivers, ForeignReportIsWritten
  <2> QED
    BY <1>3, <2>5, <2>6, <2>7 DEF Codes
<1>4. (IF file.kind = "regular" THEN file.data ELSE NewExecutionState) \in ExecutionStates
  BY <1>0, NewStateType
<1> QED
  BY <1>1, <1>2, <1>3, <1>4 DEF EveryReportIsRead

\* Whatever way a work unit ends that means to report, its report passes its own
\* validation, and the deliver job can read it and commits exactly when the
\* command ended with 0: the classes set in cycle.py and workunit.py always fit.
THEOREM EveryReportIsReadHolds == Spec => []EveryReportIsRead
<1>1. Init => ResultFits
  BY DEF Init, ResultFits
<1>2. Spec => []ResultFits
  BY <1>1, ResultStep, PTL DEF Spec
<1> QED
  BY <1>2, EvidenceInductive, ReportsRead, PTL

-----------------------------------------------------------------------------
(* Every run ends *)

\* The steps a running process may still take: three for each task it has yet to
\* complete and two for each repair it may still attempt, and at the end the final
\* verification and the report.
TasksLeft   == NumTasks - Cardinality(state.completed)
RepairsLeft == RepairLimit - state.repairs

StepsLeft ==
  CASE pc = "idle"       -> 0
    [] pc = "reporting"  -> 1
    [] pc = "final"      -> 2
    [] pc = "validating" -> 3 * TasksLeft + 2 * RepairsLeft + 1
    [] pc = "codex"      -> 3 * TasksLeft + 2 * RepairsLeft + 2
    [] pc = "cycle"      -> 3 * TasksLeft + 2 * RepairsLeft + 3

\* A run never has more steps before it than its tasks and its repairs call for, and
\* every step of the process brings it closer to its end, whether it goes on, repairs,
\* stops or raises.  What Codex does meanwhile does not keep it from it.
RunIsBounded ==
  [][pc # "idle" => /\ StepsLeft <= 3 * NumTasks + 2 * RepairLimit + 3
                    /\ \/ StepsLeft' < StepsLeft
                       \/ StepsLeft' = StepsLeft /\ ~ Progress]_vars

\* What is left of the tasks and of the repairs is never negative.
LEMMA LeftIsNatural ==
  ASSUME Inv
  PROVE  /\ TasksLeft \in Nat /\ TasksLeft <= NumTasks
         /\ RepairsLeft \in Nat /\ RepairsLeft <= RepairLimit
<1>1. state \in ExecutionStates /\ state.repairs <= RepairLimit
  BY DEF Inv, TypeOK, Ledger, Sound
<1>2. state.completed \in SUBSET Tasks /\ state.repairs \in Nat
  BY <1>1 DEF ExecutionStates
<1>3. Cardinality(state.completed) \in Nat /\ Cardinality(state.completed) <= NumTasks
  BY <1>2, CountCompleted
<1> QED
  BY <1>1, <1>2, <1>3, NumTasksAssumption, RepairLimitAssumption DEF TasksLeft, RepairsLeft

\* The measure by the point a process has come to.
LEMMA LeftAt ==
  /\ pc = "idle" => StepsLeft = 0
  /\ pc = "reporting" => StepsLeft = 1
  /\ pc = "final" => StepsLeft = 2
  /\ pc = "validating" => StepsLeft = 3 * TasksLeft + 2 * RepairsLeft + 1
  /\ pc = "codex" => StepsLeft = 3 * TasksLeft + 2 * RepairsLeft + 2
  /\ pc = "cycle" => StepsLeft = 3 * TasksLeft + 2 * RepairsLeft + 3
BY DEF StepsLeft

LEMMA LeftAtNext ==
  /\ pc' = "idle" => StepsLeft' = 0
  /\ pc' = "reporting" => StepsLeft' = 1
  /\ pc' = "final" => StepsLeft' = 2
  /\ pc' = "validating" => StepsLeft' = 3 * TasksLeft' + 2 * RepairsLeft' + 1
  /\ pc' = "codex" => StepsLeft' = 3 * TasksLeft' + 2 * RepairsLeft' + 2
  /\ pc' = "cycle" => StepsLeft' = 3 * TasksLeft' + 2 * RepairsLeft' + 3
BY DEF StepsLeft

\* A task that is being validated is yet to be completed.
LEMMA ValidatedIsLeft ==
  ASSUME Inv, pc = "validating"
  PROVE  TasksLeft > 0
<1>1. state \in ExecutionStates /\ state.current \in Tasks /\ state.current \notin state.completed
  BY DEF Inv, TypeOK, ControlOK
<1>2. state.completed \in SUBSET Tasks /\ state.completed \cup {state.current} \in SUBSET Tasks
  BY <1>1 DEF ExecutionStates
<1>3. Cardinality(state.completed \cup {state.current}) = Cardinality(state.completed) + 1
  BY <1>1, <1>2, CountCompleted, FS_AddElement
<1>4. /\ Cardinality(state.completed) \in Nat
      /\ Cardinality(state.completed \cup {state.current}) <= NumTasks
  BY <1>2, CountCompleted
<1> QED
  BY <1>3, <1>4, NumTasksAssumption DEF TasksLeft

\* The measure is a number, and at least two before the report.
LEMMA LeftType ==
  ASSUME Inv
  PROVE  /\ StepsLeft \in Nat
         /\ pc # "idle" => StepsLeft > 0
         /\ pc \notin {"idle", "reporting"} => StepsLeft > 1
<1>1. pc \in {"idle", "cycle", "codex", "validating", "final", "reporting"}
  BY DEF Inv, TypeOK
<1>2. 3 * TasksLeft + 2 * RepairsLeft \in Nat
  BY LeftIsNatural
<1>3. CASE pc = "idle"
  BY <1>3, LeftAt
<1>4. CASE pc = "reporting"
  BY <1>4, LeftAt
<1>5. CASE pc = "final"
  BY <1>5, LeftAt
<1>6. CASE pc = "validating"
  BY <1>6, LeftIsNatural, ValidatedIsLeft, LeftAt
<1>7. CASE pc = "codex"
  BY <1>2, <1>7, LeftAt
<1>8. CASE pc = "cycle"
  BY <1>2, <1>8, LeftAt
<1> QED
  BY <1>1, <1>3, <1>4, <1>5, <1>6, <1>7, <1>8

\* A step that ends the process, or leaves only its report to write.
LEMMA EndsSooner ==
  ASSUME Inv,
         \/ pc' = "idle" /\ pc \in {"cycle", "codex", "validating", "final", "reporting"}
         \/ pc' = "reporting" /\ pc \in {"cycle", "codex", "validating", "final"}
  PROVE  StepsLeft' < StepsLeft
BY LeftType, LeftAtNext

\* A step on to the next stage, with the same tasks and repairs before it.
LEMMA StageSooner ==
  ASSUME Inv, UNCHANGED <<TasksLeft, RepairsLeft>>,
         \/ pc = "cycle" /\ pc' \in {"codex", "final"}
         \/ pc = "codex" /\ pc' = "validating"
  PROVE  StepsLeft' < StepsLeft
BY LeftIsNatural, LeftAt, LeftAtNext

\* What run_task_cycle returns without a completed task ends the process.
LEMMA ReturnSooner ==
  ASSUME Inv, NEW s, NEW outcome, NEW class, NEW t, Return(s, outcome, class, t),
         outcome # "TASK_COMPLETED", pc \in {"cycle", "codex", "validating", "final"}
  PROVE  StepsLeft' < StepsLeft
<1>1. pc' \in {"idle", "reporting"}
  BY DEF Return
<1> QED
  BY <1>1, EndsSooner

\* Every step of a running process has one less before it.
LEMMA ProgressSooner ==
  ASSUME Inv, Inv', Progress
  PROVE  StepsLeft' < StepsLeft
<1>0. state \in ExecutionStates
  BY DEF Inv, TypeOK
<1>1. ASSUME NEW t, StateTampered(t), pc \in {"cycle", "codex"}
      PROVE  StepsLeft' < StepsLeft
  BY <1>1, ReturnSooner DEF StateTampered
<1>2. ASSUME NEW status \in {"FAILED", "ESCALATED", "SCOPE_VIOLATION"}, NEW class, NEW t,
             Stop(status, class, t), pc \in {"codex", "validating", "final"}
      PROVE  StepsLeft' < StepsLeft
  BY <1>2, ReturnSooner DEF Stop
<1>3. CASE RejectUnsafeState \/ TamperingFound
  BY <1>1, <1>3 DEF RejectUnsafeState, TamperingFound
<1>4. CASE CodexLeavesScope \/ CodexFailsEmptyHanded \/ ValidationFails
             \/ RepairLimitReached \/ FinalVerificationFails
  BY <1>2, <1>4 DEF CodexLeavesScope, CodexFailsEmptyHanded, ValidationFails,
       RepairLimitReached, FinalVerificationFails, StatusOfFailure
<1>5. CASE RefuseDirtyWorktree \/ RefuseToImplement \/ RefuseFinalVerification
             \/ CodexRaises \/ ValidationRaises \/ Report
  BY <1>5, EndsSooner DEF RefuseDirtyWorktree, RefuseToImplement, RefuseFinalVerification,
       SafeToLoad, CodexRaises, ValidationRaises, Raise, Report
<1>6. ASSUME NEW t \in Tasks, StartTask(t)
      PROVE  StepsLeft' < StepsLeft
  <2>1. state'.completed = state.completed /\ state'.repairs = state.repairs
    BY <1>0, <1>6 DEF StartTask, ExecutionStates
  <2> QED
    BY <1>6, <2>1, StageSooner DEF StartTask, SafeToLoad, TasksLeft, RepairsLeft
<1>7. CASE StartFinalVerification \/ CodexReturns
  <2>1. state'.completed = state.completed /\ state'.repairs = state.repairs
    BY <1>0, <1>7 DEF StartFinalVerification, CodexReturns, ExecutionStates
  <2> QED
    BY <1>7, <2>1, StageSooner DEF StartFinalVerification, CodexReturns, SafeToLoad,
       TasksLeft, RepairsLeft
<1>8. CASE StartRepair
  <2>1. state'.completed = state.completed /\ state'.repairs = state.repairs + 1
    BY <1>0, <1>8 DEF StartRepair, ExecutionStates
  <2>2. TasksLeft' = TasksLeft /\ RepairsLeft' = RepairsLeft - 1
    BY <1>0, <2>1, RepairLimitAssumption DEF TasksLeft, RepairsLeft, ExecutionStates
  <2>3. pc = "validating" /\ pc' = "codex"
    BY <1>8 DEF StartRepair
  <2> QED
    BY <2>2, <2>3, LeftIsNatural, LeftAt, LeftAtNext
<1>9. CASE ValidationPasses
  <2>1. state'.completed = state.completed \cup {state.current} /\ state'.repairs = state.repairs
    BY <1>0, <1>9 DEF ValidationPasses, Return, ExecutionStates
  <2>2. state.completed \in SUBSET Tasks /\ Cardinality(state.completed) \in Nat
    BY <1>0, CountCompleted DEF ExecutionStates
  <2>3. Cardinality(state'.completed) = Cardinality(state.completed) + 1
    BY <1>0, <1>9, <2>1, CountCompleted, FS_AddElement
    DEF ValidationPasses, Inv, ControlOK, ExecutionStates
  <2>4. TasksLeft' = TasksLeft - 1 /\ RepairsLeft' = RepairsLeft
    BY <2>1, <2>2, <2>3, NumTasksAssumption DEF TasksLeft, RepairsLeft
  <2>5. pc = "validating" /\ pc' \in {"idle", "cycle"}
    BY <1>9 DEF ValidationPasses, Return
  <2> QED
    BY <2>4, <2>5, LeftIsNatural, LeftAt, LeftAtNext
<1>10. CASE FinalVerificationPasses
  BY <1>10, ReturnSooner DEF FinalVerificationPasses
<1> QED
  BY <1>3, <1>4, <1>5, <1>6, <1>7, <1>8, <1>9, <1>10 DEF Progress

\* Every run of the process is bounded by its tasks and its repairs: what is left to
\* RunsEnd is only that a running process keeps taking steps.
THEOREM RunIsBoundedHolds == Spec => RunIsBounded
<1>1. Inv /\ Inv' /\ [Next]_vars
        => (pc # "idle" => /\ StepsLeft <= 3 * NumTasks + 2 * RepairLimit + 3
                           /\ \/ StepsLeft' < StepsLeft
                              \/ StepsLeft' = StepsLeft /\ ~ Progress)
  <2> SUFFICES ASSUME Inv, Inv', [Next]_vars, pc # "idle"
               PROVE  /\ StepsLeft <= 3 * NumTasks + 2 * RepairLimit + 3
                      /\ \/ StepsLeft' < StepsLeft
                         \/ StepsLeft' = StepsLeft /\ ~ Progress
    OBVIOUS
  <2>1. pc \in {"cycle", "codex", "validating", "final", "reporting"}
    BY DEF Inv, TypeOK
  <2>2. StepsLeft <= 3 * NumTasks + 2 * RepairLimit + 3
    BY <2>1, LeftIsNatural, LeftAt, NumTasksAssumption, RepairLimitAssumption
  <2>3. CASE Progress
    BY <2>2, <2>3, ProgressSooner
  <2>4. CASE Start
    BY <2>4 DEF Start, StartEphemeral, StartPersisted, StartBlocked, StartRunTask, CanStart
  <2>5. CASE Crash
    BY <2>1, <2>2, <2>5, EndsSooner DEF Crash
  <2>6. CASE (Environment \/ UNCHANGED vars) /\ ~ Crash /\ ~ Progress
    <3>1. UNCHANGED <<pc, state>>
      BY <2>6 DEF Environment, CodexEdits, CodexTouchesState, FreshCheckout,
         CleanWorktree, UpdateState, InitState, control, vars
    <3>2. StepsLeft' = StepsLeft
      BY <3>1 DEF StepsLeft, TasksLeft, RepairsLeft
    <3> QED
      BY <2>2, <2>6, <3>2
  <2> QED
    BY <2>3, <2>4, <2>5, <2>6 DEF Next
<1> QED
  BY <1>1, InvInductive, PTL DEF Spec, RunIsBounded
=============================================================================

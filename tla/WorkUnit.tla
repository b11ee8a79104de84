------------------------------ MODULE WorkUnit ------------------------------
(***************************************************************************)
(* The execution of one work unit in one workspace: run_work_unit          *)
(* (agent/workunit.py) driving run_task_cycle (agent/cycle.py) from a      *)
(* state that prepare_execution_state (agent/reconcile.py) recovers, and   *)
(* the run-task command, which performs one cycle and exits.               *)
(*                                                                         *)
(* Codex and the validation commands are external programs: Codex edits    *)
(* the working tree in any way, may touch the state file, exits with any   *)
(* code or is killed by its timeout; a validation passes, fails in one of  *)
(* the classes of agent/classify.py, or cannot be launched.  The process   *)
(* may be killed between any two of its steps; the state file and the      *)
(* working tree survive it, the in-memory state does not.                  *)
(***************************************************************************)
EXTENDS ExecutionState

CONSTANT MaxRuns   \* bound on the number of process starts

ASSUME MaxRunsAssumption == MaxRuns \in Nat

VARIABLES
  proc,     \* entry point of the running process: run_work_unit or run-task
  pc,       \* where the process stands
  state,    \* the ExecutionState it holds in memory
  mark,     \* fingerprint of the state file taken before Codex starts, Absent otherwise
  iter,     \* task cycles this run_work_unit has completed
  result,   \* the last CycleResult
  file,     \* .agent/state/<id>.json
  tree,     \* kinds of uncommitted change in the working tree
  report,   \* report.json and changes.patch in the report directory
  error,    \* code of the exception that ended the last process
  passed,   \* history: tasks whose validation passed since the state began anew
  runs,     \* history: number of process starts
  Persist   \* persist_state: TRUE in a local workspace, FALSE in Actions

control == <<proc, pc, state, mark, iter, result, error>>
vars == <<control, file, tree, report, passed, runs, Persist>>

-----------------------------------------------------------------------------
(* Types *)

Absent     == [kind |-> "absent",  data |-> NewExecutionState]
NonRegular == [kind |-> "other",   data |-> NewExecutionState]
Regular(s) == [kind |-> "regular", data |-> s]

StateFile == [kind : {"absent", "regular", "other"}, data : ExecutionStates]

\* Codex edits inside or outside allowed_paths; files a validation command
\* leaves behind lie outside.
EditKinds   == {"allowed", "outside"}
ChangeKinds == EditKinds \cup {"generated"}

FailureClass == {"AGENT_REPAIRABLE", "ENVIRONMENT_FAILURE", "ESCALATION_REQUIRED"}
CycleOutcome ==
  {"TASK_COMPLETED", "FINAL_VERIFICATION_PASSED", "FAILED", "ESCALATED", "SCOPE_VIOLATION"}
WorkUnitOutcome == (CycleOutcome \ {"TASK_COMPLETED"}) \cup {"INVALID_SPEC", "COMPLETED"}

CycleResults ==
  [ outcome : CycleOutcome \cup {"none"}, class : FailureClass \cup {"none"},
    task : Tasks \cup {NoTask} ]
NoResult == [outcome |-> "none", class |-> "none", task |-> NoTask]

Reports ==
  [ outcome : WorkUnitOutcome \cup {"none"}, completed : SUBSET Tasks,
    patch : SUBSET ChangeKinds, passed : SUBSET Tasks ]
NoReport == [outcome |-> "none", completed |-> {}, patch |-> {}, passed |-> {}]

ErrorCode ==
  {"none", "killed", "DIRTY_WORKTREE", "INVALID_TRANSITION", "CODEX_TIMEOUT",
   "CODEX_NOT_FOUND", "VALIDATION_NOT_FOUND", "INVALID_INPUT"}

\* Type correctness: every variable of the workspace and the process holds a
\* value of its kind, whatever the program, Codex and the operator do.
TypeOK ==
  /\ proc \in {"none", "work_unit", "task"}
  /\ pc \in {"idle", "cycle", "codex", "validating", "final", "reporting"}
  /\ state \in ExecutionStates
  /\ mark \in StateFile
  /\ iter \in Nat
  /\ result \in CycleResults
  /\ file \in StateFile
  /\ tree \in SUBSET ChangeKinds
  /\ report \in Reports
  /\ error \in ErrorCode
  /\ passed \in SUBSET Tasks
  /\ runs \in 0..MaxRuns
  /\ Persist \in BOOLEAN

Init ==
  /\ proc = "none"
  /\ pc = "idle"
  /\ state = NewExecutionState
  /\ mark = Absent
  /\ iter = 0
  /\ result = NoResult
  /\ file = Absent
  /\ tree = {}
  /\ report = NoReport
  /\ error = "none"
  /\ passed = {}
  /\ runs = 0
  /\ Persist \in BOOLEAN

-----------------------------------------------------------------------------
(* Ways a step of the process may leave it *)

Save(s) == file' = IF Persist THEN Regular(s) ELSE file

\* An exception escapes the process: nothing is persisted, no report is written.
Raise(code) ==
  /\ pc' = "idle"
  /\ proc' = "none"
  /\ error' = code
  /\ mark' = Absent
  /\ UNCHANGED <<state, iter, result, file, report, passed, runs, Persist>>

\* run_task_cycle returns: run_work_unit goes on after a completed task and
\* reports anything else; run-task prints the result and exits.
Return(s, outcome, class, task) ==
  /\ state' = s
  /\ result' = [outcome |-> outcome, class |-> class, task |-> task]
  /\ IF proc = "task"
     THEN pc' = "idle" /\ proc' = "none" /\ UNCHANGED iter
     ELSE /\ UNCHANGED proc
          /\ IF outcome = "TASK_COMPLETED"
             THEN pc' = "cycle" /\ iter' = iter + 1
             ELSE pc' = "reporting" /\ UNCHANGED iter
  /\ mark' = Absent
  /\ UNCHANGED <<error, report, runs, Persist>>

\* The state file changed under the process.  The returned state becomes
\* SCOPE_VIOLATION when the table allows it, and is not persisted.
StateTampered(task) ==
  /\ Return(IF CanTransit(state.status, "SCOPE_VIOLATION")
            THEN [state EXCEPT !.status = "SCOPE_VIOLATION", !.current = task]
            ELSE state,
            "SCOPE_VIOLATION", "ESCALATION_REQUIRED", task)
  /\ UNCHANGED <<file, tree, passed>>

\* Mutant: the class of the failure is stored where the status belongs.
ClassAsStatus(class) == class

\* The status a failure of this class leads to when it is not repaired.
StatusOfFailure(class) ==
  IF class = "ENVIRONMENT_FAILURE" THEN "FAILED" ELSE "ESCALATED"

\* Persist a stopping transition and return it.
Stop(status, class, task) ==
  LET s == [state EXCEPT !.status = status,
                         !.current = IF task = NoTask THEN @ ELSE task]
  IN  /\ Return(s, status, class, task)
      /\ Save(s)
      /\ UNCHANGED passed

-----------------------------------------------------------------------------
(* Starting a process *)

Begin(entry, s) ==
  /\ proc' = entry
  /\ pc' = "cycle"
  /\ state' = s
  /\ iter' = 0
  /\ result' = NoResult
  /\ error' = "none"
  /\ passed' = IF s.completed = {} THEN {} ELSE passed
  /\ UNCHANGED <<mark, tree, report>>

CanStart == pc = "idle" /\ runs < MaxRuns /\ runs' = runs + 1 /\ UNCHANGED Persist

StartEphemeral ==
  /\ CanStart
  /\ ~ Persist
  /\ Begin("work_unit", NewExecutionState)
  /\ UNCHANGED file

\* prepare_execution_state with a state file that lets the work unit go on.
StartPersisted ==
  /\ CanStart
  /\ Persist
  /\ file.kind # "other"
  /\ file.kind = "regular" => file.data.status \notin BLOCKED
  /\ LET s == IF file.kind = "absent" THEN NewExecutionState ELSE PrepareState(file.data)
     IN  Begin("work_unit", s) /\ file' = Regular(s)

WriteReport(outcome, completed) ==
  report' = [outcome |-> outcome, completed |-> completed, patch |-> tree, passed |-> passed]

\* A finished state blocks the work unit, a state file that is not a regular
\* file is a scope violation; both are reported without a task cycle.
StartBlocked ==
  /\ CanStart
  /\ Persist
  /\ \/ /\ file.kind = "regular"
        /\ file.data.status \in BLOCKED
        /\ WriteReport(file.data.status, file.data.completed)
     \/ /\ file.kind = "other"
        /\ WriteReport("SCOPE_VIOLATION", {})
  /\ error' = "none"
  /\ UNCHANGED <<proc, pc, state, mark, iter, result, file, tree, passed>>

\* The run-task command loads the state file as it is, without recovery.
StartRunTask ==
  /\ CanStart
  /\ Persist
  /\ LET s == IF file.kind = "regular" THEN file.data ELSE NewExecutionState
     IN  /\ Begin("task", s)
         /\ file' = IF file.kind = "absent" THEN Regular(s) ELSE file

-----------------------------------------------------------------------------
(* run_task_cycle up to the start of Codex *)

RejectUnsafeState ==
  /\ pc = "cycle"
  /\ file.kind = "other"
  /\ \E t \in Tasks : Selects(state, t) /\ StateTampered(t)

SafeToLoad == pc = "cycle" /\ file.kind # "other"

\* Uncommitted changes are expected only from earlier tasks of the work unit.
WorktreeUsable == state.completed = {} => tree = {}

Implementable == {"PENDING", "RUNNING", "TASK_COMPLETED", "VALIDATING", "IMPLEMENTING"}

StartTask(t) ==
  /\ SafeToLoad
  /\ Selects(state, t)
  /\ WorktreeUsable
  /\ state.status \in Implementable
  /\ LET s == [state EXCEPT !.status = "IMPLEMENTING", !.current = t]
     IN  /\ state' = s
         /\ Save(s)
  /\ mark' = file'
  /\ pc' = "codex"
  /\ UNCHANGED <<proc, iter, result, error, tree, report, passed, runs, Persist>>

RefuseDirtyWorktree ==
  /\ SafeToLoad
  /\ ~ AllCompleted(state)
  /\ ~ WorktreeUsable
  /\ Raise("DIRTY_WORKTREE")
  /\ UNCHANGED tree

RefuseToImplement ==
  /\ SafeToLoad
  /\ ~ AllCompleted(state)
  /\ WorktreeUsable
  /\ state.status \notin Implementable
  /\ Raise("INVALID_TRANSITION")
  /\ UNCHANGED tree

StartFinalVerification ==
  /\ SafeToLoad
  /\ AllCompleted(state)
  /\ state.status \in {"TASK_COMPLETED", "FINAL_VALIDATING"}
  /\ LET s == [state EXCEPT !.status = "FINAL_VALIDATING"]
     IN  state' = s /\ Save(s)
  /\ pc' = "final"
  /\ UNCHANGED <<proc, mark, iter, result, error, tree, report, passed, runs, Persist>>

RefuseFinalVerification ==
  /\ SafeToLoad
  /\ AllCompleted(state)
  /\ state.status \notin {"TASK_COMPLETED", "FINAL_VALIDATING"}
  /\ Raise("INVALID_TRANSITION")
  /\ UNCHANGED tree

-----------------------------------------------------------------------------
(* Codex *)

CodexEdits ==
  /\ pc = "codex"
  /\ \E edits \in SUBSET EditKinds : tree' = edits \cup (tree \ EditKinds)
  /\ UNCHANGED <<control, file, report, passed, runs, Persist>>

CodexTouchesState ==
  /\ pc = "codex"
  /\ file' \in {Absent, NonRegular}
  /\ UNCHANGED <<control, tree, report, passed, runs, Persist>>

\* Whatever way Codex ends, a changed fingerprint decides.
TamperingFound ==
  /\ pc = "codex"
  /\ file # mark
  /\ StateTampered(state.current)

CodexRaises ==
  /\ pc = "codex"
  /\ file = mark
  /\ \E code \in {"CODEX_TIMEOUT", "CODEX_NOT_FOUND"} : Raise(code)
  /\ UNCHANGED tree

\* Mutant: one path inside the scope lets all others pass.
InScopeIfAny(changes) == changes = {} \/ "allowed" \in changes

InScope(changes) == changes \subseteq {"allowed"}

CodexLeavesScope ==
  /\ pc = "codex"
  /\ file = mark
  /\ ~ InScope(tree)
  /\ Stop("SCOPE_VIOLATION", "ESCALATION_REQUIRED", state.current)
  /\ UNCHANGED tree

\* Codex exits non-zero and the tree holds no change at all.
CodexFailsEmptyHanded ==
  /\ pc = "codex"
  /\ file = mark
  /\ tree = {}
  /\ \E class \in {"ENVIRONMENT_FAILURE", "ESCALATION_REQUIRED"} :
       Stop(StatusOfFailure(class), class, state.current)
  /\ UNCHANGED tree

CodexReturns ==
  /\ pc = "codex"
  /\ file = mark
  /\ InScope(tree)
  /\ LET s == [state EXCEPT !.status = "VALIDATING"]
     IN  state' = s /\ Save(s)
  /\ pc' = "validating"
  /\ mark' = Absent
  /\ UNCHANGED <<proc, iter, result, error, tree, report, passed, runs, Persist>>

-----------------------------------------------------------------------------
(* Validation of the current task, and bounded repair *)

CommandsRun == tree' \in {tree, tree \cup {"generated"}}

ValidationPasses ==
  /\ pc = "validating"
  /\ CommandsRun
  /\ LET s == [state EXCEPT !.status = "TASK_COMPLETED", !.completed = @ \cup {state.current}]
     IN  Return(s, "TASK_COMPLETED", "none", state.current) /\ Save(s)
  /\ passed' = passed \cup {state.current}

ValidationFails ==
  /\ pc = "validating"
  /\ CommandsRun
  /\ \E class \in {"ENVIRONMENT_FAILURE", "ESCALATION_REQUIRED"} :
       Stop(StatusOfFailure(class), class, state.current)

\* Mutant: off by one.
CanAttemptOneMore(attempts) == attempts <= RepairLimit

CanAttemptRepair(attempts) == attempts < RepairLimit

RepairLimitReached ==
  /\ pc = "validating"
  /\ CommandsRun
  /\ ~ CanAttemptRepair(state.repairs)
  /\ Stop("ESCALATED", "AGENT_REPAIRABLE", state.current)

\* Mutant: the attempt is not counted.
StartRepairUncounted ==
  /\ pc = "validating"
  /\ CommandsRun
  /\ CanAttemptRepair(state.repairs)
  /\ state' = [state EXCEPT !.status = "IMPLEMENTING"]
  /\ Save(state')
  /\ mark' = file'
  /\ pc' = "codex"
  /\ UNCHANGED <<proc, iter, result, error, report, passed, runs, Persist>>

StartRepair ==
  /\ pc = "validating"
  /\ CommandsRun
  /\ CanAttemptRepair(state.repairs)
  /\ LET s == [state EXCEPT !.status = "IMPLEMENTING", !.repairs = @ + 1]
     IN  state' = s /\ Save(s)
  /\ mark' = file'
  /\ pc' = "codex"
  /\ UNCHANGED <<proc, iter, result, error, report, passed, runs, Persist>>

-----------------------------------------------------------------------------
(* Final verification and the report *)

FinalVerificationPasses ==
  /\ pc = "final"
  /\ CommandsRun
  /\ Return(state, "FINAL_VERIFICATION_PASSED", "none", NoTask)
  /\ Save(state)
  /\ UNCHANGED passed

FinalVerificationFails ==
  /\ pc = "final"
  /\ CommandsRun
  /\ \E class \in FailureClass : Stop(StatusOfFailure(class), class, NoTask)

\* The executable of a validation command is missing, or the text holds no
\* command, or one that cannot be parsed.
ValidationRaises ==
  /\ pc \in {"validating", "final"}
  /\ CommandsRun
  /\ \E code \in {"VALIDATION_NOT_FOUND", "INVALID_INPUT"} : Raise(code)

Report ==
  /\ pc = "reporting"
  /\ WriteReport(result.outcome, state.completed)
  /\ pc' = "idle"
  /\ proc' = "none"
  /\ UNCHANGED <<state, mark, iter, result, error, file, tree, passed, runs, Persist>>

-----------------------------------------------------------------------------
(* The environment of the process *)

Crash ==
  /\ pc # "idle"
  /\ pc' = "idle"
  /\ proc' = "none"
  /\ error' = "killed"
  /\ mark' = Absent
  /\ UNCHANGED <<state, iter, result, file, tree, report, passed, runs, Persist>>

\* A new clone, as every job of the workflow makes.
FreshCheckout ==
  /\ pc = "idle"
  /\ file' = Absent
  /\ tree' = {}
  /\ report' = NoReport
  /\ UNCHANGED <<control, passed, runs, Persist>>

\* The operator answers DIRTY_WORKTREE; no completed task is lost.
CleanWorktree ==
  /\ pc = "idle"
  /\ error = "DIRTY_WORKTREE"
  /\ tree' = {}
  /\ UNCHANGED <<control, file, report, passed, runs, Persist>>

\* The update-state command: any transition of the table, asked for by hand.
UpdateState ==
  /\ pc = "idle"
  /\ Persist
  /\ file.kind = "regular"
  /\ \E to \in ALLOWED_TRANSITIONS[file.data.status] :
       file' = Regular([file.data EXCEPT !.status = to])
  /\ UNCHANGED <<control, tree, report, passed, runs, Persist>>

\* The init-state command, with or without --overwrite.
InitState ==
  /\ pc = "idle"
  /\ Persist
  /\ file.kind # "other"
  /\ file' = Regular(NewExecutionState)
  /\ UNCHANGED <<control, tree, report, passed, runs, Persist>>

-----------------------------------------------------------------------------
Start == StartEphemeral \/ StartPersisted \/ StartBlocked \/ StartRunTask

Progress ==
  \/ RejectUnsafeState
  \/ \E t \in Tasks : StartTask(t)
  \/ RefuseDirtyWorktree \/ RefuseToImplement
  \/ StartFinalVerification \/ RefuseFinalVerification
  \/ TamperingFound \/ CodexRaises \/ CodexLeavesScope
  \/ CodexFailsEmptyHanded \/ CodexReturns
  \/ ValidationPasses \/ ValidationFails \/ RepairLimitReached \/ StartRepair
  \/ FinalVerificationPasses \/ FinalVerificationFails \/ ValidationRaises
  \/ Report

Environment ==
  \/ CodexEdits \/ CodexTouchesState \/ Crash \/ FreshCheckout \/ CleanWorktree
  \/ UpdateState \/ InitState

Next == Start \/ Progress \/ Environment

\* Codex and every command run under a timeout, and the process itself never
\* waits for anything else, so a running process keeps taking steps.
Spec == Init /\ [][Next]_vars /\ WF_vars(Progress)

-----------------------------------------------------------------------------
(* Properties *)

\* Tasks are completed in dependency order: wherever a set of completed tasks
\* is recorded, in memory or on disk, it holds what its members depend on,
\* whatever crash, retry or hand-made transition lies between two runs.
DependencyClosed(completed) == \A t \in completed : DependsOn[t] \subseteq completed

CompletedClosed ==
  /\ DependencyClosed(state.completed)
  /\ file.kind = "regular" => DependencyClosed(file.data.completed)

\* No task is recorded as completed unless its validation passed since the
\* work unit last began anew: a crash or a failure between Codex and the end of
\* the validation never leaves a completion behind.
CompletedArePassed ==
  /\ pc # "idle" => state.completed \subseteq passed
  /\ file.kind = "regular" => file.data.completed \subseteq passed

\* The selector always finds a task while one is missing: the DEPENDENCY_BLOCKED
\* exits of select_next_task are never taken by a state the program produced.
NeverBlocked == pc = "cycle" => ~ DependencyBlocked(state)

\* Every cycle that returns TASK_COMPLETED completes one more task, so the loop
\* of run_work_unit never reaches its bound of len(tasks) + 2 cycles.
LoopBoundNeverReached == pc = "cycle" => iter + 1 < NumTasks + 2

\* What a validation judges stayed in scope: no task validation and no final
\* verification ever runs on a tree with an edit outside allowed_paths, also
\* when the edit was left by a Codex run that a crash or a timeout cut short.
VerifiedTreeInScope ==
  /\ pc = "validating" => InScope(tree)
  /\ pc = "final" => "outside" \notin tree

\* A report that says the work unit passed covers every task, each validated in
\* this work unit, and carries a patch without an edit outside allowed_paths.
PassedReport ==
  report.outcome = "FINAL_VERIFICATION_PASSED" =>
    /\ report.completed = Tasks
    /\ report.passed = Tasks
    /\ "outside" \notin report.patch

\* Repair is bounded, and the bound is used up before a repairable validation
\* failure of a task is escalated.
RepairBudget ==
  /\ state.repairs <= RepairLimit
  /\ result.class = "AGENT_REPAIRABLE" /\ result.task # NoTask
       => result.outcome = "ESCALATED" /\ (pc = "reporting" => state.repairs = RepairLimit)

\* Within a process the status moves along the table of agent/state.py; the one
\* step that crosses two edges is the start of a pending task.
LegalStep(from, to) ==
  from = to \/ CanTransit(from, to) \/ (from = "PENDING" /\ to = "IMPLEMENTING")

StepsFollowTransitionTable ==
  [][pc # "idle" => LegalStep(state.status, state'.status)]_vars

\* Progress on disk survives every restart: completed tasks are only added to,
\* and the repair budget spent on a work unit with a completed task is not
\* refunded, unless the operator starts over or a delivered unit is run again.
StartsOver == file' = Regular(NewExecutionState) /\ pc = "idle"

ProgressSurvives ==
  [][ file.kind = "regular" /\ file'.kind = "regular" /\ file.data.completed # {}
        => \/ /\ file.data.completed \subseteq file'.data.completed
              /\ file.data.repairs <= file'.data.repairs
           \/ StartsOver /\ (pc' = "cycle" => file.data.status = "PR_CREATED") ]_vars

\* An ESCALATED, SCOPE_VIOLATION, INVALID_SPEC or COMPLETED work unit is not
\* retried by any entry point; only the operator replaces its state file.
BlockedStateIsSticky ==
  [][ file.kind = "regular" /\ file.data.status \in BLOCKED
        => \/ file' = file
           \/ pc = "idle" /\ pc' = "idle" /\ file' \in {Absent, Regular(NewExecutionState)} ]_vars

\* Every run comes to an end: a report is written, an exception escapes, or the
\* process is killed.
RunsEnd == (pc # "idle") ~> (pc = "idle")

\* The work unit implements the ledger of TaskLedger: the tasks it records in its
\* state file (in memory, when nothing is persisted) and the verdict it reports.
Promise == INSTANCE TaskLedger WITH
  done    <- IF Persist THEN file.data.completed ELSE state.completed,
  verdict <- IF report.outcome = "none" THEN "none"
             ELSE IF report.outcome = "FINAL_VERIFICATION_PASSED" THEN "passed"
             ELSE "refused"

\* Tasks are completed one at a time in dependency order, and a passing report
\* is only written when the record of completed tasks is full.
KeepsThePromise == Promise!Spec

\* "retrying FAILED work unit" (agent/reconcile.py): a work unit that failed is
\* retried from RUNNING and gets past the start of its first cycle.
RetryIsAccepted ==
  [][ proc = "work_unit" /\ pc = "cycle" /\ state.status = "RUNNING"
        => error' # "INVALID_TRANSITION" ]_vars
=============================================================================

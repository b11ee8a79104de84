--------------------------- MODULE WorkUnitReport ---------------------------
(***************************************************************************)
(* The results that a work unit builds on its way out (agent/workunit.py): *)
(* the CycleResult of each task cycle, and the report that the execute job *)
(* writes and the deliver job reads.  Each of them is validated when it is *)
(* built, written and read.  A result that does not pass is an exception:  *)
(* the run then ends without a report, and a deliver job that cannot read  *)
(* its report tells nobody.                                                *)
(***************************************************************************)
EXTENDS WorkUnit

Codes == {"none", "REPAIR_ATTEMPT_LIMIT", "STATE_TAMPERED", "STATE_BRANCH_MISMATCH",
          "UNSAFE_RECONCILE"}

\* Mutually exclusive requirements on the failure class of an outcome.
ClassFits(outcome, class) ==
  CASE outcome \in {"TASK_COMPLETED", "FINAL_VERIFICATION_PASSED"} -> class = "none"
    [] outcome = "FAILED"          -> class = "ENVIRONMENT_FAILURE"
    [] outcome = "ESCALATED"       -> class \in {"AGENT_REPAIRABLE", "ESCALATION_REQUIRED"}
    [] outcome = "SCOPE_VIOLATION" -> class = "ESCALATION_REQUIRED"
    [] OTHER                       -> TRUE

Succeeds(outcome) == outcome \in {"TASK_COMPLETED", "FINAL_VERIFICATION_PASSED"}

-----------------------------------------------------------------------------
(* The result of a task cycle *)

\* The repairs of a task are used up; its result says so.
LimitReached(r) ==
  r.outcome = "ESCALATED" /\ r.class = "AGENT_REPAIRABLE" /\ r.task # NoTask

\* The codes a result may carry: a scope violation may be a tampered state file.
CycleCodes(r) ==
  CASE r.outcome = "SCOPE_VIOLATION" -> {"none", "STATE_TAMPERED"}
    [] LimitReached(r)               -> {"REPAIR_ATTEMPT_LIMIT"}
    [] OTHER                         -> {"none"}

\* The status a cycle ended in must be one of its outcomes, and the class a class.
_as_cycle_outcome(value) == value \in CycleOutcome
_as_failure_class(value) == value \in FailureClass \cup {"none"}

validate_cycle_result(r, code) ==
  /\ _as_cycle_outcome(r.outcome) /\ _as_failure_class(r.class)
  /\ ClassFits(r.outcome, r.class)
  /\ Succeeds(r.outcome) => code = "none"
  /\ LimitReached(r) => code = "REPAIR_ATTEMPT_LIMIT"

-----------------------------------------------------------------------------
(* Building a report *)

\* final_verification_passed, validation_passed, scope_allowed.
derived_compat_booleans(outcome) ==
  CASE outcome = "FINAL_VERIFICATION_PASSED" -> <<TRUE, TRUE, TRUE>>
    [] outcome = "SCOPE_VIOLATION"           -> <<FALSE, FALSE, FALSE>>
    [] OTHER                                 -> <<FALSE, FALSE, TRUE>>

\* Only these outcomes, and classes, may stand in a report.
_as_work_unit_outcome(value) == value \in WorkUnitOutcome
_as_report_class(value) == value \in FailureClass \cup {"none"}

\* A completed task alone ends no work unit: such a result would be an internal
\* failure, and no report.
work_unit_outcome_from_cycle(outcome) ==
  IF outcome \in WorkUnitOutcome THEN outcome ELSE "UNSUPPORTED_CYCLE_OUTCOME"

_build_work_unit_report(outcome, s, class, code, branch) ==
  [ outcome |-> outcome, class |-> class, code |-> code, branch |-> branch, state |-> s,
    completed |-> s.completed, repairs |-> s.repairs,
    compat |-> derived_compat_booleans(outcome) ]

\* A state is that of this Task Spec, or what the state file of another one, or
\* of an earlier version of it, may hold: a task this one does not have.
Unknown == NumTasks + 1
Foreign(s) == [s EXCEPT !.completed = @ \cup {Unknown}]

target_branch == "target"

\* The branch that a state says it belongs to; a foreign one is of another branch.
BranchOf(s) == IF Unknown \in s.completed THEN "another" ELSE target_branch

report_from_cycle(r, code, s) ==
  _build_work_unit_report(work_unit_outcome_from_cycle(r.outcome), s, r.class, code,
                          target_branch)

\* Mutant: a blocked scope violation is reported without a class.
EscalationOnly(s) ==
  _build_work_unit_report(s.status, s,
    IF s.status = "ESCALATED" THEN "ESCALATION_REQUIRED" ELSE "none", "none", target_branch)

report_from_reconcile(s) ==
  _build_work_unit_report(s.status, s,
    CASE s.status \in {"ESCALATED", "SCOPE_VIOLATION"} -> "ESCALATION_REQUIRED"
      [] s.status = "FAILED"                           -> "ENVIRONMENT_FAILURE"
      [] OTHER                                         -> "none",
    "none", target_branch)

\* A state that cannot be prepared: tampered with, of another branch or task,
\* or not readable at all.
report_from_preparation_error(code, s, branch) ==
  CASE code = "STATE_TAMPERED" ->
         _build_work_unit_report("SCOPE_VIOLATION", NewExecutionState, "ESCALATION_REQUIRED",
                                 code, target_branch)
    [] code \in {"STATE_BRANCH_MISMATCH", "UNSAFE_RECONCILE"} ->
         _build_work_unit_report("ESCALATED", s, "ESCALATION_REQUIRED", code, branch)
    [] OTHER ->
         _build_work_unit_report("FAILED", s, "ENVIRONMENT_FAILURE", code, branch)

-----------------------------------------------------------------------------
(* Validation, writing and reading *)

\* validate_work_unit_report without a Task Spec.
Consistent(r) ==
  /\ _as_work_unit_outcome(r.outcome)
  /\ r.compat = derived_compat_booleans(r.outcome)
  /\ r.completed = r.state.completed /\ r.repairs = r.state.repairs
  /\ r.branch = BranchOf(r.state)
  /\ ClassFits(r.outcome, r.class)
  /\ Succeeds(r.outcome) => r.code = "none"

\* With one: the tasks are its tasks, and a passed work unit completed them all.
FitsSpec(r) ==
  /\ r.completed \subseteq Tasks
  /\ r.outcome = "FINAL_VERIFICATION_PASSED" => Tasks \subseteq r.completed

validate_work_unit_report(r) == Consistent(r) /\ FitsSpec(r)

\* The JSON schema of the written fields.
validate_work_unit_report_dict(r) ==
  /\ _as_work_unit_outcome(r.outcome) /\ _as_report_class(r.class)
  /\ r.repairs \in Nat

\* A report is written whatever Task Spec its state is of.
write_work_unit_report(r) == Consistent(r) /\ validate_work_unit_report_dict(r)

\* What load_work_unit_report makes of the written fields: the schema holds, the
\* enumerations are parsed again, and everything is validated against the Task Spec.
load_work_unit_report(r) ==
  /\ validate_work_unit_report_dict(r)
  /\ r.state.status \in ExecutionStatus
  /\ _as_work_unit_outcome(r.outcome) /\ _as_report_class(r.class)
  /\ validate_work_unit_report(r)

\* The deliver job commits what a loaded report allows it to commit.
assert_commit_allowed(r) == r.outcome = "FINAL_VERIFICATION_PASSED"

\* The exit code of the run-work-unit command.
WORK_UNIT_EXIT_CODES(outcome) ==
  CASE outcome = "FINAL_VERIFICATION_PASSED" -> "ok"
    [] outcome = "SCOPE_VIOLATION"           -> "policy"
    [] outcome = "FAILED"                    -> "environment"
    [] OTHER                                 -> "invalid"

\* The exit code of the run-task command; a failed environment is not told apart.
CYCLE_EXIT_CODES(outcome) ==
  CASE Succeeds(outcome)              -> "ok"
    [] outcome = "SCOPE_VIOLATION"    -> "policy"
    [] OTHER                          -> "invalid"

\* The categories of the exceptions that end a process, and the exit code of a
\* command that ends with one.
CategoryOf(code) ==
  CASE code \in {"CODEX_TIMEOUT", "CODEX_NOT_FOUND", "VALIDATION_NOT_FOUND"} -> "EnvironmentFailure"
    [] code \in {"DIRTY_WORKTREE", "INVALID_TRANSITION"}                     -> "PolicyViolation"
    [] code = "INVALID_INPUT"                                                -> "InvalidInput"
    [] OTHER                                                                 -> "InternalFailure"

_exit_for_error(category) ==
  CASE category = "EnvironmentFailure" -> "environment"
    [] category = "PolicyViolation"    -> "policy"
    [] category = "InvalidInput"       -> "invalid"
    [] OTHER                           -> "internal"

\* The exit code of the run-work-unit command: that of the report it wrote, or
\* of the exception that kept it from writing one.
run_work_unit_cli(r) ==
  IF write_work_unit_report(r) THEN WORK_UNIT_EXIT_CODES(r.outcome)
                               ELSE _exit_for_error("InvalidInput")

-----------------------------------------------------------------------------
(* Property *)

\* A report that reaches a deliver job, and means to it what happened.
Delivers(r) ==
  /\ validate_work_unit_report(r) /\ load_work_unit_report(r)
  /\ assert_commit_allowed(r) <=> run_work_unit_cli(r) = "ok"

\* A cycle returned, and the next one has not gone far.
Returned == result # NoResult /\ pc \in {"idle", "cycle", "reporting"}

\* The states from which a process may start, and those in which it finds a
\* state file that blocks it.
MayStart == pc = "idle" /\ runs < MaxRuns
ReportsBlocked == MayStart /\ file.kind = "regular" /\ file.data.status \in BLOCKED

\* Every way out of run_work_unit that means to report does report: each result
\* of a cycle, each blocked state and each error of the preparation makes a
\* report that passes its own validation when it is built, and that the deliver
\* job can read; the report of a state that belongs to another branch or Task
\* Spec can at least be written.  The failure classes are set in nine places of
\* cycle.py and three of workunit.py, and a wrong one silences the run.
EveryReportIsRead ==
  /\ Returned =>
       \A code \in CycleCodes(result) :
         /\ validate_cycle_result(result, code)
         /\ pc = "reporting" => Delivers(report_from_cycle(result, code, state))
  /\ ReportsBlocked => Delivers(report_from_reconcile(file.data))
  /\ MayStart =>
       \A code \in Codes \ {"REPAIR_ATTEMPT_LIMIT"} :
         LET s == IF file.kind = "regular" THEN file.data ELSE NewExecutionState
         IN  /\ Delivers(report_from_preparation_error(code, s, target_branch))
             /\ write_work_unit_report(report_from_preparation_error(code, Foreign(s), BranchOf(Foreign(s))))
=============================================================================

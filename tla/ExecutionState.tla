--------------------------- MODULE ExecutionState ---------------------------
(***************************************************************************)
(* The execution state of a work unit (agent/state.py), the selection of   *)
(* its next task (agent/select.py) and the rewrite of a state left behind  *)
(* by an interrupted run (agent/reconcile.py).                             *)
(*                                                                         *)
(* A task is its position in the Task Spec, so the order of the numbers is *)
(* the definition order the selector follows.  Of the record the code      *)
(* keeps, the fields that decide control are modelled; completedTasks is   *)
(* only ever searched, so a set stands for the list.                       *)
(***************************************************************************)
EXTENDS Integers, FiniteSets

CONSTANTS NumTasks,     \* number of tasks in the Task Spec
          DependsOn,    \* depends_on of every task
          RepairLimit   \* repair_attempt_limit of the Task Spec

Tasks == 1..NumTasks

ASSUME NumTasksAssumption == NumTasks \in Nat \ {0}
ASSUME DependsOnAssumption == DependsOn \in [Tasks -> SUBSET Tasks]
ASSUME RepairLimitAssumption == RepairLimit \in Nat

\* The depth-first search of the parser accepts no dependency cycle: every
\* non-empty set of tasks holds one that depends on no other of the set.
ASSUME AcyclicAssumption ==
  \A S \in SUBSET Tasks : S # {} => \E t \in S : DependsOn[t] \cap S = {}

-----------------------------------------------------------------------------
(* States and the table of legal transitions *)

ExecutionStatus ==
  { "PENDING", "RUNNING", "IMPLEMENTING", "VALIDATING", "TASK_COMPLETED",
    "FINAL_VALIDATING", "PR_CREATED", "IN_REVIEW", "READY_FOR_HUMAN",
    "COMPLETED", "INVALID_SPEC", "SCOPE_VIOLATION", "FAILED", "ESCALATED" }

\* Where a running work unit may end from any status.
Stopped == {"FAILED", "ESCALATED"}

ALLOWED_TRANSITIONS ==
  [ s \in ExecutionStatus |->
      CASE s = "PENDING"          -> {"RUNNING", "INVALID_SPEC"}
        [] s = "RUNNING"          -> {"IMPLEMENTING", "INVALID_SPEC"} \cup Stopped
        [] s = "IMPLEMENTING"     -> {"VALIDATING", "SCOPE_VIOLATION"} \cup Stopped
        [] s = "VALIDATING"       -> {"TASK_COMPLETED", "IMPLEMENTING", "SCOPE_VIOLATION"}
                                       \cup Stopped
        [] s = "TASK_COMPLETED"   -> {"IMPLEMENTING", "FINAL_VALIDATING"} \cup Stopped
        [] s = "FINAL_VALIDATING" -> {"PR_CREATED"} \cup Stopped
        [] s = "PR_CREATED"       -> {"IN_REVIEW"} \cup Stopped
        [] s = "IN_REVIEW"        -> {"READY_FOR_HUMAN", "IMPLEMENTING"} \cup Stopped
        [] s = "READY_FOR_HUMAN"  -> {"COMPLETED"}
        [] s = "FAILED"           -> {"RUNNING"}
        [] OTHER                  -> {} ]

CanTransit(from, to) == to \in ALLOWED_TRANSITIONS[from]

NoTask == 0

ExecutionStates ==
  [ status    : ExecutionStatus,
    current   : Tasks \cup {NoTask},
    completed : SUBSET Tasks,
    repairs   : Nat ]

NewExecutionState ==
  [ status |-> "PENDING", current |-> NoTask, completed |-> {}, repairs |-> 0 ]

-----------------------------------------------------------------------------
(* Task selection *)

DependenciesMet(t, completed) == DependsOn[t] \subseteq completed

\* A current task that is not complete is resumed, or the selector fails
\* closed; otherwise the first incomplete task in definition order whose
\* dependencies are complete is taken.
Resumed(s) == s.current \in Tasks \ s.completed

ReadyTasks(s) ==
  { t \in Tasks \ s.completed : DependenciesMet(t, s.completed) }

\* Mutant: definition order alone decides, dependencies are not looked at.
SelectsInOrder(s, t) ==
  /\ t \in Tasks \ s.completed
  /\ IF Resumed(s) THEN t = s.current ELSE \A u \in Tasks \ s.completed : t <= u

Selects(s, t) ==
  /\ t \in ReadyTasks(s)
  /\ IF Resumed(s) THEN t = s.current
                   ELSE \A u \in ReadyTasks(s) : t <= u

\* Mutant: one completed task is taken for all of them.
AnyCompleted(s) == s.completed # {}

AllCompleted(s) == Tasks \subseteq s.completed

DependencyBlocked(s) ==
  /\ ~ AllCompleted(s)
  /\ ~ \E t \in Tasks : Selects(s, t)

-----------------------------------------------------------------------------
(* Restart *)

IN_FLIGHT == {"RUNNING", "IMPLEMENTING", "VALIDATING", "FINAL_VALIDATING"}
BLOCKED   == {"ESCALATED", "SCOPE_VIOLATION", "INVALID_SPEC", "COMPLETED"}

\* Mutant: the interrupted task is taken to be done.
RecoverAsCompleted(s) ==
  IF s.status = "IMPLEMENTING"
  THEN [s EXCEPT !.status = "TASK_COMPLETED", !.completed = @ \cup {s.current}]
  ELSE s

RecoverInFlight(s) ==
  IF s.status = "FINAL_VALIDATING"
  THEN s
  ELSE IF s.completed # {}
       THEN [s EXCEPT !.status = "TASK_COMPLETED"]
       ELSE [s EXCEPT !.status = "PENDING", !.current = NoTask, !.repairs = 0]

\* Mutant: a retry refunds the repairs already spent.
PrepareRefunded(s) ==
  CASE s.status = "FAILED"    -> [s EXCEPT !.status = "RUNNING", !.repairs = 0]
    [] s.status \in IN_FLIGHT -> RecoverInFlight(s)
    [] OTHER                  -> s

\* What a restarted work unit makes of a state file that does not block it.
PrepareState(s) ==
  CASE s.status = "PR_CREATED" -> NewExecutionState
    [] s.status = "FAILED"     -> [s EXCEPT !.status = "RUNNING"]
    [] s.status \in IN_FLIGHT  -> RecoverInFlight(s)
    [] OTHER                   -> s
=============================================================================

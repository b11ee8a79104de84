----------------------------- MODULE MCWorkUnit -----------------------------
(***************************************************************************)
(* Instances of WorkUnit for TLC.  The Task Spec lists its tasks against   *)
(* their dependencies: task 1 needs task 2, so that the order of selection *)
(* differs from the order of definition.                                   *)
(***************************************************************************)
EXTENDS WorkUnitReport, Validation

DependsOnTwo == [t \in 1..2 |-> IF t = 1 THEN {2} ELSE {}]

\* The commands exit with 0 for a success and for nothing else, also when an
\* exception ends them.
ASSUME OnlySuccessExitsOk ==
  /\ \A o \in CycleOutcome : CYCLE_EXIT_CODES(o) = "ok" <=> Succeeds(o)
  /\ \A o \in WorkUnitOutcome : WORK_UNIT_EXIT_CODES(o) = "ok" <=> o = "FINAL_VERIFICATION_PASSED"
  /\ \A code \in ErrorCode \ {"none"} : _exit_for_error(CategoryOf(code)) # "ok"

-----------------------------------------------------------------------------
(* Texts of up to three lines *)

Line(kind, binary) ==
  [kind |-> kind, binary |-> binary, unbalanced |-> FALSE, destructive |-> FALSE]

Lines ==
  {Line("blank", "-"), Line("comment", "-"), Line("command", "fence"), Line("command", "pytest"),
   Line("command", "make"), Line("command", "git"),
   [Line("command", "npm") EXCEPT !.unbalanced = TRUE],
   [Line("command", "python") EXCEPT !.destructive = TRUE]}

Texts == UNION {[1..n -> Lines] : n \in 0..3}

\* The actions of WorkUnit choose among exactly the ends a validation may have,
\* and which of them exclude which: nothing that can be repaired was refused,
\* and a text with a command that is refused or unreadable never passes.
ASSUME ValidationsEnd ==
  UNION {run_validation_text(text) : text \in Texts}
    = {"none", "INVALID_INPUT", "VALIDATION_NOT_FOUND"} \cup FailureClass
ASSUME RepairsNeedARunnableCommand ==
  \A text \in Texts :
    "AGENT_REPAIRABLE" \in run_validation_text(text) =>
      \E i \in DOMAIN text : text[i].binary \in RepairableBinaries /\ ~ text[i].destructive
ASSUME RefusedNeverPass ==
  \A text \in Texts :
    "none" \in run_validation_text(text) =>
      LET commands == extract_commands(text)
      IN  commands # <<>> /\ \A i \in DOMAIN commands :
            ~ commands[i].unbalanced /\ ~ inspect_command(commands[i])
=============================================================================

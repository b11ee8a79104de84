----------------------------- MODULE TaskLedger -----------------------------
(***************************************************************************)
(* What the execution of a work unit promises, whatever Codex, the         *)
(* validations and the operator do: tasks are completed one at a time and  *)
(* in dependency order, progress is lost only as a whole, and the work     *)
(* unit is declared to have passed only when every task is complete.       *)
(***************************************************************************)
CONSTANTS Tasks, DependsOn

VARIABLES done,     \* tasks recorded as completed
          verdict   \* what the last report says: "none", "passed" or "refused"

vars == <<done, verdict>>

Init == done = {} /\ verdict = "none"

Complete(t) ==
  /\ t \notin done
  /\ DependsOn[t] \subseteq done
  /\ done' = done \cup {t}
  /\ UNCHANGED verdict

StartOver == done' = {} /\ UNCHANGED verdict

Pass == done = Tasks /\ verdict' = "passed" /\ UNCHANGED done

Refuse == verdict' = "refused" /\ UNCHANGED done

\* A new workspace holds neither progress nor report.
Leave == done' \in {{}, done} /\ verdict' = "none"

Next == (\E t \in Tasks : Complete(t)) \/ StartOver \/ Pass \/ Refuse \/ Leave

Spec == Init /\ [][Next]_vars
=============================================================================

----------------------------- MODULE Validation -----------------------------
(***************************************************************************)
(* What a validation of the orchestrator comes to: the commands of a       *)
(* Validation or Final Verification section and their judgement            *)
(* (agent/validation.py), and the class of a failure (agent/classify.py).  *)
(*                                                                         *)
(* A line of the text is blank, a comment, a fence, or a command; of a     *)
(* command the model keeps its binary, its first argument, whether its     *)
(* quotes are balanced and whether its words spell a destructive           *)
(* terraform command.  Of what a command prints it keeps which families of *)
(* phrases occur.                                                          *)
(***************************************************************************)
EXTENDS Naturals, Sequences, FiniteSets

RepairableBinaries == {"pytest", "python", "python3", "py", "ruff", "mypy", "pyright",
                       "npm", "npx", "node", "cargo", "go"}
AllowedCommands == RepairableBinaries \cup {"make"}

-----------------------------------------------------------------------------
(* The commands of a text *)

IsFence(line) == line.kind = "command" /\ line.binary = "fence"

FencesUpTo(text, i) == Cardinality({j \in 1..i : IsFence(text[j])})

\* Lines between an opening fence and its closing one.
InBlock(text, i) ==
  /\ ~ IsFence(text[i])
  /\ FencesUpTo(text, i) % 2 = 1
  /\ FencesUpTo(text, Len(text)) > FencesUpTo(text, i)

_lines_to_commands(text) == SelectSeq(text, LAMBDA line : line.kind \notin {"blank", "comment"})

\* Without a command in a fenced block every line of the text counts, the
\* fences themselves among them.
extract_commands(text) ==
  LET fenced == _lines_to_commands(
                  [i \in 1..Len(text) |->
                     IF InBlock(text, i) THEN text[i] ELSE [text[i] EXCEPT !.kind = "blank"]])
  IN  IF fenced # <<>> THEN fenced ELSE _lines_to_commands(text)

\* git and every forbidden command are outside of the allowlist too; what
\* the checks before it decide is the wording of the refusal.
inspect_command(command) == command.binary \notin AllowedCommands \/ command.destructive

-----------------------------------------------------------------------------
(* Running them *)

\* What running an accepted command may come to.
Endings == [exit : {0, 1}, timed_out : {FALSE}, prints : SUBSET {"environment", "escalation"}]
             \cup {[exit |-> 1, timed_out |-> TRUE, prints |-> {"environment"}]}

Record(command, denied, ending) == [command |-> command, denied |-> denied, ending |-> ending]

Refused == [exit |-> 1, timed_out |-> FALSE, prints |-> {"escalation"}]

Passes(record) == ~ record.denied /\ ~ record.ending.timed_out /\ record.ending.exit = 0

\* The records a command may leave; none when it raises.
run_validation_command(command) ==
  IF command.unbalanced THEN {}
  ELSE IF inspect_command(command) THEN {Record(command, TRUE, Refused)}
  ELSE {Record(command, FALSE, ending) : ending \in Endings}

\* The exceptions a command may raise.
Raises(command) ==
  IF command.unbalanced THEN {"INVALID_INPUT"}
  ELSE IF inspect_command(command) THEN {} ELSE {"VALIDATION_NOT_FOUND"}

-----------------------------------------------------------------------------
(* Judging them *)

classify_output(prints, binary, exit) ==
  CASE "environment" \in prints -> "ENVIRONMENT_FAILURE"
    [] "environment" \notin prints /\ "escalation" \in prints -> "ESCALATION_REQUIRED"
    [] prints = {} /\ binary \in RepairableBinaries /\ exit # 0 -> "AGENT_REPAIRABLE"
    [] OTHER -> "ESCALATION_REQUIRED"

classify_validation(record) ==
  CASE Passes(record) -> "none"
    [] record.denied -> "ESCALATION_REQUIRED"
    [] ~ record.denied /\ record.ending.timed_out -> "ENVIRONMENT_FAILURE"
    [] OTHER -> classify_output(record.ending.prints, record.command.binary, record.ending.exit)

\* Commands run in order up to the first that does not pass.  Whether a
\* command is reached depends on those before it, each of which may pass
\* unless it is refused.
Reached(commands) ==
  {i \in 1..Len(commands) :
     \A j \in 1..(i - 1) : \E record \in run_validation_command(commands[j]) : Passes(record)}

\* How the validation of a text may end: the class of its first failure,
\* "none" when all of it passes, or the code of an exception.
run_validation_text(text) ==
  LET commands == extract_commands(text)
      failures == {record \in UNION {run_validation_command(commands[i]) : i \in Reached(commands)} :
                     ~ Passes(record)}
      passable == \A i \in 1..Len(commands) :
                    \E record \in run_validation_command(commands[i]) : Passes(record)
  IN  IF commands = <<>> THEN {"INVALID_INPUT"}
      ELSE {classify_validation(record) : record \in failures}
             \cup UNION {Raises(commands[i]) : i \in Reached(commands)}
             \cup (IF passable THEN {"none"} ELSE {})
=============================================================================

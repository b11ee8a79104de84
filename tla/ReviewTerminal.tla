--------------------------- MODULE ReviewTerminal ---------------------------
(***************************************************************************)
(* How the review workflow reads off GitHub what CodeRabbit said last      *)
(* about a commit (agent/review_terminal.py).  CodeRabbit speaks through   *)
(* check runs, which it updates in place, and through commit statuses,     *)
(* which it adds; the two number their entries independently and stamp     *)
(* them with a time in seconds.  Only what the resolution looks at is kept *)
(* of an entry; descriptions are the phrases the code recognises.          *)
(***************************************************************************)
EXTENDS Integers

CONSTANTS Heads   \* commits, in the order in which they are pushed

Kinds == {"NONE", "IN_PROGRESS", "COMPLETED", "SKIPPED", "FAILED", "AMBIGUOUS"}
Escalating == {"SKIPPED", "FAILED", "AMBIGUOUS"}
Terminal == Escalating \cup {"COMPLETED"}

\* A check run: completed = 0 until it is completed.
CheckRuns ==
  [ id : Nat, sha : Heads, ours : BOOLEAN, status : {"in_progress", "completed"},
    conclusion : {"", "success", "skipped", "failure", "unknown"},
    started : Nat, completed : Nat ]

Statuses ==
  [ id : Nat, sha : Heads, ours : BOOLEAN, state : {"pending", "success", "failure"},
    description : {"", "completed", "skipped", "in_progress"}, updated : Nat ]

\* An unknown conclusion counts as a failure.
map_check_conclusion(conclusion) ==
  CASE conclusion = "success" -> "COMPLETED"
    [] conclusion = "skipped" -> "SKIPPED"
    [] OTHER                  -> "FAILED"

\* A failed state decides, then the description, then the state; success
\* without a known description is ambiguous.
map_status_entry(state, description) ==
  IF state = "failure" THEN "FAILED"
  ELSE CASE description = "skipped"     -> "SKIPPED"
         [] description = "in_progress" -> "IN_PROGRESS"
         [] description = "completed"   -> "COMPLETED"
         [] OTHER -> IF state = "pending" THEN "IN_PROGRESS" ELSE "AMBIGUOUS"

\* The entry as an item of the timeline.
CheckItem(c) ==
  [ at |-> IF c.completed # 0 THEN c.completed ELSE c.started, id |-> c.id, order |-> 0,
    kind |-> IF c.status = "completed" THEN map_check_conclusion(c.conclusion)
             ELSE "IN_PROGRESS" ]
StatusItem(s) ==
  [ at |-> s.updated, id |-> s.id, order |-> 1,
    kind |-> map_status_entry(s.state, s.description) ]

\* GitHub lists the entries of the commit; those of other apps are dropped.
Belongs(e, head) == e.sha = head /\ e.ours

Timeline(checks, statuses, head) ==
  {CheckItem(c) : c \in {e \in checks : Belongs(e, head)}}
    \cup {StatusItem(s) : s \in {e \in statuses : Belongs(e, head)}}

\* Mutant: the larger id is the later entry.
PrecedesById(a, b) == a.id < b.id \/ (a.id = b.id /\ a.order < b.order)

\* By time, then by id; the sort is stable and lists the checks first.
Precedes(a, b) ==
  \/ a.at < b.at
  \/ a.at = b.at /\ a.id < b.id
  \/ a.at = b.at /\ a.id = b.id /\ a.order < b.order

\* The last item of the timeline decides.
resolve_coderabbit_terminal(checks, statuses, head) ==
  LET items == Timeline(checks, statuses, head)
  IN  IF items = {} THEN "NONE"
      ELSE (CHOOSE a \in items : \A b \in items : b = a \/ Precedes(b, a)).kind
=============================================================================

----------------------------- MODULE MCTaskSpec -----------------------------
(* TaskSpec with one ordinary section and two subsections of a task. *)
EXTENDS TaskSpec

Names    == {"A", "B", "C"}
Sections == {"Objective", "Tasks"}
Parts    == {"Requirement", "Validation"}

Section(t, filled) == [level |-> 1, title |-> t, depends_on |-> <<>>, text |-> filled]
Task(t, deps, more) == [level |-> 2, title |-> t, depends_on |-> deps, text |-> more]
Part(t, filled) == [level |-> 3, title |-> t, depends_on |-> <<>>, text |-> filled]

Pieces ==
  {Section("Objective", TRUE), Section("Objective", FALSE), Section("Tasks", FALSE),
   Section("Tasks", TRUE), Section("?", TRUE),
   Task("A", <<>>, FALSE), Task("B", <<"A">>, FALSE), Task("B", <<"?">>, FALSE),
   Task("B", <<>>, TRUE), Task("?", <<>>, FALSE),
   Part("Requirement", TRUE), Part("Validation", TRUE), Part("Validation", FALSE),
   Part("?", TRUE), [Part("Validation", TRUE) EXCEPT !.level = 4]}

WholeTask(t, deps) == <<Task(t, deps, FALSE), Part("Requirement", TRUE), Part("Validation", TRUE)>>

Whole(body) ==
  [frontmatter |-> "good", preamble |-> FALSE,
   blocks |-> <<Section("Objective", TRUE), Section("Tasks", FALSE)>> \o body]

\* Every graph of three tasks with at most two dependencies each, as it stands.
Lists  == {<<>>} \cup {<<a>> : a \in Names} \cup (Names \X Names)
Graphs == {[doc |-> Whole(WholeTask("A", f["A"]) \o WholeTask("B", f["B"]) \o WholeTask("C", f["C"])),
            edits |-> 0] : f \in [Names -> Lists]}

\* One task and two tasks, and a task that stands before the sections, to be edited.
Misplaced == [Whole(<<>>) EXCEPT !.blocks = WholeTask("A", <<>>) \o @]
Texts == {[doc |-> Whole(WholeTask("A", <<>>)), edits |-> 2],
          [doc |-> Whole(WholeTask("A", <<>>) \o WholeTask("B", <<"A">>)), edits |-> 2],
          [doc |-> Misplaced, edits |-> 1]}

\* Paths of up to four segments, from the repository or from the root.
Repository == <<"r">>
TaskDir    == <<"d">>
Named == [absolute : {FALSE}, exists : {FALSE},
          parts : UNION {[1..n -> {"d", "x", "..", "."}] : n \in 0..4}]
           \cup [absolute : {TRUE}, exists : BOOLEAN,
                 parts : UNION {[1..n -> {"r", "d", "x", ".."}] : n \in 3..4}]

Both == Graphs \cup Texts
=============================================================================

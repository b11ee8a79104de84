------------------------------ MODULE TaskSpec ------------------------------
(***************************************************************************)
(* Reading a Task Spec (agent/spec.py, parse_spec_text): a person writes a *)
(* Markdown document; the parser goes over its heading blocks with one     *)
(* index, in nested loops, and hands the tasks to the check of TaskGraph.  *)
(* A document is what _heading_blocks makes of it; the text under a        *)
(* heading is there or not.                                                *)
(***************************************************************************)
EXTENDS TaskGraph, SpecPath

CONSTANTS REQUIRED_H1,  \* the sections a Task Spec must have; "Tasks" is one
          TASK_H3,      \* the subsections every task must have
          Unknown,      \* a title that is no section, no subsection and no task id
          Drafts,       \* what people start from, and how often they may edit it
          Blocks,       \* the heading blocks they may put in
          SourcePaths   \* how the file may be named: [absolute, exists, parts]

Titles == REQUIRED_H1 \cup TASK_H3 \cup Ids \cup {Unknown}

\* A heading, the ids on its depends_on line, and whether (other) text follows.
HeadingBlocks == [ level : 1..4, title : Titles, depends_on : Seq(Ids \cup {Unknown}),
                   text : BOOLEAN ]

\* What the frontmatter turns out to be; the last passes the parser, not the schema.
Frontmatters == {"good", "missing", "not an object", "has a body field", "against the schema"}

Documents == [ frontmatter : Frontmatters, preamble : BOOLEAN, blocks : Seq(HeadingBlocks) ]

ASSUME DraftsAssumption ==
  /\ "Tasks" \in REQUIRED_H1
  /\ Unknown \notin REQUIRED_H1 \cup TASK_H3 \cup Ids
  /\ Blocks \subseteq HeadingBlocks
  /\ Drafts \subseteq [ doc : Documents, edits : Nat ]
ASSUME SourcesAssumption ==
  SourcePaths \subseteq [ absolute : BOOLEAN, exists : BOOLEAN, parts : Seq(STRING) ]

VARIABLES
  draft,        \* the document, and how often it may still be edited
  index,        \* the next block
  sections,     \* titles of the sections read so far
  inTasks,      \* whether _parse_tasks is running
  heading,      \* the block that opened the task being read, or 0
  subsections,  \* blocks of its subsections
  identity      \* the path the file was named by and what it was bound to, or Unbound

reading == <<index, sections, inTasks, heading, subsections>>
vars    == <<draft, reading, graph, identity>>

Unbound == [ bound |-> FALSE ]

doc    == draft.doc
blocks == draft.doc.blocks

\* Type correctness; a task is being read only among the tasks, and its subsections
\* are the blocks that follow its heading.
TypeOK ==
  /\ GraphTypeOK
  /\ draft \in [ doc : Documents, edits : Nat ]
  /\ index \in 1..(Len(blocks) + 1)
  /\ sections \subseteq REQUIRED_H1
  /\ inTasks \in BOOLEAN
  /\ heading \in 0..Len(blocks)
  /\ heading # 0 => inTasks /\ subsections = (heading + 1)..(index - 1)
  /\ subsections \subseteq DOMAIN blocks

Init ==
  /\ draft \in Drafts
  /\ index = 1 /\ sections = {} /\ inTasks = FALSE /\ heading = 0 /\ subsections = {}
  /\ tasks = <<>> /\ verdict = "written" /\ NoSearch
  /\ identity = Unbound

-----------------------------------------------------------------------------
(* People write the document *)

Becomes(d) == draft' = [doc |-> d, edits |-> draft.edits - 1] /\ UNCHANGED <<reading, graph, identity>>

Editable == verdict = "written" /\ draft.edits > 0

WithBlocks(bs) == Becomes([doc EXCEPT !.blocks = bs])

Insert ==
  /\ Editable
  /\ \E i \in 0..Len(blocks), b \in Blocks :
       WithBlocks(SubSeq(blocks, 1, i) \o <<b>> \o SubSeq(blocks, i + 1, Len(blocks)))

Delete ==
  /\ Editable
  /\ \E i \in DOMAIN blocks : WithBlocks(SubSeq(blocks, 1, i - 1) \o SubSeq(blocks, i + 1, Len(blocks)))

Replace ==
  /\ Editable
  /\ \E i \in DOMAIN blocks, b \in Blocks : WithBlocks([blocks EXCEPT ![i] = b])

\* The frontmatter, or text before the first heading.
EditTop ==
  /\ Editable
  /\ \/ \E f \in Frontmatters : Becomes([doc EXCEPT !.frontmatter = f])
     \/ Becomes([doc EXCEPT !.preamble = ~doc.preamble])

-----------------------------------------------------------------------------
(* The parser reads it *)

Block  == blocks[index]
AtEnd  == index > Len(blocks)
Level  == IF AtEnd THEN 0 ELSE Block.level
Reject == verdict' = "invalid" /\ UNCHANGED <<draft, reading, tasks, search, identity>>

Frontmatter == doc.frontmatter \in {"good", "against the schema"}

\* _split_frontmatter, _load_frontmatter, the overlap with body fields, _heading_blocks.
Open ==
  /\ verdict = "written"
  /\ IF Frontmatter /\ ~doc.preamble /\ blocks # <<>>
     THEN verdict' = "reading" /\ UNCHANGED <<draft, reading, tasks, search, identity>>
     ELSE Reject

Reads == verdict = "reading" /\ UNCHANGED <<draft, search, identity>>

SectionOk == Block.level = 1 /\ Block.title \notin sections /\ Block.title \in REQUIRED_H1

NoSubheading == index < Len(blocks) => blocks[index + 1].level = 1

\* One round of the loop of _parse_markdown_body.
ReadSection ==
  /\ Reads /\ ~inTasks /\ ~AtEnd
  /\ \/ /\ SectionOk /\ Block.title = "Tasks" /\ ~Block.text
        /\ inTasks' = TRUE
        /\ sections' = sections \cup {Block.title} /\ index' = index + 1
        /\ UNCHANGED <<heading, subsections, tasks, verdict>>
     \/ /\ SectionOk /\ Block.title # "Tasks" /\ NoSubheading /\ Block.text
        /\ sections' = sections \cup {Block.title} /\ index' = index + 1
        /\ UNCHANGED <<inTasks, heading, subsections, tasks, verdict>>
     \/ /\ ~SectionOk \/ (IF Block.title = "Tasks" THEN Block.text ELSE ~NoSubheading \/ ~Block.text)
        /\ Reject

\* The outer loop of _parse_tasks comes to a heading.
ReadHeading ==
  /\ Reads /\ inTasks /\ heading = 0 /\ Level > 1
  /\ IF Level = 2
     THEN /\ heading' = index /\ subsections' = {} /\ index' = index + 1
          /\ UNCHANGED <<sections, inTasks, tasks, verdict>>
     ELSE Reject

\* Its inner loop.
ReadSubsection ==
  /\ Reads /\ heading # 0 /\ Level >= 3
  /\ IF Level = 3 /\ \A k \in subsections : blocks[k].title # Block.title
     THEN /\ subsections' = subsections \cup {index} /\ index' = index + 1
          /\ UNCHANGED <<sections, inTasks, heading, tasks, verdict>>
     ELSE Reject

\* _parse_depends, for the task being read.
DependsOk == ~blocks[heading].text /\ Unknown \notin SetOf(blocks[heading].depends_on)

\* Mutant: the subsections that are there are filled.
SubsectionsFilled == \A k \in subsections : blocks[k].title \in TASK_H3 /\ blocks[k].text

SubsectionsOk ==
  /\ {blocks[k].title : k \in subsections} = TASK_H3
  /\ \A k \in subsections : blocks[k].text

TaskAt(i) == [id |-> blocks[i].title, depends_on |-> blocks[i].depends_on]

\* The inner loop ends: _parse_task.
EndTask ==
  /\ Reads /\ heading # 0 /\ Level < 3
  /\ IF blocks[heading].title \in Ids /\ DependsOk /\ SubsectionsOk
     THEN /\ tasks' = Append(tasks, TaskAt(heading))
          /\ heading' = 0
          /\ UNCHANGED <<index, sections, inTasks, subsections, verdict>>
     ELSE Reject

\* The outer loop ends, and _parse_markdown_body goes on.
EndTasks ==
  /\ Reads /\ inTasks /\ heading = 0 /\ Level <= 1
  /\ IF tasks # <<>>
     THEN inTasks' = FALSE /\ UNCHANGED <<index, sections, heading, subsections, tasks, verdict>>
     ELSE Reject

\* The body is read; the missing sections, then the schema.
EndBody ==
  /\ Reads /\ ~inTasks /\ AtEnd
  /\ IF REQUIRED_H1 \subseteq sections /\ doc.frontmatter = "good"
     THEN verdict' = "parsed" /\ UNCHANGED <<reading, tasks>>
     ELSE Reject

Write == Insert \/ Delete \/ Replace \/ EditTop

Read ==
  \/ Open \/ ReadSection \/ ReadHeading \/ ReadSubsection \/ EndTask \/ EndTasks \/ EndBody

Check == CheckGraph /\ UNCHANGED <<draft, reading, identity>>

\* bind_spec_identity of the parsed Task Spec.
Bind ==
  /\ verdict = "accepted" /\ identity = Unbound
  /\ \E path \in SourcePaths :
       identity' = [bound |-> TRUE, path |-> path,
                    result |-> canonicalize_spec_path(path, path.exists)]
  /\ UNCHANGED <<draft, reading, graph>>

Next == Write \/ Read \/ Check \/ Bind

\* A parser that runs does not stop; people may stop editing, or never hand it in.
Spec == Init /\ [][Next]_vars /\ WF_vars(Read \/ Check)

-----------------------------------------------------------------------------
(* What a Task Spec is, without a parser *)

SectionBlocks == {i \in DOMAIN blocks : blocks[i].level = 1}
TaskBlocks    == {i \in DOMAIN blocks : blocks[i].level = 2}

\* The blocks between a block and the next one of its level or a higher one.
Under(i) == {k \in DOMAIN blocks : k > i /\ \A j \in (i + 1)..k : blocks[j].level > blocks[i].level}

Titled(S) == {blocks[i].title : i \in S}

OneEach(S, names) == Titled(S) = names /\ \A i, k \in S : blocks[i].title = blocks[k].title => i = k

\* Where a block may stand: a section is filled, with nothing under it but for
\* Tasks, which has no text of its own; a task stands under Tasks, with an id, known
\* names on its depends_on line, and every subsection once; a subsection is filled
\* and stands under a task.
Placed(i) ==
  \/ i \in SectionBlocks /\ blocks[i].title # "Tasks" /\ blocks[i].text /\ Under(i) = {}
  \/ i \in SectionBlocks /\ blocks[i].title = "Tasks" /\ ~blocks[i].text
  \/ /\ i \in TaskBlocks /\ blocks[i].title \in Ids
     /\ Unknown \notin SetOf(blocks[i].depends_on) /\ ~blocks[i].text
     /\ OneEach(Under(i), TASK_H3)
     /\ \E k \in SectionBlocks : blocks[k].title = "Tasks" /\ i \in Under(k)
  \/ blocks[i].level = 3 /\ blocks[i].text /\ \E k \in TaskBlocks : i \in Under(k)

\* Every section once, at least one task, and no block that may not stand where it is.
WellFormed ==
  /\ doc.frontmatter = "good" /\ ~doc.preamble
  /\ OneEach(SectionBlocks, REQUIRED_H1)
  /\ TaskBlocks # {}
  /\ \A i \in DOMAIN blocks : Placed(i)

\* The number of a task in its document, and the tasks in that order.
Before(i) == Cardinality({k \in TaskBlocks : k <= i})

TasksOf ==
  [n \in 1..Cardinality(TaskBlocks) |-> TaskAt(CHOOSE i \in TaskBlocks : Before(i) = n)]

\* The parser accepts for the check of the graph exactly what is a Task Spec, with
\* exactly its tasks: nothing it skips over, reads twice or attributes to another
\* heading makes a document pass, and no legal document is turned away.
ReadsWhatIsWritten ==
  verdict \in Outcomes =>
    /\ verdict # "invalid" <=> WellFormed
    /\ verdict # "invalid" => tasks = TasksOf

\* A bound path is canonical and denotes the file that was named, however it was
\* named; and a relative path is only refused as an escape if it really leaves the
\* repository (spec.py:134-301).  Two names of one file make one identity.
IdentityIsTheFile ==
  identity.bound =>
    LET path == identity.path
        to   == identity.result
    IN  /\ to.code = "" => /\ is_canonical_spec_path(to.parts)
                           /\ Denotes(path.parts, IF path.absolute THEN Root \o to.parts ELSE to.parts)
        /\ to.code = "SPEC_PATH_ESCAPE" /\ ~path.absolute => Leaves(path.parts)

\* A document that is handed in is judged, cyclic ones too.
ParserEnds == (verdict = "reading") ~> (verdict \in Outcomes)
=============================================================================

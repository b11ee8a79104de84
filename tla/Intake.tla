------------------------------- MODULE Intake -------------------------------
(***************************************************************************)
(* From a push to an execution (agent/intake.py and the workflow           *)
(* agent-execute.yml): people push commits that change Task Specs, or      *)
(* dispatch one by hand; each event starts a workflow run that parses,     *)
(* waits in the concurrency group of its task, and executes.               *)
(* What TaskSpec decides about a document is a set of contents here; what  *)
(* an execution does is WorkUnit's, and what follows it is Delivery's.     *)
(***************************************************************************)
EXTENDS Naturals, Sequences

CONSTANTS Branches, Files,
          Contents,   \* what a file under specs/tasks may hold
          TaskOf,     \* the id in it
          BaseOf,     \* the base_branch in it
          Malformed,  \* the contents parse_spec refuses
          Absent,     \* no such file
          Outside,    \* a path outside of specs/tasks
          Trees,      \* the trees people commit
          Main,       \* the branch that exists at first
          MaxCommits, \* bound on the commits of a behaviour
          MaxSize     \* bound on its commits and runs together

\* What a commit may hold under specs/tasks.
Snapshots == [Files -> Contents \cup {Absent}]

ASSUME IntakeAssumption ==
  /\ Absent \notin Contents /\ Outside \notin Files
  /\ TaskOf \in [Contents -> STRING] /\ BaseOf \in [Contents -> Branches]
  /\ Malformed \subseteq Contents
  /\ Trees \subseteq Snapshots
  /\ Main \in Branches

VARIABLES
  commits,   \* all commits: tree, parent (0 for the first) and ancestors, itself included
  branches,  \* the tip of each branch, 0 while it does not exist
  runs       \* the workflow runs, in the order of their events

vars == <<commits, branches, runs>>

Commits == DOMAIN commits
Tree(c) == IF c = 0 THEN [f \in Files |-> Absent] ELSE commits[c].tree

\* "rejected" and "broken" are failures of the job parse-spec.
Red      == {"rejected", "broken"}
Executed == {"executing", "executed"}
Over     == Red \cup {"skipped", "cancelled", "stopped", "executed"}
Stages   == Over \cup Executed \cup {"parsing", "queued"}

\* An event and how far its run is.  since is the commit the push started from (the
\* fork point if it created the branch), beside are the runs unfinished when it came,
\* parsing those of them that had not entered a group, and replacedBy is the run that
\* took its place in one, 0 if none did; all four are history.
Runs == [ event : {"push", "workflow_dispatch"}, ref : Branches, sha : Commits,
          before : Commits \cup {0}, spec_path : Files \cup {Outside},
          stage : Stages, spec : Files \cup {Outside}, since : Commits, beside : SUBSET Nat,
          parsing : SUBSET Nat, replacedBy : Nat ]

\* Type correctness; a run that was let through has selected a legal file of its
\* commit, and two executions of one task never overlap, whichever files and branches
\* they come from (agent-execute.yml:119-121).
TypeOK ==
  /\ commits \in Seq([ tree : Snapshots, parent : Nat, past : SUBSET Nat ])
  /\ \A c \in Commits : commits[c].past \subseteq 1..c /\ commits[c].parent < c
  /\ branches \in [Branches -> Commits \cup {0}]
  /\ runs \in Seq(Runs)
  /\ \A r \in DOMAIN runs :
       runs[r].stage \in Executed \cup {"queued", "cancelled"} =>
         /\ runs[r].spec # Outside
         /\ Tree(runs[r].sha)[runs[r].spec] \in Contents \ Malformed
  /\ \A r, q \in DOMAIN runs :
       runs[r].stage = "executing" /\ runs[q].stage = "executing" /\ r # q =>
         TaskOf[Tree(runs[r].sha)[runs[r].spec]] # TaskOf[Tree(runs[q].sha)[runs[q].spec]]

Init ==
  /\ commits = <<[tree |-> Tree(0), parent |-> 0, past |-> {1}]>>
  /\ branches = [b \in Branches |-> IF b = Main THEN 1 ELSE 0]
  /\ runs = <<>>

-----------------------------------------------------------------------------
(* People *)

Differ(t, u)     == {f \in Files : t[f] # u[f]}
Unfinished       == {r \in DOMAIN runs : runs[r].stage \notin Over}
Parsing          == {r \in Unfinished : runs[r].stage = "parsing"}
Room(cs)         == Len(cs) <= MaxCommits /\ Len(cs) + Len(runs) < MaxSize

Event(event, b, before, sha, path, since) ==
  [event |-> event, ref |-> b, sha |-> sha, before |-> before, spec_path |-> path,
   stage |-> "parsing", spec |-> Outside, since |-> since, beside |-> Unfinished,
   parsing |-> Parsing, replacedBy |-> 0]

Commit(cs, p, t) ==
  Append(cs, [tree |-> t, parent |-> p, past |-> cs[p].past \cup {Len(cs) + 1}])

\* A push sets a branch, new or not, to a commit; GitHub starts the workflow if the
\* files under specs/tasks differ (the paths of the trigger).
Pushes(cs, b, p, sha) ==
  LET since == IF branches[b] = 0 THEN p ELSE branches[b]
  IN  /\ commits' = cs
      /\ branches' = [branches EXCEPT ![b] = sha]
      /\ runs' = IF Differ(cs[since].tree, cs[sha].tree) # {}
                 THEN Append(runs, Event("push", b, branches[b], sha, Outside, since))
                 ELSE runs

\* A push of one or two commits, on top of the branch or of another commit, which
\* creates the branch or replaces its commits.
Push(b) ==
  /\ \E p \in Commits, t \in Trees :
       LET one == Commit(commits, p, t)
       IN  \/ Room(one) /\ Pushes(one, b, p, Len(one))
           \/ \E u \in Trees : LET two == Commit(one, Len(one), u)
                               IN  Room(two) /\ Pushes(two, b, p, Len(two))

\* A branch is set back or created at a commit that is there.
Move(b) ==
  /\ Room(commits)
  /\ \E c \in Commits \ {branches[b]} : Pushes(commits, b, c, c)

Dispatch(b) ==
  /\ Room(commits) /\ branches[b] # 0
  /\ \E path \in Files \cup {Outside} :
       runs' = Append(runs, Event("workflow_dispatch", b, 0, branches[b], path, branches[b]))
  /\ UNCHANGED <<commits, branches>>

\* "Re-run all jobs" of a run that is over.
Rerun(r) ==
  /\ Room(commits) /\ runs[r].stage \in Over
  /\ runs' = Append(runs, [runs[r] EXCEPT !.stage = "parsing", !.spec = Outside, !.beside = Unfinished,
                                          !.parsing = Parsing, !.replacedBy = 0])
  /\ UNCHANGED <<commits, branches>>

-----------------------------------------------------------------------------
(* The job parse-spec *)

\* What a checkout with the whole history has, besides the commit of the event.
Reachable == UNION {commits[branches[b]].past : b \in {x \in Branches : branches[x] # 0}}

\* git diff --diff-filter=AMCR
AMCR(t, u) == {f \in Differ(t, u) : u[f] # Absent}

\* Mutant: the last commit of the push stands for the push.
LastCommitOnly(run) == Differ(Tree(commits[run.sha].parent), Tree(run.sha))

list_changed_spec_paths(run) ==
  IF run.before = 0 THEN Differ(Tree(commits[run.sha].parent), Tree(run.sha))
                    ELSE AMCR(Tree(run.before), Tree(run.sha))

\* Mutant: the first of the changed files is taken.
AnyOf(paths) == paths # {}

OneSpec(paths) == \E f \in paths : paths = {f}

Known(run) == run.before = 0 \/ run.before \in Reachable \cup commits[run.sha].past

\* The file a dispatch names, if it is a file under specs/tasks.
resolve_spec_rel(run) == {f \in Files : f = run.spec_path /\ Tree(run.sha)[f] # Absent}

\* _select_spec_path: what it may select, nothing if it raises.
Selectable(run) ==
  LET changed == list_changed_spec_paths(run)
  IN  IF run.event = "workflow_dispatch" THEN resolve_spec_rel(run)
      ELSE IF OneSpec(changed) THEN changed ELSE {}

Content(run, f) == Tree(run.sha)[f]

Parses(run, f) == Content(run, f) \in Contents \ Malformed

Ends(r, stage) == runs' = [runs EXCEPT ![r].stage = stage]

\* Mutant: executions are kept apart by branch.
GroupByRef(run) == run.ref

group(run) == TaskOf[Content(run, run.spec)]

\* GitHub keeps one run of a group waiting: the one that waited is cancelled, be its
\* event the older or the newer one.
Enter(r, f) ==
  LET entering == [runs[r] EXCEPT !.spec = f, !.stage = "queued"]
  IN  runs' = [q \in DOMAIN runs |->
                 IF q = r THEN entering
                 ELSE IF runs[q].stage = "queued" /\ group(runs[q]) = group(entering)
                      THEN [runs[q] EXCEPT !.stage = "cancelled", !.replacedBy = r]
                      ELSE runs[q]]

OnBaseBranch(run, f) == run.ref = BaseOf[Content(run, f)]

\* prepare-intake.py (evaluate_intake), and the end of the job.
ParseSpec(r) ==
  LET run == runs[r] IN
  /\ run.stage = "parsing"
  /\ \/ ~Known(run) /\ Ends(r, "broken")
     \/ Known(run) /\ Selectable(run) = {} /\ Ends(r, "rejected")
     \/ /\ Known(run)
        /\ \E f \in Selectable(run) :
             \/ ~Parses(run, f) /\ Ends(r, "rejected")
             \/ Parses(run, f) /\ ~OnBaseBranch(run, f) /\ Ends(r, "skipped")
             \/ Parses(run, f) /\ OnBaseBranch(run, f) /\ Enter(r, f)
  /\ UNCHANGED <<commits, branches>>

-----------------------------------------------------------------------------
(* The job execute *)

Busy(run) == \E q \in DOMAIN runs : runs[q].stage = "executing" /\ group(runs[q]) = group(run)

Start(r) ==
  /\ runs[r].stage = "queued" /\ ~Busy(runs[r])
  /\ Ends(r, "executing")
  /\ UNCHANGED <<commits, branches>>

\* run_work_unit, with a report or without one; the job deliver follows.
Execute(r) ==
  /\ runs[r].stage = "executing"
  /\ Ends(r, "executed")
  /\ UNCHANGED <<commits, branches>>

\* Someone cancels the run; before it is parsed that is as if the event had not come.
Stop(r) ==
  /\ runs[r].stage \in {"queued", "executing"}
  /\ Ends(r, "stopped")
  /\ UNCHANGED <<commits, branches>>

Job(r) == ParseSpec(r) \/ Start(r) \/ Execute(r)

People ==
  \/ \E b \in Branches : Push(b) \/ Move(b) \/ Dispatch(b)
  \/ \E r \in DOMAIN runs : Rerun(r) \/ Stop(r)

Next == People \/ \E r \in DOMAIN runs : Job(r)

Spec == Init /\ [][Next]_vars

-----------------------------------------------------------------------------
(* Properties *)

\* The commits a push brought, and the files that some of them changed.
Brought(run) == commits[run.sha].past \ commits[run.since].past
ChangedIn(run) ==
  (UNION {Differ(Tree(commits[c].parent), Tree(c)) : c \in Brought(run)})
    \cup (Differ(Tree(run.since), Tree(run.sha)) \ {f \in Files : run.before = 0})

\* What its author expects to be executed: a legal Task Spec for this very branch,
\* that is not what it was before the push.
Meant(run) ==
  {f \in Differ(Tree(run.since), Tree(run.sha)) : Parses(run, f) /\ OnBaseBranch(run, f)}

\* The commits of a new branch before its tip are not looked at (intake.py:271-283).
Overlooked(run) ==
  {f \in Files : run.before = 0 /\ Tree(commits[run.sha].parent)[f] = Tree(run.sha)[f]}

Task(run, f) == TaskOf[Content(run, f)]

\* Why q may have taken the place of r.  Its event came while r was unfinished: "Do not
\* re-push the same task_id until the in-progress execute job finishes."
\* (agent-execute.yml:26).  Or its event is the older one: it was being parsed when that
\* of r came, and r was parsed sooner.
CameMeanwhile(q, r) == r \in runs[q].beside
WasOvertaken(q, r)  == q \in runs[r].parsing

\* No Task Spec that is pushed to its base branch is lost without a trace (the
\* contract of agent-execute.yml:3-10): unless the run fails or is stopped by hand, it
\* selects it; and it is cancelled only for another run of the same task that entered
\* the group after it.  That one need not be the newer version: where an older event is
\* parsed for longer, the newer version is the one that is cancelled.  A run that had
\* been parsed before the newer event came never does that to it.
\* Task Specs in the older commits of a new branch are the exception.
EveryPushIsAnswered ==
  \A r \in DOMAIN runs :
    runs[r].event = "push" /\ runs[r].stage \notin Red \cup {"parsing", "stopped"} =>
      \A f \in Meant(runs[r]) \ Overlooked(runs[r]) :
        /\ runs[r].spec = f
        /\ runs[r].stage = "cancelled" =>
             \E q \in DOMAIN runs \ {r} :
               /\ q = runs[r].replacedBy /\ runs[q].spec # Outside
               /\ Task(runs[q], runs[q].spec) = Task(runs[r], f)
               /\ CameMeanwhile(q, r) \/ WasOvertaken(q, r)

\* What is executed was asked for (intake.py:229-308): by name, or by a push one of
\* whose commits changed it and that changed no other Task Spec for this branch,
\* except where an older commit of a new branch did.
OnlyAskedFor ==
  \A r \in DOMAIN runs :
    runs[r].stage \in Executed =>
      /\ OnBaseBranch(runs[r], runs[r].spec)
      /\ runs[r].event = "workflow_dispatch" => runs[r].spec = runs[r].spec_path
      /\ runs[r].event = "push" =>
           /\ runs[r].spec \in ChangedIn(runs[r])
           /\ Meant(runs[r]) \subseteq {runs[r].spec} \cup Overlooked(runs[r])
=============================================================================

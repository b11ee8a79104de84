---------------------------- MODULE ReviewWakeup ----------------------------
(***************************************************************************)
(* From what CodeRabbit says about the commits of a pull request to what   *)
(* the review workflow hears (.github/workflows/agent-review.yml,          *)
(* agent/review_prepare.py, the first part of agent/review_loop.py).       *)
(*                                                                         *)
(* Every completed check run and every status that is not pending starts a *)
(* workflow run.  Its prepare job looks at the pull request; its review    *)
(* job waits in a concurrency group of the pull request, in which GitHub   *)
(* keeps one running and one waiting job, looks at the pull request again, *)
(* and collects check runs and statuses with two calls.  Both jobs find    *)
(* the Task Spec through the marker in the body of the pull request.       *)
(* Anything may happen between two steps: another word of CodeRabbit, a    *)
(* push, an edit of the pull request or of the Task Spec, a step of        *)
(* another run.                                                            *)
(***************************************************************************)
EXTENDS ReviewTerminal, Sequences, FiniteSets

CONSTANTS NumHeads,     \* commits that are pushed
          Conclusions,  \* conclusions of check runs
          Posts,        \* <<state, description>> of commit statuses
          Others,       \* whether other apps report on the commits too
          MaxTime,      \* seconds
          Budgets       \* bounds: [entries, touches], the check runs and statuses of a
                        \* behaviour, and what else people change and calls that fail

ASSUME HeadsAssumption == NumHeads \in Nat \ {0} /\ Heads = 1..NumHeads
ASSUME WordsAssumption ==
  /\ Conclusions \subseteq {"success", "skipped", "failure", "unknown"}
  /\ Posts \subseteq {"pending", "success", "failure"} \X {"", "completed", "skipped", "in_progress"}
\* CodeRabbit does not end a review by a pending status, for which nothing is started.
ASSUME PendingAssumption == \A p \in Posts : p[1] = "pending" => p[2] \in {"", "in_progress"}
ASSUME BoundsAssumption == MaxTime \in Nat \ {0} /\ Budgets \subseteq [entries : Nat, touches : Nat]

VARIABLES
  now,       \* the second
  head,      \* head commit of the pull request
  files,     \* the Task Specs in each commit: which version is at a path, 0 if none
  pull,      \* the pull request, besides its head
  budget,    \* the bounds of the behaviour
  touches,   \* what people have changed, and calls that failed
  checks,    \* check runs on GitHub
  statuses,  \* commit statuses on GitHub
  runs,      \* the workflow runs, in the order of the events that start them
  verdict,   \* what the last review that got to a result said of a commit
  said       \* history: what CodeRabbit said in its last second about a commit

vars == <<now, head, files, pull, budget, touches, checks, statuses, runs, verdict, said>>

Paths    == {"p", "q"}
Versions == {1, 2}
Tree     == [Paths -> {0} \cup Versions]

\* A marker may be missing, without the identity of a version, or not canonical.
NoMarker == [path |-> "", version |-> 0]
Markers  == [path : Paths \cup {"./p"}, version : {0} \cup Versions] \cup {NoMarker}

\* moved: its base is not the one of the Task Spec; shared: another open pull
\* request has the head commit too.
Pulls == [open : BOOLEAN, marker : Markers, moved : BOOLEAN, shared : BOOLEAN]

Waiting  == {"prepare", "gated", "queued"}
Running  == {"fetch", "checks", "statuses"}
Finished == {"decided", "skipped", "ignored", "failed", "refused", "cancelled", "mismatch"}

\* A run: the commit of its event, whether that is CodeRabbit's, how many pull
\* requests it names, the stage, where its Task Spec is, which version it judges by,
\* what it has read, and (history) the version that was prepared and what it may answer.
RunStates ==
  [ sha : Heads, ours : BOOLEAN, pulls : 0..2, pc : Waiting \cup Running \cup Finished,
    spec_path : Paths \cup {""}, spec : {0} \cup Versions, prepared : {0} \cup Versions,
    seen : SUBSET CheckRuns, kind : Kinds, possible : SUBSET Kinds ]

\* Type correctness; and reviews of a pull request run one at a time, with at
\* most one waiting for it (the concurrency group of agent-review.yml).
TypeOK ==
  /\ now \in 1..MaxTime
  /\ head \in Heads
  /\ files \in [Heads -> Tree]
  /\ pull \in Pulls
  /\ budget \in Budgets /\ touches \in 0..budget.touches
  /\ checks \subseteq CheckRuns
  /\ statuses \subseteq Statuses
  /\ runs \in Seq(RunStates)
  /\ verdict \in [Heads -> Kinds]
  /\ said \in [Heads -> [at : 0..MaxTime, kinds : SUBSET Kinds]]
  /\ \A i, k \in DOMAIN runs : runs[i].pc \in Running /\ runs[k].pc \in Running => i = k
  /\ \A i, k \in DOMAIN runs : runs[i].pc = "queued" /\ runs[k].pc = "queued" => i = k

Delivered ==
  [open |-> TRUE, marker |-> [path |-> "p", version |-> 1], moved |-> FALSE, shared |-> FALSE]

Init ==
  /\ now = 1
  /\ head = 1
  /\ files = [h \in Heads |-> [f \in Paths |-> IF f = "p" THEN 1 ELSE 2]]
  /\ pull = Delivered
  /\ budget \in Budgets /\ touches = 0
  /\ checks = {}
  /\ statuses = {}
  /\ runs = <<>>
  /\ verdict = [h \in Heads |-> "NONE"]
  /\ said = [h \in Heads |-> [at |-> 0, kinds |-> {"NONE"}]]

-----------------------------------------------------------------------------
(* CodeRabbit, other apps, people *)

NewRun(sha, ours, pulls) ==
  [ sha |-> sha, ours |-> ours, pulls |-> pulls, pc |-> "prepare", spec_path |-> "",
    spec |-> 0, prepared |-> 0, seen |-> {}, kind |-> "NONE", possible |-> {} ]

\* A review that is between its two calls may answer with a word said meanwhile.
Overheard(h, kind) ==
  [i \in DOMAIN runs |->
     IF runs[i].pc = "statuses" /\ runs[i].sha = h
     THEN [runs[i] EXCEPT !.possible = @ \cup {kind}] ELSE runs[i]]

\* CodeRabbit says kind about commit h, now; the workflow runs that wake up.
Says(h, ours, kind, woken) ==
  /\ said' = IF ~ours THEN said
             ELSE [said EXCEPT ![h] =
                     [at    |-> now,
                      kinds |-> IF @.at = now THEN @.kinds \cup {kind} ELSE {kind}]]
  /\ runs' = (IF ours THEN Overheard(h, kind) ELSE runs)
               \o woken
  /\ UNCHANGED <<now, head, files, pull, budget, touches, verdict>>

\* Ids grow along the check runs, and along the statuses.
Fresh(id, entries) == \A e \in entries : e.id < id
Room == Cardinality(checks) + Cardinality(statuses) < budget.entries
Speakers == {TRUE} \cup {~Others}

BeginCheck(h, ours, id) ==
  /\ Room /\ h <= head /\ Fresh(id, checks)
  /\ checks' = checks \cup
       {[ id |-> id, sha |-> h, ours |-> ours, status |-> "in_progress", conclusion |-> "",
          started |-> now, completed |-> 0 ]}
  /\ Says(h, ours, "IN_PROGRESS", <<>>)
  /\ UNCHANGED statuses

\* A check run names the open pull requests whose head it is about.
Named(h) == (IF pull.open /\ h = head THEN 1 ELSE 0) + (IF pull.shared /\ h = head THEN 1 ELSE 0)

CompletedCheckWakes(c) == <<NewRun(c.sha, c.ours, Named(c.sha))>>

FinishCheck(c, conclusion) ==
  /\ c.status = "in_progress"
  /\ checks' = (checks \ {c}) \cup
       {[c EXCEPT !.status = "completed", !.conclusion = conclusion, !.completed = now]}
  /\ Says(c.sha, c.ours, map_check_conclusion(conclusion), CompletedCheckWakes(c))
  /\ UNCHANGED statuses

\* Mutant: the workflow subscribes to check runs only.
OnlyChecksWake(h, ours, state) == <<>>

\* A status names no pull request.
StatusWakes(h, ours, state) == IF state = "pending" THEN <<>> ELSE <<NewRun(h, ours, 0)>>

PostStatus(h, ours, id, p) ==
  /\ Room /\ h <= head /\ Fresh(id, statuses)
  /\ statuses' = statuses \cup
       {[ id |-> id, sha |-> h, ours |-> ours, state |-> p[1], description |-> p[2],
          updated |-> now ]}
  /\ Says(h, ours, map_status_entry(p[1], p[2]), StatusWakes(h, ours, p[1]))
  /\ UNCHANGED checks

Touch == touches < budget.touches /\ touches' = touches + 1

\* The commit may also edit, move or remove a Task Spec.
Push(tree) ==
  /\ head < NumHeads
  /\ head' = head + 1
  /\ files' = [h \in Heads |-> IF h > head THEN tree ELSE files[h]]
  /\ IF tree = files[head] THEN UNCHANGED touches ELSE Touch
  /\ UNCHANGED <<now, pull, budget, checks, statuses, runs, verdict, said>>

\* The pull request is closed, reopened, retargeted, its body is edited, or another
\* one with the same commit is opened or closed.
EditPull(p) ==
  /\ p # pull /\ Touch /\ pull' = p
  /\ UNCHANGED <<now, head, files, budget, checks, statuses, runs, verdict, said>>

Edited ==
  {[pull EXCEPT !.open = ~@], [pull EXCEPT !.moved = ~@], [pull EXCEPT !.shared = ~@]}
    \cup {[pull EXCEPT !.marker = m] : m \in Markers}

Tick ==
  /\ now < MaxTime
  /\ now' = now + 1
  /\ UNCHANGED <<head, files, pull, budget, touches, checks, statuses, runs, verdict, said>>

-----------------------------------------------------------------------------
(* Workflow runs *)

Stands(i, stage) == runs[i].pc = stage
Enters(i, stage) == runs' = [runs EXCEPT ![i].pc = stage]
PullUnchanged == UNCHANGED <<now, head, files, pull, budget, checks, statuses, said>>
WorldUnchanged == PullUnchanged /\ UNCHANGED touches

\* The Task Spec is the one at the path of the marker, in the version of the marker.
load_spec_from_marker_at_ref(marker, tree) ==
  /\ marker.path \in Paths /\ marker.version # 0
  /\ tree[marker.path] = marker.version

\* An event that names no pull request is about the only open one with its commit.
_resolve_pull_number_from_sha(run) == run.pulls = 0 /\ pull.open /\ ~pull.shared

pull_number_from_event(run) == run.pulls = 1

has_coderabbit_event_identity(run) == run.ours

\* The pull request that the event is attached to is open and an orchestrator's.
Reviewable(run) ==
  /\ pull_number_from_event(run) \/ _resolve_pull_number_from_sha(run)
  /\ pull.open /\ pull.marker # NoMarker

is_same_work_unit_pull == ~pull.moved

\* prepare_review: the event is CodeRabbit's and about the head of the moment.  What
\* is wrong with the Task Spec ends the job with an error, the rest skips the review.
Prepare(i) ==
  /\ Stands(i, "prepare")
  /\ IF ~has_coderabbit_event_identity(runs[i]) \/ runs[i].sha # head THEN Enters(i, "skipped")
     ELSE IF ~Reviewable(runs[i]) THEN Enters(i, "ignored")
     ELSE IF ~load_spec_from_marker_at_ref(pull.marker, files[head]) THEN Enters(i, "failed")
     ELSE IF ~is_same_work_unit_pull THEN Enters(i, "ignored")
     ELSE runs' = [runs EXCEPT ![i] =
                     [@ EXCEPT !.pc = "gated", !.spec_path = pull.marker.path,
                               !.prepared = pull.marker.version]]
  /\ WorldUnchanged /\ UNCHANGED verdict

\* One of the calls of prepare_review fails.
PrepareFails(i) ==
  /\ Stands(i, "prepare") /\ has_coderabbit_event_identity(runs[i])
  /\ Touch /\ Enters(i, "failed")
  /\ PullUnchanged /\ UNCHANGED verdict

Free == \A k \in DOMAIN runs : runs[k].pc \notin Running
NoneQueued == \A k \in DOMAIN runs : runs[k].pc # "queued"

\* Mutant: every review waits its turn.
CancelsNothing(k) == FALSE

\* cancel-in-progress: false spares the review that runs, not the one that waits.
Cancels(k) == Stands(k, "queued")

\* The review job enters the concurrency group: it takes a free one, else waits
\* there in place of the job that waited before.
Enqueue(i) ==
  /\ Stands(i, "gated")
  /\ \/ /\ Free /\ NoneQueued
        /\ Enters(i, "fetch")
     \/ /\ ~Free
        /\ runs' = [k \in DOMAIN runs |->
                      IF k = i THEN [runs[k] EXCEPT !.pc = "queued"]
                      ELSE IF Cancels(k) THEN [runs[k] EXCEPT !.pc = "cancelled"]
                      ELSE runs[k]]
  /\ WorldUnchanged /\ UNCHANGED verdict

Dequeue(i) ==
  /\ Stands(i, "queued") /\ Free
  /\ Enters(i, "fetch")
  /\ WorldUnchanged /\ UNCHANGED verdict

\* Mutant: the marker of the moment is taken for the one that was prepared.
MarkerOfTheMoment(run) == load_spec_from_marker_at_ref(pull.marker, files[run.sha])

\* The marker is read again, the Task Spec from the commit that is checked out.
_load_review_spec(run) ==
  /\ load_spec_from_marker_at_ref(pull.marker, files[run.sha])
  /\ pull.marker.path = run.spec_path

\* The head is looked at again; PULL_HEAD_MISMATCH ends the review.
FetchPull(i) ==
  /\ Stands(i, "fetch")
  /\ IF runs[i].sha # head THEN Enters(i, "mismatch")
     ELSE IF ~_load_review_spec(runs[i]) THEN Enters(i, "refused")
     ELSE runs' = [runs EXCEPT ![i] =
                     [@ EXCEPT !.pc = "checks", !.spec = pull.marker.version]]
  /\ WorldUnchanged /\ UNCHANGED verdict

\* GitHub lists the check runs of a commit.
list_check_runs_for_ref(sha) == {c \in checks : c.sha = sha}

CollectChecks(i) ==
  /\ Stands(i, "checks")
  /\ runs' = [runs EXCEPT ![i] =
       [@ EXCEPT !.pc = "statuses", !.seen = list_check_runs_for_ref(runs[i].sha),
                 !.possible = said[runs[i].sha].kinds]]
  /\ WorldUnchanged /\ UNCHANGED verdict

CollectStatuses(i) ==
  LET kind == resolve_coderabbit_terminal(runs[i].seen, statuses, runs[i].sha)
  IN
  /\ Stands(i, "statuses")
  /\ runs' = [runs EXCEPT ![i] = [@ EXCEPT !.pc = "decided", !.seen = {}, !.kind = kind]]
  /\ verdict' = [verdict EXCEPT ![runs[i].sha] = kind]
  /\ WorldUnchanged

StepOf(i) ==
  \/ Prepare(i) \/ PrepareFails(i) \/ Enqueue(i) \/ Dequeue(i) \/ FetchPull(i) \/ CollectChecks(i)
  \/ CollectStatuses(i)

Next ==
  \/ \E h \in Heads, ours \in Speakers, id \in 1..budget.entries :
       BeginCheck(h, ours, id) \/ \E p \in Posts : PostStatus(h, ours, id, p)
  \/ \E c \in checks, conclusion \in Conclusions : FinishCheck(c, conclusion)
  \/ Tick
  \/ Push(files[head])
  \/ \E f \in Paths, v \in {0} \cup Versions : Push([files[head] EXCEPT ![f] = v])
  \/ \E p \in Edited : EditPull(p)
  \/ \E i \in DOMAIN runs : StepOf(i)

Spec == Init /\ [][Next]_vars

-----------------------------------------------------------------------------
(* Properties *)

\* "The latest item wins" (review_terminal.py:13): although check runs and
\* statuses are read one after the other, and check runs change in place, what a
\* review makes of them was CodeRabbit's last word about that commit at some
\* moment between the two calls; within one second, one of its last words.
VerdictWasTrue ==
  \A i \in DOMAIN runs : Stands(i, "decided") => runs[i].kind \in runs[i].possible

\* "A cancelled sibling does not prevent the remaining run from re-fetching
\* current feedback." (agent-review.yml:33-34): with every run at its end, the last
\* review of the head has heard CodeRabbit's last word, if that is a terminal one.
LastWordIsHeard ==
  (\A i \in DOMAIN runs : runs[i].pc \in Finished) /\ said[head].kinds \subseteq Terminal
    => verdict[head] \in said[head].kinds

\* Whatever is cancelled or skipped, and however the head moves, the last word is
\* missed only if a review that carries an older commit was let into the group and
\* stopped at the moved head, or if a run of the head has failed or found a pull
\* request that is not to be reviewed.
OnlyTheOvertakenMiss ==
  (\A i \in DOMAIN runs : runs[i].pc \notin {"mismatch", "failed", "refused", "ignored"})
    => LastWordIsHeard

\* "Load the Task Spec at marker.spec_path from current HEAD" (review_prepare.py:144):
\* marker, branch and head may be edited between the two jobs, but a review judges by
\* the version of the Task Spec that its preparation found, and that its commit has.
JudgedByPreparedSpec ==
  \A i \in DOMAIN runs :
    runs[i].pc \in {"checks", "statuses", "decided"} =>
      runs[i].spec = runs[i].prepared /\ files[runs[i].sha][runs[i].spec_path] = runs[i].spec
=============================================================================

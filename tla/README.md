# A verification of md-agent-pipeline

`md-agent-pipeline` turns a Task Spec (Markdown with YAML front matter) into a
pull request: an *execute* job drives Codex through the tasks of the spec, a
*deliver* job turns the resulting patch into a commit, a branch and a pull
request, and a *review* job follows CodeRabbit on that pull request. This
directory holds TLA+ models of the parts whose correctness depends on order,
failure and concurrency, the TLC runs that check them on small instances, and
TLAPS proofs of what holds for every instance. Paths below are relative to the
repository; `cycle.py` and the like are files of `agent/`.

## 1. Inventory

| part | code | state it keeps | operations | what makes it hard |
|---|---|---|---|---|
| Execution state | `state.py` | `.agent/state/<id>.json`: status, current task, completed tasks, repair counter | `init_state`, `apply_transition`, `read_state`, `write_state`, `fingerprint_state_file` | saved in several steps of one cycle; Codex can reach the file; several entry points write it |
| Selection | `select.py` | none | `select_next_task` | resumes a task that an older run left behind |
| Task cycle | `cycle.py`, `repair.py` | in-memory state, fingerprint | `run_task_cycle`: preflight, Codex, tampering check, scope, validation, repair, final verification | exceptions that leave nothing behind; a counter shared by all tasks |
| Work unit | `workunit.py`, `reconcile.py` | loop counter, report and patch | `run_work_unit`, `prepare_execution_state`, `_recover_in_flight` | crash and restart between any two steps |
| Codex, validation commands | `codex_runner.py`, `validation.py`, `classify.py` | none (external processes) | extract the commands of a text, refuse some, run with a timeout, classify the failure | any result, any edit of the tree |
| Scope, Git, edit policy | `scope.py`, `gitutil.py`, `gitwrite.py`, `config.py` | head commit, index, working tree, patch | `collect_changes`, `check_scope`, `export_patch`, `apply_patch`, `commit_paths` | three trees, looked at again after every step; edits that an interrupted run left behind |
| Delivery | `delivery.py`, `gitwrite.py`, `pr.py` | target branch, pull requests, issues | `_deliver`, `reconcile_open_pull`, `checkout_delivery_parent`, `push_branch`, `create_pull`, `_notify_best_effort` | deliver jobs of one task are not serialised; every call may fail or lose its answer; people work on the same branch |
| Labels, error policy | `labels.py`, `policy.py`, `errors.py` | labels of a pull request | `apply_status_label`, `classify_control_plane_error` | one label is several calls |
| Review loop | `review_loop.py`, `review_track.py`, `review_policy.py`, `review_filter.py`, `review_collect.py` | tracking comment (processed identities, attempts), labels | `run_review`, `_apply_review_fix`, `_escalate`, `_converge` | the head moves under a run; a crash between comment, push and label |
| Review terminal | `review_terminal.py` | none | `collect_coderabbit_terminal`, `resolve_coderabbit_terminal` | late, repeated and reordered checks and statuses |
| Review preparation | `review_prepare.py`, `agent-review.yml` | none | which event starts which review, for which Task Spec | stale and ambiguous events |
| Intake | `intake.py`, `agent-execute.yml` | none | which event starts which execution | pushes of several commits, moved branches, a group that cancels |
| Classifier | `review_classify.py`, `review_prompt.py` | none | one call of a model, parsed | a dozen ways to get no usable answer |
| Spec parser | `spec.py` | none | parsing, identity, task graph | one index through nested loops; a search for cycles |
| GitHub client | `github_api.py` | none | HTTP calls | failures, lost answers |
| CLI, config, logging, summaries | `cli.py`, `config.py`, `logger.py`, ... | none | entry points | text |

Interaction: a push of a Task Spec starts a workflow run, whose intake decides
whether it is executed; `run_work_unit` calls `run_task_cycle` until a cycle does
not end in TASK_COMPLETED, hands report and patch to the deliver job as an artifact;
the deliver job shares the remote branch, its pull requests and their labels
with other deliver jobs, with the review job and with people; the review job
keeps its memory in a comment of the pull request.

What each part has to guarantee: a task is recorded as completed only after its
validation passed and its dependencies were complete; progress and spent repairs
survive every crash; a stopped work unit stays stopped; repair is bounded; only
verified work inside the scope is reported; only work reported and verified
again is pushed; the branch is never rewritten; one work unit has one pull
request, and it shows that work unit's commit; failures reach a human; retryable
failures are retryable; no pushed Task Spec is lost without a trace; a Task Spec
means what its text says; a review hears CodeRabbit's last word, reads every comment
on the head before it calls it ready, keeps its verdict, remembers what it settled
and repairs a bounded number of times; every run ends.

The hazards, each with its line and the properties that cover it, are listed in
`PROJECT.json`.

## 2. Modules

| module | what it is |
|---|---|
| `ExecutionState` | statuses, transition table, selector and recovery as operators |
| `WorkUnit` | state machine of one workspace: entry points, task cycle, crashes |
| `TaskLedger` | abstract specification of what a work unit promises |
| `MCWorkUnit` | instances of `WorkUnit` for TLC |
| `WorkUnitReport` | the results and reports of `WorkUnit`, and every check they must pass |
| `Validation` | what the commands of a validation may come to, as operators |
| `WorkUnitProofs` | theorems about `WorkUnit`, with proofs |
| `Delivery` | state machine of the deliver jobs of one target branch and of GitHub |
| `DeliveryLedger` | abstract specification of what the deliver jobs promise |
| `MCDelivery` | instances of `Delivery` for TLC |
| `DeliveryProofs` | theorems about `Delivery`, with proofs |
| `DeliveryPullProofs` | theorems about its pull requests, labels and announcements, and the refinement, on top of them |
| `ReviewTerminal` | how CodeRabbit's last word about a commit is read off GitHub, as operators |
| `ReviewWakeup` | state machine of the review workflow from CodeRabbit's words to that verdict |
| `MCReviewWakeup` | instances of `ReviewWakeup` for TLC |
| `ReviewWakeupProofs` | theorems about `ReviewWakeup`, with proofs |
| `ReviewLoop` | state machine of the reviews of one pull request |
| `ReviewClassifier` | what the classifier may answer and what each answer becomes, as operators |
| `ReviewTrackText` | the tracking comment line by line, as operators |
| `FeedbackLedger` | abstract specification of what the reviews remember |
| `MCReviewLoop` | instances of `ReviewLoop` for TLC |
| `ReviewLoopProofs` | theorems about `ReviewLoop`, with proofs |
| `Intake` | state machine of pushes, dispatches and the workflow runs they start |
| `MCIntake` | its instance for TLC |
| `IntakeProofs` | theorems about `Intake`, with proofs |
| `TaskGraph` | the parser's search for cycles, call by call |
| `SpecPath` | the canonical path in the identity of a work unit, as operators |
| `TaskSpec` | state machine of a document, its parser and `TaskGraph` |
| `MCTaskSpec` | its instance for TLC |
| `TaskSpecProofs` | theorems about `TaskSpec` and `TaskGraph`, with proofs |
| `EditPolicy` | which paths may be edited, as operators |
| `Worktree` | state machine of head, index and working tree from Codex to the push |
| `MCWorktree` | instances of `Worktree` for TLC |
| `WorktreeProofs` | theorems about `Worktree` and `EditPolicy`, with proofs |

`WorkUnit` assumes of a Task Spec what `TaskGraph` establishes (`Acyclic` is the same
formula over the same graph), and of a validation the ends that `Validation` computes;
`Intake` takes from `TaskSpec` that a document is legal or not; `Delivery` takes from
`Worktree` that a patch that applies is in scope or is refused; `ReviewLoop` takes
CodeRabbit's last word from `ReviewWakeup` (its constant `Words`), and its re-run of
the delivery is the labelling of `Delivery`.

### ExecutionState and WorkUnit

`state` is the `ExecutionState` a process holds, `file` the state file (absent,
a regular file with a state, or anything else), `tree` the kinds of uncommitted
change, `mark` the fingerprint taken before Codex runs, `iter` the completed
passes of the loop in `run_work_unit`, `result` the last `CycleResult`, `report`
the report directory, `error` the exception that ended the last process. `passed`
and `runs` are history. `pc` says which external step the process waits for:

| `pc` | the process is |
|---|---|
| `idle` | not running |
| `cycle` | about to enter `run_task_cycle` |
| `codex` | in `run_codex`; what it saved before is in `file` |
| `validating` | in the validation of a task |
| `final` | in the final verification |
| `reporting` | in `report_from_cycle` and `_export_and_write` |

One action is what the code does from one external step to the next, with every
save in between: `StartTask` is selection, dirty-worktree check, transition to
IMPLEMENTING, save and fingerprint; `CodexReturns` is the tampering check, scope
check, transition to VALIDATING and save; `ValidationPasses` is the completion of
the task with its two saves, and so on. Every early return and exception of these
functions is a disjunct or an action of its own. `Crash` may happen between any
two actions. `UpdateState` and `InitState` are the commands of that name.
`Persist` is `persist_state`, chosen once and for all in `Init`: TRUE in a local
workspace, FALSE in Actions, where `FreshCheckout` begins every run. The fingerprint
`mark` has a value only while Codex runs.

`WorkUnitReport` adds no state. It derives from the state of `WorkUnit` the
`CycleResult` and the `WorkUnitReport` the code would build in it, with the code and
task that belong to each outcome, and evaluates on them the checks of
`CycleResult.__post_init__`, `report_from_cycle`, `write_report` and `read_report`, one
operator each, and the exit code of `run-work-unit`. Any check that fails is an exception
in the code.

`Validation` gives the ends a validation may have for a given text: no command, a
refused one, an unreadable one, and for those that run every combination of exit
code, timeout and families of phrases. `MCWorkUnit` asserts (`ValidationsEnd`) that
these are exactly the ends among which the actions of `WorkUnit` choose. Two
consequences of this code may surprise: a fenced block without a command makes the
fence lines themselves commands, which are refused and escalate; and `make` may be
run, but a failing one is never repairable.

Early exits that cannot be reached are not modelled as actions; they are shown
unreachable instead: the DEPENDENCY_BLOCKED exits of the selector
(`NeverBlocked`) and the exception after the loop bound (`LoopBoundNeverReached`).

`TaskLedger` has two variables, the completed tasks and a verdict. Tasks are
added one at a time, each after its dependencies; the ledger passes only with
every task done; it may be refused or begun anew. `Promise` in `WorkUnit`
instantiates it with the completed tasks of the workspace, and
`KeepsThePromise` says that every step of the machine is a step of the ledger.

### Delivery

`remote` is the tip of the target branch: absent, a base commit, the commit of a
job, or a commit of somebody else. A job's commit is named by the job; its parent
is the base commit `at` the run started from. `pulls` are the pull requests of
the branch in order of creation; `work` is the work unit in the marker of the
body (`pr.py`), one value for the whole identity (path, digest, base, target), so
that two versions of a Task Spec differ. `job[j]` holds the stage of job `j`, its
report and patch, the tip it knows (`seen`: the remote-tracking ref, which a
failed fetch leaves as it was), the pull request it works on, the label it
applies, the labels it has still to remove, and its `DeliveryResult`. `hurt` is
history: a call of this job failed.

One step is one remote write, or a group of reads, with the local decisions around it;
`AddLabel` also stands for the calls that see to the labels of the repository
(`labels.py:69-73`), of which no property speaks. `Becomes` is the
step that worked; `Suffers` the one of which a call failed, and a failing call comes both
without effect and with its effect on GitHub done (a lost answer). `Raised` is
the `except` of `run_delivery`: the error is classified as in `policy.py`, the
pull request number is gone, and the notification begins. In the notification
every failure is swallowed, as in the code.

`Start` lets a run begin from any base commit pushed so far, which covers delayed
runs and "Re-run jobs". `People` may create the branch at a base commit, remove it
while it holds no work, push a commit (which also stands for the review workflow's
repair), open a pull request by hand, and close or merge one, deleting the branch
or not. The branch is deleted only together with one of the pipeline's pull
requests; deleting it with a hand-made one *between* a job's push and its creation
of the pull request would let that pull request show another job's commit.

`DeliveryLedger` is what somebody who looks at the branch and its pull requests may rely
on, without labels, numbers, stages or errors: `tip`, `pulls` (work and whether open),
`run` (the work of each job, whether it changes nothing, its outcome) and `told` (whose
failure was announced). `Land`, `Open`, `Deliver`, `Fail`, `Tell` are the steps of a job,
and the first two may fail after they took effect. A job lands only where no work is, opens
a pull request only on its own commit or on what people put on top of it and only while no
other job's is open, and has an outcome once. `KeepsTheDeliveryLedger` instantiates it with
`LedgerPulls`, `LedgerRun` and `LedgerTold`; a job has its outcome in the ledger from its
`DeliveryResult` on, while it still labels and notifies.

### ReviewTerminal and ReviewWakeup

`checks` and `statuses` are what GitHub holds about the commits of one pull
request. A check run is made in progress and completed in place; a status is
added and stays. Each list has its own ids, and times are seconds, so that two
entries may carry the same time; within one list the larger id is the later one.
Entries of other apps have `ours = FALSE`: they stand for every app slug, context
and login that `_check_belongs`, `_status_belongs` and
`has_coderabbit_event_identity` turn down. Conclusions, states and descriptions
keep one representative of every class that the code treats alike.

`runs` are the workflow runs in the order of the events that start them; the job
`if` of `agent-review.yml` is `CompletedCheckWakes` and `StatusWakes`.

| `pc` | the run is |
|---|---|
| `prepare` | about to run `prepare_review`: pull request, marker, Task Spec |
| `gated` | let through; its review job has not entered the concurrency group |
| `queued` | waiting in the group |
| `fetch` | about to read pull request, marker and Task Spec again in `_run_review` |
| `checks`, `statuses` | about to make the first, the second call of `collect_coderabbit_terminal` |
| `decided` | at its end, with a result |
| `skipped`, `ignored`, `failed` | ended by its preparation: not CodeRabbit or not the head; nothing to review; an error |
| `cancelled` | replaced in the group |
| `mismatch`, `refused` | ended by its second look: the head has moved; the Task Spec is another one |

`files` says which version of the Task Spec each commit has at which path, and `pull`
whether the pull request is open, what its marker says, whether its base was changed
and whether another open one shares its head. `touches` bounds the edits of these and
the calls of the preparation that fail.

The group keeps one running and one waiting job, and a job that has to wait takes
the place of the one that waits (GitHub's behaviour with `cancel-in-progress:
false`). `verdict` is what the last review made of a commit. `said` and `possible`
are history: CodeRabbit's words in its last second about a commit, and the words
that were its last while a review was between its two calls.

### ReviewLoop, ReviewClassifier, ReviewTrackText

`run` is the review job that runs, or the last one; reviews of a pull request follow
each other, as `ReviewWakeup` establishes. Its `items` are the feedback that was on its
commit when it was collected. `tracks` are the tracking comments and the
record in each (head, attempts, processed feedback), `labels` and `notes` the status
labels and the reasons given in comments; these three outlive a review, and nothing
else does. An *item* is one version of a comment: its identity contains a digest of the
text, so that an edit replaces one item by another. `on` is the commit at which GitHub
shows an inline comment, which a push may move along.

| `pc` | the review is about to | code |
|---|---|---|
| `fetch` | look at the head again | `_run_review` |
| `load` | read the tracking comment | `load_review_track` |
| `terminal` | collect CodeRabbit's last word | `collect_coderabbit_terminal` |
| `sticky` | read the labels, to keep a verdict | `_sticky_terminal_result` |
| `label`, `unlabel` | add a status label, remove the others one by one | `apply_status_label` |
| `review` | collect, filter, classify and decide | `_run_review` |
| `persist` | create or update the tracking comment | `persist_review_track` |
| `codex`, `push` | repair, push the repair | `_apply_review_fix` |
| `comment`, `notice` | explain an escalation, announce a failure | `_escalate`, `_control_plane_failure` |

`fetch` escalates if the head has moved, and also if marker, Task Spec or policy do not
fit (`SPEC_IDENTITY_MISMATCH` stands for the codes of `review_loop.py:294-305` and
`_load_review_spec`), which the model leaves open: what they look at is in `ReviewWakeup`.
`then` says what follows a save or a label, as the code does by its place in a
function. A step is not one HTTP call: `review` stands for three listings and a call of
the classifier for each comment of the batch, `label` for the calls that see to the
repository's labels, `comment` for the listing that looks for an earlier comment. These
only read, or touch what no property is about; what they have in common is one failure.
A push between two of the listings is therefore one before or after all of them. Every
step may succeed, fail without effect, or take effect and lose its answer; a failure is `Raised`, the `except` around the review, with the outcome of
`classify_control_plane_error` (`OutcomeOfError`, `ReasonOfError` in `ReviewClassifier`,
which derives them from the ways a request to the classifier ends). `Cancelled` ends a
review between any two steps. `Redeliver` and `Relabel` are the label calls of a re-run
of the delivery. `refused`, `cut`, `cleared`, `read`, `overtaken`, `fixes` are history.

`ReviewTrackText` is how the record becomes a comment and back. `MCReviewLoop` asserts
what `ReviewLoop` relies on, over all records with up to two items: what is saved is
what is loaded; a comment that lost a line is unreadable (an escalation) or has
forgotten exactly one thing, never its work unit; a line that does not belong makes it
unreadable. The second one holds because it makes exceptions: a comment without its
`review_attempts` line counts as zero attempts, and a deleted item is unnoticed
(`review_track.py:93`, `:119`). `ReviewLoop` lets people make the comment unreadable,
not shorten it.

`FeedbackLedger` has two variables, the settled feedback and the repairs spent. Its
steps settle feedback, or spend a repair, within the limit, on feedback that was not
settled. `KeepsTheLedger` says that the first tracking comment implements it.

### Intake

`commits` are all commits with their trees, `branches` the tips, `runs` the workflow
runs with how far each has come: `parsing`, then `rejected`, `broken` (red), `skipped`,
or `queued` in the group of its task, `executing`, `executed`, `cancelled`, `stopped`.
A push has one or two new commits on top of any commit, or sets a branch to an old one,
so that it creates, fast-forwards or replaces a branch; `before` is what GitHub tells
the run, which may no longer be reachable (`broken`). `ParseSpec` is `evaluate_intake`
with `_select_spec_path` and `list_changed_spec_paths`. The workflow keeps one run per
task executing and one waiting; `Enter` cancels the one that waits, whether its event is
the older or the newer one. Of each run, `since` (where its push started), `beside` (the
runs unfinished when its event came), `parsing` (those of them that had not been parsed)
and `replacedBy` (the run it was cancelled for) are history.

### TaskGraph, TaskSpec, SpecPath

People write a document by inserting, deleting and replacing heading blocks, then hand
it in; `index`, `sections`, `inTasks`, `heading` and `subsections` are the locals of
`_parse_markdown_body` and `_parse_tasks`, one round of a loop being one step. `WellFormed`
and `TasksOf` say what a Task Spec is without a parser. `TaskGraph` is
`_assert_task_graph`: `stack` holds the calls of the inner function `dfs`, each with
the number of dependencies it has called. `SpecPath` is the canonical path in the
identity; `Denotes` says what a path denotes without collapsing it.

### EditPolicy and Worktree

`base`, `index` and `work` are git's three trees, from paths to contents; `stage` says
which step of an execute and a deliver job, or of a review repair, comes next. Codex and
the commands of a validation write, remove and stage files (`Edit`, `Stage`), before the
scope is checked and after it: in `validate`, and in `final`, the final verification of a
deliver job between its last check (`Verify`) and the commit. Nobody looks at the trees
again after that. `rewritten` and `slipped` are the history of it: the paths that a final
verification wrote, and those that were staged since the last check of the scope.
`collect_changes` overlays the lists of git as `gitutil.py` does, including rename
detection; `Report` is the collection for the report and `export_patch`, with its copy
of the index. A state file under `.agent/state` is listed although git ignores it, and
that directory is the one of the code, whatever `state.directory` says
(`_is_orchestrator_state_path`). `ApplyPatch` and `StageAll` are `apply_patch`, `Commit` is `commit_paths`.
`EditPolicy` reads a policy (`_parse_runtime_edit_policy` with the rule that
configuration, Task Specs and state are protected) and decides a path.

## 3. Runs

| run | instance | question |
|---|---|---|
| `work_unit_local` | 2 tasks (1 needs 2), 1 repair, persistent or fresh workspace, 3 process starts | the safety of a workspace: crashes, retries, tampering, operator commands; that every report is read; that runs end |
| `delivery_people` | 2 jobs, 2 base commits with different base branches, 2 human actions | deliver jobs against people |
| `delivery_faults` | 2 jobs, 2 versions of the spec on one base, 2 failures, fairness | deliver jobs against a failing GitHub, and that every job ends |
| `review_wakeup` | 2 commits, 2 seconds; see below | what is heard of CodeRabbit's words, and by which Task Spec a review judges |
| `review_loop` | 2 commits, 3 items, 2 reviews, 1 failure, batches of 1 or 2, 1 repair | what a review makes of feedback, against a moving head and failing calls |
| `intake` | 2 files, 2 branches, 2 tasks; at most 3 commits, and 5 commits and runs together | which pushed Task Spec is executed |
| `task_spec` | all graphs of 3 tasks with up to 2 dependencies; all documents 2 edits from a legal one, or 1 from one with a task above its sections; all paths of up to 4 segments | what the parser accepts, that it ends, what a path identifies |
| `worktree` | 6 files, 5 edits or stagings, 8 policies, 5 Task Specs, both routes | what is reported, exported, pushed |
| `failed_final_verification_retry`, `delivery_retry`, `ready_after_lost_escalation`, `removal_is_not_delivered` | small instances | the disagreements of section 5 that a run shows |

Why the bounds suffice. Two tasks whose definition order contradicts their
dependencies are enough to select out of order, to resume the wrong task and to
share the repair counter; three starts let a run be interrupted, recovered and
interrupted again. Two jobs make every race of the push and of the label calls;
that nothing depends on there being two is what the proofs are for. Two base commits
give an out-of-date run, and different base branches are the case in which GitHub itself
would accept two pull requests from one branch. `MaxFaults` counts failed calls
and cancelled jobs together; two of them let a failure hit the delivery and its
notification. `MaxTouches` of two lets people make and remove the branch around a
job's look at it, or open and close a pull request. Jobs are symmetric in
`delivery_people`; the runs with liveness use no symmetry.

`review_wakeup` is the union of the behaviours within one of four budgets
(`SomeBudgets`, with the constraint `Bounded`): two check runs or statuses of every
content, of CodeRabbit or another app, about one commit; two plain ones about two
commits; three plain statuses about two commits; and, within one second, one plain
entry and two touches, or two and one. Two entries are the least for one word to follow
another, in either list; three start three workflow runs, one to read, one to wait and
one to take its place; two seconds tell "earlier" from "at the same time"; two touches
change what the preparation found and change it back.

`review_loop` has a conversation comment, an inline one and one about a forbidden path,
and of the classifier an answer of each kind: ignore, refuse, repair. Two commits are
the least at which something is stale; with two reviews, the second finds what the first
left behind, at every place where one failure or cancellation can cut it off. That
nothing depends on these numbers is proved. The
`intake` trees hold no Task Spec, one, two of which one is for another branch, or a
malformed one; with two commits there are three runs, enough for one to execute, one to
wait and one to take its place. A document two edits from a legal one has every single error
of structure and every two of them, but for a task above all sections, which takes more
edits to reach: `Misplaced` is a draft of its own (see section 4).

Where a module has no more state than a table, its facts are `ASSUME`s of the MC module,
which TLC evaluates at the start of the run: `OnlySuccessExitsOk`, `ValidationsEnd`,
`RepairsNeedARunnableCommand`, `RefusedNeverPass` in `MCWorkUnit`; `WhatIsSavedIsLoaded`,
`ALostLineForgetsOneThing`, `AnotherLineIsNoticed` in `MCReviewLoop`.

Properties, by what they are about:

* *records*: `CompletedClosed`, `CompletedArePassed`, `PassedReport` (proved only),
  `VerifiedTreeInScope` relate the recorded progress to the validations that
  happened and to the tree they judged;
* *recovery*: `ProgressSurvives`, and, proved only, `BlockedStateIsSticky`,
  `StepsFollowTransitionTable`, `NeverBlocked` are about steps and about states
  handed from one process to the next;
* *bounds*: `RepairBudget` (both directions: not exceeded, not given up early),
  `LoopBoundNeverReached` and `RunIsBounded` (proved only), and `RunsEnd`;
* *reports*: `EveryReportIsRead`: outcome, failure class, code and tasks are set in a
  dozen places, and no combination of them is one that a later check turns down;
* *promise*: `KeepsThePromise` and `KeepsTheDeliveryLedger`, the refinements of
  `TaskLedger` and `DeliveryLedger`;
* *git writes*: `OnlyVerifiedWork`, and, proved only, `WorkIsNeverOverwritten`, which is
  also what the ledger says of the branch;
* *pull requests*: `OnePullPerWorkUnit`, `PullShowsItsWork`, `CreatedIsOurs`. The
  first two leave out behaviours in which some run changed nothing: such a run
  pushes its base commit, another run can fast-forward the branch, and the first
  then opens its pull request on the other one's commit (see section 5);
* *hearing CodeRabbit*: `VerdictWasTrue`, that two calls and a sort by timestamps
  yield something CodeRabbit did say last; `OnlyTheOvertakenMiss`, that nothing it says
  last is missed, although runs are skipped and cancelled, unless a review let in for an
  older commit stopped at the moved head or a run failed or found nothing to review;
  `JudgedByPreparedSpec`, that edits between the two jobs change no review's Task Spec;
* *reviewing*: `NothingUnread`, that READY means every comment on the head was judged,
  or acted upon for an earlier commit; it excepts the comments that a review of an older
  commit dismissed as not its own and marked as processed, which nobody reads later
  (`overtaken`). `NoWayBack`, that a refused commit does not become ready. `OneTrack`,
  `RepairsBounded` and `KeepsTheLedger` about what is remembered; `OutcomeIsShown` about
  the labels and comments; `ReviewIsBounded`, that a review is over after 22
  steps of the model, of which some stand for several HTTP calls;
* *starting*: `EveryPushIsAnswered`, `OnlyAskedFor`. The first says for which run another
  may be cancelled: one of the same task that came while it was unfinished
  (`CameMeanwhile`), or one that is older and was still being parsed when it came
  (`WasOvertaken`); the second case loses the newer version (see section 5). It excepts Task Specs in the
  older commits of a new branch: for a branch that did not exist, only the last commit
  is compared with its parent (`intake.py:271-283`);
* *reading a Task Spec*: `ReadsWhatIsWritten`, `AcyclicityIsDecided`, `IdentityIsTheFile`,
  `ParserEnds`, and, proved only, `ParserIsBounded`;
* *files*: `DeliveredIsReported`, `OnlyEditableIsPushed`, and `OnlyStagedRenamesHide`,
  which says exactly which change may be missing in a report: the removed source of a
  file that was also staged (`gitutil.py:84-122` keeps one entry per path, and
  `prompts/implementation.md:29` forbids Codex to stage). The first two say what is pushed
  whatever is edited and staged, and except exactly what commands do after the last
  check: a deliver job's final verification may write a reported path (`rewritten`), and
  it or a repair's validation may stage any path (`slipped`; see section 5);
* *telling people*: `FailureIsAnnounced`, `LabelsExclusive`, `DeliveryEnds`, and, proved
  only, `DeliveryIsBounded`.

Fairness. `WorkUnit` assumes that a running process takes its next step: Codex and
the validation commands run under timeouts (`codex_runner.py`, `validation.py`),
everything else is local code. `Delivery` assumes the same of every job: HTTP
calls have a timeout (`github_api.py`). Nothing is assumed of crashes, operators
or people, and no run has to be started. `TaskSpec` assumes that a parser that runs goes
on, and of people nothing. `ReviewWakeup` needs none: what it promises is about the
states in which no run is left; nor does `ReviewLoop`, whose end is a bound on steps, nor
`Intake` and `Worktree`. Runs without liveness or with an end that is reached say
`CHECK_DEADLOCK FALSE`: people stop pushing, and jobs are over.

## 4. Proofs

`WorkUnitProofs` proves, for every number of tasks, every acyclic dependency
relation, every repair limit and every number of starts, all safety properties
that `work_unit_local` checks, those of the reports included, and
`Spec => KeepsThePromise`. The assumptions are
those of the modules: at least one task, an acyclic graph given by an order of the
tasks, a natural repair limit. The argument is one chain of invariants, each
inductive relative to the ones before it:

1. `Inv`: types; which variables are meaningful at which `pc` (`ControlOK`); both
   the state in memory and the one on disk are *sound*, that is, completions are
   closed under dependencies, the current task has its dependencies completed, and
   the repairs stay within the limit. Soundness of the file is what makes the
   property survive a crash. `CompletedClosed`, `RepairBudget` and `NeverBlocked`
   follow; the last one because a finite set of tasks that is not complete has a
   minimal missing one.
2. `Evidence`: every recorded completion was validated, and once all tasks are
   complete the tree holds no edit outside of the scope, because Codex runs no
   more. It gives `CompletedArePassed`, `VerifiedTreeInScope`, `PassedReport`.
3. `Counted`: each completed cycle has added a task, so the loop bound is not
   reached.
4. `Mirrored`: while a process runs, a regular state file equals the state in
   memory, with the status its `pc` implies. It gives
   `StepsFollowTransitionTable` and `BlockedStateIsSticky`.
5. `Anchored`: with persistence the file is there when the process relies on it.
   It gives `ProgressSurvives` and the step simulation of the refinement.
6. `ResultFits`: whenever a cycle has left a result, its outcome is one of a cycle and
   its failure class one that this outcome allows. The dozen places that set the two do
   so in different steps; `StopFits` is the table they agree on. With `Evidence` it gives
   `EveryReportIsReadHolds`: what is built from such a result passes the checks it meets
   when it is built, written and read, and lets the deliver job commit exactly if the
   command ended with 0 (`BuiltReportDelivers`). A report about a state of another Task
   Spec only has to be written (`ForeignReportIsWritten`).
7. `RunIsBoundedHolds` from `Inv`: every step of a running process lowers `StepsLeft`,
   which is at most `3 * NumTasks + 2 * RepairLimit + 3`. It counts three
   steps for each task that is not completed and two for each repair left; that a task
   is still to be completed while it is being validated (`ValidatedIsLeft`) pays for the
   pass of the loop that its completion starts.

`DeliveryProofs` proves, for any set of jobs, any history of base commits and
Task Specs and any number of failures and human actions, that every reachable
state is well typed (`TypeCorrect`), that only verified work is on the branch
(`OnlyVerifiedWorkHolds`), that work on the branch is never overwritten
(`WorkIsNeverOverwrittenHolds`), and that a reported pull request is one for the
run's own Task Spec (`CreatedIsOursHolds`). The assumptions are those of the module:
commits, jobs and the two special values differ, and the bounds are naturals. The
inductive invariant `IInv` has three parts: types (`Typed`); what a job at each
stage has established (`Sound`): past the reconciliation its report passed, past
the verification its patch is good or empty, and from the moment it labels as a
delivery its pull request carries its Task Spec; and `Pushed`, that a job whose
commit is the tip has started and has established both. Neither of the last two
follows from the properties: the stage at which a job stands is what connects the
verification it made to the push it makes later. Every step of a job replaces its
record by a sound one that keeps its base, report and patch (`Advance`), and pull
requests are only added, never given another work unit (`PullsGrow`), so that what
one job established survives the steps of all the others. That work is never
overwritten needs only the types: the rule by which the server accepts a push.
`DeliveryIsBoundedHolds` says that a job which has started takes 19 steps at most: every
step of it, whatever the call did, lowers what it has left, which no other job and no
person can raise. The second reconciliation after a lost race is entered once, and the
labels still to remove are counted.

`DeliveryPullProofs` adds, on top of `IInv`, what the pull requests show. `Turn` sums up
what a step of a job may do; the invariant `PInv` says that the jobs which pushed and the
open pull requests of the pipeline exclude each other (`Lone`), that a failure without an
outage is announced when its job ends (`Told`), and that a pull request with two status
labels has a job still at work on it (`Marked`). They give `OnePullHolds`,
`PullShowsItsWorkHolds`, `FailureIsAnnouncedHolds` and `LabelsExclusiveHolds`. Finally
`ImplementsLedger`, `Spec => KeepsTheDeliveryLedger`, step by step: which steps of a job change
the record the ledger keeps of it (`RunAfter`, `RunStays`), that labels and comments change
none of its pull requests (`PullsStay`), that an outcome is final although a job that
delivered may still fail to label (`OutcomeIsFinal`), and what a call whose answer was lost
leaves the job with (`LostAnswer`). That a job opens a pull request on its own work only,
and next to no other one, is `Lone`.

`TaskSpecProofs` proves, for every set of ids, every list of tasks
and every dependency relation, that the depth-first search accepts exactly the acyclic
graphs (`CyclesAreDecided`), and that the parser is well typed and reads what is written
(`ReadsWhatIsWrittenHolds`). The invariant of the
search: the stack is a path of distinct nodes, each of which depends on the next;
`visiting` is the set of them; `visited` is closed under dependencies, disjoint from
`visiting`, and no set of its nodes is without one that depends on none of it; the
dependencies a call has already made are visited. When a node is called that is on the
path, the path from it to the top is a set in which each depends on one; when the last
call returns, the graph is its visited set. `CheckStep` is the inductive step; `TaskSpec`
adds that the parser does not touch the search. The theorem says that the graphs
`WorkUnit` assumes are those the parser lets through.

`IdentityIsTheFileHolds` is about paths of any length. What a path denotes
(`Denotes`) and what the code makes of it are functions defined over the positions of the
path. That such a function exists and computes what its definition says is shown by hand
(`UpTo`: of a position where it does not, one before it is smaller, and there is no
smallest), since the library's theorems on recursion take an operator as a parameter.
The invariant `Keeps` then follows the segments from left to right and ties the ones kept
so far to the directory reached so far. Of the constants it assumes that the repository's
directory is a resolved path, that the directory of Task Specs is not empty
(`PathsAssumption`), and that the names are sequences of segments (`SourcesAssumption`).
The attempt to prove it found a place where the model said less than it seemed to: guards
of a `CASE` that overlap leave open which case is meant, where TLC takes the first.

`ParserIsBoundedHolds`: each step of the parser takes it to a later stage, or leaves it less
to do in the one it is in: a block is passed over in three rounds of the loops at most, and
the search makes one call for each task and each dependency and one return for each node,
because no node is entered twice (`Apart`). The calls that are left are a finite set from
which each step takes one (`CallsLeft`), also where a graph has cycles.

`ReadsWhatIsWrittenHolds` follows from `Faithful`: a document the parser refuses is not
well formed, and one that it hands on is, with the very tasks of `TasksOf`. In between,
`Progress` is the invariant of the nested loops: the sections remembered are those passed
over, once each; every block behind the parser may stand where it stands; between two
sections the next block opens one; among the tasks no section has come since Tasks; within
a task there are only subsections; and the tasks collected are the blocks of level 2, in
their order. Each rejection has a lemma that names the condition of `WellFormed` the
document breaks (`Refused...`), each round that goes on one that keeps `Progress`
(`...Step`); `NumbersDiffer` makes the order of the tasks a matter of counting. The
attempt to prove it showed that `WellFormed` had been too generous: it allowed a task
above all sections next to a section Tasks without tasks, which the parser refuses
(`spec.py:427`). Two edits of the drafts could not get there. `Placed` now says under
which heading each block stands, and `Misplaced` is the draft that has TLC look.

`ReviewLoopProofs` proves, for any number of commits, items, answers, reviews and
failures, and for every limit and size of batch:

1. `TypeCorrect`, `OneTrackHolds`, `RepairsBoundedHolds` from `Inv`: types; at most one
   tracking comment; `Sound`, that the record a review carries is, at each stage, the one
   on GitHub or adds to it, at most one attempt and then for feedback that was not
   settled, and that it has an id exactly when there is a comment to update; and
   `Counted`, that the repairs made are at most the attempts recorded, one less while a
   recorded one is yet to be made, and that what they repaired is settled and disjoint.
   `RepairsBounded` alone is not inductive: a crash between the save and the repair has
   to have been counted.
2. `ImplementsLedger`: in every step the record on GitHub stays, settles something, or
   spends a repair, by `Sound`.
3. `ReviewIsBoundedHolds`: `StepsLeft` decreases with every step of a review. The labels
   still to be removed count, so that the proof is one about cardinalities, and a raised
   error must leave room for the labels of its own announcement.
4. `NoWayBackHolds` from `RefusalInv`: a review that recorded a refusal owes the pull
   request its label until it shows one or is cut off (`Owing`); refusals are only of
   commits so far (`Ahead`); for the head, and for the commit of a review that has just
   begun, a refusal stands in the record's head and in a label, unless it is still owed
   (`Kept`); so a review past the sticky labels is not about a refused commit (`Clear`);
   and labels are taken away only after another one was put up (`Worn`).
5. `OutcomeIsShownHolds` from `ShownInv`: a review without a failure has put its label up
   before it removes the others, and it stays there until the review is over (`Displays`);
   one that neither escalates nor raises has no reason to give (`Silent`), so that what a
   review still owes when it ends is what its last call has just delivered.

6. `NothingUnreadHolds` from `UnreadInv`, with the invariants of 1 and 4. What was read,
   settled or collected has been written, about a commit that is not newer than its
   review's (`Attached`). A review does not touch what it collected, so what matters is
   what was settled before it: every item in the record is about no commit or about an
   earlier one, was missing or overtaken, needed nothing, or was read for a commit whose
   refusal the record keeps or still owes (`Remembered`, and `Minded` for the record a
   review carries to its save). A review that is about to say READY has settled
   everything it collected on its commit (`Collected`; comments move to newer commits
   only, so what is on its commit was there when it was collected), and a refused commit
   is excluded by `Clear`.

Of the constants they assume what the module does: at least one commit, a finite set of
items, naturals for the limits.

`IntakeProofs` proves the type invariant and both properties of `Intake`
(`EveryPushIsAnsweredHolds`, `OnlyAskedForHolds`), for any documents, actors, pushes,
dispatches and runs. The invariant: commits point back and are among their own ancestors
(`History`), so that what a range changed is settled once the commit is written.
`AllSettled` is what the commits say of each run whatever the others do: which commit a
push came from, and that the Task Spec a run selected or turned down is one that its event
and its commit leave to select. `Apart` says that two executions of one task never overlap,
which the concurrency group of the job gives; `Beside` that of two unfinished runs one was
there when the other came; `Noted` that a run which has not been parsed is noted as such
by those that came after it; `Replaced` that a run is cancelled for one of the same task
that entered after it, and `TookItsPlace` that this one came meanwhile or was then still
being parsed. What is assumed is that files, tasks and the special values differ.

`WorktreeProofs` proves the three properties of `Worktree`, for any files, policies, Task
Specs, base commits and any number of edits:

1. `DirectoryIsProtected`: a set of patterns that matches a directory and the probe file
   in it matches every file below, at any depth. The wildcard that stands for the probe
   can stand for more (`WildcardGrows`); a pattern that names it cannot occur
   (`NamesAssumption`), for otherwise the probe would not speak for the other files.
2. `DiffTells`, `OverKeeps`, `ListTells`: what the four lists of git keep when they are
   merged. From them `IndexIsListed`, that whatever is staged is listed, and `HiddenAre`,
   what is not: an ignored file, or the source of a staged rename
   (`OnlyStagedRenamesHideHolds`).
3. `OnlyEditableIsPushedHolds` needs `Checked`: the list that was checked is still the
   one that is committed, and of a repair, whose list is older than the validations, that
   the paths that were checked hold all that was staged, but for what a command staged
   after the list was made (`slipped`).
4. `DeliveredIsReportedHolds` needs `Carried`: the tree that was reported (`Target`) is
   what the patch leads to, what the worktree holds when it is applied to a checkout that
   is clean but for ignored files, and what the index holds once the listed paths are
   staged; from the final verification on, but for the reported paths its commands wrote
   (`rewritten`) and, of the index, what they staged (`slipped`). That no listed path is
   missing there is `HiddenAre` again, in a checkout where nothing is staged yet.

`ReviewWakeupProofs` proves, for any number of commits, check runs, statuses, workflow
runs and edits, over any conclusions and statuses of the known kinds:

1. `TypeCorrect`: types, and that one review runs and one waits at most (`GroupKept`).
2. `VerdictWasTrueHolds`. A timeline whose entries have ids of their own and a bound has
   a last item (`LastItem`), so the resolution is what an item says that none is later
   than (`Resolves`). `Numbered` keeps the ids apart; `Latest` ties what was said last of
   a commit to the newest item of its timeline. `Heard` is what neither says: for a review
   between its two calls there is a time, that of the last word when it read the check
   runs, such that every item of what it will see that is as late as this has been heard
   by it, and there is one. A status posted meanwhile is heard; a check run that completes
   meanwhile is not seen, and is no longer needed.
3. `JudgedByPreparedSpecHolds` from `Prepared`, which starts where the preparation let
   the run through: its commit is one of those pushed, whose Task Specs no push changes,
   and has the prepared version at the prepared path. The second look compares only the
   paths (`_load_review_spec`), so the property holds by what the commit has.
4. `OnlyTheOvertakenMissHolds` from `LastWordFollowed` and `Unsaid`, that nothing is said
   of commits to come. As long as no run was stopped and the last word on the head is one
   that ends a review, either a run is on its way that will still read both lists, or
   every review of the head that has read a list has heard that word, and it is the
   verdict or such a review is there. A run on its way may carry any commit until its
   second look at the head: one with an older commit would stop there, and then a run was
   stopped. That is why skipping and cancelling lose nothing: whichever run takes the
   place of another reads later.

Of the constants they assume that commits are numbered, that words are of the known kinds
(`WordsAssumption`), that the bounds are naturals, and that no pending status says that the
review is over (`PendingAssumption`, which only `OnlyTheOvertakenMissHolds` needs; see
section 5).

Model-checked only: the liveness properties `RunsEnd`, `DeliveryEnds`, `ParserEnds`, for
fairness and `ENABLED` are out of the prover's reach. `RunIsBounded`, `DeliveryIsBounded`,
`ParserIsBounded` and `ReviewIsBounded` are the part of them that is not: a process that
goes on comes to its end after so many steps, for every value of the constants. Every other property of a
passing run is a theorem.

## 5. Where the code and its documents disagree

Shown by a run:

1. *A FAILED final verification cannot be retried* (`cycle.py:378`): the retry
   enters RUNNING, there is nothing left to select, and the final verification
   accepts only TASK_COMPLETED. The run after that works again.
2. *A delivery that FAILED after its push cannot be re-run* (`delivery.py:366`),
   against its own notice, `delivery.py:473`.
3. *A refused commit can become ready* (`review_loop.py:946`), against
   `REFACTORING_REVIEW.md:90`: an escalation saves its feedback as processed before it
   shows its label. A review that is cut off in between leaves nothing that the next one
   could see, and nobody is told.
4. *A work unit that removes or renames a tracked file is never delivered*
   (`gitwrite.py:265`): `apply_patch` stages the removal, and `commit_paths` then adds a
   path that is neither in the index nor on disk, which git refuses.

Met while modelling, not shown by a run of their own:

* A repairable final verification is never repaired (`cycle.py:405`), against
  `.agent/phases/06-git-pr-observability.md:109`.
* A work unit that changed nothing is FAILED without an outage (`policy.py:14`), against
  `policy.py:75`; its branch stays at the base commit, open to the race named in section 3.
* Two deliver jobs remove each other's label (`labels.py:62`), against `labels.py:3`:
  `LabelsExclusive` promises one label at most. A re-run of a delivery likewise removes the label of a
  verdict (`delivery.py:299`), after which nothing keeps it: the exception of `NoWayBack`.
* A status that is pending and whose description says completed or skipped would count as
  CodeRabbit's last word (`review_terminal.py:291-314`), and wakes nobody
  (`review_terminal.py:136-145`, and the `if` of the prepare job in `agent-review.yml`).
  `PendingAssumption` excludes it: nothing shows CodeRabbit posting one.
* The commands of a deliver job's final verification (`delivery.py:342`) run after the
  scope and the manifest were checked (`:313-341`). What they write to a reported path is
  committed, since `commit_paths` adds the paths from disk, and so is any path they stage,
  since it commits the index (`gitwrite.py:265-269`), against `README.md:186` and
  `.agent/phases/06-git-pr-observability.md:168-169`: what is pushed is then not what was
  checked. `DeliveredIsReported` and `OnlyEditableIsPushed` fail without `rewritten` and
  `slipped`.
* The validations of a repair run after its scope was checked (`review_loop.py:593-644`),
  and `commit_paths` at `:669` commits whatever they staged, a protected path included,
  without a second check.
* A run that was cancelled in the group may be the newer version of a Task Spec, if the
  event of the older one is parsed for longer (`agent-execute.yml:119-121`). The advice of
  `agent-execute.yml:26` concerns pushing while an execute job is in progress; here
  neither has begun.
* A waiting review of the head is cancelled by one of an older commit
  (`agent-review.yml:127`), against `agent-review.yml:33-34`: `LastWordIsHeard` fails when
  the head moves, and `OnlyTheOvertakenMiss` says how. The survivor stops at the moved head,
  escalates, and puts its label on the newer commit.
* An item that a review of an older commit dismisses is marked as processed and read by
  nobody later (`review_loop.py:361`): the exception of `NothingUnread`.
* An existing pull request is reported as PR_CREATED before the report is looked at
  (`delivery.py:294`), as `phases/06:132` documents; a later failed run of the same Task
  Spec is not told apart.
* A failed repair validation in a broken environment escalates
  (`review_loop.py:635-658`, REVIEW_FIX_VALIDATION_FAILED), where a failed validation of
  an execution would be FAILED. A reset connection or a garbled body is an
  INTERNAL_FAILURE and escalates too.
* READY is decided for the head that was checked at the start of a review
  (`review_loop.py:289`) and put on the pull request at its end (`:921`); after a push in
  between the label stands next to a newer commit, until its own review. `NoWayBack` and
  `NothingUnread` are about the commit of the review.
* `agent:failed` is kept for an unchanged commit after the outage is over
  (`review_loop.py:861`, `labels.py:21`).
* A review goes on for a pull request that was closed or retargeted after its
  preparation: `_load_review_spec` looks at the marker and the Task Spec only.
* FAILED leaves `run-task` with EXIT_INVALID and `run-work-unit` with EXIT_ENVIRONMENT
  (`cli.py:45`, `:51`).
* A repair is committed without comparing the checkout's HEAD with the snapshot, as the
  execute route does; a staged removal or rename (`git rm`, `git mv`) makes
  `export_patch` fail with GIT_FAILED; the policy's own check probes a directory with one
  made-up file name, which a pattern with a partial wildcard may match or miss.
* A pattern `a/b` does not cover `a/b/c`, where `a` covers everything below (`scope.py`).
* An unreadable or missing validation command is noticed only after Codex ran.
* Text in a fenced block that begins with `# ` is read as a heading (`spec.py`).

## 6. Not modelled

* Text: YAML, headings and quoting of documents; wildcards inside of a path segment;
  phrases in the output of commands (which families occur is an input); prompts; Markdown
  of pull requests, notices and summaries; log lines. JSON and HTTP below a call that
  works, fails or loses its answer; pagination of listings (`github_api.py:366-388`).
* Line endings: `.gitattributes` gives text files one ending; without it, the text mode
  in which patches are written would lose carriage returns.
* Codex rewriting the state file to *another regular state*: the fingerprint
  detects it like the deletion that is modelled. Codex committing. Validation
  commands touching the state file. An I/O error in the middle of a save.
* No property is about a work unit stopped because Codex removed its state file: it
  reports SCOPE_VIOLATION and leaves nothing behind (`cycle.py:914`), so that the next
  run of the workspace begins anew. The machine does that too.
* A push the server rejects for branch protection: Git reports it with the same
  words as a non-fast-forward, and it escalates like one.
* Base branches that merge the target branch: a merged pull request is a closed
  one in `Delivery`.
* Staging is that of a `git add` without `-f`, of a file or of its removal: `git add -f`
  of an ignored file and `git rm --cached` are left out.
* People who set the branch of a pull request back: in `ReviewLoop` and `ReviewWakeup`
  the head only goes forward. A tracking comment knows the last commit it was bound to,
  so a refused commit to which the branch is set back, after a review of a later one, is
  reviewed as a new one whose feedback is settled; `NoWayBack` does not speak of it.
* What happens between the HTTP calls of one step of `ReviewLoop` or `Delivery` (section 2).
* `execution_guard_reason` of the intake: it looks for a local state file, which a job
  with a fresh checkout does not have.
* In the review: a check run without a start time, a pull request from a fork,
  malformed payloads, people shortening the tracking comment (see section 2).
* People changing labels by hand.
* Configuration other than the edit policy, `notify.py`, `events.py`, `summary.py`: names,
  numbers and text. Integration tests and their harness under `agent/integration-tests`
  drive the program, and are not part of it.

## 7. Plan

1. Done: execution, its reports and validations (`WorkUnit`, `WorkUnitReport`,
   `Validation`) with proofs and refinement; delivery (`Delivery`) and its proofs; how a
   review wakes up (`ReviewWakeup`) and what it does (`ReviewLoop`) with proofs and
   refinement; intake (`Intake`); the parser (`TaskSpec`, `TaskGraph`, `SpecPath`) with
   the proof about cycles; files and policy (`Worktree`, `EditPolicy`).
2. Done: proofs of every safety property that a passing run checks, and an abstract
   specification of the delivery, implemented by `Delivery`.
3. `Pipeline`: deliver and review jobs on one pull request, sharing its labels, in place
   of the re-run of the delivery in `ReviewLoop`.

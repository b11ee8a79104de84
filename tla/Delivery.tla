------------------------------ MODULE Delivery ------------------------------
(***************************************************************************)
(* The deliver jobs (agent/delivery.py) of the workflow runs that share    *)
(* one target branch, and the part of GitHub they work on: the branch, its *)
(* pull requests with their labels, and issues.  The execute jobs of a     *)
(* task are serialised by a concurrency group, the deliver jobs are not    *)
(* (.github/workflows/agent-execute.yml), so any number of them may run at *)
(* once, each at its own step, each started from a base commit and a Task  *)
(* Spec that may be out of date.                                           *)
(*                                                                         *)
(* One step is one remote write, or a group of reads, or the local work    *)
(* between them; AddLabel stands for get_label and create_label as well,   *)
(* which touch nothing but the labels that the repository knows.  A step   *)
(* succeeds, fails without effect, or takes effect and its answer is lost; *)
(* MaxFaults bounds the failures and cancelled jobs of a behaviour,        *)
(* MaxTouches what people do to the branch and its pull requests.          *)
(***************************************************************************)
EXTENDS Integers, FiniteSets, Sequences

CONSTANTS Jobs,        \* deliver jobs, and the commit each of them makes
          NumCommits,  \* commits 1..NumCommits of the base branches
          SpecAt,      \* SpecAt[c]: identity of the Task Spec found at commit c
          BaseOf,      \* BaseOf[s]: base_branch of the Task Spec s
          Absent,      \* no branch
          Foreign,     \* a commit, or the work unit of a pull request, of nobody's job
          MaxFaults, MaxTouches

BaseCommits == 1..NumCommits
Specs == {SpecAt[c] : c \in BaseCommits}
BaseBranches == {BaseOf[s] : s \in Specs}

ASSUME JobsAssumption ==
  /\ IsFiniteSet(Jobs)
  /\ Absent # Foreign
  /\ {Absent, Foreign} \cap (Jobs \cup BaseCommits \cup Specs) = {}
  /\ Jobs \cap BaseCommits = {}
ASSUME BoundsAssumption ==
  NumCommits \in Nat \ {0} /\ MaxFaults \in Nat /\ MaxTouches \in Nat

VARIABLES
  base,     \* the newest base commit a run has been started for
  remote,   \* tip of the target branch on GitHub
  pulls,    \* pull requests of the target branch, in order of creation
  issues,   \* jobs that opened an issue
  job,      \* the deliver jobs
  faults,   \* failed calls and cancelled jobs so far
  touches   \* human actions so far

vars == <<base, remote, pulls, issues, job, faults, touches>>

-----------------------------------------------------------------------------
(* Types *)

EXCLUSIVE_STATUS_LABELS ==
  <<"agent:review", "agent:ready", "agent:escalated", "agent:failed">>
StatusLabels == {"agent:review", "agent:ready", "agent:escalated", "agent:failed"}

RETRYABLE_CODES ==
  {"GITHUB_API_FAILURE", "GITHUB_API_VALIDATION", "GIT_FAILED", "GIT_PUSH_FAILED",
   "MISSING_GITHUB_TOKEN"}
ESCALATE_CODES ==
  {"UNSAFE_RECONCILE", "WORK_UNIT_PR_MISMATCH", "SPEC_IDENTITY_MISMATCH",
   "PATCH_DIGEST_MISMATCH", "BASE_SHA_MISMATCH", "PATCH_APPLY_FAILED",
   "COMMIT_SCOPE_VIOLATION", "NON_FAST_FORWARD"}
OtherCodes == {"none", "REPORT", "DELIVER_FINAL_VERIFICATION_FAILED"}

DeliveryOutcome == {"PR_CREATED", "FAILED", "ESCALATED"}

\* The patch of a report, judged against the base commit: it applies, stays in
\* scope and passes the final verification; it does not; it changes nothing.
Patch == {"good", "bad", "empty"}

Tips  == {Absent, Foreign} \cup BaseCommits \cup Jobs
Pulls ==
  [ work : Specs \cup {Foreign}, base : BaseBranches, open : BOOLEAN,
    labels : SUBSET StatusLabels, comments : SUBSET Jobs ]
Stages ==
  {"idle", "match", "ensure", "reconcile", "fetch", "checkout", "verify", "push",
   "create", "raced", "label", "unlabel", "notify", "comment", "issue", "done", "gone"}
JobStates ==
  [ pc : Stages, at : BaseCommits, report : {"passed", "FAILED", "ESCALATED"},
    patch : Patch, seen : Tips, pull : Nat, want : StatusLabels,
    todo : SUBSET StatusLabels, outcome : DeliveryOutcome \cup {"none"},
    code : RETRYABLE_CODES \cup ESCALATE_CODES \cup OtherCodes, hurt : BOOLEAN ]

NewJob ==
  [ pc |-> "idle", at |-> 1, report |-> "passed", patch |-> "good", seen |-> Absent,
    pull |-> 0, want |-> "agent:review", todo |-> {}, outcome |-> "none",
    code |-> "none", hurt |-> FALSE ]

\* Type correctness: the branch points at a commit or is absent, and a job that
\* applies a label or has delivered holds the number of a pull request.
TypeOK ==
  /\ base \in BaseCommits
  /\ remote \in Tips
  /\ pulls \in Seq(Pulls)
  /\ issues \subseteq Jobs
  /\ job \in [Jobs -> JobStates]
  /\ \A j \in Jobs :
       job[j].pc \in {"label", "unlabel", "comment"} \/ job[j].outcome = "PR_CREATED"
         => job[j].pull \in DOMAIN pulls
  /\ faults \in 0..MaxFaults
  /\ touches \in 0..MaxTouches

Init ==
  /\ base = 1
  /\ remote = Absent
  /\ pulls = <<>>
  /\ issues = {}
  /\ job = [j \in Jobs |-> NewJob]
  /\ faults = 0
  /\ touches = 0

-----------------------------------------------------------------------------
(* Steps of a job *)

At(j, stage) == job[j].pc = stage
SpecOf(j) == SpecAt[job[j].at]

\* The job goes on as the record r, by a call that worked or without a call.
Becomes(j, r) == job' = [job EXCEPT ![j] = r] /\ UNCHANGED faults
Goes(j, stage) == Becomes(j, [job[j] EXCEPT !.pc = stage])

\* The job goes on as the record r because a call failed or its answer is lost.
Suffers(j, r) ==
  /\ faults < MaxFaults
  /\ faults' = faults + 1
  /\ job' = [job EXCEPT ![j] = [r EXCEPT !.hurt = TRUE]]

GitHubUnchanged == UNCHANGED <<remote, pulls, issues>>

classify_control_plane_error(code, category) ==
  IF code \in ESCALATE_CODES THEN "ESCALATED"
  ELSE IF code \in RETRYABLE_CODES THEN "FAILED" ELSE category

\* _failure_result: no pull request number survives an exception.
Raised(j, code, category) ==
  [job[j] EXCEPT !.pc = "notify", !.code = code, !.pull = 0, !.todo = {}, !.seen = Absent,
                 !.outcome = classify_control_plane_error(code, category)]
Escalates(j, code) == Becomes(j, Raised(j, code, "ESCALATED"))
CallFails(j, code) == Suffers(j, Raised(j, code, "FAILED"))

\* A workflow run starts from a base commit pushed so far: a new run, one that
\* was delayed, or the re-run of an old one.  The job checks out the branch too.
Start(j) ==
  /\ At(j, "idle")
  /\ \E c \in 1..base, r \in {"passed", "FAILED", "ESCALATED"}, p \in Patch :
       /\ r # "passed" => p = "good"   \* the patch of a failure is not looked at
       /\ Becomes(j, [NewJob EXCEPT !.pc = "match", !.at = c, !.report = r, !.patch = p,
                                    !.seen = remote])
  /\ GitHubUnchanged /\ UNCHANGED <<base, touches>>

\* Without a token there is no client, and nobody to notify.
Match(j) ==
  /\ At(j, "match")
  /\ \/ Goes(j, "ensure")
     \/ \E code \in {"SPEC_IDENTITY_MISMATCH", "PATCH_DIGEST_MISMATCH"} : Escalates(j, code)
     \/ Suffers(j, [Raised(j, "MISSING_GITHUB_TOKEN", "FAILED") EXCEPT !.pc = "done"])
  /\ GitHubUnchanged /\ UNCHANGED <<base, touches>>

EnsureLabels(j) ==
  /\ At(j, "ensure")
  /\ Goes(j, "reconcile") \/ CallFails(j, "GITHUB_API_FAILURE")
  /\ GitHubUnchanged /\ UNCHANGED <<base, touches>>

-----------------------------------------------------------------------------
(* Reconciliation with the open pull requests of the branch *)

OpenPulls == {n \in DOMAIN pulls : pulls[n].open}

is_same_work_unit_pull(s, p) == p.work # Foreign /\ p.base = BaseOf[s]

\* Mutant: a pull request of the same work unit is reused whatever version of
\* the Task Spec it was made for.
AnyVersion(s, p) == TRUE

assert_spec_matches_marker(s, p) == p.work = s

\* Mutant: the number of the pull request is not taken over.
Unnumbered(j, n) == [job[j] EXCEPT !.pc = "label", !.want = "agent:review"]

Labelling(j, n) ==
  [job[j] EXCEPT !.pc = "label", !.pull = n, !.seen = Absent, !.want = "agent:review"]

\* What the job becomes, given the pull requests found open; r when there is none.
Reconciled(j, open, r) ==
  IF Cardinality(open) > 1 THEN Raised(j, "UNSAFE_RECONCILE", "ESCALATED")
  ELSE IF open = {} THEN r
  ELSE LET n == CHOOSE m \in open : TRUE
       IN  IF ~is_same_work_unit_pull(SpecOf(j), pulls[n])
           THEN Raised(j, "WORK_UNIT_PR_MISMATCH", "ESCALATED")
           ELSE IF ~assert_spec_matches_marker(SpecOf(j), pulls[n])
           THEN Raised(j, "SPEC_IDENTITY_MISMATCH", "ESCALATED")
           ELSE Labelling(j, n)

\* _report_failure
ReportFailure(j) ==
  [job[j] EXCEPT !.pc = "notify", !.code = "REPORT", !.outcome = job[j].report]

NoPullFound(j) ==
  IF job[j].report = "passed" THEN [job[j] EXCEPT !.pc = "fetch"] ELSE ReportFailure(j)

Reconcile(j) ==
  /\ At(j, "reconcile")
  /\ \/ Becomes(j, Reconciled(j, OpenPulls, NoPullFound(j)))
     \/ CallFails(j, "GITHUB_API_FAILURE")
  /\ GitHubUnchanged /\ UNCHANGED <<base, touches>>

-----------------------------------------------------------------------------
(* checkout_delivery_parent, verification, push *)

\* A failed fetch is not an error: the tip known from the checkout of the job,
\* or from the last fetch, stands in for the one on GitHub.
Fetch(j) ==
  /\ At(j, "fetch")
  /\ \/ remote # Absent /\ Becomes(j, [job[j] EXCEPT !.pc = "checkout", !.seen = remote])
     \/ remote = Absent /\ Goes(j, "checkout")
     \/ remote # Absent /\ Suffers(j, [job[j] EXCEPT !.pc = "checkout"])
  /\ GitHubUnchanged /\ UNCHANGED <<base, touches>>

\* checkout_existing_branch fetches again, and fails without a remote branch.
CheckoutExisting(j) ==
  \/ remote = job[j].at /\ Goes(j, "verify")
  \/ remote \notin {Absent, job[j].at} /\ Escalates(j, "BASE_SHA_MISMATCH")
  \/ remote = Absent /\ Becomes(j, Raised(j, "GIT_FAILED", "FAILED"))
  \/ CallFails(j, "GIT_FAILED")

Checkout(j) ==
  /\ At(j, "checkout")
  /\ \/ job[j].seen = Absent /\ Goes(j, "verify")
     \/ job[j].seen \notin {Absent, job[j].at} /\ Escalates(j, "BASE_SHA_MISMATCH")
     \/ job[j].seen = job[j].at /\ CheckoutExisting(j)
  /\ GitHubUnchanged /\ UNCHANGED <<base, touches>>

\* Mutant: the job trusts the verification of the execute job.
TrustTheReport(j) == At(j, "verify") /\ Goes(j, "push") /\ GitHubUnchanged
                     /\ UNCHANGED <<base, touches>>

\* The patch is applied, judged again on the real tree, and committed.
Verify(j) ==
  /\ At(j, "verify")
  /\ \/ job[j].patch # "bad" /\ Goes(j, "push")
     \/ /\ job[j].patch = "bad"
        /\ \E code \in {"PATCH_APPLY_FAILED", "COMMIT_SCOPE_VIOLATION",
                        "DELIVER_FINAL_VERIFICATION_FAILED"} : Escalates(j, code)
     \/ CallFails(j, "DELIVER_FINAL_VERIFICATION_FAILED")
  /\ GitHubUnchanged /\ UNCHANGED <<base, touches>>

\* The commit a job pushes: its own, or its base commit when nothing changed.
HeadCommit(j) == IF job[j].patch = "empty" THEN job[j].at ELSE j

\* Base commits of one branch are linear; a job's commit is a child of its base.
ParentOf(t, c) == t \in BaseCommits /\ t <= c /\ BaseOf[SpecAt[t]] = BaseOf[SpecAt[c]]

Extends(t, j) == t = Absent \/ t = HeadCommit(j) \/ ParentOf(t, job[j].at)

\* Mutant: the push is forced.
push_forced(j) == TRUE

\* push_branch pushes without force.
push_branch_accepts(j) == Extends(remote, j)

Push(j) ==
  /\ At(j, "push")
  /\ \/ push_branch_accepts(j) /\ remote' = HeadCommit(j) /\ Goes(j, "create")
     \/ push_branch_accepts(j) /\ remote' = HeadCommit(j) /\ CallFails(j, "GIT_PUSH_FAILED")
     \/ ~push_branch_accepts(j) /\ UNCHANGED remote /\ Escalates(j, "NON_FAST_FORWARD")
     \/ UNCHANGED remote /\ CallFails(j, "GIT_PUSH_FAILED")
  /\ UNCHANGED <<base, pulls, issues, touches>>

-----------------------------------------------------------------------------
(* The pull request *)

\* GitHub accepts a pull request from a branch with commits of its own and no
\* other open pull request to the same base.
Creatable(b) ==
  /\ remote \notin {Absent} \cup BaseCommits
  /\ \A n \in OpenPulls : pulls[n].base # b

NewPull(work, b) ==
  [work |-> work, base |-> b, open |-> TRUE, labels |-> {}, comments |-> {}]

\* What the calls that create something leave on GitHub.
create_pull(work, b)       == Append(pulls, NewPull(work, b))
create_issue_comment(n, j) == [pulls EXCEPT ![n].comments = @ \cup {j}]
create_issue(j)            == issues \cup {j}

CreatePull(j) ==
  LET b     == BaseOf[SpecOf(j)]
      added == create_pull(SpecOf(j), b)
  IN
  /\ At(j, "create")
  /\ \/ Creatable(b) /\ pulls' = added /\ Becomes(j, Labelling(j, Len(added)))
     \/ Creatable(b) /\ pulls' = added /\ CallFails(j, "GITHUB_API_FAILURE")
     \/ ~Creatable(b) /\ UNCHANGED pulls /\ Goes(j, "raced")
     \/ UNCHANGED pulls /\ CallFails(j, "GITHUB_API_FAILURE")
  /\ UNCHANGED <<base, remote, issues, touches>>

\* Mutant: a rejected creation is tried again for as long as it is rejected.
CreateAgain(j) ==
  /\ At(j, "raced")
  /\ Becomes(j, Reconciled(j, OpenPulls, [job[j] EXCEPT !.pc = "create"]))
  /\ GitHubUnchanged /\ UNCHANGED <<base, touches>>

\* GitHub rejected the pull request: somebody else's may be there by now.
Raced(j) ==
  /\ At(j, "raced")
  /\ \/ Becomes(j, Reconciled(j, OpenPulls, Raised(j, "GITHUB_API_VALIDATION", "FAILED")))
     \/ CallFails(j, "GITHUB_API_FAILURE")
  /\ GitHubUnchanged /\ UNCHANGED <<base, touches>>

-----------------------------------------------------------------------------
(* apply_status_label, of the delivery and of its notification *)

\* The label is applied: the delivery succeeded, or its failure was notified.
Labelled(j) ==
  [job[j] EXCEPT !.pc = "done", !.todo = {},
                 !.outcome = IF @ = "none" THEN "PR_CREATED" ELSE @]

\* A failed call fails the delivery; the notification is best effort.
LabelFails(j) ==
  IF job[j].outcome = "none"
  THEN CallFails(j, "GITHUB_API_FAILURE")
  ELSE Suffers(j, [job[j] EXCEPT !.pc = "done", !.todo = {}])

\* Mutant: the label of an earlier failure stays.
AllButFailed(l) == StatusLabels \ {l, "agent:failed"}

OtherLabels(l) == StatusLabels \ {l}

\* The labels are removed in the order of the tuple.
FirstLabel(S) ==
  CHOOSE l \in S : \E i \in 1..4 : /\ l = EXCLUSIVE_STATUS_LABELS[i]
                                 /\ \A k \in 1..(i - 1) : EXCLUSIVE_STATUS_LABELS[k] \notin S

AddLabel(j) ==
  LET added == [pulls EXCEPT ![job[j].pull].labels = @ \cup {job[j].want}]
  IN
  /\ At(j, "label")
  /\ \/ /\ pulls' = added
        /\ Becomes(j, [job[j] EXCEPT !.pc = "unlabel", !.todo = OtherLabels(job[j].want)])
     \/ pulls' = added /\ LabelFails(j)
     \/ UNCHANGED pulls /\ LabelFails(j)
  /\ UNCHANGED <<base, remote, issues, touches>>

RemoveLabel(j) ==
  LET l       == FirstLabel(job[j].todo)
      removed == [pulls EXCEPT ![job[j].pull].labels = @ \ {l}]
      rest    == job[j].todo \ {l}
  IN
  /\ At(j, "unlabel")
  /\ \/ /\ pulls' = removed
        /\ Becomes(j, IF rest = {} THEN Labelled(j) ELSE [job[j] EXCEPT !.todo = rest])
     \/ pulls' = removed /\ LabelFails(j)
     \/ UNCHANGED pulls /\ LabelFails(j)
  /\ UNCHANGED <<base, remote, issues, touches>>

-----------------------------------------------------------------------------
(* _notify_best_effort *)

FailureLabel(outcome) == IF outcome = "FAILED" THEN "agent:failed" ELSE "agent:escalated"

\* Mutant: without a pull request there is nothing to notify.
NotifyOnPullsOnly(j, open) ==
  IF open = {} THEN [job[j] EXCEPT !.pc = "done"]
  ELSE [job[j] EXCEPT !.pc = "comment", !.want = FailureLabel(job[j].outcome),
                      !.pull = CHOOSE n \in open : \A m \in open : m <= n]

\* The newest open pull request is told, whoever opened it.
Notified(j, open) ==
  IF open = {} THEN [job[j] EXCEPT !.pc = "issue"]
  ELSE [job[j] EXCEPT !.pc = "comment", !.want = FailureLabel(job[j].outcome),
                      !.pull = CHOOSE n \in open : \A m \in open : m <= n]

Notify(j) ==
  /\ At(j, "notify")
  /\ Becomes(j, Notified(j, OpenPulls)) \/ Suffers(j, [job[j] EXCEPT !.pc = "done"])
  /\ GitHubUnchanged /\ UNCHANGED <<base, touches>>

Comment(j) ==
  LET told == create_issue_comment(job[j].pull, j)
      next == [job[j] EXCEPT !.pc = "label"]
  IN
  /\ At(j, "comment")
  /\ \/ pulls' = told /\ Becomes(j, next)
     \/ pulls' = told /\ Suffers(j, next)
     \/ UNCHANGED pulls /\ Suffers(j, next)
  /\ UNCHANGED <<base, remote, issues, touches>>

OpenIssue(j) ==
  /\ At(j, "issue")
  /\ \/ issues' = create_issue(j) /\ Goes(j, "done")
     \/ issues' = create_issue(j) /\ Suffers(j, [job[j] EXCEPT !.pc = "done"])
     \/ UNCHANGED issues /\ Suffers(j, [job[j] EXCEPT !.pc = "done"])
  /\ UNCHANGED <<base, remote, pulls, touches>>

\* The job is cancelled, times out, or never gets a report it can load.
Cancelled(j) ==
  /\ job[j].pc \notin {"idle", "done", "gone"}
  /\ Suffers(j, [job[j] EXCEPT !.pc = "gone"])
  /\ GitHubUnchanged /\ UNCHANGED <<base, touches>>

-----------------------------------------------------------------------------
(* People *)

\* A commit to a base branch edits or touches a Task Spec and starts a run.
PushSpec ==
  /\ base < NumCommits
  /\ base' = base + 1
  /\ GitHubUnchanged /\ UNCHANGED <<job, faults, touches>>

Touch == touches < MaxTouches /\ touches' = touches + 1 /\ UNCHANGED <<base, issues, job, faults>>

\* The branch is created at a base commit, or removed before it holds any work.
MakeBranch == Touch /\ remote = Absent /\ remote' \in 1..base /\ UNCHANGED pulls
DropBranch == Touch /\ remote \in BaseCommits /\ remote' = Absent /\ UNCHANGED pulls

\* A commit that no deliver job made: by hand, or a repair of the review workflow.
PushCommit == Touch /\ remote \notin {Absent, Foreign} /\ remote' = Foreign /\ UNCHANGED pulls

\* A pull request opened by hand.
OpenByHand ==
  /\ Touch
  /\ \E b \in BaseBranches :
       Creatable(b) /\ pulls' = Append(pulls, NewPull(Foreign, b))
  /\ UNCHANGED remote

\* A pull request is merged or closed.  With one of the pipeline the branch may
\* be deleted, which closes every other one; with one opened by hand it stays.
Close(n, delete) ==
  /\ Touch
  /\ n \in OpenPulls
  /\ delete => pulls[n].work # Foreign
  /\ IF delete
     THEN /\ remote' = Absent
          /\ pulls' = [m \in DOMAIN pulls |-> [pulls[m] EXCEPT !.open = FALSE]]
     ELSE /\ pulls' = [pulls EXCEPT ![n].open = FALSE]
          /\ UNCHANGED remote

People ==
  \/ PushSpec \/ MakeBranch \/ DropBranch \/ PushCommit \/ OpenByHand
  \/ \E n \in DOMAIN pulls, delete \in BOOLEAN : Close(n, delete)

Step(j) ==
  \/ Match(j) \/ EnsureLabels(j) \/ Reconcile(j) \/ Fetch(j) \/ Checkout(j) \/ Verify(j)
  \/ Push(j) \/ CreatePull(j) \/ Raced(j) \/ AddLabel(j) \/ RemoveLabel(j)
  \/ Notify(j) \/ Comment(j) \/ OpenIssue(j)

Ended(j) == job[j].pc \in {"done", "gone"}

\* Every run has ended and nobody does anything any more.
Quiet == (\A j \in Jobs : Ended(j)) /\ UNCHANGED vars

Next == People \/ Quiet \/ \E j \in Jobs : Start(j) \/ Step(j) \/ Cancelled(j)

\* A job that runs takes its steps; nobody has to start, cancel or touch anything.
Spec == Init /\ [][Next]_vars /\ \A j \in Jobs : WF_vars(Step(j))

-----------------------------------------------------------------------------
(* Properties *)

\* Git writes happen only after validation: whatever runs race for the branch,
\* a commit of the pipeline on it comes from a report of success and from a
\* patch the deliver job judged again on the real tree (delivery.py _deliver).
OnlyVerifiedWork ==
  remote \in Jobs => job[remote].report = "passed" /\ job[remote].patch = "good"

\* No force push, no rewrite: whatever is on the branch beyond a base commit, a
\* job's commit or anybody's, is followed by nothing but a commit pushed on top
\* of it by hand, or goes with the branch when people delete it.
WorkIsNeverOverwritten ==
  [][remote' # remote /\ remote \in Jobs \cup {Foreign} => remote' \in {Absent, Foreign}]_vars

\* A run that reports PR_CREATED names a pull request made for exactly its Task
\* Spec, identity and version, also after a lost race (reconcile_open_pull).
CreatedIsOurs ==
  \A j \in Jobs : job[j].outcome = "PR_CREATED" => pulls[job[j].pull].work = SpecOf(j)

\* A run that changed nothing pushes its base commit, and its pull request can
\* then be opened on the commit another run pushes onto that branch.
AllRunsChangeSomething == \A j \in Jobs : job[j].patch # "empty"

\* One work unit, one pull request: the pipeline never has two open pull
\* requests on the branch, not even for versions of a Task Spec that name
\* different base branches, which GitHub would accept.
OnePullPerWorkUnit ==
  AllRunsChangeSomething => Cardinality({n \in OpenPulls : pulls[n].work # Foreign}) <= 1

\* The pull request shows the work of its Task Spec: while the tip is a commit
\* of the pipeline, an open pull request for a Task Spec is at work done for it.
PullShowsItsWork ==
  \A n \in OpenPulls :
    pulls[n].work # Foreign /\ remote \in Jobs /\ AllRunsChangeSomething
      => pulls[n].work = SpecOf(remote)

\* A human learns of every failure of a job that met no outage: a comment on the
\* open pull request or an issue (_notify_best_effort).
FailureIsAnnounced ==
  \A j \in Jobs :
    At(j, "done") /\ job[j].outcome \in {"FAILED", "ESCALATED"} /\ ~job[j].hurt
      => j \in issues \/ \E n \in DOMAIN pulls : j \in pulls[n].comments

Relabels(j, n) == At(j, "unlabel") /\ job[j].pull = n

\* Status labels are exclusive once the jobs that write them are through, in
\* every interleaving of their calls, as long as none of these calls failed.
LabelsExclusive ==
  \A n \in DOMAIN pulls :
    faults = 0 /\ (\A j \in Jobs : ~Relabels(j, n)) => Cardinality(pulls[n].labels) <= 1

\* What the ledger of DeliveryLedger says of the deliver jobs: of a pull request its work
\* and whether it is open, of a job what it set out with and what it came to.
LedgerPulls == [n \in DOMAIN pulls |-> [work |-> pulls[n].work, open |-> pulls[n].open]]
LedgerRun ==
  [j \in Jobs |-> [ work    |-> IF At(j, "idle") THEN Foreign ELSE SpecOf(j),
                    empty   |-> job[j].patch = "empty",
                    outcome |-> job[j].outcome ]]
LedgerTold == {j \in Jobs : j \in issues \/ \E n \in DOMAIN pulls : j \in pulls[n].comments}

Promise == INSTANCE DeliveryLedger WITH
  tip <- remote, pulls <- LedgerPulls, run <- LedgerRun, told <- LedgerTold

\* Work lands on a branch that holds none and is only removed by people; a pull request
\* is opened on the work it names and never again; an outcome is final, and nothing but
\* a failure is announced, also when the answers to the calls behind it are lost.
KeepsTheDeliveryLedger == Promise!Spec

\* Every run that starts ends, whatever fails and whoever races.
DeliveryEnds == \A j \in Jobs : At(j, "match") ~> Ended(j)

-----------------------------------------------------------------------------
(* What the documents say and the code does not do *)

\* "Re-run the workflow after the environment recovers." (delivery.py:473): a
\* run that starts after its predecessor FAILED, from the same Task Spec, with
\* that predecessor's commit as the tip, is not refused because of that commit.
FailedIsRetryable ==
  \A j, k \in Jobs :
    [](At(j, "done") /\ job[j].outcome = "FAILED" /\ remote = j /\ At(k, "idle")
         => []~(remote = j /\ job[k].code = "BASE_SHA_MISMATCH" /\ SpecOf(k) = SpecOf(j)))
=============================================================================

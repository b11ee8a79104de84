--------------------------- MODULE DeliveryProofs ---------------------------
(***************************************************************************)
(* Theorems about Delivery, for any set of jobs, any history of base       *)
(* commits and Task Specs, and any number of failures and human actions.   *)
(*                                                                         *)
(* Sound says what a job has established when it stands at a stage.  A     *)
(* step of a job replaces its record by one that is sound again (Advance), *)
(* while pull requests only come into being and change their labels and    *)
(* their state, never their work unit (PullsGrow).                         *)
(***************************************************************************)
EXTENDS Delivery, SequenceTheorems, FiniteSetTheorems, WellFoundedInduction, TLAPS

Delivering == {"idle", "match", "ensure", "reconcile", "fetch", "checkout", "verify",
               "push", "create", "raced"}
PastReport == {"fetch", "checkout", "verify", "push", "create", "raced"}
PastVerify == {"push", "create", "raced"}
Failing    == {"notify", "comment", "issue"}

\* What a job with record r has established, with p as the pull requests.
Sound(r, p) ==
  /\ r.pc \in Delivering => r.outcome = "none"
  /\ r.pc \in PastReport => r.report = "passed"
  /\ r.pc \in PastVerify => r.patch # "bad"
  /\ r.pc \in Failing => r.outcome \in {"FAILED", "ESCALATED"}
  /\ r.outcome = "PR_CREATED" => r.pc = "done"
  /\ r.pc \in {"label", "unlabel", "comment"} \/ r.outcome = "PR_CREATED"
       => r.pull \in DOMAIN p
  /\ (r.pc \in {"label", "unlabel"} /\ r.outcome = "none") \/ r.outcome = "PR_CREATED"
       => p[r.pull].work = SpecAt[r.at]

Typed ==
  /\ base \in BaseCommits
  /\ remote \in Tips
  /\ pulls \in Seq(Pulls)
  /\ issues \subseteq Jobs
  /\ job \in [Jobs -> JobStates]
  /\ faults \in 0..MaxFaults
  /\ touches \in 0..MaxTouches

\* The commit of a job is on the branch only after that job verified it.
Pushed ==
  remote \in Jobs =>
    job[remote].report = "passed" /\ job[remote].patch = "good" /\ job[remote].pc # "idle"

IInv == Typed /\ Pushed /\ \A j \in Jobs : Sound(job[j], pulls)

\* Pull requests stay, with the work unit they were opened for.
PullsGrow ==
  /\ pulls' \in Seq(Pulls)
  /\ \A n \in DOMAIN pulls : n \in DOMAIN pulls' /\ pulls'[n].work = pulls[n].work

\* The record r continues the run of job j and is sound.
Continues(j, r, p) ==
  /\ r \in JobStates
  /\ r.at = job[j].at /\ r.report = job[j].report /\ r.patch = job[j].patch
  /\ r.pc # "idle"
  /\ Sound(r, p)

Advance(j) == \E r : Continues(j, r, pulls') /\ job' = [job EXCEPT ![j] = r]

-----------------------------------------------------------------------------
(* Records *)

\* That a call of the job failed changes nothing else.
LEMMA HurtContinues ==
  ASSUME NEW j \in Jobs, NEW r, NEW p, Continues(j, r, p)
  PROVE  Continues(j, [r EXCEPT !.hurt = TRUE], p)
<1> DEFINE h == [r EXCEPT !.hurt = TRUE]
<1>1. r \in JobStates
  BY DEF Continues
<1>2. /\ h \in JobStates /\ h.pc = r.pc /\ h.at = r.at /\ h.report = r.report
      /\ h.patch = r.patch /\ h.outcome = r.outcome /\ h.pull = r.pull
  BY <1>1 DEF JobStates
<1>3. Sound(h, p)
  BY <1>2 DEF Continues, Sound
<1> QED
  BY <1>2, <1>3 DEF Continues

\* A step that worked, or failed, towards a sound record advances the job.
LEMMA StepAdvances ==
  ASSUME NEW j \in Jobs, NEW r, Continues(j, r, pulls'), Becomes(j, r) \/ Suffers(j, r)
  PROVE  Advance(j)
<1>1. CASE Becomes(j, r)
  BY <1>1 DEF Becomes, Advance
<1>2. CASE Suffers(j, r)
  BY <1>2, HurtContinues DEF Suffers, Advance
<1> QED
  BY <1>1, <1>2

\* An exception leaves a sound record, whatever the pull requests are.
LEMMA RaisedContinues ==
  ASSUME NEW j \in Jobs, Typed, NEW p,
         NEW code \in RETRYABLE_CODES \cup ESCALATE_CODES \cup OtherCodes,
         NEW category \in {"FAILED", "ESCALATED"}
  PROVE  Continues(j, Raised(j, code, category), p)
<1> DEFINE r == Raised(j, code, category)
<1>0. PICK o \in {"FAILED", "ESCALATED"} : o = classify_control_plane_error(code, category)
  BY DEF classify_control_plane_error
<1>1. job[j] \in JobStates
  BY DEF Typed
<1>2. r = [job[j] EXCEPT !.pc = "notify", !.code = code, !.pull = 0, !.todo = {},
                         !.seen = Absent, !.outcome = o]
  BY <1>0 DEF Raised
<1>3. r.pc = "notify" /\ r.outcome = o /\ r.at = job[j].at /\ r.report = job[j].report
      /\ r.patch = job[j].patch
  BY <1>1, <1>2 DEF JobStates
<1>4. r \in JobStates
  <2> DEFINE Codes == RETRYABLE_CODES \cup ESCALATE_CODES \cup OtherCodes
  <2>1. /\ "notify" \in Stages /\ Absent \in Tips /\ 0 \in Nat
        /\ o \in DeliveryOutcome \cup {"none"} /\ code \in Codes
    BY DEF Stages, Tips, DeliveryOutcome
  <2> HIDE DEF Codes, r
  <2> QED
    BY <1>1, <1>2, <2>1 DEF JobStates, Codes
<1>5. Sound(r, p)
  BY <1>3 DEF Sound, Delivering, PastReport, PastVerify, Failing
<1> QED
  BY <1>3, <1>4, <1>5 DEF Continues

\* A job that goes on before it has a pull request stays sound if the stage it
\* enters asks for nothing it has not established.
LEMMA GoesContinues ==
  ASSUME NEW j \in Jobs, Typed, NEW p, NEW stage \in Delivering \ {"idle"},
         NEW t \in Tips,
         job[j].outcome = "none",
         stage \in PastReport => job[j].report = "passed",
         stage \in PastVerify => job[j].patch # "bad"
  PROVE  /\ Continues(j, [job[j] EXCEPT !.pc = stage], p)
         /\ Continues(j, [job[j] EXCEPT !.pc = stage, !.seen = t], p)
<1>1. job[j] \in JobStates /\ stage \in Stages
  BY DEF Typed, Delivering, Stages
<1> DEFINE r == [job[j] EXCEPT !.pc = stage]
           s == [job[j] EXCEPT !.pc = stage, !.seen = t]
<1>2. /\ r \in JobStates /\ r.pc = stage /\ r.at = job[j].at /\ r.report = job[j].report
      /\ r.patch = job[j].patch /\ r.outcome = "none"
  BY <1>1 DEF JobStates
<1>3. /\ s \in JobStates /\ s.pc = stage /\ s.at = job[j].at /\ s.report = job[j].report
      /\ s.patch = job[j].patch /\ s.outcome = "none"
  BY <1>1 DEF JobStates
<1>4. Sound(r, p)
  BY <1>2 DEF Sound, Delivering, Failing
<1>5. Sound(s, p)
  BY <1>3 DEF Sound, Delivering, Failing
<1> QED
  BY <1>2, <1>3, <1>4, <1>5 DEF Continues

\* A job that takes over an open pull request of its own Task Spec is sound.
LEMMA LabellingContinues ==
  ASSUME NEW j \in Jobs, Typed, NEW p \in Seq(Pulls), NEW n \in DOMAIN p,
         p[n].work = SpecOf(j), job[j].outcome = "none"
  PROVE  Continues(j, Labelling(j, n), p)
<1> DEFINE r == Labelling(j, n)
<1>1. job[j] \in JobStates /\ n \in Nat
  BY DEF Typed
<1>2. r = [job[j] EXCEPT !.pc = "label", !.pull = n, !.seen = Absent,
                         !.want = "agent:review"]
  BY DEF Labelling
<1>3. /\ r.pc = "label" /\ r.pull = n /\ r.at = job[j].at /\ r.report = job[j].report
      /\ r.patch = job[j].patch /\ r.outcome = "none"
  BY <1>1, <1>2 DEF JobStates
<1>4. r \in JobStates
  BY <1>1, <1>2 DEF JobStates, Stages, Tips, StatusLabels
<1>5. Sound(r, p)
  BY <1>3 DEF Sound, Delivering, PastReport, PastVerify, Failing, SpecOf
<1> QED
  BY <1>3, <1>4, <1>5 DEF Continues

\* More pull requests, with the same work units, leave a sound record sound.
LEMMA GrowthKeepsSound ==
  ASSUME NEW r, Sound(r, pulls), PullsGrow
  PROVE  Sound(r, pulls')
BY DEF Sound, PullsGrow

-----------------------------------------------------------------------------
(* Pull requests *)

\* Changing what is not the work unit of the pull requests makes them grow.
LEMMA RewriteGrows ==
  ASSUME Typed, NEW q, q = [n \in DOMAIN pulls |-> q[n]],
         \A n \in DOMAIN pulls : q[n] \in Pulls /\ q[n].work = pulls[n].work,
         pulls' = q
  PROVE  PullsGrow
<1>1. pulls \in Seq(Pulls) /\ DOMAIN pulls = 1..Len(pulls) /\ Len(pulls) \in Nat
  BY DEF Typed
<1>2. q \in [1..Len(pulls) -> Pulls]
  BY <1>1
<1>3. q \in Seq(Pulls) /\ DOMAIN q = DOMAIN pulls
  BY <1>1, <1>2, SeqDef
<1> QED
  BY <1>3 DEF PullsGrow

\* Labelling, commenting and closing one pull request makes them grow.
LEMMA OneRewriteGrows ==
  ASSUME Typed, NEW n \in DOMAIN pulls, NEW f \in Pulls, f.work = pulls[n].work,
         pulls' = [pulls EXCEPT ![n] = f]
  PROVE  PullsGrow
<1> DEFINE q == [pulls EXCEPT ![n] = f]
<1>1. pulls \in Seq(Pulls) /\ DOMAIN pulls = 1..Len(pulls)
  BY DEF Typed
<1>2. q = [m \in DOMAIN pulls |-> q[m]]
  OBVIOUS
<1>3. \A m \in DOMAIN pulls : q[m] \in Pulls /\ q[m].work = pulls[m].work
  BY <1>1
<1> QED
  BY <1>2, <1>3, RewriteGrows

\* The labels and comments of a pull request may change as the jobs change them.
LEMMA EditGrows ==
  ASSUME Typed, NEW n \in DOMAIN pulls, NEW L \in SUBSET StatusLabels,
         NEW C \in SUBSET Jobs
  PROVE  /\ pulls' = [pulls EXCEPT ![n].labels = L] => PullsGrow
         /\ pulls' = [pulls EXCEPT ![n].comments = C] => PullsGrow
         /\ pulls' = [pulls EXCEPT ![n].open = FALSE] => PullsGrow
<1>1. pulls[n] \in Pulls
  BY DEF Typed
<1> DEFINE a == [pulls[n] EXCEPT !.labels = L]
           b == [pulls[n] EXCEPT !.comments = C]
           c == [pulls[n] EXCEPT !.open = FALSE]
<1>2. a \in Pulls /\ a.work = pulls[n].work
  BY <1>1 DEF Pulls
<1>3. b \in Pulls /\ b.work = pulls[n].work
  BY <1>1 DEF Pulls
<1>4. c \in Pulls /\ c.work = pulls[n].work
  BY <1>1 DEF Pulls
<1> HIDE DEF a, b, c
<1>5. pulls' = [pulls EXCEPT ![n] = a] => PullsGrow
  BY <1>2, OneRewriteGrows
<1>6. pulls' = [pulls EXCEPT ![n] = b] => PullsGrow
  BY <1>3, OneRewriteGrows
<1>7. pulls' = [pulls EXCEPT ![n] = c] => PullsGrow
  BY <1>4, OneRewriteGrows
<1> QED
  BY <1>5, <1>6, <1>7 DEF a, b, c

\* Opening one makes them grow.
LEMMA AppendGrows ==
  ASSUME Typed, NEW p \in Pulls, pulls' = Append(pulls, p)
  PROVE  /\ PullsGrow
         /\ Len(pulls') \in DOMAIN pulls' /\ pulls'[Len(pulls')] = p
<1>1. pulls \in Seq(Pulls)
  BY DEF Typed
<1>2. pulls' \in Seq(Pulls) /\ Len(pulls') = Len(pulls) + 1
  BY <1>1
<1>3. \A n \in DOMAIN pulls : n \in DOMAIN pulls' /\ pulls'[n] = pulls[n]
  BY <1>1, <1>2
<1>4. Len(pulls') \in DOMAIN pulls' /\ pulls'[Len(pulls')] = p
  BY <1>1, <1>2
<1> QED
  BY <1>2, <1>3, <1>4 DEF PullsGrow

\* Pull requests that do not change, grow.
LEMMA SameGrows ==
  ASSUME Typed, UNCHANGED pulls
  PROVE  PullsGrow
BY DEF Typed, PullsGrow

-----------------------------------------------------------------------------
(* The steps of a job before it has a pull request *)

\* An exception advances the job, raised with or without a failed call.
LEMMA ExceptionAdvances ==
  ASSUME NEW j \in Jobs, Typed,
         NEW code \in RETRYABLE_CODES \cup ESCALATE_CODES \cup OtherCodes,
         NEW category \in {"FAILED", "ESCALATED"}
  PROVE  /\ Becomes(j, Raised(j, code, category)) => Advance(j)
         /\ Suffers(j, Raised(j, code, category)) => Advance(j)
<1>1. Continues(j, Raised(j, code, category), pulls')
  BY RaisedContinues
<1> QED
  BY <1>1, StepAdvances

\* match_identity, the digest of the patch, the token.
LEMMA MatchAdvances ==
  ASSUME NEW j \in Jobs, Typed, Sound(job[j], pulls), Match(j)
  PROVE  Advance(j)
<1>1. job[j].outcome = "none" /\ pulls' = pulls
  BY DEF Match, At, Sound, Delivering, GitHubUnchanged
<1>2. CASE Goes(j, "ensure")
  <2>1. Continues(j, [job[j] EXCEPT !.pc = "ensure"], pulls')
    BY <1>1, GoesContinues DEF Delivering, PastReport, PastVerify, Tips
  <2> QED
    BY <1>2, <2>1, StepAdvances DEF Goes
<1>3. CASE \E code \in {"SPEC_IDENTITY_MISMATCH", "PATCH_DIGEST_MISMATCH"} : Escalates(j, code)
  BY <1>3, ExceptionAdvances DEF Escalates, ESCALATE_CODES
<1>4. CASE Suffers(j, [Raised(j, "MISSING_GITHUB_TOKEN", "FAILED") EXCEPT !.pc = "done"])
  <2> DEFINE r == Raised(j, "MISSING_GITHUB_TOKEN", "FAILED")
             d == [r EXCEPT !.pc = "done"]
  <2>1. Continues(j, r, pulls')
    BY RaisedContinues DEF RETRYABLE_CODES
  <2>2. r.pc = "notify" /\ r \in JobStates
    BY <2>1 DEF Continues, Raised, Typed, JobStates
  <2> HIDE DEF r
  <2>3. /\ d \in JobStates /\ d.pc = "done" /\ d.at = r.at /\ d.report = r.report
        /\ d.patch = r.patch /\ d.outcome = r.outcome /\ d.pull = r.pull
    BY <2>2 DEF JobStates, Stages
  <2>4. Continues(j, d, pulls')
    BY <2>1, <2>2, <2>3 DEF Continues, Sound, Delivering, PastReport, PastVerify, Failing
  <2> QED
    BY <1>4, <2>4, StepAdvances DEF r
<1> QED
  BY <1>2, <1>3, <1>4 DEF Match

\* ensure_agent_labels.
LEMMA EnsureLabelsAdvances ==
  ASSUME NEW j \in Jobs, Typed, Sound(job[j], pulls), EnsureLabels(j)
  PROVE  Advance(j)
<1>1. job[j].outcome = "none" /\ pulls' = pulls
  BY DEF EnsureLabels, At, Sound, Delivering, GitHubUnchanged
<1>2. CASE Goes(j, "reconcile")
  <2>1. Continues(j, [job[j] EXCEPT !.pc = "reconcile"], pulls')
    BY <1>1, GoesContinues DEF Delivering, PastReport, PastVerify, Tips
  <2> QED
    BY <1>2, <2>1, StepAdvances DEF Goes
<1>3. CASE CallFails(j, "GITHUB_API_FAILURE")
  BY <1>3, ExceptionAdvances DEF CallFails, RETRYABLE_CODES
<1> QED
  BY <1>2, <1>3 DEF EnsureLabels

\* reconcile_open_pull ends in an exception, in a pull request made for the Task
\* Spec of the job, or in what its caller does without one.
LEMMA ReconciledContinues ==
  ASSUME NEW j \in Jobs, Typed, NEW r, Continues(j, r, pulls), job[j].outcome = "none"
  PROVE  Continues(j, Reconciled(j, OpenPulls, r), pulls)
<1> DEFINE n == CHOOSE m \in OpenPulls : TRUE
<1>1. OpenPulls \subseteq DOMAIN pulls /\ (OpenPulls # {} => n \in OpenPulls)
  BY DEF OpenPulls
<1>2. \A code \in ESCALATE_CODES : Continues(j, Raised(j, code, "ESCALATED"), pulls)
  BY RaisedContinues
<1>3. OpenPulls # {} /\ assert_spec_matches_marker(SpecOf(j), pulls[n])
        => Continues(j, Labelling(j, n), pulls)
  BY <1>1, LabellingContinues DEF Typed, assert_spec_matches_marker
<1>4. {"UNSAFE_RECONCILE", "WORK_UNIT_PR_MISMATCH", "SPEC_IDENTITY_MISMATCH"}
        \subseteq ESCALATE_CODES
  BY DEF ESCALATE_CODES
<1> HIDE DEF n
<1> QED
  BY <1>2, <1>3, <1>4 DEF Reconciled, n

\* The first reconciliation, and the outcome of the report.
LEMMA ReconcileAdvances ==
  ASSUME NEW j \in Jobs, Typed, Sound(job[j], pulls), Reconcile(j)
  PROVE  Advance(j)
<1>1. job[j].outcome = "none" /\ pulls' = pulls
  BY DEF Reconcile, At, Sound, Delivering, GitHubUnchanged
<1>2. Continues(j, NoPullFound(j), pulls)
  <2>1. CASE job[j].report = "passed"
    <3>1. Continues(j, [job[j] EXCEPT !.pc = "fetch"], pulls)
      BY <1>1, <2>1, GoesContinues DEF Delivering, PastReport, PastVerify, Tips
    <3> QED
      BY <2>1, <3>1 DEF NoPullFound
  <2>2. CASE job[j].report # "passed"
    <3> DEFINE r == [job[j] EXCEPT !.pc = "notify", !.code = "REPORT",
                                   !.outcome = job[j].report]
    <3>1. job[j] \in JobStates /\ job[j].report \in {"FAILED", "ESCALATED"}
      BY <2>2 DEF Typed, JobStates
    <3>2. /\ r \in JobStates /\ r.pc = "notify" /\ r.at = job[j].at
          /\ r.report = job[j].report /\ r.patch = job[j].patch
          /\ r.outcome \in {"FAILED", "ESCALATED"}
      BY <3>1 DEF JobStates, Stages, OtherCodes, DeliveryOutcome
    <3>3. Continues(j, r, pulls)
      BY <3>2 DEF Continues, Sound, Delivering, PastReport, PastVerify, Failing
    <3> QED
      BY <2>2, <3>3 DEF NoPullFound, ReportFailure
  <2> QED
    BY <2>1, <2>2
<1>3. CASE Becomes(j, Reconciled(j, OpenPulls, NoPullFound(j)))
  BY <1>1, <1>2, <1>3, ReconciledContinues, StepAdvances
<1>4. CASE CallFails(j, "GITHUB_API_FAILURE")
  BY <1>4, ExceptionAdvances DEF CallFails, RETRYABLE_CODES
<1> QED
  BY <1>3, <1>4 DEF Reconcile

\* fetch_remote_branch: the tip seen is the tip on GitHub or the one seen before.
LEMMA FetchAdvances ==
  ASSUME NEW j \in Jobs, Typed, Sound(job[j], pulls), Fetch(j)
  PROVE  Advance(j)
<1>1. job[j].outcome = "none" /\ job[j].report = "passed" /\ remote \in Tips
  BY DEF Fetch, At, Sound, Delivering, PastReport, Typed
<1>2. /\ Continues(j, [job[j] EXCEPT !.pc = "checkout"], pulls')
      /\ Continues(j, [job[j] EXCEPT !.pc = "checkout", !.seen = remote], pulls')
  BY <1>1, GoesContinues DEF Delivering, PastReport, PastVerify
<1> QED
  BY <1>2, StepAdvances DEF Fetch, Goes

\* checkout_delivery_parent.
LEMMA CheckoutAdvances ==
  ASSUME NEW j \in Jobs, Typed, Sound(job[j], pulls), Checkout(j)
  PROVE  Advance(j)
<1>1. job[j].outcome = "none" /\ job[j].report = "passed"
  BY DEF Checkout, At, Sound, Delivering, PastReport
<1>2. CASE Goes(j, "verify")
  <2>1. Continues(j, [job[j] EXCEPT !.pc = "verify"], pulls')
    BY <1>1, GoesContinues DEF Delivering, PastReport, PastVerify, Tips
  <2> QED
    BY <1>2, <2>1, StepAdvances DEF Goes
<1>3. CASE Escalates(j, "BASE_SHA_MISMATCH")
  BY <1>3, ExceptionAdvances DEF Escalates, ESCALATE_CODES
<1>4. CASE CallFails(j, "GIT_FAILED") \/ Becomes(j, Raised(j, "GIT_FAILED", "FAILED"))
  BY <1>4, ExceptionAdvances DEF CallFails, RETRYABLE_CODES
<1> QED
  BY <1>2, <1>3, <1>4 DEF Checkout, CheckoutExisting

\* Only a patch judged good, or one that changes nothing, gets to the push.
LEMMA VerifyAdvances ==
  ASSUME NEW j \in Jobs, Typed, Sound(job[j], pulls), Verify(j)
  PROVE  Advance(j)
<1>1. job[j].outcome = "none" /\ job[j].report = "passed"
  BY DEF Verify, At, Sound, Delivering, PastReport
<1>2. CASE job[j].patch # "bad" /\ Goes(j, "push")
  <2>1. Continues(j, [job[j] EXCEPT !.pc = "push"], pulls')
    BY <1>1, <1>2, GoesContinues DEF Delivering, PastReport, PastVerify, Tips
  <2> QED
    BY <1>2, <2>1, StepAdvances DEF Goes
<1>3. CASE \E code \in {"PATCH_APPLY_FAILED", "COMMIT_SCOPE_VIOLATION",
                         "DELIVER_FINAL_VERIFICATION_FAILED"} : Escalates(j, code)
  BY <1>3, ExceptionAdvances DEF Escalates, ESCALATE_CODES, OtherCodes
<1>4. CASE CallFails(j, "DELIVER_FINAL_VERIFICATION_FAILED")
  BY <1>4, ExceptionAdvances DEF CallFails, OtherCodes
<1> QED
  BY <1>2, <1>3, <1>4 DEF Verify

\* push_branch.
LEMMA PushAdvances ==
  ASSUME NEW j \in Jobs, Typed, Sound(job[j], pulls), Push(j)
  PROVE  Advance(j)
<1>1. job[j].outcome = "none" /\ job[j].report = "passed" /\ job[j].patch # "bad"
  BY DEF Push, At, Sound, Delivering, PastReport, PastVerify
<1>2. CASE Goes(j, "create")
  <2>1. Continues(j, [job[j] EXCEPT !.pc = "create"], pulls')
    BY <1>1, GoesContinues DEF Delivering, PastReport, PastVerify, Tips
  <2> QED
    BY <1>2, <2>1, StepAdvances DEF Goes
<1>3. CASE Escalates(j, "NON_FAST_FORWARD")
  BY <1>3, ExceptionAdvances DEF Escalates, ESCALATE_CODES
<1>4. CASE CallFails(j, "GIT_PUSH_FAILED")
  BY <1>4, ExceptionAdvances DEF CallFails, RETRYABLE_CODES
<1> QED
  BY <1>2, <1>3, <1>4 DEF Push

\* The pull request a job opens is one for its Task Spec.
LEMMA NewPullIsOurs ==
  ASSUME NEW j \in Jobs, Typed
  PROVE  /\ NewPull(SpecOf(j), BaseOf[SpecOf(j)]) \in Pulls
         /\ NewPull(SpecOf(j), BaseOf[SpecOf(j)]).work = SpecOf(j)
<1>1. job[j].at \in BaseCommits
  BY DEF Typed, JobStates
<1>2. SpecOf(j) \in Specs /\ BaseOf[SpecOf(j)] \in BaseBranches
  BY <1>1 DEF SpecOf, Specs, BaseBranches
<1> QED
  BY <1>2 DEF NewPull, Pulls

\* create_pull, accepted, rejected or unanswered.
LEMMA CreatePullAdvances ==
  ASSUME NEW j \in Jobs, Typed, Sound(job[j], pulls), CreatePull(j)
  PROVE  Advance(j) /\ PullsGrow
<1> DEFINE p == NewPull(SpecOf(j), BaseOf[SpecOf(j)])
<1>1. /\ job[j].outcome = "none" /\ job[j].report = "passed" /\ job[j].patch # "bad"
      /\ p \in Pulls /\ p.work = SpecOf(j)
  BY NewPullIsOurs
  DEF CreatePull, create_pull, At, Sound, Delivering, PastReport, PastVerify
<1>2. CASE CallFails(j, "GITHUB_API_FAILURE")
  <2>1. Advance(j)
    BY <1>2, ExceptionAdvances DEF CallFails, RETRYABLE_CODES
  <2>2. PullsGrow
    BY <1>1, AppendGrows, SameGrows DEF CreatePull, create_pull
  <2> QED
    BY <2>1, <2>2
<1>3. CASE pulls' = Append(pulls, p) /\ Becomes(j, Labelling(j, Len(Append(pulls, p))))
  <2>1. /\ PullsGrow /\ Len(pulls') \in DOMAIN pulls'
        /\ pulls'[Len(pulls')].work = SpecOf(j)
    BY <1>1, <1>3, AppendGrows
  <2>2. Continues(j, Labelling(j, Len(pulls')), pulls')
    BY <1>1, <2>1, LabellingContinues DEF PullsGrow
  <2> QED
    BY <1>3, <2>1, <2>2, StepAdvances
<1>4. CASE UNCHANGED pulls /\ Goes(j, "raced")
  <2>1. Continues(j, [job[j] EXCEPT !.pc = "raced"], pulls')
    BY <1>1, GoesContinues DEF Delivering, PastReport, PastVerify, Tips
  <2> QED
    BY <1>4, <2>1, StepAdvances, SameGrows DEF Goes
<1> QED
  BY <1>2, <1>3, <1>4 DEF CreatePull, create_pull

\* The reconciliation after a lost race.
LEMMA RacedAdvances ==
  ASSUME NEW j \in Jobs, Typed, Sound(job[j], pulls), Raced(j)
  PROVE  Advance(j)
<1> DEFINE r == Raised(j, "GITHUB_API_VALIDATION", "FAILED")
<1>1. job[j].outcome = "none" /\ pulls' = pulls
  BY DEF Raced, At, Sound, Delivering, GitHubUnchanged
<1>2. Continues(j, r, pulls)
  BY RaisedContinues DEF RETRYABLE_CODES
<1> HIDE DEF r
<1>3. CASE Becomes(j, Reconciled(j, OpenPulls, r))
  BY <1>1, <1>2, <1>3, ReconciledContinues, StepAdvances
<1>4. CASE CallFails(j, "GITHUB_API_FAILURE")
  BY <1>4, ExceptionAdvances DEF CallFails, RETRYABLE_CODES
<1> QED
  BY <1>3, <1>4 DEF Raced, r

-----------------------------------------------------------------------------
(* Labels and notifications *)

\* A record that only ends a run without a pull request is sound.
LEMMA RestContinues ==
  ASSUME NEW j \in Jobs, NEW p, NEW r \in JobStates,
         r.at = job[j].at, r.report = job[j].report, r.patch = job[j].patch,
         r.pc \in {"done", "gone"}, r.outcome # "PR_CREATED"
  PROVE  Continues(j, r, p)
BY DEF Continues, Sound, Delivering, PastReport, PastVerify, Failing

\* A record that notifies a failure is sound if it notifies a pull request.
LEMMA FailureContinues ==
  ASSUME NEW j \in Jobs, NEW p, NEW r \in JobStates,
         r.at = job[j].at, r.report = job[j].report, r.patch = job[j].patch,
         r.pc \in {"comment", "issue", "label", "unlabel"},
         r.outcome \in {"FAILED", "ESCALATED"},
         r.pc # "issue" => r.pull \in DOMAIN p
  PROVE  Continues(j, r, p)
BY DEF Continues, Sound, Delivering, PastReport, PastVerify, Failing

\* A job at its label stages holds a pull request, of its own Task Spec unless it
\* notifies a failure.
LEMMA LabelStage ==
  ASSUME NEW j \in Jobs, Typed, Sound(job[j], pulls), job[j].pc \in {"label", "unlabel"}
  PROVE  /\ job[j] \in JobStates /\ job[j].pull \in DOMAIN pulls
         /\ \/ job[j].outcome \in {"FAILED", "ESCALATED"}
            \/ job[j].outcome = "none" /\ pulls[job[j].pull].work = SpecAt[job[j].at]
BY DEF Typed, Sound, JobStates, DeliveryOutcome

\* Any change of the labels of the pull request of the job makes them grow.
LEMMA LabelGrows ==
  ASSUME NEW j \in Jobs, Typed, Sound(job[j], pulls), AddLabel(j) \/ RemoveLabel(j)
  PROVE  PullsGrow
<1> DEFINE n == job[j].pull
<1>1. n \in DOMAIN pulls /\ job[j] \in JobStates
  BY LabelStage DEF AddLabel, RemoveLabel, At
<1>2. pulls[n].labels \subseteq StatusLabels /\ job[j].want \in StatusLabels
  <2>1. pulls[n] \in Pulls
    BY <1>1 DEF Typed
  <2> QED
    BY <1>1, <2>1 DEF Pulls, JobStates
<1>3. CASE pulls' = [pulls EXCEPT ![n].labels = @ \cup {job[j].want}]
  <2> DEFINE L == pulls[n].labels \cup {job[j].want}
  <2>1. L \in SUBSET StatusLabels
    BY <1>2
  <2> QED
    BY <1>1, <1>3, <2>1, EditGrows
<1>4. CASE pulls' = [pulls EXCEPT ![n].labels = @ \ {FirstLabel(job[j].todo)}]
  <2> DEFINE L == pulls[n].labels \ {FirstLabel(job[j].todo)}
  <2>1. L \in SUBSET StatusLabels
    BY <1>2
  <2> QED
    BY <1>1, <1>4, <2>1, EditGrows
<1> QED
  BY <1>3, <1>4, SameGrows DEF AddLabel, RemoveLabel

\* A label call that failed fails the delivery or ends the notification.
LEMMA LabelFailsAdvances ==
  ASSUME NEW j \in Jobs, Typed, Sound(job[j], pulls), job[j].pc \in {"label", "unlabel"},
         LabelFails(j)
  PROVE  Advance(j)
<1>1. CASE CallFails(j, "GITHUB_API_FAILURE")
  BY <1>1, ExceptionAdvances DEF CallFails, RETRYABLE_CODES
<1>2. CASE job[j].outcome # "none"
           /\ Suffers(j, [job[j] EXCEPT !.pc = "done", !.todo = {}])
  <2> DEFINE r == [job[j] EXCEPT !.pc = "done", !.todo = {}]
  <2>1. job[j] \in JobStates /\ job[j].outcome \in {"FAILED", "ESCALATED"}
    BY <1>2, LabelStage
  <2>2. /\ r \in JobStates /\ r.pc = "done" /\ r.at = job[j].at
        /\ r.report = job[j].report /\ r.patch = job[j].patch /\ r.outcome = job[j].outcome
    BY <2>1 DEF JobStates, Stages
  <2>3. Continues(j, r, pulls')
    BY <2>1, <2>2, RestContinues
  <2> QED
    BY <1>2, <2>3, StepAdvances
<1> QED
  BY <1>1, <1>2 DEF LabelFails

\* add_issue_labels.
LEMMA AddLabelAdvances ==
  ASSUME NEW j \in Jobs, Typed, Sound(job[j], pulls), AddLabel(j)
  PROVE  Advance(j)
<1>1. job[j].pc = "label" /\ PullsGrow
  BY LabelGrows DEF AddLabel, At
<1>2. CASE LabelFails(j)
  BY <1>1, <1>2, LabelFailsAdvances
<1>3. CASE Becomes(j, [job[j] EXCEPT !.pc = "unlabel", !.todo = OtherLabels(job[j].want)])
  <2> DEFINE r == [job[j] EXCEPT !.pc = "unlabel", !.todo = OtherLabels(job[j].want)]
  <2>1. /\ job[j] \in JobStates /\ job[j].pull \in DOMAIN pulls
        /\ \/ job[j].outcome \in {"FAILED", "ESCALATED"}
           \/ job[j].outcome = "none" /\ pulls[job[j].pull].work = SpecAt[job[j].at]
    BY <1>1, LabelStage
  <2>2. /\ r \in JobStates /\ r.pc = "unlabel" /\ r.at = job[j].at
        /\ r.report = job[j].report /\ r.patch = job[j].patch /\ r.outcome = job[j].outcome
        /\ r.pull = job[j].pull
    BY <2>1 DEF JobStates, Stages, OtherLabels
  <2>3. Sound(r, pulls')
    BY <1>1, <2>1, <2>2 DEF Sound, Delivering, PastReport, PastVerify, Failing, PullsGrow
  <2>4. Continues(j, r, pulls')
    BY <2>2, <2>3 DEF Continues
  <2> QED
    BY <1>3, <2>4, StepAdvances
<1> QED
  BY <1>2, <1>3 DEF AddLabel

\* remove_issue_label; after the last one the delivery has succeeded.
LEMMA RemoveLabelAdvances ==
  ASSUME NEW j \in Jobs, Typed, Sound(job[j], pulls), RemoveLabel(j)
  PROVE  Advance(j)
<1> DEFINE rest == job[j].todo \ {FirstLabel(job[j].todo)}
           r == [job[j] EXCEPT !.todo = rest]
           o == IF job[j].outcome = "none" THEN "PR_CREATED" ELSE job[j].outcome
<1>1. job[j].pc = "unlabel" /\ PullsGrow
  BY LabelGrows DEF RemoveLabel, At
<1>2. /\ job[j] \in JobStates /\ job[j].pull \in DOMAIN pulls
      /\ \/ job[j].outcome \in {"FAILED", "ESCALATED"}
         \/ job[j].outcome = "none" /\ pulls[job[j].pull].work = SpecAt[job[j].at]
  BY <1>1, LabelStage
<1>3. Continues(j, r, pulls')
  <2>1. rest \in SUBSET StatusLabels
    BY <1>2 DEF JobStates
  <2> HIDE DEF rest
  <2>2. /\ r \in JobStates /\ r.pc = "unlabel" /\ r.at = job[j].at
        /\ r.report = job[j].report /\ r.patch = job[j].patch /\ r.outcome = job[j].outcome
        /\ r.pull = job[j].pull
    BY <1>1, <1>2, <2>1 DEF JobStates
  <2>3. Sound(r, pulls')
    BY <1>1, <1>2, <2>2 DEF Sound, Delivering, PastReport, PastVerify, Failing, PullsGrow
  <2> QED
    BY <2>2, <2>3 DEF Continues
<1>4. Continues(j, Labelled(j), pulls')
  <2> DEFINE d == Labelled(j)
  <2>1. o \in DeliveryOutcome \cup {"none"} /\ "done" \in Stages
        /\ d = [job[j] EXCEPT !.pc = "done", !.todo = {}, !.outcome = o]
    BY <1>2 DEF Labelled, DeliveryOutcome, Stages
  <2> HIDE DEF o
  <2>2. /\ d \in JobStates /\ d.pc = "done" /\ d.at = job[j].at
        /\ d.report = job[j].report /\ d.patch = job[j].patch /\ d.outcome = o
        /\ d.pull = job[j].pull
    BY <1>2, <2>1 DEF JobStates
  <2>3. Sound(d, pulls')
    BY <1>1, <1>2, <2>2 DEF Sound, Delivering, PastReport, PastVerify, Failing, PullsGrow, o
  <2> QED
    BY <2>2, <2>3 DEF Continues
<1>5. CASE LabelFails(j)
  BY <1>1, <1>5, LabelFailsAdvances
<1>6. CASE Becomes(j, IF rest = {} THEN Labelled(j) ELSE r)
  BY <1>3, <1>4, <1>6, StepAdvances
<1> QED
  BY <1>5, <1>6 DEF RemoveLabel

\* Some pull request is the newest of those that are open.
LEMMA NewestExists ==
  ASSUME NEW N \in Nat, NEW S \in SUBSET (1..N), S # {}
  PROVE  \E k \in S : \A m \in S : m <= k
<1> DEFINE T == {N - m : m \in S}
<1>1. T \subseteq Nat /\ T # {}
  <2>1. \A m \in S : m \in 1..N
    OBVIOUS
  <2>2. \A m \in 1..N : N - m \in Nat
    OBVIOUS
  <2>3. \A m \in S : N - m \in Nat
    BY <2>1, <2>2
  <2>4. T \subseteq Nat
    BY <2>3
  <2>5. PICK m \in S : TRUE
    OBVIOUS
  <2>6. N - m \in T
    OBVIOUS
  <2> QED
    BY <2>4, <2>6
<1>2. PICK a \in T : \A b \in T : ~ (<<b, a>> \in OpToRel(<, Nat))
  BY <1>1, NatLessThanWellFounded, WFMin, Zenon
<1>3. \A b \in T : b < a => <<b, a>> \in OpToRel(<, Nat)
  BY <1>1 DEF OpToRel
<1>4. \A b \in T : ~ (b < a)
  BY <1>2, <1>3, Zenon
<1>5. PICK k \in S : a = N - k
  OBVIOUS
<1>6. \A m \in S : N - m \in T
  OBVIOUS
<1>7. \A m \in S : m \in Int /\ N \in Int /\ ~ (N - m < N - k)
  BY <1>4, <1>5, <1>6
<1>8. \A m \in S : m <= k
  BY <1>7
<1> QED
  BY <1>8

\* A job that failed tells the newest open pull request, or opens an issue.
LEMMA NotifyAdvances ==
  ASSUME NEW j \in Jobs, Typed, Sound(job[j], pulls), Notify(j)
  PROVE  Advance(j)
<1>1. /\ job[j] \in JobStates /\ job[j].outcome \in {"FAILED", "ESCALATED"}
      /\ pulls' = pulls /\ pulls \in Seq(Pulls)
  BY DEF Notify, At, Typed, Sound, Failing, GitHubUnchanged
<1>2. CASE Suffers(j, [job[j] EXCEPT !.pc = "done"])
  <2> DEFINE r == [job[j] EXCEPT !.pc = "done"]
  <2>1. /\ r \in JobStates /\ r.pc = "done" /\ r.at = job[j].at
        /\ r.report = job[j].report /\ r.patch = job[j].patch /\ r.outcome = job[j].outcome
    BY <1>1 DEF JobStates, Stages
  <2>2. Continues(j, r, pulls')
    BY <1>1, <2>1, RestContinues
  <2> QED
    BY <1>2, <2>2, StepAdvances
<1>3. CASE OpenPulls = {} /\ Becomes(j, [job[j] EXCEPT !.pc = "issue"])
  <2> DEFINE r == [job[j] EXCEPT !.pc = "issue"]
  <2>1. /\ r \in JobStates /\ r.pc = "issue" /\ r.at = job[j].at
        /\ r.report = job[j].report /\ r.patch = job[j].patch /\ r.outcome = job[j].outcome
    BY <1>1 DEF JobStates, Stages
  <2>2. Continues(j, r, pulls')
    BY <1>1, <2>1, FailureContinues
  <2> QED
    BY <1>3, <2>2, StepAdvances
<1>4. CASE OpenPulls # {} /\ Becomes(j, Notified(j, OpenPulls))
  <2> DEFINE n == CHOOSE k \in OpenPulls : \A m \in OpenPulls : m <= k
             l == FailureLabel(job[j].outcome)
             r == [job[j] EXCEPT !.pc = "comment", !.want = l, !.pull = n]
  <2>1. n \in OpenPulls
    <3>1. OpenPulls \subseteq 1..Len(pulls) /\ Len(pulls) \in Nat
      BY <1>1 DEF OpenPulls
    <3>2. \E k \in OpenPulls : \A m \in OpenPulls : m <= k
      BY <1>4, <3>1, NewestExists
    <3> QED
      BY <3>2
  <2>2. n \in DOMAIN pulls /\ n \in Nat /\ l \in StatusLabels /\ "comment" \in Stages
    BY <1>1, <2>1 DEF OpenPulls, FailureLabel, StatusLabels, Stages
  <2>3. Notified(j, OpenPulls) = r
    BY <1>4 DEF Notified
  <2> HIDE DEF n, l
  <2>4. /\ r \in JobStates /\ r.pc = "comment" /\ r.at = job[j].at /\ r.pull = n
        /\ r.report = job[j].report /\ r.patch = job[j].patch /\ r.outcome = job[j].outcome
    BY <1>1, <2>2 DEF JobStates
  <2>5. Continues(j, r, pulls')
    BY <1>1, <2>2, <2>4, FailureContinues
  <2> QED
    BY <1>4, <2>3, <2>5, StepAdvances
<1> QED
  BY <1>2, <1>3, <1>4 DEF Notify, Notified

\* add_issue_comment.
LEMMA CommentAdvances ==
  ASSUME NEW j \in Jobs, Typed, Sound(job[j], pulls), Comment(j)
  PROVE  Advance(j) /\ PullsGrow
<1> DEFINE n == job[j].pull
           C == pulls[n].comments \cup {j}
           r == [job[j] EXCEPT !.pc = "label"]
<1>1. /\ job[j] \in JobStates /\ job[j].outcome \in {"FAILED", "ESCALATED"}
      /\ n \in DOMAIN pulls
  BY DEF Comment, create_issue_comment, At, Typed, Sound, Failing
<1>2. C \in SUBSET Jobs
  <2>1. pulls[n] \in Pulls
    BY <1>1 DEF Typed
  <2> QED
    BY <2>1 DEF Pulls
<1>3. PullsGrow
  <2>1. CASE pulls' = [pulls EXCEPT ![n].comments = C]
    BY <1>1, <1>2, <2>1, EditGrows
  <2> QED
    BY <2>1, SameGrows DEF Comment, create_issue_comment
<1>4. /\ r \in JobStates /\ r.pc = "label" /\ r.at = job[j].at /\ r.pull = n
      /\ r.report = job[j].report /\ r.patch = job[j].patch /\ r.outcome = job[j].outcome
  BY <1>1 DEF JobStates, Stages
<1>5. Continues(j, r, pulls')
  BY <1>1, <1>3, <1>4, FailureContinues DEF PullsGrow
<1>6. Becomes(j, r) \/ Suffers(j, r)
  BY DEF Comment, create_issue_comment
<1> QED
  BY <1>3, <1>5, <1>6, StepAdvances

\* create_issue.
LEMMA OpenIssueAdvances ==
  ASSUME NEW j \in Jobs, Typed, Sound(job[j], pulls), OpenIssue(j)
  PROVE  Advance(j)
<1> DEFINE r == [job[j] EXCEPT !.pc = "done"]
<1>1. job[j] \in JobStates /\ job[j].outcome \in {"FAILED", "ESCALATED"}
  BY DEF OpenIssue, create_issue, At, Typed, Sound, Failing
<1>2. /\ r \in JobStates /\ r.pc = "done" /\ r.at = job[j].at
      /\ r.report = job[j].report /\ r.patch = job[j].patch /\ r.outcome = job[j].outcome
  BY <1>1 DEF JobStates, Stages
<1>3. Continues(j, r, pulls')
  BY <1>1, <1>2, RestContinues
<1> QED
  BY <1>3, StepAdvances DEF OpenIssue, create_issue, Goes

\* A job that is cancelled has not delivered.
LEMMA CancelledAdvances ==
  ASSUME NEW j \in Jobs, Typed, Sound(job[j], pulls), Cancelled(j)
  PROVE  Advance(j)
<1> DEFINE r == [job[j] EXCEPT !.pc = "gone"]
<1>1. job[j] \in JobStates /\ job[j].outcome # "PR_CREATED"
  BY DEF Cancelled, Typed, Sound
<1>2. /\ r \in JobStates /\ r.pc = "gone" /\ r.at = job[j].at
      /\ r.report = job[j].report /\ r.patch = job[j].patch /\ r.outcome = job[j].outcome
  BY <1>1 DEF JobStates, Stages
<1>3. Continues(j, r, pulls')
  BY <1>1, <1>2, RestContinues
<1> QED
  BY <1>3, StepAdvances DEF Cancelled

-----------------------------------------------------------------------------
(* The invariant *)

\* Whatever a job does, its record stays sound and the pull requests grow.
LEMMA StepsAdvance ==
  ASSUME NEW j \in Jobs, Typed, Sound(job[j], pulls), Step(j) \/ Cancelled(j)
  PROVE  Advance(j) /\ PullsGrow
<1>1. CASE Match(j)
  BY <1>1, MatchAdvances, SameGrows DEF Match, GitHubUnchanged
<1>2. CASE EnsureLabels(j)
  BY <1>2, EnsureLabelsAdvances, SameGrows DEF EnsureLabels, GitHubUnchanged
<1>3. CASE Reconcile(j)
  BY <1>3, ReconcileAdvances, SameGrows DEF Reconcile, GitHubUnchanged
<1>4. CASE Fetch(j)
  BY <1>4, FetchAdvances, SameGrows DEF Fetch, GitHubUnchanged
<1>5. CASE Checkout(j)
  BY <1>5, CheckoutAdvances, SameGrows DEF Checkout, GitHubUnchanged
<1>6. CASE Verify(j)
  BY <1>6, VerifyAdvances, SameGrows DEF Verify, GitHubUnchanged
<1>7. CASE Push(j)
  BY <1>7, PushAdvances, SameGrows DEF Push
<1>8. CASE CreatePull(j)
  BY <1>8, CreatePullAdvances
<1>9. CASE Raced(j)
  BY <1>9, RacedAdvances, SameGrows DEF Raced, GitHubUnchanged
<1>10. CASE AddLabel(j)
  BY <1>10, AddLabelAdvances, LabelGrows
<1>11. CASE RemoveLabel(j)
  BY <1>11, RemoveLabelAdvances, LabelGrows
<1>12. CASE Notify(j)
  BY <1>12, NotifyAdvances, SameGrows DEF Notify, GitHubUnchanged
<1>13. CASE Comment(j)
  BY <1>13, CommentAdvances
<1>14. CASE OpenIssue(j)
  BY <1>14, OpenIssueAdvances, SameGrows DEF OpenIssue, create_issue
<1>15. CASE Cancelled(j)
  BY <1>15, CancelledAdvances, SameGrows DEF Cancelled, GitHubUnchanged
<1> QED
  BY <1>1, <1>2, <1>3, <1>4, <1>5, <1>6, <1>7, <1>8, <1>9, <1>10, <1>11, <1>12, <1>13,
     <1>14, <1>15 DEF Step

\* What a step of job j may do to the rest of the world: count a failure, push
\* onto what it extends, open its issue.
Acts(j) ==
  /\ UNCHANGED faults \/ (faults < MaxFaults /\ faults' = faults + 1)
  /\ UNCHANGED remote
       \/ (At(j, "push") /\ Extends(remote, j) /\ remote' = HeadCommit(j))
  /\ issues' \in {issues, issues \cup {j}}
  /\ UNCHANGED <<base, touches>>

\* The steps of a job keep to that.
LEMMA StepsAct ==
  ASSUME NEW j \in Jobs, Start(j) \/ Step(j) \/ Cancelled(j)
  PROVE  Acts(j)
<1>1. ASSUME NEW r, Becomes(j, r) \/ Suffers(j, r)
      PROVE  UNCHANGED faults \/ (faults < MaxFaults /\ faults' = faults + 1)
  BY <1>1 DEF Becomes, Suffers
<1>2. \A c : CallFails(j, c) => Suffers(j, Raised(j, c, "FAILED"))
  BY DEF CallFails
<1>3. \A c : Escalates(j, c) => Becomes(j, Raised(j, c, "ESCALATED"))
  BY DEF Escalates
<1>4. \A st : Goes(j, st) => Becomes(j, [job[j] EXCEPT !.pc = st])
  BY DEF Goes
<1>5. CASE Start(j)
  BY <1>1, <1>5 DEF Start, Acts, GitHubUnchanged
<1>6. CASE Match(j) \/ EnsureLabels(j) \/ Reconcile(j) \/ Raced(j)
  BY <1>1, <1>2, <1>3, <1>4, <1>6
     DEF Match, EnsureLabels, Reconcile, Raced, Acts, GitHubUnchanged
<1>7. CASE Fetch(j) \/ Checkout(j) \/ Verify(j)
  BY <1>1, <1>2, <1>3, <1>4, <1>7
     DEF Fetch, Checkout, CheckoutExisting, Verify, Acts, GitHubUnchanged
<1>8. CASE Push(j)
  BY <1>1, <1>2, <1>3, <1>4, <1>8 DEF Push, push_branch_accepts, Acts
<1>9. CASE CreatePull(j)
  BY <1>1, <1>2, <1>4, <1>9 DEF CreatePull, create_pull, Acts
<1>10. CASE AddLabel(j) \/ RemoveLabel(j)
  BY <1>1, <1>2, <1>10 DEF AddLabel, RemoveLabel, LabelFails, Acts
<1>11. CASE Notify(j) \/ Comment(j) \/ OpenIssue(j) \/ Cancelled(j)
  BY <1>1, <1>4, <1>11 DEF Notify, Comment, create_issue_comment, OpenIssue,
       create_issue, Cancelled, Acts, GitHubUnchanged
<1> QED
  BY <1>5, <1>6, <1>7, <1>8, <1>9, <1>10, <1>11 DEF Step

\* The commit a job pushes is its own, or a base commit.
LEMMA HeadIsOwn ==
  ASSUME NEW j \in Jobs, Typed
  PROVE  /\ HeadCommit(j) \in {j} \cup BaseCommits /\ HeadCommit(j) \in Tips
         /\ HeadCommit(j) = j => job[j].patch # "empty"
<1>1. job[j].at \in BaseCommits
  BY DEF Typed, JobStates
<1>2. j \notin BaseCommits
  BY JobsAssumption
<1> QED
  BY <1>1, <1>2 DEF HeadCommit, Tips

\* A step of a started job preserves the invariant.
LEMMA JobPreserves ==
  ASSUME NEW j \in Jobs, IInv, Step(j) \/ Cancelled(j)
  PROVE  IInv'
<1>1. Typed /\ Pushed /\ (\A k \in Jobs : Sound(job[k], pulls)) /\ Acts(j)
  BY StepsAct DEF IInv
<1>2. PICK r : Continues(j, r, pulls') /\ job' = [job EXCEPT ![j] = r]
  BY <1>1, StepsAdvance DEF Advance
<1>3. PullsGrow
  BY <1>1, StepsAdvance
<1>4. job'[j] = r /\ (\A k \in Jobs \ {j} : job'[k] = job[k]) /\ r \in JobStates
  BY <1>1, <1>2 DEF Typed, Continues
<1>5. Typed'
  <2>1. remote' \in Tips
    BY <1>1, HeadIsOwn DEF Acts, Typed
  <2>2. job' \in [Jobs -> JobStates]
    BY <1>1, <1>2, <1>4 DEF Typed
  <2>3. faults' \in 0..MaxFaults
    BY <1>1, BoundsAssumption DEF Acts, Typed
  <2> QED
    BY <1>1, <1>3, <2>1, <2>2, <2>3 DEF Typed, Acts, PullsGrow
<1>6. Pushed'
  <2>1. \A k \in Jobs :
          /\ job'[k].report = job[k].report /\ job'[k].patch = job[k].patch
          /\ job[k].pc # "idle" => job'[k].pc # "idle"
    BY <1>2, <1>4 DEF Continues
  <2>2. CASE UNCHANGED remote
    BY <1>1, <2>1, <2>2 DEF Pushed
  <2>3. CASE At(j, "push") /\ remote' = HeadCommit(j)
    <3>1. /\ job[j].report = "passed" /\ job[j].patch # "bad" /\ job[j].pc = "push"
          /\ job[j].patch \in Patch
      BY <1>1, <2>3 DEF At, Sound, PastReport, PastVerify, Typed, JobStates
    <3>2. remote' \in Jobs => remote' = j /\ job[j].patch = "good"
      BY <1>1, <2>3, <3>1, HeadIsOwn, JobsAssumption DEF Patch
    <3> QED
      BY <2>1, <3>1, <3>2 DEF Pushed
  <2> QED
    BY <1>1, <2>2, <2>3 DEF Acts
<1>7. \A k \in Jobs : Sound(job'[k], pulls')
  BY <1>1, <1>2, <1>3, <1>4, GrowthKeepsSound DEF Continues
<1> QED
  BY <1>5, <1>6, <1>7 DEF IInv

\* The start of a job preserves it: nothing of the job is on the branch yet.
LEMMA StartPreserves ==
  ASSUME NEW j \in Jobs, IInv, Start(j)
  PROVE  IInv'
<1>1. /\ Typed /\ Pushed /\ (\A k \in Jobs : Sound(job[k], pulls)) /\ Acts(j)
      /\ remote' = remote /\ pulls' = pulls
  BY StepsAct DEF IInv, Start, GitHubUnchanged
<1>2. PICK c \in 1..base, rep \in {"passed", "FAILED", "ESCALATED"}, p \in Patch :
        Becomes(j, [NewJob EXCEPT !.pc = "match", !.at = c, !.report = rep, !.patch = p,
                                  !.seen = remote])
  BY DEF Start
<1> DEFINE r == [NewJob EXCEPT !.pc = "match", !.at = c, !.report = rep, !.patch = p,
                               !.seen = remote]
<1>3. c \in BaseCommits /\ remote \in Tips
  BY <1>1, BoundsAssumption DEF Typed, BaseCommits
<1>4. NewJob \in JobStates
  BY BoundsAssumption
     DEF NewJob, JobStates, Stages, BaseCommits, Patch, Tips, StatusLabels, OtherCodes
<1>5. r \in JobStates /\ r.pc = "match" /\ r.outcome = "none"
  <2>1. "match" \in Stages /\ NewJob.outcome = "none"
    BY DEF Stages, NewJob
  <2> QED
    BY <1>3, <1>4, <2>1 DEF JobStates
<1>6. job' = [job EXCEPT ![j] = r]
  BY <1>2 DEF Becomes
<1> HIDE DEF r
<1>7. job'[j] = r /\ (\A k \in Jobs \ {j} : job'[k] = job[k])
  BY <1>1, <1>6 DEF Typed
<1>8. Typed'
  <2>1. job' \in [Jobs -> JobStates]
    BY <1>1, <1>5, <1>6 DEF Typed
  <2>2. faults' \in 0..MaxFaults
    BY <1>1, BoundsAssumption DEF Acts, Typed
  <2> QED
    BY <1>1, <2>1, <2>2 DEF Typed, Acts
<1>9. Pushed'
  <2>1. remote # j
    BY <1>1 DEF Pushed, Start, At
  <2> QED
    BY <1>1, <1>7, <2>1 DEF Pushed
<1>10. Sound(r, pulls)
  BY <1>5 DEF Sound, Delivering, PastReport, PastVerify, Failing
<1> QED
  BY <1>1, <1>7, <1>8, <1>9, <1>10 DEF IInv

\* What people do leaves the jobs alone, moves the branch to no job's commit, and
\* makes the pull requests grow.
LEMMA PeopleSteps ==
  ASSUME Typed, People
  PROVE  /\ UNCHANGED <<issues, job, faults>>
         /\ base' \in BaseCommits /\ touches' \in 0..MaxTouches
         /\ UNCHANGED remote \/ remote' \in {Absent, Foreign} \cup BaseCommits
         /\ remote \in Jobs \cup {Foreign} => UNCHANGED remote \/ remote' \in {Absent, Foreign}
         /\ PullsGrow
<1>1. base \in 1..NumCommits /\ touches \in 0..MaxTouches /\ pulls \in Seq(Pulls)
  BY DEF Typed, BaseCommits
<1>2. Touch => touches' \in 0..MaxTouches /\ UNCHANGED <<base, issues, job, faults>>
  BY <1>1, BoundsAssumption DEF Touch
<1>3. CASE PushSpec
  BY <1>1, <1>3, BoundsAssumption, SameGrows DEF PushSpec, GitHubUnchanged, BaseCommits
<1>4. CASE MakeBranch
  <2>1. remote = Absent /\ remote' \in BaseCommits
    BY <1>1, <1>4, BoundsAssumption DEF MakeBranch, BaseCommits
  <2>2. remote \notin Jobs \cup {Foreign}
    BY <2>1, JobsAssumption
  <2> QED
    BY <1>1, <1>2, <1>4, <2>1, <2>2, SameGrows DEF MakeBranch, BaseCommits
<1>5. CASE DropBranch \/ PushCommit
  BY <1>1, <1>2, <1>5, SameGrows DEF DropBranch, PushCommit, BaseCommits
<1>6. CASE OpenByHand
  <2>1. PICK b \in BaseBranches : pulls' = Append(pulls, NewPull(Foreign, b))
    BY <1>6 DEF OpenByHand
  <2>2. NewPull(Foreign, b) \in Pulls
    BY DEF NewPull, Pulls
  <2>3. PullsGrow
    BY <2>1, <2>2, AppendGrows
  <2> QED
    BY <1>1, <1>2, <1>6, <2>3 DEF OpenByHand, BaseCommits
<1>7. ASSUME NEW n \in DOMAIN pulls, NEW delete \in BOOLEAN, Close(n, delete)
      PROVE  PullsGrow /\ Touch /\ (UNCHANGED remote \/ remote' = Absent)
  <2>1. CASE pulls' = [m \in DOMAIN pulls |-> [pulls[m] EXCEPT !.open = FALSE]]
    <3> DEFINE q == [m \in DOMAIN pulls |-> [pulls[m] EXCEPT !.open = FALSE]]
    <3>1. \A m \in DOMAIN pulls : pulls[m] \in Pulls
      BY <1>1
    <3>2. \A m \in DOMAIN pulls : q[m] \in Pulls /\ q[m].work = pulls[m].work
      BY <3>1 DEF Pulls
    <3>3. q = [m \in DOMAIN pulls |-> q[m]]
      OBVIOUS
    <3> HIDE DEF q
    <3>4. PullsGrow
      BY <2>1, <3>2, <3>3, RewriteGrows DEF q
    <3> QED
      BY <1>7, <3>4 DEF Close
  <2>2. CASE pulls' = [pulls EXCEPT ![n].open = FALSE]
    <3>1. PullsGrow
      BY <2>2, EditGrows
    <3> QED
      BY <1>7, <3>1 DEF Close
  <2> QED
    BY <1>7, <2>1, <2>2 DEF Close
<1>8. CASE \E n \in DOMAIN pulls, delete \in BOOLEAN : Close(n, delete)
  BY <1>1, <1>2, <1>7, <1>8 DEF Touch, BaseCommits
<1> QED
  BY <1>3, <1>4, <1>5, <1>6, <1>8 DEF People

\* Every step preserves the invariant.
LEMMA NextPreserves ==
  ASSUME IInv, [Next]_vars
  PROVE  IInv'
<1>1. CASE UNCHANGED vars
  BY <1>1 DEF vars, IInv, Typed, Pushed, Sound
<1>2. CASE People
  <2>1. Typed /\ Pushed /\ (\A k \in Jobs : Sound(job[k], pulls))
    BY DEF IInv
  <2>2. /\ UNCHANGED <<issues, job, faults>>
        /\ base' \in BaseCommits /\ touches' \in 0..MaxTouches
        /\ UNCHANGED remote \/ remote' \in {Absent, Foreign} \cup BaseCommits
        /\ PullsGrow
    BY <1>2, <2>1, PeopleSteps
  <2>3. Typed'
    BY <2>1, <2>2 DEF Typed, Tips, PullsGrow
  <2>4. UNCHANGED remote \/ remote' \notin Jobs
    BY <2>2, JobsAssumption
  <2>5. Pushed'
    BY <2>1, <2>2, <2>4 DEF Pushed
  <2>6. \A k \in Jobs : Sound(job'[k], pulls')
    BY <2>1, <2>2, GrowthKeepsSound
  <2> QED
    BY <2>3, <2>5, <2>6 DEF IInv
<1>3. ASSUME NEW j \in Jobs, Start(j)
      PROVE  IInv'
  BY <1>3, StartPreserves
<1>4. ASSUME NEW j \in Jobs, Step(j) \/ Cancelled(j)
      PROVE  IInv'
  BY <1>4, JobPreserves
<1> QED
  BY <1>1, <1>2, <1>3, <1>4 DEF Next, Quiet

\* The invariant holds for any set of jobs, base commits and bounds.
LEMMA IInvInvariant == Spec => []IInv
<1>1. Init => IInv
  <2> SUFFICES ASSUME Init PROVE IInv
    OBVIOUS
  <2>1. NewJob \in JobStates
    BY BoundsAssumption
       DEF NewJob, JobStates, Stages, BaseCommits, Patch, Tips, StatusLabels, OtherCodes
  <2>2. Typed
    BY <2>1, BoundsAssumption DEF Init, Typed, Tips, BaseCommits
  <2>3. Pushed
    BY JobsAssumption DEF Init, Pushed
  <2>4. \A j \in Jobs : Sound(job[j], pulls)
    BY DEF Init, NewJob, Sound, Delivering, PastReport, PastVerify, Failing
  <2> QED
    BY <2>2, <2>3, <2>4 DEF IInv
<1> QED
  BY <1>1, NextPreserves, PTL DEF Spec

-----------------------------------------------------------------------------
(* Theorems *)

\* Every reachable state of every instance is well typed; in particular a job
\* that labels, comments or has delivered holds the number of a pull request.
THEOREM TypeCorrect == Spec => []TypeOK
<1>1. IInv => TypeOK
  BY DEF IInv, Typed, Sound, TypeOK
<1> QED
  BY <1>1, IInvInvariant, PTL

\* Whatever runs race for the branch, a commit of the pipeline on it comes from
\* a report of success and from a patch judged again on the real tree.
THEOREM OnlyVerifiedWorkHolds == Spec => []OnlyVerifiedWork
<1>1. IInv => OnlyVerifiedWork
  BY DEF IInv, Pushed, OnlyVerifiedWork
<1> QED
  BY <1>1, IInvInvariant, PTL

\* A run that reports PR_CREATED names a pull request made for its Task Spec.
THEOREM CreatedIsOursHolds == Spec => []CreatedIsOurs
<1>1. IInv => CreatedIsOurs
  BY DEF IInv, Sound, CreatedIsOurs, SpecOf
<1> QED
  BY <1>1, IInvInvariant, PTL

\* No step of any job replaces work on the branch by anything else.
LEMMA WorkStays ==
  ASSUME Typed, [Next]_vars, remote' # remote, remote \in Jobs \cup {Foreign}
  PROVE  remote' \in {Absent, Foreign}
<1>1. CASE People
  BY <1>1, PeopleSteps
<1>2. ASSUME NEW j \in Jobs, Acts(j)
      PROVE  FALSE
  <2>1. Extends(remote, j) /\ remote' = HeadCommit(j)
    BY <1>2 DEF Acts
  <2>2. remote \notin BaseCommits /\ remote # Absent
    BY JobsAssumption
  <2> QED
    BY <2>1, <2>2 DEF Extends, ParentOf
<1> QED
  BY <1>1, <1>2, StepsAct DEF Next, Quiet, vars

\* No push of the pipeline, in any interleaving of its jobs, overwrites a commit
\* of a job or of a person.
THEOREM WorkIsNeverOverwrittenHolds == Spec => WorkIsNeverOverwritten
<1>1. IInv /\ [Next]_vars
        => [remote' # remote /\ remote \in Jobs \cup {Foreign}
              => remote' \in {Absent, Foreign}]_vars
  BY WorkStays DEF IInv
<1> QED
  BY <1>1, IInvInvariant, PTL DEF Spec, WorkIsNeverOverwritten

-----------------------------------------------------------------------------
(* Every job ends *)

\* The steps a job with record r may still take: the stages of a delivery, and behind
\* them those of its notification, with three labels to remove in each.
LabelsLeft(r) == IF r.todo = {} THEN 1 ELSE Cardinality(r.todo)

StepsLeft(r) ==
  IF r.pc \in {"label", "unlabel"}
  THEN (IF r.outcome = "none" THEN 6 ELSE 0) + (IF r.pc = "label" THEN 4 ELSE LabelsLeft(r))
  ELSE [match |-> 19, ensure |-> 18, reconcile |-> 17, fetch |-> 16, checkout |-> 15,
        verify |-> 14, push |-> 13, create |-> 12, raced |-> 11, notify |-> 6,
        comment |-> 5, issue |-> 1, done |-> 0, gone |-> 0, idle |-> 20][r.pc]

\* Every step of a job that has started brings it closer to its end, by whichever branch
\* it takes, and nothing else that anyone does changes how far it is.
DeliveryIsBounded ==
  [][\A j \in Jobs : \/ At(j, "idle")
                     \/ job'[j] = job[j] /\ ~Step(j)
                     \/ StepsLeft(job'[j]) < StepsLeft(job[j])]_vars

LEMMA StepsLeftAt ==
  /\ \A r : r.pc = "match" => StepsLeft(r) = 19
  /\ \A r : r.pc = "ensure" => StepsLeft(r) = 18
  /\ \A r : r.pc = "reconcile" => StepsLeft(r) = 17
  /\ \A r : r.pc = "fetch" => StepsLeft(r) = 16
  /\ \A r : r.pc = "checkout" => StepsLeft(r) = 15
  /\ \A r : r.pc = "verify" => StepsLeft(r) = 14
  /\ \A r : r.pc = "push" => StepsLeft(r) = 13
  /\ \A r : r.pc = "create" => StepsLeft(r) = 12
  /\ \A r : r.pc = "raced" => StepsLeft(r) = 11
  /\ \A r : r.pc = "notify" => StepsLeft(r) = 6
  /\ \A r : r.pc = "comment" => StepsLeft(r) = 5
  /\ \A r : r.pc = "issue" => StepsLeft(r) = 1
  /\ \A r : r.pc = "done" => StepsLeft(r) = 0
  /\ \A r : r.pc = "gone" => StepsLeft(r) = 0
  /\ \A r : r.pc = "idle" => StepsLeft(r) = 20
  /\ \A r : r.pc = "label" => StepsLeft(r) = IF r.outcome = "none" THEN 10 ELSE 4
  /\ \A r : r.pc = "unlabel" => StepsLeft(r) = (IF r.outcome = "none" THEN 6 ELSE 0) + LabelsLeft(r)
BY DEF StepsLeft

\* There are three labels to remove at most.
LEMMA LabelCounts ==
  /\ \A l \in StatusLabels : OtherLabels(l) # {} /\ Cardinality(OtherLabels(l)) = 3
  /\ \A T \in SUBSET StatusLabels : IsFiniteSet(T) /\ Cardinality(T) \in Nat
  /\ \A T \in SUBSET StatusLabels : Cardinality(T) <= 4
<1> DEFINE a == "agent:review"
           b == "agent:ready"
           c == "agent:escalated"
           d == "agent:failed"
<1>1. StatusLabels = {a, b, c, d} /\ a # b /\ a # c /\ a # d /\ b # c /\ b # d /\ c # d
  BY DEF StatusLabels
<1> HIDE DEF a, b, c, d
<1>2. IsFiniteSet({a}) /\ Cardinality({a}) = 1
  BY FS_Singleton
<1>3. IsFiniteSet({a} \cup {b}) /\ Cardinality({a} \cup {b}) = 2
  BY <1>1, <1>2, FS_AddElement
<1>4. c \notin {a} \cup {b}
  BY <1>1
<1>5. IsFiniteSet(({a} \cup {b}) \cup {c}) /\ Cardinality(({a} \cup {b}) \cup {c}) = 3
  BY <1>3, <1>4, FS_AddElement
<1>6. d \notin ({a} \cup {b}) \cup {c}
  BY <1>1
<1>7. /\ IsFiniteSet((({a} \cup {b}) \cup {c}) \cup {d})
      /\ Cardinality((({a} \cup {b}) \cup {c}) \cup {d}) = 4
  BY <1>5, <1>6, FS_AddElement
<1>8. (({a} \cup {b}) \cup {c}) \cup {d} = StatusLabels
  BY <1>1
<1>9. IsFiniteSet(StatusLabels) /\ Cardinality(StatusLabels) = 4
  BY <1>7, <1>8
<1>10. \A l \in StatusLabels : OtherLabels(l) # {} /\ Cardinality(OtherLabels(l)) = 3
  <2> TAKE l \in StatusLabels
  <2>1. Cardinality(StatusLabels \ {l}) = 3
    BY <1>9, FS_RemoveElement
  <2>2. StatusLabels \ {l} # {}
    BY <1>1
  <2> QED
    BY <2>1, <2>2 DEF OtherLabels
<1>11. \A T \in SUBSET StatusLabels : IsFiniteSet(T) /\ Cardinality(T) \in Nat /\ Cardinality(T) <= 4
  <2> TAKE T \in SUBSET StatusLabels
  <2>1. IsFiniteSet(T) /\ Cardinality(T) <= 4
    BY <1>9, FS_Subset
  <2> QED
    BY <2>1, FS_CardinalityType
<1> QED
  BY <1>10, <1>11

\* The record a job gets, by a call that worked or failed, has as many steps left.
LEMMA LeftAfter ==
  ASSUME NEW j \in Jobs, job \in [Jobs -> JobStates], NEW r \in JobStates,
         Becomes(j, r) \/ Suffers(j, r), StepsLeft(r) < StepsLeft(job[j])
  PROVE  StepsLeft(job'[j]) < StepsLeft(job[j])
<1> DEFINE h == [r EXCEPT !.hurt = TRUE]
<1>1. h.pc = r.pc /\ h.outcome = r.outcome /\ h.todo = r.todo
  BY DEF JobStates
<1>2. StepsLeft(h) = StepsLeft(r)
  BY <1>1 DEF StepsLeft, LabelsLeft
<1>3. job'[j] = r \/ job'[j] = h
  BY DEF Becomes, Suffers
<1> HIDE DEF h
<1> QED
  BY <1>2, <1>3

Further(j) == StepsLeft(job'[j]) < StepsLeft(job[j])

\* A stage of the delivery is followed by a later one.
LEMMA GoesFurther ==
  ASSUME NEW j \in Jobs, job \in [Jobs -> JobStates], NEW stage \in Stages \ {"unlabel", "label"},
         NEW t \in Tips,
         \/ Goes(j, stage)
         \/ Becomes(j, [job[j] EXCEPT !.pc = stage, !.seen = t])
         \/ Suffers(j, [job[j] EXCEPT !.pc = stage]),
         \A r : r.pc = stage => StepsLeft(r) < StepsLeft(job[j])
  PROVE  Further(j)
<1> DEFINE p == [job[j] EXCEPT !.pc = stage]
           q == [job[j] EXCEPT !.pc = stage, !.seen = t]
<1>1. job[j] \in JobStates
  OBVIOUS
<1>2. p \in JobStates /\ p.pc = stage
  BY <1>1 DEF JobStates
<1>3. q \in JobStates /\ q.pc = stage
  BY <1>1 DEF JobStates
<1>4. StepsLeft(p) < StepsLeft(job[j]) /\ StepsLeft(q) < StepsLeft(job[j])
  BY <1>2, <1>3
<1>5. Becomes(j, p) \/ Becomes(j, q) \/ Suffers(j, p)
  BY DEF Goes
<1> HIDE DEF p, q
<1> QED
  BY <1>2, <1>3, <1>4, <1>5, LeftAfter DEF Further

\* An exception leaves the notification.
LEMMA RaisedFurther ==
  ASSUME NEW j \in Jobs, Typed, NEW code \in RETRYABLE_CODES \cup ESCALATE_CODES \cup OtherCodes,
         NEW category \in {"FAILED", "ESCALATED"},
         \/ Becomes(j, Raised(j, code, category)) \/ Suffers(j, Raised(j, code, category)),
         StepsLeft(job[j]) > 6
  PROVE  Further(j)
<1>1. Raised(j, code, category) \in JobStates
  BY RaisedContinues DEF Continues
<1>2. Raised(j, code, category).pc = "notify"
  <2>1. job[j] \in JobStates
    BY DEF Typed
  <2> QED
    BY <2>1 DEF Raised, JobStates
<1> DEFINE r == Raised(j, code, category)
<1>3. StepsLeft(r) = 6
  <2> HIDE DEF r
  <2>1. r.pc = "notify" => StepsLeft(r) = 6
    BY StepsLeftAt
  <2> QED
    BY <1>2, <2>1 DEF r
<1> QED
  BY <1>1, <1>3, LeftAfter DEF Further, Typed


LEMMA CodesAre ==
  /\ ESCALATE_CODES \cup RETRYABLE_CODES \cup OtherCodes = RETRYABLE_CODES \cup ESCALATE_CODES \cup OtherCodes
  /\ {"GITHUB_API_FAILURE", "GITHUB_API_VALIDATION", "GIT_FAILED", "GIT_PUSH_FAILED",
      "MISSING_GITHUB_TOKEN"} \subseteq RETRYABLE_CODES
  /\ {"UNSAFE_RECONCILE", "WORK_UNIT_PR_MISMATCH", "SPEC_IDENTITY_MISMATCH",
      "PATCH_DIGEST_MISMATCH", "BASE_SHA_MISMATCH", "PATCH_APPLY_FAILED",
      "COMMIT_SCOPE_VIOLATION", "NON_FAST_FORWARD"} \subseteq ESCALATE_CODES
  /\ "DELIVER_FINAL_VERIFICATION_FAILED" \in OtherCodes
BY DEF RETRYABLE_CODES, ESCALATE_CODES, OtherCodes

Codes == RETRYABLE_CODES \cup ESCALATE_CODES \cup OtherCodes

\* What fails before the notification leads to it.
LEMMA FailsFurther ==
  ASSUME NEW j \in Jobs, Typed, StepsLeft(job[j]) > 6,
         \E code \in Codes : Escalates(j, code) \/ CallFails(j, code)
  PROVE  Further(j)
<1>1. PICK code \in Codes : Escalates(j, code) \/ CallFails(j, code)
  OBVIOUS
<1>2. \/ Becomes(j, Raised(j, code, "ESCALATED")) \/ Suffers(j, Raised(j, code, "ESCALATED"))
      \/ Becomes(j, Raised(j, code, "FAILED")) \/ Suffers(j, Raised(j, code, "FAILED"))
  BY <1>1 DEF Escalates, CallFails
<1> QED
  BY <1>2, RaisedFurther DEF Codes

\* So does a reconciliation that finds no pull request of its own; one that finds it goes
\* on to its label.
LEMMA ReconciledFurther ==
  ASSUME NEW j \in Jobs, Typed, NEW open \in SUBSET DOMAIN pulls, NEW r \in JobStates,
         StepsLeft(job[j]) \in 11..19, job[j].outcome = "none",
         Becomes(j, Reconciled(j, open, r)), StepsLeft(r) < StepsLeft(job[j])
  PROVE  Further(j)
<1>1. \/ Becomes(j, r)
      \/ \E code \in Codes : Becomes(j, Raised(j, code, "ESCALATED"))
      \/ \E n \in DOMAIN pulls : Becomes(j, Labelling(j, n))
  <2>1. Reconciled(j, open, r) \in
          {r, Labelling(j, CHOOSE m \in open : TRUE)}
            \cup {Raised(j, code, "ESCALATED") : code \in Codes}
    <3>1. {"UNSAFE_RECONCILE", "WORK_UNIT_PR_MISMATCH", "SPEC_IDENTITY_MISMATCH"} \subseteq Codes
      BY CodesAre DEF Codes
    <3> QED
      BY <3>1 DEF Reconciled
  <2>2. CASE open = {}
    <3>1. Cardinality(open) = 0
      BY <2>2, FS_EmptySet
    <3>2. Reconciled(j, open, r) = r
      BY <2>2, <3>1 DEF Reconciled
    <3> QED
      BY <3>2
  <2>3. CASE open # {}
    <3>1. (CHOOSE m \in open : TRUE) \in DOMAIN pulls
      BY <2>3
    <3> QED
      BY <2>1, <3>1
  <2> QED
    BY <2>2, <2>3
<1>2. CASE Becomes(j, r)
  BY <1>2, LeftAfter DEF Further, Typed
<1>3. CASE \E code \in Codes : Becomes(j, Raised(j, code, "ESCALATED"))
  <2>1. PICK code \in Codes : Becomes(j, Raised(j, code, "ESCALATED"))
    BY <1>3
  <2>2. StepsLeft(job[j]) > 6
    OBVIOUS
  <2> QED
    BY <2>1, <2>2, RaisedFurther DEF Codes
<1>4. CASE \E n \in DOMAIN pulls : Becomes(j, Labelling(j, n))
  <2>1. PICK n \in DOMAIN pulls : Becomes(j, Labelling(j, n))
    BY <1>4
  <2> DEFINE l == Labelling(j, n)
  <2>2. job[j] \in JobStates /\ n \in Nat
    BY DEF Typed
  <2>3. l \in JobStates /\ l.pc = "label" /\ l.outcome = "none"
    <3>1. Absent \in Tips /\ "label" \in Stages /\ "agent:review" \in StatusLabels
      BY DEF Tips, Stages, StatusLabels
    <3> QED
      BY <2>2, <3>1 DEF Labelling, JobStates
  <2> HIDE DEF l
  <2>4. StepsLeft(l) = 10
    BY <2>3, StepsLeftAt
  <2> QED
    BY <2>1, <2>3, <2>4, LeftAfter DEF Further, Typed, l
<1> QED
  BY <1>1, <1>2, <1>3, <1>4

LEMMA OpenAreThere == OpenPulls \in SUBSET DOMAIN pulls
BY DEF OpenPulls

LEMMA MatchFurther ==
  ASSUME NEW j \in Jobs, Typed, Match(j)
  PROVE  Further(j)
<1>1. job[j].pc = "match" /\ job[j] \in JobStates
  BY DEF Match, At, Typed
<1>5. StepsLeft(job[j]) = 19
  BY <1>1, StepsLeftAt
<1>2. CASE Goes(j, "ensure")
  <2>1. \A r : r.pc = "ensure" => StepsLeft(r) < StepsLeft(job[j])
    BY <1>5, StepsLeftAt
  <2>2. "ensure" \in Stages \ {"unlabel", "label"} /\ Absent \in Tips
    BY DEF Stages, Tips
  <2> QED
    BY <1>2, <2>1, <2>2, GoesFurther DEF Typed
<1>3. CASE \E code \in {"SPEC_IDENTITY_MISMATCH", "PATCH_DIGEST_MISMATCH"} : Escalates(j, code)
  <2>1. {"SPEC_IDENTITY_MISMATCH", "PATCH_DIGEST_MISMATCH"} \subseteq Codes
    BY CodesAre DEF Codes
  <2> QED
    BY <1>3, <1>5, <2>1, FailsFurther
<1>4. CASE Suffers(j, [Raised(j, "MISSING_GITHUB_TOKEN", "FAILED") EXCEPT !.pc = "done"])
  <2> DEFINE r == Raised(j, "MISSING_GITHUB_TOKEN", "FAILED")
             d == [r EXCEPT !.pc = "done"]
  <2>1. r \in JobStates
    BY RaisedContinues, CodesAre DEF Continues
  <2> HIDE DEF r
  <2>2. d \in JobStates /\ d.pc = "done"
    BY <2>1 DEF JobStates, Stages
  <2>3. Suffers(j, d)
    BY <1>4 DEF r
  <2> HIDE DEF d
  <2>4. StepsLeft(d) = 0
    BY <2>2, StepsLeftAt
  <2> QED
    BY <1>5, <2>2, <2>3, <2>4, LeftAfter DEF Further, Typed
<1> QED
  BY <1>2, <1>3, <1>4 DEF Match


LEMMA EnsureLabelsFurther ==
  ASSUME NEW j \in Jobs, Typed, EnsureLabels(j)
  PROVE  Further(j)
<1>1. job[j].pc = "ensure"
  BY DEF EnsureLabels, At
<1>2. StepsLeft(job[j]) = 18
  BY <1>1, StepsLeftAt
<1>3. CASE Goes(j, "reconcile")
  <2>1. \A r : r.pc = "reconcile" => StepsLeft(r) < StepsLeft(job[j])
    BY <1>2, StepsLeftAt
  <2>2. "reconcile" \in Stages \ {"unlabel", "label"} /\ Absent \in Tips
    BY DEF Stages, Tips
  <2> QED
    BY <1>3, <2>1, <2>2, GoesFurther DEF Typed
<1>4. CASE CallFails(j, "GITHUB_API_FAILURE")
  <2>1. "GITHUB_API_FAILURE" \in Codes
    BY CodesAre DEF Codes
  <2> QED
    BY <1>2, <1>4, <2>1, FailsFurther
<1> QED
  BY <1>3, <1>4 DEF EnsureLabels

LEMMA ReconcileFurther ==
  ASSUME NEW j \in Jobs, Typed, Sound(job[j], pulls), Reconcile(j)
  PROVE  Further(j)
<1>1. job[j].pc = "reconcile" /\ job[j] \in JobStates
  BY DEF Reconcile, At, Typed
<1>2. StepsLeft(job[j]) = 17
  BY <1>1, StepsLeftAt
<1>3. job[j].outcome = "none"
  BY <1>1 DEF Sound, Delivering
<1>4. CASE Becomes(j, Reconciled(j, OpenPulls, NoPullFound(j)))
  <2> DEFINE r == NoPullFound(j)
  <2>1. CASE job[j].report = "passed"
    <3>1. r \in JobStates /\ r.pc = "fetch"
      BY <1>1, <2>1 DEF NoPullFound, JobStates, Stages
    <3> HIDE DEF r
    <3>2. StepsLeft(r) = 16
      BY <3>1, StepsLeftAt
    <3> QED
      BY <1>2, <1>3, <1>4, <3>1, <3>2, OpenAreThere, ReconciledFurther DEF r
  <2>2. CASE job[j].report # "passed"
    <3>1. r \in JobStates /\ r.pc = "notify"
      BY <1>1, <2>2 DEF NoPullFound, ReportFailure, JobStates, Stages, DeliveryOutcome, OtherCodes
    <3> HIDE DEF r
    <3>2. StepsLeft(r) = 6
      BY <3>1, StepsLeftAt
    <3> QED
      BY <1>2, <1>3, <1>4, <3>1, <3>2, OpenAreThere, ReconciledFurther DEF r
  <2> QED
    BY <2>1, <2>2
<1>5. CASE CallFails(j, "GITHUB_API_FAILURE")
  <2>1. "GITHUB_API_FAILURE" \in Codes
    BY CodesAre DEF Codes
  <2> QED
    BY <1>2, <1>5, <2>1, FailsFurther
<1> QED
  BY <1>4, <1>5 DEF Reconcile

LEMMA FetchFurther ==
  ASSUME NEW j \in Jobs, Typed, Fetch(j)
  PROVE  Further(j)
<1>1. job[j].pc = "fetch"
  BY DEF Fetch, At
<1>2. StepsLeft(job[j]) = 16
  BY <1>1, StepsLeftAt
<1>3. \A r : r.pc = "checkout" => StepsLeft(r) < StepsLeft(job[j])
  BY <1>2, StepsLeftAt
<1>4. "checkout" \in Stages \ {"unlabel", "label"} /\ remote \in Tips
  BY DEF Stages, Typed
<1>5. \/ Goes(j, "checkout")
      \/ Becomes(j, [job[j] EXCEPT !.pc = "checkout", !.seen = remote])
      \/ Suffers(j, [job[j] EXCEPT !.pc = "checkout"])
  BY DEF Fetch
<1> QED
  BY <1>3, <1>4, <1>5, GoesFurther DEF Typed

LEMMA CheckoutFurther ==
  ASSUME NEW j \in Jobs, Typed, Checkout(j)
  PROVE  Further(j)
<1>1. job[j].pc = "checkout"
  BY DEF Checkout, At
<1>2. StepsLeft(job[j]) = 15
  BY <1>1, StepsLeftAt
<1>3. CASE Goes(j, "verify")
  <2>1. \A r : r.pc = "verify" => StepsLeft(r) < StepsLeft(job[j])
    BY <1>2, StepsLeftAt
  <2>2. "verify" \in Stages \ {"unlabel", "label"} /\ Absent \in Tips
    BY DEF Stages, Tips
  <2> QED
    BY <1>3, <2>1, <2>2, GoesFurther DEF Typed
<1>4. CASE Becomes(j, Raised(j, "GIT_FAILED", "FAILED"))
  <2>1. "GIT_FAILED" \in Codes /\ StepsLeft(job[j]) > 6
    BY <1>2, CodesAre DEF Codes
  <2> QED
    BY <1>4, <2>1, RaisedFurther DEF Codes
<1>5. CASE Escalates(j, "BASE_SHA_MISMATCH") \/ CallFails(j, "GIT_FAILED")
  <2>1. "BASE_SHA_MISMATCH" \in Codes /\ "GIT_FAILED" \in Codes
    BY CodesAre DEF Codes
  <2> QED
    BY <1>2, <1>5, <2>1, FailsFurther
<1> QED
  BY <1>3, <1>4, <1>5 DEF Checkout, CheckoutExisting

LEMMA VerifyFurther ==
  ASSUME NEW j \in Jobs, Typed, Verify(j)
  PROVE  Further(j)
<1>1. job[j].pc = "verify"
  BY DEF Verify, At
<1>2. StepsLeft(job[j]) = 14
  BY <1>1, StepsLeftAt
<1>3. CASE Goes(j, "push")
  <2>1. \A r : r.pc = "push" => StepsLeft(r) < StepsLeft(job[j])
    BY <1>2, StepsLeftAt
  <2>2. "push" \in Stages \ {"unlabel", "label"} /\ Absent \in Tips
    BY DEF Stages, Tips
  <2> QED
    BY <1>3, <2>1, <2>2, GoesFurther DEF Typed
<1>4. CASE \E code \in Codes : Escalates(j, code) \/ CallFails(j, code)
  BY <1>2, <1>4, FailsFurther
<1>5. {"PATCH_APPLY_FAILED", "COMMIT_SCOPE_VIOLATION", "DELIVER_FINAL_VERIFICATION_FAILED"} \subseteq Codes
  BY CodesAre DEF Codes
<1> QED
  BY <1>3, <1>4, <1>5 DEF Verify

LEMMA PushFurther ==
  ASSUME NEW j \in Jobs, Typed, Push(j)
  PROVE  Further(j)
<1>1. job[j].pc = "push"
  BY DEF Push, At
<1>2. StepsLeft(job[j]) = 13
  BY <1>1, StepsLeftAt
<1>3. CASE Goes(j, "create")
  <2>1. \A r : r.pc = "create" => StepsLeft(r) < StepsLeft(job[j])
    BY <1>2, StepsLeftAt
  <2>2. "create" \in Stages \ {"unlabel", "label"} /\ Absent \in Tips
    BY DEF Stages, Tips
  <2> QED
    BY <1>3, <2>1, <2>2, GoesFurther DEF Typed
<1>4. CASE \E code \in Codes : Escalates(j, code) \/ CallFails(j, code)
  BY <1>2, <1>4, FailsFurther
<1>5. {"GIT_PUSH_FAILED", "NON_FAST_FORWARD"} \subseteq Codes
  BY CodesAre DEF Codes
<1> QED
  BY <1>3, <1>4, <1>5 DEF Push

LEMMA CreatePullFurther ==
  ASSUME NEW j \in Jobs, Typed, Sound(job[j], pulls), CreatePull(j)
  PROVE  Further(j)
<1>1. job[j].pc = "create" /\ job[j] \in JobStates
  BY DEF CreatePull, At, Typed
<1>2. StepsLeft(job[j]) = 12
  BY <1>1, StepsLeftAt
<1>3. job[j].outcome = "none"
  BY <1>1 DEF Sound, Delivering
<1>4. CASE Goes(j, "raced")
  <2>1. \A r : r.pc = "raced" => StepsLeft(r) < StepsLeft(job[j])
    BY <1>2, StepsLeftAt
  <2>2. "raced" \in Stages \ {"unlabel", "label"} /\ Absent \in Tips
    BY DEF Stages, Tips
  <2> QED
    BY <1>4, <2>1, <2>2, GoesFurther DEF Typed
<1>5. CASE CallFails(j, "GITHUB_API_FAILURE")
  <2>1. "GITHUB_API_FAILURE" \in Codes
    BY CodesAre DEF Codes
  <2> QED
    BY <1>2, <1>5, <2>1, FailsFurther
<1> DEFINE added == create_pull(SpecOf(j), BaseOf[SpecOf(j)])
<1>6. CASE Becomes(j, Labelling(j, Len(added)))
  <2>1. Len(added) \in Nat
    BY DEF Typed, create_pull
  <2> HIDE DEF added
  <2> DEFINE l == Labelling(j, Len(added))
  <2>2. l \in JobStates /\ l.pc = "label" /\ l.outcome = "none"
    <3>1. Absent \in Tips /\ "label" \in Stages /\ "agent:review" \in StatusLabels
      BY DEF Tips, Stages, StatusLabels
    <3> QED
      BY <1>1, <1>3, <2>1, <3>1 DEF Labelling, JobStates
  <2> HIDE DEF l
  <2>3. StepsLeft(l) = 10
    BY <2>2, StepsLeftAt
  <2> QED
    BY <1>2, <1>6, <2>2, <2>3, LeftAfter DEF Further, Typed, l
<1> QED
  BY <1>4, <1>5, <1>6 DEF CreatePull

LEMMA RacedFurther ==
  ASSUME NEW j \in Jobs, Typed, Sound(job[j], pulls), Raced(j)
  PROVE  Further(j)
<1>1. job[j].pc = "raced"
  BY DEF Raced, At
<1>2. StepsLeft(job[j]) = 11
  BY <1>1, StepsLeftAt
<1>3. job[j].outcome = "none"
  BY <1>1 DEF Sound, Delivering
<1>4. CASE Becomes(j, Reconciled(j, OpenPulls, Raised(j, "GITHUB_API_VALIDATION", "FAILED")))
  <2> DEFINE r == Raised(j, "GITHUB_API_VALIDATION", "FAILED")
  <2>1. r \in JobStates
    BY RaisedContinues, CodesAre DEF Continues
  <2>2. r.pc = "notify"
    <3>1. job[j] \in JobStates
      BY DEF Typed
    <3> QED
      BY <3>1 DEF Raised, JobStates
  <2> HIDE DEF r
  <2>3. StepsLeft(r) = 6
    BY <2>2, StepsLeftAt
  <2> QED
    BY <1>2, <1>3, <1>4, <2>1, <2>3, OpenAreThere, ReconciledFurther DEF r
<1>5. CASE CallFails(j, "GITHUB_API_FAILURE")
  <2>1. "GITHUB_API_FAILURE" \in Codes
    BY CodesAre DEF Codes
  <2> QED
    BY <1>2, <1>5, <2>1, FailsFurther
<1> QED
  BY <1>4, <1>5 DEF Raced


\* A call about a label that fails ends the notification, or leads to it.
LEMMA LabelFailsFurther ==
  ASSUME NEW j \in Jobs, Typed, LabelFails(j),
         StepsLeft(job[j]) \in Nat \ {0}, job[j].outcome = "none" => StepsLeft(job[j]) > 6
  PROVE  Further(j)
<1>1. CASE job[j].outcome = "none"
  <2>1. CallFails(j, "GITHUB_API_FAILURE") /\ "GITHUB_API_FAILURE" \in Codes
    BY <1>1, CodesAre DEF LabelFails, Codes
  <2> QED
    BY <1>1, <2>1, FailsFurther
<1>2. CASE job[j].outcome # "none"
  <2> DEFINE d == [job[j] EXCEPT !.pc = "done", !.todo = {}]
  <2>1. Suffers(j, d)
    BY <1>2 DEF LabelFails
  <2>2. d \in JobStates /\ d.pc = "done"
    <3>1. job[j] \in JobStates
      BY DEF Typed
    <3> QED
      BY <3>1 DEF JobStates, Stages
  <2> HIDE DEF d
  <2>3. StepsLeft(d) = 0
    BY <2>2, StepsLeftAt
  <2> QED
    BY <2>1, <2>2, <2>3, LeftAfter DEF Further, Typed
<1> QED
  BY <1>1, <1>2

LEMMA AddLabelFurther ==
  ASSUME NEW j \in Jobs, Typed, AddLabel(j)
  PROVE  Further(j)
<1>1. job[j].pc = "label" /\ job[j] \in JobStates
  BY DEF AddLabel, At, Typed
<1>2. StepsLeft(job[j]) = IF job[j].outcome = "none" THEN 10 ELSE 4
  BY <1>1, StepsLeftAt
<1>3. CASE LabelFails(j)
  BY <1>2, <1>3, LabelFailsFurther
<1> DEFINE rest == OtherLabels(job[j].want)
           u    == [job[j] EXCEPT !.pc = "unlabel", !.todo = rest]
<1>4. CASE Becomes(j, u)
  <2>1. rest \in SUBSET StatusLabels /\ rest # {} /\ Cardinality(rest) = 3
    <3>1. job[j].want \in StatusLabels
      BY <1>1 DEF JobStates
    <3> QED
      BY <3>1, LabelCounts DEF OtherLabels
  <2> HIDE DEF rest
  <2>2. u \in JobStates /\ u.pc = "unlabel" /\ u.todo = rest /\ u.outcome = job[j].outcome
    BY <1>1, <2>1 DEF JobStates, Stages
  <2> HIDE DEF u
  <2>3. LabelsLeft(u) = 3
    BY <2>1, <2>2 DEF LabelsLeft
  <2>4. StepsLeft(u) = (IF u.outcome = "none" THEN 6 ELSE 0) + LabelsLeft(u)
    BY <2>2, StepsLeftAt
  <2>5. StepsLeft(u) < StepsLeft(job[j])
    BY <1>2, <2>2, <2>3, <2>4
  <2> QED
    BY <1>4, <2>2, <2>5, LeftAfter DEF Further, Typed
<1> QED
  BY <1>3, <1>4 DEF AddLabel

\* The next label to remove is one of those that are left.
LEMMA FirstIsLeft ==
  ASSUME NEW T \in SUBSET StatusLabels, T # {}
  PROVE  FirstLabel(T) \in T
<1> DEFINE L(i) == EXCLUSIVE_STATUS_LABELS[i]
           First(i) == L(i) \in T /\ \A k \in 1..(i - 1) : L(k) \notin T
<1>1. \A l \in StatusLabels : l \in {L(1), L(2), L(3), L(4)}
  BY DEF StatusLabels, EXCLUSIVE_STATUS_LABELS
<1> HIDE DEF L
<1>2. \E i \in 1..4 : L(i) \in T
  BY <1>1
<1>3. First(1) \/ First(2) \/ First(3) \/ First(4)
  <2>1. /\ 1..(1 - 1) = {} /\ 1..(2 - 1) = {1} /\ 1..(3 - 1) = {1, 2} /\ 1..(4 - 1) = {1, 2, 3}
        /\ 1..4 = {1, 2, 3, 4}
    OBVIOUS
  <2> QED
    BY <1>2, <2>1
<1>4. \E l \in T : \E i \in 1..4 : l = L(i) /\ \A k \in 1..(i - 1) : L(k) \notin T
  BY <1>3
<1> QED
  BY <1>4 DEF FirstLabel, L

LEMMA RemoveLabelFurther ==
  ASSUME NEW j \in Jobs, Typed, RemoveLabel(j)
  PROVE  Further(j)
<1> DEFINE todo == job[j].todo
           rest == todo \ {FirstLabel(todo)}
           left == IF job[j].outcome = "none" THEN 6 ELSE 0
<1>1. job[j].pc = "unlabel" /\ job[j] \in JobStates /\ todo \in SUBSET StatusLabels
  BY DEF RemoveLabel, At, Typed, JobStates
<1>2. IsFiniteSet(todo) /\ Cardinality(todo) \in Nat
  BY <1>1, LabelCounts
<1>3. StepsLeft(job[j]) = left + LabelsLeft(job[j])
  BY <1>1, StepsLeftAt
<1>4. LabelsLeft(job[j]) \in Nat \ {0}
  BY <1>2, FS_EmptySet DEF LabelsLeft
<1>5. StepsLeft(job[j]) \in Nat \ {0} /\ (job[j].outcome = "none" => StepsLeft(job[j]) > 6)
  BY <1>3, <1>4
<1>6. CASE LabelFails(j)
  BY <1>5, <1>6, LabelFailsFurther
<1>7. CASE Becomes(j, Labelled(j))
  <2> DEFINE d == Labelled(j)
  <2>1. d \in JobStates /\ d.pc = "done"
    BY <1>1 DEF Labelled, JobStates, Stages, DeliveryOutcome
  <2> HIDE DEF d
  <2>2. StepsLeft(d) = 0
    BY <2>1, StepsLeftAt
  <2> QED
    BY <1>5, <1>7, <2>1, <2>2, LeftAfter DEF Further, Typed, d
<1>8. CASE rest # {} /\ Becomes(j, [job[j] EXCEPT !.todo = rest])
  <2> DEFINE u == [job[j] EXCEPT !.todo = rest]
  <2>1. todo # {}
    BY <1>8
  <2>2. FirstLabel(todo) \in todo
    BY <1>1, <2>1, FirstIsLeft
  <2>3. Cardinality(rest) = Cardinality(todo) - 1
    BY <1>2, <2>2, FS_RemoveElement
  <2>4. LabelsLeft(job[j]) = Cardinality(todo)
    BY <2>1 DEF LabelsLeft
  <2>5. rest \in SUBSET StatusLabels
    BY <1>1
  <2> HIDE DEF rest, todo
  <2>6. u \in JobStates /\ u.pc = "unlabel" /\ u.todo = rest /\ u.outcome = job[j].outcome
    BY <1>1, <2>5 DEF JobStates
  <2>7. Becomes(j, u)
    BY <1>8
  <2> HIDE DEF u
  <2>8. LabelsLeft(u) = Cardinality(todo) - 1
    BY <1>8, <2>3, <2>6 DEF LabelsLeft
  <2>9. StepsLeft(u) = left + LabelsLeft(u)
    BY <2>6, StepsLeftAt
  <2>10. StepsLeft(u) < StepsLeft(job[j])
    BY <1>2, <1>3, <2>4, <2>8, <2>9
  <2> QED
    BY <2>6, <2>7, <2>10, LeftAfter DEF Further, Typed
<1> QED
  BY <1>6, <1>7, <1>8 DEF RemoveLabel

LEMMA NotifyFurther ==
  ASSUME NEW j \in Jobs, Typed, Sound(job[j], pulls), Notify(j)
  PROVE  Further(j)
<1>1. job[j].pc = "notify" /\ job[j] \in JobStates
  BY DEF Notify, At, Typed
<1>2. StepsLeft(job[j]) = 6
  BY <1>1, StepsLeftAt
<1>3. CASE Suffers(j, [job[j] EXCEPT !.pc = "done"])
  <2>1. \A r : r.pc = "done" => StepsLeft(r) < StepsLeft(job[j])
    BY <1>2, StepsLeftAt
  <2>2. "done" \in Stages \ {"unlabel", "label"} /\ Absent \in Tips
    BY DEF Stages, Tips
  <2> QED
    BY <1>3, <2>1, <2>2, GoesFurther DEF Typed
<1>4. CASE Becomes(j, Notified(j, OpenPulls))
  <2>1. CASE OpenPulls = {}
    <3>1. Goes(j, "issue")
      BY <1>4, <2>1 DEF Notified, Goes
    <3>2. \A r : r.pc = "issue" => StepsLeft(r) < StepsLeft(job[j])
      BY <1>2, StepsLeftAt
    <3>3. "issue" \in Stages \ {"unlabel", "label"} /\ Absent \in Tips
      BY DEF Stages, Tips
    <3> QED
      BY <3>1, <3>2, <3>3, GoesFurther DEF Typed
  <2>2. CASE OpenPulls # {}
    <3> DEFINE n == CHOOSE n \in OpenPulls : \A m \in OpenPulls : m <= n
               c == [job[j] EXCEPT !.pc = "comment", !.want = FailureLabel(job[j].outcome), !.pull = n]
    <3>1. n \in Nat
      <4>1. n \in OpenPulls
        <5>1. Len(pulls) \in Nat /\ OpenPulls \in SUBSET (1..Len(pulls))
          BY DEF Typed, OpenPulls
        <5>2. \E k \in OpenPulls : \A m \in OpenPulls : m <= k
          BY <2>2, <5>1, NewestExists
        <5> QED
          BY <5>2
      <4> QED
        BY <4>1 DEF OpenPulls, Typed
    <3> HIDE DEF n
    <3>2. c \in JobStates /\ c.pc = "comment"
      <4>1. "comment" \in Stages /\ FailureLabel(job[j].outcome) \in StatusLabels
        BY DEF Stages, StatusLabels, FailureLabel
      <4> QED
        BY <1>1, <3>1, <4>1 DEF JobStates
    <3>3. Becomes(j, c)
      BY <1>4, <2>2 DEF Notified, n
    <3> HIDE DEF c
    <3>4. StepsLeft(c) = 5
      BY <3>2, StepsLeftAt
    <3> QED
      BY <1>2, <3>2, <3>3, <3>4, LeftAfter DEF Further, Typed
  <2> QED
    BY <2>1, <2>2
<1> QED
  BY <1>3, <1>4 DEF Notify

LEMMA CommentFurther ==
  ASSUME NEW j \in Jobs, Typed, Sound(job[j], pulls), Comment(j)
  PROVE  Further(j)
<1>1. job[j].pc = "comment" /\ job[j] \in JobStates
  BY DEF Comment, At, Typed
<1>2. StepsLeft(job[j]) = 5
  BY <1>1, StepsLeftAt
<1>3. job[j].outcome # "none"
  BY <1>1 DEF Sound, Failing
<1> DEFINE l == [job[j] EXCEPT !.pc = "label"]
<1>4. l \in JobStates /\ l.pc = "label" /\ l.outcome # "none"
  BY <1>1, <1>3 DEF JobStates, Stages
<1>5. Becomes(j, l) \/ Suffers(j, l)
  BY DEF Comment
<1> HIDE DEF l
<1>6. StepsLeft(l) = 4
  BY <1>4, StepsLeftAt
<1> QED
  BY <1>2, <1>4, <1>5, <1>6, LeftAfter DEF Further, Typed

LEMMA OpenIssueFurther ==
  ASSUME NEW j \in Jobs, Typed, OpenIssue(j)
  PROVE  Further(j)
<1>1. job[j].pc = "issue"
  BY DEF OpenIssue, At
<1>2. StepsLeft(job[j]) = 1
  BY <1>1, StepsLeftAt
<1>3. \A r : r.pc = "done" => StepsLeft(r) < StepsLeft(job[j])
  BY <1>2, StepsLeftAt
<1>4. "done" \in Stages \ {"unlabel", "label"} /\ Absent \in Tips
  BY DEF Stages, Tips
<1>5. Goes(j, "done") \/ Suffers(j, [job[j] EXCEPT !.pc = "done"])
  BY DEF OpenIssue
<1> QED
  BY <1>3, <1>4, <1>5, GoesFurther DEF Typed

LEMMA StepIsFurther ==
  ASSUME NEW j \in Jobs, Typed, Sound(job[j], pulls), Step(j)
  PROVE  Further(j)
BY MatchFurther, EnsureLabelsFurther, ReconcileFurther, FetchFurther, CheckoutFurther,
   VerifyFurther, PushFurther, CreatePullFurther, RacedFurther, AddLabelFurther,
   RemoveLabelFurther, NotifyFurther, CommentFurther, OpenIssueFurther DEF Step

\* A cancelled job has no step left, and one that is not at its end has some.
LEMMA CancelledFurther ==
  ASSUME NEW j \in Jobs, Typed, Cancelled(j)
  PROVE  Further(j)
<1> DEFINE g == [job[j] EXCEPT !.pc = "gone"]
<1>1. job[j] \in JobStates /\ job[j].pc \notin {"idle", "done", "gone"} /\ Suffers(j, g)
  BY DEF Cancelled, Typed
<1>2. g \in JobStates /\ g.pc = "gone"
  BY <1>1 DEF JobStates, Stages
<1> HIDE DEF g
<1>3. StepsLeft(g) = 0
  BY <1>2, StepsLeftAt
<1>4. LabelsLeft(job[j]) \in Nat \ {0}
  <2>1. job[j].todo \in SUBSET StatusLabels
    BY <1>1 DEF JobStates
  <2> QED
    BY <2>1, LabelCounts, FS_EmptySet DEF LabelsLeft
<1>5. job[j].pc \in Stages
  BY <1>1 DEF JobStates
<1>6. StepsLeft(job[j]) \in Nat \ {0}
  <2>1. CASE job[j].pc \in {"label", "unlabel"}
    BY <1>4, <2>1 DEF StepsLeft
  <2>2. CASE job[j].pc \in {"match", "ensure", "reconcile", "fetch", "checkout"}
    BY <2>2, StepsLeftAt
  <2>3. CASE job[j].pc \in {"verify", "push", "create", "raced", "notify", "comment", "issue"}
    BY <2>3, StepsLeftAt
  <2> QED
    BY <1>1, <1>5, <2>1, <2>2, <2>3 DEF Stages
<1> QED
  BY <1>1, <1>2, <1>3, <1>6, LeftAfter DEF Further, Typed

\* For any number of jobs that race: a job that has started takes 19 steps at most,
\* whatever fails, whoever wins and whatever people do, and no step of another job or of
\* a person sets it back; so that a job whose steps are taken ends.
THEOREM DeliveryIsBoundedHolds == Spec => DeliveryIsBounded
<1> DEFINE A == \A j \in Jobs : \/ At(j, "idle")
                                \/ job'[j] = job[j] /\ ~Step(j)
                                \/ StepsLeft(job'[j]) < StepsLeft(job[j])
<1>1. IInv /\ [Next]_vars => [A]_vars
  <2> SUFFICES ASSUME IInv, Next, NEW j \in Jobs, ~At(j, "idle"), ~Further(j)
               PROVE  job'[j] = job[j] /\ ~Step(j)
    <3>1. (IInv /\ Next => A) => (IInv /\ [Next]_vars => [A]_vars)
      BY Zenon
    <3> QED
      BY <3>1, Zenon DEF Further
  <2>1. Typed /\ Sound(job[j], pulls) /\ job \in [Jobs -> JobStates]
    BY DEF IInv, Typed
  <2>2. ~Step(j) /\ ~Cancelled(j)
    BY <2>1, StepIsFurther, CancelledFurther
  <2>3. ~Start(j)
    BY DEF Start
  <2>4. CASE People
    BY <2>2, <2>4 DEF People, PushSpec, MakeBranch, DropBranch, PushCommit, OpenByHand, Close, Touch
  <2>5. CASE Quiet
    BY <2>2, <2>5 DEF Quiet, vars
  <2>6. ASSUME NEW k \in Jobs, Start(k) \/ Step(k) \/ Cancelled(k)
        PROVE  job'[j] = job[j]
    <3>1. k # j
      BY <2>2, <2>3, <2>6
    <3>2. PICK r : job' = [job EXCEPT ![k] = r]
      BY <2>1, <2>6, StepsAdvance DEF Start, Becomes, Advance, IInv
    <3> QED
      BY <2>1, <3>1, <3>2
  <2> QED
    BY <2>2, <2>4, <2>5, <2>6 DEF Next
<1> QED
  BY <1>1, IInvInvariant, PTL DEF Spec, DeliveryIsBounded
=============================================================================

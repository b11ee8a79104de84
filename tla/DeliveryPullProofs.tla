------------------------- MODULE DeliveryPullProofs -------------------------
(***************************************************************************)
(* More theorems about Delivery: what the pull requests show.  Turn sums   *)
(* up what one step of a job may do, relative to the invariant IInv of     *)
(* DeliveryProofs; on it rest three invariants: Lone, that the jobs which  *)
(* pushed and the pull requests of the pipeline exclude each other; Told,  *)
(* that a failure is announced when its job ends; and Marked, that a job   *)
(* is still at work where a pull request has two status labels.  Together  *)
(* they show that Delivery implements DeliveryLedger.                      *)
(***************************************************************************)
EXTENDS DeliveryProofs

\* The stages before a job has pushed.
Before == {"idle", "match", "ensure", "reconcile", "fetch", "checkout", "verify", "push"}

Failures == {"FAILED", "ESCALATED"}

\* What a step of job j leads to, and which step it is.  r is the record of j after it.
Plain(j, r) ==
  /\ UNCHANGED <<remote, pulls, issues>>
  /\ r.pc \notin {"create", "unlabel", "idle"}
  /\ job[j].pc \notin Before => r.pc \notin Before
  /\ r.pc = "done" => r.hurt
  /\ r.pc = "label" => r.outcome = "none"
  /\ job[j].pc = "unlabel" => faults' # 0

Pushes(j, r) ==
  /\ At(j, "push") /\ Extends(remote, j) /\ remote' = HeadCommit(j)
  /\ UNCHANGED <<pulls, issues>>
  /\ r.pc \in {"create", "notify"}

Opens(j, r) ==
  /\ At(j, "create") /\ remote \notin {Absent} \cup BaseCommits
  /\ pulls' = Append(pulls, NewPull(SpecOf(j), BaseOf[SpecOf(j)]))
  /\ UNCHANGED <<remote, issues>>
  /\ r.pc = "notify" \/ (r.pc = "label" /\ r.outcome = "none")

PutsUp(j, r) ==
  /\ At(j, "label")
  /\ pulls' = [pulls EXCEPT ![job[j].pull].labels = @ \cup {job[j].want}]
  /\ UNCHANGED <<remote, issues>>
  /\ r.pc = "unlabel" /\ r.pull = job[j].pull /\ r.todo = OtherLabels(job[j].want)
  /\ r.outcome = job[j].outcome /\ r.hurt = job[j].hurt

TakesDown(j, r) ==
  /\ At(j, "unlabel")
  /\ \E l : /\ pulls' = [pulls EXCEPT ![job[j].pull].labels = @ \ {l}]
            /\ \/ /\ r.pc = "unlabel" /\ r.pull = job[j].pull
                  /\ r.todo = job[j].todo \ {l}
               \/ r.pc = "done" /\ job[j].todo \subseteq {l}
  /\ UNCHANGED <<remote, issues>>
  /\ r.outcome = job[j].outcome \/ r.outcome = "PR_CREATED"
  /\ r.hurt = job[j].hurt

LabelIsLost(j, r) ==
  /\ job[j].pc \in {"label", "unlabel"} /\ faults' # 0
  /\ \/ UNCHANGED pulls
     \/ \E L : pulls' = [pulls EXCEPT ![job[j].pull].labels = L]
  /\ UNCHANGED <<remote, issues>>
  /\ r.pc \in {"notify", "done"} /\ r.hurt

Tells(j, r) ==
  /\ At(j, "comment")
  /\ \/ UNCHANGED pulls /\ r.hurt
     \/ pulls' = [pulls EXCEPT ![job[j].pull].comments = @ \cup {j}]
  /\ UNCHANGED <<remote, issues>>
  /\ r.pc = "label"

Files(j, r) ==
  /\ At(j, "issue")
  /\ UNCHANGED <<remote, pulls>>
  /\ (UNCHANGED issues /\ r.hurt) \/ issues' = issues \cup {j}
  /\ r.pc = "done"

Turn(j, r) ==
  \/ Plain(j, r) \/ Pushes(j, r) \/ Opens(j, r) \/ PutsUp(j, r) \/ TakesDown(j, r)
  \/ LabelIsLost(j, r) \/ Tells(j, r) \/ Files(j, r)

-----------------------------------------------------------------------------
(* Records *)

\* The record a step leads to, but for hurt, which a failed call sets.
LEMMA NewRecord ==
  ASSUME NEW j \in Jobs, Typed, NEW r \in JobStates
  PROVE  /\ Becomes(j, r) => job'[j] = r /\ UNCHANGED faults
         /\ Suffers(j, r) =>
              /\ job'[j].hurt /\ faults' # 0
              /\ job'[j].pc = r.pc /\ job'[j].outcome = r.outcome
<1>1. job \in [Jobs -> JobStates] /\ faults \in Nat
  BY BoundsAssumption DEF Typed
<1>2. Becomes(j, r) => job'[j] = r /\ UNCHANGED faults
  BY <1>1 DEF Becomes
<1>3. ASSUME Suffers(j, r)
      PROVE  /\ job'[j].hurt /\ faults' # 0
             /\ job'[j].pc = r.pc /\ job'[j].outcome = r.outcome
  <2>1. job'[j] = [r EXCEPT !.hurt = TRUE] /\ faults' = faults + 1
    BY <1>1, <1>3 DEF Suffers
  <2>2. faults' # 0
    BY <1>1, <2>1
  <2> QED
    BY <2>1, <2>2 DEF JobStates
<1> QED
  BY <1>2, <1>3

\* An exception leads to its notification.
LEMMA RaisedRecord ==
  ASSUME NEW j \in Jobs, Typed, NEW code \in RETRYABLE_CODES \cup ESCALATE_CODES \cup OtherCodes,
         NEW category \in {"FAILED", "ESCALATED"}
  PROVE  /\ Raised(j, code, category) \in JobStates
         /\ Raised(j, code, category).pc = "notify"
<1>1. Raised(j, code, category) \in JobStates
  BY RaisedContinues DEF Continues
<1>2. job[j] \in JobStates
  BY DEF Typed
<1>3. Raised(j, code, category).pc = "notify"
  BY <1>2 DEF Raised, JobStates
<1> QED
  BY <1>1, <1>3

\* What an exception of any call leads to.
LEMMA Excepted ==
  ASSUME NEW j \in Jobs, Typed, NEW code \in RETRYABLE_CODES \cup ESCALATE_CODES \cup OtherCodes
  PROVE  /\ Escalates(j, code) => job'[j].pc = "notify"
         /\ Becomes(j, Raised(j, code, "FAILED")) => job'[j].pc = "notify"
         /\ CallFails(j, code) => job'[j].pc = "notify" /\ job'[j].hurt /\ faults' # 0
<1>1. /\ Raised(j, code, "ESCALATED") \in JobStates
      /\ Raised(j, code, "ESCALATED").pc = "notify"
  BY RaisedRecord
<1>2. /\ Raised(j, code, "FAILED") \in JobStates
      /\ Raised(j, code, "FAILED").pc = "notify"
  BY RaisedRecord
<1>3. Escalates(j, code) => job'[j].pc = "notify"
  BY <1>1, NewRecord DEF Escalates
<1>4. Becomes(j, Raised(j, code, "FAILED")) => job'[j].pc = "notify"
  BY <1>2, NewRecord
<1>5. CallFails(j, code) => job'[j].pc = "notify" /\ job'[j].hurt /\ faults' # 0
  BY <1>2, NewRecord DEF CallFails
<1> QED
  BY <1>3, <1>4, <1>5

\* A job that only goes on to another stage.
LEMMA GoneOn ==
  ASSUME NEW j \in Jobs, Typed, NEW stage \in Stages
  PROVE  /\ Goes(j, stage) =>
              /\ job'[j].pc = stage /\ job'[j].outcome = job[j].outcome
              /\ job'[j].hurt = job[j].hurt
         /\ Suffers(j, [job[j] EXCEPT !.pc = stage]) =>
              /\ job'[j].pc = stage /\ job'[j].outcome = job[j].outcome
              /\ job'[j].hurt /\ faults' # 0
<1> DEFINE r == [job[j] EXCEPT !.pc = stage]
<1>1. job[j] \in JobStates
  BY DEF Typed
<1>2. /\ r \in JobStates /\ r.pc = stage /\ r.outcome = job[j].outcome
      /\ r.hurt = job[j].hurt
  BY <1>1 DEF JobStates
<1> HIDE DEF r
<1>3. Becomes(j, r) => /\ job'[j].pc = stage /\ job'[j].outcome = job[j].outcome
                       /\ job'[j].hurt = job[j].hurt
  BY <1>2, NewRecord
<1>4. Suffers(j, r) => /\ job'[j].pc = stage /\ job'[j].outcome = job[j].outcome
                       /\ job'[j].hurt /\ faults' # 0
  BY <1>2, NewRecord
<1> QED
  BY <1>3, <1>4 DEF Goes, r

\* What the reconciliation leads to: an exception, a pull request to label, or r.
LEMMA ReconciledRecord ==
  ASSUME NEW j \in Jobs, Typed, NEW r, Continues(j, r, pulls), job[j].outcome = "none"
  PROVE  LET q == Reconciled(j, OpenPulls, r)
         IN  /\ q \in JobStates
             /\ q = r \/ q.pc = "notify" \/ (q.pc = "label" /\ q.outcome = "none")
<1> DEFINE q == Reconciled(j, OpenPulls, r)
<1>1. q \in JobStates
  BY ReconciledContinues DEF Continues
<1>2. \A code \in ESCALATE_CODES : Raised(j, code, "ESCALATED").pc = "notify"
  BY RaisedRecord
<1>3. {"UNSAFE_RECONCILE", "WORK_UNIT_PR_MISMATCH", "SPEC_IDENTITY_MISMATCH"}
        \subseteq ESCALATE_CODES
  BY DEF ESCALATE_CODES
<1>4. \A n : Labelling(j, n).pc = "label" /\ Labelling(j, n).outcome = "none"
  BY DEF Labelling, Typed, JobStates
<1>5. q = r \/ q.pc = "notify" \/ (q.pc = "label" /\ q.outcome = "none")
  BY <1>2, <1>3, <1>4 DEF Reconciled
<1> QED
  BY <1>1, <1>5

-----------------------------------------------------------------------------
(* The steps of a job *)

\* The steps before the push, but for the reconciliation.
LEMMA EarlyTurns ==
  ASSUME NEW j \in Jobs, Typed, Sound(job[j], pulls),
         Match(j) \/ EnsureLabels(j) \/ Fetch(j) \/ Checkout(j) \/ Verify(j)
  PROVE  Plain(j, job'[j])
<1> DEFINE r == job'[j]
<1>0. job[j] \in JobStates /\ remote \in Tips
  BY DEF Typed
<1>1. /\ UNCHANGED <<remote, pulls, issues>>
      /\ job[j].pc \in Before /\ job[j].pc # "unlabel"
  BY DEF Match, EnsureLabels, Fetch, Checkout, Verify, At, Before, GitHubUnchanged
<1>2. SUFFICES \/ r.pc \in {"ensure", "reconcile", "checkout", "verify", "push", "notify"}
               \/ r.pc = "done" /\ r.hurt
  BY <1>1 DEF Plain
<1>3. \A code \in RETRYABLE_CODES \cup ESCALATE_CODES \cup OtherCodes :
        Escalates(j, code) \/ CallFails(j, code) \/ Becomes(j, Raised(j, code, "FAILED"))
          => r.pc = "notify"
  BY Excepted
<1>4. \A stage \in Stages : Goes(j, stage) => r.pc = stage
  BY GoneOn
<1>5. CASE Match(j)
  <2>1. CASE Goes(j, "ensure")
    BY <1>4, <2>1 DEF Stages
  <2>2. CASE \E code \in {"SPEC_IDENTITY_MISMATCH", "PATCH_DIGEST_MISMATCH"} : Escalates(j, code)
    BY <1>3, <2>2 DEF ESCALATE_CODES
  <2>3. CASE Suffers(j, [Raised(j, "MISSING_GITHUB_TOKEN", "FAILED") EXCEPT !.pc = "done"])
    <3> DEFINE e == Raised(j, "MISSING_GITHUB_TOKEN", "FAILED")
    <3>1. e \in JobStates
      BY RaisedRecord DEF RETRYABLE_CODES
    <3> HIDE DEF e
    <3>2. [e EXCEPT !.pc = "done"] \in JobStates /\ [e EXCEPT !.pc = "done"].pc = "done"
      BY <3>1 DEF JobStates, Stages
    <3> QED
      BY <2>3, <3>2, NewRecord DEF e
  <2> QED
    BY <1>5, <2>1, <2>2, <2>3 DEF Match
<1>6. CASE EnsureLabels(j)
  BY <1>3, <1>4, <1>6 DEF EnsureLabels, Stages, RETRYABLE_CODES
<1>7. CASE Fetch(j)
  <2>1. Goes(j, "checkout") => r.pc = "checkout"
    BY <1>4 DEF Stages
  <2>2. Suffers(j, [job[j] EXCEPT !.pc = "checkout"]) => r.pc = "checkout"
    BY GoneOn DEF Stages
  <2>3. Becomes(j, [job[j] EXCEPT !.pc = "checkout", !.seen = remote]) => r.pc = "checkout"
    <3> DEFINE e == [job[j] EXCEPT !.pc = "checkout", !.seen = remote]
    <3>1. e \in JobStates /\ e.pc = "checkout"
      BY <1>0 DEF JobStates, Stages
    <3> HIDE DEF e
    <3>2. Becomes(j, e) => r.pc = "checkout"
      BY <3>1, NewRecord
    <3> QED
      BY <3>2 DEF e
  <2> QED
    BY <1>7, <2>1, <2>2, <2>3 DEF Fetch
<1>8. CASE Checkout(j)
  BY <1>3, <1>4, <1>8 DEF Checkout, CheckoutExisting, Stages, RETRYABLE_CODES, ESCALATE_CODES
<1>9. CASE Verify(j)
  BY <1>3, <1>4, <1>9 DEF Verify, Stages, ESCALATE_CODES, OtherCodes
<1> QED
  BY <1>5, <1>6, <1>7, <1>8, <1>9

\* The two reconciliations.
LEMMA ReconcileTurns ==
  ASSUME NEW j \in Jobs, Typed, Sound(job[j], pulls), Reconcile(j) \/ Raced(j)
  PROVE  Plain(j, job'[j])
<1> DEFINE r == job'[j]
<1>1. /\ UNCHANGED <<remote, pulls, issues>>
      /\ job[j].pc \in {"reconcile", "raced"} /\ job[j].outcome = "none"
      /\ job[j] \in JobStates
  BY DEF Reconcile, Raced, At, GitHubUnchanged, Sound, Delivering, Typed
<1>2. SUFFICES \/ r.pc = "notify" \/ (r.pc = "label" /\ r.outcome = "none")
               \/ job[j].pc = "reconcile" /\ r.pc = "fetch"
  BY <1>1 DEF Plain, Before
<1>3. CallFails(j, "GITHUB_API_FAILURE") => r.pc = "notify"
  BY Excepted DEF RETRYABLE_CODES
<1>4. CASE Reconcile(j)
  <2> DEFINE e == NoPullFound(j)
  <2>0. At(j, "reconcile")
    BY <1>4 DEF Reconcile
  <2>1. Continues(j, e, pulls) /\ e.pc \in {"fetch", "notify"}
    <3>1. CASE job[j].report = "passed"
      <4>1. Continues(j, [job[j] EXCEPT !.pc = "fetch"], pulls)
        BY <1>1, <3>1, GoesContinues DEF Delivering, PastReport, PastVerify, Tips
      <4>2. e = [job[j] EXCEPT !.pc = "fetch"] /\ e.pc = "fetch"
        BY <1>1, <3>1 DEF NoPullFound, JobStates
      <4> QED
        BY <4>1, <4>2
    <3>2. CASE job[j].report # "passed"
      <4> DEFINE f == [job[j] EXCEPT !.pc = "notify", !.code = "REPORT",
                                     !.outcome = job[j].report]
      <4>1. job[j].report \in Failures
        BY <1>1, <3>2 DEF JobStates, Failures
      <4>2. /\ f \in JobStates /\ f.pc = "notify" /\ f.at = job[j].at
            /\ f.report = job[j].report /\ f.patch = job[j].patch /\ f.outcome \in Failures
        BY <1>1, <4>1 DEF JobStates, Stages, OtherCodes, DeliveryOutcome, Failures
      <4>3. Continues(j, f, pulls)
        BY <4>2 DEF Continues, Sound, Delivering, PastReport, PastVerify, Failing, Failures
      <4> QED
        BY <3>2, <4>2, <4>3 DEF NoPullFound, ReportFailure
    <3> QED
      BY <3>1, <3>2
  <2> HIDE DEF e
  <2> DEFINE q == Reconciled(j, OpenPulls, e)
  <2>2. /\ q \in JobStates
        /\ q = e \/ q.pc = "notify" \/ (q.pc = "label" /\ q.outcome = "none")
    BY <1>1, <2>1, ReconciledRecord
  <2> HIDE DEF q
  <2>3. Becomes(j, q) => r = q
    BY <2>2, NewRecord
  <2>4. Becomes(j, q) \/ CallFails(j, "GITHUB_API_FAILURE")
    BY <1>4 DEF Reconcile, q, e
  <2> QED
    BY <1>3, <2>0, <2>1, <2>2, <2>3, <2>4 DEF At
<1>5. CASE Raced(j)
  <2> DEFINE e == Raised(j, "GITHUB_API_VALIDATION", "FAILED")
  <2>1. Continues(j, e, pulls) /\ e.pc = "notify"
    BY RaisedContinues, RaisedRecord DEF RETRYABLE_CODES
  <2> HIDE DEF e
  <2> DEFINE q == Reconciled(j, OpenPulls, e)
  <2>2. /\ q \in JobStates
        /\ q = e \/ q.pc = "notify" \/ (q.pc = "label" /\ q.outcome = "none")
    BY <1>1, <2>1, ReconciledRecord
  <2> HIDE DEF q
  <2>3. Becomes(j, q) => r = q
    BY <2>2, NewRecord
  <2>4. Becomes(j, q) \/ CallFails(j, "GITHUB_API_FAILURE")
    BY <1>5 DEF Raced, q, e
  <2> QED
    BY <1>3, <2>1, <2>2, <2>3, <2>4
<1> QED
  BY <1>4, <1>5

\* The push and the creation of the pull request.
LEMMA PublishTurns ==
  ASSUME NEW j \in Jobs, Typed, Sound(job[j], pulls), Push(j) \/ CreatePull(j)
  PROVE  Turn(j, job'[j])
<1> DEFINE r == job'[j]
<1>1. job[j] \in JobStates
  BY DEF Typed
<1>2. \A code \in RETRYABLE_CODES \cup ESCALATE_CODES \cup OtherCodes :
        Escalates(j, code) \/ CallFails(j, code) => r.pc = "notify"
  BY Excepted
<1>3. \A stage \in Stages : Goes(j, stage) => r.pc = stage
  BY GoneOn
<1>4. CASE Push(j)
  <2>0. At(j, "push") /\ UNCHANGED <<pulls, issues>>
    BY <1>4 DEF Push
  <2>1. Goes(j, "create") => r.pc = "create"
    BY <1>3 DEF Stages
  <2>2. Escalates(j, "NON_FAST_FORWARD") \/ CallFails(j, "GIT_PUSH_FAILED") => r.pc = "notify"
    BY <1>2 DEF ESCALATE_CODES, RETRYABLE_CODES
  <2>3. CASE Extends(remote, j) /\ remote' = HeadCommit(j) /\ r.pc \in {"create", "notify"}
    BY <2>0, <2>3 DEF Turn, Pushes
  <2>4. CASE UNCHANGED remote /\ r.pc = "notify"
    BY <2>0, <2>4 DEF Turn, Plain, At, Before
  <2> QED
    BY <1>4, <2>1, <2>2, <2>3, <2>4 DEF Push, push_branch_accepts
<1>5. CASE CreatePull(j)
  <2> DEFINE p == NewPull(SpecOf(j), BaseOf[SpecOf(j)])
             n == Len(Append(pulls, p))
  <2>0. At(j, "create") /\ UNCHANGED <<remote, issues>> /\ job[j].outcome = "none"
    BY <1>5 DEF CreatePull, create_pull, At, Sound, Delivering
  <2>1. Goes(j, "raced") => r.pc = "raced"
    BY <1>3 DEF Stages
  <2>2. CallFails(j, "GITHUB_API_FAILURE") => r.pc = "notify"
    BY <1>2 DEF RETRYABLE_CODES
  <2>3. Becomes(j, Labelling(j, n)) => r.pc = "label" /\ r.outcome = "none"
    <3> HIDE DEF n
    <3>1. Labelling(j, n).pc = "label" /\ Labelling(j, n).outcome = "none"
      BY <1>1, <2>0 DEF Labelling, JobStates
    <3>2. Becomes(j, Labelling(j, n)) => r = Labelling(j, n)
      BY DEF Becomes, Typed
    <3> QED
      BY <3>1, <3>2
  <2>4. CASE /\ remote \notin {Absent} \cup BaseCommits /\ pulls' = Append(pulls, p)
             /\ r.pc = "notify" \/ (r.pc = "label" /\ r.outcome = "none")
    BY <2>0, <2>4 DEF Turn, Opens
  <2>5. CASE UNCHANGED pulls /\ r.pc \in {"raced", "notify"}
    BY <2>0, <2>5 DEF Turn, Plain, At, Before
  <2> QED
    BY <1>5, <2>1, <2>2, <2>3, <2>4, <2>5 DEF CreatePull, create_pull, Creatable
<1> QED
  BY <1>4, <1>5

\* The calls that exchange the status label.
LEMMA LabelTurns ==
  ASSUME NEW j \in Jobs, Typed, Sound(job[j], pulls), AddLabel(j) \/ RemoveLabel(j)
  PROVE  Turn(j, job'[j])
<1> DEFINE r == job'[j]
           l == FirstLabel(job[j].todo)
<1>1. /\ job[j] \in JobStates /\ job[j].pc \in {"label", "unlabel"}
      /\ UNCHANGED <<remote, issues>>
  BY DEF Typed, AddLabel, RemoveLabel, At
<1>2. CASE LabelFails(j)
  <2>1. r.pc \in {"notify", "done"} /\ r.hurt /\ faults' # 0
    <3>1. CASE CallFails(j, "GITHUB_API_FAILURE")
      BY <3>1, Excepted DEF RETRYABLE_CODES
    <3>2. CASE Suffers(j, [job[j] EXCEPT !.pc = "done", !.todo = {}])
      <4> DEFINE e == [job[j] EXCEPT !.pc = "done", !.todo = {}]
      <4>1. e \in JobStates /\ e.pc = "done"
        BY <1>1 DEF JobStates, Stages
      <4> HIDE DEF e
      <4>2. Suffers(j, e) => r.pc = "done" /\ r.hurt /\ faults' # 0
        BY <4>1, NewRecord
      <4> QED
        BY <3>2, <4>2 DEF e
    <3> QED
      BY <1>2, <3>1, <3>2 DEF LabelFails
  <2> DEFINE n == job[j].pull
  <2>2. \/ UNCHANGED pulls
        \/ pulls' = [pulls EXCEPT ![n].labels = pulls[n].labels \cup {job[j].want}]
        \/ pulls' = [pulls EXCEPT ![n].labels = pulls[n].labels \ {l}]
    BY DEF AddLabel, RemoveLabel
  <2>3. UNCHANGED pulls \/ \E L : pulls' = [pulls EXCEPT ![n].labels = L]
    BY <2>2
  <2> QED
    BY <1>1, <2>1, <2>3 DEF Turn, LabelIsLost
<1>3. CASE AddLabel(j) /\ ~LabelFails(j)
  <2> DEFINE e == [job[j] EXCEPT !.pc = "unlabel", !.todo = OtherLabels(job[j].want)]
  <2>1. /\ e \in JobStates /\ e.pc = "unlabel" /\ e.pull = job[j].pull
        /\ e.todo = OtherLabels(job[j].want)
        /\ e.outcome = job[j].outcome /\ e.hurt = job[j].hurt
    BY <1>1 DEF JobStates, Stages, OtherLabels
  <2> HIDE DEF e
  <2>2. r = e /\ At(j, "label")
        /\ pulls' = [pulls EXCEPT ![job[j].pull].labels = @ \cup {job[j].want}]
    BY <1>3, <2>1, NewRecord DEF AddLabel, e
  <2> QED
    BY <1>1, <2>1, <2>2 DEF Turn, PutsUp
<1>4. CASE RemoveLabel(j) /\ ~LabelFails(j)
  <2> DEFINE rest == job[j].todo \ {l}
             e == [job[j] EXCEPT !.todo = rest]
             f == Labelled(j)
  <2>1. At(j, "unlabel") /\ pulls' = [pulls EXCEPT ![job[j].pull].labels = @ \ {l}]
        /\ Becomes(j, IF rest = {} THEN f ELSE e)
    BY <1>4 DEF RemoveLabel
  <2>2. /\ e.pc = "unlabel" /\ e.pull = job[j].pull /\ e.todo = rest
        /\ e.outcome = job[j].outcome /\ e.hurt = job[j].hurt
    BY <1>1, <2>1 DEF JobStates, At
  <2>3. /\ f.pc = "done" /\ f.hurt = job[j].hurt
        /\ f.outcome = job[j].outcome \/ f.outcome = "PR_CREATED"
    BY <1>1 DEF JobStates, Labelled
  <2> HIDE DEF e, f
  <2>4. r = IF rest = {} THEN f ELSE e
    BY <2>1 DEF Becomes, Typed
  <2>5. CASE rest = {}
    <3>1. job[j].todo \subseteq {l}
      BY <2>5
    <3> QED
      BY <1>1, <2>1, <2>3, <2>4, <2>5, <3>1 DEF Turn, TakesDown
  <2>6. CASE rest # {}
    BY <1>1, <2>1, <2>2, <2>4, <2>6 DEF Turn, TakesDown
  <2> QED
    BY <2>5, <2>6
<1> QED
  BY <1>2, <1>3, <1>4

\* The notification of a failure, and the end of a cancelled job.
LEMMA NotifyTurns ==
  ASSUME NEW j \in Jobs, Typed, Sound(job[j], pulls),
         Notify(j) \/ Comment(j) \/ OpenIssue(j) \/ Cancelled(j)
  PROVE  Turn(j, job'[j])
<1> DEFINE r == job'[j]
<1>0. job[j] \in JobStates
  BY DEF Typed
<1>1. \A stage \in Stages : /\ Goes(j, stage) => r.pc = stage
                            /\ Suffers(j, [job[j] EXCEPT !.pc = stage])
                                 => r.pc = stage /\ r.hurt /\ faults' # 0
  BY GoneOn
<1>2. CASE Notify(j)
  <2>0. At(j, "notify") /\ UNCHANGED <<remote, pulls, issues>>
    BY <1>2 DEF Notify, GitHubUnchanged
  <2>1. Suffers(j, [job[j] EXCEPT !.pc = "done"]) => r.pc = "done" /\ r.hurt
    BY <1>1 DEF Stages
  <2>2. Becomes(j, Notified(j, OpenPulls)) => r.pc \in {"issue", "comment"}
    <3>1. Notified(j, OpenPulls).pc \in {"issue", "comment"}
      BY <1>0 DEF Notified, JobStates
    <3>2. Becomes(j, Notified(j, OpenPulls)) => r = Notified(j, OpenPulls)
      BY DEF Becomes, Typed
    <3> QED
      BY <3>1, <3>2
  <2> QED
    BY <1>2, <2>0, <2>1, <2>2 DEF Notify, Turn, Plain, At, Before
<1>3. CASE Comment(j)
  <2> DEFINE e == [job[j] EXCEPT !.pc = "label"]
  <2>1. Suffers(j, e) => r.pc = "label" /\ r.hurt
    BY <1>1 DEF Stages
  <2>2. Becomes(j, e) => r.pc = "label"
    BY <1>1 DEF Stages, Goes
  <2> HIDE DEF e
  <2>3. /\ At(j, "comment") /\ UNCHANGED <<remote, issues>>
        /\ \/ /\ pulls' = [pulls EXCEPT ![job[j].pull].comments = @ \cup {j}]
              /\ Becomes(j, e) \/ Suffers(j, e)
           \/ UNCHANGED pulls /\ Suffers(j, e)
    BY <1>3 DEF Comment, create_issue_comment, e
  <2> QED
    BY <2>1, <2>2, <2>3 DEF Turn, Tells
<1>4. CASE OpenIssue(j)
  BY <1>1, <1>4 DEF OpenIssue, create_issue, Turn, Files, Stages
<1>5. CASE Cancelled(j)
  <2>1. r.pc = "gone" /\ faults' # 0 /\ UNCHANGED <<remote, pulls, issues>>
    BY <1>1, <1>5 DEF Cancelled, GitHubUnchanged, Stages
  <2> QED
    BY <2>1 DEF Turn, Plain, Before
<1> QED
  BY <1>2, <1>3, <1>4, <1>5

\* Whatever a job does, its base commit and its patch stay, a failure it met is not
\* forgotten, and it takes one of the turns.
LEMMA Turns ==
  ASSUME NEW j \in Jobs, Typed, Sound(job[j], pulls), Step(j) \/ Cancelled(j)
  PROVE  /\ Turn(j, job'[j])
         /\ job' = [job EXCEPT ![j] = job'[j]]
         /\ job'[j].at = job[j].at /\ job'[j].patch = job[j].patch /\ job'[j].pc # "idle"
<1>1. Turn(j, job'[j])
  BY EarlyTurns, ReconcileTurns, PublishTurns, LabelTurns, NotifyTurns DEF Step, Turn
<1>2. PICK r : Continues(j, r, pulls') /\ job' = [job EXCEPT ![j] = r]
  BY StepsAdvance DEF Advance
<1>3. job'[j] = r
  BY <1>2 DEF Typed
<1> QED
  BY <1>1, <1>2, <1>3 DEF Continues

-----------------------------------------------------------------------------
(* Pull requests *)

\* Pull requests keep their work unit and their comments, none is opened again, and
\* issues stay.
Kept ==
  /\ \A n \in DOMAIN pulls :
       /\ n \in DOMAIN pulls' /\ pulls'[n].work = pulls[n].work
       /\ pulls[n].comments \subseteq pulls'[n].comments
       /\ pulls'[n].open => pulls[n].open
  /\ issues \subseteq issues'

\* A change of the labels, the comments or the state of one pull request.
LEMMA EditKeeps ==
  ASSUME Typed, NEW n \in DOMAIN pulls, NEW L, NEW j,
         \/ pulls' = [pulls EXCEPT ![n].labels = L]
         \/ pulls' = [pulls EXCEPT ![n].comments = @ \cup {j}]
         \/ pulls' = [pulls EXCEPT ![n].open = FALSE]
  PROVE  /\ DOMAIN pulls' = DOMAIN pulls
         /\ \A m \in DOMAIN pulls :
              /\ pulls'[m].work = pulls[m].work
              /\ pulls[m].comments \subseteq pulls'[m].comments
              /\ pulls'[m].open => pulls[m].open
<1>1. pulls \in Seq(Pulls) /\ DOMAIN pulls = 1..Len(pulls)
  BY DEF Typed
<1>2. \A m \in DOMAIN pulls : pulls[m] \in Pulls
  BY <1>1
<1>3. \A m \in DOMAIN pulls : m # n => pulls'[m] = pulls[m]
  BY <1>1
<1>4. /\ pulls'[n].work = pulls[n].work
      /\ pulls[n].comments \subseteq pulls'[n].comments
      /\ pulls'[n].open => pulls[n].open
  BY <1>1, <1>2 DEF Pulls
<1>5. DOMAIN pulls' = DOMAIN pulls
  BY <1>1
<1> QED
  BY <1>3, <1>4, <1>5

\* The pull request a job creates is put after the others.
LEMMA AppendKeeps ==
  ASSUME Typed, NEW p, pulls' = Append(pulls, p)
  PROVE  /\ DOMAIN pulls' = DOMAIN pulls \cup {Len(pulls) + 1}
         /\ Len(pulls) + 1 \notin DOMAIN pulls
         /\ \A m \in DOMAIN pulls : pulls'[m] = pulls[m]
         /\ pulls'[Len(pulls) + 1] = p
<1>1. pulls \in Seq(Pulls) /\ DOMAIN pulls = 1..Len(pulls) /\ Len(pulls) \in Nat
  BY DEF Typed
<1>2. DOMAIN Append(pulls, p) = 1..(Len(pulls) + 1)
  BY <1>1, AppendProperties
<1>3. \A m \in 1..Len(pulls) : Append(pulls, p)[m] = pulls[m]
  BY <1>1, AppendProperties
<1>4. Append(pulls, p)[Len(pulls) + 1] = p
  BY <1>1, AppendProperties
<1>5. 1..(Len(pulls) + 1) = (1..Len(pulls)) \cup {Len(pulls) + 1}
  BY <1>1
<1>6. Len(pulls) + 1 \notin 1..Len(pulls)
  BY <1>1
<1> QED
  BY <1>1, <1>2, <1>3, <1>4, <1>5, <1>6

\* No turn of a job takes away what was said, and only a creation adds a pull request.
LEMMA TurnKeeps ==
  ASSUME NEW j \in Jobs, Typed, Sound(job[j], pulls), NEW r, Turn(j, r)
  PROVE  Kept /\ (Opens(j, r) \/ DOMAIN pulls' = DOMAIN pulls)
<1>1. CASE Plain(j, r) \/ Pushes(j, r) \/ Files(j, r)
  BY <1>1 DEF Plain, Pushes, Files, Kept
<1>2. CASE Opens(j, r)
  BY <1>2, AppendKeeps DEF Opens, Kept
<1>3. CASE PutsUp(j, r) \/ TakesDown(j, r) \/ LabelIsLost(j, r) \/ Tells(j, r)
  <2> DEFINE n == job[j].pull
  <2>1. n \in DOMAIN pulls /\ UNCHANGED issues
    BY <1>3 DEF PutsUp, TakesDown, LabelIsLost, Tells, At, Sound
  <2>2. CASE UNCHANGED pulls
    BY <2>1, <2>2 DEF Kept
  <2>3. CASE ~UNCHANGED pulls
    <3>1. \/ \E L : pulls' = [pulls EXCEPT ![n].labels = L]
          \/ pulls' = [pulls EXCEPT ![n].comments = @ \cup {j}]
      <4>1. CASE PutsUp(j, r)
        <5> DEFINE L == pulls[n].labels \cup {job[j].want}
        <5>1. pulls' = [pulls EXCEPT ![n].labels = L]
          BY <4>1 DEF PutsUp
        <5> QED
          BY <5>1
      <4>2. CASE TakesDown(j, r)
        <5>1. PICK l : pulls' = [pulls EXCEPT ![n].labels = @ \ {l}]
          BY <4>2 DEF TakesDown
        <5> DEFINE L == pulls[n].labels \ {l}
        <5>2. pulls' = [pulls EXCEPT ![n].labels = L]
          BY <5>1
        <5> QED
          BY <5>2
      <4>3. CASE LabelIsLost(j, r)
        BY <2>3, <4>3 DEF LabelIsLost
      <4>4. CASE Tells(j, r)
        BY <2>3, <4>4 DEF Tells
      <4> QED
        BY <1>3, <4>1, <4>2, <4>3, <4>4
    <3>2. /\ DOMAIN pulls' = DOMAIN pulls
          /\ \A m \in DOMAIN pulls :
               /\ pulls'[m].work = pulls[m].work
               /\ pulls[m].comments \subseteq pulls'[m].comments
               /\ pulls'[m].open => pulls[m].open
      BY <2>1, <3>1, EditKeeps
    <3> QED
      BY <2>1, <3>2 DEF Kept
  <2> QED
    BY <2>2, <2>3
<1> QED
  BY <1>1, <1>2, <1>3 DEF Turn

\* Nor do people, who open pull requests of their own only, without labels.
LEMMA PeopleKeep ==
  ASSUME Typed, People
  PROVE  /\ Kept /\ UNCHANGED <<issues, job, faults>>
         /\ \A n \in DOMAIN pulls : pulls'[n].labels = pulls[n].labels
         /\ \A n \in DOMAIN pulls' \ DOMAIN pulls :
              pulls'[n].work = Foreign /\ pulls'[n].labels = {}
<1>0. UNCHANGED <<issues, job, faults>>
  BY PeopleSteps
<1>1. CASE PushSpec \/ MakeBranch \/ DropBranch \/ PushCommit
  BY <1>0, <1>1 DEF PushSpec, MakeBranch, DropBranch, PushCommit, GitHubUnchanged, Kept
<1>2. CASE OpenByHand
  <2>1. PICK b \in BaseBranches : pulls' = Append(pulls, NewPull(Foreign, b))
    BY <1>2 DEF OpenByHand
  <2>2. NewPull(Foreign, b).work = Foreign /\ NewPull(Foreign, b).labels = {}
    BY DEF NewPull
  <2> QED
    BY <1>0, <2>1, <2>2, AppendKeeps DEF Kept
<1>3. ASSUME NEW n \in DOMAIN pulls, NEW delete \in BOOLEAN, Close(n, delete)
      PROVE  Kept /\ DOMAIN pulls' = DOMAIN pulls
             /\ \A m \in DOMAIN pulls : pulls'[m].labels = pulls[m].labels
  <2>1. \A m \in DOMAIN pulls : pulls[m] \in Pulls
    BY DEF Typed
  <2>2. CASE pulls' = [m \in DOMAIN pulls |-> [pulls[m] EXCEPT !.open = FALSE]]
    BY <1>0, <2>1, <2>2 DEF Kept, Pulls
  <2>3. CASE pulls' = [pulls EXCEPT ![n].open = FALSE]
    <3>1. \A m \in DOMAIN pulls : pulls'[m].labels = pulls[m].labels
      BY <2>1, <2>3 DEF Pulls
    <3> QED
      BY <1>0, <2>3, <3>1, EditKeeps DEF Kept
  <2> QED
    BY <1>3, <2>2, <2>3 DEF Close
<1> QED
  BY <1>0, <1>1, <1>2, <1>3 DEF People

-----------------------------------------------------------------------------
(* The invariants *)

Creating == {j \in Jobs : At(j, "create")}

\* The open pull requests of the pipeline.
Ours == {n \in OpenPulls : pulls[n].work # Foreign}

\* A run that has not started may still turn out to change something.
Fresh == \A j \in Jobs : At(j, "idle") => job[j].patch # "empty"

\* The commit of a job is on the branch only after its push.
Once == remote \in Jobs => job[remote].pc \notin Before

\* A job that is about to create a pull request has pushed, and nobody but a human
\* after it; it is the only one, and there is no pull request of the pipeline then.
\* When there is one, it is the only one, the branch holds work, and when that is a
\* job's, it is for the same Task Spec.
Lone ==
  AllRunsChangeSomething =>
    /\ \A j \in Creating : remote \in {j, Foreign}
    /\ \A j, k \in Creating : j = k
    /\ Ours # {} => Creating = {} /\ remote \in Jobs \cup {Foreign}
    /\ \A m, n \in Ours : m = n
    /\ \A n \in Ours : remote \in Jobs => pulls[n].work = SpecOf(remote)

Announced(j) == j \in issues \/ \E n \in DOMAIN pulls : j \in pulls[n].comments

\* A job that failed without an outage and has come to its label, or to its end,
\* has announced that.
Told ==
  \A j \in Jobs :
    job[j].pc \in {"label", "unlabel", "done"} /\ job[j].outcome \in Failures /\ ~job[j].hurt
      => Announced(j)

\* Where a pull request has two labels, a job is going to remove one of them.
Marked ==
  faults = 0 =>
    \A n \in DOMAIN pulls : \A l, m \in pulls[n].labels :
      l # m => \E j \in Jobs : Relabels(j, n) /\ job[j].todo \cap {l, m} # {}

PInv == Fresh /\ Once /\ Lone /\ Told /\ Marked

-----------------------------------------------------------------------------
(* One pull request, for the work on the branch *)

\* What a step of job j leaves of the other jobs.
LEMMA Others ==
  ASSUME NEW j \in Jobs, Typed, job' = [job EXCEPT ![j] = job'[j]]
  PROVE  \A k \in Jobs \ {j} : job'[k] = job[k]
BY DEF Typed

\* Runs that turn out to change nothing have not changed anything before.
LEMMA ChangeIsKept ==
  ASSUME Fresh, AllRunsChangeSomething',
         \A j \in Jobs : At(j, "idle") \/ job'[j].patch = job[j].patch
  PROVE  AllRunsChangeSomething
BY DEF Fresh, AllRunsChangeSomething

\* Without a push, a creation or another change of the branch.
LEMMA LoneFrame ==
  ASSUME Lone, Fresh, Once, UNCHANGED remote,
         Creating' \subseteq Creating, Ours' \subseteq Ours,
         \A n \in Ours' : pulls'[n].work = pulls[n].work,
         \A j \in Jobs : \/ At(j, "idle")
                         \/ job'[j].patch = job[j].patch /\ job'[j].at = job[j].at
  PROVE  Lone'
<1> SUFFICES ASSUME AllRunsChangeSomething'
             PROVE  /\ \A j \in Creating' : remote' \in {j, Foreign}
                    /\ \A j, k \in Creating' : j = k
                    /\ Ours' # {} => Creating' = {} /\ remote' \in Jobs \cup {Foreign}
                    /\ \A m, n \in Ours' : m = n
                    /\ \A n \in Ours' : remote' \in Jobs => pulls'[n].work = SpecOf(remote)'
  BY DEF Lone
<1>1. AllRunsChangeSomething
  BY ChangeIsKept
<1>2. remote \in Jobs => SpecOf(remote)' = SpecOf(remote)
  <2>1. remote \in Jobs => job'[remote].at = job[remote].at
    BY DEF Once, Before, At
  <2> QED
    BY <2>1 DEF SpecOf
<1> QED
  BY <1>1, <1>2 DEF Lone

\* The pull requests of the pipeline that a step leaves open were open before.
LEMMA OursShrinks ==
  ASSUME Kept, DOMAIN pulls' = DOMAIN pulls
  PROVE  Ours' \subseteq Ours /\ \A n \in Ours' : pulls'[n].work = pulls[n].work
BY DEF Kept, Ours, OpenPulls

\* A push: it was possible, so there was no work on the branch, and no pull request.
LEMMA PushKeepsLone ==
  ASSUME NEW j \in Jobs, Typed, PInv, Pushes(j, job'[j]),
         job' = [job EXCEPT ![j] = job'[j]],
         job'[j].at = job[j].at, job'[j].patch = job[j].patch
  PROVE  Lone'
<1>1. \A k \in Jobs \ {j} : job'[k] = job[k]
  BY Others
<1>2. /\ Lone /\ Once /\ Fresh /\ At(j, "push") /\ Extends(remote, j)
      /\ remote' = HeadCommit(j) /\ UNCHANGED pulls
  BY DEF PInv, Pushes
<1> SUFFICES ASSUME AllRunsChangeSomething'
             PROVE  /\ \A k \in Creating' : remote' \in {k, Foreign}
                    /\ \A i, k \in Creating' : i = k
                    /\ Ours' # {} => Creating' = {} /\ remote' \in Jobs \cup {Foreign}
                    /\ \A m, n \in Ours' : m = n
                    /\ \A n \in Ours' : remote' \in Jobs => pulls'[n].work = SpecOf(remote)'
  BY DEF Lone
<1>3. AllRunsChangeSomething
  BY <1>1, <1>2, ChangeIsKept
<1>4. HeadCommit(j) = j
  BY <1>3 DEF HeadCommit, AllRunsChangeSomething
<1>5. remote # j
  BY <1>2 DEF Once, Before, At
<1>6. remote \in {Absent} \cup BaseCommits
  BY <1>2, <1>4, <1>5 DEF Extends, ParentOf
<1>7. remote \notin Jobs \cup {Foreign}
  BY <1>6, JobsAssumption
<1>8. Creating = {} /\ Ours = {}
  <2>1. Creating = {}
    BY <1>2, <1>3, <1>7 DEF Lone, Creating
  <2>2. Ours = {}
    BY <1>2, <1>3, <1>7 DEF Lone
  <2> QED
    BY <2>1, <2>2
<1>9. Creating' \subseteq {j}
  BY <1>1, <1>8 DEF Creating, At
<1>10. Ours' = {}
  BY <1>2, <1>8 DEF Ours, OpenPulls
<1> QED
  BY <1>2, <1>4, <1>9, <1>10

\* A creation: the job that pushed last creates the only pull request, and for the
\* work that is on the branch, unless a human has pushed since.
LEMMA OpenKeepsLone ==
  ASSUME NEW j \in Jobs, Typed, PInv, Opens(j, job'[j]),
         job' = [job EXCEPT ![j] = job'[j]],
         job'[j].at = job[j].at, job'[j].patch = job[j].patch
  PROVE  Lone'
<1> DEFINE p == NewPull(SpecOf(j), BaseOf[SpecOf(j)])
           n0 == Len(pulls) + 1
<1>1. \A k \in Jobs \ {j} : job'[k] = job[k]
  BY Others
<1>2. /\ Lone /\ Once /\ Fresh /\ At(j, "create") /\ UNCHANGED remote
      /\ pulls' = Append(pulls, p) /\ job'[j].pc # "create"
  BY DEF PInv, Opens
<1> SUFFICES ASSUME AllRunsChangeSomething'
             PROVE  /\ \A k \in Creating' : remote' \in {k, Foreign}
                    /\ \A i, k \in Creating' : i = k
                    /\ Ours' # {} => Creating' = {} /\ remote' \in Jobs \cup {Foreign}
                    /\ \A m, n \in Ours' : m = n
                    /\ \A n \in Ours' : remote' \in Jobs => pulls'[n].work = SpecOf(remote)'
  BY DEF Lone
<1>3. AllRunsChangeSomething
  BY <1>1, <1>2, ChangeIsKept
<1>4. j \in Creating
  BY <1>2 DEF Creating
<1>5. Creating = {j} /\ remote \in {j, Foreign} /\ Ours = {}
  BY <1>2, <1>3, <1>4 DEF Lone
<1>6. Creating' = {}
  BY <1>1, <1>2, <1>5 DEF Creating, At
<1>7. /\ DOMAIN pulls' = DOMAIN pulls \cup {n0}
      /\ \A m \in DOMAIN pulls : pulls'[m] = pulls[m]
      /\ pulls'[n0] = p
  BY <1>2, AppendKeeps
<1> HIDE DEF n0
<1>8. Ours' \subseteq {n0}
  BY <1>5, <1>7 DEF Ours, OpenPulls
<1>9. pulls'[n0].work = SpecOf(j)
  BY <1>7 DEF NewPull
<1>10. SpecOf(j)' = SpecOf(j)
  BY DEF SpecOf
<1>11. remote' \in Jobs => remote' = j
  BY <1>2, <1>5, JobsAssumption
<1> QED
  BY <1>2, <1>5, <1>6, <1>8, <1>9, <1>10, <1>11

\* What people do: with a pull request of the pipeline, the branch holds work, which
\* nobody takes away but with all pull requests.
LEMMA PeopleKeepLone ==
  ASSUME Typed, PInv, People
  PROVE  Lone'
<1>1. /\ Lone /\ Once /\ Fresh /\ Kept /\ UNCHANGED <<job, issues, faults>>
      /\ \A n \in DOMAIN pulls' \ DOMAIN pulls : pulls'[n].work = Foreign
  BY PeopleKeep DEF PInv
<1>2. Creating' = Creating /\ (AllRunsChangeSomething' => AllRunsChangeSomething)
  BY <1>1 DEF Creating, At, AllRunsChangeSomething
<1>3. Ours' \subseteq Ours /\ \A n \in Ours' : pulls'[n].work = pulls[n].work
  BY <1>1 DEF Kept, Ours, OpenPulls
<1>4. CASE UNCHANGED remote
  BY <1>1, <1>2, <1>3, <1>4, LoneFrame
<1>5. CASE remote \in {Absent} \cup BaseCommits
  <2>1. remote \notin Jobs \cup {Foreign}
    BY <1>5, JobsAssumption
  <2>2. AllRunsChangeSomething => Creating = {} /\ Ours = {}
    <3>1. AllRunsChangeSomething => Creating = {}
      BY <1>1, <2>1 DEF Lone, Creating
    <3>2. AllRunsChangeSomething => Ours = {}
      BY <1>1, <2>1 DEF Lone
    <3> QED
      BY <3>1, <3>2
  <2> QED
    BY <1>2, <1>3, <2>2 DEF Lone
<1>6. CASE PushCommit
  <2>1. remote' = Foreign
    BY <1>6 DEF PushCommit
  <2>2. Foreign \notin Jobs
    BY JobsAssumption
  <2> QED
    BY <1>1, <1>2, <1>3, <2>1, <2>2 DEF Lone
<1>7. ASSUME NEW n \in DOMAIN pulls, Close(n, TRUE)
      PROVE  Lone'
  <2>1. n \in Ours /\ pulls' = [m \in DOMAIN pulls |-> [pulls[m] EXCEPT !.open = FALSE]]
    BY <1>7 DEF Close, Ours
  <2>2. \A m \in DOMAIN pulls : ~pulls'[m].open
    <3>1. \A m \in DOMAIN pulls : pulls[m] \in Pulls
      BY DEF Typed
    <3> QED
      BY <2>1, <3>1 DEF Pulls
  <2>3. Ours' = {}
    BY <2>1, <2>2 DEF Ours, OpenPulls
  <2>4. AllRunsChangeSomething => Creating = {}
    BY <1>1, <2>1 DEF Lone
  <2> QED
    BY <1>2, <2>3, <2>4 DEF Lone
<1>8. CASE PushSpec \/ OpenByHand \/ \E n \in DOMAIN pulls : Close(n, FALSE)
  BY <1>4, <1>8 DEF PushSpec, OpenByHand, Close, GitHubUnchanged
<1>9. CASE MakeBranch \/ DropBranch
  BY <1>5, <1>9 DEF MakeBranch, DropBranch
<1> QED
  BY <1>6, <1>7, <1>8, <1>9 DEF People

-----------------------------------------------------------------------------
(* Announcements and labels *)

\* A turn that reaches a label of a failure, or the end of a failed run, without an
\* outage, has announced the failure.
LEMMA TurnKeepsTold ==
  ASSUME NEW j \in Jobs, Typed, Sound(job[j], pulls), Told, Turn(j, job'[j]),
         job' = [job EXCEPT ![j] = job'[j]]
  PROVE  Told'
<1> DEFINE r == job'[j]
<1>1. Kept /\ \A k \in Jobs \ {j} : job'[k] = job[k]
  BY TurnKeeps, Others
<1>2. \A k \in Jobs : Announced(k) => Announced(k)'
  BY <1>1 DEF Kept, Announced
<1>3. ASSUME r.pc \in {"label", "unlabel", "done"}, r.outcome \in Failures, ~r.hurt
      PROVE  Announced(j)'
  <2>1. CASE Plain(j, r)
    BY <1>3, <2>1 DEF Plain, Failures
  <2>2. CASE Pushes(j, r) \/ Opens(j, r) \/ LabelIsLost(j, r)
    BY <1>3, <2>2 DEF Pushes, Opens, LabelIsLost, Failures
  <2>3. CASE PutsUp(j, r) \/ TakesDown(j, r)
    <3>1. job[j].pc \in {"label", "unlabel"} /\ job[j].outcome = r.outcome /\ ~job[j].hurt
      BY <1>3, <2>3 DEF PutsUp, TakesDown, At, Failures
    <3> QED
      BY <1>2, <1>3, <3>1 DEF Told
  <2>4. CASE Tells(j, r)
    <3> DEFINE n == job[j].pull
    <3>1. n \in DOMAIN pulls /\ pulls' = [pulls EXCEPT ![n].comments = @ \cup {j}]
      BY <1>3, <2>4 DEF Tells, At, Sound
    <3>2. pulls[n] \in Pulls
      BY <3>1 DEF Typed
    <3>3. n \in DOMAIN pulls' /\ j \in pulls'[n].comments
      BY <3>1, <3>2 DEF Pulls
    <3> QED
      BY <3>3 DEF Announced
  <2>5. CASE Files(j, r)
    BY <1>3, <2>5 DEF Files, Announced
  <2> QED
    BY <2>1, <2>2, <2>3, <2>4, <2>5 DEF Turn
<1> QED
  BY <1>1, <1>2, <1>3 DEF Told

\* A step that changes no labels, of a job that is not removing any.
LEMMA MarkedFrame ==
  ASSUME Marked, faults' = 0 => faults = 0,
         \A n \in DOMAIN pulls' : \/ n \in DOMAIN pulls /\ pulls'[n].labels = pulls[n].labels
                                  \/ pulls'[n].labels = {},
         \A j \in Jobs : job'[j] = job[j] \/ job[j].pc # "unlabel"
  PROVE  Marked'
BY DEF Marked, Relabels, At

\* The labels of a pull request after one of them was put up or taken down.
LEMMA LabelsAfter ==
  ASSUME Typed, NEW n \in DOMAIN pulls, NEW L, pulls' = [pulls EXCEPT ![n].labels = L]
  PROVE  /\ DOMAIN pulls' = DOMAIN pulls /\ pulls'[n].labels = L
         /\ \A m \in DOMAIN pulls \ {n} : pulls'[m] = pulls[m]
<1>1. pulls[n] \in Pulls
  BY DEF Typed
<1> QED
  BY <1>1 DEF Typed, Pulls

\* The job that puts a label up is going to remove every other one; one that takes a
\* label down stays until none is left that it was to remove.
LEMMA TurnKeepsMarked ==
  ASSUME NEW j \in Jobs, Typed, Sound(job[j], pulls), Marked, Turn(j, job'[j]),
         job' = [job EXCEPT ![j] = job'[j]], faults' = 0 => faults = 0
  PROVE  Marked'
<1> DEFINE r == job'[j]
           n == job[j].pull
<1>1. \A k \in Jobs \ {j} : job'[k] = job[k]
  BY Others
<1>2. CASE Plain(j, r) \/ LabelIsLost(j, r)
  <2>1. CASE faults' # 0
    BY <2>1 DEF Marked
  <2>2. CASE faults' = 0
    <3>1. UNCHANGED pulls /\ job[j].pc # "unlabel"
      BY <1>2, <2>2 DEF Plain, LabelIsLost
    <3> QED
      BY <1>1, <3>1, MarkedFrame
  <2> QED
    BY <2>1, <2>2
<1>3. CASE Pushes(j, r) \/ Files(j, r)
  BY <1>1, <1>3, MarkedFrame DEF Pushes, Files, At
<1>4. CASE Opens(j, r)
  <2> DEFINE p == NewPull(SpecOf(j), BaseOf[SpecOf(j)])
             n0 == Len(pulls) + 1
  <2>1. job[j].pc # "unlabel" /\ pulls' = Append(pulls, p) /\ p.labels = {}
    BY <1>4 DEF Opens, At, NewPull
  <2> HIDE DEF p
  <2>2. /\ DOMAIN pulls' = DOMAIN pulls \cup {n0}
        /\ \A m \in DOMAIN pulls : pulls'[m] = pulls[m]
        /\ pulls'[n0] = p
    BY <2>1, AppendKeeps
  <2> HIDE DEF n0
  <2> QED
    BY <1>1, <2>1, <2>2, MarkedFrame
<1>5. CASE Tells(j, r)
  <2>1. job[j].pc # "unlabel" /\ n \in DOMAIN pulls
    BY <1>5 DEF Tells, At, Sound
  <2>2. \A m \in DOMAIN pulls : pulls[m] \in Pulls
    BY DEF Typed
  <2>3. DOMAIN pulls' = DOMAIN pulls /\ \A m \in DOMAIN pulls : pulls'[m].labels = pulls[m].labels
    BY <1>5, <2>1, <2>2 DEF Tells, Pulls
  <2> QED
    BY <1>1, <2>1, <2>3, MarkedFrame
<1>6. CASE PutsUp(j, r)
  <2> DEFINE w == job[j].want
             L == pulls[n].labels \cup {w}
  <2>1. n \in DOMAIN pulls /\ job[j].pc = "label" /\ pulls' = [pulls EXCEPT ![n].labels = L]
        /\ r.pc = "unlabel" /\ r.pull = n /\ r.todo = OtherLabels(w)
    BY <1>6 DEF PutsUp, At, Sound
  <2>2. /\ DOMAIN pulls' = DOMAIN pulls /\ pulls'[n].labels = L
        /\ \A m \in DOMAIN pulls \ {n} : pulls'[m] = pulls[m]
    BY <2>1, LabelsAfter
  <2>3. pulls[n].labels \subseteq StatusLabels
    <3>1. pulls[n] \in Pulls
      BY <2>1 DEF Typed
    <3> QED
      BY <3>1 DEF Pulls
  <2>4. ASSUME faults' = 0, NEW i \in DOMAIN pulls', NEW l \in pulls'[i].labels,
               NEW m \in pulls'[i].labels, l # m
        PROVE  \E k \in Jobs : Relabels(k, i)' /\ job'[k].todo \cap {l, m} # {}
    <3>1. CASE l \in pulls[i].labels /\ m \in pulls[i].labels
      <4>1. PICK k \in Jobs : Relabels(k, i) /\ job[k].todo \cap {l, m} # {}
        BY <2>2, <2>4, <3>1 DEF Marked
      <4>2. k # j
        BY <2>1, <4>1 DEF Relabels, At
      <4> QED
        BY <1>1, <4>1, <4>2 DEF Relabels, At
    <3>2. CASE ~(l \in pulls[i].labels /\ m \in pulls[i].labels)
      <4>1. i = n /\ (l = w \/ m = w)
        BY <2>2, <2>4, <3>2
      <4>2. r.todo \cap {l, m} # {}
        BY <2>1, <2>2, <2>3, <2>4, <4>1 DEF OtherLabels
      <4> QED
        BY <2>1, <4>1, <4>2 DEF Relabels, At
    <3> QED
      BY <3>1, <3>2
  <2> QED
    BY <2>4 DEF Marked
<1>7. CASE TakesDown(j, r)
  <2>1. PICK t : /\ pulls' = [pulls EXCEPT ![n].labels = @ \ {t}]
                 /\ \/ r.pc = "unlabel" /\ r.pull = n /\ r.todo = job[j].todo \ {t}
                    \/ r.pc = "done" /\ job[j].todo \subseteq {t}
    BY <1>7 DEF TakesDown
  <2> DEFINE L == pulls[n].labels \ {t}
  <2>2. n \in DOMAIN pulls /\ job[j].pc = "unlabel" /\ pulls' = [pulls EXCEPT ![n].labels = L]
    BY <1>7, <2>1 DEF TakesDown, At, Sound
  <2>3. /\ DOMAIN pulls' = DOMAIN pulls /\ pulls'[n].labels = L
        /\ \A m \in DOMAIN pulls \ {n} : pulls'[m] = pulls[m]
    BY <2>2, LabelsAfter
  <2>4. ASSUME faults' = 0, NEW i \in DOMAIN pulls', NEW l \in pulls'[i].labels,
               NEW m \in pulls'[i].labels, l # m
        PROVE  \E k \in Jobs : Relabels(k, i)' /\ job'[k].todo \cap {l, m} # {}
    <3>1. l \in pulls[i].labels /\ m \in pulls[i].labels /\ (i = n => t \notin {l, m})
      BY <2>3, <2>4
    <3>2. PICK k \in Jobs : Relabels(k, i) /\ job[k].todo \cap {l, m} # {}
      BY <2>3, <2>4, <3>1 DEF Marked
    <3>3. CASE k # j
      BY <1>1, <3>2, <3>3 DEF Relabels, At
    <3>4. CASE k = j
      <4>1. i = n
        BY <3>2, <3>4 DEF Relabels
      <4>2. job[j].todo \cap {l, m} # {} /\ t \notin {l, m}
        BY <3>1, <3>2, <3>4, <4>1
      <4>3. r.pc = "unlabel" /\ r.pull = n /\ r.todo = job[j].todo \ {t}
        BY <2>1, <4>2
      <4>4. r.todo \cap {l, m} # {}
        BY <4>2, <4>3
      <4> QED
        BY <4>1, <4>3, <4>4 DEF Relabels, At
    <3> QED
      BY <3>3, <3>4
  <2> QED
    BY <2>4 DEF Marked
<1> QED
  BY <1>2, <1>3, <1>4, <1>5, <1>6, <1>7 DEF Turn

-----------------------------------------------------------------------------
(* The invariant *)

\* A step of a started job.
LEMMA JobKeeps ==
  ASSUME NEW j \in Jobs, IInv, PInv, Step(j) \/ Cancelled(j)
  PROVE  PInv'
<1> DEFINE r == job'[j]
<1>1. Typed /\ Sound(job[j], pulls) /\ Acts(j)
  BY StepsAct DEF IInv
<1>2. /\ Turn(j, r) /\ job' = [job EXCEPT ![j] = r]
      /\ r.at = job[j].at /\ r.patch = job[j].patch /\ r.pc # "idle"
  BY <1>1, Turns
<1>3. \A k \in Jobs \ {j} : job'[k] = job[k]
  BY <1>1, <1>2, Others
<1>4. Fresh'
  BY <1>2, <1>3 DEF PInv, Fresh, At
<1>5. job[j].pc \notin Before \/ Pushes(j, r) => r.pc \notin Before
  BY <1>2 DEF Turn, Plain, Pushes, Opens, PutsUp, TakesDown, LabelIsLost, Tells, Files,
              Before, At
<1>6. Once'
  <2>1. CASE Pushes(j, r)
    <3>1. remote' \in Jobs => remote' = j
      BY <1>1, <2>1, HeadIsOwn, JobsAssumption DEF Pushes
    <3> QED
      BY <1>5, <2>1, <3>1 DEF Once
  <2>2. CASE ~Pushes(j, r)
    <3>1. UNCHANGED remote
      BY <1>2, <2>2 DEF Turn, Plain, Opens, PutsUp, TakesDown, LabelIsLost, Tells, Files
    <3> QED
      BY <1>3, <1>5, <3>1 DEF PInv, Once
  <2> QED
    BY <2>1, <2>2
<1>7. Lone'
  <2>1. CASE Pushes(j, r)
    BY <1>1, <1>2, <2>1, PushKeepsLone
  <2>2. CASE Opens(j, r)
    BY <1>1, <1>2, <2>2, OpenKeepsLone
  <2>3. CASE ~Pushes(j, r) /\ ~Opens(j, r)
    <3>1. UNCHANGED remote /\ r.pc # "create"
      BY <1>2, <2>3 DEF Turn, Plain, PutsUp, TakesDown, LabelIsLost, Tells, Files
    <3>2. Kept /\ DOMAIN pulls' = DOMAIN pulls
      BY <1>1, <1>2, <2>3, TurnKeeps
    <3>3. Ours' \subseteq Ours /\ \A n \in Ours' : pulls'[n].work = pulls[n].work
      BY <3>2, OursShrinks
    <3>4. Creating' \subseteq Creating
      BY <1>3, <3>1 DEF Creating, At
    <3>5. \A k \in Jobs : job'[k].patch = job[k].patch /\ job'[k].at = job[k].at
      BY <1>2, <1>3
    <3> QED
      BY <3>1, <3>3, <3>4, <3>5, LoneFrame DEF PInv
  <2> QED
    BY <2>1, <2>2, <2>3
<1>8. Told'
  BY <1>1, <1>2, TurnKeepsTold DEF PInv
<1>9. faults' = 0 => faults = 0
  BY <1>1, BoundsAssumption DEF Acts, Typed
<1>10. Marked'
  BY <1>1, <1>2, <1>9, TurnKeepsMarked DEF PInv
<1> QED
  BY <1>4, <1>6, <1>7, <1>8, <1>10 DEF PInv

\* The start of a job: it has not touched anything yet.
LEMMA StartKeeps ==
  ASSUME NEW j \in Jobs, IInv, PInv, Start(j)
  PROVE  PInv'
<1> DEFINE r == job'[j]
<1>1. /\ Typed /\ At(j, "idle") /\ UNCHANGED <<remote, pulls, issues, faults>>
  BY DEF IInv, Start, Becomes, GitHubUnchanged
<1>2. PICK c \in 1..base, rep \in {"passed", "FAILED", "ESCALATED"}, p \in Patch :
        Becomes(j, [NewJob EXCEPT !.pc = "match", !.at = c, !.report = rep, !.patch = p,
                                  !.seen = remote])
  BY DEF Start
<1>3. r.pc = "match" /\ r.outcome = "none" /\ \A k \in Jobs \ {j} : job'[k] = job[k]
  BY <1>1, <1>2 DEF Becomes, Typed, NewJob
<1>4. Fresh'
  BY <1>3 DEF PInv, Fresh, At
<1>5. Once'
  <2>1. remote # j
    BY <1>1 DEF PInv, Once, At, Before
  <2> QED
    BY <1>1, <1>3, <2>1 DEF PInv, Once
<1>6. Lone'
  <2>1. Creating' \subseteq Creating
    BY <1>3 DEF Creating, At
  <2>2. Ours' = Ours
    BY <1>1 DEF Ours, OpenPulls
  <2>3. \A k \in Jobs : \/ At(k, "idle")
                        \/ job'[k].patch = job[k].patch /\ job'[k].at = job[k].at
    BY <1>1, <1>3
  <2> QED
    BY <1>1, <2>1, <2>2, <2>3, LoneFrame DEF PInv
<1>7. Told'
  <2>1. \A k \in Jobs : Announced(k)' = Announced(k)
    BY <1>1 DEF Announced
  <2> QED
    BY <1>3, <2>1 DEF PInv, Told
<1>8. Marked'
  BY <1>1, <1>3, MarkedFrame DEF PInv, At
<1> QED
  BY <1>4, <1>5, <1>6, <1>7, <1>8 DEF PInv

\* What people do.
LEMMA PeopleKeepAll ==
  ASSUME IInv, PInv, People
  PROVE  PInv'
<1>1. Typed /\ Fresh /\ Once /\ Told /\ Marked
  BY DEF IInv, PInv
<1>2. /\ Kept /\ UNCHANGED <<issues, job, faults>>
      /\ \A n \in DOMAIN pulls : pulls'[n].labels = pulls[n].labels
      /\ \A n \in DOMAIN pulls' \ DOMAIN pulls : pulls'[n].labels = {}
  BY <1>1, PeopleKeep
<1>3. Fresh'
  BY <1>1, <1>2 DEF Fresh, At
<1>4. Once'
  <2>1. UNCHANGED remote \/ remote' \notin Jobs
    BY <1>1, PeopleSteps, JobsAssumption
  <2> QED
    BY <1>1, <1>2, <2>1 DEF Once
<1>5. Lone'
  BY <1>1, PeopleKeepLone
<1>6. Told'
  <2>1. \A k \in Jobs : Announced(k) => Announced(k)'
    BY <1>2 DEF Kept, Announced
  <2> QED
    BY <1>1, <1>2, <2>1 DEF Told
<1>7. Marked'
  BY <1>1, <1>2, MarkedFrame
<1> QED
  BY <1>3, <1>4, <1>5, <1>6, <1>7 DEF PInv

\* The invariant holds for any set of jobs, base commits and bounds.
LEMMA PInvInvariant == Spec => []PInv
<1>1. Init => PInv
  <2> SUFFICES ASSUME Init PROVE PInv
    OBVIOUS
  <2>1. \A j \in Jobs : job[j].pc = "idle" /\ job[j].patch = "good" /\ job[j].outcome = "none"
    BY DEF Init, NewJob
  <2>2. remote \notin Jobs /\ pulls = <<>>
    BY JobsAssumption DEF Init
  <2>3. DOMAIN pulls = {}
    BY <2>2
  <2>4. Fresh /\ Once /\ Told /\ Marked
    BY <2>1, <2>2, <2>3 DEF Fresh, Once, Told, Marked, At
  <2>5. Creating = {} /\ Ours = {}
    BY <2>1, <2>3 DEF Creating, Ours, OpenPulls, At
  <2>6. Lone
    BY <2>5 DEF Lone
  <2> QED
    BY <2>4, <2>6 DEF PInv
<1>2. IInv /\ PInv /\ [Next]_vars => PInv'
  <2> SUFFICES ASSUME IInv, PInv, [Next]_vars PROVE PInv'
    OBVIOUS
  <2>1. CASE UNCHANGED vars
    BY <2>1 DEF vars, PInv, Fresh, Once, Lone, Told, Marked, Creating, Ours, OpenPulls, At,
                Relabels, Announced, AllRunsChangeSomething, SpecOf
  <2>2. CASE People
    BY <2>2, PeopleKeepAll
  <2>3. ASSUME NEW j \in Jobs, Start(j)
        PROVE  PInv'
    BY <2>3, StartKeeps
  <2>4. ASSUME NEW j \in Jobs, Step(j) \/ Cancelled(j)
        PROVE  PInv'
    BY <2>4, JobKeeps
  <2> QED
    BY <2>1, <2>2, <2>3, <2>4 DEF Next, Quiet
<1> QED
  BY <1>1, <1>2, IInvInvariant, PTL DEF Spec

-----------------------------------------------------------------------------
(* Theorems *)

\* A set whose members are all the same has at most one.
LEMMA AtMostOne ==
  ASSUME NEW S, \A m, n \in S : m = n
  PROVE  Cardinality(S) <= 1
<1>1. CASE S = {}
  BY <1>1, FS_EmptySet
<1>2. CASE S # {}
  <2>1. PICK m \in S : TRUE
    BY <1>2
  <2>2. S = {m}
    BY <2>1
  <2>3. Cardinality({m}) = 1
    BY FS_Singleton
  <2> QED
    BY <2>2, <2>3
<1> QED
  BY <1>1, <1>2

\* For any number of deliver jobs that race for a branch, and whatever fails or people
\* do in between, the pipeline has at most one open pull request on it.
THEOREM OnePullHolds == Spec => []OnePullPerWorkUnit
<1>1. PInv => OnePullPerWorkUnit
  <2> SUFFICES ASSUME PInv, AllRunsChangeSomething
               PROVE  Cardinality({n \in OpenPulls : pulls[n].work # Foreign}) <= 1
    BY DEF OnePullPerWorkUnit
  <2>1. \A m, n \in Ours : m = n
    BY DEF PInv, Lone
  <2> QED
    BY <2>1, AtMostOne DEF Ours
<1> QED
  BY <1>1, PInvInvariant, PTL

\* While a commit of the pipeline is the tip, its open pull request is for the Task
\* Spec that commit was made for.
THEOREM PullShowsItsWorkHolds == Spec => []PullShowsItsWork
<1>1. PInv => PullShowsItsWork
  BY DEF PInv, Lone, PullShowsItsWork, Ours
<1> QED
  BY <1>1, PInvInvariant, PTL

\* Every failure of a job that met no outage is announced on a pull request or in an
\* issue by the time the job ends.
THEOREM FailureIsAnnouncedHolds == Spec => []FailureIsAnnounced
<1>1. PInv => FailureIsAnnounced
  BY DEF PInv, Told, FailureIsAnnounced, Announced, At, Failures
<1> QED
  BY <1>1, PInvInvariant, PTL

\* However the calls of any number of jobs interleave, a pull request nobody is
\* relabelling has one status label at most, when none of the calls failed.
THEOREM LabelsExclusiveHolds == Spec => []LabelsExclusive
<1>1. PInv => LabelsExclusive
  <2> SUFFICES ASSUME PInv, NEW n \in DOMAIN pulls, faults = 0, \A j \in Jobs : ~Relabels(j, n)
               PROVE  Cardinality(pulls[n].labels) <= 1
    BY DEF LabelsExclusive
  <2>1. \A l, m \in pulls[n].labels : l = m
    BY DEF PInv, Marked
  <2> QED
    BY <2>1, AtMostOne
<1> QED
  BY <1>1, PInvInvariant, PTL
-----------------------------------------------------------------------------
(* The ledger of the deliveries *)

\* A job has one outcome.
LEMMA OutcomeIsFinal ==
  ASSUME NEW j \in Jobs, Typed, Sound(job[j], pulls), Step(j) \/ Cancelled(j)
  PROVE  job[j].outcome = "none" \/ job'[j].outcome = job[j].outcome
<1>1. job[j] \in JobStates
  BY DEF Typed
<1>2. CASE job[j].pc \in Delivering
  BY <1>2 DEF Sound
<1>3. CASE Cancelled(j)
  BY <1>1, <1>3 DEF Cancelled, Suffers, Typed, JobStates
<1>4. CASE Step(j) /\ job[j].pc \notin Delivering
  <2>1. AddLabel(j) \/ RemoveLabel(j) \/ Notify(j) \/ Comment(j) \/ OpenIssue(j)
    BY <1>4 DEF Step, Match, EnsureLabels, Reconcile, Fetch, Checkout, Verify, Push,
                CreatePull, Raced, At, Delivering
  <2>2. ASSUME LabelFails(j), job[j].outcome # "none"
        PROVE  job'[j].outcome = job[j].outcome
    BY <1>1, <2>2 DEF LabelFails, Suffers, Typed, JobStates
  <2>3. CASE AddLabel(j)
    <3> DEFINE rest == OtherLabels(job[j].want)
    <3>1. \/ LabelFails(j)
          \/ Becomes(j, [job[j] EXCEPT !.pc = "unlabel", !.todo = rest])
      BY <2>3 DEF AddLabel
    <3>2. [job[j] EXCEPT !.pc = "unlabel", !.todo = rest].outcome = job[j].outcome
      BY <1>1 DEF JobStates
    <3> HIDE DEF rest
    <3> QED
      BY <2>2, <3>1, <3>2 DEF Becomes, Typed
  <2>4. CASE RemoveLabel(j)
    <3> DEFINE rest == job[j].todo \ {FirstLabel(job[j].todo)}
    <3>1. \/ LabelFails(j)
          \/ Becomes(j, IF rest = {} THEN Labelled(j) ELSE [job[j] EXCEPT !.todo = rest])
      BY <2>4 DEF RemoveLabel
    <3>2. job[j].outcome # "none" => Labelled(j).outcome = job[j].outcome
      BY <1>1 DEF Labelled, JobStates
    <3>3. [job[j] EXCEPT !.todo = rest].outcome = job[j].outcome
      BY <1>1 DEF JobStates
    <3> HIDE DEF rest
    <3> QED
      BY <2>2, <3>1, <3>2, <3>3 DEF Becomes, Typed
  <2>5. CASE Notify(j)
    <3>1. Notified(j, OpenPulls).outcome = job[j].outcome
      BY <1>1 DEF Notified, JobStates
    <3>2. [job[j] EXCEPT !.pc = "done", !.hurt = TRUE].outcome = job[j].outcome
      BY <1>1 DEF JobStates
    <3> QED
      BY <1>1, <2>5, <3>1, <3>2 DEF Notify, Becomes, Suffers, Typed, JobStates
  <2>6. CASE Comment(j) \/ OpenIssue(j)
    <3>1. \E stage \in {"label", "done"} :
            LET r == [job[j] EXCEPT !.pc = stage] IN Becomes(j, r) \/ Suffers(j, r)
      BY <2>6 DEF Comment, OpenIssue, Goes
    <3>2. PICK stage : LET r == [job[j] EXCEPT !.pc = stage] IN Becomes(j, r) \/ Suffers(j, r)
      BY <3>1
    <3>3. [job[j] EXCEPT !.pc = stage].outcome = job[j].outcome
      BY <1>1 DEF JobStates
    <3>4. [[job[j] EXCEPT !.pc = stage] EXCEPT !.hurt = TRUE].outcome = job[j].outcome
      BY <1>1 DEF JobStates
    <3> QED
      BY <3>2, <3>3, <3>4 DEF Becomes, Suffers, Typed
  <2> QED
    BY <2>1, <2>3, <2>4, <2>5, <2>6
<1> QED
  BY <1>2, <1>3, <1>4

\* A job whose push or creation took effect goes on, or fails because the answer is lost.
LEMMA LostAnswer ==
  ASSUME NEW j \in Jobs, Typed, Sound(job[j], pulls),
         (Push(j) /\ Extends(remote, j)) \/ CreatePull(j)
  PROVE  job'[j].outcome \in {"none", "FAILED"}
<1>1. job[j] \in JobStates /\ job[j].outcome = "none"
  BY DEF Typed, Sound, Push, CreatePull, At, Delivering
<1>2. ASSUME NEW code \in {"GIT_PUSH_FAILED", "GITHUB_API_FAILURE"}, CallFails(j, code)
      PROVE  job'[j].outcome = "FAILED"
  <2>1. Raised(j, code, "FAILED").outcome = "FAILED"
    BY <1>1 DEF Raised, JobStates, classify_control_plane_error, ESCALATE_CODES
  <2>2. Raised(j, code, "FAILED") \in JobStates
    BY RaisedContinues DEF Continues, RETRYABLE_CODES
  <2> QED
    BY <1>2, <2>1, <2>2 DEF CallFails, Suffers, Typed, JobStates
<1>3. ASSUME NEW stage \in {"create", "raced"}, Goes(j, stage)
      PROVE  job'[j].outcome = "none"
  BY <1>1, <1>3 DEF Goes, Becomes, Typed, JobStates
<1>4. ASSUME NEW n, Becomes(j, Labelling(j, n))
      PROVE  job'[j].outcome = "none"
  BY <1>1, <1>4 DEF Labelling, Becomes, Typed, JobStates
<1>5. CASE Push(j) /\ Extends(remote, j)
  BY <1>2, <1>3, <1>5 DEF Push, push_branch_accepts
<1>6. CASE CreatePull(j)
  BY <1>2, <1>3, <1>4, <1>6 DEF CreatePull
<1> QED
  BY <1>5, <1>6

\* A record of the ledger by itself.
LEMMA RunOf ==
  \A k \in Jobs : /\ LedgerRun[k].work = IF At(k, "idle") THEN Foreign ELSE SpecOf(k)
                  /\ LedgerRun[k].empty = (job[k].patch = "empty")
                  /\ LedgerRun[k].outcome = job[k].outcome
BY DEF LedgerRun

\* Job j goes on with what it set out with.
Continued(j) ==
  /\ ~At(j, "idle") /\ job' = [job EXCEPT ![j] = job'[j]] /\ job'[j].pc # "idle"
  /\ job'[j].at = job[j].at /\ job'[j].patch = job[j].patch

\* The ledger notes the outcome of a step of a job, and nothing else about the job.
LEMMA RunAfter ==
  ASSUME NEW j \in Jobs, Typed, Continued(j)
  PROVE  LedgerRun' = [LedgerRun EXCEPT ![j].outcome = job'[j].outcome]
<1> DEFINE Entry(r) == [ work    |-> IF r.pc = "idle" THEN Foreign ELSE SpecAt[r.at],
                         empty   |-> r.patch = "empty",
                         outcome |-> r.outcome ]
<1>1. LedgerRun = [k \in Jobs |-> Entry(job[k])] /\ LedgerRun' = [k \in Jobs |-> Entry(job'[k])]
  BY DEF LedgerRun, At, SpecOf
<1>2. \A k \in Jobs \ {j} : job'[k] = job[k]
  BY Others DEF Continued
<1>3. Entry(job'[j]) = [Entry(job[j]) EXCEPT !.outcome = job'[j].outcome]
  BY DEF At, Continued
<1> HIDE DEF Entry
<1> QED
  BY <1>1, <1>2, <1>3

\* Without a new outcome it stays as it is.
LEMMA RunStays ==
  ASSUME NEW j \in Jobs, Typed, Continued(j), job'[j].outcome = job[j].outcome
  PROVE  UNCHANGED LedgerRun
<1> DEFINE Entry(r) == [ work    |-> IF r.pc = "idle" THEN Foreign ELSE SpecAt[r.at],
                         empty   |-> r.patch = "empty",
                         outcome |-> r.outcome ]
<1>1. LedgerRun = [k \in Jobs |-> Entry(job[k])] /\ LedgerRun' = [k \in Jobs |-> Entry(job'[k])]
  BY DEF LedgerRun, At, SpecOf
<1>2. \A k \in Jobs \ {j} : job'[k] = job[k]
  BY Others DEF Continued
<1>3. Entry(job'[j]) = Entry(job[j])
  BY DEF At, Continued
<1> HIDE DEF Entry
<1> QED
  BY <1>1, <1>2, <1>3

\* Labels and comments are not in the ledger.
LEMMA PullsStay ==
  ASSUME Typed, NEW n \in DOMAIN pulls,
         \/ UNCHANGED pulls
         \/ \E L : pulls' = [pulls EXCEPT ![n].labels = L]
         \/ \E j : pulls' = [pulls EXCEPT ![n].comments = @ \cup {j}]
  PROVE  UNCHANGED LedgerPulls
<1>1. pulls \in Seq(Pulls) /\ DOMAIN pulls = 1..Len(pulls)
  BY DEF Typed
<1>2. \A m \in DOMAIN pulls : pulls[m] \in Pulls
  BY <1>1
<1> DEFINE Entry(p) == [work |-> p.work, open |-> p.open]
<1>3. /\ LedgerPulls = [m \in DOMAIN pulls |-> Entry(pulls[m])]
      /\ LedgerPulls' = [m \in DOMAIN pulls' |-> Entry(pulls'[m])]
  BY DEF LedgerPulls
<1>4. ASSUME NEW L, pulls' = [pulls EXCEPT ![n].labels = L]
      PROVE  DOMAIN pulls' = DOMAIN pulls /\ \A m \in DOMAIN pulls : Entry(pulls'[m]) = Entry(pulls[m])
  BY <1>1, <1>2, <1>4 DEF Pulls
<1>5. ASSUME NEW j, pulls' = [pulls EXCEPT ![n].comments = @ \cup {j}]
      PROVE  DOMAIN pulls' = DOMAIN pulls /\ \A m \in DOMAIN pulls : Entry(pulls'[m]) = Entry(pulls[m])
  BY <1>1, <1>2, <1>5 DEF Pulls
<1> HIDE DEF Entry
<1>6. CASE UNCHANGED pulls
  BY <1>3, <1>6
<1>7. CASE ~UNCHANGED pulls
  <2>1. DOMAIN pulls' = DOMAIN pulls /\ \A m \in DOMAIN pulls : Entry(pulls'[m]) = Entry(pulls[m])
    BY <1>4, <1>5, <1>7
  <2> QED
    BY <1>3, <2>1
<1> QED
  BY <1>6, <1>7

\* The ledger numbers pull requests as GitHub does.
LEMMA PullsAppended ==
  ASSUME Typed, NEW w, NEW b, pulls' = Append(pulls, NewPull(w, b))
  PROVE  LedgerPulls' = Append(LedgerPulls, [work |-> w, open |-> TRUE])
<1> DEFINE Entry(p) == [work |-> p.work, open |-> p.open]
           new == NewPull(w, b)
           n == Len(pulls)
<1>1. DOMAIN pulls = 1..n /\ n \in Nat /\ pulls \in Seq(Pulls)
  BY DEF Typed
<1>2. LedgerPulls = [m \in 1..n |-> Entry(pulls[m])]
  BY <1>1 DEF LedgerPulls
<1>3. DOMAIN pulls' = 1..(n + 1) /\ \A m \in 1..n : pulls'[m] = pulls[m]
  BY <1>1, AppendProperties
<1>4. pulls'[n + 1] = new
  BY <1>1, AppendProperties
<1>5. LedgerPulls' = [m \in 1..(n + 1) |-> Entry(pulls'[m])]
  BY <1>3 DEF LedgerPulls
<1>6. Entry(new) = [work |-> w, open |-> TRUE]
  BY DEF NewPull
<1> HIDE DEF Entry, new, n
<1> DEFINE U == {Entry(pulls[m]) : m \in 1..n} \cup {Entry(new)}
           A == Append(LedgerPulls, Entry(new))
<1>7. LedgerPulls \in Seq(U) /\ Len(LedgerPulls) = n
  BY <1>1, <1>2
<1>8. Entry(new) \in U
  OBVIOUS
<1>9. /\ A \in Seq(U) /\ Len(A) = n + 1 /\ A[n + 1] = Entry(new)
      /\ \A m \in 1..n : A[m] = LedgerPulls[m]
  <2> HIDE DEF U
  <2> QED
    BY <1>7, <1>8, AppendProperties
<1>10. \A m \in 1..(n + 1) : m \in 1..n \/ m = n + 1
  BY <1>1
<1>11. \A m \in 1..(n + 1) : A[m] = Entry(pulls'[m])
  BY <1>2, <1>3, <1>4, <1>9, <1>10
<1>12. A \in [1..(n + 1) -> U]
  <2> HIDE DEF A, U
  <2> QED
    BY <1>9
<1>13. A = [m \in 1..(n + 1) |-> Entry(pulls'[m])]
  <2> HIDE DEF A, U
  <2> QED
    BY <1>11, <1>12
<1> QED
  BY <1>5, <1>6, <1>13

\* A job works for somebody.
LEMMA WorkIsSome ==
  ASSUME NEW j \in Jobs, Typed
  PROVE  SpecOf(j) \in Specs /\ SpecOf(j) # Foreign
<1>1. job[j].at \in BaseCommits
  BY DEF Typed, JobStates
<1> QED
  BY <1>1, JobsAssumption DEF SpecOf, Specs

\* A step that shows in the outcome of its job at most.
LEMMA Concludes ==
  ASSUME NEW j \in Jobs, IInv, IInv', Continued(j),
         job[j].outcome = "none" \/ job'[j].outcome = job[j].outcome,
         UNCHANGED <<remote, LedgerPulls, LedgerTold>>
  PROVE  [Promise!Next]_(Promise!vars)
<1> USE DEF Promise!vars, Promise!Next
<1>1. Typed /\ job'[j] \in JobStates /\ Sound(job'[j], pulls')
  BY DEF IInv, Typed
<1>2. LedgerRun' = [LedgerRun EXCEPT ![j].outcome = job'[j].outcome]
  BY <1>1, RunAfter
<1>3. CASE job'[j].outcome = job[j].outcome
  BY <1>1, <1>3, RunStays
<1>4. CASE job[j].outcome = "none" /\ job'[j].outcome # "none"
  <2>1. Promise!Running(j)
    BY <1>1, <1>4, RunOf, WorkIsSome DEF Promise!Running, Continued
  <2>2. CASE job'[j].outcome \in {"FAILED", "ESCALATED"}
    BY <1>2, <2>1, <2>2 DEF Promise!Fail
  <2>3. CASE job'[j].outcome = "PR_CREATED"
    <3>1. job'[j].pull \in DOMAIN pulls' /\ pulls'[job'[j].pull].work = SpecAt[job'[j].at]
      BY <1>1, <2>3 DEF Sound
    <3>2. \E n \in DOMAIN pulls' : pulls'[n].work = SpecOf(j)
      BY <3>1 DEF Continued, SpecOf
    <3>3. \E n \in DOMAIN LedgerPulls' : LedgerPulls'[n].work = SpecOf(j)
      BY <3>2 DEF LedgerPulls
    <3>4. \E n \in DOMAIN LedgerPulls : LedgerPulls[n].work = LedgerRun[j].work
      BY <3>3, RunOf DEF Continued
    <3>5. Promise!Deliver(j)
      BY <1>2, <2>1, <2>3, <3>4 DEF Promise!Deliver
    <3> QED
      BY <3>5
  <2> QED
    BY <1>1, <1>4, <2>2, <2>3 DEF JobStates, DeliveryOutcome
<1> QED
  BY <1>3, <1>4

\* A job that pushed, with its outcome open or failed.
LEMMA LandsOrFails ==
  ASSUME NEW j \in Jobs, Typed, Continued(j), job[j].outcome = "none",
         job'[j].outcome \in {"none", "FAILED"}
  PROVE  Promise!Running(j) /\ Promise!MayFail(j)
<1>1. Promise!Running(j)
  BY RunOf, WorkIsSome DEF Promise!Running, Continued
<1>2. CASE job'[j].outcome = "none"
  BY <1>1, <1>2, RunStays DEF Promise!MayFail
<1>3. CASE job'[j].outcome = "FAILED"
  BY <1>1, <1>3, RunAfter DEF Promise!MayFail
<1> QED
  BY <1>1, <1>2, <1>3

\* A push.
LEMMA PushLands ==
  ASSUME NEW j \in Jobs, IInv, PInv, Continued(j), Push(j) /\ Extends(remote, j),
         remote' = HeadCommit(j), UNCHANGED <<pulls, issues>>
  PROVE  Promise!Land(j)
<1>1. Typed /\ Sound(job[j], pulls) /\ At(j, "push") /\ job[j].at \in BaseCommits
  BY DEF IInv, Push, Typed, JobStates
<1>2. job[j].outcome = "none" /\ job'[j].outcome \in {"none", "FAILED"}
  BY <1>1, LostAnswer DEF Sound, At, Delivering
<1>3. Promise!Running(j) /\ Promise!MayFail(j)
  BY <1>1, <1>2, LandsOrFails
<1>4. remote # j
  BY <1>1 DEF PInv, Once, At, Before
<1>5. remote \in Promise!Unused
  BY <1>1, <1>4 DEF Promise!Unused, Extends, HeadCommit, ParentOf
<1>6. IF LedgerRun[j].empty THEN remote' \in BaseCommits ELSE remote' = j
  BY <1>1, RunOf DEF HeadCommit
<1>7. UNCHANGED <<LedgerPulls, LedgerTold>>
  BY DEF LedgerPulls, LedgerTold
<1> QED
  BY <1>3, <1>5, <1>6, <1>7 DEF Promise!Land

\* The creation of a pull request.
LEMMA CreationOpens ==
  ASSUME NEW j \in Jobs, IInv, PInv, Continued(j), CreatePull(j), Opens(j, job'[j])
  PROVE  Promise!Open(j)
<1>1. Typed /\ Sound(job[j], pulls) /\ At(j, "create")
  BY DEF IInv, Opens
<1>2. job[j].outcome = "none" /\ job'[j].outcome \in {"none", "FAILED"}
  BY <1>1, LostAnswer DEF Sound, At, Delivering
<1>3. Promise!Running(j) /\ Promise!MayFail(j)
  BY <1>1, <1>2, LandsOrFails
<1>4. remote \notin Promise!Unused /\ UNCHANGED <<remote, issues>>
  BY DEF Opens, Promise!Unused
<1>5. LedgerPulls' = Append(LedgerPulls, [work |-> LedgerRun[j].work, open |-> TRUE])
  <2>1. LedgerRun[j].work = SpecOf(j)
    BY RunOf DEF Continued
  <2> QED
    BY <1>1, <2>1, PullsAppended DEF Opens
<1>6. (\A k \in Jobs : ~LedgerRun[k].empty) => Promise!OnItsWork(j)
  <2> SUFFICES ASSUME \A k \in Jobs : ~LedgerRun[k].empty
               PROVE  Promise!OnItsWork(j)
    OBVIOUS
  <2>1. AllRunsChangeSomething
    BY RunOf DEF AllRunsChangeSomething
  <2>2. j \in Creating
    BY <1>1 DEF Creating
  <2>3. remote \in {j, Foreign} /\ Ours = {}
    BY <2>1, <2>2 DEF PInv, Lone
  <2>4. \A n \in DOMAIN LedgerPulls : LedgerPulls[n].open => LedgerPulls[n].work = Foreign
    BY <2>3 DEF LedgerPulls, Ours, OpenPulls
  <2> QED
    BY <2>3, <2>4 DEF Promise!OnItsWork
<1>7. UNCHANGED LedgerTold
  <2> DEFINE n == Len(pulls) + 1
  <2>1. /\ DOMAIN pulls' = DOMAIN pulls \cup {n} /\ n \notin DOMAIN pulls
        /\ \A m \in DOMAIN pulls : pulls'[m] = pulls[m]
        /\ pulls'[n] = NewPull(SpecOf(j), BaseOf[SpecOf(j)])
    BY <1>1, AppendKeeps DEF Opens
  <2>2. pulls'[n].comments = {}
    BY <2>1 DEF NewPull
  <2> HIDE DEF n
  <2> QED
    BY <1>4, <2>1, <2>2 DEF LedgerTold
<1> QED
  BY <1>3, <1>4, <1>5, <1>6, <1>7 DEF Promise!Open

\* What the edit of one pull request announces.
LEMMA EditTells ==
  ASSUME Typed, NEW n \in DOMAIN pulls, UNCHANGED issues,
         UNCHANGED pulls \/ \E L : pulls' = [pulls EXCEPT ![n].labels = L]
  PROVE  UNCHANGED LedgerTold
<1>1. pulls \in Seq(Pulls) /\ DOMAIN pulls = 1..Len(pulls)
  BY DEF Typed
<1>2. \A m \in DOMAIN pulls : pulls[m] \in Pulls
  BY <1>1
<1>3. DOMAIN pulls' = DOMAIN pulls
  BY <1>1
<1>4. \A m \in DOMAIN pulls : pulls'[m].comments = pulls[m].comments
  BY <1>1, <1>2 DEF Pulls
<1> QED
  BY <1>3, <1>4 DEF LedgerTold

\* A comment or an issue announces the failure of its job.
LEMMA AnnouncementTells ==
  ASSUME NEW j \in Jobs, Typed,
         \/ /\ issues' = issues \cup {j} /\ UNCHANGED pulls
         \/ /\ UNCHANGED issues
            /\ \E n \in DOMAIN pulls : pulls' = [pulls EXCEPT ![n].comments = @ \cup {j}]
  PROVE  LedgerTold' = LedgerTold \cup {j}
<1>1. CASE issues' = issues \cup {j} /\ UNCHANGED pulls
  BY <1>1 DEF LedgerTold
<1>2. ASSUME NEW n \in DOMAIN pulls, pulls' = [pulls EXCEPT ![n].comments = @ \cup {j}],
             UNCHANGED issues
      PROVE  LedgerTold' = LedgerTold \cup {j}
  <2>1. pulls \in Seq(Pulls) /\ DOMAIN pulls = 1..Len(pulls)
    BY DEF Typed
  <2>2. \A m \in DOMAIN pulls : pulls[m] \in Pulls
    BY <2>1
  <2>3. DOMAIN pulls' = DOMAIN pulls
    BY <1>2, <2>1
  <2>4. pulls'[n].comments = pulls[n].comments \cup {j}
    BY <1>2, <2>1, <2>2 DEF Pulls
  <2>5. \A m \in DOMAIN pulls \ {n} : pulls'[m].comments = pulls[m].comments
    BY <1>2, <2>1
  <2> QED
    BY <1>2, <2>3, <2>4, <2>5 DEF LedgerTold
<1> QED
  BY <1>1, <1>2

\* The stage of a job tells which step it takes.
LEMMA StepAt ==
  ASSUME NEW j \in Jobs, Step(j)
  PROVE  ~At(j, "idle") /\ (At(j, "push") => Push(j)) /\ (At(j, "create") => CreatePull(j))
<1>1. CASE Match(j) \/ EnsureLabels(j) \/ Reconcile(j) \/ Fetch(j)
  BY <1>1 DEF Match, EnsureLabels, Reconcile, Fetch, At
<1>2. CASE Checkout(j) \/ Verify(j) \/ Raced(j)
  BY <1>2 DEF Checkout, Verify, Raced, At
<1>3. CASE Push(j) \/ CreatePull(j)
  BY <1>3 DEF Push, CreatePull, At
<1>4. CASE AddLabel(j) \/ RemoveLabel(j)
  BY <1>4 DEF AddLabel, RemoveLabel, At
<1>5. CASE Notify(j) \/ Comment(j) \/ OpenIssue(j)
  BY <1>5 DEF Notify, Comment, OpenIssue, At
<1> QED
  BY <1>1, <1>2, <1>3, <1>4, <1>5 DEF Step

\* A step of a started job.
LEMMA JobImplements ==
  ASSUME NEW j \in Jobs, IInv, PInv, IInv', Step(j) \/ Cancelled(j)
  PROVE  [Promise!Next]_(Promise!vars)
<1> DEFINE r == job'[j]
<1>1. Typed /\ Sound(job[j], pulls)
  BY DEF IInv
<1>2. ~At(j, "idle")
  BY StepAt DEF Cancelled, At
<1>3. Turn(j, r) /\ Continued(j)
  BY <1>1, <1>2, Turns DEF Continued
<1>4. job[j].outcome = "none" \/ r.outcome = job[j].outcome
  BY <1>1, OutcomeIsFinal
<1>5. ASSUME UNCHANGED <<remote, LedgerPulls, LedgerTold>>
      PROVE  [Promise!Next]_(Promise!vars)
  BY <1>3, <1>4, <1>5, Concludes
<1>6. CASE Plain(j, r) \/ Cancelled(j)
  BY <1>5, <1>6 DEF Plain, Cancelled, GitHubUnchanged, LedgerPulls, LedgerTold
<1>7. CASE Pushes(j, r) /\ Step(j)
  <2>1. Push(j)
    BY <1>7, StepAt DEF Pushes
  <2>2. Promise!Land(j)
    BY <1>3, <1>7, <2>1, PushLands DEF Pushes
  <2> QED
    BY <2>2 DEF Promise!Next
<1>8. CASE Opens(j, r) /\ Step(j)
  <2>1. CreatePull(j)
    BY <1>8, StepAt DEF Opens
  <2>2. Promise!Open(j)
    BY <1>3, <1>8, <2>1, CreationOpens
  <2> QED
    BY <2>2 DEF Promise!Next
<1>9. CASE PutsUp(j, r) \/ TakesDown(j, r) \/ LabelIsLost(j, r)
  <2> DEFINE n == job[j].pull
  <2>1. n \in DOMAIN pulls /\ UNCHANGED <<remote, issues>>
    BY <1>1, <1>9 DEF PutsUp, TakesDown, LabelIsLost, At, Sound
  <2>2. UNCHANGED pulls \/ \E L : pulls' = [pulls EXCEPT ![n].labels = L]
    <3>1. CASE PutsUp(j, r)
      <4> DEFINE L == pulls[n].labels \cup {job[j].want}
      <4>1. pulls' = [pulls EXCEPT ![n].labels = L]
        BY <3>1 DEF PutsUp
      <4> QED
        BY <4>1
    <3>2. CASE TakesDown(j, r)
      <4>1. PICK l : pulls' = [pulls EXCEPT ![n].labels = @ \ {l}]
        BY <3>2 DEF TakesDown
      <4> DEFINE L == pulls[n].labels \ {l}
      <4>2. pulls' = [pulls EXCEPT ![n].labels = L]
        BY <4>1
      <4> QED
        BY <4>2
    <3> QED
      BY <1>9, <3>1, <3>2 DEF LabelIsLost
  <2> HIDE DEF n
  <2>3. UNCHANGED LedgerPulls
    BY <1>1, <2>1, <2>2, PullsStay
  <2>4. UNCHANGED LedgerTold
    BY <1>1, <2>1, <2>2, EditTells
  <2> QED
    BY <1>5, <2>1, <2>3, <2>4
<1>10. CASE Tells(j, r) \/ Files(j, r)
  <2> DEFINE n == job[j].pull
  <2>1. job[j].outcome \in {"FAILED", "ESCALATED"} /\ UNCHANGED remote
    BY <1>1, <1>10 DEF Tells, Files, At, Sound, Failing
  <2>2. UNCHANGED LedgerRun
    BY <1>1, <1>3, <1>4, <2>1, RunStays
  <2>3. UNCHANGED LedgerPulls
    <3>1. CASE Tells(j, r)
      BY <1>1, <3>1, PullsStay DEF Tells, At, Sound
    <3>2. CASE Files(j, r)
      BY <3>2 DEF Files, LedgerPulls
    <3> QED
      BY <1>10, <3>1, <3>2
  <2>4. CASE UNCHANGED <<pulls, issues>>
    BY <1>5, <2>1, <2>3, <2>4 DEF LedgerTold
  <2>5. CASE ~UNCHANGED <<pulls, issues>>
    <3>1. LedgerTold' = LedgerTold \cup {j}
      BY <1>1, <1>10, <2>5, AnnouncementTells DEF Tells, Files, At, Sound
    <3>2. Promise!Tell(j)
      BY <2>1, <2>2, <2>3, <3>1, RunOf DEF Promise!Tell
    <3> QED
      BY <3>2 DEF Promise!Next
  <2> QED
    BY <2>4, <2>5
<1> QED
  BY <1>3, <1>6, <1>7, <1>8, <1>9, <1>10 DEF Turn

\* The start of a job.
LEMMA StartImplements ==
  ASSUME NEW j \in Jobs, IInv, PInv, Start(j)
  PROVE  Promise!Begin(j)
<1>1. Typed /\ Sound(job[j], pulls) /\ At(j, "idle") /\ UNCHANGED <<remote, pulls, issues>>
  BY DEF IInv, Start, GitHubUnchanged
<1>2. PICK c \in 1..base, rep \in {"passed", "FAILED", "ESCALATED"}, p \in Patch :
        Becomes(j, [NewJob EXCEPT !.pc = "match", !.at = c, !.report = rep, !.patch = p,
                                  !.seen = remote])
  BY DEF Start
<1>3. /\ job'[j].pc = "match" /\ job'[j].at = c /\ job'[j].patch = p
      /\ job'[j].outcome = "none"
      /\ \A k \in Jobs \ {j} : job'[k] = job[k]
  BY <1>1, <1>2 DEF Becomes, Typed, NewJob
<1>4. SpecAt[c] \in Specs
  <2>1. c \in BaseCommits
    BY <1>1, BoundsAssumption DEF Typed, BaseCommits
  <2> QED
    BY <2>1 DEF Specs
<1>5. LedgerRun[j] = Promise!NotStarted
  <2>1. job[j].outcome = "none" /\ job[j].patch # "empty"
    BY <1>1 DEF PInv, Fresh, Sound, Delivering, At
  <2> QED
    BY <1>1, <2>1 DEF LedgerRun, Promise!NotStarted
<1> DEFINE Entry(r) == [ work    |-> IF r.pc = "idle" THEN Foreign ELSE SpecAt[r.at],
                         empty   |-> r.patch = "empty",
                         outcome |-> r.outcome ]
           e == p = "empty"
<1>6. LedgerRun = [k \in Jobs |-> Entry(job[k])] /\ LedgerRun' = [k \in Jobs |-> Entry(job'[k])]
  BY DEF LedgerRun, At, SpecOf
<1>7. Entry(job'[j]) = [work |-> SpecAt[c], empty |-> e, outcome |-> "none"]
  BY <1>3
<1>8. e \in BOOLEAN
  OBVIOUS
<1> HIDE DEF Entry, e
<1>9. LedgerRun' = [LedgerRun EXCEPT ![j] = [work |-> SpecAt[c], empty |-> e, outcome |-> "none"]]
  BY <1>3, <1>6, <1>7
<1>10. UNCHANGED <<LedgerPulls, LedgerTold>>
  BY <1>1 DEF LedgerPulls, LedgerTold
<1> QED
  BY <1>1, <1>4, <1>5, <1>8, <1>9, <1>10 DEF Promise!Begin

\* What people do.
LEMMA PeopleImplement ==
  ASSUME IInv, People
  PROVE  [Promise!Next]_(Promise!vars)
<1>1. Typed /\ UNCHANGED <<issues, job>>
  BY PeopleSteps DEF IInv
<1>2. UNCHANGED LedgerRun
  BY <1>1 DEF LedgerRun, At, SpecOf
<1>3. ASSUME UNCHANGED pulls
      PROVE  UNCHANGED <<LedgerPulls, LedgerTold>>
  BY <1>1, <1>3 DEF LedgerPulls, LedgerTold
<1>4. CASE PushSpec
  BY <1>2, <1>3, <1>4 DEF PushSpec, GitHubUnchanged, Promise!vars
<1>5. CASE MakeBranch \/ DropBranch
  <2>1. UNCHANGED pulls /\ remote \in Promise!Unused /\ remote' \in Promise!Unused
    BY <1>1, <1>5, BoundsAssumption DEF MakeBranch, DropBranch, Promise!Unused, Typed, BaseCommits
  <2> QED
    BY <1>2, <1>3, <2>1 DEF Promise!Branch, Promise!Next
<1>6. CASE PushCommit
  BY <1>2, <1>3, <1>6 DEF PushCommit, Promise!Commit, Promise!Next
<1>7. CASE OpenByHand
  <2>1. PICK b \in BaseBranches : Creatable(b) /\ pulls' = Append(pulls, NewPull(Foreign, b))
    BY <1>7 DEF OpenByHand
  <2>2. LedgerPulls' = Append(LedgerPulls, [work |-> Foreign, open |-> TRUE])
    BY <1>1, <2>1, PullsAppended
  <2>3. UNCHANGED LedgerTold
    <3> DEFINE n == Len(pulls) + 1
    <3>1. /\ DOMAIN pulls' = DOMAIN pulls \cup {n} /\ n \notin DOMAIN pulls
          /\ \A m \in DOMAIN pulls : pulls'[m] = pulls[m]
          /\ pulls'[n] = NewPull(Foreign, b)
      BY <1>1, <2>1, AppendKeeps
    <3>2. pulls'[n].comments = {}
      BY <3>1 DEF NewPull
    <3> HIDE DEF n
    <3> QED
      BY <1>1, <3>1, <3>2 DEF LedgerTold
  <2>4. remote \notin Promise!Unused /\ UNCHANGED remote
    BY <1>7, <2>1 DEF OpenByHand, Creatable, Promise!Unused
  <2> QED
    BY <1>2, <2>2, <2>3, <2>4 DEF Promise!OpenByHand, Promise!Next
<1>8. ASSUME NEW n \in DOMAIN pulls, NEW delete \in BOOLEAN, Close(n, delete)
      PROVE  [Promise!Next]_(Promise!vars)
  <2> DEFINE S == IF delete THEN DOMAIN pulls ELSE {n}
  <2>1. pulls \in Seq(Pulls) /\ \A m \in DOMAIN pulls : pulls[m] \in Pulls
    BY <1>1 DEF Typed
  <2>2. /\ DOMAIN pulls' = DOMAIN pulls
        /\ \A m \in DOMAIN pulls :
             /\ pulls'[m].work = pulls[m].work /\ pulls'[m].comments = pulls[m].comments
             /\ pulls'[m].open = (pulls[m].open /\ m \notin S)
    <3>1. CASE delete
      <4>1. pulls' = [m \in DOMAIN pulls |-> [pulls[m] EXCEPT !.open = FALSE]]
        BY <1>8, <3>1 DEF Close
      <4>2. \A m \in DOMAIN pulls : pulls'[m] = [pulls[m] EXCEPT !.open = FALSE]
        BY <4>1
      <4>3. \A m \in DOMAIN pulls : m \in S
        BY <3>1
      <4> HIDE DEF S
      <4> QED
        BY <2>1, <4>1, <4>2, <4>3 DEF Pulls
    <3>2. CASE ~delete
      <4>1. pulls' = [pulls EXCEPT ![n].open = FALSE] /\ S = {n}
        BY <1>8, <3>2 DEF Close
      <4>2. pulls'[n] = [pulls[n] EXCEPT !.open = FALSE] /\ DOMAIN pulls' = DOMAIN pulls
        BY <2>1, <4>1
      <4>3. \A m \in DOMAIN pulls : m # n => pulls'[m] = pulls[m]
        BY <2>1, <4>1
      <4>4. pulls[n] \in Pulls
        BY <2>1
      <4>5. /\ pulls'[n].work = pulls[n].work /\ pulls'[n].comments = pulls[n].comments
            /\ pulls'[n].open = FALSE
        BY <4>2, <4>4 DEF Pulls
      <4>6. \A m \in DOMAIN pulls : m # n => pulls[m].open \in BOOLEAN
        BY <2>1 DEF Pulls
      <4> HIDE DEF S
      <4> QED
        BY <4>1, <4>2, <4>3, <4>5, <4>6
    <3> QED
      BY <3>1, <3>2
  <2>3. UNCHANGED LedgerTold
    BY <1>1, <2>2 DEF LedgerTold
  <2>4. remote' = remote \/ (remote' = Absent /\ S = DOMAIN pulls)
    BY <1>8 DEF Close
  <2>5. S \in SUBSET DOMAIN LedgerPulls /\ DOMAIN LedgerPulls = DOMAIN pulls
    BY DEF LedgerPulls
  <2> HIDE DEF S
  <2>6. LedgerPulls' = [m \in DOMAIN pulls |->
                          [work |-> pulls[m].work, open |-> pulls[m].open /\ m \notin S]]
    BY <2>2 DEF LedgerPulls
  <2>7. \A m \in DOMAIN pulls :
          [LedgerPulls[m] EXCEPT !.open = @ /\ m \notin S]
            = [work |-> pulls[m].work, open |-> pulls[m].open /\ m \notin S]
    BY DEF LedgerPulls
  <2>8. LedgerPulls' = [m \in DOMAIN LedgerPulls |->
                          [LedgerPulls[m] EXCEPT !.open = @ /\ m \notin S]]
    BY <2>5, <2>6, <2>7
  <2>9. Promise!Close(S)
    BY <1>2, <2>3, <2>4, <2>5, <2>8 DEF Promise!Close
  <2> QED
    BY <2>5, <2>9 DEF Promise!Next
<1> QED
  BY <1>4, <1>5, <1>6, <1>7, <1>8 DEF People

\* For any number of jobs, commits, failures and human actions, a delivery is one of
\* the ledger.
THEOREM ImplementsLedger == Spec => KeepsTheDeliveryLedger
<1>1. Init => Promise!Init
  <2> SUFFICES ASSUME Init PROVE Promise!Init
    OBVIOUS
  <2>1. pulls = <<>> /\ DOMAIN pulls = {} /\ issues = {}
    BY DEF Init
  <2>2. LedgerTold = {} /\ LedgerPulls = <<>>
    BY <2>1 DEF LedgerTold, LedgerPulls
  <2>3. LedgerRun = [j \in Jobs |-> Promise!NotStarted]
    BY DEF Init, NewJob, LedgerRun, At, Promise!NotStarted
  <2> QED
    BY <2>2, <2>3 DEF Init, Promise!Init
<1>2. IInv /\ IInv' /\ PInv /\ [Next]_vars => [Promise!Next]_(Promise!vars)
  <2> SUFFICES ASSUME IInv, IInv', PInv, [Next]_vars
               PROVE  [Promise!Next]_(Promise!vars)
    OBVIOUS
  <2>1. CASE UNCHANGED vars
    BY <2>1 DEF vars, Promise!vars, LedgerPulls, LedgerRun, LedgerTold, At, SpecOf
  <2>2. CASE People
    BY <2>2, PeopleImplement
  <2>3. ASSUME NEW j \in Jobs, Start(j)
        PROVE  [Promise!Next]_(Promise!vars)
    BY <2>3, StartImplements DEF Promise!Next
  <2>4. ASSUME NEW j \in Jobs, Step(j) \/ Cancelled(j)
        PROVE  [Promise!Next]_(Promise!vars)
    BY <2>4, JobImplements
  <2> QED
    BY <2>1, <2>2, <2>3, <2>4 DEF Next, Quiet
<1> QED
  BY <1>1, <1>2, IInvInvariant, PInvInvariant, PTL DEF Spec, KeepsTheDeliveryLedger, Promise!Spec
=============================================================================

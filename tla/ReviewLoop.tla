----------------------------- MODULE ReviewLoop -----------------------------
(***************************************************************************)
(* The reviews of one pull request (agent/review_loop.py), from the moment *)
(* their job has its turn.  A review remembers what it has settled in one  *)
(* comment of the pull request and shows its verdict as a status label;    *)
(* both outlive it, nothing else does.  Reviews run one after the other;   *)
(* people push, CodeRabbit writes, edits and changes its mind, and a       *)
(* re-run of the delivery relabels the pull request, between any two calls *)
(* of a review.                                                            *)
(*                                                                         *)
(* One step is one write to GitHub, or a group of reads, with the local    *)
(* work after it: Review reads three lists of comments and asks the        *)
(* classifier about each of a batch, AddLabel sees to the labels of the    *)
(* repository before it adds one to the pull request, Comment looks for    *)
(* its own comment before it writes it.  A step succeeds, fails without    *)
(* effect, or takes effect and its answer is lost.                         *)
(***************************************************************************)
EXTENDS ReviewTerminal, ReviewClassifier, FiniteSets, Sequences

CONSTANTS
  NumHeads,   \* commits of the target branch: Heads = 1..NumHeads
  Items,      \* feedback, one for each version of a comment, in the order of identity
  Inline,     \* the items attached to a commit; the others are conversation comments
  NatureOf,   \* NatureOf[i]: "plain", or about a path that is "missing" or "forbidden"
  Answers,    \* what the classifier may answer
  Words,      \* what a review may find CodeRabbit to have said last
  AutoRepair, \* review.auto_repair_enabled
  Caps,       \* settings of review.max_comments_per_run
  Limit,      \* the smaller of the two review_attempt_limits
  MaxRuns, MaxFaults

ASSUME HeadsAssumption == NumHeads \in Nat \ {0} /\ Heads = 1..NumHeads
ASSUME ItemsAssumption ==
  /\ Items \subseteq Nat /\ IsFiniteSet(Items)
  /\ Inline \subseteq Items
  /\ NatureOf \in [Items -> {"plain", "missing", "forbidden"}]
ASSUME ConfigAssumption ==
  /\ Answers \subseteq AllAnswers /\ Words \subseteq Kinds
  /\ AutoRepair \in BOOLEAN /\ Caps \subseteq Nat /\ Limit \in Nat
ASSUME BoundsAssumption == MaxRuns \in Nat /\ MaxFaults \in Nat

VARIABLES
  head,        \* head commit of the pull request
  listed,      \* the items on the pull request, and those an edit replaced
  on,          \* the commit GitHub shows an item at, 0 if none
  tracks,      \* tracking comments, in order of creation
  labels,      \* status labels of the pull request
  notes,       \* reasons given in comments
  run,         \* the review that runs, or the last one
  starts,      \* reviews so far
  faults,      \* failed calls, cancelled reviews and re-runs of the delivery so far
  relabel,     \* labels that a re-run of the delivery has still to remove
  refused,     \* history: heads with a recorded decision to escalate or to repair
  cut,         \* history: those whose review could not show its verdict, or was relabelled
  cleared,     \* history: items some answer called non-actionable
  read,        \* history: <<i, h>>: a review of commit h looked at item i
  overtaken,   \* history: items dismissed by a review of a commit older than theirs
  fixes        \* history: the items handed to Codex, repair by repair

world   == <<head, listed, on>>
github  == <<tracks, labels, notes>>
history == <<refused, cut, cleared, read, overtaken, fixes>>
vars    == <<world, github, run, starts, faults, relabel, history>>

-----------------------------------------------------------------------------
(* Types *)

EXCLUSIVE_STATUS_LABELS ==
  <<"agent:review", "agent:ready", "agent:escalated", "agent:failed">>
TERMINAL_STATUS_LABELS == {"agent:ready", "agent:escalated", "agent:failed"}
StatusLabels == TERMINAL_STATUS_LABELS \cup {"agent:review"}

ReviewOutcome ==
  {"IN_REVIEW", "REVIEW_FIX_PUSHED", "READY_FOR_HUMAN", "ESCALATED", "FAILED"}

\* head = 0: the record is bound to no commit yet.
ReviewTrack ==
  [ head : 0..NumHeads, attempts : 0..Limit, processed : SUBSET Items ]

PolicyReasons ==
  {"out of scope", "conflicts", "uncertain", "deferred", "unsure", "no paths", "paths outside"}
Reasons ==
  Kinds \cup PolicyReasons \cup
  {"", "forbidden path", "classifier", "attempt limit", "INTERNAL_FAILURE",
   "outage", "PULL_HEAD_MISMATCH", "SPEC_IDENTITY_MISMATCH", "UNSAFE_REVIEW_TRACK",
   "REPAIR_FAILED", "NON_FAST_FORWARD"}

Saves  == {"converge", "more", "escalate", "codex", "ready"}
Afters == {"review", "comment", "notice"} \cup ReviewOutcome
Stages ==
  {"idle", "fetch", "load", "terminal", "sticky", "label", "unlabel", "review", "persist",
   "codex", "push", "comment", "notice", "done"}

\* A review: its stage, the commit it is about, CodeRabbit's last word, the id
\* and the contents of the tracking record, the feedback it collected, what of it was on
\* the commit then, and what it accepted for repair; what comes after a save or a label;
\* the label it applies and those it removes; its result; and, as history, whether a call
\* failed or a delivery interfered, and whether it owes the pull request a verdict it has
\* recorded.
Runs ==
  [ pc : Stages, sha : Heads, kind : Kinds, id : Nat, track : ReviewTrack,
    items : SUBSET Items, current : SUBSET Items, accepted : SUBSET Items,
    then : Saves \cup Afters, want : StatusLabels, todo : SUBSET StatusLabels,
    outcome : ReviewOutcome \cup {"none"}, reason : Reasons, hurt : BOOLEAN, owes : BOOLEAN ]

empty_review_track == [head |-> 0, attempts |-> 0, processed |-> {}]

NewRun(h) ==
  [ pc |-> "fetch", sha |-> h, kind |-> "NONE", id |-> 0, track |-> empty_review_track,
    items |-> {}, current |-> {}, accepted |-> {}, then |-> "review",
    want |-> "agent:review", todo |-> {}, outcome |-> "none", reason |-> "",
    hurt |-> FALSE, owes |-> FALSE ]

\* Type correctness; in particular no record counts more attempts than allowed,
\* and a review that updates a record holds the id of one that exists.
TypeOK ==
  /\ head \in Heads
  /\ listed \in [Items -> {"unwritten", "listed", "replaced"}]
  /\ on \in [Items -> 0..NumHeads]
  /\ tracks \in Seq(ReviewTrack)
  /\ labels \subseteq StatusLabels
  /\ notes \subseteq Reasons
  /\ run \in Runs /\ run.id \in 0..Len(tracks)
  /\ starts \in 0..MaxRuns /\ faults \in 0..MaxFaults
  /\ relabel \subseteq StatusLabels
  /\ refused \subseteq Heads /\ cut \subseteq Heads
  /\ cleared \subseteq Items /\ overtaken \subseteq Items
  /\ read \subseteq Items \X Heads
  /\ fixes \in Seq(SUBSET Items)

\* The delivery opened the pull request and labelled it agent:review.
Init ==
  /\ head = 1
  /\ listed = [i \in Items |-> "unwritten"] /\ on = [i \in Items |-> 0]
  /\ tracks = <<>> /\ labels = {"agent:review"} /\ notes = {}
  /\ run = [NewRun(1) EXCEPT !.pc = "idle"]
  /\ starts = 0 /\ faults = 0 /\ relabel = {}
  /\ refused = {} /\ cut = {} /\ cleared = {} /\ read = {} /\ overtaken = {} /\ fixes = <<>>

-----------------------------------------------------------------------------
(* Steps of a review *)

At(stage) == run.pc = stage

\* The review goes on as the record r, by a call that worked or without a call.
Becomes(r) == run' = r /\ UNCHANGED faults
Goes(stage) == Becomes([run EXCEPT !.pc = stage])

\* The review goes on as the record r because the classifier failed.
Falters(r) == faults < MaxFaults /\ faults' = faults + 1 /\ run' = r

\* The review goes on as the record r because a call failed or its answer is lost.
Suffers(r) == Falters([r EXCEPT !.hurt = TRUE])

StatusLabelOf(outcome) ==
  CASE outcome = "READY_FOR_HUMAN" -> "agent:ready"
    [] outcome = "ESCALATED"       -> "agent:escalated"
    [] outcome = "FAILED"          -> "agent:failed"
    [] OTHER                       -> "agent:review"

\* apply_status_label(label), then go on with after.
Labelling(r, label, after) ==
  [r EXCEPT !.pc = "label", !.want = label, !.then = after, !.todo = {}]

\* _control_plane_failure: any exception is labelled and announced.
Raised(r, outcome, reason) ==
  [Labelling(r, StatusLabelOf(outcome), "notice") EXCEPT !.outcome = outcome,
                                                         !.reason = reason]
Escalates(reason) == Becomes(Raised(run, "ESCALATED", reason))

\* A call that fails is an outage; an answer cut off in its middle is unforeseen.
CallFails(r) ==
  \E code \in {"GITHUB_API_FAILURE", "INTERNAL_FAILURE"} :
    Suffers(Raised(r, OutcomeOfError(code), ReasonOfError(code)))

\* The review is over; nothing of it remains but its result.
Done(r, outcome) ==
  [NewRun(r.sha) EXCEPT !.pc = "done", !.outcome = outcome, !.reason = r.reason,
                        !.hurt = r.hurt]

\* The pull request stays in review; nothing of it changes.
_in_review(r) == Done(r, "IN_REVIEW")

Quiet == UNCHANGED <<world, starts, relabel>>
NoTrace == UNCHANGED history

\* A review that was prepared for the head, or for an earlier one, has its turn.
Start ==
  /\ run.pc \in {"idle", "done"} /\ starts < MaxRuns
  /\ starts' = starts + 1
  /\ \E h \in 1..head : Becomes(NewRun(h))
  /\ UNCHANGED <<world, github, relabel>> /\ NoTrace

\* The head is looked at again, and the marker of the pull request, the Task Spec and the
\* policy are matched, of which any may not fit; without a token nobody can be notified.
Fetch ==
  /\ At("fetch")
  /\ \/ head = run.sha /\ Goes("load")
     \/ head # run.sha /\ Escalates("PULL_HEAD_MISMATCH")
     \/ head = run.sha /\ Escalates("SPEC_IDENTITY_MISMATCH")
     \/ CallFails(run)
     \/ Suffers(Done(run, "FAILED"))
  /\ UNCHANGED github /\ Quiet /\ NoTrace

\* load_review_track.  People may have edited the comment.
load_review_track ==
  /\ At("load")
  /\ \/ Len(tracks) = 0 /\ Goes("terminal")
     \/ /\ Len(tracks) = 1
        /\ Becomes([run EXCEPT !.pc = "terminal", !.id = 1, !.track = tracks[1]])
     \/ Escalates("UNSAFE_REVIEW_TRACK")
     \/ CallFails(run)
  /\ UNCHANGED github /\ Quiet /\ NoTrace

\* The tracking record r is saved; the review goes on with then.
Saving(r, track, then) == [r EXCEPT !.pc = "persist", !.track = track, !.then = then]

Bound(track, h) == [track EXCEPT !.head = h]

\* Mutant: the identities replace those of earlier reviews.
ForgetProcessed(track, S, increment) ==
  [track EXCEPT !.processed = S, !.attempts = IF increment THEN @ + 1 ELSE @]

\* Mutant: an attempt is not counted.
NeverIncrement(track, S, increment) == [track EXCEPT !.processed = @ \cup S]

with_processed(track, S, increment) ==
  [track EXCEPT !.processed = @ \cup S, !.attempts = IF increment THEN @ + 1 ELSE @]

\* _escalate, its first step.
Escalation(r, track, reason) ==
  [Saving(r, Bound(track, r.sha), "escalate") EXCEPT !.reason = reason]

\* What CodeRabbit's last word makes of a review without a verdict to keep.
AfterTerminal(r) ==
  CASE r.kind \in Escalating  -> Escalation(r, r.track, r.kind)
    [] r.kind = "COMPLETED"   -> Labelling(r, "agent:review", "review")
    [] OTHER                  -> Labelling(r, "agent:review", "IN_REVIEW")

\* collect_coderabbit_terminal (see ReviewWakeup for what it may find).
Terminals ==
  /\ At("terminal")
  /\ \/ \E kind \in Words :
          LET r == [run EXCEPT !.kind = kind]
          IN  Becomes(IF run.track.head = run.sha THEN [r EXCEPT !.pc = "sticky"]
                      ELSE AfterTerminal(r))
     \/ CallFails(run)
  /\ UNCHANGED github /\ Quiet /\ NoTrace

\* Mutant: a verdict is kept only if it is a failure.
KeepFailuresOnly(S) ==
  IF "agent:failed" \in S THEN {"FAILED"} ELSE {}

\* The verdict shown by a set of labels: failed before escalated before ready.
StickyOutcome(S) ==
  IF "agent:failed" \in S THEN {"FAILED"}
  ELSE IF "agent:escalated" \in S THEN {"ESCALATED"}
  ELSE IF "agent:ready" \in S THEN {"READY_FOR_HUMAN"} ELSE {}

\* _sticky_terminal_result: the verdict of an unchanged head is kept.
Sticky ==
  /\ At("sticky")
  /\ \/ \E o \in StickyOutcome(labels) : Becomes(Done(run, o))
     \/ StickyOutcome(labels) = {} /\ Becomes(AfterTerminal(run))
     \/ CallFails(run)
  /\ UNCHANGED github /\ Quiet /\ NoTrace

-----------------------------------------------------------------------------
(* Feedback: collection, filter, classification, policy *)

Listed == {i \in Items : listed[i] = "listed"}

\* Mutant: every comment belongs to the head that the record is bound to.
BelongsToRecord(i, h, track) == track.head \in {0, h}

\* A conversation comment belongs to the head that the record is bound to.
applies_to_current_head(i, h, track) ==
  IF on[i] # 0 THEN on[i] = h ELSE track.head \in {0, h}

OnCommit(S, h, track) == {i \in S : applies_to_current_head(i, h, track)}

Skipped(S, h, track) ==
  {i \in S : ~applies_to_current_head(i, h, track) \/ NatureOf[i] = "missing"}

Forbidden(S, h, track) ==
  {i \in S \ Skipped(S, h, track) : NatureOf[i] = "forbidden"}

\* The first n items.
Batch(S, n) == {i \in S : Cardinality({k \in S : k < i}) < n}

\* decide_review_policy: an answer is advice; the code decides.
Action(action, reason) == [action |-> action, reason |-> reason]

decide_review_policy(a) ==
  CASE a.class = "NON_ACTIONABLE"      -> Action("IGNORE", "")
    [] a.class = "OUT_OF_SCOPE"        -> Action("ESCALATE", "out of scope")
    [] a.class = "CONFLICTS_WITH_SPEC" -> Action("ESCALATE", "conflicts")
    [] a.class = "UNCERTAIN"           -> Action("ESCALATE", "uncertain")
    [] a.class = "ACTIONABLE" /\ ~AutoRepair   -> Action("ESCALATE", "deferred")
    [] a.class = "ACTIONABLE" /\ AutoRepair /\ ~a.confident -> Action("ESCALATE", "unsure")
    [] a.class = "ACTIONABLE" /\ AutoRepair /\ a.confident ->
         CASE a.paths = "none"    -> Action("ESCALATE", "no paths")
           [] a.paths = "outside" -> Action("ESCALATE", "paths outside")
           [] a.paths = "inside"  -> Action("FIX", "")

Deciding(answer, action) ==
  {i \in DOMAIN answer : decide_review_policy(answer[i]).action = action}

\* Mutant: one repair more than the limit.
OneMoreAttempt(track) == track.attempts <= Limit

MayRepair(track) == track.attempts < Limit

\* What the answers about a batch make of the review r; more: candidates remain.
Judged(r, skipped, answer, more) ==
  LET settled == skipped \cup DOMAIN answer
      refusing == Deciding(answer, "ESCALATE")
      accepted == Deciding(answer, "FIX")
      updated  == with_processed(r.track, settled, FALSE)
      first    == CHOOSE i \in refusing : \A k \in refusing : i <= k
  IN
  IF refusing # {}
  THEN Escalation(r, updated, decide_review_policy(answer[first]).reason)
  ELSE IF accepted = {}
  THEN Saving(r, updated, IF more THEN "more" ELSE "converge")
  ELSE IF ~MayRepair(r.track)
  THEN Escalation(r, updated, "attempt limit")
  ELSE [Saving(r, Bound(with_processed(r.track, settled, TRUE), r.sha), "codex")
          EXCEPT !.accepted = accepted]

\* The review looks at S and learns that the items in C need nothing.
Reads(S, C) == read' = read \cup (S \X {run.sha}) /\ cleared' = cleared \cup C

\* The part of _run_review from the collection of feedback to the next save.
Review ==
  \E cap \in Caps :
  LET unread     == Listed \ run.track.processed
      skipped    == Skipped(unread, run.sha, run.track)
      forbidden  == Forbidden(unread, run.sha, run.track)
      candidates == unread \ (skipped \cup forbidden)
      batch      == Batch(candidates, cap)
      r          == [run EXCEPT !.items = Listed,
                                !.current = OnCommit(Listed, run.sha, run.track)]
  IN
  /\ At("review")
  /\ \/ /\ forbidden # {}
        /\ Becomes(Escalation(r, with_processed(r.track, skipped \cup forbidden, FALSE),
                              "forbidden path"))
        /\ Reads(forbidden, {})
     \/ /\ forbidden = {} /\ batch = {}
        /\ Becomes(Saving(r, with_processed(r.track, skipped, FALSE), "converge"))
        /\ Reads({}, {})
     \/ /\ forbidden = {}    \* CLASSIFIER_FAIL_CLOSED: of the items before it nothing is kept
        /\ \E i \in batch :
             /\ Becomes(Escalation(r, with_processed(r.track, skipped \cup {i}, FALSE),
                                   "classifier"))
             /\ Reads({i}, {})
     \/ /\ forbidden = {} /\ batch # {}
        /\ \E code \in Outages : Falters(Raised(r, OutcomeOfError(code), ReasonOfError(code)))
        /\ Reads({}, {})
     \/ /\ forbidden = {} /\ batch # {}
        /\ \E answer \in [batch -> Answers] :
             /\ Becomes(Judged(r, skipped, answer, candidates # batch))
             /\ Reads(batch, {i \in batch : answer[i].class = "NON_ACTIONABLE"})
     \/ CallFails(run) /\ Reads({}, {})
  /\ overtaken' = overtaken \cup {i \in skipped : on[i] > run.sha}
  /\ UNCHANGED <<github, refused, cut, fixes>> /\ Quiet

-----------------------------------------------------------------------------
(* Saves *)

\* Mutant: the id of a new comment is not passed on.
ForgetId == 0

SavedId == IF run.id = 0 THEN Len(tracks) + 1 ELSE run.id

Saved ==
  IF run.id = 0 THEN Append(tracks, run.track)
  ELSE [tracks EXCEPT ![run.id] = run.track]

\* _convergence_result: nothing is left of what was on the commit when it was collected,
\* wherever GitHub has moved it since.
Converged(r) == r.current \subseteq r.track.processed

AfterSave(r) ==
  CASE r.then = "converge" ->
         IF Converged(r) THEN Saving(r, Bound(r.track, r.sha), "ready") ELSE _in_review(r)
    [] r.then = "more"     -> _in_review(r)
    [] r.then = "ready"    -> Labelling(r, "agent:ready", "READY_FOR_HUMAN")
    [] r.then = "escalate" -> Labelling([r EXCEPT !.owes = TRUE], "agent:escalated", "comment")
    [] r.then = "codex"    -> [r EXCEPT !.pc = "codex", !.owes = TRUE]

Decides == run.then \in {"escalate", "codex"}

\* persist_review_track.
Persist ==
  LET r == [run EXCEPT !.id = SavedId]
      decided == /\ refused' = IF Decides THEN refused \cup {run.sha} ELSE refused
                 /\ tracks' = Saved
  IN
  /\ At("persist")
  /\ \/ decided /\ Becomes(AfterSave(r))
     \/ decided /\ CallFails([run EXCEPT !.owes = @ \/ Decides])
     \/ UNCHANGED <<tracks, refused>> /\ CallFails(run)
  /\ UNCHANGED <<labels, notes, cut, cleared, read, overtaken, fixes>> /\ Quiet

-----------------------------------------------------------------------------
(* The repair *)

\* Codex, the scope check, the validations, the commit: local work that may end
\* in any of their errors.
Codex ==
  /\ At("codex")
  /\ fixes' = Append(fixes, run.accepted)
  /\ \/ run.sha < NumHeads /\ Goes("push")
     \/ \E o \in {"ESCALATED", "FAILED"} : Becomes(Raised(run, o, "REPAIR_FAILED"))
  /\ UNCHANGED <<github, refused, cut, cleared, read, overtaken>> /\ Quiet

\* Mutant: a rejected push starts the review over.
StartOver == NewRun(run.sha)

Rejected == Raised(run, "ESCALATED", "NON_FAST_FORWARD")

\* A push: GitHub moves inline comments along, those whose lines it finds again.
Advances ==
  /\ head' = head + 1
  /\ \E S \in SUBSET {i \in Inline : listed[i] = "listed" /\ on[i] = head} :
       on' = [i \in Items |-> IF i \in S THEN head + 1 ELSE on[i]]

\* push_branch: the commit is on top of the one that was reviewed.
Push ==
  LET pushed == head = run.sha /\ Advances
      stays  == UNCHANGED <<head, on>>
      r      == [run EXCEPT !.owes = FALSE]
  IN
  /\ At("push")
  /\ \/ pushed /\ Becomes(Labelling(r, "agent:review", "REVIEW_FIX_PUSHED"))
     \/ pushed /\ CallFails(r)
     \/ head # run.sha /\ stays /\ Becomes(Rejected)
     \/ stays /\ CallFails(run)
  /\ UNCHANGED <<listed, github, starts, relabel>> /\ NoTrace

-----------------------------------------------------------------------------
(* Labels and comments *)

\* apply_status_label is done.
AfterLabel(r) ==
  IF r.then \in ReviewOutcome THEN Done(r, r.then) ELSE [r EXCEPT !.pc = r.then, !.todo = {}]

\* A failed call ends the review in a failure; that of a failure is ignored.
LabelFails(r) ==
  IF r.outcome = "none" THEN CallFails(r) ELSE Suffers([r EXCEPT !.pc = "notice", !.todo = {}])

OtherLabels(l) == StatusLabels \ {l}

FirstLabel(S) ==
  CHOOSE l \in S : \E i \in 1..4 : /\ l = EXCLUSIVE_STATUS_LABELS[i]
                                 /\ \A k \in 1..(i - 1) : EXCLUSIVE_STATUS_LABELS[k] \notin S

AddLabel ==
  LET added == labels' = labels \cup {run.want} /\ UNCHANGED cut
      r     == [run EXCEPT !.owes = @ /\ run.want \notin {"agent:escalated", "agent:failed"}]
  IN
  /\ At("label")
  /\ \/ added /\ Becomes([r EXCEPT !.pc = "unlabel", !.todo = OtherLabels(run.want)])
     \/ added /\ LabelFails(r)
     \/ /\ UNCHANGED labels /\ LabelFails(run)
        /\ cut' = IF run.owes /\ run.outcome # "none" THEN cut \cup {run.sha} ELSE cut
  /\ UNCHANGED <<tracks, notes, refused, cleared, read, overtaken, fixes>> /\ Quiet

RemoveLabel ==
  LET l    == FirstLabel(run.todo)
      rest == run.todo \ {l}
  IN
  /\ At("unlabel")
  /\ \/ /\ labels' = labels \ {l}
        /\ Becomes(IF rest = {} THEN AfterLabel(run) ELSE [run EXCEPT !.todo = rest])
     \/ labels' = labels \ {l} /\ LabelFails(run)
     \/ UNCHANGED labels /\ LabelFails(run)
  /\ UNCHANGED <<tracks, notes>> /\ Quiet /\ NoTrace

\* Mutant: one comment is enough.
AnyComment(S) == IF S = {} THEN {run.reason} ELSE S

\* An escalation gives each reason once.
Explained(S) == S \cup {run.reason}

\* The comment of an escalation; its failure fails the review.
Comment ==
  /\ At("comment")
  /\ \/ notes' = Explained(notes) /\ Becomes(Done(run, "ESCALATED"))
     \/ notes' = Explained(notes) /\ CallFails(run)
     \/ UNCHANGED notes /\ CallFails(run)
  /\ UNCHANGED <<tracks, labels>> /\ Quiet /\ NoTrace

\* The comment of a failure; its own failure is ignored.
Notice ==
  /\ At("notice")
  /\ \/ notes' = notes \cup {run.reason} /\ Becomes(Done(run, run.outcome))
     \/ notes' = notes \cup {run.reason} /\ Suffers(Done(run, run.outcome))
     \/ UNCHANGED notes /\ Suffers(Done(run, run.outcome))
  /\ UNCHANGED <<tracks, labels>> /\ Quiet /\ NoTrace

\* The job is cancelled or runs into its timeout.
Cancelled ==
  /\ run.pc \notin {"idle", "done"}
  /\ Suffers(Done(run, "none"))
  /\ cut' = IF run.owes THEN cut \cup {run.sha} ELSE cut
  /\ UNCHANGED <<github, refused, cleared, read, overtaken, fixes>> /\ Quiet

-----------------------------------------------------------------------------
(* The world around *)

PushCommit ==
  /\ head < NumHeads
  /\ Advances
  /\ UNCHANGED <<listed, github, run, starts, faults, relabel>> /\ NoTrace

\* CodeRabbit writes a comment, about any commit so far if it is an inline one.
Write(i) ==
  /\ listed[i] = "unwritten"
  /\ listed' = [listed EXCEPT ![i] = "listed"]
  /\ \E h \in (IF i \in Inline THEN 1..head ELSE {0}) : on' = [on EXCEPT ![i] = h]
  /\ UNCHANGED <<head, github, run, starts, faults, relabel>> /\ NoTrace

\* CodeRabbit edits the comment k, which makes it the item i.
Edit(k, i) ==
  /\ listed[k] = "listed" /\ listed[i] = "unwritten" /\ (k \in Inline <=> i \in Inline)
  /\ listed' = [listed EXCEPT ![k] = "replaced", ![i] = "listed"]
  /\ on' = [on EXCEPT ![i] = on[k]]
  /\ UNCHANGED <<head, github, run, starts, faults, relabel>> /\ NoTrace

\* The delivery is run again, finds its pull request, and labels it agent:review.
Interferes == run' = [run EXCEPT !.hurt = TRUE]

Redeliver ==
  /\ faults < MaxFaults /\ relabel = {}
  /\ faults' = faults + 1
  /\ labels' = labels \cup {"agent:review"}
  /\ relabel' = OtherLabels("agent:review")
  /\ cut' = cut \cup 1..head
  /\ Interferes
  /\ UNCHANGED <<world, tracks, notes, starts, refused, cleared, read, overtaken, fixes>>

Relabel ==
  /\ relabel # {}
  /\ labels' = labels \ {FirstLabel(relabel)}
  /\ relabel' = relabel \ {FirstLabel(relabel)}
  /\ cut' = cut \cup 1..head
  /\ Interferes
  /\ UNCHANGED <<world, tracks, notes, starts, faults, refused, cleared, read,
                 overtaken, fixes>>

Step ==
  \/ Fetch \/ load_review_track \/ Terminals \/ Sticky \/ Review \/ Persist \/ Codex \/ Push
  \/ AddLabel \/ RemoveLabel \/ Comment \/ Notice

Environment ==
  \/ PushCommit \/ Redeliver \/ Relabel
  \/ \E i \in Items : Write(i) \/ \E k \in Items : Edit(k, i)

Next == Start \/ Step \/ Cancelled \/ Environment

Spec == Init /\ [][Next]_vars

-----------------------------------------------------------------------------
(* Properties *)

\* A review that says ready, or is about to.
Ready ==
  \/ run.want = "agent:ready" /\ run.pc \in {"label", "unlabel"}
  \/ run.outcome = "READY_FOR_HUMAN"

\* "keeping ESCALATED for unchanged HEAD" (review_loop.py:886): once a review has
\* recorded for a commit that a human or a repair is needed, no later review of
\* that commit calls it ready, unless the verdict was never shown as a label
\* (the review was cut off before) or a re-run of the delivery took it away.
\* The branch only goes forward here: a record knows but the last commit it was bound
\* to, and would not recognise a refused one to which people set the branch back.
NoWayBack == Ready => run.sha \notin refused \ cut

\* "review workflow applies agent:ready only after current-HEAD review
\* converges" (labels.py:8): when a review calls a commit ready, each comment on
\* it that it collected was found to be non-actionable, or was acted upon for an
\* earlier commit, by a repair or by people who have pushed since; except where
\* NoWayBack excepts, and for the comments that a review overtaken by a push
\* dismissed unread.
NothingUnread ==
  Ready /\ run.sha \notin cut =>
    \A i \in run.items \ overtaken :
      on[i] = run.sha /\ NatureOf[i] # "missing" =>
        i \in cleared \/ \E h \in 1..(run.sha - 1) : <<i, h>> \in read

\* "Create the tracking comment once" (review_loop.py:792), whatever fails.
OneTrack == Len(tracks) <= 1

\* Over the life of a pull request Codex repairs at most Limit times, and is
\* given no comment twice, through crashes, lost answers and restarts.
RepairsBounded ==
  /\ Len(fixes) <= Limit
  /\ \A m, n \in DOMAIN fixes : m # n => fixes[m] \cap fixes[n] = {}

\* A review that met no failure leaves the label of its outcome on the pull
\* request, and an escalation or a failure has told people why.
OutcomeIsShown ==
  run.pc = "done" /\ ~run.hurt =>
    /\ StatusLabelOf(run.outcome) \in labels
    /\ run.reason = "" \/ run.reason \in notes

Ledger ==
  INSTANCE FeedbackLedger WITH
    done  <- IF tracks = <<>> THEN {} ELSE tracks[1].processed,
    spent <- IF tracks = <<>> THEN 0 ELSE tracks[1].attempts

\* The tracking comment implements FeedbackLedger: no review, crashed or late,
\* takes back what another has settled, or pays a repair twice.
KeepsTheLedger == Ledger!Spec

\* How many more steps a review may take, whatever its calls answer.
StepsLeft(r) ==
  LET raised == r.outcome # "none"
      then   == IF raised THEN 1 ELSE IF r.then = "review" THEN 14 ELSE 6
  IN
  CASE r.pc = "fetch"    -> 22
    [] r.pc = "load"     -> 21
    [] r.pc = "terminal" -> 20
    [] r.pc = "sticky"   -> 19
    [] r.pc = "label"    -> then + 4
    [] r.pc = "unlabel"  -> then + Cardinality(r.todo)
    [] r.pc = "review"   -> 14
    [] r.pc = "persist"  ->
         IF r.then = "codex" THEN 13 ELSE IF r.then = "converge" THEN 12 ELSE 11
    [] r.pc = "codex"    -> 12
    [] r.pc = "push"     -> 11
    [] r.pc = "comment"  -> 6
    [] r.pc = "notice"   -> 1
    [] OTHER             -> 0

\* Every review ends, after 22 of its steps at most, however its calls answer and
\* whatever happens between them: no step, and no handling of an error, starts over.
ReviewIsBounded == [][StepsLeft(run') < StepsLeft(run) \/ ~Step]_vars

-----------------------------------------------------------------------------
(* What the documents say and the code does not do *)

\* A false READY for an unchanged head is ruled out (REFACTORING_REVIEW.md:90):
\* without the exception of NoWayBack.
NeverReadyAgain == Ready => run.sha \notin refused
=============================================================================

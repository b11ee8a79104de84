-------------------------- MODULE ReviewLoopProofs --------------------------
(***************************************************************************)
(* Proofs about ReviewLoop, in seven parts: the operators that change a    *)
(* review; the inductive invariant Inv, with the type invariant, one       *)
(* tracking comment and the bound on repairs; the refinement of            *)
(* FeedbackLedger; the variant that bounds the steps of a review;          *)
(* RefusalInv, from which no commit that was refused becomes ready;        *)
(* ShownInv, from which the outcome of a review is shown; and UnreadInv,   *)
(* from which nothing is unread when a commit is called ready.             *)
(***************************************************************************)
EXTENDS ReviewLoop, SequenceTheorems, FiniteSetTheorems, WellFoundedInduction, TLAPS

\* The stages in which a review has no outcome yet, and those in which it knows
\* the tracking comment.
Early    == {"fetch", "load", "terminal", "sticky", "review", "persist", "codex", "push", "comment"}
PastLoad == {"terminal", "sticky", "label", "unlabel", "review", "persist", "codex", "push",
             "comment", "notice"}
Raising  == {"ESCALATED", "FAILED"}

\* What the tracking comments t record.
Recorded(t) == IF t = <<>> THEN empty_review_track ELSE t[1]

\* A label is applied with what comes after it; that of a raised outcome with the notice.
Matched(r) ==
  IF r.outcome = "none"
  THEN \/ r.want = "agent:review" /\ r.then \in {"review", "IN_REVIEW", "REVIEW_FIX_PUSHED"}
       \/ r.want = "agent:ready" /\ r.then = "READY_FOR_HUMAN"
       \/ r.want = "agent:escalated" /\ r.then = "comment"
  ELSE /\ r.outcome \in Raising
       /\ r.then = "notice" /\ r.want = StatusLabelOf(r.outcome)

Relabels(r, S) == r.pc \in {"label", "unlabel"} /\ r.outcome = "none" /\ r.then \in S

\* The record a review carries is the one it loaded, or it adds to that one: what
\* it has settled and, when it is to repair, one attempt, for feedback that is new.
Carries(r, t) ==
  /\ r.pc \in {"terminal", "sticky"} => r.track = Recorded(t)
  /\ r.pc \in {"review", "codex"} \/ Relabels(r, {"review"}) =>
       /\ r.track.processed = Recorded(t).processed
       /\ r.track.attempts = Recorded(t).attempts
  /\ r.pc = "persist" =>
       /\ r.then \in Saves
       /\ Recorded(t).processed \subseteq r.track.processed
       /\ r.then # "codex" => r.track.attempts = Recorded(t).attempts
       /\ r.then \in {"escalate", "codex"} => r.track.head = r.sha
  /\ r.pc = "persist" /\ r.then = "codex" =>
       /\ r.track.attempts = Recorded(t).attempts + 1
       /\ r.accepted # {} /\ r.accepted \subseteq r.track.processed
       /\ r.accepted \cap Recorded(t).processed = {}
  /\ r.pc = "codex" => r.accepted \subseteq Recorded(t).processed

\* What a review stands for at its stage, with t as the tracking comments.
Sound(r, t) ==
  /\ r \in Runs /\ r.id \in 0..Len(t)
  /\ r.pc \in Early => r.outcome = "none"
  /\ r.pc \in {"fetch", "load"} => r.id = 0 /\ r.track = empty_review_track
  /\ r.pc \in PastLoad /\ r.outcome = "none" => r.id = Len(t)
  /\ r.pc \in {"label", "unlabel"} => Matched(r)
  /\ r.pc = "unlabel" => r.todo # {} /\ r.want \notin r.todo
  /\ r.pc = "notice" => r.outcome \in Raising
  /\ r.pc = "push" => r.sha < NumHeads
  /\ Carries(r, t)

\* The repairs made are among the attempts recorded, for feedback that is settled.
Counted ==
  /\ Len(fixes) <= Recorded(tracks).attempts
  /\ run.pc = "codex" => Len(fixes) < Recorded(tracks).attempts
  /\ \A n \in DOMAIN fixes : fixes[n] \subseteq Recorded(tracks).processed
  /\ run.pc = "codex" => \A n \in DOMAIN fixes : fixes[n] \cap run.accepted = {}
  /\ RepairsBounded

Inv == TypeOK /\ OneTrack /\ Sound(run, tracks) /\ Counted


-----------------------------------------------------------------------------
(* Records *)

\* What a record keeps when a call fails or a label is to be applied.
Same(a, b) ==
  /\ a.sha = b.sha /\ a.kind = b.kind /\ a.id = b.id /\ a.track = b.track /\ a.items = b.items
  /\ a.current = b.current
  /\ a.accepted = b.accepted /\ a.hurt = b.hurt /\ a.owes = b.owes

\* The fields of a record that is to apply a label.
LEMMA LabellingFields ==
  ASSUME NEW r \in Runs, NEW label \in StatusLabels, NEW after \in Afters
  PROVE  LET l == Labelling(r, label, after)
         IN  /\ l \in Runs /\ Same(l, r) /\ l.outcome = r.outcome /\ l.reason = r.reason
             /\ l.pc = "label" /\ l.want = label /\ l.then = after /\ l.todo = {}
BY DEF Labelling, Runs, Stages, Same

\* The fields of a record that has met an exception.
LEMMA RaisedFields ==
  ASSUME NEW r \in Runs, NEW o \in Raising, NEW reason \in Reasons
  PROVE  LET l == Raised(r, o, reason)
         IN  /\ l \in Runs /\ Same(l, r) /\ l.outcome = o /\ l.reason = reason
             /\ l.pc = "label" /\ l.want = StatusLabelOf(o) /\ l.then = "notice" /\ l.todo = {}
<1>1. StatusLabelOf(o) \in StatusLabels
  BY DEF StatusLabelOf, StatusLabels, TERMINAL_STATUS_LABELS
<1> DEFINE k == Labelling(r, StatusLabelOf(o), "notice")
<1>2. /\ k \in Runs /\ Same(k, r)
      /\ k.pc = "label" /\ k.want = StatusLabelOf(o) /\ k.then = "notice" /\ k.todo = {}
  BY <1>1, LabellingFields DEF Afters
<1> HIDE DEF k
<1>3. o \in ReviewOutcome
  BY DEF Raising, ReviewOutcome
<1> QED
  BY <1>2, <1>3 DEF Raised, k, Runs, Same

\* The fields of a record that is to be saved.
LEMMA SavingFields ==
  ASSUME NEW r \in Runs, NEW track \in ReviewTrack, NEW then \in Saves
  PROVE  LET l == Saving(r, track, then)
         IN  /\ l \in Runs /\ l.pc = "persist" /\ l.track = track /\ l.then = then
             /\ l.sha = r.sha /\ l.id = r.id /\ l.accepted = r.accepted /\ l.items = r.items
             /\ l.current = r.current
             /\ l.outcome = r.outcome /\ l.reason = r.reason /\ l.hurt = r.hurt /\ l.owes = r.owes
             /\ l.kind = r.kind
BY DEF Saving, Runs, Stages

\* The fields of a record that escalates.
LEMMA EscalationFields ==
  ASSUME NEW r \in Runs, NEW track \in ReviewTrack, NEW reason \in Reasons
  PROVE  LET l == Escalation(r, track, reason)
         IN  /\ l \in Runs /\ l.pc = "persist" /\ l.then = "escalate"
             /\ l.track = [track EXCEPT !.head = r.sha]
             /\ l.sha = r.sha /\ l.id = r.id /\ l.accepted = r.accepted /\ l.items = r.items
             /\ l.current = r.current
             /\ l.outcome = r.outcome /\ l.reason = reason /\ l.hurt = r.hurt /\ l.owes = r.owes
             /\ l.kind = r.kind
<1> DEFINE b == Bound(track, r.sha)
<1>1. b \in ReviewTrack /\ b = [track EXCEPT !.head = r.sha]
  BY HeadsAssumption DEF Bound, ReviewTrack, Runs
<1> HIDE DEF b
<1> DEFINE k == Saving(r, b, "escalate")
<1>2. /\ k \in Runs /\ k.pc = "persist" /\ k.track = b /\ k.then = "escalate"
      /\ k.sha = r.sha /\ k.id = r.id /\ k.accepted = r.accepted /\ k.items = r.items
      /\ k.current = r.current
      /\ k.outcome = r.outcome /\ k.hurt = r.hurt /\ k.owes = r.owes /\ k.kind = r.kind
  BY <1>1, SavingFields DEF Saves
<1> HIDE DEF k
<1>3. Escalation(r, track, reason) = [k EXCEPT !.reason = reason]
  BY DEF Escalation, k, b
<1> QED
  BY <1>1, <1>2, <1>3 DEF Runs

\* The fields of a record at its beginning and at its end.
LEMMA NewRunFields ==
  ASSUME NEW h \in Heads
  PROVE  LET l == NewRun(h)
         IN  /\ l \in Runs /\ l.pc = "fetch" /\ l.sha = h /\ l.id = 0
             /\ l.track = empty_review_track /\ l.outcome = "none" /\ l.reason = ""
             /\ l.owes = FALSE /\ l.hurt = FALSE
<1>1. empty_review_track \in ReviewTrack
  BY HeadsAssumption, ConfigAssumption DEF empty_review_track, ReviewTrack
<1>2. "review" \in Saves \cup Afters /\ "agent:review" \in StatusLabels /\ "fetch" \in Stages
      /\ "NONE" \in Kinds /\ "" \in Reasons
  BY DEF Afters, StatusLabels, Stages, Kinds, Reasons
<1> QED
  BY <1>1, <1>2 DEF NewRun, Runs

\* A review that is done keeps its commit and its reason, and nothing else.
LEMMA DoneFields ==
  ASSUME NEW r \in Runs, NEW o \in ReviewOutcome \cup {"none"}
  PROVE  LET l == Done(r, o)
         IN  /\ l \in Runs /\ l.pc = "done" /\ l.sha = r.sha /\ l.id = 0
             /\ l.outcome = o /\ l.reason = r.reason
             /\ l.owes = FALSE /\ l.hurt = r.hurt /\ l.want = "agent:review"
<1> DEFINE n == NewRun(r.sha)
<1>1. r.sha \in Heads /\ r.reason \in Reasons /\ r.hurt \in BOOLEAN
  BY DEF Runs
<1>2. n \in Runs /\ n.sha = r.sha /\ n.id = 0 /\ n.owes = FALSE
  BY <1>1, NewRunFields
<1>3. n.want = "agent:review"
  BY DEF NewRun
<1> HIDE DEF n
<1>4. Done(r, o) = [n EXCEPT !.pc = "done", !.outcome = o, !.reason = r.reason, !.hurt = r.hurt]
  BY DEF Done, n
<1>5. "done" \in Stages
  BY DEF Stages
<1> QED
  BY <1>1, <1>2, <1>3, <1>4, <1>5 DEF Runs

-----------------------------------------------------------------------------
(* Sound records *)

\* That a call failed changes nothing else of a record.
LEMMA SoundHurt ==
  ASSUME NEW r, NEW t, Sound(r, t)
  PROVE  Sound([r EXCEPT !.hurt = TRUE], t)
<1> DEFINE h == [r EXCEPT !.hurt = TRUE]
<1>1. /\ h \in Runs /\ h.pc = r.pc /\ h.sha = r.sha /\ h.id = r.id /\ h.track = r.track
      /\ h.items = r.items
      /\ h.current = r.current /\ h.accepted = r.accepted /\ h.then = r.then /\ h.want = r.want
      /\ h.todo = r.todo /\ h.outcome = r.outcome
  BY DEF Sound, Runs
<1> HIDE DEF h
<1>2. (Matched(r) => Matched(h)) /\ \A S : Relabels(h, S) <=> Relabels(r, S)
  BY <1>1 DEF Matched, Relabels
<1>3. Carries(h, t)
  BY <1>1, <1>2 DEF Sound, Carries
<1>4. Sound(h, t)
  BY <1>1, <1>2, <1>3 DEF Sound
<1> QED
  BY <1>4 DEF h

\* A record with an outcome to announce is sound.
LEMMA SoundRaised ==
  ASSUME NEW r \in Runs, NEW t, r.id \in 0..Len(t), NEW o \in Raising, NEW reason \in Reasons
  PROVE  Sound(Raised(r, o, reason), t)
<1> DEFINE l == Raised(r, o, reason)
<1>1. /\ l \in Runs /\ Same(l, r) /\ l.outcome = o
      /\ l.pc = "label" /\ l.want = StatusLabelOf(o) /\ l.then = "notice"
  BY RaisedFields
<1> HIDE DEF l
<1>2. o # "none"
  BY DEF Raising
<1>3. Sound(l, t)
  BY <1>1, <1>2 DEF Sound, Matched, Carries, Relabels, Early, Same
<1> QED
  BY <1>3 DEF l

\* A review that is over is sound, and so is one that begins.
LEMMA SoundDone ==
  ASSUME NEW r \in Runs, NEW t, Len(t) \in Nat, NEW o \in ReviewOutcome \cup {"none"}
  PROVE  Sound(Done(r, o), t)
<1> DEFINE l == Done(r, o)
<1>1. l \in Runs /\ l.pc = "done" /\ l.id = 0
  BY DoneFields
<1> HIDE DEF l
<1>2. Sound(l, t)
  BY <1>1 DEF Sound, Carries, Relabels, Early, PastLoad
<1> QED
  BY <1>2 DEF l

\* A review that begins is sound for every tracking comment.
LEMMA SoundNew ==
  ASSUME NEW h \in Heads, NEW t, Len(t) \in Nat
  PROVE  Sound(NewRun(h), t)
<1> DEFINE l == NewRun(h)
<1>1. l \in Runs /\ l.pc = "fetch" /\ l.id = 0 /\ l.track = empty_review_track /\ l.outcome = "none"
  BY NewRunFields
<1> HIDE DEF l
<1>2. Sound(l, t)
  BY <1>1 DEF Sound, Carries, Relabels, PastLoad
<1> QED
  BY <1>2 DEF l

\* The outcomes and reasons of errors.
LEMMA ErrorTypes ==
  \A code : OutcomeOfError(code) \in Raising /\ ReasonOfError(code) \in Reasons
BY DEF OutcomeOfError, ReasonOfError, Raising, Reasons

\* A step that fails, or that needs no call, leaves the record it goes on with.
LEMMA FaltersSound ==
  ASSUME faults \in 0..MaxFaults, NEW r, NEW t, Sound(r, t), Falters(r)
  PROVE  faults' \in 0..MaxFaults /\ Sound(run', t) /\ run' = r
BY BoundsAssumption DEF Falters

\* The same, when a call failed.
LEMMA SuffersSound ==
  ASSUME faults \in 0..MaxFaults, NEW r, NEW t, Sound(r, t), Suffers(r)
  PROVE  faults' \in 0..MaxFaults /\ Sound(run', t) /\ run'.pc = r.pc
<1>1. Sound([r EXCEPT !.hurt = TRUE], t) /\ r \in Runs
  BY SoundHurt DEF Sound
<1>2. [r EXCEPT !.hurt = TRUE].pc = r.pc
  BY <1>1 DEF Runs
<1> QED
  BY <1>1, <1>2, FaltersSound DEF Suffers

\* A failed call leaves a sound record, about to be labelled.
LEMMA CallFailsSound ==
  ASSUME faults \in 0..MaxFaults, NEW r \in Runs, NEW t, r.id \in 0..Len(t), CallFails(r)
  PROVE  faults' \in 0..MaxFaults /\ Sound(run', t) /\ run'.pc = "label"
<1>1. PICK code \in {"GITHUB_API_FAILURE", "INTERNAL_FAILURE"} :
        Suffers(Raised(r, OutcomeOfError(code), ReasonOfError(code)))
  BY DEF CallFails
<1> DEFINE l == Raised(r, OutcomeOfError(code), ReasonOfError(code))
<1>2. Sound(l, t)
  BY ErrorTypes, SoundRaised
<1>3. l.pc = "label"
  BY ErrorTypes, RaisedFields
<1> HIDE DEF l
<1>4. Suffers(l)
  BY <1>1 DEF l
<1> QED
  BY <1>2, <1>3, <1>4, SuffersSound

\* A step without a call that failed leaves the record it names.
LEMMA BecomesSound ==
  ASSUME faults \in 0..MaxFaults, NEW r, NEW t, Sound(r, t), Becomes(r)
  PROVE  faults' \in 0..MaxFaults /\ Sound(run', t) /\ run' = r
BY DEF Becomes

-----------------------------------------------------------------------------
(* Every step of a review leaves a sound record *)

\* What the inductive invariant says of the record that runs.
LEMMA Facts ==
  ASSUME Inv
  PROVE  /\ run \in Runs /\ run.id \in 0..Len(tracks) /\ Len(tracks) \in Nat
         /\ tracks \in Seq(ReviewTrack) /\ Len(tracks) <= 1
         /\ faults \in 0..MaxFaults /\ run.sha \in Heads
         /\ Recorded(tracks) \in ReviewTrack
<1>1. /\ run \in Runs /\ run.id \in 0..Len(tracks) /\ tracks \in Seq(ReviewTrack)
      /\ faults \in 0..MaxFaults /\ Len(tracks) <= 1
  BY DEF Inv, TypeOK, OneTrack
<1>2. Len(tracks) \in Nat
  BY <1>1
<1>3. empty_review_track \in ReviewTrack
  BY HeadsAssumption, ConfigAssumption DEF empty_review_track, ReviewTrack
<1>4. tracks # <<>> => tracks[1] \in ReviewTrack
  BY <1>1
<1>5. run.sha \in Heads
  BY <1>1 DEF Runs
<1> QED
  BY <1>1, <1>2, <1>3, <1>4, <1>5 DEF Recorded

\* A step that leaves the comment alone leaves a sound record, not about a repair.
Well == faults' \in 0..MaxFaults /\ Sound(run', tracks) /\ run'.pc # "codex"

\* A review that begins.
LEMMA StartWell == ASSUME Inv, Start PROVE Well
<1>1. PICK h \in 1..head : Becomes(NewRun(h))
  BY DEF Start
<1>2. h \in Heads
  BY <1>1, HeadsAssumption DEF Inv, TypeOK
<1>3. NewRun(h).pc = "fetch"
  BY <1>2, NewRunFields
<1> QED
  BY <1>1, <1>2, <1>3, Facts, SoundNew, BecomesSound DEF Well

\* An escalation without a save.
LEMMA EscalatesWell ==
  ASSUME Inv, NEW reason \in Reasons, Escalates(reason)
  PROVE  Well
<1> DEFINE l == Raised(run, "ESCALATED", reason)
<1>1. "ESCALATED" \in Raising
  BY DEF Raising
<1>2. Sound(l, tracks) /\ l.pc = "label"
  BY <1>1, Facts, SoundRaised, RaisedFields
<1> HIDE DEF l
<1>3. Becomes(l)
  BY DEF Escalates, l
<1> QED
  BY <1>2, <1>3, Facts, BecomesSound DEF Well

\* A failed call.
LEMMA CallFailsWell == ASSUME Inv, CallFails(run) PROVE Well
BY Facts, CallFailsSound DEF Well

\* The end of a review, and the end of one that a call cut short.
LEMMA DoneWell ==
  ASSUME Inv, NEW o \in ReviewOutcome \cup {"none"},
         Becomes(Done(run, o)) \/ Suffers(Done(run, o))
  PROVE  Well
<1> DEFINE l == Done(run, o)
<1>1. Sound(l, tracks) /\ l.pc = "done"
  BY Facts, SoundDone, DoneFields
<1> HIDE DEF l
<1>2. Becomes(l) \/ Suffers(l)
  BY DEF l
<1> QED
  BY <1>1, <1>2, Facts, BecomesSound, SuffersSound DEF Well

\* The head and the Task Spec.
LEMMA FetchWell == ASSUME Inv, Fetch PROVE Well
<1>1. CASE Goes("load")
  <2> DEFINE l == [run EXCEPT !.pc = "load"]
  <2>1. /\ l \in Runs /\ l.pc = "load" /\ l.id = run.id /\ l.track = run.track
        /\ l.outcome = run.outcome
    BY Facts DEF Runs, Stages
  <2>2. run.outcome = "none" /\ run.id = 0 /\ run.track = empty_review_track
    BY DEF Fetch, At, Inv, Sound, Early
  <2> HIDE DEF l
  <2>3. Sound(l, tracks)
    BY <2>1, <2>2, Facts DEF Sound, Carries, Relabels, PastLoad
  <2>4. Becomes(l)
    BY <1>1 DEF Goes, l
  <2> QED
    BY <2>1, <2>3, <2>4, Facts, BecomesSound DEF Well
<1>2. /\ "FAILED" \in ReviewOutcome
      /\ "PULL_HEAD_MISMATCH" \in Reasons /\ "SPEC_IDENTITY_MISMATCH" \in Reasons
  BY DEF ReviewOutcome, Reasons
<1> QED
  BY <1>1, <1>2, EscalatesWell, CallFailsWell, DoneWell DEF Fetch

\* The tracking comment.
LEMMA LoadWell == ASSUME Inv, load_review_track PROVE Well
<1>0. run.outcome = "none" /\ run.id = 0 /\ run.track = empty_review_track
  BY DEF load_review_track, At, Inv, Sound, Early
<1>1. CASE Len(tracks) = 0 /\ Goes("terminal")
  <2> DEFINE l == [run EXCEPT !.pc = "terminal"]
  <2>1. /\ l \in Runs /\ l.pc = "terminal" /\ l.id = run.id /\ l.track = run.track
        /\ l.outcome = run.outcome
    BY Facts DEF Runs, Stages
  <2>2. Recorded(tracks) = empty_review_track
    BY <1>1, Facts, EmptySeq DEF Recorded
  <2> HIDE DEF l
  <2>3. Sound(l, tracks)
    BY <1>0, <1>1, <2>1, <2>2, Facts DEF Sound, Carries, Relabels
  <2>4. Becomes(l)
    BY <1>1 DEF Goes, l
  <2> QED
    BY <2>1, <2>3, <2>4, Facts, BecomesSound DEF Well
<1>2. CASE Len(tracks) = 1 /\ Becomes([run EXCEPT !.pc = "terminal", !.id = 1, !.track = tracks[1]])
  <2> DEFINE l == [run EXCEPT !.pc = "terminal", !.id = 1, !.track = tracks[1]]
  <2>1. tracks # <<>> /\ tracks[1] \in ReviewTrack /\ Recorded(tracks) = tracks[1]
    BY <1>2, Facts DEF Recorded
  <2>2. /\ l \in Runs /\ l.pc = "terminal" /\ l.id = 1 /\ l.track = tracks[1]
        /\ l.outcome = run.outcome
    BY <2>1, Facts DEF Runs, Stages
  <2> HIDE DEF l
  <2>3. Sound(l, tracks)
    BY <1>0, <1>2, <2>1, <2>2, Facts DEF Sound, Carries, Relabels
  <2>4. Becomes(l)
    BY <1>2 DEF l
  <2> QED
    BY <2>2, <2>3, <2>4, Facts, BecomesSound DEF Well
<1>3. "UNSAFE_REVIEW_TRACK" \in Reasons
  BY DEF Reasons
<1> QED
  BY <1>1, <1>2, <1>3, EscalatesWell, CallFailsWell DEF load_review_track

\* A record that carries more than what the comment has settled.
LEMMA SoundEscalation ==
  ASSUME NEW r \in Runs, NEW t, r.id = Len(t), Len(t) \in Nat, r.outcome = "none",
         NEW track \in ReviewTrack, NEW reason \in Reasons,
         Recorded(t).processed \subseteq track.processed,
         track.attempts = Recorded(t).attempts
  PROVE  Sound(Escalation(r, track, reason), t) /\ Escalation(r, track, reason).pc = "persist"
<1> DEFINE l == Escalation(r, track, reason)
           b == [track EXCEPT !.head = r.sha]
<1>1. /\ l \in Runs /\ l.pc = "persist" /\ l.then = "escalate" /\ l.track = b
      /\ l.sha = r.sha /\ l.id = r.id /\ l.outcome = r.outcome
  BY EscalationFields
<1>2. b.head = r.sha /\ b.processed = track.processed /\ b.attempts = track.attempts
  BY DEF ReviewTrack
<1> HIDE DEF l, b
<1>3. Carries(l, t)
  BY <1>1, <1>2 DEF Carries, Relabels, Saves
<1>4. Sound(l, t)
  BY <1>1, <1>3 DEF Sound, PastLoad
<1> QED
  BY <1>1, <1>4 DEF l

\* The same of a save that decides nothing.
LEMMA SoundSaving ==
  ASSUME NEW r \in Runs, NEW t, r.id = Len(t), Len(t) \in Nat, r.outcome = "none",
         NEW track \in ReviewTrack, NEW then \in {"more", "converge", "ready"},
         Recorded(t).processed \subseteq track.processed,
         track.attempts = Recorded(t).attempts
  PROVE  Sound(Saving(r, track, then), t) /\ Saving(r, track, then).pc = "persist"
<1> DEFINE l == Saving(r, track, then)
<1>0. then \in Saves
  BY DEF Saves
<1>1. /\ l \in Runs /\ l.pc = "persist" /\ l.then = then /\ l.track = track
      /\ l.sha = r.sha /\ l.id = r.id /\ l.outcome = r.outcome
  BY <1>0, SavingFields
<1> HIDE DEF l
<1>3. Carries(l, t)
  BY <1>1 DEF Carries, Relabels, Saves
<1>4. Sound(l, t)
  BY <1>1, <1>3 DEF Sound, PastLoad
<1> QED
  BY <1>1, <1>4 DEF l

\* A label that announces no outcome, and what comes after it.
LEMMA SoundLabelling ==
  ASSUME NEW r \in Runs, NEW t, r.id = Len(t), Len(t) \in Nat, r.outcome = "none",
         NEW label, NEW after,
         \/ label = "agent:review" /\ after \in {"review", "IN_REVIEW", "REVIEW_FIX_PUSHED"}
         \/ label = "agent:ready" /\ after = "READY_FOR_HUMAN"
         \/ label = "agent:escalated" /\ after = "comment",
         after = "review" => r.track = Recorded(t)
  PROVE  Sound(Labelling(r, label, after), t) /\ Labelling(r, label, after).pc = "label"
<1> DEFINE l == Labelling(r, label, after)
<1>1. label \in StatusLabels /\ after \in Afters
  BY DEF StatusLabels, TERMINAL_STATUS_LABELS, Afters, ReviewOutcome
<1>2. /\ l \in Runs /\ Same(l, r) /\ l.outcome = r.outcome
      /\ l.pc = "label" /\ l.want = label /\ l.then = after
  BY <1>1, LabellingFields
<1> HIDE DEF l
<1>3. Carries(l, t)
  BY <1>2 DEF Carries, Relabels, Same
<1>4. Matched(l)
  BY <1>2 DEF Matched
<1>5. Sound(l, t)
  BY <1>2, <1>3, <1>4 DEF Sound, Early, Same
<1> QED
  BY <1>2, <1>5 DEF l

\* What a terminal makes of a review.
LEMMA AfterTerminalSound ==
  ASSUME NEW r \in Runs, NEW t, r.id = Len(t), Len(t) \in Nat, r.outcome = "none",
         r.track = Recorded(t)
  PROVE  Sound(AfterTerminal(r), t) /\ AfterTerminal(r).pc # "codex"
<1>1. CASE r.kind \in Escalating
  <2>1. AfterTerminal(r) = Escalation(r, r.track, r.kind)
    BY <1>1 DEF AfterTerminal, Escalating
  <2>2. r.track \in ReviewTrack /\ r.kind \in Reasons
    BY DEF Runs, Reasons
  <2> QED
    BY <2>1, <2>2, SoundEscalation
<1>2. CASE r.kind = "COMPLETED"
  <2>1. AfterTerminal(r) = Labelling(r, "agent:review", "review")
    BY <1>2 DEF AfterTerminal, Escalating
  <2> QED
    BY <2>1, SoundLabelling
<1>3. CASE r.kind \notin Escalating /\ r.kind # "COMPLETED"
  <2>1. AfterTerminal(r) = Labelling(r, "agent:review", "IN_REVIEW")
    BY <1>3 DEF AfterTerminal
  <2> QED
    BY <2>1, SoundLabelling
<1> QED
  BY <1>1, <1>2, <1>3

\* CodeRabbit's last word.
LEMMA TerminalsWell == ASSUME Inv, Terminals PROVE Well
<1>0. run.outcome = "none" /\ run.id = Len(tracks) /\ run.track = Recorded(tracks)
  BY DEF Terminals, At, Inv, Sound, Early, PastLoad, Carries
<1>1. ASSUME NEW kind \in Words,
             Becomes(IF run.track.head = run.sha
                     THEN [[run EXCEPT !.kind = kind] EXCEPT !.pc = "sticky"]
                     ELSE AfterTerminal([run EXCEPT !.kind = kind]))
      PROVE  Well
  <2> DEFINE k == [run EXCEPT !.kind = kind]
             l == [k EXCEPT !.pc = "sticky"]
  <2>1. kind \in Kinds
    BY ConfigAssumption
  <2>2. /\ k \in Runs /\ k.id = run.id /\ k.track = run.track /\ k.outcome = run.outcome
    BY <2>1, Facts DEF Runs
  <2>3. Sound(AfterTerminal(k), tracks) /\ AfterTerminal(k).pc # "codex"
    BY <1>0, <2>2, Facts, AfterTerminalSound
  <2> HIDE DEF k
  <2>4. /\ l \in Runs /\ l.pc = "sticky" /\ l.id = k.id /\ l.track = k.track
        /\ l.outcome = k.outcome
    BY <2>2 DEF Runs, Stages
  <2> HIDE DEF l
  <2>5. Sound(l, tracks)
    BY <1>0, <2>2, <2>4, Facts DEF Sound, Carries, Relabels
  <2>6. Becomes(l) \/ Becomes(AfterTerminal(k))
    BY <1>1 DEF k, l
  <2> QED
    BY <2>3, <2>4, <2>5, <2>6, Facts, BecomesSound DEF Well
<1> QED
  BY <1>1, CallFailsWell DEF Terminals

\* The verdict of an unchanged head.
LEMMA StickyWell == ASSUME Inv, Sticky PROVE Well
<1>0. run.outcome = "none" /\ run.id = Len(tracks) /\ run.track = Recorded(tracks)
  BY DEF Sticky, At, Inv, Sound, Early, PastLoad, Carries
<1>1. StickyOutcome(labels) \subseteq ReviewOutcome
  BY DEF StickyOutcome, ReviewOutcome
<1>2. CASE Becomes(AfterTerminal(run))
  BY <1>0, <1>2, Facts, AfterTerminalSound, BecomesSound DEF Well
<1> QED
  BY <1>1, <1>2, DoneWell, CallFailsWell DEF Sticky


-----------------------------------------------------------------------------
(* The policy *)

\* What is added to a record.
LEMMA WithProcessed ==
  ASSUME NEW track \in ReviewTrack, NEW S \in SUBSET Items
  PROVE  /\ with_processed(track, S, FALSE) \in ReviewTrack
         /\ with_processed(track, S, FALSE).processed = track.processed \cup S
         /\ with_processed(track, S, FALSE).attempts = track.attempts
BY DEF with_processed, ReviewTrack

\* The same for a repair, while attempts are left.
LEMMA WithAttempt ==
  ASSUME NEW track \in ReviewTrack, NEW S \in SUBSET Items, MayRepair(track)
  PROVE  /\ with_processed(track, S, TRUE) \in ReviewTrack
         /\ with_processed(track, S, TRUE).processed = track.processed \cup S
         /\ with_processed(track, S, TRUE).attempts = track.attempts + 1
<1>1. track.attempts + 1 \in 0..Limit
  BY ConfigAssumption DEF MayRepair, ReviewTrack
<1> QED
  BY <1>1 DEF with_processed, ReviewTrack

\* Every answer has one of three actions, and a reason.
LEMMA PolicyTypes ==
  ASSUME NEW a \in AllAnswers
  PROVE  decide_review_policy(a).reason \in Reasons
<1>1. a.class \in Classifications /\ a.confident \in BOOLEAN /\ a.paths \in {"none", "inside", "outside"}
  BY DEF AllAnswers
<1>2. CASE a.class = "NON_ACTIONABLE"
  BY <1>2 DEF decide_review_policy, Action, Reasons
<1>3. CASE a.class = "OUT_OF_SCOPE"
  BY <1>3 DEF decide_review_policy, Action, Reasons, PolicyReasons
<1>4. CASE a.class = "CONFLICTS_WITH_SPEC"
  BY <1>4 DEF decide_review_policy, Action, Reasons, PolicyReasons
<1>5. CASE a.class = "UNCERTAIN"
  BY <1>5 DEF decide_review_policy, Action, Reasons, PolicyReasons
<1>6. CASE a.class = "ACTIONABLE" /\ ~AutoRepair
  BY <1>6 DEF decide_review_policy, Action, Reasons, PolicyReasons
<1>7. CASE a.class = "ACTIONABLE" /\ AutoRepair /\ ~a.confident
  BY <1>7 DEF decide_review_policy, Action, Reasons, PolicyReasons
<1>8. CASE a.class = "ACTIONABLE" /\ AutoRepair /\ a.confident
  <2>1. CASE a.paths = "none"
    BY <1>8, <2>1 DEF decide_review_policy, Action, Reasons, PolicyReasons
  <2>2. CASE a.paths = "outside"
    BY <1>8, <2>2 DEF decide_review_policy, Action, Reasons, PolicyReasons
  <2>3. CASE a.paths = "inside"
    BY <1>8, <2>3 DEF decide_review_policy, Action, Reasons, PolicyReasons
  <2> QED
    BY <1>1, <2>1, <2>2, <2>3
<1> QED
  BY <1>1, <1>2, <1>3, <1>4, <1>5, <1>6, <1>7, <1>8, ConfigAssumption DEF Classifications

\* A non-empty set of naturals has a smallest member.
LEMMA SmallestOf ==
  ASSUME NEW T \in SUBSET Nat, T # {}
  PROVE  \E m \in T : \A n \in T : m <= n
<1>1. \E m \in T : \A n \in T : ~ (<<n, m>> \in OpToRel(<, Nat))
  BY NatLessThanWellFounded, WFMin, Zenon
<1>2. \A m, n \in Nat : n < m => <<n, m>> \in OpToRel(<, Nat)
  BY DEF OpToRel
<1>3. \E m \in T : \A n \in T : ~ (n < m)
  BY <1>1, <1>2, Zenon
<1> QED
  BY <1>3

\* What the answers about a batch of unread items make of a review.
LEMMA JudgedSound ==
  ASSUME NEW r \in Runs, NEW t, r.id = Len(t), Len(t) \in Nat, r.outcome = "none",
         r.pc = "review", Carries(r, t), Recorded(t) \in ReviewTrack,
         NEW skipped \in SUBSET Items, NEW batch \in SUBSET Items,
         batch \cap r.track.processed = {},
         NEW answer \in [batch -> Answers], NEW more \in BOOLEAN
  PROVE  /\ Sound(Judged(r, skipped, answer, more), t)
         /\ Judged(r, skipped, answer, more).pc = "persist"
<1> DEFINE settled == skipped \cup batch
           refusing == Deciding(answer, "ESCALATE")
           accepted == Deciding(answer, "FIX")
           updated == with_processed(r.track, settled, FALSE)
           paid == with_processed(r.track, settled, TRUE)
           first == CHOOSE i \in refusing : \A k \in refusing : i <= k
           J == Judged(r, skipped, answer, more)
<1> SUFFICES Sound(J, t) /\ J.pc = "persist"
  OBVIOUS
<1>1. /\ r.track \in ReviewTrack /\ settled \in SUBSET Items
      /\ r.track.processed = Recorded(t).processed /\ r.track.attempts = Recorded(t).attempts
  BY DEF Runs, Carries
<1>2. /\ updated \in ReviewTrack /\ updated.attempts = Recorded(t).attempts
      /\ Recorded(t).processed \subseteq updated.processed
  <2>1. /\ updated \in ReviewTrack /\ updated.processed = r.track.processed \cup settled
        /\ updated.attempts = r.track.attempts
    BY <1>1, WithProcessed
  <2> QED
    BY <1>1, <2>1
<1>3. DOMAIN answer = batch /\ \A i \in batch : answer[i] \in AllAnswers
  BY ConfigAssumption
<1>4. refusing \subseteq batch /\ accepted \subseteq batch
  BY <1>3 DEF Deciding
<1>5. refusing # {} => decide_review_policy(answer[first]).reason \in Reasons
  <2> SUFFICES ASSUME refusing # {}
               PROVE  decide_review_policy(answer[first]).reason \in Reasons
    OBVIOUS
  <2> HIDE DEF refusing
  <2>1. refusing \in SUBSET Nat
    BY <1>4, ItemsAssumption
  <2>2. first \in refusing
    BY <2>1, SmallestOf
  <2> QED
    BY <1>3, <1>4, <2>2, PolicyTypes
<1> HIDE DEF first, updated
<1>6. /\ refusing # {} => J = Escalation(r, updated, decide_review_policy(answer[first]).reason)
      /\ refusing = {} /\ accepted = {} => J = Saving(r, updated, IF more THEN "more" ELSE "converge")
      /\ refusing = {} /\ accepted # {} /\ ~MayRepair(r.track)
           => J = Escalation(r, updated, "attempt limit")
      /\ refusing = {} /\ accepted # {} /\ MayRepair(r.track)
           => J = [Saving(r, Bound(paid, r.sha), "codex") EXCEPT !.accepted = accepted]
  BY <1>3 DEF Judged, first, updated
<1> HIDE DEF refusing, accepted, J
<1>7. CASE refusing # {}
  <2> DEFINE reason == decide_review_policy(answer[first]).reason
  <2>1. reason \in Reasons /\ J = Escalation(r, updated, reason)
    BY <1>5, <1>6, <1>7
  <2> HIDE DEF reason
  <2>2. Sound(Escalation(r, updated, reason), t) /\ Escalation(r, updated, reason).pc = "persist"
    BY <1>2, <2>1, SoundEscalation
  <2> QED
    BY <2>1, <2>2
<1>8. CASE refusing = {} /\ accepted = {}
  <2>1. (IF more THEN "more" ELSE "converge") \in {"more", "converge", "ready"}
    OBVIOUS
  <2> QED
    BY <1>1, <1>2, <1>6, <1>8, <2>1, SoundSaving
<1>9. CASE refusing = {} /\ accepted # {} /\ ~MayRepair(r.track)
  <2>1. "attempt limit" \in Reasons
    BY DEF Reasons
  <2> QED
    <3>1. Sound(Escalation(r, updated, "attempt limit"), t)
          /\ Escalation(r, updated, "attempt limit").pc = "persist"
      BY <1>2, <2>1, SoundEscalation
    <3> QED
      BY <1>6, <1>9, <3>1
<1>10. CASE refusing = {} /\ accepted # {} /\ MayRepair(r.track)
  <2> DEFINE b == Bound(paid, r.sha)
             k == Saving(r, b, "codex")
             l == [k EXCEPT !.accepted = accepted]
  <2>1. /\ paid \in ReviewTrack /\ paid.processed = r.track.processed \cup settled
        /\ paid.attempts = r.track.attempts + 1
    BY <1>1, <1>10, WithAttempt
  <2> HIDE DEF paid
  <2>2. /\ b \in ReviewTrack /\ b.processed = paid.processed /\ b.attempts = paid.attempts
        /\ b.head = r.sha
    BY <2>1, HeadsAssumption DEF Bound, ReviewTrack, Runs
  <2> HIDE DEF b
  <2>3. "codex" \in Saves
    BY DEF Saves
  <2>4. /\ k \in Runs /\ k.pc = "persist" /\ k.track = b /\ k.then = "codex"
        /\ k.sha = r.sha /\ k.id = r.id /\ k.outcome = r.outcome
    BY <2>2, <2>3, SavingFields
  <2> HIDE DEF k
  <2>5. /\ l \in Runs /\ l.pc = "persist" /\ l.track = b /\ l.then = "codex"
        /\ l.sha = r.sha /\ l.id = r.id /\ l.outcome = r.outcome /\ l.accepted = accepted
    BY <1>4, <2>4 DEF Runs
  <2>6. J = l
    BY <1>6, <1>10 DEF k, b, l
  <2> HIDE DEF l
  <2>7. Carries(l, t)
    BY <1>1, <1>4, <1>10, <2>1, <2>2, <2>3, <2>5 DEF Carries, Relabels
  <2>8. Sound(l, t)
    BY <2>5, <2>7 DEF Sound, PastLoad
  <2> QED
    BY <2>5, <2>6, <2>8
<1> QED
  BY <1>7, <1>8, <1>9, <1>10


\* What a review that collects and judges feedback knows of itself.
LEMMA ReviewFacts ==
  ASSUME Inv, At("review")
  PROVE  LET r == [run EXCEPT !.items = Listed,
                              !.current = OnCommit(Listed, run.sha, run.track)]
         IN  /\ r \in Runs /\ r.pc = "review" /\ r.sha = run.sha /\ r.id = run.id
             /\ r.id = Len(tracks) /\ r.track = run.track /\ r.outcome = "none"
             /\ r.track \in ReviewTrack /\ Carries(r, tracks)
             /\ r.track.processed = Recorded(tracks).processed
             /\ r.track.attempts = Recorded(tracks).attempts
             /\ Listed \subseteq Items
<1> DEFINE r == [run EXCEPT !.items = Listed,
                            !.current = OnCommit(Listed, run.sha, run.track)]
<1>1. /\ run.outcome = "none" /\ run.id = Len(tracks)
      /\ run.track.processed = Recorded(tracks).processed
      /\ run.track.attempts = Recorded(tracks).attempts
  BY DEF At, Inv, Sound, Early, PastLoad, Carries
<1>2. Listed \subseteq Items /\ OnCommit(Listed, run.sha, run.track) \subseteq Items
  BY DEF Listed, OnCommit
<1>3. /\ r \in Runs /\ r.pc = "review" /\ r.sha = run.sha /\ r.id = run.id
      /\ r.track = run.track /\ r.outcome = run.outcome /\ r.track \in ReviewTrack
  BY <1>2, Facts DEF Runs, At
<1> HIDE DEF r
<1>4. Carries(r, tracks)
  BY <1>1, <1>3 DEF Carries, Relabels
<1>5. /\ r \in Runs /\ r.pc = "review" /\ r.sha = run.sha /\ r.id = run.id
      /\ r.id = Len(tracks) /\ r.track = run.track /\ r.outcome = "none"
      /\ r.track \in ReviewTrack /\ Carries(r, tracks)
      /\ r.track.processed = Recorded(tracks).processed
      /\ r.track.attempts = Recorded(tracks).attempts
      /\ Listed \subseteq Items
  BY <1>1, <1>2, <1>3, <1>4
<1> QED
  BY <1>5 DEF r

\* A save of what a review has looked at, whatever its policy.
LEMMA SettledSound ==
  ASSUME NEW r \in Runs, NEW t, r.id = Len(t), Len(t) \in Nat, r.outcome = "none",
         r.track \in ReviewTrack, r.track.processed = Recorded(t).processed,
         r.track.attempts = Recorded(t).attempts,
         NEW S \in SUBSET Items, NEW reason \in Reasons
  PROVE  LET track == with_processed(r.track, S, FALSE)
             E == Escalation(r, track, reason)
             C == Saving(r, track, "converge")
         IN  Sound(E, t) /\ E.pc = "persist" /\ Sound(C, t) /\ C.pc = "persist"
<1> DEFINE track == with_processed(r.track, S, FALSE)
<1>1. /\ track \in ReviewTrack /\ track.processed = r.track.processed \cup S
      /\ track.attempts = r.track.attempts
  BY WithProcessed
<1> HIDE DEF track
<1>2. Recorded(t).processed \subseteq track.processed /\ track.attempts = Recorded(t).attempts
  BY <1>1
<1>3. Sound(Escalation(r, track, reason), t) /\ Escalation(r, track, reason).pc = "persist"
  BY <1>1, <1>2, SoundEscalation
<1>4. Sound(Saving(r, track, "converge"), t) /\ Saving(r, track, "converge").pc = "persist"
  BY <1>1, <1>2, SoundSaving
<1> QED
  BY <1>3, <1>4 DEF track

\* The feedback.
LEMMA ReviewWell == ASSUME Inv, Review PROVE Well
<1>1. PICK cap \in Caps : Review!(cap)
  BY DEF Review
<1> DEFINE unread     == Listed \ run.track.processed
           skipped    == Skipped(unread, run.sha, run.track)
           forbidden  == Forbidden(unread, run.sha, run.track)
           candidates == unread \ (skipped \cup forbidden)
           batch      == Batch(candidates, cap)
           r          == [run EXCEPT !.items = Listed,
                                     !.current = OnCommit(Listed, run.sha, run.track)]
<1>2. At("review")
  BY <1>1
<1>3. /\ r \in Runs /\ r.pc = "review" /\ r.sha = run.sha /\ r.id = run.id
      /\ r.id = Len(tracks) /\ r.track = run.track /\ r.outcome = "none"
      /\ r.track \in ReviewTrack /\ Carries(r, tracks)
      /\ r.track.processed = Recorded(tracks).processed
      /\ r.track.attempts = Recorded(tracks).attempts
      /\ Listed \subseteq Items
  BY <1>2, ReviewFacts
<1>4. skipped \in SUBSET Items /\ forbidden \in SUBSET Items /\ batch \in SUBSET Items
      /\ batch \cap r.track.processed = {}
  BY <1>3 DEF Skipped, Forbidden, Batch
<1>5. \/ Becomes(Escalation(r, with_processed(r.track, skipped \cup forbidden, FALSE), "forbidden path"))
      \/ Becomes(Saving(r, with_processed(r.track, skipped, FALSE), "converge"))
      \/ \E i \in batch : Becomes(Escalation(r, with_processed(r.track, skipped \cup {i}, FALSE), "classifier"))
      \/ \E code \in Outages : Falters(Raised(r, OutcomeOfError(code), ReasonOfError(code)))
      \/ \E answer \in [batch -> Answers] : Becomes(Judged(r, skipped, answer, candidates # batch))
      \/ CallFails(run)
  BY <1>1
<1>6. "forbidden path" \in Reasons /\ "classifier" \in Reasons
  BY DEF Reasons
<1> HIDE DEF r, skipped, forbidden, candidates, batch
<1>7. ASSUME NEW S \in SUBSET Items, NEW reason \in Reasons,
             \/ Becomes(Escalation(r, with_processed(r.track, S, FALSE), reason))
             \/ Becomes(Saving(r, with_processed(r.track, S, FALSE), "converge"))
      PROVE  Well
  <2> DEFINE E == Escalation(r, with_processed(r.track, S, FALSE), reason)
             C == Saving(r, with_processed(r.track, S, FALSE), "converge")
  <2>1. Sound(E, tracks) /\ E.pc = "persist" /\ Sound(C, tracks) /\ C.pc = "persist"
    BY <1>3, Facts, SettledSound
  <2>2. Becomes(E) \/ Becomes(C)
    BY <1>7
  <2> HIDE DEF E, C
  <2> QED
    BY <2>1, <2>2, Facts, BecomesSound DEF Well
<1>8. ASSUME NEW code, Falters(Raised(r, OutcomeOfError(code), ReasonOfError(code)))
      PROVE  Well
  <2> DEFINE l == Raised(r, OutcomeOfError(code), ReasonOfError(code))
  <2>1. Sound(l, tracks) /\ l.pc = "label"
    BY <1>3, Facts, ErrorTypes, SoundRaised, RaisedFields
  <2>2. Falters(l)
    BY <1>8
  <2> HIDE DEF l
  <2> QED
    BY <2>1, <2>2, Facts, FaltersSound DEF Well
<1>9. ASSUME NEW answer \in [batch -> Answers], Becomes(Judged(r, skipped, answer, candidates # batch))
      PROVE  Well
  <2> DEFINE more == candidates # batch
             l == Judged(r, skipped, answer, more)
  <2>0. more \in BOOLEAN
    OBVIOUS
  <2>2. Becomes(l)
    BY <1>9
  <2> HIDE DEF more
  <2>1. Sound(l, tracks) /\ l.pc = "persist"
    <3>1. Len(tracks) \in Nat /\ Recorded(tracks) \in ReviewTrack
      BY Facts
    <3> HIDE DEF l
    <3>2. /\ Sound(Judged(r, skipped, answer, more), tracks)
          /\ Judged(r, skipped, answer, more).pc = "persist"
      <4>1. answer \in [batch -> Answers]
        BY <1>9
      <4>2. /\ r \in Runs /\ r.id = Len(tracks) /\ r.outcome = "none" /\ r.pc = "review"
            /\ Carries(r, tracks)
        BY <1>3
      <4>3. skipped \in SUBSET Items /\ batch \in SUBSET Items /\ batch \cap r.track.processed = {}
        BY <1>4
      <4> QED
        BY <2>0, <3>1, <4>1, <4>2, <4>3, JudgedSound
    <3> QED
      BY <3>2 DEF l
  <2> HIDE DEF l
  <2> QED
    BY <2>1, <2>2, Facts, BecomesSound DEF Well
<1>10. skipped \cup forbidden \in SUBSET Items /\ \A i \in batch : skipped \cup {i} \in SUBSET Items
  BY <1>4
<1> QED
  BY <1>4, <1>5, <1>6, <1>7, <1>8, <1>9, <1>10, CallFailsWell


-----------------------------------------------------------------------------
(* The tracking comment *)

\* A save writes the record that a review carries into the only comment.
LEMMA SavedFacts ==
  ASSUME Inv, At("persist")
  PROVE  /\ Saved \in Seq(ReviewTrack) /\ Len(Saved) = 1 /\ SavedId = 1
         /\ Recorded(Saved) = run.track
         /\ run.outcome = "none" /\ run.track \in ReviewTrack
<1>1. run.outcome = "none" /\ run.id = Len(tracks) /\ run.track \in ReviewTrack
  BY Facts DEF At, Inv, Sound, Early, PastLoad, Runs
<1>2. CASE Len(tracks) = 0
  <2>1. tracks = <<>>
    BY <1>2, Facts, EmptySeq
  <2>2. Saved = Append(tracks, run.track) /\ SavedId = 1
    BY <1>1, <1>2 DEF Saved, SavedId
  <2>3. /\ Append(tracks, run.track) \in Seq(ReviewTrack) /\ Len(Append(tracks, run.track)) = 1
        /\ Append(tracks, run.track)[1] = run.track
    BY <1>1, <1>2, Facts
  <2> QED
    BY <1>1, <2>2, <2>3, EmptySeq DEF Recorded
<1>3. CASE Len(tracks) = 1
  <2>1. Saved = [tracks EXCEPT ![1] = run.track] /\ SavedId = 1
    BY <1>1, <1>3 DEF Saved, SavedId
  <2>2. Len(tracks) \in Nat /\ 1 \in 1..Len(tracks)
    BY <1>3
  <2>3. /\ [tracks EXCEPT ![1] = run.track] \in Seq(ReviewTrack)
        /\ Len([tracks EXCEPT ![1] = run.track]) = Len(tracks)
        /\ [tracks EXCEPT ![1] = run.track][1] = run.track
    BY <1>1, <2>2, Facts, ExceptSeq
  <2> QED
    BY <1>1, <1>3, <2>1, <2>3, EmptySeq DEF Recorded
<1>4. Len(tracks) = 0 \/ Len(tracks) = 1
  <2>1. \A n \in Nat : n <= 1 => n = 0 \/ n = 1
    OBVIOUS
  <2>2. Len(tracks) \in Nat /\ Len(tracks) <= 1
    BY Facts
  <2> QED
    BY <2>1, <2>2
<1> QED
  BY <1>2, <1>3, <1>4

\* What a review goes on with after a save is sound for the comment it wrote.
LEMMA AfterSaveSound ==
  ASSUME NEW r \in Runs, NEW t, r.id = 1, Len(t) = 1, r.track = Recorded(t),
         r.outcome = "none", r.then \in Saves,
         r.then \in {"escalate", "codex"} => r.track.head = r.sha,
         r.then = "codex" => r.accepted \subseteq r.track.processed
  PROVE  /\ Sound(AfterSave(r), t)
         /\ AfterSave(r).pc = "codex" <=> r.then = "codex"
         /\ AfterSave(r).pc = "codex" => AfterSave(r).accepted = r.accepted
<1> DEFINE A == AfterSave(r)
<1> SUFFICES /\ Sound(A, t)
             /\ A.pc = "codex" <=> r.then = "codex"
             /\ A.pc = "codex" => A.accepted = r.accepted
  OBVIOUS
<1>0. Len(t) \in Nat /\ r.id = Len(t) /\ "IN_REVIEW" \in ReviewOutcome /\ r.track \in ReviewTrack /\ r.sha \in Heads
  BY DEF ReviewOutcome, Runs
<1>1. CASE r.then = "converge" /\ Converged(r)
  <2> DEFINE b == Bound(r.track, r.sha)
  <2>1. A = Saving(r, b, "ready")
    BY <1>1 DEF AfterSave
  <2>2. /\ b \in ReviewTrack /\ b.processed = r.track.processed /\ b.attempts = r.track.attempts
    BY <1>0, HeadsAssumption DEF Bound, ReviewTrack
  <2> HIDE DEF b, A
  <2>3. Sound(Saving(r, b, "ready"), t) /\ Saving(r, b, "ready").pc = "persist"
    BY <1>0, <2>2, SoundSaving
  <2> QED
    BY <1>1, <2>1, <2>3
<1>2. CASE r.then = "more" \/ (r.then = "converge" /\ ~Converged(r))
  <2>1. A = Done(r, "IN_REVIEW")
    BY <1>2 DEF AfterSave, _in_review
  <2>2. Sound(Done(r, "IN_REVIEW"), t) /\ Done(r, "IN_REVIEW").pc = "done"
    BY <1>0, SoundDone, DoneFields
  <2> QED
    BY <1>2, <2>1, <2>2
<1>3. CASE r.then = "ready"
  <2>1. A = Labelling(r, "agent:ready", "READY_FOR_HUMAN")
    BY <1>3 DEF AfterSave
  <2>2. /\ Sound(Labelling(r, "agent:ready", "READY_FOR_HUMAN"), t)
        /\ Labelling(r, "agent:ready", "READY_FOR_HUMAN").pc = "label"
    BY <1>0, SoundLabelling
  <2> QED
    BY <1>3, <2>1, <2>2
<1>4. CASE r.then = "escalate"
  <2> DEFINE o == [r EXCEPT !.owes = TRUE]
  <2>1. A = Labelling(o, "agent:escalated", "comment")
    BY <1>4 DEF AfterSave
  <2>2. o \in Runs /\ o.id = r.id /\ o.outcome = r.outcome
    BY DEF Runs
  <2> HIDE DEF o
  <2>3. /\ Sound(Labelling(o, "agent:escalated", "comment"), t)
        /\ Labelling(o, "agent:escalated", "comment").pc = "label"
    BY <1>0, <2>2, SoundLabelling
  <2> QED
    BY <1>4, <2>1, <2>3
<1>5. CASE r.then = "codex"
  <2> DEFINE o == [r EXCEPT !.pc = "codex", !.owes = TRUE]
  <2>1. A = o
    BY <1>5 DEF AfterSave
  <2>2. /\ o \in Runs /\ o.id = r.id /\ o.outcome = r.outcome /\ o.pc = "codex"
        /\ o.track = r.track /\ o.accepted = r.accepted
    BY DEF Runs, Stages
  <2> HIDE DEF o
  <2>3. Carries(o, t)
    BY <1>5, <2>2 DEF Carries, Relabels
  <2>4. Sound(o, t)
    BY <2>2, <2>3 DEF Sound
  <2> QED
    BY <1>5, <2>1, <2>2, <2>4
<1> QED
  BY <1>1, <1>2, <1>3, <1>4, <1>5 DEF Saves

\* What a save leaves behind: the comment as it was, or the record in it.
LEMMA PersistSound ==
  ASSUME Inv, Persist
  PROVE  /\ tracks' \in Seq(ReviewTrack) /\ Len(tracks') \in {Len(tracks), 1}
         /\ faults' \in 0..MaxFaults /\ Sound(run', tracks')
         /\ tracks' = tracks \/ Recorded(tracks') = run.track
         /\ run'.pc = "codex" =>
              run.then = "codex" /\ run'.accepted = run.accepted /\ Recorded(tracks') = run.track
<1>1. At("persist")
  BY DEF Persist
<1>2. /\ Saved \in Seq(ReviewTrack) /\ Len(Saved) = 1 /\ SavedId = 1
      /\ Recorded(Saved) = run.track /\ run.outcome = "none" /\ run.track \in ReviewTrack
  BY <1>1, SavedFacts
<1> DEFINE r == [run EXCEPT !.id = SavedId]
           o == [run EXCEPT !.owes = @ \/ Decides]
<1>3. /\ r \in Runs /\ r.id = 1 /\ r.track = run.track /\ r.outcome = run.outcome
      /\ r.then = run.then /\ r.sha = run.sha /\ r.accepted = run.accepted
  BY <1>2, Facts DEF Runs
<1>4. o \in Runs /\ o.id = run.id
  BY Facts DEF Runs, Decides
<1>5. \/ tracks' = Saved /\ Becomes(AfterSave(r))
      \/ tracks' = Saved /\ CallFails(o)
      \/ tracks' = tracks /\ CallFails(run)
  BY DEF Persist
<1> HIDE DEF r, o
<1>6. CASE tracks' = Saved /\ Becomes(AfterSave(r))
  <2>1. /\ run.then \in Saves /\ (run.then \in {"escalate", "codex"} => run.track.head = run.sha)
        /\ run.then = "codex" => run.accepted \subseteq run.track.processed
    BY <1>1 DEF At, Inv, Sound, Carries
  <2>2. /\ Sound(AfterSave(r), Saved)
        /\ AfterSave(r).pc = "codex" <=> r.then = "codex"
        /\ AfterSave(r).pc = "codex" => AfterSave(r).accepted = r.accepted
    BY <1>2, <1>3, <2>1, AfterSaveSound
  <2>3. run' = AfterSave(r) /\ faults' = faults
    BY <1>6 DEF Becomes
  <2> QED
    BY <1>2, <1>3, <1>6, <2>2, <2>3, Facts
<1>7. CASE tracks' = Saved /\ CallFails(o)
  <2>1. o.id \in 0..Len(Saved)
    BY <1>2, <1>4, Facts
  <2> QED
    BY <1>2, <1>4, <1>7, <2>1, Facts, CallFailsSound
<1>8. CASE tracks' = tracks /\ CallFails(run)
  BY <1>8, Facts, CallFailsSound
<1> QED
  BY <1>5, <1>6, <1>7, <1>8


-----------------------------------------------------------------------------
(* The other steps *)

\* The local work of a repair.
LEMMA CodexWell == ASSUME Inv, Codex PROVE Well
<1>0. run.outcome = "none" /\ run.id = Len(tracks) /\ run.sha \in Heads
  BY Facts DEF Codex, At, Inv, Sound, Early, PastLoad
<1>1. CASE run.sha < NumHeads /\ Goes("push")
  <2> DEFINE l == [run EXCEPT !.pc = "push"]
  <2>1. /\ l \in Runs /\ l.pc = "push" /\ l.id = run.id /\ l.sha = run.sha
        /\ l.outcome = run.outcome
    BY Facts DEF Runs, Stages
  <2> HIDE DEF l
  <2>2. Sound(l, tracks)
    BY <1>0, <1>1, <2>1, Facts DEF Sound, Carries, Relabels
  <2>3. Becomes(l)
    BY <1>1 DEF Goes, l
  <2> QED
    BY <2>1, <2>2, <2>3, Facts, BecomesSound DEF Well
<1>2. ASSUME NEW o \in {"ESCALATED", "FAILED"}, Becomes(Raised(run, o, "REPAIR_FAILED"))
      PROVE  Well
  <2> DEFINE l == Raised(run, o, "REPAIR_FAILED")
  <2>1. o \in Raising /\ "REPAIR_FAILED" \in Reasons
    BY DEF Raising, Reasons
  <2>2. Sound(l, tracks) /\ l.pc = "label"
    BY <2>1, Facts, SoundRaised, RaisedFields
  <2>3. Becomes(l)
    BY <1>2
  <2> HIDE DEF l
  <2> QED
    BY <2>2, <2>3, Facts, BecomesSound DEF Well
<1> QED
  BY <1>1, <1>2 DEF Codex

\* The push of a repair.
LEMMA PushWell == ASSUME Inv, Push PROVE Well
<1>0. run.outcome = "none" /\ run.id = Len(tracks)
  BY DEF Push, At, Inv, Sound, Early, PastLoad
<1> DEFINE r == [run EXCEPT !.owes = FALSE]
           l == Labelling(r, "agent:review", "REVIEW_FIX_PUSHED")
           e == Raised(run, "ESCALATED", "NON_FAST_FORWARD")
<1>1. r \in Runs /\ r.id = run.id /\ r.outcome = run.outcome
  BY Facts DEF Runs
<1>2. Becomes(l) \/ CallFails(r) \/ Becomes(e) \/ CallFails(run)
  BY DEF Push, Rejected
<1> HIDE DEF r
<1>3. Sound(l, tracks) /\ l.pc = "label"
  BY <1>0, <1>1, Facts, SoundLabelling
<1>4. "ESCALATED" \in Raising /\ "NON_FAST_FORWARD" \in Reasons
  BY DEF Raising, Reasons
<1>5. Sound(e, tracks) /\ e.pc = "label"
  BY <1>4, Facts, SoundRaised, RaisedFields
<1> HIDE DEF l, e
<1>6. CASE Becomes(l) \/ Becomes(e)
  BY <1>3, <1>5, <1>6, Facts, BecomesSound DEF Well
<1>7. CASE CallFails(r)
  <2>1. faults' \in 0..MaxFaults /\ Sound(run', tracks) /\ run'.pc = "label"
    BY <1>1, <1>7, Facts, CallFailsSound
  <2> QED
    BY <2>1 DEF Well
<1> QED
  BY <1>2, <1>6, <1>7, CallFailsWell

\* A failed call about a label.
LEMMA LabelFailsWell ==
  ASSUME Inv, run.pc \in {"label", "unlabel"},
         NEW r \in Runs, r.id = run.id, r.outcome = run.outcome, LabelFails(r)
  PROVE  Well
<1>0. r.id \in 0..Len(tracks) /\ (r.outcome # "none" => r.outcome \in Raising)
  BY Facts DEF Inv, Sound, Matched
<1>1. CASE r.outcome = "none" /\ CallFails(r)
  <2>1. faults' \in 0..MaxFaults /\ Sound(run', tracks) /\ run'.pc = "label"
    BY <1>0, <1>1, Facts, CallFailsSound
  <2> QED
    BY <2>1 DEF Well
<1>2. CASE r.outcome # "none" /\ Suffers([r EXCEPT !.pc = "notice", !.todo = {}])
  <2> DEFINE l == [r EXCEPT !.pc = "notice", !.todo = {}]
  <2>1. l \in Runs /\ l.pc = "notice" /\ l.id = r.id /\ l.outcome = r.outcome
    BY DEF Runs, Stages
  <2>2. Suffers(l)
    BY <1>2
  <2> HIDE DEF l
  <2>3. Sound(l, tracks)
    BY <1>0, <1>2, <2>1, Facts DEF Sound, Carries, Relabels, Early
  <2> QED
    BY <2>1, <2>2, <2>3, Facts, SuffersSound DEF Well
<1> QED
  BY <1>1, <1>2 DEF LabelFails

\* The label is added.
LEMMA AddLabelWell == ASSUME Inv, AddLabel PROVE Well
<1> DEFINE r == [run EXCEPT !.owes = @ /\ run.want \notin {"agent:escalated", "agent:failed"}]
           l == [r EXCEPT !.pc = "unlabel", !.todo = OtherLabels(run.want)]
<1>1. /\ r \in Runs /\ r.pc = run.pc /\ r.sha = run.sha /\ r.id = run.id /\ r.track = run.track
      /\ r.accepted = run.accepted /\ r.then = run.then /\ r.want = run.want
      /\ r.outcome = run.outcome
  BY Facts DEF Runs
<1>2. Becomes(l) \/ LabelFails(r) \/ LabelFails(run)
  BY DEF AddLabel
<1>3. run.pc = "label" /\ run.want \in StatusLabels
  BY Facts DEF AddLabel, At, Runs
<1> HIDE DEF r
<1>4. /\ OtherLabels(run.want) \in SUBSET StatusLabels /\ OtherLabels(run.want) # {}
      /\ run.want \notin OtherLabels(run.want)
  BY DEF OtherLabels, StatusLabels, TERMINAL_STATUS_LABELS
<1>5. /\ l \in Runs /\ l.pc = "unlabel" /\ l.sha = run.sha /\ l.id = run.id /\ l.track = run.track
      /\ l.then = run.then /\ l.want = run.want
      /\ l.outcome = run.outcome /\ l.todo = OtherLabels(run.want)
  BY <1>1, <1>4 DEF Runs, Stages
<1> HIDE DEF l
<1>6. /\ Matched(run) /\ Carries(run, tracks) /\ run.id \in 0..Len(tracks)
      /\ run.outcome = "none" => run.id = Len(tracks)
  BY <1>3 DEF Inv, Sound, PastLoad
<1>7. Matched(l)
  BY <1>5, <1>6 DEF Matched
<1>8. Carries(l, tracks)
  BY <1>3, <1>5, <1>6 DEF Carries, Relabels
<1>9. Sound(l, tracks)
  BY <1>4, <1>5, <1>6, <1>7, <1>8 DEF Sound, Early
<1>10. CASE Becomes(l)
  BY <1>5, <1>9, <1>10, Facts, BecomesSound DEF Well
<1> QED
  BY <1>1, <1>2, <1>3, <1>10, Facts, LabelFailsWell

\* A label is removed.
LEMMA RemoveLabelWell == ASSUME Inv, RemoveLabel PROVE Well
<1> DEFINE rest == run.todo \ {FirstLabel(run.todo)}
           l == [run EXCEPT !.todo = rest]
           A == AfterLabel(run)
<1>1. Becomes(IF rest = {} THEN A ELSE l) \/ LabelFails(run)
  BY DEF RemoveLabel
<1>2. /\ run.pc = "unlabel" /\ Matched(run) /\ Carries(run, tracks) /\ run.id \in 0..Len(tracks)
      /\ run.outcome = "none" => run.id = Len(tracks)
      /\ run.want \notin run.todo
  BY DEF RemoveLabel, At, Inv, Sound, PastLoad
<1>3. /\ l \in Runs /\ l.pc = "unlabel" /\ l.sha = run.sha /\ l.id = run.id /\ l.track = run.track
      /\ l.then = run.then /\ l.want = run.want /\ l.outcome = run.outcome /\ l.todo = rest
  BY <1>2, Facts DEF Runs
<1> HIDE DEF l
<1>4. rest # {} => Sound(l, tracks)
  <2>1. Matched(l)
    BY <1>2, <1>3 DEF Matched
  <2>2. Carries(l, tracks)
    BY <1>2, <1>3 DEF Carries, Relabels
  <2> QED
    BY <1>2, <1>3, <2>1, <2>2 DEF Sound, Early
<1>5. Sound(A, tracks) /\ A.pc # "codex"
  <2>1. CASE run.then \in ReviewOutcome
    <3> DEFINE o == run.then
    <3>1. A = Done(run, o) /\ o \in ReviewOutcome \cup {"none"}
      BY <2>1 DEF AfterLabel
    <3> HIDE DEF o
    <3>2. Sound(Done(run, o), tracks) /\ Done(run, o).pc = "done"
      BY <3>1, Facts, SoundDone, DoneFields
    <3> QED
      BY <3>1, <3>2
  <2>2. CASE run.then \notin ReviewOutcome
    <3> DEFINE k == [run EXCEPT !.pc = run.then, !.todo = {}]
    <3>1. A = k
      BY <2>2 DEF AfterLabel
    <3>2. run.then \in {"review", "comment", "notice"}
      BY <1>2, <2>2 DEF Matched, ReviewOutcome
    <3>3. /\ k \in Runs /\ k.pc = run.then /\ k.sha = run.sha /\ k.id = run.id
          /\ k.track = run.track /\ k.outcome = run.outcome
      BY <3>2, Facts DEF Runs, Stages
    <3> HIDE DEF k
    <3>4. Carries(k, tracks)
      BY <1>2, <3>2, <3>3 DEF Carries, Relabels, Matched
    <3>5. Sound(k, tracks)
      BY <1>2, <3>2, <3>3, <3>4 DEF Sound, Early, Matched
    <3> QED
      BY <3>1, <3>2, <3>3, <3>5
  <2> QED
    BY <2>1, <2>2
<1> HIDE DEF A, rest
<1>6. CASE Becomes(IF rest = {} THEN A ELSE l)
  <2>1. (rest = {} /\ Becomes(A)) \/ (rest # {} /\ Becomes(l))
    BY <1>6
  <2> QED
    BY <1>3, <1>4, <1>5, <2>1, Facts, BecomesSound DEF Well
<1> QED
  BY <1>1, <1>2, <1>6, Facts, LabelFailsWell

\* The comments, and the end of a job.
LEMMA CommentWell == ASSUME Inv, Comment PROVE Well
<1>1. "ESCALATED" \in ReviewOutcome \cup {"none"}
  BY DEF ReviewOutcome
<1> QED
  BY <1>1, DoneWell, CallFailsWell DEF Comment

\* The same for a failure.
LEMMA NoticeWell == ASSUME Inv, Notice PROVE Well
<1>1. run.outcome \in ReviewOutcome \cup {"none"}
  BY Facts DEF Runs
<1> QED
  BY <1>1, DoneWell DEF Notice

\* The same for a job that is cancelled.
LEMMA CancelledWell == ASSUME Inv, Cancelled PROVE Well
<1>1. "none" \in ReviewOutcome \cup {"none"}
  OBVIOUS
<1> QED
  BY <1>1, DoneWell DEF Cancelled


-----------------------------------------------------------------------------
(* The inductive invariant *)

\* What Well says of the types.
LEMMA WellTypes ==
  ASSUME Well
  PROVE  run' \in Runs /\ run'.id \in 0..Len(tracks) /\ faults' \in 0..MaxFaults
BY DEF Well, Sound

\* A push, of a repair or of a person, stays within the commits.
LEMMA AdvancesTypes ==
  ASSUME TypeOK, head < NumHeads, Advances
  PROVE  head' \in Heads /\ on' \in [Items -> 0..NumHeads]
<1>1. head' = head + 1 /\ head + 1 \in Heads
  BY HeadsAssumption DEF TypeOK, Advances
<1>2. head + 1 \in 0..NumHeads
  BY <1>1, HeadsAssumption
<1> QED
  BY <1>1, <1>2 DEF TypeOK, Advances

\* Every step keeps the types.
LEMMA TypeStep == Inv /\ [Next]_vars => TypeOK'
<1> SUFFICES ASSUME Inv, [Next]_vars
             PROVE  TypeOK'
  OBVIOUS
<1> USE DEF Inv, Quiet, NoTrace, world, github, history
<1>1. CASE Start
  <2>1. starts' \in 0..MaxRuns
    BY <1>1, BoundsAssumption DEF Start, TypeOK
  <2> QED
    BY <1>1, <2>1, StartWell, WellTypes DEF Start, TypeOK
<1>2. CASE Fetch
  BY <1>2, FetchWell, WellTypes DEF Fetch, TypeOK
<1>3. CASE load_review_track
  BY <1>3, LoadWell, WellTypes DEF load_review_track, TypeOK
<1>4. CASE Terminals
  BY <1>4, TerminalsWell, WellTypes DEF Terminals, TypeOK
<1>5. CASE Sticky
  BY <1>5, StickyWell, WellTypes DEF Sticky, TypeOK
<1>6. CASE Review
  <2>1. PICK cap \in Caps : Review!(cap)
    BY <1>6 DEF Review
  <2> DEFINE unread     == Listed \ run.track.processed
             skipped    == Skipped(unread, run.sha, run.track)
             forbidden  == Forbidden(unread, run.sha, run.track)
             batch      == Batch(unread \ (skipped \cup forbidden), cap)
  <2>2. skipped \subseteq Items /\ forbidden \subseteq Items /\ batch \subseteq Items
    BY DEF Skipped, Forbidden, Batch, Listed
  <2>3. \E S, C \in SUBSET Items : Reads(S, C)
    <3> HIDE DEF skipped, forbidden
    <3>1. \/ \E S \in SUBSET Items : Reads(S, {})
          \/ \E C \in SUBSET batch : Reads(batch, C)
      <4>1. \/ Reads(forbidden, {}) \/ Reads({}, {}) \/ (\E i \in batch : Reads({i}, {}))
            \/ (\E C \in SUBSET batch : Reads(batch, C))
        BY <2>1 DEF skipped, forbidden
      <4> HIDE DEF batch
      <4> QED
        BY <2>2, <4>1
    <3> QED
      BY <2>2, <3>1
  <2>4. overtaken' = overtaken \cup {i \in skipped : on[i] > run.sha}
    BY <2>1
  <2> HIDE DEF unread, skipped, forbidden, batch
  <2>5. overtaken' \subseteq Items
    BY <2>2, <2>4 DEF TypeOK
  <2>6. read' \subseteq Items \X Heads /\ cleared' \subseteq Items
    BY <2>3, Facts DEF Reads, TypeOK
  <2> QED
    BY <1>6, <2>5, <2>6, ReviewWell, WellTypes DEF Review, TypeOK
<1>7. CASE Persist
  <2>1. tracks' \in Seq(ReviewTrack) /\ faults' \in 0..MaxFaults /\ Sound(run', tracks')
    BY <1>7, PersistSound
  <2>2. run' \in Runs /\ run'.id \in 0..Len(tracks')
    BY <2>1 DEF Sound
  <2>3. refused' \subseteq Heads
    BY <1>7, Facts DEF Persist, TypeOK
  <2> QED
    BY <1>7, <2>1, <2>2, <2>3 DEF Persist, TypeOK
<1>8. CASE Codex
  <2>1. fixes' \in Seq(SUBSET Items)
    BY <1>8, Facts DEF Codex, TypeOK, Runs
  <2> QED
    BY <1>8, <2>1, CodexWell, WellTypes DEF Codex, TypeOK
<1>9. CASE Push
  <2>1. head' \in Heads /\ on' \in [Items -> 0..NumHeads]
    <3>1. run.sha < NumHeads
      BY <1>9 DEF Push, At, Sound
    <3>2. (head = run.sha /\ Advances) \/ UNCHANGED <<head, on>>
      BY <1>9 DEF Push
    <3> QED
      BY <3>1, <3>2, AdvancesTypes DEF TypeOK
  <2> QED
    BY <1>9, <2>1, PushWell, WellTypes DEF Push, TypeOK
<1>10. CASE AddLabel
  <2>1. labels' \subseteq StatusLabels /\ cut' \subseteq Heads
    BY <1>10, Facts DEF AddLabel, TypeOK, Runs
  <2> QED
    BY <1>10, <2>1, AddLabelWell, WellTypes DEF AddLabel, TypeOK
<1>11. CASE RemoveLabel
  BY <1>11, RemoveLabelWell, WellTypes DEF RemoveLabel, TypeOK
<1>12. CASE Comment
  <2>1. notes' \subseteq Reasons
    BY <1>12, Facts DEF Comment, Explained, TypeOK, Runs
  <2> QED
    BY <1>12, <2>1, CommentWell, WellTypes DEF Comment, TypeOK
<1>13. CASE Notice
  <2>1. notes' \subseteq Reasons
    BY <1>13, Facts DEF Notice, TypeOK, Runs
  <2> QED
    BY <1>13, <2>1, NoticeWell, WellTypes DEF Notice, TypeOK
<1>14. CASE Cancelled
  <2>1. cut' \subseteq Heads
    BY <1>14, Facts DEF Cancelled, TypeOK
  <2> QED
    BY <1>14, <2>1, CancelledWell, WellTypes DEF Cancelled, TypeOK
<1>15. CASE PushCommit
  BY <1>15, AdvancesTypes DEF PushCommit, TypeOK
<1>16. CASE Redeliver \/ Relabel
  <2>1. run' \in Runs /\ run'.id = run.id
    BY <1>16 DEF Redeliver, Relabel, Interferes, TypeOK, Runs
  <2>2. cut' \subseteq Heads
    <3>1. 1..head \subseteq Heads
      BY HeadsAssumption DEF TypeOK
    <3>2. cut' = cut \cup 1..head
      BY <1>16 DEF Redeliver, Relabel
    <3> QED
      BY <3>1, <3>2 DEF TypeOK
  <2>3. faults' \in 0..MaxFaults
    BY <1>16, BoundsAssumption DEF Redeliver, Relabel, TypeOK
  <2>4. labels' \subseteq StatusLabels /\ relabel' \subseteq StatusLabels
    BY <1>16 DEF Redeliver, Relabel, TypeOK, OtherLabels, StatusLabels
  <2> QED
    BY <1>16, <2>1, <2>2, <2>3, <2>4 DEF Redeliver, Relabel, TypeOK
<1>17. ASSUME NEW i \in Items, Write(i) PROVE TypeOK'
  <2>1. listed' \in [Items -> {"unwritten", "listed", "replaced"}]
    BY <1>17 DEF Write, TypeOK
  <2>2. on' \in [Items -> 0..NumHeads]
    <3>1. (IF i \in Inline THEN 1..head ELSE {0}) \subseteq 0..NumHeads
      BY HeadsAssumption DEF TypeOK
    <3> QED
      BY <1>17, <3>1 DEF Write, TypeOK
  <2> QED
    BY <1>17, <2>1, <2>2 DEF Write, TypeOK
<1>18. ASSUME NEW i \in Items, NEW k \in Items, Edit(k, i) PROVE TypeOK'
  <2>1. listed' \in [Items -> {"unwritten", "listed", "replaced"}]
    BY <1>18 DEF Edit, TypeOK
  <2>2. on' \in [Items -> 0..NumHeads]
    BY <1>18 DEF Edit, TypeOK
  <2> QED
    BY <1>18, <2>1, <2>2 DEF Edit, TypeOK
<1>19. CASE UNCHANGED vars
  BY <1>19 DEF vars, TypeOK
<1> QED
  BY <1>1, <1>2, <1>3, <1>4, <1>5, <1>6, <1>7, <1>8, <1>9, <1>10, <1>11, <1>12, <1>13, <1>14,
     <1>15, <1>16, <1>17, <1>18, <1>19 DEF Next, Step, Environment


\* A step that leaves the comment and the repairs alone.
LEMMA CountedKept ==
  ASSUME Inv, UNCHANGED <<tracks, fixes>>,
         run'.pc # "codex" \/ (run'.pc = run.pc /\ run'.accepted = run.accepted)
  PROVE  Counted'
BY DEF Inv, Counted, RepairsBounded

\* A save keeps what is recorded; before a repair it records one attempt more, for
\* feedback that no repair was made for.
LEMMA CountedPersist == ASSUME Inv, Persist PROVE Counted'
<1>1. /\ tracks' = tracks \/ Recorded(tracks') = run.track
      /\ run'.pc = "codex" =>
           run.then = "codex" /\ run'.accepted = run.accepted /\ Recorded(tracks') = run.track
  BY PersistSound
<1>2. /\ Recorded(tracks).processed \subseteq run.track.processed
      /\ run.then # "codex" => run.track.attempts = Recorded(tracks).attempts
      /\ run.then = "codex" => /\ run.track.attempts = Recorded(tracks).attempts + 1
                               /\ run.accepted \cap Recorded(tracks).processed = {}
  BY DEF Persist, At, Inv, Sound, Carries
<1>3. fixes' = fixes /\ run.pc = "persist"
  BY DEF Persist, At
<1>4. Recorded(tracks).attempts \in Nat /\ Len(fixes) \in Nat
  BY Facts DEF Inv, TypeOK, ReviewTrack
<1>5. /\ Len(fixes) <= Recorded(tracks).attempts
      /\ \A n \in DOMAIN fixes : fixes[n] \subseteq Recorded(tracks).processed
      /\ RepairsBounded
  BY DEF Inv, Counted
<1>6. RepairsBounded'
  BY <1>3, <1>5 DEF RepairsBounded
<1>7. CASE tracks' = tracks /\ run'.pc # "codex"
  BY <1>3, <1>7, CountedKept
<1>8. CASE Recorded(tracks') = run.track
  <2>1. /\ Recorded(tracks') = run.track
        /\ Len(fixes') <= run.track.attempts
        /\ run.then = "codex" => Len(fixes') < run.track.attempts
    BY <1>2, <1>3, <1>4, <1>5, <1>8
  <2>2. \A n \in DOMAIN fixes' : fixes'[n] \subseteq run.track.processed
    BY <1>2, <1>3, <1>5
  <2>3. run'.pc = "codex" => \A n \in DOMAIN fixes' : fixes'[n] \cap run'.accepted = {}
    BY <1>1, <1>2, <1>3, <1>5
  <2> QED
    BY <1>1, <1>6, <2>1, <2>2, <2>3 DEF Counted
<1> QED
  BY <1>1, <1>7, <1>8

\* A repair is one of the attempts recorded, for feedback that had none.
LEMMA CountedCodex == ASSUME Inv, Codex PROVE Counted'
<1>1. /\ fixes' = Append(fixes, run.accepted) /\ tracks' = tracks /\ run'.pc # "codex"
  BY CodexWell DEF Codex, Well, github
<1>2. /\ Len(fixes) < Recorded(tracks).attempts
      /\ \A n \in DOMAIN fixes : fixes[n] \subseteq Recorded(tracks).processed
      /\ \A n \in DOMAIN fixes : fixes[n] \cap run.accepted = {}
      /\ run.accepted \subseteq Recorded(tracks).processed
      /\ RepairsBounded
  BY DEF Codex, At, Inv, Counted, Sound, Carries
<1>3. /\ fixes \in Seq(SUBSET Items) /\ Len(fixes) \in Nat /\ run.accepted \in SUBSET Items
      /\ Recorded(tracks).attempts \in 0..Limit
  BY Facts DEF Inv, TypeOK, Runs, ReviewTrack
<1>4. /\ Len(fixes') = Len(fixes) + 1 /\ DOMAIN fixes' = 1..(Len(fixes) + 1)
      /\ DOMAIN fixes = 1..Len(fixes)
      /\ \A n \in 1..Len(fixes) : fixes'[n] = fixes[n]
      /\ fixes'[Len(fixes) + 1] = run.accepted
  BY <1>1, <1>3
<1>5. \A n \in DOMAIN fixes' : n \in DOMAIN fixes \/ n = Len(fixes) + 1
  BY <1>3, <1>4
<1>6. \A n \in DOMAIN fixes' : fixes'[n] \subseteq Recorded(tracks).processed
  BY <1>2, <1>4, <1>5
<1>7. \A m, n \in DOMAIN fixes' : m # n => fixes'[m] \cap fixes'[n] = {}
  <2> SUFFICES ASSUME NEW m \in DOMAIN fixes', NEW n \in DOMAIN fixes', m # n
               PROVE  fixes'[m] \cap fixes'[n] = {}
    OBVIOUS
  <2>1. CASE m \in DOMAIN fixes /\ n \in DOMAIN fixes
    BY <1>2, <1>4, <2>1 DEF RepairsBounded
  <2>2. CASE m \in DOMAIN fixes /\ n = Len(fixes) + 1
    BY <1>2, <1>4, <2>2
  <2>3. CASE m = Len(fixes) + 1 /\ n \in DOMAIN fixes
    BY <1>2, <1>4, <2>3
  <2> QED
    BY <1>5, <2>1, <2>2, <2>3
<1>8. Len(fixes') <= Recorded(tracks).attempts /\ Len(fixes') <= Limit
  BY <1>2, <1>3, <1>4, ConfigAssumption
<1> QED
  BY <1>1, <1>6, <1>7, <1>8 DEF Counted, RepairsBounded

\* Every step keeps the one comment, the record of the review, and the account of repairs.
LEMMA RecordStep == Inv /\ [Next]_vars => OneTrack' /\ Sound(run, tracks)' /\ Counted'
<1> SUFFICES ASSUME Inv, [Next]_vars
             PROVE  OneTrack' /\ Sound(run', tracks') /\ Counted'
  OBVIOUS
<1>1. CASE Well /\ UNCHANGED <<tracks, fixes>>
  BY <1>1, CountedKept DEF Well, OneTrack, Inv
<1>2. CASE run' = run /\ UNCHANGED <<tracks, fixes>>
  BY <1>2, CountedKept DEF OneTrack, Inv
<1>3. CASE Interferes /\ UNCHANGED <<tracks, fixes>>
  <2>1. run'.pc = run.pc /\ run'.accepted = run.accepted
    BY <1>3, Facts DEF Interferes, Runs
  <2>2. Sound(run', tracks)
    BY <1>3, SoundHurt DEF Interferes, Inv
  <2> QED
    BY <1>3, <2>1, <2>2, CountedKept DEF OneTrack, Inv
<1>4. CASE Persist
  <2>1. Len(tracks') \in {Len(tracks), 1} /\ Sound(run', tracks')
    BY <1>4, PersistSound
  <2>2. Len(tracks) <= 1
    BY Facts
  <2>3. Len(tracks') <= 1
    <3>1. Len(tracks') = Len(tracks) \/ Len(tracks') = 1
      BY <2>1
    <3>2. CASE Len(tracks') = Len(tracks)
      BY <2>2, <3>2
    <3>3. CASE Len(tracks') = 1
      BY <3>3
    <3> QED
      BY <3>1, <3>2, <3>3
  <2> QED
    BY <1>4, <2>1, <2>3, CountedPersist DEF OneTrack
<1>5. CASE Codex
  <2>1. Sound(run', tracks) /\ tracks' = tracks
    BY <1>5, CodexWell DEF Codex, Well, github
  <2> QED
    BY <1>5, <2>1, CountedCodex DEF OneTrack, Inv
<1> USE DEF Quiet, NoTrace, github, history
<1>6. CASE Start \/ Cancelled
  BY <1>1, <1>6, StartWell, CancelledWell DEF Start, Cancelled
<1>7. CASE Fetch \/ load_review_track \/ Terminals \/ Sticky
  BY <1>1, <1>7, FetchWell, LoadWell, TerminalsWell, StickyWell
  DEF Fetch, load_review_track, Terminals, Sticky
<1>8. CASE Review
  BY <1>1, <1>8, ReviewWell DEF Review
<1>9. CASE Push
  BY <1>1, <1>9, PushWell DEF Push
<1>10. CASE AddLabel \/ RemoveLabel
  BY <1>1, <1>10, AddLabelWell, RemoveLabelWell DEF AddLabel, RemoveLabel
<1>11. CASE Comment \/ Notice
  BY <1>1, <1>11, CommentWell, NoticeWell DEF Comment, Notice
<1>12. CASE Environment
  <2>1. CASE Redeliver \/ Relabel
    BY <1>3, <2>1 DEF Redeliver, Relabel
  <2>2. CASE PushCommit
    BY <1>2, <2>2 DEF PushCommit
  <2>3. ASSUME NEW i \in Items, NEW k \in Items, Write(i) \/ Edit(k, i)
        PROVE  OneTrack' /\ Sound(run', tracks') /\ Counted'
    BY <1>2, <2>3 DEF Write, Edit
  <2> QED
    BY <1>12, <2>1, <2>2, <2>3 DEF Environment
<1>13. CASE UNCHANGED vars
  BY <1>2, <1>13 DEF vars
<1> QED
  BY <1>4, <1>5, <1>6, <1>7, <1>8, <1>9, <1>10, <1>11, <1>12, <1>13 DEF Next, Step

\* The invariant holds at first.
LEMMA InitInv == Init => Inv
<1> SUFFICES ASSUME Init
             PROVE  Inv
  OBVIOUS
<1> USE DEF Init
<1>1. 1 \in Heads /\ Heads \subseteq Nat
  BY HeadsAssumption
<1> DEFINE n == NewRun(1)
<1>2. n \in Runs /\ n.pc = "fetch" /\ n.id = 0 /\ n.outcome = "none"
  BY <1>1, NewRunFields
<1> HIDE DEF n
<1>3. run = [n EXCEPT !.pc = "idle"]
  BY DEF n
<1>4. run \in Runs /\ run.pc = "idle" /\ run.id = 0
  BY <1>2, <1>3 DEF Runs, Stages
<1>5. Len(tracks) = 0 /\ Len(fixes) = 0 /\ DOMAIN fixes = {}
  OBVIOUS
<1>6. Recorded(tracks).attempts = 0
  BY DEF Recorded, empty_review_track
<1>7. OneTrack /\ Counted
  BY <1>4, <1>5, <1>6, ConfigAssumption DEF OneTrack, Counted, RepairsBounded
<1>8. run.id \in 0..Len(tracks)
  BY <1>4, <1>5
<1>9. Sound(run, tracks)
  BY <1>4, <1>8 DEF Sound, Carries, Relabels, Early, PastLoad
<1>10. TypeOK
  <2>1. tracks \in Seq(ReviewTrack) /\ fixes \in Seq(SUBSET Items)
    BY EmptySeq
  <2>2. labels \subseteq StatusLabels
    BY DEF StatusLabels
  <2>3. /\ listed \in [Items -> {"unwritten", "listed", "replaced"}]
        /\ on \in [Items -> 0..NumHeads]
    BY HeadsAssumption
  <2>4. starts \in 0..MaxRuns /\ faults \in 0..MaxFaults
    BY BoundsAssumption
  <2> QED
    BY <1>1, <1>4, <1>8, <2>1, <2>2, <2>3, <2>4 DEF TypeOK
<1> QED
  BY <1>7, <1>9, <1>10 DEF Inv

\* Every reachable state satisfies the invariant.
LEMMA InvInductive == Spec => []Inv
<1>1. Inv /\ [Next]_vars => Inv'
  BY TypeStep, RecordStep DEF Inv
<1> QED
  BY <1>1, InitInv, PTL DEF Spec

\* Type correctness, for any number of commits, items, reviews and failures: no
\* record counts more attempts than allowed, and a review holds the id of a
\* comment that exists.
THEOREM TypeCorrect == Spec => []TypeOK
<1>1. Inv => TypeOK
  BY DEF Inv
<1> QED
  BY <1>1, InvInductive, PTL

\* No sequence of failures and restarts makes a second tracking comment.
THEOREM OneTrackHolds == Spec => []OneTrack
<1>1. Inv => OneTrack
  BY DEF Inv
<1> QED
  BY <1>1, InvInductive, PTL

\* Codex repairs at most Limit times over the life of a pull request, and never
\* twice for the same comment.
THEOREM RepairsBoundedHolds == Spec => []RepairsBounded
<1>1. Inv => RepairsBounded
  BY DEF Inv, Counted
<1> QED
  BY <1>1, InvInductive, PTL


-----------------------------------------------------------------------------
(* The refinement *)

\* The state of the ledger is what the comment records.
LEMMA LedgerState ==
  /\ Recorded(tracks).processed = IF tracks = <<>> THEN {} ELSE tracks[1].processed
  /\ Recorded(tracks).attempts = IF tracks = <<>> THEN 0 ELSE tracks[1].attempts
BY DEF Recorded, empty_review_track

\* Only a save touches the comment.
LEMMA OnlySaves ==
  ASSUME [Next]_vars, ~Persist
  PROVE  tracks' = tracks
<1> USE DEF Quiet, NoTrace, github, history
<1>1. CASE Start \/ Cancelled
  BY <1>1 DEF Start, Cancelled
<1>2. CASE Fetch \/ load_review_track \/ Terminals \/ Sticky \/ Review \/ Codex \/ Push
  BY <1>2 DEF Fetch, load_review_track, Terminals, Sticky, Review, Codex, Push
<1>3. CASE AddLabel \/ RemoveLabel \/ Comment \/ Notice
  BY <1>3 DEF AddLabel, RemoveLabel, Comment, Notice
<1>4. CASE Environment
  BY <1>4 DEF Environment, PushCommit, Redeliver, Relabel, Write, Edit
<1>5. CASE UNCHANGED vars
  BY <1>5 DEF vars
<1> QED
  BY <1>1, <1>2, <1>3, <1>4, <1>5 DEF Next, Step

\* Every step of the reviews is a step of the ledger, or none.
LEMMA LedgerStep == Inv /\ [Next]_vars => [Ledger!Next]_(Ledger!vars)
<1> SUFFICES ASSUME Inv, [Next]_vars
             PROVE  [Ledger!Next]_(Ledger!vars)
  OBVIOUS
<1> DEFINE done  == IF tracks = <<>> THEN {} ELSE tracks[1].processed
           spent == IF tracks = <<>> THEN 0 ELSE tracks[1].attempts
<1>1. CASE tracks' = tracks
  BY <1>1 DEF Ledger!vars
<1>2. CASE Persist /\ Recorded(tracks') = run.track
  <2>1. /\ done = Recorded(tracks).processed /\ spent = Recorded(tracks).attempts
        /\ done' = run.track.processed /\ spent' = run.track.attempts
    <3>1. done = Recorded(tracks).processed /\ spent = Recorded(tracks).attempts
      BY LedgerState
    <3>2. CASE tracks' = <<>>
      <4>1. run.track = empty_review_track /\ done' = {} /\ spent' = 0
        BY <1>2, <3>2 DEF Recorded
      <4> QED
        BY <3>1, <4>1 DEF empty_review_track
    <3>3. CASE tracks' # <<>>
      <4>1. run.track = tracks'[1]
        BY <1>2, <3>3 DEF Recorded
      <4>2. done' = tracks'[1].processed /\ spent' = tracks'[1].attempts
        BY <3>3
      <4> QED
        BY <3>1, <4>1, <4>2
    <3> QED
      BY <3>2, <3>3
  <2>2. /\ Recorded(tracks).processed \subseteq run.track.processed
        /\ run.then # "codex" => run.track.attempts = Recorded(tracks).attempts
        /\ run.then = "codex" => /\ run.track.attempts = Recorded(tracks).attempts + 1
                                 /\ run.accepted # {}
                                 /\ run.accepted \subseteq run.track.processed
                                 /\ run.accepted \cap Recorded(tracks).processed = {}
    BY <1>2 DEF Persist, At, Inv, Sound, Carries
  <2>3. /\ run.track.processed \in SUBSET Items /\ run.track.attempts \in 0..Limit
        /\ Recorded(tracks).attempts \in 0..Limit
    BY Facts DEF Runs, ReviewTrack
  <2> HIDE DEF done, spent
  <2>4. CASE run.then # "codex"
    <3>1. done' = done \cup run.track.processed /\ spent' = spent
      BY <2>1, <2>2, <2>4
    <3>2. Ledger!Settle(run.track.processed)
      BY <3>1 DEF Ledger!Settle, done, spent
    <3> QED
      BY <2>3, <3>2 DEF Ledger!Next
  <2>5. CASE run.then = "codex"
    <3> DEFINE S == run.track.processed \ done
    <3>1. S # {} /\ done' = done \cup S /\ S \in SUBSET (Items \ done)
      BY <2>1, <2>2, <2>3, <2>5
    <3>2. spent' = spent + 1 /\ spent < Limit
      BY <2>1, <2>2, <2>3, <2>5, ConfigAssumption
    <3> HIDE DEF S
    <3>3. Ledger!Spend(S)
      BY <3>1, <3>2 DEF Ledger!Spend, done, spent
    <3>4. S \in SUBSET (Items \ (IF tracks = <<>> THEN {} ELSE tracks[1].processed))
      BY <3>1 DEF done
    <3> QED
      BY <3>1, <3>3, <3>4 DEF Ledger!Next
  <2> QED
    BY <2>4, <2>5
<1> QED
  BY <1>1, <1>2, PersistSound, OnlySaves

\* The tracking comment implements FeedbackLedger: what a review has settled stays
\* settled, and an attempt is paid before every repair, for new feedback.
THEOREM ImplementsLedger == Spec => KeepsTheLedger
<1>1. Init => Ledger!Init
  BY DEF Init, Ledger!Init
<1> QED
  BY <1>1, InvInductive, LedgerStep, PTL DEF Spec, KeepsTheLedger, Ledger!Spec


-----------------------------------------------------------------------------
(* What a review goes on with *)

\* A record of the same review, which owes what it owed; a failure is not forgotten.
Keeps(q, r) == q.sha = r.sha /\ q.owes = r.owes /\ (q.hurt \/ q.hurt = r.hurt)

\* It has an outcome to announce; it is over; it is at another stage.
Announces(q, r) ==
  /\ Keeps(q, r) /\ q.pc = "label" /\ q.then = "notice"
  /\ q.outcome \in Raising /\ q.want = StatusLabelOf(q.outcome)
Ends(q, r, o) ==
  /\ q.sha = r.sha /\ q.owes = FALSE /\ (q.hurt \/ q.hurt = r.hurt)
  /\ q.pc = "done" /\ q.outcome = o /\ q.reason = r.reason /\ q.want = "agent:review"
Enters(q, r, stage) ==
  Keeps(q, r) /\ q.pc = stage /\ q.outcome = r.outcome /\ q.reason = r.reason

\* It is to be saved; it is to apply a label that announces no outcome.
Writes(q, r) ==
  /\ Keeps(q, r) /\ q.pc = "persist" /\ q.outcome = "none" /\ q.then \in Saves
  /\ q.then = "escalate" \/ q.reason = r.reason
Applies(q, r, label, after) ==
  /\ q.sha = r.sha /\ (q.hurt \/ q.hurt = r.hurt) /\ q.reason = r.reason
  /\ q.pc = "label" /\ q.outcome = "none" /\ q.want = label /\ q.then = after

\* The beginning of an escalation, and the labels that keep a review silent.
Opening(q, r) ==
  \/ Writes(q, r) /\ q.then = "escalate"
  \/ Keeps(q, r) /\ Applies(q, r, "agent:review", "review")
  \/ Keeps(q, r) /\ Applies(q, r, "agent:review", "IN_REVIEW")

\* An exception is announced.
LEMMA RaisedAnnounces ==
  ASSUME NEW r \in Runs, NEW o \in Raising, NEW reason \in Reasons
  PROVE  Announces(Raised(r, o, reason), r)
BY RaisedFields DEF Announces, Keeps, Same

\* So is one that a failed call raised.
LEMMA CallFailsAnnounces ==
  ASSUME NEW r \in Runs, CallFails(r)
  PROVE  Announces(run', r) /\ run'.hurt
<1>1. PICK code \in {"GITHUB_API_FAILURE", "INTERNAL_FAILURE"} :
        Suffers(Raised(r, OutcomeOfError(code), ReasonOfError(code)))
  BY DEF CallFails
<1> DEFINE l == Raised(r, OutcomeOfError(code), ReasonOfError(code))
<1>2. Announces(l, r) /\ l \in Runs
  BY ErrorTypes, RaisedAnnounces, RaisedFields
<1>3. run' = [l EXCEPT !.hurt = TRUE]
  BY <1>1 DEF Suffers, Falters
<1> HIDE DEF l
<1>4. /\ run'.pc = l.pc /\ run'.sha = l.sha /\ run'.owes = l.owes /\ run'.outcome = l.outcome
      /\ run'.want = l.want /\ run'.then = l.then /\ run'.hurt = TRUE
  BY <1>2, <1>3 DEF Runs
<1> QED
  BY <1>2, <1>4 DEF Announces, Keeps

\* The end of a review.
LEMMA DoneEnds ==
  ASSUME NEW r \in Runs, NEW o \in ReviewOutcome \cup {"none"},
         Becomes(Done(r, o)) \/ Suffers(Done(r, o))
  PROVE  Ends(run', r, o) /\ (Suffers(Done(r, o)) => run'.hurt)
<1> DEFINE l == Done(r, o)
<1>1. /\ l \in Runs /\ l.pc = "done" /\ l.sha = r.sha /\ l.outcome = o /\ l.reason = r.reason
      /\ l.owes = FALSE /\ l.hurt = r.hurt /\ l.want = "agent:review"
  BY DoneFields
<1>2. run' = l \/ run' = [l EXCEPT !.hurt = TRUE]
  BY DEF Becomes, Suffers, Falters
<1>3. Suffers(l) => run' = [l EXCEPT !.hurt = TRUE]
  BY DEF Suffers, Falters
<1> HIDE DEF l
<1>4. /\ run'.pc = l.pc /\ run'.sha = l.sha /\ run'.owes = l.owes /\ run'.outcome = l.outcome
      /\ run'.want = l.want /\ run'.reason = l.reason /\ (run'.hurt \/ run'.hurt = l.hurt)
      /\ Suffers(l) => run'.hurt
  BY <1>1, <1>2, <1>3 DEF Runs
<1>5. Ends(run', r, o) /\ (Suffers(l) => run'.hurt)
  BY <1>1, <1>4 DEF Ends
<1> QED
  BY <1>5 DEF l

\* The head.
LEMMA FetchInto ==
  ASSUME Inv, Fetch
  PROVE  \/ head = run.sha /\ Enters(run', run, "load")
         \/ Announces(run', run)
         \/ Ends(run', run, "FAILED") /\ run'.hurt
<1>1. CASE head = run.sha /\ Goes("load")
  BY <1>1, Facts DEF Goes, Becomes, Enters, Keeps, Runs
<1>2. ASSUME NEW reason \in {"PULL_HEAD_MISMATCH", "SPEC_IDENTITY_MISMATCH"}, Escalates(reason)
      PROVE  Announces(run', run)
  <2>1. "ESCALATED" \in Raising /\ reason \in Reasons
    BY DEF Raising, Reasons
  <2> QED
    BY <1>2, <2>1, Facts, RaisedAnnounces DEF Escalates, Becomes
<1>3. "FAILED" \in ReviewOutcome \cup {"none"}
  BY DEF ReviewOutcome
<1> QED
  BY <1>1, <1>2, <1>3, Facts, CallFailsAnnounces, DoneEnds DEF Fetch

\* The tracking comment.
LEMMA LoadInto ==
  ASSUME Inv, load_review_track
  PROVE  Enters(run', run, "terminal") \/ Announces(run', run)
<1>1. CASE Goes("terminal")
  BY <1>1, Facts DEF Goes, Becomes, Enters, Keeps, Runs
<1>2. CASE Becomes([run EXCEPT !.pc = "terminal", !.id = 1, !.track = tracks[1]])
  BY <1>2, Facts DEF Becomes, Enters, Keeps, Runs
<1>3. CASE Escalates("UNSAFE_REVIEW_TRACK")
  <2>1. "ESCALATED" \in Raising /\ "UNSAFE_REVIEW_TRACK" \in Reasons
    BY DEF Raising, Reasons
  <2> QED
    BY <1>3, <2>1, Facts, RaisedAnnounces DEF Escalates, Becomes
<1> QED
  BY <1>1, <1>2, <1>3, Facts, CallFailsAnnounces DEF load_review_track

\* An escalation is saved first.
LEMMA EscalationWrites ==
  ASSUME NEW r \in Runs, r.outcome = "none", NEW track \in ReviewTrack, NEW reason \in Reasons
  PROVE  Writes(Escalation(r, track, reason), r) /\ Escalation(r, track, reason).then = "escalate"
<1> DEFINE l == Escalation(r, track, reason)
<1>1. /\ l.pc = "persist" /\ l.then = "escalate" /\ l.sha = r.sha /\ l.outcome = r.outcome
      /\ l.hurt = r.hurt /\ l.owes = r.owes
  BY DEF Escalation, Saving, Runs
<1> HIDE DEF l
<1>2. Writes(l, r)
  BY <1>1 DEF Writes, Keeps, Saves
<1> QED
  BY <1>1, <1>2 DEF l

\* A terminal opens an escalation or a label.
LEMMA AfterTerminalInto ==
  ASSUME NEW r \in Runs, r.outcome = "none"
  PROVE  Opening(AfterTerminal(r), r)
<1>1. CASE r.kind \in Escalating
  <2>1. AfterTerminal(r) = Escalation(r, r.track, r.kind)
    BY <1>1 DEF AfterTerminal, Escalating
  <2>2. r.track \in ReviewTrack /\ r.kind \in Reasons
    BY DEF Runs, Reasons
  <2>3. Writes(Escalation(r, r.track, r.kind), r) /\ Escalation(r, r.track, r.kind).then = "escalate"
    BY <2>2, EscalationWrites
  <2> QED
    BY <2>1, <2>3 DEF Opening
<1>2. CASE r.kind \notin Escalating
  <2> DEFINE after == IF r.kind = "COMPLETED" THEN "review" ELSE "IN_REVIEW"
             l == Labelling(r, "agent:review", after)
  <2>1. AfterTerminal(r) = l
    BY <1>2 DEF AfterTerminal, Escalating
  <2>2. "agent:review" \in StatusLabels /\ after \in Afters
    BY DEF StatusLabels, Afters, ReviewOutcome
  <2>3. after = "review" \/ after = "IN_REVIEW"
    OBVIOUS
  <2> HIDE DEF after
  <2>4. /\ Same(l, r) /\ l.outcome = r.outcome /\ l.reason = r.reason
        /\ l.pc = "label" /\ l.want = "agent:review" /\ l.then = after
    BY <2>2, LabellingFields
  <2> HIDE DEF l
  <2> QED
    BY <2>1, <2>3, <2>4 DEF Opening, Applies, Keeps, Same
<1> QED
  BY <1>1, <1>2

\* CodeRabbit's last word.
LEMMA TerminalsInto ==
  ASSUME Inv, Terminals
  PROVE  \/ run.track.head = run.sha /\ Enters(run', run, "sticky")
         \/ run.track.head # run.sha /\ Opening(run', run)
         \/ Announces(run', run)
<1>1. ASSUME NEW kind \in Words,
             Becomes(IF run.track.head = run.sha
                     THEN [[run EXCEPT !.kind = kind] EXCEPT !.pc = "sticky"]
                     ELSE AfterTerminal([run EXCEPT !.kind = kind]))
      PROVE  \/ run.track.head = run.sha /\ Enters(run', run, "sticky")
             \/ run.track.head # run.sha /\ Opening(run', run)
  <2> DEFINE k == [run EXCEPT !.kind = kind]
             l == [k EXCEPT !.pc = "sticky"]
  <2>1. kind \in Kinds /\ run.outcome = "none"
    BY ConfigAssumption DEF Terminals, At, Inv, Sound, Early
  <2>2. /\ k \in Runs /\ k.sha = run.sha /\ k.owes = run.owes /\ k.hurt = run.hurt
        /\ k.outcome = run.outcome /\ k.reason = run.reason
    BY <2>1, Facts DEF Runs
  <2>3. \/ run.track.head = run.sha /\ run' = l
        \/ run.track.head # run.sha /\ run' = AfterTerminal(k)
    BY <1>1 DEF Becomes
  <2> HIDE DEF k
  <2>4. Opening(AfterTerminal(k), k)
    BY <2>1, <2>2, AfterTerminalInto
  <2>5. Opening(AfterTerminal(k), run)
    BY <2>2, <2>4 DEF Opening, Writes, Applies, Keeps
  <2>6. Enters(l, run, "sticky")
    BY <2>2 DEF Enters, Keeps, Runs
  <2> HIDE DEF l
  <2> QED
    BY <2>3, <2>5, <2>6
<1> QED
  BY <1>1, Facts, CallFailsAnnounces DEF Terminals

\* The verdict of an unchanged head.
LEMMA StickyInto ==
  ASSUME Inv, Sticky
  PROVE  \/ \E o \in StickyOutcome(labels) : Ends(run', run, o)
         \/ StickyOutcome(labels) = {} /\ Opening(run', run)
         \/ Announces(run', run)
<1>1. run.outcome = "none"
  BY DEF Sticky, At, Inv, Sound, Early
<1>2. StickyOutcome(labels) \subseteq ReviewOutcome \cup {"none"}
  BY DEF StickyOutcome, ReviewOutcome
<1>3. Opening(AfterTerminal(run), run)
  BY <1>1, Facts, AfterTerminalInto
<1>4. CASE Becomes(AfterTerminal(run)) /\ StickyOutcome(labels) = {}
  BY <1>3, <1>4 DEF Becomes
<1> QED
  BY <1>2, <1>4, Facts, CallFailsAnnounces, DoneEnds DEF Sticky


\* What is saved of a review that has looked at feedback.
LEMMA SettledWrites ==
  ASSUME NEW r \in Runs, r.outcome = "none", NEW S \in SUBSET Items, NEW reason \in Reasons
  PROVE  /\ Writes(Escalation(r, with_processed(r.track, S, FALSE), reason), r)
         /\ Writes(Saving(r, with_processed(r.track, S, FALSE), "converge"), r)
<1> DEFINE track == with_processed(r.track, S, FALSE)
           l == Saving(r, track, "converge")
<1>1. track \in ReviewTrack
  BY WithProcessed DEF Runs
<1> HIDE DEF track
<1>2. "converge" \in Saves
  BY DEF Saves
<1>3. /\ l.pc = "persist" /\ l.then = "converge" /\ l.sha = r.sha /\ l.outcome = r.outcome
      /\ l.hurt = r.hurt /\ l.owes = r.owes /\ l.reason = r.reason
  BY <1>1, <1>2, SavingFields
<1> HIDE DEF l
<1>4. Writes(l, r)
  BY <1>2, <1>3 DEF Writes, Keeps
<1>5. Writes(Escalation(r, track, reason), r)
  BY <1>1, EscalationWrites
<1> QED
  BY <1>4, <1>5 DEF track, l

\* What is saved of a review that has its answers.
LEMMA JudgedWrites ==
  ASSUME NEW r \in Runs, r.outcome = "none",
         NEW skipped \in SUBSET Items, NEW batch \in SUBSET Items,
         NEW answer \in [batch -> Answers], NEW more \in BOOLEAN
  PROVE  Writes(Judged(r, skipped, answer, more), r)
<1> DEFINE settled == skipped \cup batch
           refusing == Deciding(answer, "ESCALATE")
           accepted == Deciding(answer, "FIX")
           updated == with_processed(r.track, settled, FALSE)
           paid == with_processed(r.track, settled, TRUE)
           first == CHOOSE i \in refusing : \A k \in refusing : i <= k
           reason == decide_review_policy(answer[first]).reason
           then == IF more THEN "more" ELSE "converge"
           J == Judged(r, skipped, answer, more)
<1> SUFFICES Writes(J, r)
  OBVIOUS
<1>1. r.track \in ReviewTrack /\ settled \in SUBSET Items
  BY DEF Runs
<1>2. updated \in ReviewTrack
  BY <1>1, WithProcessed
<1>3. DOMAIN answer = batch /\ \A i \in batch : answer[i] \in AllAnswers
  BY ConfigAssumption
<1>4. refusing \subseteq batch /\ accepted \subseteq batch
  BY <1>3 DEF Deciding
<1>5. refusing # {} => reason \in Reasons
  <2> HIDE DEF refusing
  <2>1. refusing \in SUBSET Nat
    BY <1>4, ItemsAssumption
  <2>2. refusing # {} => first \in refusing
    BY <2>1, SmallestOf
  <2> QED
    BY <1>3, <1>4, <2>2, PolicyTypes
<1>6. /\ refusing # {} => J = Escalation(r, updated, reason)
      /\ refusing = {} /\ accepted = {} => J = Saving(r, updated, then)
      /\ refusing = {} /\ accepted # {} /\ ~MayRepair(r.track)
           => J = Escalation(r, updated, "attempt limit")
      /\ refusing = {} /\ accepted # {} /\ MayRepair(r.track)
           => J = [Saving(r, Bound(paid, r.sha), "codex") EXCEPT !.accepted = accepted]
  BY <1>3 DEF Judged
<1>7. then \in Saves /\ "codex" \in Saves /\ "attempt limit" \in Reasons
  BY DEF Saves, Reasons
<1> HIDE DEF refusing, accepted, J, updated, reason, then
<1>8. CASE refusing # {}
  BY <1>2, <1>5, <1>6, <1>8, EscalationWrites
<1>9. CASE refusing = {} /\ accepted = {}
  <2> DEFINE l == Saving(r, updated, then)
  <2>1. /\ l.pc = "persist" /\ l.then = then /\ l.sha = r.sha /\ l.outcome = r.outcome
        /\ l.hurt = r.hurt /\ l.owes = r.owes /\ l.reason = r.reason
    BY DEF Saving, Runs
  <2>2. J = l
    BY <1>6, <1>9
  <2> HIDE DEF l
  <2> QED
    BY <1>7, <2>1, <2>2 DEF Writes, Keeps
<1>10. CASE refusing = {} /\ accepted # {} /\ ~MayRepair(r.track)
  <2>1. Writes(Escalation(r, updated, "attempt limit"), r)
    BY <1>2, <1>7, EscalationWrites
  <2> QED
    BY <1>6, <1>10, <2>1
<1>11. CASE refusing = {} /\ accepted # {} /\ MayRepair(r.track)
  <2> DEFINE b == Bound(paid, r.sha)
             k == Saving(r, b, "codex")
             l == [k EXCEPT !.accepted = accepted]
  <2>1. paid \in ReviewTrack
    BY <1>1, <1>11, WithAttempt
  <2> HIDE DEF paid
  <2>2. b \in ReviewTrack
    BY <2>1, HeadsAssumption DEF Bound, ReviewTrack, Runs
  <2> HIDE DEF b
  <2>3. /\ k \in Runs /\ k.pc = "persist" /\ k.then = "codex" /\ k.sha = r.sha
        /\ k.outcome = r.outcome /\ k.hurt = r.hurt /\ k.owes = r.owes /\ k.reason = r.reason
    <3>1. k \in Runs
      BY <1>7, <2>2, SavingFields
    <3> QED
      BY <3>1 DEF k, Saving, Runs
  <2> HIDE DEF k
  <2>4. /\ l.pc = "persist" /\ l.then = "codex" /\ l.sha = r.sha
        /\ l.outcome = r.outcome /\ l.hurt = r.hurt /\ l.owes = r.owes /\ l.reason = r.reason
    BY <2>3 DEF Runs
  <2>5. J = l
    BY <1>6, <1>11 DEF k, b, l
  <2> HIDE DEF l
  <2> QED
    BY <1>7, <2>4, <2>5 DEF Writes, Keeps
<1> QED
  BY <1>8, <1>9, <1>10, <1>11

\* The feedback.
LEMMA ReviewInto ==
  ASSUME Inv, Review
  PROVE  Writes(run', run) \/ Announces(run', run)
<1>1. PICK cap \in Caps : Review!(cap)
  BY DEF Review
<1> DEFINE unread     == Listed \ run.track.processed
           skipped    == Skipped(unread, run.sha, run.track)
           forbidden  == Forbidden(unread, run.sha, run.track)
           candidates == unread \ (skipped \cup forbidden)
           batch      == Batch(candidates, cap)
           r          == [run EXCEPT !.items = Listed,
                                     !.current = OnCommit(Listed, run.sha, run.track)]
<1>2. r \in Runs /\ r.track = run.track /\ r.outcome = "none" /\ Listed \subseteq Items
  BY <1>1, ReviewFacts
<1>3. r.sha = run.sha /\ r.owes = run.owes /\ r.hurt = run.hurt /\ r.reason = run.reason
  BY Facts DEF Runs
<1>4. skipped \in SUBSET Items /\ forbidden \in SUBSET Items /\ batch \in SUBSET Items
  BY <1>2 DEF Skipped, Forbidden, Batch
<1>5. \/ run' = Escalation(r, with_processed(r.track, skipped \cup forbidden, FALSE), "forbidden path")
      \/ run' = Saving(r, with_processed(r.track, skipped, FALSE), "converge")
      \/ \E i \in batch : run' = Escalation(r, with_processed(r.track, skipped \cup {i}, FALSE), "classifier")
      \/ \E code \in Outages : run' = Raised(r, OutcomeOfError(code), ReasonOfError(code))
      \/ \E answer \in [batch -> Answers] : run' = Judged(r, skipped, answer, candidates # batch)
      \/ CallFails(run)
  BY <1>1 DEF Becomes, Falters
<1>6. "forbidden path" \in Reasons /\ "classifier" \in Reasons
  BY DEF Reasons
<1> DEFINE more == candidates # batch
<1>7. more \in BOOLEAN
  OBVIOUS
<1>8. \/ run' = Escalation(r, with_processed(r.track, skipped \cup forbidden, FALSE), "forbidden path")
      \/ run' = Saving(r, with_processed(r.track, skipped, FALSE), "converge")
      \/ \E i \in batch : run' = Escalation(r, with_processed(r.track, skipped \cup {i}, FALSE), "classifier")
      \/ \E code \in Outages : run' = Raised(r, OutcomeOfError(code), ReasonOfError(code))
      \/ \E answer \in [batch -> Answers] : run' = Judged(r, skipped, answer, more)
      \/ CallFails(run)
  BY <1>5
<1> HIDE DEF r, skipped, forbidden, candidates, batch, more
<1>9. ASSUME NEW S \in SUBSET Items, NEW reason \in Reasons,
             \/ run' = Escalation(r, with_processed(r.track, S, FALSE), reason)
             \/ run' = Saving(r, with_processed(r.track, S, FALSE), "converge")
      PROVE  Writes(run', r)
  BY <1>2, <1>9, SettledWrites
<1>10. ASSUME NEW code, run' = Raised(r, OutcomeOfError(code), ReasonOfError(code))
       PROVE  Announces(run', r)
  BY <1>2, <1>10, ErrorTypes, RaisedAnnounces
<1>11. ASSUME NEW answer \in [batch -> Answers], run' = Judged(r, skipped, answer, more)
       PROVE  Writes(run', r)
  BY <1>2, <1>4, <1>7, <1>11, JudgedWrites
<1>12. skipped \cup forbidden \in SUBSET Items /\ \A i \in batch : skipped \cup {i} \in SUBSET Items
  BY <1>4
<1>13. Writes(run', r) \/ Announces(run', r) \/ CallFails(run)
  BY <1>4, <1>6, <1>8, <1>9, <1>10, <1>11, <1>12
<1>14. (Writes(run', r) => Writes(run', run)) /\ (Announces(run', r) => Announces(run', run))
  BY <1>3 DEF Writes, Announces, Keeps
<1> QED
  BY <1>13, <1>14, Facts, CallFailsAnnounces


\* What follows a save.
FollowsSave(q, r) ==
  \/ r.then = "converge" /\ Writes(q, r) /\ q.then = "ready"
  \/ r.then \in {"converge", "more"} /\ Ends(q, r, "IN_REVIEW")
  \/ r.then = "ready" /\ Keeps(q, r) /\ Applies(q, r, "agent:ready", "READY_FOR_HUMAN")
  \/ r.then = "escalate" /\ q.owes /\ Applies(q, r, "agent:escalated", "comment")
  \/ /\ r.then = "codex" /\ q.pc = "codex" /\ q.owes /\ q.outcome = "none"
     /\ q.sha = r.sha /\ (q.hurt \/ q.hurt = r.hurt) /\ q.reason = r.reason

\* A label that announces no outcome is applied next.
LEMMA LabellingApplies ==
  ASSUME NEW r \in Runs, r.outcome = "none", NEW label \in StatusLabels, NEW after \in Afters
  PROVE  LET l == Labelling(r, label, after)
         IN  Applies(l, r, label, after) /\ l.owes = r.owes
BY DEF Labelling, Applies, Runs

\* A save.
LEMMA AfterSaveInto ==
  ASSUME NEW r \in Runs, r.outcome = "none", r.then \in Saves
  PROVE  FollowsSave(AfterSave(r), r)
<1> DEFINE A == AfterSave(r)
<1> SUFFICES FollowsSave(A, r)
  OBVIOUS
<1>0. /\ "IN_REVIEW" \in ReviewOutcome \cup {"none"}
      /\ "agent:ready" \in StatusLabels /\ "agent:escalated" \in StatusLabels
      /\ "READY_FOR_HUMAN" \in Afters /\ "comment" \in Afters
  BY DEF ReviewOutcome, StatusLabels, TERMINAL_STATUS_LABELS, Afters
<1>1. CASE r.then = "converge" /\ Converged(r)
  <2> DEFINE b == Bound(r.track, r.sha)
             l == Saving(r, b, "ready")
  <2>1. A = l
    BY <1>1 DEF AfterSave
  <2>2. /\ l.pc = "persist" /\ l.then = "ready" /\ l.sha = r.sha /\ l.outcome = r.outcome
        /\ l.hurt = r.hurt /\ l.owes = r.owes /\ l.reason = r.reason
    BY DEF Saving, Runs
  <2> HIDE DEF l
  <2>3. Writes(l, r)
    BY <2>2 DEF Writes, Keeps, Saves
  <2> QED
    BY <1>1, <2>1, <2>2, <2>3 DEF FollowsSave
<1>2. CASE r.then = "more" \/ (r.then = "converge" /\ ~Converged(r))
  <2> DEFINE l == Done(r, "IN_REVIEW")
  <2>1. A = l
    BY <1>2 DEF AfterSave, _in_review
  <2>2. /\ l.pc = "done" /\ l.sha = r.sha /\ l.outcome = "IN_REVIEW" /\ l.reason = r.reason
        /\ l.owes = FALSE /\ l.hurt = r.hurt /\ l.want = "agent:review"
    BY <1>0, DoneFields
  <2> HIDE DEF l
  <2>3. Ends(l, r, "IN_REVIEW")
    BY <2>2 DEF Ends
  <2> QED
    BY <1>2, <2>1, <2>3 DEF FollowsSave
<1>3. CASE r.then = "ready"
  <2> DEFINE l == Labelling(r, "agent:ready", "READY_FOR_HUMAN")
  <2>1. A = l
    BY <1>3 DEF AfterSave
  <2>2. Applies(l, r, "agent:ready", "READY_FOR_HUMAN") /\ l.owes = r.owes
    BY <1>0, LabellingApplies
  <2> HIDE DEF l
  <2> QED
    BY <1>3, <2>1, <2>2 DEF FollowsSave, Applies, Keeps
<1>4. CASE r.then = "escalate"
  <2> DEFINE o == [r EXCEPT !.owes = TRUE]
             l == Labelling(o, "agent:escalated", "comment")
  <2>1. A = l
    BY <1>4 DEF AfterSave
  <2>2. /\ o \in Runs /\ o.owes = TRUE /\ o.outcome = r.outcome /\ o.sha = r.sha
        /\ o.hurt = r.hurt /\ o.reason = r.reason
    BY DEF Runs
  <2> HIDE DEF o
  <2>3. Applies(l, o, "agent:escalated", "comment") /\ l.owes = o.owes
    BY <1>0, <2>2, LabellingApplies
  <2> HIDE DEF l
  <2>4. Applies(l, r, "agent:escalated", "comment") /\ l.owes
    BY <2>2, <2>3 DEF Applies
  <2> QED
    BY <1>4, <2>1, <2>4 DEF FollowsSave
<1>5. CASE r.then = "codex"
  <2> DEFINE l == [r EXCEPT !.pc = "codex", !.owes = TRUE]
  <2>1. A = l
    BY <1>5 DEF AfterSave
  <2>2. /\ l.pc = "codex" /\ l.owes = TRUE /\ l.outcome = r.outcome /\ l.sha = r.sha
        /\ l.hurt = r.hurt /\ l.reason = r.reason
    BY DEF Runs
  <2> HIDE DEF l
  <2> QED
    BY <1>5, <2>1, <2>2 DEF FollowsSave
<1> QED
  BY <1>1, <1>2, <1>3, <1>4, <1>5 DEF Saves

\* A save decides, and it succeeds, or its answer is lost, or it fails.
LEMMA PersistInto ==
  ASSUME Inv, Persist
  PROVE  \/ /\ refused' = IF Decides THEN refused \cup {run.sha} ELSE refused
            /\ Recorded(tracks') = run.track
            /\ \/ FollowsSave(run', run)
               \/ /\ \E r : Announces(run', r) /\ r.sha = run.sha /\ (r.owes <=> run.owes \/ Decides)
                  /\ run'.hurt
         \/ UNCHANGED <<tracks, refused>> /\ Announces(run', run) /\ run'.hurt
<1>1. At("persist") /\ run.outcome = "none" /\ run.then \in Saves /\ Recorded(Saved) = run.track
  BY SavedFacts DEF Persist, At, Inv, Sound, Carries
<1> DEFINE r == [run EXCEPT !.id = SavedId]
           o == [run EXCEPT !.owes = @ \/ Decides]
<1>2. SavedId = 1
  BY <1>1, SavedFacts
<1>3. /\ r \in Runs /\ r.outcome = run.outcome /\ r.then = run.then /\ r.sha = run.sha
      /\ r.reason = run.reason /\ r.hurt = run.hurt /\ r.owes = run.owes
  BY <1>2, Facts DEF Runs
<1>4. o \in Runs /\ o.sha = run.sha /\ (o.owes <=> run.owes \/ Decides)
  BY Facts DEF Runs, Decides
<1> DEFINE decided == /\ refused' = IF Decides THEN refused \cup {run.sha} ELSE refused
                      /\ tracks' = Saved
<1>5. \/ decided /\ run' = AfterSave(r)
      \/ decided /\ CallFails(o)
      \/ UNCHANGED <<tracks, refused>> /\ CallFails(run)
  BY DEF Persist, Becomes
<1>6. decided => /\ refused' = IF Decides THEN refused \cup {run.sha} ELSE refused
                 /\ Recorded(tracks') = run.track
  BY <1>1
<1> HIDE DEF r, o, decided
<1>7. FollowsSave(AfterSave(r), run)
  <2>1. FollowsSave(AfterSave(r), r)
    BY <1>1, <1>3, AfterSaveInto
  <2> QED
    BY <1>3, <2>1 DEF FollowsSave, Writes, Ends, Applies, Keeps
<1>8. CASE decided /\ run' = AfterSave(r)
  BY <1>6, <1>7, <1>8
<1>9. CASE decided /\ CallFails(o)
  <2>1. Announces(run', o) /\ run'.hurt
    BY <1>4, <1>9, CallFailsAnnounces
  <2> QED
    BY <1>4, <1>6, <1>9, <2>1
<1>10. CASE UNCHANGED <<tracks, refused>> /\ CallFails(run)
  BY <1>10, Facts, CallFailsAnnounces
<1> QED
  BY <1>5, <1>8, <1>9, <1>10

\* The repair.
LEMMA CodexInto ==
  ASSUME Inv, Codex
  PROVE  Enters(run', run, "push") \/ Announces(run', run)
<1>1. CASE Goes("push")
  BY <1>1, Facts DEF Goes, Becomes, Enters, Keeps, Runs
<1>2. ASSUME NEW o \in {"ESCALATED", "FAILED"}, Becomes(Raised(run, o, "REPAIR_FAILED"))
      PROVE  Announces(run', run)
  <2>1. o \in Raising /\ "REPAIR_FAILED" \in Reasons
    BY DEF Raising, Reasons
  <2> QED
    BY <1>2, <2>1, Facts, RaisedAnnounces DEF Becomes
<1> QED
  BY <1>1, <1>2 DEF Codex

\* The push.
LEMMA PushInto ==
  ASSUME Inv, Push
  PROVE  \/ /\ head = run.sha /\ Advances /\ run'.owes = FALSE
            /\ \/ Applies(run', run, "agent:review", "REVIEW_FIX_PUSHED")
               \/ run'.hurt /\ \E r : r.sha = run.sha /\ r.owes = FALSE /\ Announces(run', r)
         \/ UNCHANGED <<head, on>> /\ Announces(run', run)
<1> DEFINE r == [run EXCEPT !.owes = FALSE]
           l == Labelling(r, "agent:review", "REVIEW_FIX_PUSHED")
<1>0. run.outcome = "none"
  BY DEF Push, At, Inv, Sound, Early
<1>1. /\ r \in Runs /\ r.sha = run.sha /\ r.outcome = run.outcome /\ r.owes = FALSE
      /\ r.hurt = run.hurt /\ r.reason = run.reason
  BY Facts DEF Runs
<1>2. \/ head = run.sha /\ Advances /\ (run' = l \/ CallFails(r))
      \/ UNCHANGED <<head, on>> /\ (run' = Raised(run, "ESCALATED", "NON_FAST_FORWARD") \/ CallFails(run))
  BY DEF Push, Rejected, Becomes
<1> HIDE DEF r
<1>3. "agent:review" \in StatusLabels /\ "REVIEW_FIX_PUSHED" \in Afters
  BY DEF StatusLabels, Afters, ReviewOutcome
<1>4. Applies(l, r, "agent:review", "REVIEW_FIX_PUSHED") /\ l.owes = r.owes
  BY <1>0, <1>1, <1>3, LabellingApplies
<1> HIDE DEF l
<1>5. Applies(l, run, "agent:review", "REVIEW_FIX_PUSHED") /\ l.owes = FALSE
  BY <1>1, <1>4 DEF Applies
<1>6. CallFails(r) => run'.owes = FALSE /\ Announces(run', r) /\ run'.hurt
  BY <1>1, CallFailsAnnounces DEF Announces, Keeps
<1>7. "ESCALATED" \in Raising /\ "NON_FAST_FORWARD" \in Reasons
  BY DEF Raising, Reasons
<1>8. \/ run' = Raised(run, "ESCALATED", "NON_FAST_FORWARD")
      \/ CallFails(run)
      => Announces(run', run)
  BY <1>7, Facts, RaisedAnnounces, CallFailsAnnounces
<1> QED
  BY <1>1, <1>2, <1>5, <1>6, <1>8


\* A call about a label failed; owes says what is left to show.
FailsLabel(q, r, owes) ==
  /\ q.sha = r.sha /\ q.hurt /\ (q.owes <=> owes)
  /\ \/ /\ r.outcome = "none" /\ q.pc = "label" /\ q.then = "notice"
        /\ q.outcome \in Raising /\ q.want = StatusLabelOf(q.outcome)
     \/ r.outcome # "none" /\ q.pc = "notice" /\ q.outcome = r.outcome

\* The labels in S are still to be removed.
Unlabels(q, r, S) ==
  /\ q.sha = r.sha /\ (q.hurt \/ q.hurt = r.hurt) /\ q.reason = r.reason
  /\ q.pc = "unlabel" /\ q.todo = S
  /\ q.outcome = r.outcome /\ q.want = r.want /\ q.then = r.then

\* What follows the last label.
FollowsLabel(q, r) ==
  \/ r.then \in ReviewOutcome /\ Ends(q, r, r.then)
  \/ r.then \in {"review", "comment", "notice"} /\ Enters(q, r, r.then)

\* A failed call about a label.
LEMMA LabelFailsInto ==
  ASSUME NEW r \in Runs, LabelFails(r)
  PROVE  FailsLabel(run', r, r.owes)
<1>1. CASE r.outcome = "none" /\ CallFails(r)
  BY <1>1, CallFailsAnnounces DEF Announces, Keeps, FailsLabel
<1>2. CASE r.outcome # "none" /\ Suffers([r EXCEPT !.pc = "notice", !.todo = {}])
  <2> DEFINE l == [r EXCEPT !.pc = "notice", !.todo = {}]
  <2>1. l \in Runs /\ l.pc = "notice" /\ l.sha = r.sha /\ l.owes = r.owes /\ l.outcome = r.outcome
    BY DEF Runs, Stages
  <2>2. run' = [l EXCEPT !.hurt = TRUE]
    BY <1>2 DEF Suffers, Falters
  <2> HIDE DEF l
  <2>3. /\ run'.pc = l.pc /\ run'.sha = l.sha /\ run'.owes = l.owes /\ run'.outcome = l.outcome
        /\ run'.hurt = TRUE
    BY <2>1, <2>2 DEF Runs
  <2> QED
    BY <1>2, <2>1, <2>3 DEF FailsLabel
<1> QED
  BY <1>1, <1>2 DEF LabelFails

\* A label is added, or that fails.
LEMMA AddLabelInto ==
  ASSUME Inv, AddLabel
  PROVE  LET owes == run.owes /\ run.want \notin {"agent:escalated", "agent:failed"}
         IN  \/ /\ labels' = labels \cup {run.want} /\ cut' = cut
                /\ \/ Unlabels(run', run, OtherLabels(run.want)) /\ (run'.owes <=> owes)
                   \/ FailsLabel(run', run, owes)
             \/ /\ labels' = labels /\ FailsLabel(run', run, run.owes)
                /\ cut' = IF run.owes /\ run.outcome # "none" THEN cut \cup {run.sha} ELSE cut
<1> DEFINE owes == run.owes /\ run.want \notin {"agent:escalated", "agent:failed"}
           r == [run EXCEPT !.owes = @ /\ run.want \notin {"agent:escalated", "agent:failed"}]
           l == [r EXCEPT !.pc = "unlabel", !.todo = OtherLabels(run.want)]
<1>1. /\ r \in Runs /\ r.sha = run.sha /\ r.then = run.then /\ r.want = run.want
      /\ r.outcome = run.outcome /\ r.hurt = run.hurt /\ r.reason = run.reason
  BY Facts DEF Runs
<1>2. r.owes <=> owes
  BY Facts DEF Runs
<1>3. \/ /\ labels' = labels \cup {run.want} /\ cut' = cut
         /\ run' = l \/ LabelFails(r)
      \/ /\ labels' = labels /\ LabelFails(run)
         /\ cut' = IF run.owes /\ run.outcome # "none" THEN cut \cup {run.sha} ELSE cut
  BY DEF AddLabel, Becomes
<1> HIDE DEF r, owes
<1>4. /\ l.pc = "unlabel" /\ l.sha = r.sha /\ l.then = r.then /\ l.want = r.want
      /\ l.outcome = r.outcome /\ l.todo = OtherLabels(run.want) /\ l.hurt = r.hurt
      /\ l.reason = r.reason /\ l.owes = r.owes
  BY <1>1 DEF Runs
<1> HIDE DEF l
<1>5. run' = l => Unlabels(run', run, OtherLabels(run.want)) /\ (run'.owes <=> owes)
  BY <1>1, <1>2, <1>4 DEF Unlabels
<1>6. LabelFails(r) => FailsLabel(run', run, owes)
  BY <1>1, <1>2, LabelFailsInto DEF FailsLabel
<1>7. LabelFails(run) => FailsLabel(run', run, run.owes)
  BY Facts, LabelFailsInto
<1>8. \/ /\ labels' = labels \cup {run.want} /\ cut' = cut
         /\ \/ Unlabels(run', run, OtherLabels(run.want)) /\ (run'.owes <=> owes)
            \/ FailsLabel(run', run, owes)
      \/ /\ labels' = labels /\ FailsLabel(run', run, run.owes)
         /\ cut' = IF run.owes /\ run.outcome # "none" THEN cut \cup {run.sha} ELSE cut
  BY <1>3, <1>5, <1>6, <1>7
<1> QED
  BY <1>8 DEF owes

\* The first label of a set is one of it.
LEMMA FirstLabelIn ==
  ASSUME NEW S \in SUBSET StatusLabels, S # {}
  PROVE  FirstLabel(S) \in S
<1> DEFINE E == EXCLUSIVE_STATUS_LABELS
           First(l) == \E i \in 1..4 : l = E[i] /\ \A k \in 1..(i - 1) : E[k] \notin S
<1>1. E[1] = "agent:review" /\ E[2] = "agent:ready" /\ E[3] = "agent:escalated" /\ E[4] = "agent:failed"
  BY DEF EXCLUSIVE_STATUS_LABELS
<1>2. E[1] \in S \/ E[2] \in S \/ E[3] \in S \/ E[4] \in S
  BY <1>1 DEF StatusLabels, TERMINAL_STATUS_LABELS
<1> HIDE DEF E
<1>3. \E l \in S : First(l)
  <2>1. CASE E[1] \in S
    BY <2>1
  <2>2. CASE E[1] \notin S /\ E[2] \in S
    <3>1. \A k \in 1..(2 - 1) : k = 1
      OBVIOUS
    <3> QED
      BY <2>2, <3>1
  <2>3. CASE E[1] \notin S /\ E[2] \notin S /\ E[3] \in S
    <3>1. \A k \in 1..(3 - 1) : k = 1 \/ k = 2
      OBVIOUS
    <3> QED
      BY <2>3, <3>1
  <2>4. CASE E[1] \notin S /\ E[2] \notin S /\ E[3] \notin S /\ E[4] \in S
    <3>1. \A k \in 1..(4 - 1) : k = 1 \/ k = 2 \/ k = 3
      OBVIOUS
    <3> QED
      BY <2>4, <3>1
  <2> QED
    BY <1>2, <2>1, <2>2, <2>3, <2>4
<1> QED
  BY <1>3 DEF FirstLabel, E

\* A label is removed, or that fails.
LEMMA RemoveLabelInto ==
  ASSUME Inv, RemoveLabel
  PROVE  \E l \in run.todo :
           \/ /\ labels' = labels \ {l}
              /\ \/ run.todo = {l} /\ FollowsLabel(run', run)
                 \/ /\ run.todo \ {l} # {} /\ Unlabels(run', run, run.todo \ {l})
                    /\ run'.owes = run.owes
           \/ labels' \in {labels \ {l}, labels} /\ FailsLabel(run', run, run.owes)
<1> DEFINE l == FirstLabel(run.todo)
           q == [run EXCEPT !.todo = run.todo \ {l}]
<1>1. run.pc = "unlabel" /\ run.todo \in SUBSET StatusLabels /\ run.todo # {}
  BY Facts DEF RemoveLabel, At, Inv, Sound, Runs
<1>2. l \in run.todo
  BY <1>1, FirstLabelIn
<1>3. \/ /\ labels' = labels \ {l}
         /\ \/ run.todo \ {l} = {} /\ run' = AfterLabel(run)
            \/ run.todo \ {l} # {} /\ run' = q
      \/ labels' \in {labels \ {l}, labels} /\ LabelFails(run)
  BY DEF RemoveLabel, Becomes
<1>4. LabelFails(run) => FailsLabel(run', run, run.owes)
  BY Facts, LabelFailsInto
<1>5. ASSUME run' = q
      PROVE  Unlabels(run', run, run.todo \ {l}) /\ run'.owes = run.owes
  <2> HIDE DEF l
  <2>1. run'.owes = run.owes /\ run'.hurt = run.hurt
    BY <1>5, Facts DEF Runs
  <2>2. Unlabels(run', run, run.todo \ {l})
    BY <1>1, <1>5, <2>1, Facts DEF Unlabels, Runs
  <2> QED
    BY <2>1, <2>2
<1>6. ASSUME run' = AfterLabel(run)
      PROVE  FollowsLabel(run', run)
  <2>1. CASE run.then \in ReviewOutcome
    <3> DEFINE o == run.then
               d == Done(run, o)
    <3>1. run' = d /\ o \in ReviewOutcome \cup {"none"}
      BY <1>6, <2>1 DEF AfterLabel
    <3> HIDE DEF o
    <3>2. /\ d.pc = "done" /\ d.sha = run.sha /\ d.outcome = o /\ d.reason = run.reason
          /\ d.owes = FALSE /\ d.hurt = run.hurt /\ d.want = "agent:review"
      BY <3>1, Facts, DoneFields
    <3> HIDE DEF d
    <3>3. Ends(run', run, run.then)
      BY <3>1, <3>2 DEF Ends, o
    <3> QED
      BY <2>1, <3>3 DEF FollowsLabel
  <2>2. CASE run.then \notin ReviewOutcome
    <3>1. run.then \in {"review", "comment", "notice"}
      BY <1>1, <2>2 DEF Inv, Sound, Matched, ReviewOutcome
    <3>2. run' = [run EXCEPT !.pc = run.then, !.todo = {}]
      BY <1>6, <2>2 DEF AfterLabel
    <3>3. run'.owes = run.owes /\ run'.hurt = run.hurt
      BY <3>2, Facts DEF Runs
    <3>4. Enters(run', run, run.then)
      BY <3>2, <3>3, Facts DEF Enters, Keeps, Runs
    <3> QED
      BY <3>1, <3>4 DEF FollowsLabel
  <2> QED
    BY <2>1, <2>2
<1> HIDE DEF l, q
<1>7. run.todo \ {l} = {} => run.todo = {l}
  BY <1>2
<1> QED
  BY <1>2, <1>3, <1>4, <1>5, <1>6, <1>7


\* The comment of an escalation.
LEMMA CommentInto ==
  ASSUME Inv, Comment
  PROVE  \/ Ends(run', run, "ESCALATED") /\ notes' = notes \cup {run.reason}
         \/ Announces(run', run) /\ run'.hurt
<1>1. "ESCALATED" \in ReviewOutcome \cup {"none"}
  BY DEF ReviewOutcome
<1> QED
  BY <1>1, Facts, DoneEnds, CallFailsAnnounces DEF Comment, Explained

\* The comment of a failure.
LEMMA NoticeInto ==
  ASSUME Inv, Notice
  PROVE  Ends(run', run, run.outcome) /\ (run'.hurt \/ notes' = notes \cup {run.reason})
<1>1. run.outcome \in ReviewOutcome \cup {"none"}
  BY Facts DEF Runs
<1> QED
  BY <1>1, Facts, DoneEnds DEF Notice

\* The end of a job.
LEMMA CancelledInto ==
  ASSUME Inv, Cancelled
  PROVE  Ends(run', run, "none") /\ run'.hurt
BY Facts, DoneEnds DEF Cancelled

-----------------------------------------------------------------------------
(* Every review ends *)

\* The steps left, stage by stage.
LEMMA StepsLeftAt ==
  ASSUME NEW q
  PROVE  /\ q.pc = "fetch"    => StepsLeft(q) = 22
         /\ q.pc = "load"     => StepsLeft(q) = 21
         /\ q.pc = "terminal" => StepsLeft(q) = 20
         /\ q.pc = "sticky"   => StepsLeft(q) = 19
         /\ q.pc = "review"   => StepsLeft(q) = 14
         /\ q.pc = "codex"    => StepsLeft(q) = 12
         /\ q.pc = "push"     => StepsLeft(q) = 11
         /\ q.pc = "comment"  => StepsLeft(q) = 6
         /\ q.pc = "notice"   => StepsLeft(q) = 1
         /\ q.pc = "done"     => StepsLeft(q) = 0
         /\ q.pc = "persist" /\ q.then = "codex"    => StepsLeft(q) = 13
         /\ q.pc = "persist" /\ q.then = "converge" => StepsLeft(q) = 12
         /\ q.pc = "persist" /\ q.then \notin {"codex", "converge"} => StepsLeft(q) = 11
BY DEF StepsLeft

\* How many are left for what follows a label.
CallsThen(q) == IF q.outcome # "none" THEN 1 ELSE IF q.then = "review" THEN 14 ELSE 6

\* The steps left for labels.
LEMMA StepsLeftLabels ==
  ASSUME NEW q
  PROVE  /\ q.pc = "label" => StepsLeft(q) = CallsThen(q) + 4
         /\ q.pc = "unlabel" => StepsLeft(q) = CallsThen(q) + Cardinality(q.todo)
         /\ CallsThen(q) \in Nat /\ CallsThen(q) <= 14 /\ CallsThen(q) >= 1
<1>1. q.pc = "label" => StepsLeft(q) = CallsThen(q) + 4
  BY DEF StepsLeft, CallsThen
<1>2. q.pc = "unlabel" => StepsLeft(q) = CallsThen(q) + Cardinality(q.todo)
  BY DEF StepsLeft, CallsThen
<1>3. CallsThen(q) \in Nat /\ CallsThen(q) <= 14 /\ CallsThen(q) >= 1
  BY DEF CallsThen
<1> QED
  BY <1>1, <1>2, <1>3

\* The steps left for a result.
LEMMA StepsLeftOf ==
  ASSUME NEW q, NEW r
  PROVE  /\ Announces(q, r) => StepsLeft(q) = 5
         /\ \A o : Ends(q, r, o) => StepsLeft(q) = 0
         /\ Writes(q, r) => StepsLeft(q) \in {11, 12, 13}
         /\ Writes(q, r) /\ q.then \in {"escalate", "ready"} => StepsLeft(q) = 11
         /\ \A label : Applies(q, r, label, "review") => StepsLeft(q) = 18
         /\ \A label, after : Applies(q, r, label, after) /\ after # "review" => StepsLeft(q) = 10
         /\ Opening(q, r) => StepsLeft(q) \in {10, 11, 18}
<1>1. Announces(q, r) => StepsLeft(q) = 5
  <2> SUFFICES ASSUME Announces(q, r) PROVE StepsLeft(q) = 5
    OBVIOUS
  <2>1. CallsThen(q) = 1 /\ q.pc = "label"
    BY DEF Announces, Raising, CallsThen
  <2> QED
    BY <2>1, StepsLeftLabels
<1>2. \A o : Ends(q, r, o) => StepsLeft(q) = 0
  BY StepsLeftAt DEF Ends
<1>3. /\ Writes(q, r) => StepsLeft(q) \in {11, 12, 13}
      /\ Writes(q, r) /\ q.then \in {"escalate", "ready"} => StepsLeft(q) = 11
  BY StepsLeftAt DEF Writes, Saves
<1>4. \A label : Applies(q, r, label, "review") => StepsLeft(q) = 18
  <2> SUFFICES ASSUME NEW label, Applies(q, r, label, "review") PROVE StepsLeft(q) = 18
    OBVIOUS
  <2>1. CallsThen(q) = 14 /\ q.pc = "label"
    BY DEF Applies, CallsThen
  <2> QED
    BY <2>1, StepsLeftLabels
<1>5. \A label, after : Applies(q, r, label, after) /\ after # "review" => StepsLeft(q) = 10
  <2> SUFFICES ASSUME NEW label, NEW after, Applies(q, r, label, after), after # "review"
               PROVE  StepsLeft(q) = 10
    OBVIOUS
  <2>1. CallsThen(q) = 6 /\ q.pc = "label"
    BY DEF Applies, CallsThen
  <2> QED
    BY <2>1, StepsLeftLabels
<1>6. Opening(q, r) => StepsLeft(q) \in {10, 11, 18}
  BY <1>3, <1>4, <1>5 DEF Opening
<1> QED
  BY <1>1, <1>2, <1>3, <1>4, <1>5, <1>6

\* There are four labels.
LEMMA StatusLabelsCount == IsFiniteSet(StatusLabels) /\ Cardinality(StatusLabels) = 4
<1> DEFINE A == {"agent:ready"}
           B == A \cup {"agent:escalated"}
           C == B \cup {"agent:failed"}
<1>1. IsFiniteSet(A) /\ Cardinality(A) = 1
  BY FS_Singleton
<1>2. IsFiniteSet(B) /\ Cardinality(B) = 2
  BY <1>1, FS_AddElement
<1>3. IsFiniteSet(C) /\ Cardinality(C) = 3
  BY <1>2, FS_AddElement
<1>4. StatusLabels = C \cup {"agent:review"} /\ "agent:review" \notin C
  BY DEF StatusLabels, TERMINAL_STATUS_LABELS
<1> HIDE DEF C
<1> QED
  BY <1>3, <1>4, FS_AddElement

\* The labels to remove are finitely many, and one more than without one of them.
LEMMA TodoShrinks ==
  ASSUME NEW S \in SUBSET StatusLabels, NEW l \in S
  PROVE  /\ Cardinality(S) \in Nat /\ Cardinality(S) >= 1
         /\ Cardinality(S \ {l}) = Cardinality(S) - 1
<1>1. IsFiniteSet(S)
  BY StatusLabelsCount, FS_Subset
<1>2. Cardinality(S) \in Nat /\ Cardinality(S \ {l}) = Cardinality(S) - 1
  BY <1>1, FS_CardinalityType, FS_RemoveElement
<1>3. Cardinality(S) # 0
  BY <1>1, FS_EmptySet
<1> QED
  BY <1>2, <1>3

\* The labels to remove after one was added are three.
LEMMA OtherLabelsCount ==
  ASSUME NEW l \in StatusLabels
  PROVE  Cardinality(OtherLabels(l)) = 3
<1>1. StatusLabels \in SUBSET StatusLabels
  OBVIOUS
<1>2. Cardinality(StatusLabels \ {l}) = Cardinality(StatusLabels) - 1
  BY <1>1, TodoShrinks
<1> QED
  BY <1>2, StatusLabelsCount DEF OtherLabels

\* Every step of a review leaves it fewer.
LEMMA StepShrinks == Inv /\ Step => StepsLeft(run') < StepsLeft(run)
<1> SUFFICES ASSUME Inv, Step
             PROVE  StepsLeft(run') < StepsLeft(run)
  OBVIOUS
<1>0. /\ Announces(run', run) => StepsLeft(run') = 5
      /\ \A o : Ends(run', run, o) => StepsLeft(run') = 0
  BY StepsLeftOf
<1>1. CASE Fetch
  <2>1. run.pc = "fetch"
    BY <1>1 DEF Fetch, At
  <2>2. StepsLeft(run') \in {21, 5, 0}
    BY <1>0, <1>1, FetchInto, StepsLeftAt DEF Enters
  <2> QED
    BY <2>1, <2>2, StepsLeftAt
<1>2. CASE load_review_track
  <2>1. run.pc = "load"
    BY <1>2 DEF load_review_track, At
  <2>2. StepsLeft(run') \in {20, 5}
    BY <1>0, <1>2, LoadInto, StepsLeftAt DEF Enters
  <2> QED
    BY <2>1, <2>2, StepsLeftAt
<1>3. CASE Terminals
  <2>1. run.pc = "terminal"
    BY <1>3 DEF Terminals, At
  <2>2. StepsLeft(run') \in {19, 10, 11, 18, 5}
    BY <1>0, <1>3, TerminalsInto, StepsLeftAt, StepsLeftOf DEF Enters
  <2> QED
    BY <2>1, <2>2, StepsLeftAt
<1>4. CASE Sticky
  <2>1. run.pc = "sticky"
    BY <1>4 DEF Sticky, At
  <2>2. StepsLeft(run') \in {0, 10, 11, 18, 5}
    BY <1>0, <1>4, StickyInto, StepsLeftOf
  <2> QED
    BY <2>1, <2>2, StepsLeftAt
<1>5. CASE Review
  <2>1. run.pc = "review"
    BY <1>5 DEF Review, At
  <2>2. StepsLeft(run') \in {11, 12, 13, 5}
    BY <1>0, <1>5, ReviewInto, StepsLeftOf
  <2> QED
    BY <2>1, <2>2, StepsLeftAt
<1>6. CASE Persist
  <2>1. run.pc = "persist" /\ run.then \in Saves
    BY <1>6 DEF Persist, At, Inv, Sound, Carries
  <2>2. \/ FollowsSave(run', run)
        \/ \E r : Announces(run', r)
    BY <1>6, PersistInto
  <2>3. (\E r : Announces(run', r)) => StepsLeft(run') = 5
    BY StepsLeftOf
  <2>4. FollowsSave(run', run) =>
          \/ run.then = "converge" /\ StepsLeft(run') = 11
          \/ run.then = "codex" /\ StepsLeft(run') = 12
          \/ StepsLeft(run') \in {0, 10}
    <3>1. Writes(run', run) /\ run'.then = "ready" => StepsLeft(run') = 11
      BY StepsLeftOf
    <3>2. Applies(run', run, "agent:ready", "READY_FOR_HUMAN") => StepsLeft(run') = 10
      BY StepsLeftOf
    <3>3. Applies(run', run, "agent:escalated", "comment") => StepsLeft(run') = 10
      BY StepsLeftOf
    <3>4. run'.pc = "codex" => StepsLeft(run') = 12
      BY StepsLeftAt
    <3> QED
      BY <1>0, <3>1, <3>2, <3>3, <3>4 DEF FollowsSave
  <2>5. StepsLeft(run) = IF run.then = "codex" THEN 13 ELSE IF run.then = "converge" THEN 12 ELSE 11
    BY <2>1, StepsLeftAt
  <2> QED
    BY <2>2, <2>3, <2>4, <2>5
<1>7. CASE Codex
  <2>1. run.pc = "codex"
    BY <1>7 DEF Codex, At
  <2>2. StepsLeft(run') \in {11, 5}
    BY <1>0, <1>7, CodexInto, StepsLeftAt DEF Enters
  <2> QED
    BY <2>1, <2>2, StepsLeftAt
<1>8. CASE Push
  <2>1. run.pc = "push"
    BY <1>8 DEF Push, At
  <2>2. \/ Applies(run', run, "agent:review", "REVIEW_FIX_PUSHED")
        \/ \E r : Announces(run', r)
    BY <1>8, PushInto
  <2>3. StepsLeft(run') \in {10, 5}
    BY <2>2, StepsLeftOf
  <2> QED
    BY <2>1, <2>3, StepsLeftAt
<1>9. ASSUME NEW owes, FailsLabel(run', run, owes), run.pc \in {"label", "unlabel"}
      PROVE  StepsLeft(run') <= 5 /\ StepsLeft(run') < CallsThen(run) + 1
  <2>1. CASE run.outcome = "none"
    <3>1. run'.pc = "label" /\ CallsThen(run') = 1
      BY <1>9, <2>1 DEF FailsLabel, Raising, CallsThen
    <3>2. StepsLeft(run') = 5
      BY <3>1, StepsLeftLabels
    <3>3. CallsThen(run) \in Nat /\ CallsThen(run) >= 6
      BY <2>1 DEF CallsThen
    <3> QED
      BY <3>2, <3>3
  <2>2. CASE run.outcome # "none"
    <3>1. StepsLeft(run') = 1
      BY <1>9, <2>2, StepsLeftAt DEF FailsLabel
    <3>2. CallsThen(run) = 1
      BY <2>2 DEF CallsThen
    <3> QED
      BY <3>1, <3>2
  <2> QED
    BY <2>1, <2>2
<1>10. CASE AddLabel
  <2>1. run.pc = "label" /\ run.want \in StatusLabels
    BY <1>10, Facts DEF AddLabel, At, Runs
  <2>2. \/ Unlabels(run', run, OtherLabels(run.want))
        \/ \E owes : FailsLabel(run', run, owes)
    BY <1>10, AddLabelInto
  <2>3. CASE Unlabels(run', run, OtherLabels(run.want))
    <3>1. CallsThen(run') = CallsThen(run) /\ run'.pc = "unlabel" /\ Cardinality(run'.todo) = 3
      BY <2>1, <2>3, OtherLabelsCount DEF Unlabels, CallsThen
    <3>2. StepsLeft(run') = CallsThen(run) + 3 /\ StepsLeft(run) = CallsThen(run) + 4
      BY <2>1, <3>1, StepsLeftLabels
    <3> QED
      BY <3>2, StepsLeftLabels
  <2>4. CASE \E owes : FailsLabel(run', run, owes)
    <3>1. StepsLeft(run') <= 5 /\ StepsLeft(run') < CallsThen(run) + 1
      BY <1>9, <2>1, <2>4
    <3>2. StepsLeft(run) = CallsThen(run) + 4 /\ CallsThen(run) \in Nat
      BY <2>1, StepsLeftLabels
    <3>3. StepsLeft(run') \in Int
      BY <2>4, StepsLeftLabels, StepsLeftAt DEF FailsLabel
    <3> QED
      BY <3>1, <3>2, <3>3
  <2> QED
    BY <2>2, <2>3, <2>4
<1>11. CASE RemoveLabel
  <2>1. run.pc = "unlabel" /\ run.todo \in SUBSET StatusLabels
    BY <1>11, Facts DEF RemoveLabel, At, Runs
  <2>2. PICK l \in run.todo :
          \/ FollowsLabel(run', run)
          \/ Unlabels(run', run, run.todo \ {l})
          \/ FailsLabel(run', run, run.owes)
    BY <1>11, RemoveLabelInto
  <2>3. /\ Cardinality(run.todo) \in Nat /\ Cardinality(run.todo) >= 1
        /\ Cardinality(run.todo \ {l}) = Cardinality(run.todo) - 1
    BY <2>1, TodoShrinks
  <2>4. /\ StepsLeft(run) = CallsThen(run) + Cardinality(run.todo)
        /\ CallsThen(run) \in Nat /\ CallsThen(run) >= 1
    BY <2>1, StepsLeftLabels
  <2>5. CASE Unlabels(run', run, run.todo \ {l})
    <3>1. CallsThen(run') = CallsThen(run) /\ run'.pc = "unlabel" /\ run'.todo = run.todo \ {l}
      BY <2>5 DEF Unlabels, CallsThen
    <3>2. StepsLeft(run') = CallsThen(run) + (Cardinality(run.todo) - 1)
      BY <2>3, <3>1, StepsLeftLabels
    <3> QED
      BY <2>3, <2>4, <3>2
  <2>6. CASE FailsLabel(run', run, run.owes)
    <3>1. StepsLeft(run') < CallsThen(run) + 1
      BY <1>9, <2>1, <2>6
    <3>2. StepsLeft(run') \in Int
      BY <2>6, StepsLeftLabels, StepsLeftAt DEF FailsLabel
    <3> QED
      BY <2>3, <2>4, <3>1, <3>2
  <2>7. CASE FollowsLabel(run', run)
    <3>1. StepsLeft(run') \in Nat /\ StepsLeft(run') <= CallsThen(run)
      <4>1. CASE Ends(run', run, run.then)
        BY <1>0, <2>4, <4>1
      <4>2. CASE run.then \in {"review", "comment", "notice"} /\ Enters(run', run, run.then)
        <5>1. /\ run'.pc = run.then
              /\ run.outcome = "none" <=> run.then # "notice"
          BY <2>1, <4>2 DEF Enters, Inv, Sound, Matched, Raising
        <5> QED
          BY <4>2, <5>1, StepsLeftAt DEF CallsThen
      <4> QED
        BY <2>7, <4>1, <4>2 DEF FollowsLabel
    <3> QED
      BY <2>3, <2>4, <3>1
  <2> QED
    BY <2>2, <2>5, <2>6, <2>7
<1>12. CASE Comment
  <2>1. run.pc = "comment"
    BY <1>12 DEF Comment, At
  <2>2. StepsLeft(run') \in {0, 5}
    BY <1>0, <1>12, CommentInto
  <2> QED
    BY <2>1, <2>2, StepsLeftAt
<1>13. CASE Notice
  <2>1. run.pc = "notice"
    BY <1>13 DEF Notice, At
  <2>2. StepsLeft(run') = 0
    BY <1>0, <1>13, NoticeInto
  <2> QED
    BY <2>1, <2>2, StepsLeftAt
<1> QED
  BY <1>1, <1>2, <1>3, <1>4, <1>5, <1>6, <1>7, <1>8, <1>10, <1>11, <1>12, <1>13 DEF Step

\* Every review ends after 22 of its steps at most, whatever its calls answer.
THEOREM ReviewIsBoundedHolds == Spec => ReviewIsBounded
<1>1. Inv /\ [Next]_vars => [StepsLeft(run') < StepsLeft(run) \/ ~Step]_vars
  BY StepShrinks
<1> QED
  BY <1>1, InvInductive, PTL DEF Spec, ReviewIsBounded


-----------------------------------------------------------------------------
(* No way back *)

\* The labels of a verdict that is not to be turned into ready, and the commits
\* whose verdict is not excepted.
Bad == {"agent:escalated", "agent:failed"}
Refusing == refused \ cut

\* The stages that read what earlier reviews of the same commit left.
Opens(r) == r.pc \in {"load", "terminal", "sticky"}

\* A review owes the pull request a bad label until it has shown it, or is excepted.
Owing ==
  /\ run.pc \in {"codex", "push"} => run.owes
  /\ run.owes => \/ run.pc \in {"codex", "push"}
                 \/ run.pc = "label" /\ run.want \in Bad
                 \/ run.pc = "notice" /\ run.sha \in cut

\* No decision is about a commit later than the one under review, once it was
\* compared with the head.
Ahead ==
  /\ refused \subseteq 1..head /\ run.sha <= head
  /\ run.outcome = "none" /\ run.pc \in PastLoad \cup {"load"} => refused \subseteq 1..run.sha
  /\ Relabels(run, {"REVIEW_FIX_PUSHED"}) => run.sha < head

\* A decision about the head, or about the commit that a review opens, is in the
\* record, and a bad label shows it or will.
Kept ==
  \A h \in Refusing :
    h = head \/ (h = run.sha /\ Opens(run)) =>
      /\ Recorded(tracks).head = h
      /\ labels \cap Bad # {} \/ (run.sha = h /\ run.owes)

\* A review that may still call its commit ready knows of no decision about it.
Clear ==
  \/ run.pc \in {"review", "persist"}
  \/ Relabels(run, {"review", "IN_REVIEW", "READY_FOR_HUMAN"})
  \/ run.outcome = "READY_FOR_HUMAN"
  => run.sha \notin Refusing

\* The labels are removed after the new one was added.
Worn == run.pc = "unlabel" => run.want \in labels \/ Refusing = {}

RefusalInv == Owing /\ Ahead /\ Kept /\ Clear /\ Worn

\* An exception is announced.
LEMMA AnnouncesRefusal ==
  ASSUME Inv, RefusalInv, UNCHANGED <<head, tracks, labels, refused, cut>>, Announces(run', run)
  PROVE  RefusalInv'
<1>1. /\ run'.pc = "label" /\ run'.outcome \in Raising /\ run'.sha = run.sha /\ run'.owes = run.owes
      /\ run'.want \in Bad
  BY DEF Announces, Keeps, StatusLabelOf, Raising, Bad
<1>2. Owing' /\ Ahead' /\ Worn'
  BY <1>1 DEF RefusalInv, Owing, Ahead, Worn, Relabels, Raising
<1>3. Kept'
  BY <1>1 DEF RefusalInv, Kept, Refusing, Opens
<1>4. Clear'
  BY <1>1 DEF Clear, Relabels, Raising
<1> QED
  BY <1>2, <1>3, <1>4 DEF RefusalInv

\* The end of a review.
LEMMA EndsRefusal ==
  ASSUME Inv, RefusalInv, UNCHANGED <<head, tracks, refused>>,
         labels' = labels, cut \subseteq cut',
         NEW o, Ends(run', run, o), run.owes => run.sha \in cut',
         o = "READY_FOR_HUMAN" => run.sha \notin Refusing
  PROVE  RefusalInv'
<1>1. /\ run'.pc = "done" /\ run'.sha = run.sha /\ run'.owes = FALSE /\ run'.outcome = o
  BY DEF Ends
<1>2. Owing' /\ Ahead' /\ Worn'
  BY <1>1 DEF RefusalInv, Owing, Ahead, Worn, Relabels, PastLoad
<1>3. Kept'
  BY <1>1 DEF RefusalInv, Kept, Refusing, Opens
<1>4. Clear'
  BY <1>1 DEF Clear, Relabels, Refusing
<1> QED
  BY <1>2, <1>3, <1>4 DEF RefusalInv

\* A review that opens an escalation or a label.
LEMMA OpeningRefusal ==
  ASSUME Inv, RefusalInv, UNCHANGED <<head, tracks, labels, refused, cut>>,
         Opening(run', run), run.pc \in {"terminal", "sticky"}, run.sha \notin Refusing
  PROVE  RefusalInv'
<1>1. /\ run'.sha = run.sha /\ run'.owes = run.owes /\ run'.outcome = "none"
      /\ \/ run'.pc = "persist"
         \/ run'.pc = "label" /\ run'.then \in {"review", "IN_REVIEW"}
  BY DEF Opening, Writes, Applies, Keeps
<1>2. ~run.owes /\ run.outcome = "none"
  BY DEF RefusalInv, Owing, Inv, Sound, Early
<1>3. Owing' /\ Ahead' /\ Worn'
  BY <1>1, <1>2 DEF RefusalInv, Owing, Ahead, Worn, Relabels, PastLoad
<1>4. Kept'
  BY <1>1 DEF RefusalInv, Kept, Refusing, Opens
<1>5. Clear'
  BY <1>1 DEF Clear, Refusing
<1> QED
  BY <1>3, <1>4, <1>5 DEF RefusalInv

\* The first steps of a review.
LEMMA OpenRefusal ==
  ASSUME Inv, RefusalInv, Start \/ Fetch \/ load_review_track \/ Terminals \/ Sticky
  PROVE  RefusalInv'
<1> USE DEF Quiet, NoTrace, github, world, history
<1>1. CASE Start
  <2>1. PICK h \in 1..head : run' = NewRun(h)
    BY <1>1 DEF Start, Becomes
  <2>2. h \in Heads /\ UNCHANGED <<head, tracks, labels, refused, cut>>
    BY <1>1, <2>1, HeadsAssumption DEF Start, Inv, TypeOK
  <2>3. /\ run'.pc = "fetch" /\ run'.sha = h /\ run'.owes = FALSE /\ run'.outcome = "none"
    BY <2>1, <2>2, NewRunFields
  <2>4. ~run.owes
    BY <1>1 DEF Start, RefusalInv, Owing
  <2>5. Owing' /\ Worn'
    BY <2>3 DEF Owing, Worn
  <2>6. Ahead'
    BY <2>1, <2>2, <2>3 DEF RefusalInv, Ahead, Relabels, PastLoad
  <2>7. Kept'
    BY <2>2, <2>3, <2>4 DEF RefusalInv, Kept, Refusing, Opens
  <2>8. Clear'
    BY <2>3 DEF Clear, Relabels
  <2> QED
    BY <2>5, <2>6, <2>7, <2>8 DEF RefusalInv
<1>2. CASE Fetch
  <2>1. UNCHANGED <<head, tracks, labels, refused, cut>> /\ run.pc = "fetch" /\ run.outcome = "none"
    BY <1>2 DEF Fetch, At, Inv, Sound, Early
  <2>2. ~run.owes
    BY <2>1 DEF RefusalInv, Owing
  <2>3. CASE head = run.sha /\ Enters(run', run, "load")
    <3>1. /\ run'.pc = "load" /\ run'.sha = run.sha /\ run'.owes = run.owes /\ run'.outcome = "none"
      BY <2>1, <2>3 DEF Enters, Keeps
    <3>2. Owing' /\ Ahead' /\ Worn'
      BY <2>1, <2>2, <2>3, <3>1 DEF RefusalInv, Owing, Ahead, Worn, Relabels, PastLoad
    <3>3. Kept'
      BY <2>1, <2>3, <3>1 DEF RefusalInv, Kept, Refusing, Opens
    <3>4. Clear'
      BY <3>1 DEF Clear, Relabels
    <3> QED
      BY <3>2, <3>3, <3>4 DEF RefusalInv
  <2>4. CASE Ends(run', run, "FAILED")
    BY <2>1, <2>2, <2>4, EndsRefusal
  <2> QED
    BY <1>2, <2>1, <2>3, <2>4, FetchInto, AnnouncesRefusal
<1>3. ASSUME NEW stage \in {"terminal", "sticky"}, Enters(run', run, stage), Opens(run),
             UNCHANGED <<head, tracks, labels, refused, cut>>
      PROVE  RefusalInv'
  <2>1. run.outcome = "none" /\ ~run.owes
    BY <1>3 DEF Opens, RefusalInv, Owing, Inv, Sound, Early
  <2>2. /\ run'.pc = stage /\ run'.sha = run.sha /\ run'.owes = run.owes /\ run'.outcome = "none"
    BY <1>3, <2>1 DEF Enters, Keeps
  <2>3. refused \subseteq 1..run.sha
    BY <1>3, <2>1 DEF Opens, RefusalInv, Ahead, PastLoad
  <2>4. Owing' /\ Ahead' /\ Worn'
    BY <1>3, <2>1, <2>2, <2>3 DEF RefusalInv, Owing, Ahead, Worn, Relabels, PastLoad
  <2>5. Kept'
    BY <1>3, <2>2 DEF RefusalInv, Kept, Refusing, Opens
  <2>6. Clear'
    BY <2>2 DEF Clear, Relabels
  <2> QED
    BY <2>4, <2>5, <2>6 DEF RefusalInv
<1>4. CASE load_review_track
  <2>1. UNCHANGED <<head, tracks, labels, refused, cut>> /\ Opens(run)
    BY <1>4 DEF load_review_track, At, Opens
  <2> QED
    BY <1>3, <1>4, <2>1, LoadInto, AnnouncesRefusal
<1>5. CASE Terminals
  <2>1. /\ UNCHANGED <<head, tracks, labels, refused, cut>> /\ Opens(run)
        /\ run.pc = "terminal" /\ run.track = Recorded(tracks)
    BY <1>5 DEF Terminals, At, Opens, Inv, Sound, Carries
  <2>2. run.track.head # run.sha => run.sha \notin Refusing
    BY <2>1 DEF RefusalInv, Kept
  <2> QED
    BY <1>3, <1>5, <2>1, <2>2, TerminalsInto, OpeningRefusal, AnnouncesRefusal
<1>6. CASE Sticky
  <2>1. /\ UNCHANGED <<head, tracks, labels, refused, cut>> /\ Opens(run) /\ run.pc = "sticky"
        /\ ~run.owes
    BY <1>6 DEF Sticky, At, Opens, RefusalInv, Owing
  <2>2. labels \cap Bad = {} => run.sha \notin Refusing
    BY <2>1 DEF RefusalInv, Kept
  <2>3. /\ StickyOutcome(labels) = {} => labels \cap Bad = {}
        /\ "READY_FOR_HUMAN" \in StickyOutcome(labels) => labels \cap Bad = {}
    BY DEF StickyOutcome, Bad
  <2>4. CASE \E o \in StickyOutcome(labels) : Ends(run', run, o)
    BY <2>1, <2>2, <2>3, <2>4, EndsRefusal
  <2> QED
    BY <1>6, <2>1, <2>2, <2>3, <2>4, StickyInto, OpeningRefusal, AnnouncesRefusal
<1> QED
  BY <1>1, <1>2, <1>4, <1>5, <1>6


\* The feedback and the repair.
LEMMA FeedbackRefusal ==
  ASSUME Inv, RefusalInv, Review \/ Codex
  PROVE  RefusalInv'
<1>0. UNCHANGED <<head, tracks, labels, refused, cut>>
  BY DEF Review, Codex, Quiet, github, world
<1>1. CASE Review /\ Writes(run', run)
  <2>1. run.pc = "review" /\ run.outcome = "none" /\ ~run.owes
    BY <1>1 DEF Review, At, RefusalInv, Owing, Inv, Sound, Early
  <2>2. /\ run'.pc = "persist" /\ run'.sha = run.sha /\ run'.owes = run.owes /\ run'.outcome = "none"
    BY <1>1 DEF Writes, Keeps
  <2>3. Owing' /\ Ahead' /\ Worn'
    BY <1>0, <2>1, <2>2 DEF RefusalInv, Owing, Ahead, Worn, Relabels, PastLoad
  <2>4. Kept'
    BY <1>0, <2>2 DEF RefusalInv, Kept, Refusing, Opens
  <2>5. Clear'
    BY <1>0, <2>1, <2>2 DEF RefusalInv, Clear, Refusing
  <2> QED
    BY <2>3, <2>4, <2>5 DEF RefusalInv
<1>2. CASE Codex /\ Enters(run', run, "push")
  <2>1. run.pc = "codex" /\ run.outcome = "none" /\ run.owes
    BY <1>2 DEF Codex, At, RefusalInv, Owing, Inv, Sound, Early
  <2>2. /\ run'.pc = "push" /\ run'.sha = run.sha /\ run'.owes = run.owes /\ run'.outcome = "none"
    BY <1>2, <2>1 DEF Enters, Keeps
  <2>3. Owing' /\ Ahead' /\ Worn'
    BY <1>0, <2>1, <2>2 DEF RefusalInv, Owing, Ahead, Worn, Relabels, PastLoad
  <2>4. Kept'
    BY <1>0, <2>2 DEF RefusalInv, Kept, Refusing, Opens
  <2>5. Clear'
    BY <2>2 DEF Clear, Relabels
  <2> QED
    BY <2>3, <2>4, <2>5 DEF RefusalInv
<1> QED
  BY <1>0, <1>1, <1>2, ReviewInto, CodexInto, AnnouncesRefusal

\* A save.
LEMMA PersistRefusal ==
  ASSUME Inv, RefusalInv, Persist
  PROVE  RefusalInv'
<1>0. UNCHANGED <<head, labels, cut>> /\ run.pc = "persist" /\ run.outcome = "none"
  BY DEF Persist, At, Quiet, world, Inv, Sound, Early
<1>1. /\ ~run.owes /\ run.sha \notin Refusing
      /\ refused \subseteq 1..run.sha /\ refused \subseteq 1..head /\ run.sha <= head
  BY <1>0 DEF RefusalInv, Owing, Clear, Ahead, PastLoad
<1>2. Decides => run.track.head = run.sha
  BY <1>0 DEF Decides, Inv, Sound, Carries
<1>3. run.sha \in Nat /\ head \in Nat
  BY Facts, HeadsAssumption DEF Inv, TypeOK
<1>4. run.sha \in 1..run.sha /\ run.sha \in 1..head /\ (head \in 1..run.sha => head = run.sha)
  BY <1>1, <1>3, Facts, HeadsAssumption
<1> DEFINE decided == /\ refused' = IF Decides THEN refused \cup {run.sha} ELSE refused
                      /\ Recorded(tracks') = run.track
<1>5. ASSUME decided, run'.sha = run.sha, ~Opens(run'), Decides => run'.owes
      PROVE  Kept'
  <2> SUFFICES ASSUME NEW h \in Refusing', h = head'
               PROVE  Recorded(tracks').head = h /\ (labels' \cap Bad # {} \/ (run'.sha = h /\ run'.owes))
    BY <1>5 DEF Kept, Opens
  <2>1. h \in refused' /\ h \notin cut /\ h = head
    BY <1>0 DEF Refusing
  <2>2. refused' \subseteq 1..run.sha
    BY <1>1, <1>4, <1>5
  <2>3. h = run.sha
    BY <1>4, <2>1, <2>2
  <2>4. h \notin refused
    BY <1>1, <2>1, <2>3 DEF Refusing
  <2>5. Decides
    BY <1>5, <2>1, <2>4
  <2> QED
    BY <1>2, <1>5, <2>3, <2>5
<1>6. decided => refused' \subseteq 1..run.sha /\ refused' \subseteq 1..head
  BY <1>1, <1>4
<1>7. decided /\ ~Decides => Refusing' = Refusing
  BY <1>0 DEF Refusing
<1> HIDE DEF decided
<1>8. CASE decided /\ FollowsSave(run', run)
  <2>1. CASE run.then = "converge" /\ Writes(run', run)
    <3>1. ~Decides
      BY <2>1 DEF Decides
    <3>2. /\ run'.pc = "persist" /\ run'.sha = run.sha /\ run'.owes = run.owes /\ run'.outcome = "none"
      BY <2>1 DEF Writes, Keeps
    <3>3. Owing' /\ Ahead' /\ Worn'
      BY <1>0, <1>1, <1>6, <1>8, <3>2 DEF Owing, Ahead, Worn, Relabels, PastLoad
    <3>4. Kept'
      BY <1>5, <1>8, <3>1, <3>2 DEF Opens
    <3>5. Clear'
      BY <1>1, <1>7, <1>8, <3>1, <3>2 DEF Clear
    <3> QED
      BY <3>3, <3>4, <3>5 DEF RefusalInv
  <2>2. CASE run.then \in {"converge", "more"} /\ Ends(run', run, "IN_REVIEW")
    <3>1. ~Decides
      BY <2>2 DEF Decides
    <3>2. /\ run'.pc = "done" /\ run'.sha = run.sha /\ run'.owes = FALSE /\ run'.outcome = "IN_REVIEW"
      BY <2>2 DEF Ends
    <3>3. Owing' /\ Ahead' /\ Worn'
      BY <1>0, <1>1, <1>6, <1>8, <3>2 DEF Owing, Ahead, Worn, Relabels, PastLoad
    <3>4. Kept'
      BY <1>5, <1>8, <3>1, <3>2 DEF Opens
    <3>5. Clear'
      BY <3>2 DEF Clear, Relabels
    <3> QED
      BY <3>3, <3>4, <3>5 DEF RefusalInv
  <2>3. CASE run.then = "ready" /\ Keeps(run', run) /\ Applies(run', run, "agent:ready", "READY_FOR_HUMAN")
    <3>1. ~Decides
      BY <2>3 DEF Decides
    <3>2. /\ run'.pc = "label" /\ run'.sha = run.sha /\ run'.owes = run.owes /\ run'.outcome = "none"
          /\ run'.then = "READY_FOR_HUMAN"
      BY <2>3 DEF Keeps, Applies
    <3>3. Owing' /\ Ahead' /\ Worn'
      BY <1>0, <1>1, <1>6, <1>8, <3>2 DEF Owing, Ahead, Worn, Relabels, PastLoad
    <3>4. Kept'
      BY <1>5, <1>8, <3>1, <3>2 DEF Opens
    <3>5. Clear'
      BY <1>1, <1>7, <1>8, <3>1, <3>2 DEF Clear
    <3> QED
      BY <3>3, <3>4, <3>5 DEF RefusalInv
  <2>4. CASE run'.owes /\ Applies(run', run, "agent:escalated", "comment")
    <3>2. /\ run'.pc = "label" /\ run'.sha = run.sha /\ run'.owes /\ run'.outcome = "none"
          /\ run'.then = "comment" /\ run'.want \in Bad
      BY <2>4 DEF Applies, Bad
    <3>3. Owing' /\ Ahead' /\ Worn'
      BY <1>0, <1>1, <1>6, <1>8, <3>2 DEF Owing, Ahead, Worn, Relabels, PastLoad
    <3>4. Kept'
      BY <1>5, <1>8, <3>2 DEF Opens
    <3>5. Clear'
      BY <3>2 DEF Clear, Relabels
    <3> QED
      BY <3>3, <3>4, <3>5 DEF RefusalInv
  <2>5. CASE run'.pc = "codex" /\ run'.owes /\ run'.outcome = "none" /\ run'.sha = run.sha
    <3>3. Owing' /\ Ahead' /\ Worn'
      BY <1>0, <1>1, <1>6, <1>8, <2>5 DEF Owing, Ahead, Worn, Relabels, PastLoad
    <3>4. Kept'
      BY <1>5, <1>8, <2>5 DEF Opens
    <3>5. Clear'
      BY <2>5 DEF Clear, Relabels
    <3> QED
      BY <3>3, <3>4, <3>5 DEF RefusalInv
  <2> QED
    BY <1>8, <2>1, <2>2, <2>3, <2>4, <2>5 DEF FollowsSave
<1>9. CASE decided /\ \E r : Announces(run', r) /\ r.sha = run.sha /\ (r.owes <=> run.owes \/ Decides)
  <2>1. /\ run'.pc = "label" /\ run'.outcome \in Raising /\ run'.sha = run.sha
        /\ run'.want \in Bad /\ (Decides => run'.owes)
    BY <1>9 DEF Announces, Keeps, StatusLabelOf, Raising, Bad
  <2>2. Owing' /\ Ahead' /\ Worn'
    BY <1>0, <1>1, <1>6, <1>9, <2>1 DEF Owing, Ahead, Worn, Relabels, Raising
  <2>3. Kept'
    BY <1>5, <1>9, <2>1 DEF Opens
  <2>4. Clear'
    BY <2>1 DEF Clear, Relabels, Raising
  <2> QED
    BY <2>2, <2>3, <2>4 DEF RefusalInv
<1>10. CASE UNCHANGED <<tracks, refused>> /\ Announces(run', run)
  BY <1>0, <1>10, AnnouncesRefusal
<1> QED
  BY <1>8, <1>9, <1>10, PersistInto DEF decided


\* The push of a repair, and that of a person.
LEMMA PushRefusal ==
  ASSUME Inv, RefusalInv, Push \/ PushCommit
  PROVE  RefusalInv'
<1>0. UNCHANGED <<tracks, labels, refused, cut>> /\ head \in Nat /\ run.sha \in Nat
  BY Facts, HeadsAssumption DEF Push, PushCommit, github, NoTrace, history, Inv, TypeOK
<1>1. /\ refused \subseteq 1..head /\ run.sha <= head /\ head + 1 \notin refused
      /\ refused \subseteq 1..(head + 1)
  BY <1>0 DEF RefusalInv, Ahead
<1>2. CASE PushCommit
  <2>1. head' = head + 1 /\ run' = run
    BY <1>2 DEF PushCommit, Advances
  <2>2. Owing' /\ Worn' /\ Clear'
    BY <1>0, <2>1 DEF RefusalInv, Owing, Worn, Clear, Relabels, Refusing
  <2>3. Ahead'
    BY <1>0, <1>1, <2>1 DEF RefusalInv, Ahead, Relabels
  <2>4. Kept'
    BY <1>0, <1>1, <2>1 DEF RefusalInv, Kept, Refusing, Opens
  <2> QED
    BY <2>2, <2>3, <2>4 DEF RefusalInv
<1>3. ASSUME Advances, run'.owes = FALSE, run'.sha = run.sha, run'.pc = "label", head = run.sha,
             \/ run'.outcome \in Raising
             \/ run'.outcome = "none" /\ run'.then = "REVIEW_FIX_PUSHED"
      PROVE  RefusalInv'
  <2>1. head' = head + 1
    BY <1>3 DEF Advances
  <2>2. Owing' /\ Worn'
    BY <1>3 DEF Owing, Worn
  <2>3. Ahead'
    BY <1>0, <1>1, <1>3, <2>1 DEF Ahead, Relabels, Raising
  <2>4. Kept'
    BY <1>0, <1>1, <1>3, <2>1 DEF Kept, Refusing, Opens
  <2>5. Clear'
    BY <1>3 DEF Clear, Relabels, Raising
  <2> QED
    BY <2>2, <2>3, <2>4, <2>5 DEF RefusalInv
<1>4. CASE Push
  <2>1. CASE head = run.sha /\ Advances /\ run'.owes = FALSE
             /\ Applies(run', run, "agent:review", "REVIEW_FIX_PUSHED")
    BY <1>3, <2>1 DEF Applies
  <2>2. CASE head = run.sha /\ Advances /\ run'.owes = FALSE
             /\ \E r : r.sha = run.sha /\ r.owes = FALSE /\ Announces(run', r)
    BY <1>3, <2>2 DEF Announces, Keeps
  <2>3. CASE UNCHANGED <<head, on>> /\ Announces(run', run)
    BY <1>0, <2>3, AnnouncesRefusal
  <2> QED
    BY <1>4, <2>1, <2>2, <2>3, PushInto
<1> QED
  BY <1>2, <1>4

\* A failed call about a label.
LEMMA FailsLabelRefusal ==
  ASSUME Inv, RefusalInv, UNCHANGED <<head, tracks, refused>>, run.pc \in {"label", "unlabel"},
         cut \subseteq cut', NEW owes \in BOOLEAN, FailsLabel(run', run, owes),
         owes => run.outcome = "none" \/ run.sha \in cut',
         \A h \in Refusing' : h = head => labels' \cap Bad # {} \/ (run.sha = h /\ owes)
  PROVE  RefusalInv'
<1>1. /\ run'.sha = run.sha /\ (run'.owes <=> owes)
      /\ \/ run.outcome = "none" /\ run'.pc = "label" /\ run'.outcome \in Raising /\ run'.want \in Bad
         \/ run.outcome # "none" /\ run'.pc = "notice" /\ run'.outcome = run.outcome
  BY DEF FailsLabel, StatusLabelOf, Raising, Bad
<1>2. run'.outcome \in Raising
  BY <1>1 DEF Inv, Sound, Matched
<1>3. Owing' /\ Worn'
  BY <1>1 DEF Owing, Worn
<1>4. Ahead'
  BY <1>1, <1>2 DEF RefusalInv, Ahead, Relabels, Raising
<1>5. Kept'
  <2>1. \A h \in Refusing : h = head => Recorded(tracks).head = h
    BY DEF RefusalInv, Kept
  <2>2. Refusing' \subseteq Refusing
    BY DEF Refusing
  <2> QED
    BY <1>1, <2>1, <2>2 DEF Kept, Opens
<1>6. Clear'
  BY <1>1, <1>2 DEF Clear, Relabels, Raising
<1> QED
  BY <1>3, <1>4, <1>5, <1>6 DEF RefusalInv

\* A label is added.
LEMMA AddLabelRefusal ==
  ASSUME Inv, RefusalInv, AddLabel
  PROVE  RefusalInv'
<1>0. UNCHANGED <<head, tracks, refused>> /\ run.pc = "label" /\ run.owes \in BOOLEAN
  BY Facts DEF AddLabel, At, Quiet, world, Runs
<1> DEFINE owes == run.owes /\ run.want \notin {"agent:escalated", "agent:failed"}
<1>1. ~owes /\ (run.owes => run.want \in Bad)
  BY <1>0 DEF RefusalInv, Owing, Bad
<1>2. \A h \in Refusing : h = head => labels \cap Bad # {} \/ (run.sha = h /\ run.owes)
  BY DEF RefusalInv, Kept
<1>3. CASE /\ labels' = labels \cup {run.want} /\ cut' = cut
           /\ \/ Unlabels(run', run, OtherLabels(run.want)) /\ (run'.owes <=> owes)
              \/ FailsLabel(run', run, owes)
  <2>1. \A h \in Refusing' : h = head => labels' \cap Bad # {}
    BY <1>0, <1>1, <1>2, <1>3 DEF Refusing
  <2>2. CASE Unlabels(run', run, OtherLabels(run.want)) /\ (run'.owes <=> owes)
    <3>1. /\ run'.pc = "unlabel" /\ run'.sha = run.sha /\ ~run'.owes /\ run'.outcome = run.outcome
          /\ run'.then = run.then /\ run'.want = run.want
      BY <1>1, <2>2 DEF Unlabels
    <3>2. Owing' /\ Worn'
      BY <1>3, <3>1 DEF Owing, Worn
    <3>3. Ahead'
      BY <1>0, <3>1 DEF RefusalInv, Ahead, Relabels, PastLoad
    <3>4. Kept'
      <4>1. \A h \in Refusing : h = head => Recorded(tracks).head = h
        BY DEF RefusalInv, Kept
      <4>2. Refusing' = Refusing
        BY <1>0, <1>3 DEF Refusing
      <4> QED
        BY <1>0, <2>1, <3>1, <4>1, <4>2 DEF Kept, Opens
    <3>5. Clear'
      BY <1>0, <1>3, <3>1 DEF RefusalInv, Clear, Relabels, Refusing
    <3> QED
      BY <3>2, <3>3, <3>4, <3>5 DEF RefusalInv
  <2>3. CASE FailsLabel(run', run, owes)
    <3>1. FailsLabel(run', run, FALSE) /\ FALSE \in BOOLEAN
      BY <1>1, <2>3 DEF FailsLabel
    <3> QED
      BY <1>0, <1>3, <2>1, <3>1, FailsLabelRefusal
  <2> QED
    BY <1>3, <2>2, <2>3
<1>4. CASE /\ labels' = labels /\ FailsLabel(run', run, run.owes)
           /\ cut' = IF run.owes /\ run.outcome # "none" THEN cut \cup {run.sha} ELSE cut
  <2>1. cut \subseteq cut' /\ (run.owes => run.outcome = "none" \/ run.sha \in cut')
    BY <1>4
  <2>2. \A h \in Refusing' : h = head => labels' \cap Bad # {} \/ (run.sha = h /\ run.owes)
    BY <1>0, <1>2, <1>4, <2>1 DEF Refusing
  <2> QED
    BY <1>0, <1>4, <2>1, <2>2, FailsLabelRefusal
<1> QED
  BY <1>3, <1>4, AddLabelInto

\* A label is removed.
LEMMA RemoveLabelRefusal ==
  ASSUME Inv, RefusalInv, RemoveLabel
  PROVE  RefusalInv'
<1>0. /\ UNCHANGED <<head, tracks, refused, cut>> /\ run.pc = "unlabel"
      /\ run.want \notin run.todo /\ Matched(run) /\ ~run.owes
      /\ run.sha \in Nat /\ head \in Nat
  BY Facts, HeadsAssumption
  DEF RemoveLabel, At, Quiet, NoTrace, world, history, Inv, Sound, TypeOK, RefusalInv, Owing
<1>1. PICK l \in run.todo :
        \/ /\ labels' = labels \ {l}
           /\ \/ run.todo = {l} /\ FollowsLabel(run', run)
              \/ /\ run.todo \ {l} # {} /\ Unlabels(run', run, run.todo \ {l})
                 /\ run'.owes = run.owes
        \/ labels' \in {labels \ {l}, labels} /\ FailsLabel(run', run, run.owes)
  BY RemoveLabelInto
<1>2. Refusing' = Refusing
  BY <1>0 DEF Refusing
<1>3. run.want \in labels => run.want \in labels'
  BY <1>0, <1>1
<1>4. \A h \in Refusing : h = head => labels' \cap Bad # {}
  <2> SUFFICES ASSUME head \in Refusing
               PROVE  labels' \cap Bad # {}
    OBVIOUS
  <2>1. run.want \in labels'
    BY <1>0, <1>3 DEF RefusalInv, Worn
  <2>2. CASE run.want \in Bad
    BY <2>1, <2>2
  <2>3. CASE run.want \notin Bad
    <3>1. run.outcome = "none" /\ run.then \in {"review", "IN_REVIEW", "REVIEW_FIX_PUSHED", "READY_FOR_HUMAN"}
      BY <1>0, <2>3 DEF Matched, StatusLabelOf, Raising, Bad
    <3>2. refused \subseteq 1..run.sha /\ run.sha <= head
      BY <1>0, <3>1 DEF RefusalInv, Ahead, PastLoad
    <3>3. head = run.sha
      BY <1>0, <3>2 DEF Refusing
    <3>4. run.then # "REVIEW_FIX_PUSHED"
      BY <1>0, <3>1, <3>3 DEF RefusalInv, Ahead, Relabels
    <3>5. run.sha \notin Refusing
      BY <1>0, <3>1, <3>4 DEF RefusalInv, Clear, Relabels
    <3> QED
      BY <3>3, <3>5
  <2> QED
    BY <2>2, <2>3
<1>5. ASSUME run'.sha = run.sha, ~Opens(run')
      PROVE  Kept'
  BY <1>0, <1>2, <1>4, <1>5 DEF RefusalInv, Kept
<1>6. CASE FailsLabel(run', run, run.owes)
  <2>1. FailsLabel(run', run, FALSE) /\ FALSE \in BOOLEAN
    BY <1>0, <1>6 DEF FailsLabel
  <2> QED
    BY <1>0, <1>2, <1>4, <2>1, FailsLabelRefusal
<1>7. CASE Unlabels(run', run, run.todo \ {l}) /\ run'.owes = run.owes
  <2>1. /\ run'.pc = "unlabel" /\ run'.sha = run.sha /\ ~run'.owes /\ run'.outcome = run.outcome
        /\ run'.then = run.then /\ run'.want = run.want
    BY <1>0, <1>7 DEF Unlabels
  <2>2. Owing' /\ Worn'
    BY <1>0, <1>2, <1>3, <2>1 DEF RefusalInv, Owing, Worn
  <2>3. Ahead'
    BY <1>0, <2>1 DEF RefusalInv, Ahead, Relabels, PastLoad
  <2>4. Kept'
    BY <1>5, <2>1 DEF Opens
  <2>5. Clear'
    BY <1>0, <1>2, <2>1 DEF RefusalInv, Clear, Relabels
  <2> QED
    BY <2>2, <2>3, <2>4, <2>5 DEF RefusalInv
<1>8. CASE run.then \in ReviewOutcome /\ Ends(run', run, run.then)
  <2>1. /\ run'.pc = "done" /\ run'.sha = run.sha /\ ~run'.owes /\ run'.outcome = run.then
    BY <1>8 DEF Ends
  <2>2. run.outcome = "none"
    BY <1>0, <1>8 DEF Matched, ReviewOutcome
  <2>3. Owing' /\ Worn'
    BY <2>1 DEF Owing, Worn
  <2>4. Ahead'
    BY <1>0, <2>1 DEF RefusalInv, Ahead, Relabels, PastLoad
  <2>5. Kept'
    BY <1>5, <2>1 DEF Opens
  <2>6. Clear'
    BY <1>0, <1>2, <2>1, <2>2 DEF RefusalInv, Clear, Relabels
  <2> QED
    BY <2>3, <2>4, <2>5, <2>6 DEF RefusalInv
<1>9. CASE run.then \in {"review", "comment", "notice"} /\ Enters(run', run, run.then)
  <2>1. /\ run'.pc = run.then /\ run'.sha = run.sha /\ run'.owes = run.owes /\ run'.outcome = run.outcome
    BY <1>9 DEF Enters, Keeps
  <2>2. run.then = "notice" => run.outcome \in Raising
    BY <1>0, <1>9 DEF Matched
  <2>3. run.then # "notice" => run.outcome = "none"
    BY <1>0, <1>9 DEF Matched
  <2>4. Owing' /\ Worn'
    BY <1>0, <1>9, <2>1 DEF Owing, Worn
  <2>5. Ahead'
    BY <1>0, <1>9, <2>1, <2>2, <2>3 DEF RefusalInv, Ahead, Relabels, PastLoad, Raising
  <2>6. Kept'
    BY <1>5, <1>9, <2>1 DEF Opens
  <2>7. Clear'
    BY <1>0, <1>2, <1>9, <2>1, <2>2, <2>3 DEF RefusalInv, Clear, Relabels, Raising
  <2> QED
    BY <2>4, <2>5, <2>6, <2>7 DEF RefusalInv
<1> QED
  BY <1>1, <1>6, <1>7, <1>8, <1>9 DEF FollowsLabel

\* The comments, and the end of a job.
LEMMA EndRefusal ==
  ASSUME Inv, RefusalInv, Comment \/ Notice \/ Cancelled
  PROVE  RefusalInv'
<1> USE DEF Quiet, NoTrace, github, world, history
<1>1. CASE Comment
  <2>1. UNCHANGED <<head, tracks, labels, refused, cut>> /\ ~run.owes
    BY <1>1 DEF Comment, At, RefusalInv, Owing
  <2> QED
    BY <1>1, <2>1, CommentInto, EndsRefusal, AnnouncesRefusal
<1>2. CASE Notice
  <2>1. /\ UNCHANGED <<head, tracks, labels, refused, cut>> /\ (run.owes => run.sha \in cut)
        /\ run.outcome \in Raising
    BY <1>2 DEF Notice, At, RefusalInv, Owing, Inv, Sound
  <2>2. run.outcome # "READY_FOR_HUMAN"
    BY <2>1 DEF Raising
  <2> QED
    BY <1>2, <2>1, <2>2, NoticeInto, EndsRefusal
<1>3. CASE Cancelled
  <2>1. /\ UNCHANGED <<head, tracks, labels, refused>> /\ cut \subseteq cut'
        /\ (run.owes => run.sha \in cut')
    BY <1>3 DEF Cancelled
  <2> QED
    BY <1>3, <2>1, CancelledInto, EndsRefusal
<1> QED
  BY <1>1, <1>2, <1>3

\* A re-run of the delivery excepts every commit so far.
LEMMA RelabelRefusal ==
  ASSUME Inv, RefusalInv, Redeliver \/ Relabel
  PROVE  RefusalInv'
<1>0. UNCHANGED <<head, tracks, refused>> /\ cut' = cut \cup 1..head /\ run' = [run EXCEPT !.hurt = TRUE]
  BY DEF Redeliver, Relabel, Interferes, world
<1>1. /\ run'.pc = run.pc /\ run'.sha = run.sha /\ run'.owes = run.owes /\ run'.outcome = run.outcome
      /\ run'.then = run.then /\ run'.want = run.want
  BY <1>0, Facts DEF Runs
<1>2. Refusing' = {}
  BY <1>0 DEF RefusalInv, Ahead, Refusing
<1>3. Owing' /\ Ahead'
  BY <1>0, <1>1 DEF RefusalInv, Owing, Ahead, Relabels
<1>4. Kept' /\ Clear' /\ Worn'
  BY <1>2 DEF Kept, Clear, Worn
<1> QED
  BY <1>3, <1>4 DEF RefusalInv

\* Every step keeps the invariant.
LEMMA RefusalStep == Inv /\ RefusalInv /\ [Next]_vars => RefusalInv'
<1> SUFFICES ASSUME Inv, RefusalInv, [Next]_vars
             PROVE  RefusalInv'
  OBVIOUS
<1>1. CASE UNCHANGED <<head, tracks, labels, refused, cut, run>>
  BY <1>1 DEF RefusalInv, Owing, Ahead, Kept, Clear, Worn, Refusing, Relabels, Opens
<1>2. CASE Environment
  <2>1. ASSUME NEW i \in Items, NEW k \in Items, Write(i) \/ Edit(k, i)
        PROVE  RefusalInv'
    BY <1>1, <2>1 DEF Write, Edit, github, NoTrace, history
  <2> QED
    BY <1>2, <2>1, PushRefusal, RelabelRefusal DEF Environment
<1>3. CASE UNCHANGED vars
  BY <1>1, <1>3 DEF vars, world, github, history
<1> QED
  BY <1>2, <1>3, OpenRefusal, FeedbackRefusal, PersistRefusal, PushRefusal, AddLabelRefusal,
     RemoveLabelRefusal, EndRefusal DEF Next, Step

\* It holds in every reachable state.
LEMMA RefusalInductive == Spec => []RefusalInv
<1>1. Init => RefusalInv
  <2> SUFFICES ASSUME Init
               PROVE  RefusalInv
    OBVIOUS
  <2>1. 1 \in Heads /\ run = [NewRun(1) EXCEPT !.pc = "idle"]
    BY HeadsAssumption DEF Init
  <2> DEFINE n == NewRun(1)
  <2>5. /\ n \in Runs /\ n.sha = 1 /\ n.outcome = "none" /\ n.owes = FALSE
        /\ run = [n EXCEPT !.pc = "idle"]
    BY <2>1, NewRunFields
  <2> HIDE DEF n
  <2>2. run.pc = "idle" /\ run.sha = 1 /\ run.owes = FALSE /\ run.outcome = "none"
    BY <2>5 DEF Runs
  <2>3. head = 1 /\ refused = {}
    BY DEF Init
  <2>4. Owing /\ Ahead /\ Kept /\ Clear /\ Worn
    BY <2>2, <2>3 DEF Owing, Ahead, Kept, Clear, Worn, Refusing, Relabels, PastLoad
  <2> QED
    BY <2>4 DEF RefusalInv
<1> QED
  BY <1>1, InvInductive, RefusalStep, PTL DEF Spec

\* Once a review has recorded that a commit needs a human or a repair, no later
\* review calls that commit ready, unless the verdict was never shown or was taken
\* away; for any number of commits, reviews, comments and failures.
THEOREM NoWayBackHolds == Spec => []NoWayBack
<1>1. Inv /\ RefusalInv => NoWayBack
  <2> SUFFICES ASSUME Inv, RefusalInv, Ready
               PROVE  run.sha \notin refused \ cut
    BY DEF NoWayBack
  <2>1. CASE run.outcome = "READY_FOR_HUMAN"
    BY <2>1 DEF RefusalInv, Clear, Refusing
  <2>2. CASE run.want = "agent:ready" /\ run.pc \in {"label", "unlabel"}
    <3>1. Matched(run)
      BY <2>2 DEF Inv, Sound
    <3>2. run.outcome = "none" /\ run.then = "READY_FOR_HUMAN"
      BY <2>2, <3>1 DEF Matched, StatusLabelOf, Raising
    <3> QED
      BY <2>2, <3>2 DEF RefusalInv, Clear, Refusing, Relabels
  <2> QED
    BY <2>1, <2>2 DEF Ready
<1> QED
  BY <1>1, InvInductive, RefusalInductive, PTL

-----------------------------------------------------------------------------
(* What is shown *)

\* A review has nothing to explain yet.
Silent(r) ==
  \/ r.pc \in Early \ {"comment", "persist"}
  \/ r.pc = "persist" /\ r.then # "escalate"
  \/ Relabels(r, {"review", "IN_REVIEW", "REVIEW_FIX_PUSHED", "READY_FOR_HUMAN"})

\* The label a review has put up, while others are removed and until it is over.
Displays ==
  /\ run.pc = "unlabel" => run.want \in labels
  /\ run.pc = "review" \/ (run.pc = "persist" /\ run.then \in {"converge", "more"})
       => "agent:review" \in labels
  /\ run.pc = "comment" => "agent:escalated" \in labels
  /\ run.pc = "notice" => StatusLabelOf(run.outcome) \in labels

ShownInv ==
  /\ Silent(run) => run.reason = ""
  /\ ~run.hurt => Displays /\ OutcomeIsShown

\* A review that announces an outcome has nothing to show yet.
LEMMA AnnouncesShown ==
  ASSUME NEW r, Announces(run', r)
  PROVE  ShownInv'
<1>1. run'.pc = "label" /\ run'.outcome # "none"
  BY DEF Announces, Raising
<1>2. ~Silent(run')
  BY <1>1 DEF Silent, Relabels, Early
<1>3. Displays' /\ OutcomeIsShown'
  BY <1>1 DEF Displays, OutcomeIsShown
<1> QED
  BY <1>2, <1>3 DEF ShownInv

\* One that is over shows the label of its outcome, and its reason if it has one.
LEMMA EndsShown ==
  ASSUME NEW o, Ends(run', run, o),
         run'.hurt \/ /\ StatusLabelOf(o) \in labels'
                      /\ run.reason = "" \/ run.reason \in notes'
  PROVE  ShownInv'
<1>1. run'.pc = "done" /\ run'.outcome = o /\ run'.reason = run.reason
  BY DEF Ends
<1>2. ~Silent(run')
  BY <1>1 DEF Silent, Relabels, Early
<1>3. Displays'
  BY <1>1 DEF Displays
<1>4. ~run'.hurt => OutcomeIsShown'
  BY <1>1 DEF OutcomeIsShown
<1> QED
  BY <1>2, <1>3, <1>4 DEF ShownInv

\* One that goes on from CodeRabbit's last word has only the reason of an escalation.
LEMMA OpeningShown ==
  ASSUME Opening(run', run), run.reason = ""
  PROVE  ShownInv'
<1>1. CASE Writes(run', run) /\ run'.then = "escalate"
  <2>1. run'.pc = "persist" /\ run'.then = "escalate"
    BY <1>1 DEF Writes
  <2>2. ~Silent(run') /\ Displays' /\ OutcomeIsShown'
    BY <2>1 DEF Silent, Relabels, Early, Displays, OutcomeIsShown
  <2> QED
    BY <2>2 DEF ShownInv
<1>2. ASSUME NEW after, Applies(run', run, "agent:review", after)
      PROVE  ShownInv'
  <2>1. run'.pc = "label" /\ run'.reason = ""
    BY <1>2 DEF Applies
  <2>2. Displays' /\ OutcomeIsShown'
    BY <2>1 DEF Displays, OutcomeIsShown
  <2> QED
    BY <2>1, <2>2 DEF ShownInv
<1> QED
  BY <1>1, <1>2 DEF Opening

\* The steps up to the kept verdict.
LEMMA OpenShown ==
  ASSUME Inv, ShownInv, Start \/ Fetch \/ load_review_track \/ Terminals \/ Sticky
  PROVE  ShownInv'
<1>1. CASE Start
  <2>1. PICK h \in 1..head : run' = NewRun(h)
    BY <1>1 DEF Start, Becomes
  <2>2. h \in Heads
    BY <2>1, HeadsAssumption DEF Inv, TypeOK
  <2>3. run'.pc = "fetch" /\ run'.reason = ""
    BY <2>1, <2>2, NewRunFields
  <2> QED
    BY <2>3 DEF ShownInv, Displays, OutcomeIsShown
<1>2. ASSUME NEW stage \in {"load", "terminal", "sticky"}, Enters(run', run, stage), Silent(run)
      PROVE  ShownInv'
  <2>1. run'.pc = stage /\ run'.reason = ""
    BY <1>2 DEF Enters, ShownInv
  <2> QED
    BY <2>1 DEF ShownInv, Displays, OutcomeIsShown
<1>3. CASE Fetch
  <2>1. Silent(run)
    BY <1>3 DEF Fetch, At, Silent, Early
  <2> QED
    BY <1>2, <1>3, <2>1, FetchInto, AnnouncesShown, EndsShown
<1>4. CASE load_review_track
  <2>1. Silent(run)
    BY <1>4 DEF load_review_track, At, Silent, Early
  <2> QED
    BY <1>2, <1>4, <2>1, LoadInto, AnnouncesShown
<1>5. CASE Terminals
  <2>1. Silent(run) /\ run.reason = ""
    BY <1>5 DEF Terminals, At, Silent, Early, ShownInv
  <2> QED
    BY <1>2, <1>5, <2>1, TerminalsInto, AnnouncesShown, OpeningShown
<1>6. CASE Sticky
  <2>1. run.reason = "" /\ labels' = labels
    BY <1>6 DEF Sticky, At, Silent, Early, ShownInv, github
  <2>2. \A o \in StickyOutcome(labels) : StatusLabelOf(o) \in labels
    BY DEF StickyOutcome, StatusLabelOf
  <2> QED
    BY <1>6, <2>1, <2>2, StickyInto, AnnouncesShown, OpeningShown, EndsShown
<1> QED
  BY <1>1, <1>3, <1>4, <1>5, <1>6

\* The feedback is judged under the label agent:review.
LEMMA ReviewShown ==
  ASSUME Inv, ShownInv, Review
  PROVE  ShownInv'
<1>1. run.pc = "review" /\ run.reason = "" /\ labels' = labels
  BY DEF Review, At, Silent, Early, ShownInv, github
<1>2. CASE Writes(run', run)
  <2>1. /\ run'.pc = "persist" /\ (run'.then = "escalate" \/ run'.reason = "")
        /\ (run'.hurt \/ run'.hurt = run.hurt)
    BY <1>1, <1>2 DEF Writes, Keeps
  <2>2. Silent(run') => run'.reason = ""
    BY <2>1 DEF Silent, Relabels, Early
  <2>3. ~run'.hurt => "agent:review" \in labels
    BY <1>1, <2>1 DEF ShownInv, Displays
  <2>4. ~run'.hurt => Displays' /\ OutcomeIsShown'
    BY <1>1, <2>1, <2>3 DEF Displays, OutcomeIsShown
  <2> QED
    BY <2>2, <2>4 DEF ShownInv
<1> QED
  BY <1>2, ReviewInto, AnnouncesShown

\* A save.
LEMMA PersistShown ==
  ASSUME Inv, ShownInv, Persist
  PROVE  ShownInv'
<1>1. run.pc = "persist" /\ labels' = labels /\ notes' = notes
  BY DEF Persist, At
<1>2. run.then # "escalate" => run.reason = ""
  BY <1>1 DEF Silent, ShownInv
<1>3. ~run.hurt /\ run.then \in {"converge", "more"} => "agent:review" \in labels
  BY <1>1 DEF ShownInv, Displays
<1>4. CASE run.then = "converge" /\ Writes(run', run) /\ run'.then = "ready"
  <2>1. run'.pc = "persist" /\ run'.then = "ready" /\ run'.reason = ""
    BY <1>2, <1>4 DEF Writes
  <2> QED
    BY <2>1 DEF ShownInv, Displays, OutcomeIsShown
<1>5. CASE run.then \in {"converge", "more"} /\ Ends(run', run, "IN_REVIEW")
  <2>1. run'.hurt \/ run'.hurt = run.hurt
    BY <1>5 DEF Ends
  <2>2. run'.hurt \/ run.hurt \in {TRUE} \/ StatusLabelOf("IN_REVIEW") \in labels'
    BY <1>1, <1>3, <1>5 DEF StatusLabelOf
  <2> QED
    BY <1>2, <1>5, <2>1, <2>2, EndsShown
<1>6. ASSUME NEW label, NEW after, Applies(run', run, label, after),
             after = "comment" \/ run.then # "escalate"
      PROVE  ShownInv'
  <2>1. /\ run'.pc = "label" /\ run'.reason = run.reason /\ run'.then = after
    BY <1>6 DEF Applies
  <2>2. Silent(run') => run'.reason = ""
    BY <1>2, <1>6, <2>1 DEF Silent, Relabels, Early
  <2> QED
    BY <2>1, <2>2 DEF ShownInv, Displays, OutcomeIsShown
<1>7. CASE run.then = "codex" /\ run'.pc = "codex" /\ run'.reason = run.reason
  BY <1>2, <1>7 DEF ShownInv, Displays, OutcomeIsShown
<1>8. FollowsSave(run', run) => ShownInv'
  BY <1>4, <1>5, <1>6, <1>7 DEF FollowsSave
<1> QED
  BY <1>8, PersistInto, AnnouncesShown

\* The repair.
LEMMA RepairShown ==
  ASSUME Inv, ShownInv, Codex \/ Push
  PROVE  ShownInv'
<1>1. run.reason = ""
  BY DEF Codex, Push, At, Silent, Early, ShownInv
<1>2. CASE Enters(run', run, "push")
  <2>1. run'.pc = "push" /\ run'.reason = ""
    BY <1>1, <1>2 DEF Enters
  <2> QED
    BY <2>1 DEF ShownInv, Displays, OutcomeIsShown
<1>3. CASE Applies(run', run, "agent:review", "REVIEW_FIX_PUSHED")
  <2>1. run'.pc = "label" /\ run'.reason = ""
    BY <1>1, <1>3 DEF Applies
  <2> QED
    BY <2>1 DEF ShownInv, Displays, OutcomeIsShown
<1> QED
  BY <1>2, <1>3, CodexInto, PushInto, AnnouncesShown

\* A call about a label that failed was noticed.
LEMMA FailsLabelShown ==
  ASSUME NEW owes, FailsLabel(run', run, owes)
  PROVE  ShownInv'
<1>1. run'.hurt /\ (run'.pc = "notice" \/ (run'.pc = "label" /\ run'.outcome # "none"))
  BY DEF FailsLabel, Raising
<1>2. ~Silent(run')
  BY <1>1 DEF Silent, Relabels, Early
<1> QED
  BY <1>1, <1>2 DEF ShownInv

\* The next label is to be removed, and the one that was put up is there.
LEMMA UnlabelsShown ==
  ASSUME NEW S, Unlabels(run', run, S), run.pc \in {"label", "unlabel"}, ShownInv,
         ~run'.hurt => run.want \in labels'
  PROVE  ShownInv'
<1>1. /\ run'.pc = "unlabel" /\ run'.want = run.want /\ run'.reason = run.reason
      /\ run'.outcome = run.outcome /\ run'.then = run.then
  BY DEF Unlabels
<1>2. Silent(run') => Silent(run)
  BY <1>1 DEF Silent, Relabels, Early
<1>3. Silent(run') => run'.reason = ""
  BY <1>1, <1>2 DEF ShownInv
<1>4. ~run'.hurt => Displays' /\ OutcomeIsShown'
  BY <1>1 DEF Displays, OutcomeIsShown
<1> QED
  BY <1>3, <1>4 DEF ShownInv

\* A label is added, or removed.
LEMMA LabelShown ==
  ASSUME Inv, ShownInv, AddLabel \/ RemoveLabel
  PROVE  ShownInv'
<1>1. CASE AddLabel
  <2>1. run.pc = "label"
    BY <1>1 DEF AddLabel, At
  <2>2. CASE labels' = labels \cup {run.want} /\ Unlabels(run', run, OtherLabels(run.want))
    BY <2>1, <2>2, UnlabelsShown
  <2> QED
    BY <1>1, <2>2, AddLabelInto, FailsLabelShown
<1>2. CASE RemoveLabel
  <2>1. run.pc = "unlabel" /\ notes' = notes
    BY <1>2 DEF RemoveLabel, At
  <2>2. /\ run.want \notin run.todo
        /\ Matched(run)
    BY <2>1 DEF Inv, Sound
  <2>3. ~run.hurt => run.want \in labels
    BY <2>1 DEF ShownInv, Displays
  <2>4. PICK l \in run.todo :
           \/ /\ labels' = labels \ {l}
              /\ \/ run.todo = {l} /\ FollowsLabel(run', run)
                 \/ Unlabels(run', run, run.todo \ {l})
           \/ FailsLabel(run', run, run.owes)
    BY <1>2, RemoveLabelInto
  <2>5. labels' = labels \ {l} /\ ~run.hurt => run.want \in labels'
    BY <2>2, <2>3
  <2>6. CASE labels' = labels \ {l} /\ Unlabels(run', run, run.todo \ {l})
    <3>1. run'.hurt \/ run'.hurt = run.hurt
      BY <2>6 DEF Unlabels
    <3>2. ~run'.hurt => run.want \in labels'
      BY <2>5, <2>6, <3>1
    <3> QED
      BY <2>1, <2>6, <3>2, UnlabelsShown
  <2>7. CASE labels' = labels \ {l} /\ run.then \in ReviewOutcome /\ Ends(run', run, run.then)
    <3>1. run'.hurt \/ run'.hurt = run.hurt
      BY <2>7 DEF Ends
    <3>2. run.outcome = "none" /\ run.then \in {"IN_REVIEW", "REVIEW_FIX_PUSHED", "READY_FOR_HUMAN"}
          /\ run.want = StatusLabelOf(run.then)
      BY <2>2, <2>7 DEF Matched, ReviewOutcome, StatusLabelOf
    <3>3. run.reason = ""
      BY <2>1, <3>2 DEF ShownInv, Silent, Relabels
    <3>4. run'.hurt \/ StatusLabelOf(run.then) \in labels'
      BY <2>5, <2>7, <3>1, <3>2
    <3> QED
      BY <2>7, <3>3, <3>4, EndsShown
  <2>8. CASE labels' = labels \ {l} /\ run.then \in {"review", "comment", "notice"}
             /\ Enters(run', run, run.then)
    <3>1. /\ run'.pc = run.then /\ run'.outcome = run.outcome /\ run'.reason = run.reason
          /\ (run'.hurt \/ run'.hurt = run.hurt)
      BY <2>8 DEF Enters, Keeps
    <3>2. /\ run.then = "review" => run.want = "agent:review" /\ run.outcome = "none"
          /\ run.then = "comment" => run.want = "agent:escalated"
          /\ run.then = "notice" => run.want = StatusLabelOf(run.outcome)
      BY <2>2 DEF Matched, Raising
    <3>3. run.then = "review" => run.reason = ""
      BY <2>1, <3>2 DEF ShownInv, Silent, Relabels
    <3>4. Silent(run') => run'.reason = ""
      BY <2>8, <3>1, <3>3 DEF Silent, Relabels, Early
    <3>5. ~run'.hurt => run.want \in labels'
      BY <2>5, <2>8, <3>1
    <3>6. ~run'.hurt => Displays' /\ OutcomeIsShown'
      BY <2>8, <3>1, <3>2, <3>5 DEF Displays, OutcomeIsShown
    <3> QED
      BY <3>4, <3>6 DEF ShownInv
  <2> QED
    BY <2>4, <2>6, <2>7, <2>8, FailsLabelShown DEF FollowsLabel
<1> QED
  BY <1>1, <1>2

\* The comments, and a cancelled job.
LEMMA CommentShown ==
  ASSUME Inv, ShownInv, Comment \/ Notice \/ Cancelled
  PROVE  ShownInv'
<1>1. CASE Comment
  <2>1. labels' = labels /\ (~run.hurt => StatusLabelOf("ESCALATED") \in labels)
    BY <1>1 DEF Comment, At, ShownInv, Displays, StatusLabelOf
  <2>2. CASE Ends(run', run, "ESCALATED") /\ notes' = notes \cup {run.reason}
    <3>1. run'.hurt \/ run'.hurt = run.hurt
      BY <2>2 DEF Ends
    <3>2. run'.hurt \/ StatusLabelOf("ESCALATED") \in labels'
      BY <2>1, <3>1
    <3> QED
      BY <2>2, <3>2, EndsShown
  <2> QED
    BY <1>1, <2>2, CommentInto, AnnouncesShown
<1>2. CASE Notice
  <2>1. labels' = labels /\ (~run.hurt => StatusLabelOf(run.outcome) \in labels)
    BY <1>2 DEF Notice, At, ShownInv, Displays
  <2>2. Ends(run', run, run.outcome) /\ (run'.hurt \/ notes' = notes \cup {run.reason})
    BY <1>2, NoticeInto
  <2>3. run'.hurt \/ run'.hurt = run.hurt
    BY <2>2 DEF Ends
  <2>4. run'.hurt \/ StatusLabelOf(run.outcome) \in labels'
    BY <2>1, <2>3
  <2> QED
    BY <2>2, <2>4, EndsShown
<1>3. CASE Cancelled
  BY <1>3, CancelledInto, EndsShown
<1> QED
  BY <1>1, <1>2, <1>3

\* Every step keeps the invariant.
LEMMA ShownStep == Inv /\ ShownInv /\ [Next]_vars => ShownInv'
<1> SUFFICES ASSUME Inv, ShownInv, [Next]_vars
             PROVE  ShownInv'
  OBVIOUS
<1>1. CASE UNCHANGED <<run, labels, notes>>
  BY <1>1 DEF ShownInv, Silent, Relabels, Displays, OutcomeIsShown
<1>2. CASE Redeliver \/ Relabel
  <2>1. run' = [run EXCEPT !.hurt = TRUE]
    BY <1>2 DEF Redeliver, Relabel, Interferes
  <2>2. /\ run'.pc = run.pc /\ run'.then = run.then /\ run'.outcome = run.outcome
        /\ run'.reason = run.reason /\ run'.hurt
    BY <2>1, Facts DEF Runs
  <2> QED
    BY <2>2 DEF ShownInv, Silent, Relabels
<1>3. CASE Environment
  <2>1. ASSUME NEW i \in Items, NEW k \in Items, Write(i) \/ Edit(k, i)
        PROVE  ShownInv'
    BY <1>1, <2>1 DEF Write, Edit, github
  <2>2. CASE PushCommit
    BY <1>1, <2>2 DEF PushCommit, github
  <2> QED
    BY <1>2, <1>3, <2>1, <2>2 DEF Environment
<1>4. CASE UNCHANGED vars
  BY <1>1, <1>4 DEF vars, github
<1> QED
  BY <1>3, <1>4, OpenShown, ReviewShown, PersistShown, RepairShown, LabelShown, CommentShown
     DEF Next, Step

\* A review that met no failure leaves the label of its outcome, and its reason has
\* been given; for any number of commits, reviews, comments and re-run deliveries.
THEOREM OutcomeIsShownHolds == Spec => []OutcomeIsShown
<1>1. Init => ShownInv
  <2> SUFFICES ASSUME Init
               PROVE  ShownInv
    OBVIOUS
  <2> DEFINE n == NewRun(1)
  <2>3. 1 \in Heads /\ run = [NewRun(1) EXCEPT !.pc = "idle"]
    BY HeadsAssumption DEF Init
  <2>1. /\ n \in Runs /\ n.reason = "" /\ run = [n EXCEPT !.pc = "idle"]
    BY <2>3, NewRunFields
  <2> HIDE DEF n
  <2>2. run.pc = "idle" /\ run.reason = ""
    BY <2>1 DEF Runs
  <2> QED
    BY <2>2 DEF ShownInv, Displays, OutcomeIsShown
<1>2. ShownInv => OutcomeIsShown
  BY DEF ShownInv, OutcomeIsShown
<1> QED
  BY <1>1, <1>2, InvInductive, ShownStep, PTL DEF Spec

-----------------------------------------------------------------------------
(* Nothing unread *)

\* A comment that a review has dealt with is accounted for, as of the commit h: it is
\* about no commit, or about an earlier one; it cannot be repaired, it was dismissed by an
\* overtaken review, or found to need nothing; or it was read for a commit that was refused.
Accounted(i, h) ==
  \/ on[i] = 0 \/ on[i] < h
  \/ NatureOf[i] = "missing" \/ i \in overtaken \/ i \in cleared
  \/ \E c \in refused : <<i, c>> \in read

\* The review that runs has read it, and refuses its commit or is about to.
Refuses(r) == r.outcome \in Raising \/ (r.pc = "persist" /\ r.then \in {"escalate", "codex"})

\* What was read, settled or collected was written, and stays with a commit that is
\* at least as new as those it was read for.
Attached ==
  /\ \A i \in Recorded(tracks).processed \cup run.track.processed \cup run.items :
       listed[i] # "unwritten"
  /\ \A i \in Items : on[i] <= head
  /\ \A i \in Items, c \in Heads :
       <<i, c>> \in read => listed[i] # "unwritten" /\ (on[i] = 0 \/ c <= on[i])

\* What earlier reviews have settled is accounted for, as of the head; a review that
\* found its commit to be the head may rely on it for this commit.
Remembered ==
  /\ \A i \in Recorded(tracks).processed : Accounted(i, head)
  /\ run.pc = "load" => \A i \in Recorded(tracks).processed : Accounted(i, run.sha)

\* So is what the review that runs has settled, unless it refuses its commit.
Minded ==
  \A i \in run.track.processed :
    Accounted(i, run.sha) \/ (Refuses(run) /\ <<i, run.sha>> \in read)

\* A review that is about to say ready has settled all that it collected on its commit,
\* and what is there was there when it was collected.
Collected ==
  /\ (run.pc = "persist" /\ run.then = "ready") \/ Relabels(run, {"READY_FOR_HUMAN"}) =>
       \A i \in run.items : on[i] = run.sha => i \in run.track.processed
  /\ run.outcome = "READY_FOR_HUMAN" => run.items = {}
  /\ \A i \in run.items : on[i] = run.sha => i \in run.current

UnreadInv == Attached /\ Remembered /\ Minded /\ Collected

\* A review that is on its way to say ready.
Concluding(r) == (r.pc = "persist" /\ r.then = "ready") \/ Relabels(r, {"READY_FOR_HUMAN"})

\* A record that remembers nothing; one with the memory of another, and no nearer to ready.
Blank(q) ==
  q.pc \in {"fetch", "done"} /\ q.track.processed = {} /\ q.items = {}
Remembers(q, r) ==
  /\ q.sha = r.sha /\ q.track.processed = r.track.processed
  /\ q.items = r.items /\ q.current = r.current
Carried(q, r) ==
  /\ Remembers(q, r) /\ q.pc # "load" /\ q.outcome # "READY_FOR_HUMAN"
  /\ Concluding(q) => Concluding(r)
  /\ Refuses(r) => Refuses(q)

\* What happens to the pull request moves only comments on the head, with the head.
Moves ==
  /\ head' \in {head, head + 1}
  /\ \A i \in Items :
       /\ on'[i] \in Nat /\ on'[i] <= head'
       /\ listed[i] # "unwritten" =>
            /\ listed'[i] # "unwritten"
            /\ on'[i] = on[i] \/ (on[i] = head /\ on'[i] > head)

\* The types that the proofs need.
LEMMA UnreadFacts ==
  ASSUME Inv
  PROVE  /\ head \in Nat /\ head >= 1 /\ run.sha \in Nat /\ run.sha >= 1 /\ run.sha \in Heads
         /\ \A i \in Items : on[i] \in Nat
         /\ Recorded(tracks).processed \subseteq Items /\ run.track.processed \subseteq Items
         /\ run.items \subseteq Items /\ Heads \subseteq Nat /\ refused \subseteq Heads
<1>1. Heads \subseteq Nat /\ \A h \in Heads : h >= 1
  BY HeadsAssumption
<1>2. head \in Heads /\ run.sha \in Heads /\ refused \subseteq Heads
  BY Facts DEF Inv, TypeOK
<1>3. \A i \in Items : on[i] \in Nat
  BY HeadsAssumption DEF Inv, TypeOK
<1>4. run.track \in ReviewTrack /\ run.items \subseteq Items /\ Recorded(tracks) \in ReviewTrack
  BY Facts DEF Runs
<1> QED
  BY <1>1, <1>2, <1>3, <1>4 DEF ReviewTrack

\* What is accounted for stays so, whatever happens to the pull request.
LEMMA AccountedStays ==
  ASSUME Inv, Moves, NEW i \in Items, listed[i] # "unwritten",
         refused \subseteq refused', cleared \subseteq cleared', read \subseteq read',
         overtaken \subseteq overtaken', NEW h \in Nat, h <= head, Accounted(i, h),
         NEW k \in Nat, h <= k
  PROVE  \/ on'[i] = 0 \/ on'[i] < k
         \/ NatureOf[i] = "missing" \/ i \in overtaken' \/ i \in cleared'
         \/ \E c \in refused' : <<i, c>> \in read'
<1>1. on'[i] = on[i] \/ (on[i] = head /\ on'[i] > head)
  BY DEF Moves
<1>2. on[i] \in Nat /\ head \in Nat /\ head >= 1
  BY UnreadFacts
<1>3. CASE on[i] = 0 \/ on[i] < h
  BY <1>1, <1>2, <1>3
<1> QED
  BY <1>3 DEF Accounted

\* A step that records nothing keeps the invariant, if the review that goes on remembers
\* what it did, or is another one.
LEMMA StaysUnread ==
  ASSUME Inv, UnreadInv, run.sha <= head, Moves, UNCHANGED tracks,
         refused \subseteq refused', cleared \subseteq cleared', UNCHANGED read,
         overtaken \subseteq overtaken',
         Blank(run') \/ Carried(run', run)
           \/ (Remembers(run', run) /\ run'.pc = run.pc /\ run'.then = run.then /\ run'.outcome = run.outcome)
  PROVE  UnreadInv'
<1> DEFINE keeps == /\ Remembers(run', run) /\ run'.pc = run.pc /\ run'.then = run.then
                    /\ run'.outcome = run.outcome
<1>1. /\ head \in Nat /\ run.sha \in Nat /\ run.sha >= 1
      /\ \A i \in Items : on[i] \in Nat
      /\ Recorded(tracks).processed \subseteq Items /\ run.track.processed \subseteq Items
      /\ run.items \subseteq Items /\ Heads \subseteq Nat
  BY UnreadFacts
<1>2. head' \in Nat /\ head <= head'
  BY <1>1 DEF Moves
<1>3. /\ run'.track.processed \subseteq run.track.processed
      /\ run'.items \subseteq run.items
  BY DEF Blank, Carried, Remembers
<1>4. Attached'
  <2>1. \A i \in Recorded(tracks).processed \cup run.track.processed \cup run.items :
          listed'[i] # "unwritten"
    BY <1>1 DEF UnreadInv, Attached, Moves
  <2>2. \A i \in Items : on'[i] <= head'
    BY DEF Moves
  <2>3. ASSUME NEW i \in Items, NEW c \in Heads, <<i, c>> \in read
        PROVE  listed'[i] # "unwritten" /\ (on'[i] = 0 \/ c <= on'[i])
    <3>1. listed[i] # "unwritten" /\ (on[i] = 0 \/ c <= on[i])
      BY <2>3 DEF UnreadInv, Attached
    <3>2. on'[i] = on[i] \/ (on[i] = head /\ on'[i] > head)
      BY <3>1 DEF Moves
    <3>3. c \in Nat /\ on[i] \in Nat /\ on'[i] \in Nat /\ head >= 1
      BY <1>1, UnreadFacts DEF Moves
    <3>4. listed'[i] # "unwritten"
      BY <3>1 DEF Moves
    <3> QED
      BY <1>1, <3>1, <3>2, <3>3, <3>4
  <2> QED
    BY <1>3, <2>1, <2>2, <2>3 DEF Attached
<1>5. ASSUME NEW i \in Items, listed[i] # "unwritten", NEW h \in Nat, h <= head, Accounted(i, h),
             NEW k \in Nat, h <= k
      PROVE  \/ on'[i] = 0 \/ on'[i] < k
             \/ NatureOf[i] = "missing" \/ i \in overtaken' \/ i \in cleared'
             \/ \E c \in refused' : <<i, c>> \in read'
  BY <1>5, AccountedStays
<1>6. Remembered'
  <2>1. \A i \in Recorded(tracks').processed :
          i \in Items /\ listed[i] # "unwritten" /\ Accounted(i, head)
            /\ (run.pc = "load" => Accounted(i, run.sha))
    BY <1>1 DEF UnreadInv, Attached, Remembered
  <2>2. run'.pc = "load" => run.pc = "load" /\ run'.sha = run.sha
    BY DEF Blank, Carried, Remembers
  <2>3. \A i \in Recorded(tracks').processed : Accounted(i, head)'
    BY <1>1, <1>2, <1>5, <2>1 DEF Accounted
  <2>4. run'.pc = "load" => \A i \in Recorded(tracks').processed : Accounted(i, run.sha)'
    <3> SUFFICES ASSUME run'.pc = "load", NEW i \in Recorded(tracks').processed
                 PROVE  Accounted(i, run.sha)'
      OBVIOUS
    <3>1. i \in Items /\ listed[i] # "unwritten" /\ Accounted(i, run.sha) /\ run'.sha = run.sha
      BY <2>1, <2>2
    <3> QED
      BY <1>1, <1>5, <3>1 DEF Accounted
  <2> QED
    BY <2>3, <2>4 DEF Remembered
<1>7. Minded'
  <2> SUFFICES ASSUME NEW i \in run'.track.processed
               PROVE  Accounted(i, run.sha)' \/ (Refuses(run') /\ <<i, run'.sha>> \in read')
    BY DEF Minded
  <2>1. /\ i \in Items /\ listed[i] # "unwritten"
        /\ Accounted(i, run.sha) \/ (Refuses(run) /\ <<i, run.sha>> \in read)
    BY <1>1, <1>3 DEF UnreadInv, Attached, Minded
  <2>2. run'.sha = run.sha /\ (Refuses(run) => Refuses(run'))
    BY DEF Blank, Carried, Remembers, Refuses
  <2>3. CASE Accounted(i, run.sha)
    BY <1>1, <1>5, <2>1, <2>2, <2>3 DEF Accounted
  <2> QED
    BY <2>1, <2>2, <2>3
<1>8. Collected'
  <2>1. run'.outcome = "READY_FOR_HUMAN" => run'.items = {}
    BY DEF UnreadInv, Collected, Blank, Carried, Remembers
  <2>2. ASSUME Concluding(run'), NEW i \in run'.items, on'[i] = run'.sha
        PROVE  i \in run'.track.processed
    <3>1. /\ run'.sha = run.sha /\ run'.track.processed = run.track.processed
          /\ run'.items = run.items /\ run'.current = run.current
      BY <2>2 DEF Blank, Carried, Remembers
    <3>2. Concluding(run)
      BY <2>2 DEF Blank, Carried, Concluding, Relabels
    <3>3. i \in Items /\ listed[i] # "unwritten"
      BY <1>1, <2>2, <3>1 DEF UnreadInv, Attached
    <3>4. on'[i] = on[i] \/ (on[i] = head /\ on'[i] > head)
      BY <3>3 DEF Moves
    <3>5. on[i] = run.sha
      BY <1>1, <2>2, <3>1, <3>3, <3>4
    <3> QED
      BY <2>2, <3>1, <3>2, <3>5 DEF UnreadInv, Collected, Concluding
  <2>3. ASSUME NEW i \in run'.items, on'[i] = run'.sha
        PROVE  i \in run'.current
    <3>1. run'.sha = run.sha /\ run'.items = run.items /\ run'.current = run.current
      BY <2>3 DEF Blank, Carried, Remembers
    <3>2. i \in Items /\ listed[i] # "unwritten"
      BY <1>1, <2>3, <3>1 DEF UnreadInv, Attached
    <3>3. on'[i] = on[i] \/ (on[i] = head /\ on'[i] > head)
      BY <3>2 DEF Moves
    <3>4. on[i] = run.sha
      BY <1>1, <2>3, <3>1, <3>2, <3>3
    <3> QED
      BY <2>3, <3>1, <3>4 DEF UnreadInv, Collected
  <2> QED
    BY <2>1, <2>2, <2>3 DEF Collected, Concluding
<1> QED
  BY <1>4, <1>6, <1>7, <1>8 DEF UnreadInv

\* A review that begins, or is over, remembers nothing.
LEMMA BlankRecords ==
  ASSUME NEW r \in Runs, NEW o \in ReviewOutcome \cup {"none"}
  PROVE  Blank(Done(r, o)) /\ Blank(NewRun(r.sha))
<1> DEFINE n == NewRun(r.sha)
<1>1. /\ n \in Runs /\ n.pc = "fetch" /\ n.track = empty_review_track
      /\ r.reason \in Reasons /\ r.hurt \in BOOLEAN
  BY NewRunFields DEF Runs
<1>2. n.items = {}
  BY DEF NewRun
<1> HIDE DEF n
<1> DEFINE d == [n EXCEPT !.pc = "done", !.outcome = o, !.reason = r.reason, !.hurt = r.hurt]
<1>3. Done(r, o) = d
  BY DEF Done, n
<1>4. d.pc = "done" /\ d.track = n.track /\ d.items = n.items /\ d.current = n.current
  BY <1>1 DEF Runs
<1>5. empty_review_track.processed = {}
  BY DEF empty_review_track
<1> HIDE DEF d
<1> QED
  BY <1>1, <1>2, <1>3, <1>4, <1>5 DEF Blank, n

\* The same after a call that failed.
LEMMA DoneBlank ==
  ASSUME NEW r \in Runs, NEW o \in ReviewOutcome \cup {"none"},
         Becomes(Done(r, o)) \/ Suffers(Done(r, o))
  PROVE  Blank(run')
<1> DEFINE d == Done(r, o)
<1>1. d \in Runs /\ Blank(d)
  BY DoneFields, BlankRecords
<1>2. run' = d \/ run' = [d EXCEPT !.hurt = TRUE]
  BY DEF Becomes, Suffers, Falters
<1> HIDE DEF d
<1>3. run'.pc = d.pc /\ run'.track = d.track /\ run'.items = d.items /\ run'.current = d.current
  BY <1>1, <1>2 DEF Runs
<1> QED
  BY <1>1, <1>3 DEF Blank

\* An exception does not make a review forget what it is about to record.
LEMMA RaisedCarried ==
  ASSUME NEW r \in Runs, NEW o \in Raising, NEW reason \in Reasons
  PROVE  Carried(Raised(r, o, reason), r)
<1> DEFINE l == Raised(r, o, reason)
<1>1. Same(l, r) /\ l.outcome = o /\ l.pc = "label"
  BY RaisedFields
<1> HIDE DEF l
<1>2. Carried(l, r)
  BY <1>1 DEF Carried, Same, Remembers, Concluding, Relabels, Refuses, Raising
<1> QED
  BY <1>2 DEF l

LEMMA CallFailsCarried ==
  ASSUME NEW r \in Runs, CallFails(r)
  PROVE  Carried(run', r) /\ run'.outcome \in Raising
<1>1. PICK code \in {"GITHUB_API_FAILURE", "INTERNAL_FAILURE"} :
        Suffers(Raised(r, OutcomeOfError(code), ReasonOfError(code)))
  BY DEF CallFails
<1> DEFINE l == Raised(r, OutcomeOfError(code), ReasonOfError(code))
<1>2. /\ l \in Runs /\ Same(l, r) /\ l.outcome \in Raising /\ l.pc = "label"
  BY ErrorTypes, RaisedFields
<1>3. run' = [l EXCEPT !.hurt = TRUE]
  BY <1>1 DEF Suffers, Falters
<1> HIDE DEF l
<1>4. /\ run'.sha = l.sha /\ run'.track = l.track /\ run'.items = l.items
      /\ run'.current = l.current /\ run'.outcome = l.outcome
      /\ run'.pc = l.pc
  BY <1>2, <1>3 DEF Runs
<1> QED
  BY <1>2, <1>4 DEF Carried, Same, Remembers, Concluding, Relabels, Refuses, Raising

\* What a review does after CodeRabbit's last word.
LEMMA AfterTerminalCarried ==
  ASSUME NEW r \in Runs, r.outcome = "none", r.pc # "persist"
  PROVE  Carried(AfterTerminal(r), r)
<1>1. CASE r.kind \in Escalating
  <2> DEFINE l == Escalation(r, r.track, r.kind)
  <2>1. AfterTerminal(r) = l
    BY <1>1 DEF AfterTerminal, Escalating
  <2>2. r.track \in ReviewTrack /\ r.kind \in Reasons
    BY DEF Runs, Reasons
  <2>3. /\ l.pc = "persist" /\ l.then = "escalate" /\ l.track = [r.track EXCEPT !.head = r.sha]
        /\ l.sha = r.sha /\ l.items = r.items /\ l.current = r.current /\ l.outcome = r.outcome
    BY <2>2, EscalationFields
  <2>4. [r.track EXCEPT !.head = r.sha].processed = r.track.processed
    BY <2>2 DEF ReviewTrack
  <2> HIDE DEF l
  <2> QED
    BY <2>1, <2>3, <2>4 DEF Carried, Remembers, Concluding, Relabels, Refuses, Raising
<1>2. CASE r.kind \notin Escalating
  <2> DEFINE after == IF r.kind = "COMPLETED" THEN "review" ELSE "IN_REVIEW"
             l == Labelling(r, "agent:review", after)
  <2>1. AfterTerminal(r) = l
    BY <1>2 DEF AfterTerminal, Escalating
  <2>2. "agent:review" \in StatusLabels /\ after \in Afters /\ after # "READY_FOR_HUMAN"
    BY DEF StatusLabels, Afters, ReviewOutcome
  <2> HIDE DEF after
  <2>3. Same(l, r) /\ l.outcome = r.outcome /\ l.pc = "label" /\ l.then = after
    BY <2>2, LabellingFields
  <2> HIDE DEF l
  <2> QED
    BY <2>1, <2>2, <2>3 DEF Carried, Same, Remembers, Concluding, Relabels, Refuses, Raising
<1> QED
  BY <1>1, <1>2

\* Nothing happens to the pull request.
LEMMA NothingMoves ==
  ASSUME Inv, UnreadInv, UNCHANGED world
  PROVE  Moves
BY UnreadFacts DEF Moves, UnreadInv, Attached, world

\* The first calls of a review; what it loads is accounted for, as of its commit.
LEMMA OpenUnread ==
  ASSUME Inv, UnreadInv, run.sha <= head, Start \/ Fetch \/ load_review_track \/ Terminals \/ Sticky
  PROVE  UnreadInv'
<1>0. /\ Moves /\ UNCHANGED <<head, listed, on, tracks, refused, cleared, read, overtaken>>
  BY NothingMoves DEF Start, Fetch, load_review_track, Terminals, Sticky, Quiet, NoTrace, github,
                      world, history
<1>1. CASE Start
  <2>1. PICK h \in 1..head : run' = NewRun(h)
    BY <1>1 DEF Start, Becomes
  <2>2. h \in Heads
    BY <2>1, HeadsAssumption DEF Inv, TypeOK
  <2>3. run'.pc = "fetch" /\ run'.track = empty_review_track
    BY <2>1, <2>2, NewRunFields
  <2>4. run'.items = {}
    BY <2>1 DEF NewRun
  <2>5. Blank(run')
    BY <2>3, <2>4 DEF Blank, empty_review_track
  <2> QED
    BY <1>0, <2>5, StaysUnread
<1>2. ASSUME CallFails(run)
      PROVE  UnreadInv'
  BY <1>0, <1>2, Facts, CallFailsCarried, StaysUnread
<1>3. ASSUME NEW reason \in Reasons, Escalates(reason)
      PROVE  UnreadInv'
  <2>1. "ESCALATED" \in Raising
    BY DEF Raising
  <2>2. Carried(run', run)
    BY <1>3, <2>1, Facts, RaisedCarried DEF Escalates, Becomes
  <2> QED
    BY <1>0, <2>2, StaysUnread
<1>4. ASSUME NEW o \in ReviewOutcome \cup {"none"}, Becomes(Done(run, o)) \/ Suffers(Done(run, o))
      PROVE  UnreadInv'
  BY <1>0, <1>4, Facts, DoneBlank, StaysUnread
<1>5. ASSUME run.pc # "persist", run.outcome = "none", NEW stage \in {"terminal", "sticky"},
             run'.pc = stage, run'.outcome = "none", Remembers(run', run)
      PROVE  UnreadInv'
  <2>1. Carried(run', run)
    BY <1>5 DEF Carried, Concluding, Relabels, Refuses, Raising
  <2> QED
    BY <1>0, <2>1, StaysUnread
<1>6. CASE Fetch
  <2>1. CASE head = run.sha /\ Goes("load")
    <3>1. /\ run'.pc = "load" /\ run'.sha = run.sha /\ run'.track = run.track /\ run'.items = run.items
          /\ run'.current = run.current
          /\ run'.outcome = run.outcome /\ run.outcome = "none"
      BY <1>6, <2>1, Facts DEF Goes, Becomes, Runs, Fetch, At, Inv, Sound, Early
    <3>2. Attached'
      BY <1>0, <3>1 DEF UnreadInv, Attached
    <3>3. Remembered'
      BY <1>0, <2>1, <3>1 DEF UnreadInv, Remembered, Accounted
    <3>4. run.track.processed = {}
      BY <1>6 DEF Fetch, At, Inv, Sound, empty_review_track
    <3>5. Minded' /\ Collected'
      BY <1>0, <3>1, <3>4 DEF UnreadInv, Minded, Collected, Relabels
    <3> QED
      BY <3>2, <3>3, <3>5 DEF UnreadInv
  <2>2. /\ "PULL_HEAD_MISMATCH" \in Reasons /\ "SPEC_IDENTITY_MISMATCH" \in Reasons
        /\ "FAILED" \in ReviewOutcome
    BY DEF Reasons, ReviewOutcome
  <2> QED
    BY <1>2, <1>3, <1>4, <1>6, <2>1, <2>2 DEF Fetch
<1>7. CASE load_review_track
  <2>0. run.pc = "load" /\ run.outcome = "none"
    BY <1>7 DEF load_review_track, At, Inv, Sound, Early
  <2>1. CASE Goes("terminal")
    <3>1. run'.pc = "terminal" /\ run'.outcome = "none" /\ Remembers(run', run)
      BY <2>0, <2>1, Facts DEF Goes, Becomes, Runs, Remembers
    <3> QED
      BY <1>5, <2>0, <3>1
  <2>2. CASE Len(tracks) = 1 /\ Becomes([run EXCEPT !.pc = "terminal", !.id = 1, !.track = tracks[1]])
    <3>1. tracks # <<>> /\ Recorded(tracks) = tracks[1]
      BY <2>2 DEF Recorded
    <3>2. /\ run'.pc = "terminal" /\ run'.sha = run.sha /\ run'.track = tracks[1]
          /\ run'.items = run.items /\ run'.current = run.current /\ run'.outcome = "none"
      BY <2>0, <2>2, Facts DEF Becomes, Runs
    <3>3. Attached'
      BY <1>0, <3>1, <3>2 DEF UnreadInv, Attached
    <3>4. Remembered'
      BY <1>0, <3>2 DEF UnreadInv, Remembered, Accounted
    <3>5. Minded'
      BY <1>0, <2>0, <3>1, <3>2 DEF UnreadInv, Remembered, Minded, Accounted
    <3>6. Collected'
      BY <1>0, <3>2 DEF UnreadInv, Collected, Relabels
    <3> QED
      BY <3>3, <3>4, <3>5, <3>6 DEF UnreadInv
  <2>3. "UNSAFE_REVIEW_TRACK" \in Reasons
    BY DEF Reasons
  <2> QED
    BY <1>2, <1>3, <1>7, <2>1, <2>2, <2>3 DEF load_review_track
<1>8. CASE Terminals
  <2>0. run.pc = "terminal" /\ run.outcome = "none"
    BY <1>8 DEF Terminals, At, Inv, Sound, Early
  <2>1. ASSUME NEW kind \in Words,
               Becomes(IF run.track.head = run.sha
                       THEN [[run EXCEPT !.kind = kind] EXCEPT !.pc = "sticky"]
                       ELSE AfterTerminal([run EXCEPT !.kind = kind]))
        PROVE  UnreadInv'
    <3> DEFINE k == [run EXCEPT !.kind = kind]
               l == [k EXCEPT !.pc = "sticky"]
    <3>1. kind \in Kinds
      BY ConfigAssumption
    <3>2. /\ k \in Runs /\ k.sha = run.sha /\ k.track = run.track /\ k.items = run.items
          /\ k.current = run.current
          /\ k.outcome = "none" /\ k.pc = "terminal"
      BY <2>0, <3>1, Facts DEF Runs
    <3>3. run' = l \/ run' = AfterTerminal(k)
      BY <2>1 DEF Becomes
    <3> HIDE DEF k
    <3>4. /\ l.pc = "sticky" /\ l.outcome = "none" /\ l.sha = k.sha /\ l.track = k.track
          /\ l.items = k.items /\ l.current = k.current
      BY <3>2 DEF Runs
    <3> HIDE DEF l
    <3>5. CASE run' = l
      <4>1. run'.pc = "sticky" /\ run'.outcome = "none" /\ Remembers(run', run)
        BY <3>2, <3>4, <3>5 DEF Remembers
      <4> QED
        BY <1>5, <2>0, <4>1
    <3>6. CASE run' = AfterTerminal(k)
      <4>1. Carried(run', k)
        BY <3>2, <3>6, AfterTerminalCarried
      <4>2. Carried(run', run)
        BY <2>0, <3>2, <4>1 DEF Carried, Remembers, Concluding, Relabels, Refuses, Raising
      <4> QED
        BY <1>0, <4>2, StaysUnread
    <3> QED
      BY <3>3, <3>5, <3>6
  <2> QED
    BY <1>2, <1>8, <2>1 DEF Terminals
<1>9. CASE Sticky
  <2>1. run.pc = "sticky" /\ run.outcome = "none"
    BY <1>9 DEF Sticky, At, Inv, Sound, Early
  <2>2. StickyOutcome(labels) \subseteq ReviewOutcome \cup {"none"}
    BY DEF StickyOutcome, ReviewOutcome
  <2>3. Carried(AfterTerminal(run), run)
    BY <2>1, Facts, AfterTerminalCarried
  <2>4. CASE Becomes(AfterTerminal(run))
    BY <1>0, <2>3, <2>4, StaysUnread DEF Becomes
  <2> QED
    BY <1>2, <1>4, <1>9, <2>2, <2>4 DEF Sticky
<1> QED
  BY <1>1, <1>6, <1>7, <1>8, <1>9

\* Only what needs nothing is neither refused nor repaired.
LEMMA IgnoredAnswers ==
  ASSUME NEW a \in AllAnswers, decide_review_policy(a).action \notin {"ESCALATE", "FIX"}
  PROVE  a.class = "NON_ACTIONABLE"
<1>1. a.class \in Classifications /\ a.confident \in BOOLEAN /\ a.paths \in {"none", "inside", "outside"}
  BY DEF AllAnswers
<1>2. a.class \in {"NON_ACTIONABLE", "OUT_OF_SCOPE", "CONFLICTS_WITH_SPEC", "UNCERTAIN", "ACTIONABLE"}
  BY <1>1 DEF Classifications
<1>3. CASE a.class = "OUT_OF_SCOPE"
  BY <1>3 DEF decide_review_policy, Action
<1>4. CASE a.class = "CONFLICTS_WITH_SPEC"
  BY <1>4 DEF decide_review_policy, Action
<1>5. CASE a.class = "UNCERTAIN"
  BY <1>5 DEF decide_review_policy, Action
<1>6. CASE a.class = "ACTIONABLE" /\ ~AutoRepair
  BY <1>6 DEF decide_review_policy, Action
<1>7. CASE a.class = "ACTIONABLE" /\ AutoRepair /\ ~a.confident
  BY <1>7 DEF decide_review_policy, Action
<1>8. CASE a.class = "ACTIONABLE" /\ AutoRepair /\ a.confident
  <2>1. CASE a.paths = "none"
    BY <1>8, <2>1 DEF decide_review_policy, Action
  <2>2. CASE a.paths = "outside"
    BY <1>8, <2>2 DEF decide_review_policy, Action
  <2>3. CASE a.paths = "inside"
    BY <1>8, <2>3 DEF decide_review_policy, Action
  <2> QED
    BY <1>1, <2>1, <2>2, <2>3
<1> QED
  BY <1>1, <1>2, <1>3, <1>4, <1>5, <1>6, <1>7, <1>8, ConfigAssumption

\* A review that is to save that it has settled S.
Settles(q, r, S) ==
  /\ q.pc = "persist" /\ q.then \in Saves \ {"ready"} /\ q.outcome = "none"
  /\ q.sha = r.sha /\ q.items = r.items /\ q.current = r.current
  /\ q.track.processed = r.track.processed \cup S

LEMMA SettledFields ==
  ASSUME NEW r \in Runs, r.outcome = "none", NEW S \in SUBSET Items, NEW reason \in Reasons
  PROVE  LET track == with_processed(r.track, S, FALSE)
             E == Escalation(r, track, reason)
             C == Saving(r, track, "converge")
         IN  /\ Settles(E, r, S) /\ E.then = "escalate"
             /\ Settles(C, r, S) /\ C.then = "converge"
<1> DEFINE track == with_processed(r.track, S, FALSE)
           E == Escalation(r, track, reason)
           C == Saving(r, track, "converge")
<1>1. track \in ReviewTrack /\ track.processed = r.track.processed \cup S
  BY WithProcessed DEF Runs
<1> HIDE DEF track
<1>2. "converge" \in Saves /\ "escalate" \in Saves
  BY DEF Saves
<1>3. /\ E.pc = "persist" /\ E.then = "escalate" /\ E.track = [track EXCEPT !.head = r.sha]
      /\ E.sha = r.sha /\ E.items = r.items /\ E.current = r.current /\ E.outcome = r.outcome
  BY <1>1, EscalationFields
<1>4. [track EXCEPT !.head = r.sha].processed = track.processed
  BY <1>1 DEF ReviewTrack
<1>5. /\ C.pc = "persist" /\ C.then = "converge" /\ C.track = track
      /\ C.sha = r.sha /\ C.items = r.items /\ C.current = r.current /\ C.outcome = r.outcome
  BY <1>1, <1>2, SavingFields
<1> HIDE DEF E, C
<1>6. Settles(E, r, S) /\ E.then = "escalate" /\ Settles(C, r, S) /\ C.then = "converge"
  BY <1>1, <1>2, <1>3, <1>4, <1>5 DEF Settles
<1> QED
  BY <1>6 DEF E, C, track

\* A review settles the items it has answers about; it refuses, or they need nothing.
LEMMA JudgedFields ==
  ASSUME NEW r \in Runs, r.outcome = "none",
         NEW skipped \in SUBSET Items, NEW batch \in SUBSET Items,
         NEW answer \in [batch -> Answers], NEW more \in BOOLEAN
  PROVE  LET J == Judged(r, skipped, answer, more)
         IN  /\ Settles(J, r, skipped \cup batch)
             /\ \/ J.then \in {"escalate", "codex"}
                \/ \A i \in batch : answer[i].class = "NON_ACTIONABLE"
<1> DEFINE settled == skipped \cup batch
           refusing == Deciding(answer, "ESCALATE")
           accepted == Deciding(answer, "FIX")
           updated == with_processed(r.track, settled, FALSE)
           paid == with_processed(r.track, settled, TRUE)
           first == CHOOSE i \in refusing : \A k \in refusing : i <= k
           reason == decide_review_policy(answer[first]).reason
           then == IF more THEN "more" ELSE "converge"
           J == Judged(r, skipped, answer, more)
<1> SUFFICES /\ Settles(J, r, settled)
             /\ \/ J.then \in {"escalate", "codex"}
                \/ \A i \in batch : answer[i].class = "NON_ACTIONABLE"
  OBVIOUS
<1>1. r.track \in ReviewTrack /\ settled \in SUBSET Items
  BY DEF Runs
<1>2. updated \in ReviewTrack /\ updated.processed = r.track.processed \cup settled
  BY <1>1, WithProcessed
<1>3. DOMAIN answer = batch /\ \A i \in batch : answer[i] \in AllAnswers
  BY ConfigAssumption
<1>4. refusing \subseteq batch /\ accepted \subseteq batch
  BY <1>3 DEF Deciding
<1>5. refusing # {} => reason \in Reasons
  <2> HIDE DEF refusing
  <2>1. refusing \in SUBSET Nat
    BY <1>4, ItemsAssumption
  <2>2. refusing # {} => first \in refusing
    BY <2>1, SmallestOf
  <2> QED
    BY <1>3, <1>4, <2>2, PolicyTypes
<1>6. refusing = {} /\ accepted = {} => \A i \in batch : answer[i].class = "NON_ACTIONABLE"
  <2> SUFFICES ASSUME refusing = {}, accepted = {}, NEW i \in batch
               PROVE  answer[i].class = "NON_ACTIONABLE"
    OBVIOUS
  <2>1. decide_review_policy(answer[i]).action \notin {"ESCALATE", "FIX"}
    BY <1>3 DEF Deciding
  <2> QED
    BY <1>3, <2>1, IgnoredAnswers
<1>7. /\ refusing # {} => J = Escalation(r, updated, reason)
      /\ refusing = {} /\ accepted = {} => J = Saving(r, updated, then)
      /\ refusing = {} /\ accepted # {} /\ ~MayRepair(r.track)
           => J = Escalation(r, updated, "attempt limit")
      /\ refusing = {} /\ accepted # {} /\ MayRepair(r.track)
           => J = [Saving(r, Bound(paid, r.sha), "codex") EXCEPT !.accepted = accepted]
  BY <1>3 DEF Judged
<1>8. then \in Saves /\ then # "ready" /\ "codex" \in Saves /\ "attempt limit" \in Reasons
  BY DEF Saves, Reasons
<1>9. ASSUME NEW why \in Reasons, J = Escalation(r, updated, why)
      PROVE  Settles(J, r, settled) /\ J.then = "escalate"
  <2> DEFINE E == Escalation(r, updated, why)
  <2> HIDE DEF settled, J
  <2>1. Settles(E, r, settled) /\ E.then = "escalate"
    <3> HIDE DEF refusing, accepted, reason, then, paid
    <3> QED
      BY <1>1, SettledFields
  <2> QED
    BY <1>9, <2>1
<1> HIDE DEF settled, refusing, accepted, J, updated, reason, then, first, paid
<1>10. CASE refusing # {}
  BY <1>5, <1>7, <1>9, <1>10
<1>11. CASE refusing = {} /\ accepted = {}
  <2> DEFINE l == Saving(r, updated, then)
  <2>1. J = l
    BY <1>7, <1>11
  <2>2. /\ l.pc = "persist" /\ l.then = then /\ l.track = updated /\ l.sha = r.sha
        /\ l.items = r.items /\ l.current = r.current /\ l.outcome = r.outcome
    <3>1. updated \in ReviewTrack
      BY <1>2
    <3>2. then \in Saves
      BY <1>8
    <3> QED
      BY <3>1, <3>2, SavingFields
  <2> HIDE DEF l
  <2>3. Settles(J, r, settled)
    BY <1>2, <1>8, <2>1, <2>2 DEF Settles
  <2> QED
    BY <1>6, <1>11, <2>3
<1>12. CASE refusing = {} /\ accepted # {} /\ ~MayRepair(r.track)
  BY <1>7, <1>8, <1>9, <1>12
<1>13. CASE refusing = {} /\ accepted # {} /\ MayRepair(r.track)
  <2> DEFINE b == Bound(paid, r.sha)
             k == Saving(r, b, "codex")
             l == [k EXCEPT !.accepted = accepted]
  <2>1. paid \in ReviewTrack /\ paid.processed = r.track.processed \cup settled
    BY <1>1, <1>13, WithAttempt DEF paid
  <2>2. b \in ReviewTrack /\ b.processed = paid.processed
    BY <2>1, HeadsAssumption DEF Bound, ReviewTrack, Runs
  <2> HIDE DEF b
  <2>3. /\ k \in Runs /\ k.pc = "persist" /\ k.then = "codex" /\ k.track = b /\ k.sha = r.sha
        /\ k.items = r.items /\ k.current = r.current /\ k.outcome = r.outcome
    <3>1. b \in ReviewTrack
      BY <2>2
    <3>2. "codex" \in Saves
      BY <1>8
    <3> QED
      BY <3>1, <3>2, SavingFields
  <2> HIDE DEF k
  <2>4. /\ l.pc = "persist" /\ l.then = "codex" /\ l.track = b /\ l.sha = r.sha
        /\ l.items = r.items /\ l.current = r.current /\ l.outcome = r.outcome
    BY <2>3 DEF Runs
  <2>5. J = l
    BY <1>7, <1>13 DEF k, b, l
  <2> HIDE DEF l
  <2> QED
    BY <1>8, <2>1, <2>2, <2>4, <2>5 DEF Settles
<1> QED
  BY <1>10, <1>11, <1>12, <1>13

\* What a review dismisses is accounted for; what it reads is on its commit, or on none.
LEMMA SkippedOrRead ==
  ASSUME Inv, NEW track, NEW i \in Listed \ track.processed, NEW cap
  PROVE  LET unread    == Listed \ track.processed
             skipped   == Skipped(unread, run.sha, track)
             forbidden == Forbidden(unread, run.sha, track)
         IN  /\ i \in skipped => \/ on[i] = 0 \/ on[i] < run.sha \/ on[i] > run.sha
                                 \/ NatureOf[i] = "missing"
             /\ i \in forbidden \cup Batch(unread \ (skipped \cup forbidden), cap)
                  => on[i] = 0 \/ on[i] = run.sha
<1>1. i \in Items /\ on[i] \in Nat /\ run.sha \in Nat
  BY UnreadFacts DEF Listed
<1> QED
  BY <1>1 DEF Skipped, Forbidden, Batch, applies_to_current_head

\* The feedback: a review that settles S accounts for what it dismissed, and for what it
\* read unless it refuses.
LEMMA SettlesUnread ==
  ASSUME Inv, UnreadInv, run.sha <= head, run.pc = "review",
         UNCHANGED <<head, listed, on, tracks, refused>>,
         NEW r, r.sha = run.sha, r.items \subseteq Listed, r.track = run.track,
         \A i \in Listed : on[i] = run.sha => i \in r.current,
         NEW S \in SUBSET Listed, NEW R \in SUBSET Listed, Settles(run', r, S),
         read' = read \cup (R \X {run.sha}), cleared \subseteq cleared', overtaken \subseteq overtaken',
         \A i \in R : on[i] = 0 \/ on[i] = run.sha,
         \A i \in S : \/ on[i] = 0 \/ on[i] < run.sha \/ NatureOf[i] = "missing"
                      \/ i \in overtaken' \/ i \in cleared'
                      \/ i \in R /\ run'.then \in {"escalate", "codex"}
  PROVE  UnreadInv'
<1>1. /\ run.sha \in Nat /\ run.sha >= 1 /\ run.sha \in Heads /\ Heads \subseteq Nat
      /\ \A i \in Items : on[i] \in Nat
      /\ Recorded(tracks).processed \subseteq Items /\ run.track.processed \subseteq Items
  BY UnreadFacts
<1>2. Listed \subseteq Items /\ \A i \in Listed : listed[i] # "unwritten"
  BY DEF Listed
<1>3. /\ run'.pc = "persist" /\ run'.then \in Saves \ {"ready"} /\ run'.outcome = "none"
      /\ run'.sha = run.sha /\ run'.items \subseteq Listed
      /\ run'.track.processed = run.track.processed \cup S
  BY DEF Settles
<1>4. Attached'
  <2>1. \A i \in Recorded(tracks).processed \cup run'.track.processed \cup run'.items :
          listed[i] # "unwritten"
    BY <1>2, <1>3 DEF UnreadInv, Attached
  <2>2. ASSUME NEW i \in Items, NEW c \in Heads, <<i, c>> \in read'
        PROVE  listed[i] # "unwritten" /\ (on[i] = 0 \/ c <= on[i])
    <3>1. CASE <<i, c>> \in read
      BY <3>1 DEF UnreadInv, Attached
    <3>2. CASE <<i, c>> \in R \X {run.sha}
      <4>1. i \in R /\ c = run.sha
        BY <3>2
      <4> QED
        BY <1>1, <1>2, <4>1
    <3> QED
      BY <2>2, <3>1, <3>2
  <2>3. \A i \in Items : on[i] <= head
    BY DEF UnreadInv, Attached
  <2> QED
    BY <2>1, <2>2, <2>3 DEF Attached
<1>5. \A i, h : Accounted(i, h) =>
        \/ on[i] = 0 \/ on[i] < h \/ NatureOf[i] = "missing" \/ i \in overtaken' \/ i \in cleared'
        \/ \E c \in refused : <<i, c>> \in read'
  BY DEF Accounted
<1>6. Remembered'
  BY <1>3, <1>5 DEF UnreadInv, Remembered, Accounted
<1>7. Minded'
  <2> SUFFICES ASSUME NEW i \in run'.track.processed
               PROVE  Accounted(i, run.sha)' \/ (Refuses(run') /\ <<i, run'.sha>> \in read')
    BY DEF Minded
  <2>1. CASE i \in S
    <3>1. CASE i \in R /\ run'.then \in {"escalate", "codex"}
      BY <1>3, <3>1 DEF Refuses
    <3> QED
      BY <1>3, <2>1, <3>1 DEF Accounted
  <2>2. CASE i \in run.track.processed
    <3>1. Accounted(i, run.sha) \/ (Refuses(run) /\ <<i, run.sha>> \in read)
      BY <2>2 DEF UnreadInv, Minded
    <3>2. ~Refuses(run)
      BY DEF Refuses, Inv, Sound, Early, Raising
    <3> QED
      BY <1>3, <1>5, <3>1, <3>2 DEF Accounted
  <2> QED
    BY <1>3, <2>1, <2>2
<1>8. Collected'
  BY <1>3 DEF Collected, Relabels, Settles
<1> QED
  BY <1>4, <1>6, <1>7, <1>8 DEF UnreadInv

LEMMA ReviewUnread ==
  ASSUME Inv, UnreadInv, run.sha <= head, Review
  PROVE  UnreadInv'
<1>1. PICK cap \in Caps : Review!(cap)
  BY DEF Review
<1> DEFINE unread     == Listed \ run.track.processed
           skipped    == Skipped(unread, run.sha, run.track)
           forbidden  == Forbidden(unread, run.sha, run.track)
           candidates == unread \ (skipped \cup forbidden)
           batch      == Batch(candidates, cap)
           r          == [run EXCEPT !.items = Listed,
                                     !.current = OnCommit(Listed, run.sha, run.track)]
           E(S, why)  == Escalation(r, with_processed(r.track, S, FALSE), why)
           C          == Saving(r, with_processed(r.track, skipped, FALSE), "converge")
           more       == candidates # batch
           over       == {i \in skipped : on[i] > run.sha}
<1>2. /\ run.pc = "review" /\ Moves
      /\ UNCHANGED <<head, listed, on, tracks, refused>>
      /\ overtaken' = overtaken \cup over
  BY <1>1, NothingMoves DEF At, Quiet, github, world
<1>3. /\ r \in Runs /\ r.track = run.track /\ r.outcome = "none" /\ r.sha = run.sha
      /\ r.items \subseteq Listed /\ r.pc = "review" /\ Listed \subseteq Items
      /\ \A i \in Listed : on[i] = run.sha => i \in r.current
  <2>1. r.items = Listed /\ r.current = OnCommit(Listed, run.sha, run.track)
    BY Facts DEF Runs
  <2>2. \A i \in Listed : on[i] = run.sha => i \in OnCommit(Listed, run.sha, run.track)
    BY UnreadFacts DEF OnCommit, applies_to_current_head
  <2> QED
    BY <1>1, <2>1, <2>2, ReviewFacts
<1>4. /\ skipped \subseteq Listed /\ forbidden \subseteq Listed /\ batch \subseteq Listed
      /\ skipped \subseteq unread /\ forbidden \subseteq unread /\ batch \subseteq unread
  BY DEF Skipped, Forbidden, Batch
<1>5. /\ \A i \in skipped : on[i] = 0 \/ on[i] < run.sha \/ i \in over \/ NatureOf[i] = "missing"
      /\ \A i \in forbidden \cup batch : on[i] = 0 \/ on[i] = run.sha
  <2>1. \A i \in skipped : on[i] = 0 \/ on[i] < run.sha \/ on[i] > run.sha \/ NatureOf[i] = "missing"
    BY <1>4, SkippedOrRead
  <2>2. \A i \in forbidden \cup batch : on[i] = 0 \/ on[i] = run.sha
    BY <1>4, SkippedOrRead
  <2> QED
    BY <2>1, <2>2
<1>6. \/ run' = E(skipped \cup forbidden, "forbidden path") /\ Reads(forbidden, {})
      \/ run' = C /\ Reads({}, {})
      \/ \E i \in batch : run' = E(skipped \cup {i}, "classifier") /\ Reads({i}, {})
      \/ \E code \in Outages : run' = Raised(r, OutcomeOfError(code), ReasonOfError(code)) /\ Reads({}, {})
      \/ \E answer \in [batch -> Answers] :
           /\ run' = Judged(r, skipped, answer, more)
           /\ Reads(batch, {i \in batch : answer[i].class = "NON_ACTIONABLE"})
      \/ CallFails(run) /\ Reads({}, {})
  BY <1>1 DEF Becomes, Falters
<1>7. "forbidden path" \in Reasons /\ "classifier" \in Reasons /\ more \in BOOLEAN
  BY DEF Reasons
<1> HIDE DEF unread, skipped, forbidden, candidates, batch, r, E, C, more, over
<1>8. ASSUME NEW S \in SUBSET Items, NEW why \in Reasons
      PROVE  Settles(E(S, why), r, S) /\ E(S, why).then = "escalate"
  BY <1>3, SettledFields DEF E
<1>9. Settles(C, r, skipped)
  BY <1>3, <1>4, <1>7, SettledFields DEF C
<1>10. ASSUME NEW S \in SUBSET Listed, NEW R \in SUBSET Listed, NEW N, Settles(run', r, S), Reads(R, N),
              \A i \in R : on[i] = 0 \/ on[i] = run.sha,
              \A i \in S \ skipped : i \in N \/ (i \in R /\ run'.then \in {"escalate", "codex"})
       PROVE  UnreadInv'
  <2>1. read' = read \cup (R \X {run.sha}) /\ cleared' = cleared \cup N
    BY <1>10 DEF Reads
  <2>2. \A i \in S : \/ on[i] = 0 \/ on[i] < run.sha \/ NatureOf[i] = "missing"
                     \/ i \in overtaken' \/ i \in cleared'
                     \/ i \in R /\ run'.then \in {"escalate", "codex"}
    BY <1>2, <1>5, <1>10, <2>1
  <2> QED
    BY <1>2, <1>3, <1>10, <2>1, <2>2, SettlesUnread
<1>11. ASSUME Reads({}, {}), Carried(run', run)
       PROVE  UnreadInv'
  <2>1. read' = read /\ cleared' = cleared
    BY <1>11 DEF Reads
  <2> QED
    BY <1>2, <1>11, <2>1, StaysUnread
<1>12. CASE run' = E(skipped \cup forbidden, "forbidden path") /\ Reads(forbidden, {})
  <2>1. skipped \cup forbidden \in SUBSET Items /\ skipped \cup forbidden \in SUBSET Listed
    BY <1>3, <1>4
  <2>2. Settles(run', r, skipped \cup forbidden) /\ run'.then = "escalate"
    BY <1>7, <1>8, <1>12, <2>1
  <2> QED
    BY <1>4, <1>5, <1>10, <1>12, <2>1, <2>2
<1>13. CASE run' = C /\ Reads({}, {})
  BY <1>4, <1>9, <1>10, <1>13
<1>14. ASSUME NEW i \in batch, run' = E(skipped \cup {i}, "classifier"), Reads({i}, {})
       PROVE  UnreadInv'
  <2>1. skipped \cup {i} \in SUBSET Items /\ skipped \cup {i} \in SUBSET Listed /\ {i} \in SUBSET Listed
    BY <1>3, <1>4
  <2>2. Settles(run', r, skipped \cup {i}) /\ run'.then = "escalate"
    BY <1>7, <1>8, <1>14, <2>1
  <2> QED
    BY <1>5, <1>10, <1>14, <2>1, <2>2
<1>15. ASSUME NEW code, run' = Raised(r, OutcomeOfError(code), ReasonOfError(code)), Reads({}, {})
       PROVE  UnreadInv'
  <2> DEFINE l == Raised(r, OutcomeOfError(code), ReasonOfError(code))
  <2>1. Same(l, r) /\ l.outcome \in Raising /\ l.pc = "label"
    BY <1>3, ErrorTypes, RaisedFields
  <2>2. run' = l /\ read' = read /\ cleared' = cleared
    BY <1>15 DEF Reads
  <2> HIDE DEF l
  <2>3. /\ run'.sha = run.sha /\ run'.track = run.track /\ run'.items \subseteq Listed
        /\ \A i \in Listed : on[i] = run.sha => i \in run'.current
    BY <1>3, <2>1, <2>2 DEF Same
  <2>5. /\ \A i \in Listed : listed[i] # "unwritten"
        /\ \A i, h : Accounted(i, h) => Accounted(i, h)'
    BY <1>2, <2>2 DEF Listed, Accounted
  <2>6. Attached'
    BY <1>2, <2>2, <2>3, <2>5 DEF UnreadInv, Attached
  <2>7. Remembered'
    BY <1>2, <2>1, <2>2, <2>5 DEF UnreadInv, Remembered
  <2>8. ~Refuses(run)
    BY <1>2 DEF Refuses, Inv, Sound, Early, Raising
  <2>9. Minded'
    BY <2>3, <2>5, <2>8 DEF UnreadInv, Minded, Accounted
  <2>10. Collected'
    BY <1>2, <2>1, <2>2, <2>3 DEF Collected, Relabels, Raising
  <2> QED
    BY <2>6, <2>7, <2>9, <2>10 DEF UnreadInv
<1>16. ASSUME NEW answer \in [batch -> Answers], run' = Judged(r, skipped, answer, more),
              Reads(batch, {i \in batch : answer[i].class = "NON_ACTIONABLE"})
       PROVE  UnreadInv'
  <2>1. skipped \in SUBSET Items /\ batch \in SUBSET Items /\ skipped \cup batch \in SUBSET Listed
    BY <1>3, <1>4
  <2>2. /\ Settles(run', r, skipped \cup batch)
        /\ \/ run'.then \in {"escalate", "codex"}
           \/ \A i \in batch : answer[i].class = "NON_ACTIONABLE"
    <3>1. answer \in [batch -> Answers]
      BY <1>16
    <3>2. LET J == Judged(r, skipped, answer, more)
          IN  /\ Settles(J, r, skipped \cup batch)
              /\ \/ J.then \in {"escalate", "codex"}
                 \/ \A i \in batch : answer[i].class = "NON_ACTIONABLE"
      BY <1>3, <1>7, <2>1, <3>1, JudgedFields
    <3> QED
      BY <1>16, <3>2
  <2> DEFINE N == {i \in batch : answer[i].class = "NON_ACTIONABLE"}
  <2>3. Reads(batch, N)
    BY <1>16
  <2>4. \A i \in (skipped \cup batch) \ skipped :
          i \in N \/ (i \in batch /\ run'.then \in {"escalate", "codex"})
    BY <2>2
  <2> HIDE DEF N
  <2> QED
    BY <1>4, <1>5, <1>10, <2>1, <2>2, <2>3, <2>4
<1>17. CASE CallFails(run) /\ Reads({}, {})
  BY <1>11, <1>17, Facts, CallFailsCarried
<1> QED
  BY <1>6, <1>12, <1>13, <1>14, <1>15, <1>16, <1>17

\* A save records what the review has settled, and whether it refuses.
LEMMA PersistUnread ==
  ASSUME Inv, UnreadInv, run.sha <= head, Persist
  PROVE  UnreadInv'
<1>1. /\ At("persist") /\ run.outcome = "none" /\ run.then \in Saves
      /\ Recorded(Saved) = run.track /\ SavedId = 1 /\ run.track \in ReviewTrack
  BY SavedFacts DEF Persist, At, Inv, Sound, Carries
<1>2. /\ UNCHANGED <<head, listed, on, cleared, read, overtaken>> /\ Moves /\ run.pc = "persist"
  BY <1>1, NothingMoves DEF Persist, Quiet, world, At
<1> DEFINE r == [run EXCEPT !.id = SavedId]
           o == [run EXCEPT !.owes = @ \/ Decides]
           decided == /\ refused' = IF Decides THEN refused \cup {run.sha} ELSE refused
                      /\ tracks' = Saved
<1>3. /\ r \in Runs /\ r.outcome = run.outcome /\ r.then = run.then /\ r.sha = run.sha
      /\ r.track = run.track /\ r.items = run.items /\ r.current = run.current /\ r.pc = run.pc
  BY <1>1, Facts DEF Runs
<1>4. /\ o \in Runs /\ o.outcome = run.outcome /\ o.then = run.then /\ o.sha = run.sha
      /\ o.track = run.track /\ o.items = run.items /\ o.current = run.current /\ o.pc = run.pc
  BY Facts DEF Runs, Decides
<1>5. \/ decided /\ run' = AfterSave(r)
      \/ decided /\ CallFails(o)
      \/ UNCHANGED <<tracks, refused>> /\ CallFails(run)
  BY DEF Persist, Becomes
<1>6. decided => Recorded(tracks') = run.track /\ refused \subseteq refused'
  BY <1>1
<1>7. decided => (Decides => run.sha \in refused')
  OBVIOUS
<1> HIDE DEF r, o, decided
<1>8. run.sha \in Nat /\ head \in Nat /\ \A i \in Items : on[i] \in Nat
  BY UnreadFacts
<1>9. ASSUME decided, NEW i \in run.track.processed
      PROVE  \/ on[i] = 0 \/ on[i] < run.sha
             \/ NatureOf[i] = "missing" \/ i \in overtaken \/ i \in cleared
             \/ \E c \in refused' : <<i, c>> \in read
  <2>1. Accounted(i, run.sha) \/ (Refuses(run) /\ <<i, run.sha>> \in read)
    BY DEF UnreadInv, Minded
  <2>2. Refuses(run) => Decides
    BY <1>1 DEF Refuses, Decides, Raising
  <2> QED
    BY <1>6, <1>7, <1>9, <2>1, <2>2 DEF Accounted
<1>10. ASSUME decided, Blank(run') \/ (Remembers(run', run) /\ run'.pc # "load"),
              Concluding(run') =>
                \A i \in run'.items : on[i] = run.sha => i \in run'.track.processed,
              run'.outcome = "READY_FOR_HUMAN" => run'.items = {}
       PROVE  UnreadInv'
  <2>1. /\ run'.track.processed \subseteq run.track.processed /\ run'.items \subseteq run.items
        /\ run'.pc # "load"
    BY <1>10 DEF Blank, Remembers
  <2>2. Attached'
    BY <1>2, <1>6, <1>10, <2>1 DEF UnreadInv, Attached
  <2>3. ASSUME NEW i \in Recorded(tracks').processed
        PROVE  Accounted(i, head)'
    <3>1. i \in run.track.processed
      BY <1>6, <1>10
    <3>2. i \in Items
      BY <3>1, UnreadFacts
    <3>3. on[i] < run.sha => on[i] < head
      BY <1>8, <3>2
    <3> QED
      BY <1>2, <1>9, <1>10, <3>1, <3>3 DEF Accounted
  <2>4. Remembered'
    BY <2>1, <2>3 DEF Remembered
  <2>5. Minded'
    BY <1>2, <1>9, <1>10, <2>1 DEF Minded, Accounted, Blank, Remembers
  <2>6. Collected'
    BY <1>2, <1>10 DEF UnreadInv, Collected, Concluding, Blank, Remembers, Relabels
  <2> QED
    BY <2>2, <2>4, <2>5, <2>6 DEF UnreadInv
<1>11. CASE decided /\ run' = AfterSave(r)
  <2>0. /\ "IN_REVIEW" \in ReviewOutcome \cup {"none"}
        /\ "agent:ready" \in StatusLabels /\ "agent:escalated" \in StatusLabels
        /\ "READY_FOR_HUMAN" \in Afters /\ "comment" \in Afters /\ "ready" \in Saves
    BY DEF ReviewOutcome, StatusLabels, TERMINAL_STATUS_LABELS, Afters, Saves
  <2>1. CASE r.then = "converge" /\ Converged(r)
    <3> DEFINE b == Bound(r.track, r.sha)
               l == Saving(r, b, "ready")
    <3>1. run' = l
      BY <1>11, <2>1 DEF AfterSave
    <3>2. b \in ReviewTrack /\ b.processed = r.track.processed
      BY <1>1, <1>3, Facts, HeadsAssumption DEF Bound, ReviewTrack
    <3> HIDE DEF b
    <3>3. /\ l.pc = "persist" /\ l.then = "ready" /\ l.track = b /\ l.sha = r.sha
          /\ l.items = r.items /\ l.current = r.current /\ l.outcome = r.outcome
      BY <1>3, <2>0, <3>2, SavingFields
    <3> HIDE DEF l
    <3>4. Remembers(run', run) /\ run'.pc # "load" /\ run'.outcome = "none"
      BY <1>1, <1>3, <3>1, <3>2, <3>3 DEF Remembers
    <3>5. \A i \in run.items : on[i] = run.sha => i \in run.track.processed
      BY <1>3, <2>1 DEF Converged, UnreadInv, Collected
    <3> QED
      BY <1>10, <1>11, <3>4, <3>5 DEF Remembers
  <2>2. CASE r.then = "more" \/ (r.then = "converge" /\ ~Converged(r))
    <3>1. run' = Done(r, "IN_REVIEW")
      BY <1>11, <2>2 DEF AfterSave, _in_review
    <3>2. Blank(run')
      BY <1>3, <2>0, <3>1, BlankRecords
    <3> QED
      BY <1>10, <1>11, <3>2 DEF Blank
  <2>3. CASE r.then = "ready"
    <3> DEFINE l == Labelling(r, "agent:ready", "READY_FOR_HUMAN")
    <3>1. run' = l
      BY <1>11, <2>3 DEF AfterSave
    <3>2. Same(l, r) /\ l.outcome = r.outcome /\ l.pc = "label"
      BY <1>3, <2>0, LabellingFields
    <3> HIDE DEF l
    <3>3. Remembers(run', run) /\ run'.pc # "load" /\ run'.outcome = "none"
      BY <1>1, <1>3, <3>1, <3>2 DEF Remembers, Same
    <3>4. \A i \in run.items : on[i] = run.sha => i \in run.track.processed
      BY <1>2, <1>3, <2>3 DEF UnreadInv, Collected
    <3> QED
      BY <1>10, <1>11, <3>3, <3>4 DEF Remembers
  <2>4. CASE r.then = "escalate"
    <3> DEFINE e == [r EXCEPT !.owes = TRUE]
               l == Labelling(e, "agent:escalated", "comment")
    <3>1. run' = l
      BY <1>11, <2>4 DEF AfterSave
    <3>2. /\ e \in Runs /\ e.sha = r.sha /\ e.track = r.track /\ e.items = r.items
          /\ e.current = r.current
          /\ e.outcome = r.outcome
      BY <1>3 DEF Runs
    <3> HIDE DEF e
    <3>3. Same(l, e) /\ l.outcome = e.outcome /\ l.pc = "label" /\ l.then = "comment"
      BY <2>0, <3>2, LabellingFields
    <3> HIDE DEF l
    <3>4. Remembers(run', run) /\ run'.pc # "load" /\ run'.outcome = "none" /\ ~Concluding(run')
      BY <1>1, <1>3, <3>1, <3>2, <3>3 DEF Remembers, Same, Concluding, Relabels
    <3> QED
      BY <1>10, <1>11, <3>4
  <2>5. CASE r.then = "codex"
    <3> DEFINE l == [r EXCEPT !.pc = "codex", !.owes = TRUE]
    <3>1. run' = l
      BY <1>11, <2>5 DEF AfterSave
    <3>2. /\ l.pc = "codex" /\ l.sha = r.sha /\ l.track = r.track /\ l.items = r.items
          /\ l.current = r.current
          /\ l.outcome = r.outcome
      BY <1>3 DEF Runs
    <3> HIDE DEF l
    <3>3. Remembers(run', run) /\ run'.pc # "load" /\ run'.outcome = "none" /\ ~Concluding(run')
      BY <1>1, <1>3, <3>1, <3>2 DEF Remembers, Concluding, Relabels
    <3> QED
      BY <1>10, <1>11, <3>3
  <2> QED
    BY <1>1, <1>3, <2>1, <2>2, <2>3, <2>4, <2>5 DEF Saves
<1>12. CASE decided /\ CallFails(o)
  <2>1. Carried(run', o) /\ run'.outcome \in Raising
    BY <1>4, <1>12, CallFailsCarried
  <2>2. Remembers(run', run) /\ run'.pc # "load" /\ run'.outcome # "READY_FOR_HUMAN"
    BY <1>4, <2>1 DEF Carried, Remembers
  <2>3. Concluding(run') => \A i \in run'.items : on[i] = run.sha => i \in run'.track.processed
    <3>1. Concluding(run') => Concluding(run)
      BY <1>4, <2>1 DEF Carried, Concluding, Relabels
    <3> QED
      BY <2>2, <3>1 DEF UnreadInv, Collected, Concluding, Remembers
  <2> QED
    BY <1>10, <1>12, <2>2, <2>3
<1>13. CASE UNCHANGED <<tracks, refused>> /\ CallFails(run)
  BY <1>2, <1>13, Facts, CallFailsCarried, StaysUnread
<1> QED
  BY <1>5, <1>11, <1>12, <1>13

\* The head moves, and with it the comments that GitHub moves along.
LEMMA AdvancesMoves ==
  ASSUME Inv, UnreadInv, Advances, UNCHANGED listed
  PROVE  Moves
<1>1. head \in Nat /\ \A i \in Items : on[i] \in Nat /\ on[i] <= head
  BY UnreadFacts DEF UnreadInv, Attached
<1>2. \A i \in Items : on'[i] = on[i] \/ (on[i] = head /\ on'[i] = head + 1)
  BY DEF Advances
<1>3. head' = head + 1
  BY DEF Advances
<1> QED
  BY <1>1, <1>2, <1>3 DEF Moves

\* The repair and its push.
LEMMA RepairUnread ==
  ASSUME Inv, UnreadInv, run.sha <= head, Codex \/ Push
  PROVE  UnreadInv'
<1>0. UNCHANGED <<tracks, refused, cleared, read, overtaken>> /\ run.pc \in {"codex", "push"}
      /\ run.outcome = "none"
  BY DEF Codex, Push, At, Quiet, NoTrace, github, history, Inv, Sound, Early
<1>1. Moves
  <2>1. CASE UNCHANGED world
    BY <2>1, NothingMoves
  <2>2. Push => UNCHANGED listed /\ (Advances \/ UNCHANGED <<head, on>>)
    BY DEF Push
  <2> QED
    BY <2>1, <2>2, AdvancesMoves DEF Codex, Quiet, world
<1>2. ASSUME NEW reason \in Reasons, NEW o \in Raising, run' = Raised(run, o, reason)
      PROVE  UnreadInv'
  <2>1. Carried(run', run)
    BY <1>2, Facts, RaisedCarried
  <2> QED
    BY <1>0, <1>1, <2>1, StaysUnread
<1>3. ASSUME CallFails(run)
      PROVE  UnreadInv'
  BY <1>0, <1>1, <1>3, Facts, CallFailsCarried, StaysUnread
<1>4. "REPAIR_FAILED" \in Reasons /\ "NON_FAST_FORWARD" \in Reasons /\ {"ESCALATED", "FAILED"} = Raising
  BY DEF Reasons, Raising
<1>5. CASE Codex
  <2>1. CASE Goes("push")
    <3>1. run'.pc = "push" /\ run'.outcome = "none" /\ Remembers(run', run)
      BY <1>0, <2>1, Facts DEF Goes, Becomes, Runs, Remembers
    <3>2. Carried(run', run)
      BY <1>0, <3>1 DEF Carried, Concluding, Relabels, Refuses, Raising
    <3> QED
      BY <1>0, <1>1, <3>2, StaysUnread
  <2> QED
    BY <1>2, <1>4, <1>5, <2>1 DEF Codex, Becomes
<1>6. CASE Push
  <2> DEFINE r == [run EXCEPT !.owes = FALSE]
             l == Labelling(r, "agent:review", "REVIEW_FIX_PUSHED")
  <2>1. /\ r \in Runs /\ r.sha = run.sha /\ r.track = run.track /\ r.items = run.items
        /\ r.current = run.current
        /\ r.outcome = run.outcome /\ r.pc = run.pc /\ r.then = run.then
    BY Facts DEF Runs
  <2>2. \/ run' = l \/ CallFails(r)
        \/ run' = Raised(run, "ESCALATED", "NON_FAST_FORWARD") \/ CallFails(run)
    BY <1>6 DEF Push, Rejected, Becomes
  <2> HIDE DEF r
  <2>3. "agent:review" \in StatusLabels /\ "REVIEW_FIX_PUSHED" \in Afters
    BY DEF StatusLabels, Afters, ReviewOutcome
  <2>4. Same(l, r) /\ l.outcome = r.outcome /\ l.pc = "label" /\ l.then = "REVIEW_FIX_PUSHED"
    BY <2>1, <2>3, LabellingFields
  <2> HIDE DEF l
  <2>5. CASE run' = l
    <3>1. Carried(run', run)
      BY <1>0, <2>1, <2>4, <2>5
         DEF Carried, Same, Remembers, Concluding, Relabels, Refuses, Raising
    <3> QED
      BY <1>0, <1>1, <3>1, StaysUnread
  <2>6. CASE CallFails(r)
    <3>1. Carried(run', r)
      BY <2>1, <2>6, CallFailsCarried
    <3>2. Carried(run', run)
      BY <2>1, <3>1 DEF Carried, Remembers, Concluding, Relabels, Refuses
    <3> QED
      BY <1>0, <1>1, <3>2, StaysUnread
  <2> QED
    BY <1>2, <1>3, <1>4, <2>2, <2>5, <2>6
<1> QED
  BY <1>5, <1>6

\* A label, or what follows it.
LEMMA LabelUnread ==
  ASSUME Inv, UnreadInv, run.sha <= head, AddLabel \/ RemoveLabel
  PROVE  UnreadInv'
<1>1. /\ Moves /\ UNCHANGED <<tracks, refused, cleared, read, overtaken>>
      /\ run.pc \in {"label", "unlabel"} /\ Matched(run)
  BY NothingMoves DEF AddLabel, RemoveLabel, At, Quiet, NoTrace, history, world, Inv, Sound
<1>2. ASSUME NEW r \in Runs, Remembers(r, run), r.pc \in {"label", "unlabel"}, r.then = run.then,
             r.outcome = run.outcome, LabelFails(r)
      PROVE  UnreadInv'
  <2>1. CASE r.outcome = "none" /\ CallFails(r)
    <3>1. Carried(run', r)
      BY <2>1, CallFailsCarried
    <3>2. Carried(run', run)
      BY <1>1, <1>2, <3>1 DEF Carried, Remembers, Concluding, Relabels, Refuses
    <3> QED
      BY <1>1, <3>2, StaysUnread
  <2>2. CASE r.outcome # "none" /\ Suffers([r EXCEPT !.pc = "notice", !.todo = {}])
    <3> DEFINE l == [r EXCEPT !.pc = "notice", !.todo = {}]
    <3>1. /\ l \in Runs /\ l.pc = "notice" /\ l.sha = r.sha /\ l.track = r.track
          /\ l.items = r.items /\ l.current = r.current /\ l.outcome = r.outcome
      BY DEF Runs, Stages
    <3>2. run' = [l EXCEPT !.hurt = TRUE]
      BY <2>2 DEF Suffers, Falters
    <3> HIDE DEF l
    <3>3. /\ run'.pc = "notice" /\ run'.sha = r.sha /\ run'.track = r.track
          /\ run'.items = r.items /\ run'.current = r.current /\ run'.outcome = run.outcome
      BY <1>2, <3>1, <3>2 DEF Runs
    <3>4. run.outcome \in Raising
      BY <1>1, <1>2, <2>2 DEF Matched
    <3>5. Carried(run', run)
      BY <1>1, <1>2, <3>3, <3>4
         DEF Carried, Remembers, Concluding, Relabels, Refuses, Raising
    <3> QED
      BY <1>1, <3>5, StaysUnread
  <2> QED
    BY <1>2, <2>1, <2>2 DEF LabelFails
<1>3. run \in Runs /\ Remembers(run, run)
  BY Facts DEF Remembers
<1>4. ASSUME NEW l, run' = l, Remembers(l, run), l.pc = "unlabel", l.then = run.then,
             l.outcome = run.outcome
      PROVE  UnreadInv'
  <2>1. run'.outcome # "READY_FOR_HUMAN" /\ (Concluding(run') => Concluding(run))
    BY <1>1, <1>4 DEF Matched, Raising, Concluding, Relabels
  <2>2. Carried(run', run)
    BY <1>1, <1>4, <2>1 DEF Carried, Refuses
  <2> QED
    BY <1>1, <2>2, StaysUnread
<1>5. CASE AddLabel
  <2> DEFINE r == [run EXCEPT !.owes = @ /\ run.want \notin {"agent:escalated", "agent:failed"}]
             l == [r EXCEPT !.pc = "unlabel", !.todo = OtherLabels(run.want)]
  <2>1. /\ r \in Runs /\ r.sha = run.sha /\ r.track = run.track /\ r.items = run.items
        /\ r.current = run.current
        /\ r.pc = run.pc /\ r.then = run.then /\ r.outcome = run.outcome
    <3>1. run.owes \in BOOLEAN
      BY Facts DEF Runs
    <3> QED
      BY <3>1, Facts DEF Runs
  <2>2. run' = l \/ LabelFails(r) \/ LabelFails(run)
    BY <1>5 DEF AddLabel, Becomes
  <2> HIDE DEF r
  <2>3. /\ l.pc = "unlabel" /\ l.sha = r.sha /\ l.track = r.track /\ l.items = r.items
        /\ l.current = r.current
        /\ l.then = r.then /\ l.outcome = r.outcome
    BY <2>1 DEF Runs
  <2> HIDE DEF l
  <2>4. Remembers(l, run) /\ Remembers(r, run)
    BY <2>1, <2>3 DEF Remembers
  <2> QED
    BY <1>1, <1>2, <1>3, <1>4, <2>1, <2>2, <2>3, <2>4
<1>6. CASE RemoveLabel
  <2> DEFINE rest == run.todo \ {FirstLabel(run.todo)}
             l == [run EXCEPT !.todo = rest]
  <2>0. run.pc = "unlabel"
    BY <1>6 DEF RemoveLabel, At
  <2>1. run' = l \/ run' = AfterLabel(run) \/ LabelFails(run)
    BY <1>6 DEF RemoveLabel, Becomes
  <2>2. /\ l.pc = run.pc /\ l.sha = run.sha /\ l.track = run.track /\ l.items = run.items
        /\ l.current = run.current
        /\ l.then = run.then /\ l.outcome = run.outcome
    BY Facts DEF Runs
  <2> HIDE DEF l
  <2>3. CASE run' = l
    <3>1. Remembers(l, run)
      BY <2>2 DEF Remembers
    <3> QED
      BY <1>4, <2>0, <2>2, <2>3, <3>1
  <2>4. CASE run' = AfterLabel(run)
    <3>1. CASE run.then \in ReviewOutcome
      <4>1. run' = Done(run, run.then) /\ run.then \in ReviewOutcome \cup {"none"}
        BY <2>4, <3>1 DEF AfterLabel
      <4>2. Blank(run')
        BY <4>1, Facts, BlankRecords
      <4> QED
        BY <1>1, <4>2, StaysUnread
    <3>2. CASE run.then \notin ReviewOutcome
      <4>1. run' = [run EXCEPT !.pc = run.then, !.todo = {}]
        BY <2>4, <3>2 DEF AfterLabel
      <4>2. run.then \in {"review", "comment", "notice"}
        BY <1>1, <3>2 DEF Matched, ReviewOutcome
      <4>3. /\ run'.pc = run.then /\ run'.sha = run.sha /\ run'.track = run.track
            /\ run'.items = run.items /\ run'.current = run.current /\ run'.outcome = run.outcome
        BY <4>1, <4>2, Facts DEF Runs
      <4>4. run.outcome # "READY_FOR_HUMAN"
        BY <1>1 DEF Matched, Raising
      <4>5. Carried(run', run)
        BY <1>1, <4>2, <4>3, <4>4 DEF Carried, Remembers, Concluding, Relabels, Refuses
      <4> QED
        BY <1>1, <4>5, StaysUnread
    <3> QED
      BY <3>1, <3>2
  <2> QED
    BY <1>1, <1>2, <1>3, <2>1, <2>3, <2>4
<1> QED
  BY <1>5, <1>6

\* The last step of a review.
LEMMA EndUnread ==
  ASSUME Inv, UnreadInv, run.sha <= head, Comment \/ Notice \/ Cancelled
  PROVE  UnreadInv'
<1>1. Moves /\ UNCHANGED <<tracks, refused, cleared, read, overtaken>>
  BY NothingMoves DEF Comment, Notice, Cancelled, Quiet, NoTrace, github, history, world
<1>2. ASSUME NEW o \in ReviewOutcome \cup {"none"}, Becomes(Done(run, o)) \/ Suffers(Done(run, o))
      PROVE  UnreadInv'
  BY <1>1, <1>2, Facts, DoneBlank, StaysUnread
<1>3. ASSUME CallFails(run)
      PROVE  UnreadInv'
  BY <1>1, <1>3, Facts, CallFailsCarried, StaysUnread
<1>4. "ESCALATED" \in ReviewOutcome \cup {"none"} /\ run.outcome \in ReviewOutcome \cup {"none"}
  BY Facts DEF ReviewOutcome, Runs
<1> QED
  BY <1>2, <1>3, <1>4 DEF Comment, Notice, Cancelled

\* What others do.
LEMMA EnvironmentUnread ==
  ASSUME Inv, UnreadInv, run.sha <= head, Environment
  PROVE  UnreadInv'
<1>1. \A i \in Items : on[i] \in Nat /\ on[i] <= head
  BY UnreadFacts DEF UnreadInv, Attached
<1>2. ASSUME Moves, UNCHANGED <<tracks, refused, cleared, read, overtaken, run>>
      PROVE  UnreadInv'
  <2>1. /\ Remembers(run', run) /\ run'.pc = run.pc /\ run'.then = run.then
        /\ run'.outcome = run.outcome
    BY <1>2 DEF Remembers
  <2> QED
    BY <1>2, <2>1, StaysUnread
<1>3. CASE PushCommit
  BY <1>2, <1>3, AdvancesMoves DEF PushCommit, NoTrace, history, github
<1>4. ASSUME Interferes, UNCHANGED <<world, tracks, refused, cleared, read, overtaken>>
      PROVE  UnreadInv'
  <2>1. /\ Remembers(run', run) /\ run'.pc = run.pc /\ run'.then = run.then
        /\ run'.outcome = run.outcome
    BY <1>4, Facts DEF Interferes, Runs, Remembers
  <2> QED
    BY <1>4, <2>1, NothingMoves, StaysUnread
<1>5. CASE Redeliver \/ Relabel
  BY <1>4, <1>5 DEF Redeliver, Relabel
<1>6. ASSUME NEW i \in Items, Write(i)
      PROVE  UnreadInv'
  <2>1. /\ listed[i] = "unwritten" /\ listed' = [listed EXCEPT ![i] = "listed"]
        /\ UNCHANGED <<head, tracks, refused, cleared, read, overtaken, run>>
    BY <1>6 DEF Write, NoTrace, history, github
  <2>2. PICK h \in (IF i \in Inline THEN 1..head ELSE {0}) : on' = [on EXCEPT ![i] = h]
    BY <1>6 DEF Write
  <2>3. listed \in [Items -> {"unwritten", "listed", "replaced"}] /\ on \in [Items -> 0..NumHeads]
    BY DEF Inv, TypeOK
  <2>4. head \in Nat /\ h \in Nat /\ h <= head
    BY <2>2, UnreadFacts
  <2>5. \A k \in Items : /\ on'[k] \in Nat /\ on'[k] <= head
                         /\ listed[k] # "unwritten" =>
                              listed'[k] # "unwritten" /\ on'[k] = on[k]
    BY <1>1, <2>1, <2>2, <2>3, <2>4
  <2>6. Moves
    BY <2>1, <2>5 DEF Moves
  <2> QED
    BY <1>2, <2>1, <2>6
<1>7. ASSUME NEW i \in Items, NEW k \in Items, Edit(k, i)
      PROVE  UnreadInv'
  <2>1. /\ listed[i] = "unwritten" /\ listed[k] = "listed"
        /\ listed' = [listed EXCEPT ![k] = "replaced", ![i] = "listed"]
        /\ on' = [on EXCEPT ![i] = on[k]]
        /\ UNCHANGED <<head, tracks, refused, cleared, read, overtaken, run>>
    BY <1>7 DEF Edit, NoTrace, history, github
  <2>2. listed \in [Items -> {"unwritten", "listed", "replaced"}] /\ on \in [Items -> 0..NumHeads]
    BY DEF Inv, TypeOK
  <2>3. \A j \in Items : /\ on'[j] \in Nat /\ on'[j] <= head
                         /\ listed[j] # "unwritten" =>
                              listed'[j] # "unwritten" /\ on'[j] = on[j]
    BY <1>1, <2>1, <2>2
  <2>4. Moves
    BY <2>1, <2>3 DEF Moves
  <2> QED
    BY <1>2, <2>1, <2>4
<1> QED
  BY <1>3, <1>5, <1>6, <1>7 DEF Environment

\* Every step keeps the invariant.
LEMMA UnreadStep == Inv /\ RefusalInv /\ UnreadInv /\ [Next]_vars => UnreadInv'
<1> SUFFICES ASSUME Inv, RefusalInv, UnreadInv, [Next]_vars
             PROVE  UnreadInv'
  OBVIOUS
<1>1. run.sha <= head
  BY DEF RefusalInv, Ahead
<1>2. CASE UNCHANGED vars
  <2>1. UNCHANGED <<world, tracks, refused, cleared, read, overtaken, run>>
    BY <1>2 DEF vars, github, history
  <2> QED
    BY <1>1, <2>1, NothingMoves, StaysUnread DEF Remembers
<1> QED
  BY <1>1, <1>2, OpenUnread, ReviewUnread, PersistUnread, RepairUnread, LabelUnread, EndUnread,
     EnvironmentUnread DEF Next, Step

\* When a review calls a commit ready, every comment on it that it collected was found to
\* need nothing, or was read for an earlier commit, but for what an overtaken review
\* dismissed and for verdicts that were never shown; for any number of commits, comments,
\* answers, reviews and failures.
THEOREM NothingUnreadHolds == Spec => []NothingUnread
<1>1. Init => UnreadInv
  <2> SUFFICES ASSUME Init
               PROVE  UnreadInv
    OBVIOUS
  <2> DEFINE n == NewRun(1)
  <2>1. 1 \in Heads /\ run = [n EXCEPT !.pc = "idle"]
    BY HeadsAssumption DEF Init
  <2>2. /\ n \in Runs /\ n.track = empty_review_track /\ n.outcome = "none"
    BY <2>1, NewRunFields
  <2>3. n.items = {}
    BY DEF NewRun
  <2> HIDE DEF n
  <2>4. run.pc = "idle" /\ run.track = empty_review_track /\ run.items = {} /\ run.outcome = "none"
    BY <2>1, <2>2, <2>3 DEF Runs
  <2>5. /\ head = 1 /\ on = [i \in Items |-> 0] /\ tracks = <<>> /\ read = {}
    BY DEF Init
  <2>6. Recorded(tracks).processed = {} /\ run.track.processed = {}
    BY <2>4, <2>5 DEF Recorded, empty_review_track
  <2>7. Attached
    BY <2>4, <2>5, <2>6 DEF Attached
  <2> QED
    BY <2>4, <2>6, <2>7 DEF UnreadInv, Remembered, Minded, Collected, Relabels
<1>2. Inv /\ UnreadInv /\ NoWayBack => NothingUnread
  <2> SUFFICES ASSUME Inv, UnreadInv, NoWayBack, Ready, run.sha \notin cut,
                      NEW i \in run.items \ overtaken, on[i] = run.sha, NatureOf[i] # "missing"
               PROVE  i \in cleared \/ \E h \in 1..(run.sha - 1) : <<i, h>> \in read
    BY DEF NothingUnread
  <2>1. run.sha \notin refused
    BY DEF NoWayBack
  <2>2. i \in Items /\ run.sha \in Nat /\ run.sha >= 1 /\ Heads \subseteq Nat /\ refused \subseteq Heads
    BY UnreadFacts
  <2>3. run.outcome # "READY_FOR_HUMAN"
    BY DEF UnreadInv, Collected
  <2>4. run.pc \in {"label", "unlabel"} /\ Matched(run) /\ run.want = "agent:ready"
    BY <2>3 DEF Ready, Inv, Sound
  <2>5. run.outcome = "none" /\ run.then = "READY_FOR_HUMAN"
    BY <2>4 DEF Matched, StatusLabelOf, Raising
  <2>6. i \in run.track.processed
    BY <2>4, <2>5 DEF UnreadInv, Collected, Relabels
  <2>7. Accounted(i, run.sha)
    BY <2>4, <2>5, <2>6 DEF UnreadInv, Minded, Refuses, Raising
  <2>8. CASE \E c \in refused : <<i, c>> \in read
    <3>1. PICK c \in refused : <<i, c>> \in read
      BY <2>8
    <3>2. c \in Heads /\ c <= on[i]
      <4>1. Attached
        BY DEF UnreadInv
      <4>2. c \in Heads /\ (on[i] = 0 \/ c <= on[i])
        BY <2>2, <3>1, <4>1 DEF Attached
      <4> QED
        BY <2>2, <4>2
    <3>3. c \in Nat /\ c >= 1 /\ c # run.sha
      BY <2>1, <2>2, <3>1, <3>2, HeadsAssumption
    <3>4. c \in 1..(run.sha - 1)
      BY <2>2, <3>2, <3>3
    <3> QED
      BY <3>1, <3>4
  <2> QED
    BY <2>2, <2>7, <2>8 DEF Accounted
<1> QED
  BY <1>1, <1>2, InvInductive, RefusalInductive, NoWayBackHolds, UnreadStep, PTL DEF Spec
=============================================================================

---------------------------- MODULE IntakeProofs ----------------------------
(***************************************************************************)
(* Proofs about Intake, for any branches, files, tasks and contents, and   *)
(* any number of commits and runs: that the executions of a task never     *)
(* overlap, that what is executed was asked for, and that no Task Spec     *)
(* that is pushed for its branch is lost without a trace.                  *)
(***************************************************************************)
EXTENDS Intake, SequenceTheorems, TLAPS

-----------------------------------------------------------------------------
(* The invariant *)

CommitRecords == [ tree : Snapshots, parent : Nat, past : SUBSET Nat ]

\* Commits point back, and are their own ancestors.
History(cs) ==
  /\ cs \in Seq(CommitRecords)
  /\ \A c \in DOMAIN cs : cs[c].past \subseteq 1..c /\ cs[c].parent < c /\ c \in cs[c].past

\* Stages of the runs that have selected a Task Spec.
Chosen == Executed \cup {"queued", "cancelled"}

\* What the commits say of one run, whatever happens to the others: a push came from the
\* commit it started from, and what a run has selected or turned down is what its event
\* and its commit leave to select.
Settled(run) ==
  /\ run \in Runs
  /\ run.event = "push" => IF run.before = 0 THEN run.sha \notin commits[run.since].past
                                             ELSE run.before = run.since
  /\ run.stage = "parsing" => run.spec = Outside
  /\ run.stage \in Chosen =>
       /\ run.spec \in Selectable(run) /\ Parses(run, run.spec) /\ OnBaseBranch(run, run.spec)
  /\ run.stage = "skipped" => \E f \in Selectable(run) : ~OnBaseBranch(run, f)

AllSettled == \A r \in DOMAIN runs : Settled(runs[r])

\* Executions of one task never overlap.
Apart ==
  \A r, q \in DOMAIN runs :
    runs[r].stage = "executing" /\ runs[q].stage = "executing" /\ r # q =>
      group(runs[r]) # group(runs[q])

\* When r came, q was there, and was being parsed if it still is.
Noted(q, r) ==
  q \in runs[r].beside /\ (runs[q].stage = "parsing" => q \in runs[r].parsing)

\* Of two unfinished runs one was there when the other came.
Beside ==
  \A r, q \in Unfinished : r # q => Noted(q, r) \/ Noted(r, q)

TookItsPlace(q, r) == q = runs[r].replacedBy /\ (CameMeanwhile(q, r) \/ WasOvertaken(q, r))

\* A run is only cancelled for one of the same task that came while it was unfinished,
\* or that was still being parsed when it came.
Replaced ==
  \A r \in DOMAIN runs :
    runs[r].stage = "cancelled" =>
      \E q \in DOMAIN runs \ {r} : TookItsPlace(q, r) /\ runs[q].spec # Outside
                                     /\ group(runs[q]) = group(runs[r])

IInv ==
  /\ History(commits) /\ branches \in [Branches -> Commits \cup {0}] /\ runs \in Seq(Runs)
  /\ AllSettled /\ Apart /\ Beside /\ Replaced

-----------------------------------------------------------------------------
(* Commits *)

LEMMA HistoryFacts ==
  ASSUME NEW cs, History(cs)
  PROVE  /\ Len(cs) \in Nat /\ DOMAIN cs = 1..Len(cs)
         /\ \A c \in DOMAIN cs : /\ cs[c] \in CommitRecords /\ c \in Nat /\ c # 0
                                 /\ cs[c].tree \in Snapshots
                                 /\ cs[c].parent \in DOMAIN cs \cup {0}
<1>1. Len(cs) \in Nat /\ DOMAIN cs = 1..Len(cs) /\ \A c \in DOMAIN cs : cs[c] \in CommitRecords
  BY ElementOfSeq, LenProperties DEF History
<1>2. \A c \in DOMAIN cs : cs[c].parent \in Nat /\ cs[c].tree \in Snapshots
  BY <1>1 DEF CommitRecords
<1>3. \A c \in DOMAIN cs : cs[c].parent \in 0..(c - 1)
  BY <1>1, <1>2 DEF History
<1> QED
  BY <1>1, <1>2, <1>3

\* A commit is added, and is older than none.
LEMMA CommitGrows ==
  ASSUME NEW cs, History(cs), NEW p \in DOMAIN cs, NEW t \in Snapshots
  PROVE  /\ History(Commit(cs, p, t))
         /\ Len(Commit(cs, p, t)) = Len(cs) + 1 /\ DOMAIN Commit(cs, p, t) = 1..(Len(cs) + 1)
         /\ \A c \in DOMAIN cs : Commit(cs, p, t)[c] = cs[c]
<1> DEFINE n == Len(cs) + 1
           new == [tree |-> t, parent |-> p, past |-> cs[p].past \cup {n}]
           ds == Append(cs, new)
<1>1. Commit(cs, p, t) = ds
  BY DEF Commit
<1>2. /\ Len(cs) \in Nat /\ DOMAIN cs = 1..Len(cs) /\ cs \in Seq(CommitRecords) /\ p \in Nat
      /\ cs[p].past \subseteq 1..p /\ p <= Len(cs) /\ n \in Nat
  BY HistoryFacts DEF History
<1>3. new \in CommitRecords
  BY <1>2 DEF CommitRecords
<1>4. new.past \subseteq 1..n /\ new.parent < n /\ n \in new.past
  BY <1>2
<1> HIDE DEF new
<1>5. /\ ds \in Seq(CommitRecords) /\ Len(ds) = n /\ DOMAIN ds = 1..n
      /\ \A c \in 1..Len(cs) : ds[c] = cs[c]
      /\ ds[n] = new
  BY <1>2, <1>3, AppendProperties, LenProperties
<1> HIDE DEF ds
<1>6. \A c \in 1..n : ds[c].past \subseteq 1..c /\ ds[c].parent < c /\ c \in ds[c].past
  <2> SUFFICES ASSUME NEW c \in 1..n
               PROVE  ds[c].past \subseteq 1..c /\ ds[c].parent < c /\ c \in ds[c].past
    OBVIOUS
  <2>1. CASE c = n
    BY <1>4, <1>5, <2>1
  <2>2. CASE c # n
    <3>1. c \in 1..Len(cs)
      BY <1>2, <2>2
    <3> QED
      BY <1>2, <1>5, <3>1 DEF History
  <2> QED
    BY <2>1, <2>2
<1> QED
  BY <1>1, <1>2, <1>5, <1>6 DEF History

\* Commits are only added.
Grown ==
  /\ History(commits) /\ History(commits)'
  /\ Commits \subseteq Commits' /\ \A c \in Commits : commits'[c] = commits[c]

LEMMA SameTree ==
  ASSUME Grown, NEW c \in Commits \cup {0}
  PROVE  Tree(c)' = Tree(c)
BY DEF Grown, Tree

\* What the commits say of a run stays.
LEMMA SettledStays ==
  ASSUME Grown, NEW run, Settled(run)
  PROVE  /\ Settled(run)' /\ group(run)' = group(run)
<1>1. /\ run \in Runs /\ run.sha \in Commits /\ run.before \in Commits \cup {0} /\ run.since \in Commits
  BY DEF Settled, Runs
<1>2. run \in Runs'
  BY <1>1 DEF Grown, Runs
<1>3. /\ Tree(run.sha)' = Tree(run.sha) /\ Tree(run.before)' = Tree(run.before)
      /\ commits'[run.sha] = commits[run.sha] /\ commits'[run.since] = commits[run.since]
  BY <1>1, SameTree DEF Grown
<1>4. commits[run.sha].parent \in Commits \cup {0}
  BY <1>1, HistoryFacts DEF Grown, Commits
<1>5. Tree(commits[run.sha].parent)' = Tree(commits[run.sha].parent)
  <2>1. PICK c \in Commits \cup {0} : c = commits[run.sha].parent
    BY <1>4
  <2>2. Tree(c)' = Tree(c)
    BY SameTree
  <2> QED
    BY <1>3, <2>1, <2>2 DEF Tree
<1>6. Selectable(run)' = Selectable(run)
  <2>1. list_changed_spec_paths(run)' = list_changed_spec_paths(run)
    BY <1>3, <1>5 DEF list_changed_spec_paths, Differ, AMCR
  <2>2. resolve_spec_rel(run)' = resolve_spec_rel(run)
    BY <1>3 DEF resolve_spec_rel
  <2> QED
    BY <2>1, <2>2 DEF Selectable
<1>7. \A f : Content(run, f)' = Content(run, f)
  BY <1>3 DEF Content
<1>8. \A f : Parses(run, f)' = Parses(run, f) /\ OnBaseBranch(run, f)' = OnBaseBranch(run, f)
  BY <1>7 DEF Parses, OnBaseBranch
<1> QED
  BY <1>2, <1>3, <1>6, <1>7, <1>8 DEF Settled, group

\* What a run may select is a file.
LEMMA SelectsFiles ==
  ASSUME NEW run
  PROVE  Selectable(run) \subseteq Files
BY DEF Selectable, list_changed_spec_paths, resolve_spec_rel, Differ, AMCR

\* A run that has chosen has a file, which is a legal Task Spec.
LEMMA ChosenHas ==
  ASSUME NEW run, Settled(run), run.stage \in Chosen
  PROVE  run.spec \in Files /\ run.spec # Outside
BY SelectsFiles, IntakeAssumption DEF Settled

-----------------------------------------------------------------------------
(* New runs *)

\* What an event or a re-run adds.
LEMMA Arrives ==
  ASSUME IInv, Grown, branches' \in [Branches -> Commits' \cup {0}],
         NEW run, Settled(run)', run.stage = "parsing", run.beside = Unfinished,
         run.parsing = Parsing, runs' = Append(runs, run)
  PROVE  IInv'
<1>0. PICK n : n = Len(runs) + 1
  OBVIOUS
<1>1. /\ Len(runs) \in Nat /\ DOMAIN runs = 1..Len(runs) /\ \A r \in DOMAIN runs : Settled(runs[r])
      /\ runs \in Seq(Runs)
  BY LenProperties DEF IInv, AllSettled
<1>2. Runs \subseteq Runs' /\ run \in Runs'
  BY DEF Grown, Runs, Settled
<1>3. /\ runs' \in Seq(Runs') /\ DOMAIN runs' = 1..n
      /\ \A r \in 1..Len(runs) : runs'[r] = runs[r]
      /\ runs'[n] = run
  <2>1. runs \in Seq(Runs')
    BY <1>1, <1>2, SeqMonotonic
  <2> QED
    BY <1>0, <1>1, <1>2, <2>1, AppendProperties, LenProperties
<1>4. \A r \in DOMAIN runs' : r = n \/ r \in DOMAIN runs
  BY <1>0, <1>1, <1>3
<1>5. ASSUME NEW r \in DOMAIN runs
      PROVE  Settled(runs[r])' /\ group(runs[r])' = group(runs[r])
  <2>1. PICK q : q = runs[r]
    OBVIOUS
  <2>2. Settled(q)' /\ group(q)' = group(q)
    BY <1>1, <1>5, <2>1, SettledStays
  <2>3. runs'[r] = q
    BY <1>1, <1>3, <2>1
  <2> QED
    BY <2>1, <2>2, <2>3 DEF Settled, group, Content, Selectable, list_changed_spec_paths, resolve_spec_rel,
                            Parses, OnBaseBranch
<1>6. AllSettled'
  <2>1. Settled(runs[n])'
    BY <1>3 DEF Settled, Content, Selectable, list_changed_spec_paths, resolve_spec_rel, Parses, OnBaseBranch
  <2> QED
    BY <1>4, <1>5, <2>1 DEF AllSettled
<1>7. n \notin DOMAIN runs /\ \A r \in DOMAIN runs : runs'[r] = runs[r]
  BY <1>0, <1>1, <1>3
<1>8. Apart'
  BY <1>3, <1>4, <1>5, <1>7 DEF Apart, IInv
<1>9. Beside'
  <2>1. \A r \in Unfinished' : r = n \/ r \in Unfinished
    BY <1>4, <1>7 DEF Unfinished
  <2>2. \A r \in Unfinished : r \in DOMAIN runs
    BY DEF Unfinished
  <2>3. \A q \in Unfinished : Noted(q, n)'
    BY <1>3, <1>7, <2>2 DEF Noted, Parsing
  <2>4. \A q, r \in Unfinished : Noted(q, r) => Noted(q, r)'
    BY <1>7, <2>2 DEF Noted
  <2> QED
    BY <2>1, <2>3, <2>4 DEF Beside, IInv
<1>10. Replaced'
  <2>0. DOMAIN runs \subseteq DOMAIN runs'
    BY <1>0, <1>1, <1>3
  <2> SUFFICES ASSUME NEW r \in DOMAIN runs, runs[r].stage = "cancelled"
               PROVE  \E q \in DOMAIN runs' \ {r} : TookItsPlace(q, r)' /\ runs'[q].spec # Outside
                                                      /\ group(runs[q])' = group(runs[r])'
    BY <1>3, <1>4, <1>7 DEF Replaced
  <2>1. PICK q \in DOMAIN runs \ {r} : TookItsPlace(q, r) /\ runs[q].spec # Outside
                                         /\ group(runs[q]) = group(runs[r])
    BY DEF Replaced, IInv
  <2> QED
    BY <1>5, <1>7, <2>0, <2>1 DEF TookItsPlace, CameMeanwhile, WasOvertaken
<1> QED
  BY <1>3, <1>6, <1>8, <1>9, <1>10 DEF IInv, Grown

-----------------------------------------------------------------------------
(* Runs that go on *)

\* With the commits as they are, what they say of a run stays.
LEMMA NothingGrows ==
  ASSUME IInv, UNCHANGED commits
  PROVE  Grown
BY DEF IInv, Grown, History, Commits

\* How the runs of a step are related to those before it: who is cancelled was waiting,
\* and is replaced by a run of its task; who executes was, or is alone with its task.
Turned ==
  /\ DOMAIN runs' = DOMAIN runs
  /\ \A q \in DOMAIN runs :
       /\ runs'[q].beside = runs[q].beside /\ runs'[q].parsing = runs[q].parsing
       /\ runs'[q].sha = runs[q].sha
       /\ runs'[q].stage = "parsing" => runs[q].stage = "parsing"
       /\ runs[q].spec # Outside => runs'[q].spec = runs[q].spec
       /\ runs'[q].stage \notin Over => runs[q].stage \notin Over
       /\ runs'[q].stage = "executing" =>
            \/ runs[q].stage = "executing"
            \/ /\ runs[q].stage = "queued" /\ ~Busy(runs[q])
               /\ \A p \in DOMAIN runs \ {q} : runs'[p] = runs[p]
       /\ runs'[q].stage = "cancelled" =>
            \/ runs[q].stage = "cancelled" /\ runs'[q].replacedBy = runs[q].replacedBy
            \/ /\ runs[q].stage = "queued"
               /\ \E p \in DOMAIN runs \ {q} :
                    /\ p = runs'[q].replacedBy
                    /\ runs[p].stage = "parsing" /\ runs'[p].spec # Outside
                    /\ TaskOf[Tree(runs[p].sha)[runs'[p].spec]] = group(runs[q])

LEMMA TurnKeeps ==
  ASSUME IInv, UNCHANGED <<commits, branches>>, Turned, AllSettled', runs' \in Seq(Runs')
  PROVE  IInv'
<1>1. DOMAIN runs' = DOMAIN runs /\ \A q \in DOMAIN runs : Settled(runs[q])
  BY DEF Turned, IInv, AllSettled
<1>2. ASSUME NEW q \in DOMAIN runs, runs[q].spec # Outside
      PROVE  group(runs[q])' = group(runs[q]) /\ runs'[q].spec = runs[q].spec
  <2>1. runs'[q].sha = runs[q].sha /\ runs'[q].spec = runs[q].spec
    BY <1>2 DEF Turned
  <2> QED
    BY <2>1 DEF group, Content, Tree
<1>3. \A q \in DOMAIN runs : runs[q].stage \in Chosen => runs[q].spec # Outside
  BY <1>1, ChosenHas
<1>4. /\ "queued" \in Chosen /\ "executing" \in Chosen /\ "cancelled" \in Chosen
      /\ "queued" \notin Over /\ "parsing" \notin Over
  BY DEF Chosen, Executed, Over, Red
<1>5. Apart'
  <2> SUFFICES ASSUME NEW r \in DOMAIN runs, NEW q \in DOMAIN runs, r # q,
                      runs'[r].stage = "executing", runs'[q].stage = "executing"
               PROVE  group(runs[r])' # group(runs[q])'
    BY <1>1 DEF Apart
  <2>1. /\ runs[r].stage = "executing" \/ (runs[r].stage = "queued" /\ ~Busy(runs[r]) /\ runs'[q] = runs[q])
        /\ runs[q].stage = "executing" \/ (runs[q].stage = "queued" /\ ~Busy(runs[q]) /\ runs'[r] = runs[r])
    BY DEF Turned
  <2>2. group(runs[r])' = group(runs[r]) /\ group(runs[q])' = group(runs[q])
    BY <1>2, <1>3, <1>4, <2>1
  <2>3. group(runs[r]) # group(runs[q])
    BY <2>1 DEF Apart, Busy, IInv
  <2> QED
    BY <2>2, <2>3
<1>6. Beside'
  <2>1. Unfinished' \subseteq Unfinished
    BY <1>1 DEF Unfinished, Turned
  <2>2. \A q, r \in Unfinished : Noted(q, r) => Noted(q, r)'
    BY DEF Unfinished, Turned, Noted
  <2> QED
    BY <2>1, <2>2 DEF Beside, IInv
<1>7. Replaced'
  <2> SUFFICES ASSUME NEW r \in DOMAIN runs, runs'[r].stage = "cancelled"
               PROVE  \E q \in DOMAIN runs \ {r} : TookItsPlace(q, r)' /\ runs'[q].spec # Outside
                                                     /\ group(runs[q])' = group(runs[r])'
    BY <1>1 DEF Replaced
  <2>0. \A q \in DOMAIN runs : runs'[q].beside = runs[q].beside /\ runs'[q].parsing = runs[q].parsing
    BY DEF Turned
  <2>1. CASE runs[r].stage = "cancelled"
    <3>0. runs'[r].replacedBy = runs[r].replacedBy
      BY <2>1 DEF Turned
    <3>1. PICK q \in DOMAIN runs \ {r} : TookItsPlace(q, r) /\ runs[q].spec # Outside
                                           /\ group(runs[q]) = group(runs[r])
      BY <2>1 DEF Replaced, IInv
    <3>2. runs[r].spec # Outside
      BY <1>3, <1>4, <2>1
    <3> QED
      <4>1. TookItsPlace(q, r)'
        BY <2>0, <3>0, <3>1 DEF TookItsPlace, CameMeanwhile, WasOvertaken
      <4>2. runs'[q].spec # Outside /\ group(runs[q])' = group(runs[r])'
        BY <1>2, <3>1, <3>2
      <4> QED
        BY <4>1, <4>2
  <2>2. CASE runs[r].stage = "queued"
    <3>1. PICK p \in DOMAIN runs \ {r} :
            /\ p = runs'[r].replacedBy
            /\ runs[p].stage = "parsing" /\ runs'[p].spec # Outside
            /\ TaskOf[Tree(runs[p].sha)[runs'[p].spec]] = group(runs[r])
      BY <1>4, <2>2 DEF Turned
    <3>2. CameMeanwhile(p, r) \/ WasOvertaken(p, r)
      <4>1. r \in Unfinished /\ p \in Unfinished
        BY <1>4, <2>2, <3>1 DEF Unfinished
      <4> QED
        BY <3>1, <4>1 DEF Beside, IInv, Noted, CameMeanwhile, WasOvertaken
    <3>3. group(runs[r])' = group(runs[r])
      BY <1>2, <1>3, <1>4, <2>2
    <3>4. group(runs[p])' = TaskOf[Tree(runs[p].sha)[runs'[p].spec]]
      BY <3>1 DEF Turned, group, Content, Tree
    <3> QED
      <4>1. TookItsPlace(p, r)'
        BY <2>0, <3>1, <3>2 DEF TookItsPlace, CameMeanwhile, WasOvertaken
      <4> QED
        BY <3>1, <3>3, <3>4, <4>1
  <2> QED
    BY <2>1, <2>2 DEF Turned
<1>8. History(commits)' /\ branches' \in [Branches -> Commits' \cup {0}]
  BY DEF IInv, History, Commits
<1> QED
  BY <1>5, <1>6, <1>7, <1>8 DEF IInv

\* A run changes its stage, and no other one.
LEMMA EndsFrame ==
  ASSUME IInv, UNCHANGED <<commits, branches>>, NEW r \in DOMAIN runs, NEW stage \in Stages, Ends(r, stage)
  PROVE  /\ DOMAIN runs' = DOMAIN runs /\ runs' \in Seq(Runs')
         /\ \A q \in DOMAIN runs \ {r} : runs'[q] = runs[q]
         /\ runs'[r] = [runs[r] EXCEPT !.stage = stage]
         /\ runs'[r].stage = stage /\ runs'[r].spec = runs[r].spec /\ runs'[r].sha = runs[r].sha
         /\ runs'[r].beside = runs[r].beside /\ runs'[r].parsing = runs[r].parsing
<1>1. /\ Len(runs) \in Nat /\ DOMAIN runs = 1..Len(runs) /\ runs[r] \in Runs /\ runs \in Seq(Runs)
  BY ElementOfSeq, LenProperties DEF IInv
<1> DEFINE run == [runs[r] EXCEPT !.stage = stage]
<1>2. run \in Runs /\ run.stage = stage /\ run.spec = runs[r].spec /\ run.sha = runs[r].sha
      /\ run.beside = runs[r].beside /\ run.parsing = runs[r].parsing
  BY <1>1 DEF Runs
<1>3. runs' = [runs EXCEPT ![r] = run] /\ Runs' = Runs
  BY DEF Ends, Runs, Commits
<1> HIDE DEF run
<1>4. runs' \in Seq(Runs) /\ \A q \in DOMAIN runs : runs'[q] = IF q = r THEN run ELSE runs[q]
  BY <1>1, <1>2, <1>3, ExceptSeq
<1>5. DOMAIN runs' = DOMAIN runs
  BY <1>3
<1> QED
  BY <1>2, <1>3, <1>4, <1>5 DEF run

\* It may do so if it settles for what it has chosen, or has nothing to show.
LEMMA EndsKeeps ==
  ASSUME IInv, UNCHANGED <<commits, branches>>, NEW r \in DOMAIN runs, NEW stage \in Stages, Ends(r, stage),
         runs[r].stage \notin Over, stage # "parsing", stage # "cancelled",
         stage \in Chosen => runs[r].stage \in Chosen,
         stage = "executing" => runs[r].stage = "queued" /\ ~Busy(runs[r]),
         stage = "skipped" => \E f \in Selectable(runs[r]) : ~OnBaseBranch(runs[r], f)
  PROVE  IInv'
<1>1. /\ DOMAIN runs' = DOMAIN runs /\ runs' \in Seq(Runs')
      /\ \A q \in DOMAIN runs \ {r} : runs'[q] = runs[q]
      /\ runs'[r] = [runs[r] EXCEPT !.stage = stage]
      /\ runs'[r].stage = stage /\ runs'[r].spec = runs[r].spec /\ runs'[r].sha = runs[r].sha
      /\ runs'[r].beside = runs[r].beside /\ runs'[r].parsing = runs[r].parsing
  BY EndsFrame
<1>2. Grown /\ \A q \in DOMAIN runs : Settled(runs[q])
  BY NothingGrows DEF IInv, AllSettled
<1>3. Settled([runs[r] EXCEPT !.stage = stage])
  <2> DEFINE run == [runs[r] EXCEPT !.stage = stage]
  <2>1. /\ runs[r] \in Runs /\ run \in Runs /\ run.stage = stage
        /\ run.event = runs[r].event /\ run.before = runs[r].before /\ run.since = runs[r].since
        /\ run.sha = runs[r].sha /\ run.spec = runs[r].spec /\ run.spec_path = runs[r].spec_path
        /\ run.ref = runs[r].ref
    BY <1>2 DEF Settled, Runs
  <2> HIDE DEF run
  <2>2. /\ Selectable(run) = Selectable(runs[r])
        /\ \A f : /\ Parses(run, f) = Parses(runs[r], f)
                  /\ OnBaseBranch(run, f) = OnBaseBranch(runs[r], f)
    BY <2>1 DEF Selectable, list_changed_spec_paths, resolve_spec_rel, Parses, OnBaseBranch, Content
  <2>3. Settled(runs[r])
    BY <1>2
  <2>4. Settled(run)
    BY <2>1, <2>2, <2>3 DEF Settled
  <2> QED
    BY <2>4 DEF run
<1>4. AllSettled'
  <2> SUFFICES ASSUME NEW q \in DOMAIN runs
               PROVE  Settled(runs[q])'
    BY <1>1 DEF AllSettled
  <2>1. PICK run : run = runs'[q]
    OBVIOUS
  <2>2. Settled(run)
    BY <1>1, <1>2, <1>3, <2>1
  <2>3. Settled(run)'
    BY <1>2, <2>2, SettledStays
  <2> QED
    BY <2>1, <2>3 DEF Settled, Content, Selectable, list_changed_spec_paths, resolve_spec_rel, Parses,
                      OnBaseBranch
<1>5. Turned
  BY <1>1 DEF Turned
<1> QED
  BY <1>1, <1>4, <1>5, TurnKeeps

\* A run enters the group of the task of the file it has chosen.
LEMMA EnterKeeps ==
  ASSUME IInv, UNCHANGED <<commits, branches>>, NEW r \in DOMAIN runs, runs[r].stage = "parsing",
         NEW f \in Selectable(runs[r]), Parses(runs[r], f), OnBaseBranch(runs[r], f), Enter(r, f)
  PROVE  IInv'
<1> DEFINE entering == [runs[r] EXCEPT !.spec = f, !.stage = "queued"]
<1>0. Grown /\ \A q \in DOMAIN runs : Settled(runs[q])
  BY NothingGrows DEF IInv, AllSettled
<1>1. f \in Files /\ f # Outside /\ runs[r].spec = Outside
  BY <1>0, SelectsFiles, IntakeAssumption DEF Settled
<1>2. /\ runs[r] \in Runs /\ entering \in Runs /\ entering.stage = "queued" /\ entering.spec = f
      /\ entering.event = runs[r].event /\ entering.before = runs[r].before /\ entering.since = runs[r].since
      /\ entering.sha = runs[r].sha /\ entering.spec_path = runs[r].spec_path
      /\ entering.ref = runs[r].ref /\ entering.beside = runs[r].beside
      /\ entering.parsing = runs[r].parsing
  BY <1>0, <1>1 DEF Settled, Runs, Stages
<1>3. runs' = [q \in DOMAIN runs |->
                 IF q = r THEN entering
                 ELSE IF runs[q].stage = "queued" /\ group(runs[q]) = group(entering)
                      THEN [runs[q] EXCEPT !.stage = "cancelled", !.replacedBy = r]
                      ELSE runs[q]]
  BY DEF Enter
<1> HIDE DEF entering
<1>4. Settled(entering)
  <2>1. /\ Selectable(entering) = Selectable(runs[r])
        /\ Parses(entering, f) = Parses(runs[r], f)
        /\ OnBaseBranch(entering, f) = OnBaseBranch(runs[r], f)
    BY <1>2 DEF Selectable, list_changed_spec_paths, resolve_spec_rel, Parses, OnBaseBranch, Content
  <2>2. Settled(runs[r])
    BY <1>0
  <2> QED
    BY <1>2, <2>1, <2>2 DEF Settled
<1>5. ASSUME NEW q \in DOMAIN runs, runs[q].stage = "queued"
      PROVE  LET run == [runs[q] EXCEPT !.stage = "cancelled", !.replacedBy = r]
             IN  /\ Settled(run) /\ run.stage = "cancelled" /\ run.spec = runs[q].spec
                 /\ run.sha = runs[q].sha /\ run.beside = runs[q].beside
                 /\ run.parsing = runs[q].parsing /\ run.replacedBy = r
  <2> DEFINE run == [runs[q] EXCEPT !.stage = "cancelled", !.replacedBy = r]
  <2>0. r \in Nat
    BY LenProperties DEF IInv
  <2>1. Settled(runs[q])
    BY <1>0
  <2>2. /\ runs[q] \in Runs /\ run \in Runs /\ run.stage = "cancelled"
        /\ run.event = runs[q].event /\ run.before = runs[q].before /\ run.since = runs[q].since
        /\ run.sha = runs[q].sha /\ run.spec = runs[q].spec /\ run.spec_path = runs[q].spec_path
        /\ run.ref = runs[q].ref /\ run.beside = runs[q].beside
        /\ run.parsing = runs[q].parsing /\ run.replacedBy = r
    BY <2>0, <2>1 DEF Settled, Runs, Stages, Over
  <2> HIDE DEF run
  <2>3. /\ Selectable(run) = Selectable(runs[q])
        /\ \A g : /\ Parses(run, g) = Parses(runs[q], g)
                  /\ OnBaseBranch(run, g) = OnBaseBranch(runs[q], g)
    BY <2>2 DEF Selectable, list_changed_spec_paths, resolve_spec_rel, Parses, OnBaseBranch, Content
  <2>4. Settled(run)
    BY <1>5, <2>1, <2>2, <2>3 DEF Settled, Chosen
  <2>5. Settled(run) /\ run.stage = "cancelled" /\ run.spec = runs[q].spec
        /\ run.sha = runs[q].sha /\ run.beside = runs[q].beside
        /\ run.parsing = runs[q].parsing /\ run.replacedBy = r
    BY <2>2, <2>4
  <2> QED
    BY <2>5 DEF run
<1>6. DOMAIN runs' = DOMAIN runs /\ \A q \in DOMAIN runs : Settled(runs'[q])
  BY <1>0, <1>3, <1>4, <1>5
<1>7. AllSettled' /\ runs' \in Seq(Runs')
  <2>1. ASSUME NEW q \in DOMAIN runs
        PROVE  Settled(runs[q])' /\ runs'[q] \in Runs'
    <3>1. PICK run : run = runs'[q]
      OBVIOUS
    <3>2. Settled(run)'
      BY <1>0, <1>6, <2>1, <3>1, SettledStays
    <3> QED
      BY <3>1, <3>2 DEF Settled, Content, Selectable, list_changed_spec_paths, resolve_spec_rel, Parses,
                        OnBaseBranch
  <2>2. Len(runs) \in Nat /\ DOMAIN runs = 1..Len(runs)
    BY LenProperties DEF IInv
  <2>3. runs' \in [1..Len(runs) -> Runs']
    BY <1>3, <2>1, <2>2
  <2>4. runs' \in Seq(Runs')
    BY <2>2, <2>3, SeqDef
  <2> QED
    BY <1>6, <2>1, <2>4 DEF AllSettled
<1>8. Turned
  <2>0. "parsing" \notin Over /\ "queued" \notin Over /\ "cancelled" \in Over
    BY DEF Over, Red
  <2>1. runs'[r] = entering
    BY <1>3
  <2>2. TaskOf[Tree(runs[r].sha)[runs'[r].spec]] = group(entering)
    BY <1>2, <2>1 DEF group, Content
  <2>3. ASSUME NEW q \in DOMAIN runs \ {r}
        PROVE  \/ runs'[q] = runs[q]
               \/ /\ runs[q].stage = "queued" /\ group(runs[q]) = group(entering)
                  /\ runs'[q].stage = "cancelled" /\ runs'[q].spec = runs[q].spec
                  /\ runs'[q].sha = runs[q].sha /\ runs'[q].beside = runs[q].beside
                  /\ runs'[q].parsing = runs[q].parsing /\ runs'[q].replacedBy = r
    <3>1. CASE runs[q].stage = "queued" /\ group(runs[q]) = group(entering)
      <4>1. runs'[q] = [runs[q] EXCEPT !.stage = "cancelled", !.replacedBy = r]
        BY <1>3, <2>3, <3>1
      <4> QED
        BY <1>5, <3>1, <4>1
    <3>2. CASE ~(runs[q].stage = "queued" /\ group(runs[q]) = group(entering))
      BY <1>3, <2>3, <3>2
    <3> QED
      BY <3>1, <3>2
  <2>4. ASSUME NEW q \in DOMAIN runs \ {r}
        PROVE  /\ runs'[q].beside = runs[q].beside /\ runs'[q].parsing = runs[q].parsing
               /\ runs'[q].sha = runs[q].sha
               /\ runs'[q].stage = "parsing" => runs[q].stage = "parsing"
               /\ runs[q].spec # Outside => runs'[q].spec = runs[q].spec
               /\ runs'[q].stage \notin Over => runs[q].stage \notin Over
               /\ runs'[q].stage = "executing" => runs[q].stage = "executing"
               /\ runs'[q].stage = "cancelled" =>
                    \/ runs[q].stage = "cancelled" /\ runs'[q].replacedBy = runs[q].replacedBy
                    \/ /\ runs[q].stage = "queued" /\ r = runs'[q].replacedBy
                       /\ r \in DOMAIN runs \ {q} /\ runs[r].stage = "parsing" /\ runs'[r].spec # Outside
                       /\ TaskOf[Tree(runs[r].sha)[runs'[r].spec]] = group(runs[q])
    BY <1>1, <1>2, <2>0, <2>1, <2>2, <2>3
  <2>5. /\ runs'[r].beside = runs[r].beside /\ runs'[r].parsing = runs[r].parsing
        /\ runs'[r].sha = runs[r].sha
        /\ runs[r].stage = "parsing" /\ runs[r].spec = Outside /\ runs[r].stage \notin Over /\ runs'[r].stage = "queued"
    BY <1>1, <1>2, <2>0, <2>1
  <2> QED
    BY <1>6, <2>4, <2>5 DEF Turned
<1> QED
  BY <1>7, <1>8, TurnKeeps

-----------------------------------------------------------------------------
(* People *)

\* Commits and branches may change under the runs.
LEMMA RunsStay ==
  ASSUME IInv, Grown, branches' \in [Branches -> Commits' \cup {0}], runs' = runs
  PROVE  IInv'
<1>1. runs \in Seq(Runs) /\ DOMAIN runs = 1..Len(runs) /\ \A r \in DOMAIN runs : Settled(runs[r])
  BY LenProperties DEF IInv, AllSettled
<1>2. ASSUME NEW r \in DOMAIN runs
      PROVE  Settled(runs[r])' /\ group(runs[r])' = group(runs[r])
  <2>1. PICK q : q = runs[r]
    OBVIOUS
  <2>2. Settled(q)' /\ group(q)' = group(q)
    BY <1>1, <1>2, <2>1, SettledStays
  <2> QED
    BY <2>1, <2>2 DEF Settled, group, Content, Selectable, list_changed_spec_paths, resolve_spec_rel,
                      Parses, OnBaseBranch
<1>3. AllSettled'
  BY <1>2 DEF AllSettled
<1>4. Apart' /\ Replaced'
  BY <1>2 DEF Apart, Replaced, TookItsPlace, CameMeanwhile, WasOvertaken, IInv
<1>5. Beside'
  BY DEF Beside, Unfinished, Noted, IInv
<1>6. runs' \in Seq(Runs')
  <2>1. Runs \subseteq Runs'
    BY DEF Grown, Runs
  <2> QED
    BY <1>1, <2>1, SeqMonotonic
<1> QED
  BY <1>3, <1>4, <1>5, <1>6 DEF IInv, Grown

LEMMA UnfinishedAreNumbers ==
  ASSUME IInv
  PROVE  Unfinished \subseteq Nat /\ Parsing \subseteq Nat
<1>1. Len(runs) \in Nat /\ DOMAIN runs = 1..Len(runs)
  BY LenProperties DEF IInv
<1> QED
  BY <1>1 DEF Unfinished, Parsing

\* A push to a commit that is there, or that its starting point does not have among its
\* ancestors.
LEMMA PushKeeps ==
  ASSUME IInv, NEW cs, History(cs), Commits \subseteq DOMAIN cs, \A c \in Commits : cs[c] = commits[c],
         NEW b \in Branches, NEW p \in Commits, NEW sha \in DOMAIN cs,
         sha = p \/ sha \notin cs[p].past, Pushes(cs, b, p, sha)
  PROVE  IInv'
<1> DEFINE since == IF branches[b] = 0 THEN p ELSE branches[b]
           run == Event("push", b, branches[b], sha, Outside, since)
<1>1. commits' = cs /\ branches' = [branches EXCEPT ![b] = sha]
      /\ runs' = IF Differ(cs[since].tree, cs[sha].tree) # {} THEN Append(runs, run) ELSE runs
  BY DEF Pushes
<1>2. Grown
  BY <1>1 DEF Grown, IInv, Commits, History
<1>3. branches' \in [Branches -> Commits' \cup {0}]
  BY <1>1 DEF IInv, Commits
<1>4. branches[b] \in Commits \cup {0} /\ since \in Commits
  BY DEF IInv
<1>5. CASE Differ(cs[since].tree, cs[sha].tree) = {}
  BY <1>1, <1>2, <1>3, <1>5, RunsStay
<1>6. CASE Differ(cs[since].tree, cs[sha].tree) # {}
  <2>1. sha # since
    BY <1>6 DEF Differ
  <2>2. branches[b] = 0 => sha \notin cs[since].past
    BY <2>1
  <2>3. /\ run.event = "push" /\ run.stage = "parsing" /\ run.spec = Outside /\ run.beside = Unfinished
        /\ run.parsing = Parsing /\ run.before = branches[b] /\ run.sha = sha /\ run.since = since
    BY DEF Event
  <2>4. run \in Runs'
    <3>1. Unfinished \subseteq Nat /\ Parsing \subseteq Nat
      BY UnfinishedAreNumbers
    <3>2. "parsing" \in Stages
      BY DEF Stages
    <3> HIDE DEF since
    <3> QED
      BY <1>1, <1>4, <3>1, <3>2 DEF Runs, Event, Commits
  <2>5. run.before # 0 => run.before = run.since
    BY <2>3
  <2> HIDE DEF run, since
  <2>6. PICK r : r = run
    OBVIOUS
  <2>7. Settled(r)'
    BY <1>1, <2>2, <2>3, <2>4, <2>5, <2>6 DEF Settled, Chosen, Executed
  <2>8. runs' = Append(runs, r)
    BY <1>1, <1>6, <2>6 DEF since
  <2> QED
    BY <1>2, <1>3, <2>3, <2>6, <2>7, <2>8, Arrives
<1> QED
  BY <1>5, <1>6

LEMMA PushStep ==
  ASSUME IInv, NEW b \in Branches, Push(b)
  PROVE  IInv'
<1>1. History(commits) /\ Commits = 1..Len(commits) /\ Len(commits) \in Nat /\ DOMAIN commits = Commits
  BY HistoryFacts DEF IInv, Commits
<1>2. PICK p \in Commits, t \in Trees :
        LET one == Commit(commits, p, t)
        IN  \/ Pushes(one, b, p, Len(one))
            \/ \E u \in Trees : LET two == Commit(one, Len(one), u)
                                IN  Pushes(two, b, p, Len(two))
  BY DEF Push
<1> DEFINE one == Commit(commits, p, t)
<1>3. t \in Snapshots
  BY IntakeAssumption
<1>4. /\ History(one) /\ Len(one) = Len(commits) + 1 /\ DOMAIN one = 1..(Len(commits) + 1)
      /\ \A c \in Commits : one[c] = commits[c]
  BY <1>1, <1>3, CommitGrows
<1>5. commits[p].past \subseteq 1..p /\ p \in 1..Len(commits)
  BY <1>1 DEF History
<1>6. CASE Pushes(one, b, p, Len(one))
  <2> HIDE DEF one
  <2>1. Len(one) \in DOMAIN one /\ Commits \subseteq DOMAIN one
    BY <1>1, <1>4
  <2>2. Len(one) \notin one[p].past
    BY <1>1, <1>4, <1>5
  <2> QED
    BY <1>4, <1>6, <2>1, <2>2, PushKeeps
<1>7. ASSUME NEW u \in Trees, Pushes(Commit(one, Len(one), u), b, p, Len(Commit(one, Len(one), u)))
      PROVE  IInv'
  <2> DEFINE two == Commit(one, Len(one), u)
  <2> HIDE DEF one
  <2>1. u \in Snapshots /\ Len(one) \in DOMAIN one
    BY <1>1, <1>4, IntakeAssumption
  <2>2. /\ History(two) /\ Len(two) = Len(one) + 1 /\ DOMAIN two = 1..(Len(one) + 1)
        /\ \A c \in DOMAIN one : two[c] = one[c]
    BY <1>4, <2>1, CommitGrows
  <2>3. Pushes(two, b, p, Len(two))
    BY <1>7
  <2> HIDE DEF two
  <2>4. Len(two) \in DOMAIN two /\ Commits \subseteq DOMAIN two /\ \A c \in Commits : two[c] = commits[c]
    BY <1>1, <1>4, <2>2
  <2>5. Len(two) \notin two[p].past
    BY <1>1, <1>4, <1>5, <2>2, <2>4
  <2> QED
    BY <2>2, <2>3, <2>4, <2>5, PushKeeps
<1> QED
  BY <1>2, <1>6, <1>7

LEMMA MoveStep ==
  ASSUME IInv, NEW b \in Branches, Move(b)
  PROVE  IInv'
<1>1. PICK c \in Commits : Pushes(commits, b, c, c)
  BY DEF Move
<1> QED
  BY <1>1, PushKeeps DEF IInv, Commits

LEMMA DispatchStep ==
  ASSUME IInv, NEW b \in Branches, Dispatch(b)
  PROVE  IInv'
<1>1. UNCHANGED <<commits, branches>> /\ branches[b] \in Commits
  BY DEF Dispatch, IInv
<1>2. PICK path \in Files \cup {Outside} :
        runs' = Append(runs, Event("workflow_dispatch", b, 0, branches[b], path, branches[b]))
  BY DEF Dispatch
<1>3. PICK run : run = Event("workflow_dispatch", b, 0, branches[b], path, branches[b])
  OBVIOUS
<1>4. run.event = "workflow_dispatch" /\ run.stage = "parsing" /\ run.spec = Outside /\ run.beside = Unfinished
      /\ run.parsing = Parsing
  BY <1>3 DEF Event
<1>5. run \in Runs'
  <2>1. Unfinished \subseteq Nat /\ Parsing \subseteq Nat /\ "parsing" \in Stages
    BY UnfinishedAreNumbers DEF Stages
  <2> QED
    BY <1>1, <1>3, <2>1 DEF Runs, Event, Commits
<1>6. Settled(run)'
  BY <1>4, <1>5 DEF Settled, Chosen, Executed
<1>7. branches' \in [Branches -> Commits' \cup {0}]
  BY <1>1 DEF IInv, Commits
<1> QED
  BY <1>1, <1>2, <1>3, <1>4, <1>6, <1>7, Arrives, NothingGrows

\* A re-run has the event of the run, and begins anew.
LEMMA RerunStep ==
  ASSUME IInv, NEW r \in DOMAIN runs, Rerun(r)
  PROVE  IInv'
<1>1. UNCHANGED <<commits, branches>> /\ Grown /\ Settled(runs[r])
  BY NothingGrows DEF Rerun, IInv, AllSettled
<1>2. PICK run : run = [runs[r] EXCEPT !.stage = "parsing", !.spec = Outside, !.beside = Unfinished,
                                       !.parsing = Parsing, !.replacedBy = 0]
  OBVIOUS
<1>3. /\ run \in Runs /\ run.stage = "parsing" /\ run.spec = Outside /\ run.beside = Unfinished
      /\ run.parsing = Parsing /\ run.event = runs[r].event /\ run.before = runs[r].before /\ run.sha = runs[r].sha
      /\ run.since = runs[r].since
  <2>1. Unfinished \subseteq Nat /\ Parsing \subseteq Nat /\ "parsing" \in Stages
    BY UnfinishedAreNumbers DEF Stages
  <2> QED
    BY <1>1, <1>2, <2>1 DEF Settled, Runs
<1>4. Settled(run)
  BY <1>1, <1>3 DEF Settled, Chosen, Executed
<1>5. Settled(run)'
  BY <1>1, <1>4, SettledStays
<1>6. branches' \in [Branches -> Commits' \cup {0}]
  BY <1>1 DEF IInv, Commits
<1>7. runs' = Append(runs, run)
  BY <1>2 DEF Rerun
<1> QED
  BY <1>1, <1>3, <1>5, <1>6, <1>7, Arrives

-----------------------------------------------------------------------------
(* The jobs *)

LEMMA JobStages ==
  /\ \A s \in {"broken", "rejected", "skipped", "executing", "executed", "stopped"} :
       s \in Stages /\ s # "parsing" /\ s # "cancelled"
  /\ \A s \in {"broken", "rejected", "skipped", "stopped"} : s \notin Chosen /\ s # "executing"
  /\ {"queued", "executing"} \subseteq Chosen
  /\ "parsing" \notin Over /\ "queued" \notin Over /\ "executing" \notin Over
BY DEF Stages, Over, Red, Executed, Chosen

LEMMA ParseStep ==
  ASSUME IInv, NEW r \in DOMAIN runs, ParseSpec(r)
  PROVE  IInv'
<1>1. UNCHANGED <<commits, branches>> /\ runs[r].stage = "parsing"
  BY DEF ParseSpec
<1>2. CASE Ends(r, "broken")
  BY <1>1, <1>2, JobStages, EndsKeeps
<1>3. CASE Ends(r, "rejected")
  BY <1>1, <1>3, JobStages, EndsKeeps
<1>4. CASE \E f \in Selectable(runs[r]) : ~OnBaseBranch(runs[r], f) /\ Ends(r, "skipped")
  BY <1>1, <1>4, JobStages, EndsKeeps
<1>5. CASE \E f \in Selectable(runs[r]) :
             Parses(runs[r], f) /\ OnBaseBranch(runs[r], f) /\ Enter(r, f)
  BY <1>1, <1>5, EnterKeeps
<1> QED
  BY <1>2, <1>3, <1>4, <1>5 DEF ParseSpec

LEMMA StepKeeps ==
  ASSUME IInv, Next
  PROVE  IInv'
<1>1. ASSUME NEW r \in DOMAIN runs, Start(r)
      PROVE  IInv'
  BY <1>1, JobStages, EndsKeeps DEF Start
<1>2. ASSUME NEW r \in DOMAIN runs, Execute(r)
      PROVE  IInv'
  BY <1>2, JobStages, EndsKeeps DEF Execute
<1>3. ASSUME NEW r \in DOMAIN runs, Stop(r)
      PROVE  IInv'
  BY <1>3, JobStages, EndsKeeps DEF Stop
<1> QED
  BY <1>1, <1>2, <1>3, PushStep, MoveStep, DispatchStep, RerunStep, ParseStep DEF Next, People, Job

LEMMA InitHolds ==
  ASSUME Init
  PROVE  IInv
<1>1. runs = <<>> /\ DOMAIN runs = {} /\ runs \in Seq(Runs)
  <2>1. runs = <<>>
    BY DEF Init
  <2> QED
    BY <2>1, EmptySeq
<1>2. Tree(0) \in Snapshots
  BY DEF Tree, Snapshots
<1> DEFINE first == [tree |-> Tree(0), parent |-> 0, past |-> {1}]
<1>3. first \in CommitRecords /\ first.past = {1} /\ first.parent = 0
  BY <1>2 DEF CommitRecords
<1>4. commits = <<first>>
  BY DEF Init
<1> HIDE DEF first
<1>5. commits \in Seq(CommitRecords) /\ DOMAIN commits = {1} /\ commits[1] = first
  BY <1>3, <1>4
<1>6. History(commits)
  BY <1>3, <1>5 DEF History
<1>7. branches \in [Branches -> Commits \cup {0}]
  BY <1>5 DEF Init, Commits
<1> QED
  BY <1>1, <1>6, <1>7 DEF IInv, AllSettled, Apart, Beside, Unfinished, Replaced

LEMMA IInvInvariant ==
  Spec => []IInv
<1>1. Init => IInv
  BY InitHolds
<1>2. IInv /\ [Next]_vars => IInv'
  <2> SUFFICES ASSUME IInv, [Next]_vars
               PROVE  IInv'
    OBVIOUS
  <2>1. CASE Next
    BY <2>1, StepKeeps
  <2>2. CASE UNCHANGED vars
    <3>1. Grown /\ branches' \in [Branches -> Commits' \cup {0}] /\ runs' = runs
      BY <2>2, NothingGrows DEF vars, IInv, Commits
    <3> QED
      BY <3>1, RunsStay
  <2> QED
    BY <2>1, <2>2
<1> QED
  BY <1>1, <1>2, PTL DEF Spec

-----------------------------------------------------------------------------
(* The theorems *)

\* The workflow of agent-execute.yml: the state keeps its types, a run that was let
\* through has selected a legal Task Spec, and the executions of a task, from whichever
\* file and branch, never overlap.
THEOREM TypeCorrect == Spec => []TypeOK
<1>1. IInv => TypeOK
  <2> SUFFICES ASSUME IInv
               PROVE  TypeOK
    OBVIOUS
  <2>1. \A r \in DOMAIN runs :
          runs[r].stage \in Chosen => runs[r].spec # Outside /\ Parses(runs[r], runs[r].spec)
    BY ChosenHas DEF IInv, AllSettled, Settled
  <2>2. \A r \in DOMAIN runs :
          runs[r].stage \in Executed \cup {"queued", "cancelled"} =>
            /\ runs[r].spec # Outside
            /\ Tree(runs[r].sha)[runs[r].spec] \in Contents \ Malformed
    BY <2>1 DEF Chosen, Parses, Content
  <2>3. commits \in Seq([ tree : Snapshots, parent : Nat, past : SUBSET Nat ])
        /\ \A c \in Commits : commits[c].past \subseteq 1..c /\ commits[c].parent < c
    BY DEF IInv, History, CommitRecords, Commits
  <2>4. Apart /\ branches \in [Branches -> Commits \cup {0}] /\ runs \in Seq(Runs)
    BY DEF IInv
  <2> QED
    BY <2>2, <2>3, <2>4 DEF TypeOK, Apart, group, Content
<1> QED
  BY <1>1, IInvInvariant, PTL

\* What an author means to be executed is among the files a push is found to have
\* changed, unless it is overlooked.
LEMMA MeantIsListed ==
  ASSUME NEW run, Settled(run), run.event = "push", NEW f \in Meant(run) \ Overlooked(run)
  PROVE  f \in list_changed_spec_paths(run) /\ OnBaseBranch(run, f)
<1>1. /\ f \in Files /\ Tree(run.since)[f] # Tree(run.sha)[f]
      /\ Tree(run.sha)[f] \in Contents /\ OnBaseBranch(run, f)
  BY DEF Meant, Differ, Parses, Content
<1>2. Tree(run.sha)[f] # Absent
  BY <1>1, IntakeAssumption
<1>3. CASE run.before = 0
  <2>1. Tree(commits[run.sha].parent)[f] # Tree(run.sha)[f]
    BY <1>1, <1>3 DEF Overlooked
  <2> QED
    BY <1>1, <1>3, <2>1 DEF list_changed_spec_paths, Differ
<1>4. CASE run.before # 0
  <2>1. run.before = run.since
    BY <1>4 DEF Settled
  <2> QED
    BY <1>1, <1>2, <1>4, <2>1 DEF list_changed_spec_paths, AMCR, Differ
<1> QED
  BY <1>3, <1>4

\* A push selects from what it has changed, if that is one file.
LEMMA SelectsTheOne ==
  ASSUME NEW run, run.event = "push", NEW f \in Selectable(run)
  PROVE  list_changed_spec_paths(run) = {f} /\ Selectable(run) = {f}
<1>1. PICK g \in list_changed_spec_paths(run) : list_changed_spec_paths(run) = {g}
  BY DEF Selectable, OneSpec
<1>2. Selectable(run) = list_changed_spec_paths(run)
  BY DEF Selectable, OneSpec
<1> QED
  BY <1>1, <1>2

\* evaluate_intake and agent-execute.yml: a Task Spec pushed to its base branch is
\* selected, unless the run fails or is stopped, and its run is cancelled only for
\* another of the same task that entered the group after it, because its event came
\* meanwhile or because it, the older one, was still being parsed.
THEOREM EveryPushIsAnsweredHolds == Spec => []EveryPushIsAnswered
<1>1. IInv => EveryPushIsAnswered
  <2> SUFFICES ASSUME IInv, NEW r \in DOMAIN runs, runs[r].event = "push",
                      runs[r].stage \notin Red \cup {"parsing", "stopped"},
                      NEW f \in Meant(runs[r]) \ Overlooked(runs[r])
               PROVE  /\ runs[r].spec = f
                      /\ runs[r].stage = "cancelled" =>
                           \E q \in DOMAIN runs \ {r} :
                             /\ q = runs[r].replacedBy /\ runs[q].spec # Outside
                             /\ Task(runs[q], runs[q].spec) = Task(runs[r], f)
                             /\ CameMeanwhile(q, r) \/ WasOvertaken(q, r)
    BY DEF EveryPushIsAnswered
  <2>1. Settled(runs[r]) /\ runs[r].stage \in Stages
    BY DEF IInv, AllSettled, Settled, Runs
  <2>2. f \in list_changed_spec_paths(runs[r]) /\ OnBaseBranch(runs[r], f)
    BY <2>1, MeantIsListed
  <2>3. runs[r].stage \in Chosen \cup {"skipped"}
    BY <2>1 DEF Stages, Over, Chosen, Executed
  <2>4. CASE runs[r].stage = "skipped"
    <3>1. PICK g \in Selectable(runs[r]) : ~OnBaseBranch(runs[r], g)
      BY <2>1, <2>4 DEF Settled
    <3>2. g = f
      BY <2>2, <3>1, SelectsTheOne
    <3> QED
      BY <2>2, <3>1, <3>2
  <2>5. CASE runs[r].stage \in Chosen
    <3>1. runs[r].spec \in Selectable(runs[r])
      BY <2>1, <2>5 DEF Settled
    <3>2. runs[r].spec = f
      BY <2>2, <3>1, SelectsTheOne
    <3> QED
      BY <3>2 DEF IInv, Replaced, TookItsPlace, group, Task
  <2> QED
    BY <2>3, <2>4, <2>5
<1> QED
  BY <1>1, IInvInvariant, PTL

\* _select_spec_path and list_changed_spec_paths: what is executed was named by a
\* dispatch, or is the one Task Spec for this branch that a push has changed.
THEOREM OnlyAskedForHolds == Spec => []OnlyAskedFor
<1>1. IInv => OnlyAskedFor
  <2> SUFFICES ASSUME IInv, NEW r \in DOMAIN runs, runs[r].stage \in Executed
               PROVE  /\ OnBaseBranch(runs[r], runs[r].spec)
                      /\ runs[r].event = "workflow_dispatch" => runs[r].spec = runs[r].spec_path
                      /\ runs[r].event = "push" =>
                           /\ runs[r].spec \in ChangedIn(runs[r])
                           /\ Meant(runs[r]) \subseteq {runs[r].spec} \cup Overlooked(runs[r])
    BY DEF OnlyAskedFor
  <2> DEFINE run == runs[r]
  <2>1. /\ Settled(run) /\ run.spec \in Selectable(run) /\ OnBaseBranch(run, run.spec)
        /\ run.sha \in Commits /\ run.spec \in Files
    BY SelectsFiles DEF IInv, AllSettled, Settled, Chosen, Runs
  <2> HIDE DEF run
  <2>2. run.event = "workflow_dispatch" => run.spec = run.spec_path
    BY <2>1 DEF Selectable, resolve_spec_rel
  <2>3. ASSUME run.event = "push"
        PROVE  run.spec \in ChangedIn(run) /\ Meant(run) \subseteq {run.spec} \cup Overlooked(run)
    <3>1. list_changed_spec_paths(run) = {run.spec}
      BY <2>1, <2>3, SelectsTheOne
    <3>2. Meant(run) \subseteq {run.spec} \cup Overlooked(run)
      BY <2>1, <2>3, <3>1, MeantIsListed
    <3>3. CASE run.before = 0
      <4>1. run.spec \in Differ(Tree(commits[run.sha].parent), Tree(run.sha))
        BY <3>1, <3>3 DEF list_changed_spec_paths
      <4>2. run.sha \in Brought(run)
        BY <2>1, <2>3, <3>3 DEF Settled, Brought, IInv, History, Commits
      <4> QED
        BY <3>2, <4>1, <4>2 DEF ChangedIn
    <3>4. CASE run.before # 0
      <4>1. run.spec \in Differ(Tree(run.since), Tree(run.sha))
        BY <2>1, <2>3, <3>1, <3>4 DEF list_changed_spec_paths, AMCR, Settled
      <4> QED
        BY <3>2, <3>4, <4>1 DEF ChangedIn
    <3> QED
      BY <3>3, <3>4
  <2> QED
    BY <2>1, <2>2, <2>3 DEF run
<1> QED
  BY <1>1, IInvInvariant, PTL
=============================================================================

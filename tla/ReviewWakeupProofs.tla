------------------------- MODULE ReviewWakeupProofs -------------------------
(***************************************************************************)
(* Proofs about ReviewWakeup, for any number of commits, words of          *)
(* CodeRabbit, changes by people and workflow runs: that a verdict was     *)
(* CodeRabbit's last word at a moment between the two calls of the review  *)
(* that gave it, that its last word is missed only if a run failed or was  *)
(* stopped, and that a review judges by the Task Spec its preparation has  *)
(* found.                                                                  *)
(***************************************************************************)
EXTENDS ReviewWakeup, SequenceTheorems, WellFoundedInduction, TLAPS

-----------------------------------------------------------------------------
(* The last item of a timeline *)

\* A set of naturals that is not empty has a smallest one.
LEMMA Least ==
  ASSUME NEW T, T \subseteq Nat, T # {}
  PROVE  \E x \in T : \A y \in T : x <= y
<1> DEFINE R == OpToRel(<, Nat)
<1>1. IsWellFoundedOn(R, Nat)
  BY NatLessThanWellFounded
<1>2. \A x, y \in Nat : y < x => <<y, x>> \in R
  BY DEF OpToRel
<1> HIDE DEF R
<1>3. PICK x \in T : \A y \in T : ~(<<y, x>> \in R)
  BY <1>1, WFMin
<1>4. \A y \in T : x \in Nat /\ y \in Nat /\ ~(y < x)
  BY <1>2, <1>3
<1>5. \A y \in T : x <= y
  BY <1>4
<1> QED
  BY <1>5

\* One that is bounded has a largest.
LEMMA Largest ==
  ASSUME NEW n \in Nat, NEW T, T \subseteq 0..n, T # {}
  PROVE  \E x \in T : \A y \in T : y <= x
<1> DEFINE U == {n - x : x \in T}
<1>0. \A x \in T : x \in Nat /\ n - x \in Nat
  OBVIOUS
<1>1. U # {} /\ \A x \in T : n - x \in U
  OBVIOUS
<1>2. \A u \in U : \E x \in T : u = n - x
  OBVIOUS
<1> HIDE DEF U
<1>3. PICK u \in U : \A v \in U : u <= v
  <2>1. U \subseteq Nat
    BY <1>0, <1>2
  <2> QED
    BY <1>1, <2>1, Least
<1>4. PICK x \in T : u = n - x
  BY <1>2
<1>5. \A y \in T : n - x <= n - y
  BY <1>1, <1>3, <1>4
<1>6. \A y \in T : y <= x
  BY <1>0, <1>5
<1> QED
  BY <1>6

Items == [at : Nat, id : Nat, order : {0, 1}, kind : Kinds]

\* Items that differ in time, id or list have a last one.
LEMMA LastItem ==
  ASSUME NEW S, S \subseteq Items, S # {}, NEW n \in Nat,
         \A a \in S : a.at <= n /\ a.id <= n,
         \A a, b \in S : a.at = b.at /\ a.id = b.id /\ a.order = b.order => a = b
  PROVE  \E a \in S : \A b \in S : b = a \/ Precedes(b, a)
<1>0. \A a \in S : a.at \in 0..n /\ a.id \in 0..n /\ a.order \in {0, 1}
  BY DEF Items
<1> DEFINE ats == {a.at : a \in S}
<1>1. PICK t \in ats : \A y \in ats : y <= t
  <2>1. ats \subseteq 0..n /\ ats # {}
    BY <1>0
  <2> HIDE DEF ats
  <2> QED
    BY <2>1, Largest
<1> DEFINE S1 == {a \in S : a.at = t}
           ids == {a.id : a \in S1}
<1>2. PICK i \in ids : \A y \in ids : y <= i
  <2>1. ids \subseteq 0..n /\ ids # {}
    BY <1>0, <1>1
  <2> HIDE DEF ids
  <2> QED
    BY <2>1, Largest
<1> DEFINE S2 == {a \in S1 : a.id = i}
<1>3. S2 # {}
  BY <1>2
<1>4. PICK a \in S2 : \A b \in S2 : b.order <= a.order
  <2>1. CASE \E a \in S2 : a.order = 1
    <3>1. PICK a \in S2 : a.order = 1
      BY <2>1
    <3>2. \A b \in S2 : b.order <= a.order
      BY <1>0, <3>1
    <3> QED
      BY <3>2
  <2>2. CASE ~\E a \in S2 : a.order = 1
    <3>1. \A a \in S2 : a.order = 0
      BY <1>0, <2>2
    <3> QED
      BY <1>3, <3>1
  <2> QED
    BY <2>1, <2>2
<1>5. a \in S /\ a.at = t /\ a.id = i
  OBVIOUS
<1>6. ASSUME NEW b \in S
      PROVE  b = a \/ Precedes(b, a)
  <2>1. b.at <= t /\ b.at \in Nat /\ t \in Nat
    BY <1>0, <1>1, <1>5
  <2>2. CASE b.at < t
    BY <1>5, <2>2 DEF Precedes
  <2>3. CASE b.at = t
    <3>1. b \in S1 /\ b.id <= i /\ b.id \in Nat /\ i \in Nat
      BY <1>0, <1>2, <1>5, <2>3
    <3>2. CASE b.id < i
      BY <1>5, <2>3, <3>2 DEF Precedes
    <3>3. CASE b.id = i
      <4>1. b \in S2 /\ b.order <= a.order
        BY <1>4, <3>1, <3>3
      <4>2. b.order = a.order \/ b.order < a.order
        BY <1>0, <1>5, <4>1
      <4> QED
        BY <1>5, <2>3, <3>3, <4>2 DEF Precedes
    <3> QED
      BY <3>1, <3>2, <3>3
  <2> QED
    BY <2>1, <2>2, <2>3
<1> QED
  BY <1>5, <1>6

-----------------------------------------------------------------------------
(* The invariant *)

\* Check runs, and statuses, as GitHub numbers and stamps them.
CheckSet(cs) ==
  /\ cs \subseteq CheckRuns
  /\ \A c \in cs : c.id <= budget.entries /\ c.started <= MaxTime /\ c.completed <= MaxTime
  /\ \A c, d \in cs : c.id = d.id => c = d

StatusSet(ss) ==
  /\ ss \subseteq Statuses
  /\ \A s \in ss : s.id <= budget.entries /\ s.updated <= MaxTime
  /\ \A s, t \in ss : s.id = t.id => s = t

Numbered == CheckSet(checks) /\ StatusSet(statuses) /\ \A i \in DOMAIN runs : CheckSet(runs[i].seen)

\* What was said last of a commit is in its timeline, and nothing is later.
Latest ==
  \A h \in Heads :
    LET items == Timeline(checks, statuses, h)
    IN  /\ said[h].at <= now
        /\ \A a \in items : a.at <= said[h].at /\ (a.at = said[h].at => a.kind \in said[h].kinds)
        /\ IF said[h].at = 0 THEN "NONE" \in said[h].kinds
                             ELSE \E a \in items : a.at = said[h].at

\* Of the time t a review read the check runs at, as far as it matters: what is as late
\* as the last word was then has been said since, or was a last word then.
HeardSince(run, t) ==
  LET items == Timeline(run.seen, statuses, run.sha)
  IN  /\ \A a \in items : a.at >= t => a.kind \in run.possible
      /\ IF t = 0 THEN "NONE" \in run.possible ELSE \E a \in items : a.at >= t

Heard == \A i \in DOMAIN runs : Stands(i, "statuses") => \E t \in Nat : HeardSince(runs[i], t)

\* What a run that was let through has found: its commit has the version it prepared for.
Prepared ==
  \A i \in DOMAIN runs :
    runs[i].pc \in {"gated", "queued", "decided"} \cup Running =>
      /\ runs[i].sha <= head /\ runs[i].spec_path \in Paths
      /\ files[runs[i].sha][runs[i].spec_path] = runs[i].prepared
      /\ runs[i].pc \in {"checks", "statuses", "decided"} => runs[i].spec = runs[i].prepared

IInv == TypeOK /\ Numbered /\ Latest /\ Heard /\ Prepared /\ VerdictWasTrue

-----------------------------------------------------------------------------
(* What is read off a timeline *)

\* Words and items are of known kinds.
LEMMA Mapped ==
  /\ \A c : map_check_conclusion(c) \in Kinds
  /\ \A s, d : map_status_entry(s, d) \in Kinds
<1>1. \A c : map_check_conclusion(c) \in Kinds
  BY DEF map_check_conclusion, Kinds
<1>2. \A s, d : map_status_entry(s, d) \in Kinds
  BY DEF map_status_entry, Kinds
<1> QED
  BY <1>1, <1>2

\* The items of the entries of a commit.
LEMMA ItemsOf ==
  ASSUME NEW cs, NEW ss, NEW h
  PROVE  /\ \A c \in cs : Belongs(c, h) => CheckItem(c) \in Timeline(cs, ss, h)
         /\ \A s \in ss : Belongs(s, h) => StatusItem(s) \in Timeline(cs, ss, h)
         /\ \A a \in Timeline(cs, ss, h) :
              \/ \E c \in cs : Belongs(c, h) /\ a = CheckItem(c)
              \/ \E s \in ss : Belongs(s, h) /\ a = StatusItem(s)
<1> DEFINE C == {e \in cs : Belongs(e, h)}
           S == {e \in ss : Belongs(e, h)}
           CI == {CheckItem(c) : c \in C}
           SI == {StatusItem(s) : s \in S}
<1>1. Timeline(cs, ss, h) = CI \cup SI
  BY DEF Timeline
<1>2. /\ \A c \in C : CheckItem(c) \in CI
      /\ \A s \in S : StatusItem(s) \in SI
  OBVIOUS
<1>3. \A a \in CI : \E c \in C : a = CheckItem(c)
  OBVIOUS
<1>4. \A a \in SI : \E s \in S : a = StatusItem(s)
  OBVIOUS
<1>5. /\ \A c : c \in C <=> c \in cs /\ Belongs(c, h)
      /\ \A s : s \in S <=> s \in ss /\ Belongs(s, h)
  OBVIOUS
<1> HIDE DEF C, S, CI, SI
<1> QED
  BY <1>1, <1>2, <1>3, <1>4, <1>5

\* The fields of the items.
LEMMA ItemFields ==
  /\ \A c : /\ CheckItem(c).at = (IF c.completed # 0 THEN c.completed ELSE c.started)
            /\ CheckItem(c).id = c.id /\ CheckItem(c).order = 0
            /\ CheckItem(c).kind = (IF c.status = "completed"
                                    THEN map_check_conclusion(c.conclusion) ELSE "IN_PROGRESS")
  /\ \A s : /\ StatusItem(s).at = s.updated /\ StatusItem(s).id = s.id /\ StatusItem(s).order = 1
            /\ StatusItem(s).kind = map_status_entry(s.state, s.description)
BY DEF CheckItem, StatusItem

\* Numbered entries give items that differ and have a bound.
LEMMA TimelineTyped ==
  ASSUME NEW cs, NEW ss, NEW h, CheckSet(cs), StatusSet(ss), budget \in Budgets
  PROVE  /\ Timeline(cs, ss, h) \subseteq Items
         /\ \A a \in Timeline(cs, ss, h) : a.at <= MaxTime /\ a.id <= budget.entries
         /\ \A a, b \in Timeline(cs, ss, h) :
              a.at = b.at /\ a.id = b.id /\ a.order = b.order => a = b
<1> DEFINE T == Timeline(cs, ss, h)
<1>1. ASSUME NEW c \in cs
      PROVE  /\ CheckItem(c) \in Items
             /\ CheckItem(c).at <= MaxTime /\ CheckItem(c).id <= budget.entries
  <2>1. c.id \in Nat /\ c.started \in Nat /\ c.completed \in Nat
    BY DEF CheckSet, CheckRuns
  <2>2. "IN_PROGRESS" \in Kinds
    BY DEF Kinds
  <2>3. CheckItem(c).kind \in Kinds
    BY <2>2, Mapped, ItemFields
  <2>4. CheckItem(c).at \in Nat /\ CheckItem(c).at <= MaxTime /\ CheckItem(c).id <= budget.entries
    BY <2>1, ItemFields DEF CheckSet
  <2>5. CheckItem(c) \in Items
    BY <2>1, <2>3, <2>4, ItemFields DEF CheckItem, Items
  <2> QED
    BY <2>4, <2>5
<1>2. ASSUME NEW s \in ss
      PROVE  /\ StatusItem(s) \in Items
             /\ StatusItem(s).at <= MaxTime /\ StatusItem(s).id <= budget.entries
  <2>1. s.id \in Nat /\ s.updated \in Nat
    BY DEF StatusSet, Statuses
  <2>2. StatusItem(s).kind \in Kinds
    BY Mapped DEF StatusItem
  <2>3. StatusItem(s) \in Items
    BY <2>1, <2>2, ItemFields DEF StatusItem, Items
  <2> QED
    BY <2>3, ItemFields DEF StatusSet
<1>3. \A c, d \in cs : CheckItem(c).id = CheckItem(d).id => c = d
  BY ItemFields DEF CheckSet
<1>4. \A s, t \in ss : StatusItem(s).id = StatusItem(t).id => s = t
  BY ItemFields DEF StatusSet
<1>5. \A c \in cs, s \in ss : CheckItem(c).order # StatusItem(s).order
  BY DEF CheckItem, StatusItem
<1>6. \A a \in T : (\E c \in cs : a = CheckItem(c)) \/ (\E s \in ss : a = StatusItem(s))
  BY ItemsOf
<1> HIDE DEF T
<1>7. T \subseteq Items /\ \A a \in T : a.at <= MaxTime /\ a.id <= budget.entries
  BY <1>1, <1>2, <1>6
<1>8. \A a, b \in T : a.at = b.at /\ a.id = b.id /\ a.order = b.order => a = b
  BY <1>3, <1>4, <1>5, <1>6
<1> QED
  BY <1>7, <1>8 DEF T

\* The resolution is what an item says that no other one is later than.
LEMMA Resolves ==
  ASSUME NEW cs, NEW ss, NEW h, CheckSet(cs), StatusSet(ss), budget \in Budgets
  PROVE  LET items == Timeline(cs, ss, h)
             kind  == resolve_coderabbit_terminal(cs, ss, h)
         IN  /\ kind \in Kinds
             /\ items = {} => kind = "NONE"
             /\ items # {} => \E a \in items : kind = a.kind /\ \A b \in items : b.at <= a.at
<1> DEFINE items == Timeline(cs, ss, h)
           kind  == resolve_coderabbit_terminal(cs, ss, h)
<1>1. CASE items = {}
  <2>1. kind = "NONE"
    BY <1>1 DEF resolve_coderabbit_terminal
  <2> QED
    BY <1>1, <2>1 DEF Kinds
<1>2. CASE items # {}
  <2> DEFINE Last(a) == \A b \in items : b = a \/ Precedes(b, a)
             a == CHOOSE a \in items : Last(a)
  <2>0. MaxTime \in Nat /\ budget.entries \in Nat
    BY BoundsAssumption
  <2> DEFINE n == MaxTime + budget.entries
  <2>1. n \in Nat /\ \A x \in Nat : x <= MaxTime \/ x <= budget.entries => x <= n
    BY <2>0
  <2>2. items \subseteq Items /\ \A x \in items : x.at \in Nat /\ x.id \in Nat
    BY TimelineTyped DEF Items
  <2>3. \A x \in items : x.at <= n /\ x.id <= n
    BY <2>1, <2>2, TimelineTyped
  <2>4. \A x, y \in items : x.at = y.at /\ x.id = y.id /\ x.order = y.order => x = y
    BY TimelineTyped
  <2> HIDE DEF n
  <2>5. \E x \in items : Last(x)
    <3> HIDE DEF items
    <3> QED
      BY <1>2, <2>1, <2>2, <2>3, <2>4, LastItem
  <2>6. a \in items /\ Last(a)
    BY <2>5
  <2>7. kind = a.kind
    BY <1>2 DEF resolve_coderabbit_terminal
  <2>8. \A b \in items : b.at <= a.at
    <3> HIDE DEF a, items
    <3> SUFFICES ASSUME NEW b \in items
                 PROVE  b.at <= a.at
      OBVIOUS
    <3>1. a.at \in Nat /\ b.at \in Nat /\ (b = a \/ Precedes(b, a))
      BY <2>2, <2>6
    <3> QED
      BY <3>1 DEF Precedes
  <2>9. a.kind \in Kinds
    BY <2>2, <2>6 DEF Items
  <2> QED
    BY <1>2, <2>6, <2>7, <2>8, <2>9
<1> QED
  BY <1>1, <1>2

-----------------------------------------------------------------------------
(* What a step does to the runs *)

\* A run that has just been woken.
LEMMA Woken ==
  ASSUME NEW h \in Heads, NEW ours \in BOOLEAN, NEW n \in 0..2
  PROVE  NewRun(h, ours, n) \in RunStates
BY DEF NewRun, RunStates, Waiting, Kinds

\* A word of CodeRabbit, or of another app, is overheard by the reviews between their
\* calls, and may start a run.
LEMMA SaysRuns ==
  ASSUME runs \in Seq(RunStates), NEW h \in Heads, NEW ours \in BOOLEAN, NEW kind \in Kinds,
         NEW woken, woken = <<>> \/ \E o \in BOOLEAN, n \in 0..2 : woken = <<NewRun(h, o, n)>>,
         Says(h, ours, kind, woken)
  PROVE  /\ runs' \in Seq(RunStates) /\ DOMAIN runs \subseteq DOMAIN runs'
         /\ \A i \in DOMAIN runs :
              runs'[i] = IF ours /\ runs[i].pc = "statuses" /\ runs[i].sha = h
                         THEN [runs[i] EXCEPT !.possible = @ \cup {kind}] ELSE runs[i]
         /\ \A i \in DOMAIN runs' \ DOMAIN runs : runs'[i].pc = "prepare" /\ runs'[i].seen = {}
<1> DEFINE heard == IF ours THEN Overheard(h, kind) ELSE runs
           Next1(i) == IF ours /\ runs[i].pc = "statuses" /\ runs[i].sha = h
                       THEN [runs[i] EXCEPT !.possible = @ \cup {kind}] ELSE runs[i]
<1>1. Len(runs) \in Nat /\ DOMAIN runs = 1..Len(runs) /\ \A i \in DOMAIN runs : runs[i] \in RunStates
  BY ElementOfSeq, LenProperties
<1>2. ASSUME NEW r \in RunStates
      PROVE  [r EXCEPT !.possible = @ \cup {kind}] \in RunStates
  BY DEF RunStates
<1>3. heard = [i \in 1..Len(runs) |-> Next1(i)]
  <2>1. runs = [i \in 1..Len(runs) |-> runs[i]]
    BY <1>1, LenProperties
  <2> QED
    BY <1>1, <2>1 DEF Overheard
<1>4. \A i \in 1..Len(runs) : Next1(i) \in RunStates
  BY <1>1, <1>2
<1> HIDE DEF Next1, heard
<1>5. heard \in Seq(RunStates) /\ Len(heard) = Len(runs) /\ DOMAIN heard = DOMAIN runs
  <2>1. heard \in [1..Len(runs) -> RunStates]
    BY <1>3, <1>4
  <2>2. heard \in Seq(RunStates)
    BY <1>1, <2>1, SeqDef
  <2>3. DOMAIN heard = 1..Len(runs)
    BY <2>1
  <2> QED
    BY <1>1, <2>2, <2>3, LenProperties
<1>6. runs' = heard \o woken
  BY DEF Says, heard
<1>7. \A i \in DOMAIN runs : heard[i] = Next1(i)
  BY <1>1, <1>3
<1>8. CASE woken = <<>>
  <2>1. runs' = heard
    BY <1>5, <1>6, <1>8, ConcatEmptySeq
  <2> QED
    BY <1>5, <1>7, <2>1 DEF Next1
<1>9. ASSUME NEW o \in BOOLEAN, NEW n \in 0..2, woken = <<NewRun(h, o, n)>>
      PROVE  /\ runs' \in Seq(RunStates) /\ DOMAIN runs \subseteq DOMAIN runs'
             /\ \A i \in DOMAIN runs : runs'[i] = Next1(i)
             /\ \A i \in DOMAIN runs' \ DOMAIN runs : runs'[i].pc = "prepare" /\ runs'[i].seen = {}
  <2> DEFINE r == NewRun(h, o, n)
  <2>1. r \in RunStates /\ r.pc = "prepare" /\ r.seen = {}
    BY Woken DEF NewRun
  <2> HIDE DEF r
  <2>2. runs' = Append(heard, r)
    BY <1>5, <1>6, <1>9, <2>1, AppendIsConcat DEF r
  <2>3. /\ runs' \in Seq(RunStates) /\ Len(runs') = Len(runs) + 1
        /\ \A i \in 1..Len(runs) : runs'[i] = heard[i]
        /\ runs'[Len(runs) + 1] = r
    BY <1>5, <2>1, <2>2, AppendProperties
  <2>4. DOMAIN runs' = 1..(Len(runs) + 1)
    BY <2>3, LenProperties
  <2> QED
    BY <1>1, <1>7, <2>1, <2>3, <2>4
<1> QED
  BY <1>8, <1>9 DEF Next1

\* A job ends, goes on in the group, or carries out one of its calls.
Ends(i, r) ==
  r = [runs[i] EXCEPT !.pc = r.pc] /\ r.pc \in Finished \ {"decided"}

Gated(i, r) ==
  /\ runs[i].pc = "prepare" /\ runs[i].sha = head
  /\ load_spec_from_marker_at_ref(pull.marker, files[head])
  /\ r = [runs[i] EXCEPT !.pc = "gated", !.spec_path = pull.marker.path,
                         !.prepared = pull.marker.version]

Waits(i, r) ==
  /\ runs[i].pc = "gated" /\ r = [runs[i] EXCEPT !.pc = "queued"]
  /\ \A k \in DOMAIN runs \ {i} : runs'[k].pc # "queued"

Starts(i, r) ==
  /\ runs[i].pc \in {"gated", "queued"} /\ Free
  /\ r = [runs[i] EXCEPT !.pc = "fetch"]

Loads(i, r) ==
  /\ runs[i].pc = "fetch" /\ _load_review_spec(runs[i])
  /\ r = [runs[i] EXCEPT !.pc = "checks", !.spec = pull.marker.version]

Reads(i, r) ==
  /\ runs[i].pc = "checks"
  /\ r = [runs[i] EXCEPT !.pc = "statuses", !.seen = {c \in checks : c.sha = runs[i].sha},
                         !.possible = said[runs[i].sha].kinds]

Decides(i, r) ==
  /\ runs[i].pc = "statuses"
  /\ r = [runs[i] EXCEPT !.pc = "decided", !.seen = {},
                         !.kind = resolve_coderabbit_terminal(runs[i].seen, statuses, runs[i].sha)]

Turn(i, r) ==
  \/ Ends(i, r) \/ Gated(i, r) \/ Waits(i, r) \/ Starts(i, r) \/ Loads(i, r) \/ Reads(i, r) \/ Decides(i, r)

\* One run takes a turn; another may lose its place.
Moves(i) ==
  /\ DOMAIN runs' = DOMAIN runs
  /\ Turn(i, runs'[i])
  /\ \A k \in DOMAIN runs \ {i} :
       \/ runs'[k] = runs[k]
       \/ runs[k].pc = "queued" /\ runs'[k] = [runs[k] EXCEPT !.pc = "cancelled"]

LEMMA StepMoves ==
  ASSUME runs \in Seq(RunStates), NEW i \in DOMAIN runs, StepOf(i)
  PROVE  Moves(i) /\ PullUnchanged
<1>1. \A k \in DOMAIN runs : runs[k] \in RunStates
  BY ElementOfSeq, LenProperties
<1>2. ASSUME NEW r, runs' = [runs EXCEPT ![i] = r], Turn(i, r)
      PROVE  Moves(i)
  <2>1. runs'[i] = r /\ DOMAIN runs' = DOMAIN runs /\ \A k \in DOMAIN runs \ {i} : runs'[k] = runs[k]
    BY <1>2
  <2> QED
    BY <1>2, <2>1 DEF Moves
<1>3. ASSUME NEW stage, Enters(i, stage), stage \in Finished \ {"decided"}
      PROVE  Moves(i)
  <2> DEFINE r == [runs[i] EXCEPT !.pc = stage]
  <2>1. runs' = [runs EXCEPT ![i] = r]
    BY <1>3 DEF Enters
  <2>2. r.pc = stage
    BY <1>1 DEF RunStates
  <2>3. Turn(i, r)
    BY <1>3, <2>2 DEF Turn, Ends
  <2> QED
    BY <1>2, <2>1, <2>3
<1>4. CASE Prepare(i)
  <2>0. PullUnchanged
    BY <1>4 DEF Prepare, WorldUnchanged
  <2>1. \A stage \in {"skipped", "ignored", "failed"} : stage \in Finished \ {"decided"}
    BY DEF Finished
  <2>2. CASE \E stage \in {"skipped", "ignored", "failed"} : Enters(i, stage)
    BY <1>3, <2>0, <2>1, <2>2
  <2>3. CASE ~\E stage \in {"skipped", "ignored", "failed"} : Enters(i, stage)
    <3> DEFINE r == [runs[i] EXCEPT !.pc = "gated", !.spec_path = pull.marker.path,
                                    !.prepared = pull.marker.version]
    <3>1. runs' = [runs EXCEPT ![i] = r]
      BY <1>4, <2>3 DEF Prepare
    <3>2. Gated(i, r)
      BY <1>4, <2>3 DEF Prepare, Gated, Stands
    <3>3. Turn(i, r)
      BY <3>2 DEF Turn
    <3> HIDE DEF r
    <3> QED
      BY <1>2, <2>0, <3>1, <3>3
  <2> QED
    BY <2>2, <2>3
<1>5. CASE PrepareFails(i)
  BY <1>3, <1>5 DEF PrepareFails, Finished
<1>6. CASE Enqueue(i) /\ Free
  <2>1. runs' = [runs EXCEPT ![i] = [runs[i] EXCEPT !.pc = "fetch"]] /\ runs[i].pc = "gated"
    BY <1>6 DEF Enqueue, Enters, Stands
  <2> QED
    BY <1>2, <1>6, <2>1 DEF Turn, Starts, Enqueue, WorldUnchanged
<1>7. CASE Enqueue(i) /\ ~Free
  <2>1. /\ runs' = [k \in DOMAIN runs |->
                      IF k = i THEN [runs[k] EXCEPT !.pc = "queued"]
                      ELSE IF runs[k].pc = "queued" THEN [runs[k] EXCEPT !.pc = "cancelled"]
                      ELSE runs[k]]
        /\ runs[i].pc = "gated" /\ PullUnchanged
    BY <1>7 DEF Enqueue, Stands, Cancels, WorldUnchanged
  <2>2. /\ DOMAIN runs' = DOMAIN runs /\ runs'[i] = [runs[i] EXCEPT !.pc = "queued"]
        /\ \A k \in DOMAIN runs \ {i} :
             runs'[k] = IF runs[k].pc = "queued" THEN [runs[k] EXCEPT !.pc = "cancelled"] ELSE runs[k]
    BY <2>1
  <2>3. \A k \in DOMAIN runs \ {i} : runs'[k].pc # "queued"
    BY <1>1, <2>2 DEF RunStates
  <2>4. Turn(i, runs'[i])
    BY <2>1, <2>2, <2>3 DEF Turn, Waits
  <2> QED
    BY <2>1, <2>2, <2>4 DEF Moves
<1>8. CASE Dequeue(i)
  <2>1. runs' = [runs EXCEPT ![i] = [runs[i] EXCEPT !.pc = "fetch"]] /\ runs[i].pc = "queued" /\ Free
    BY <1>8 DEF Dequeue, Enters, Stands
  <2> QED
    BY <1>2, <1>8, <2>1 DEF Turn, Starts, Dequeue, WorldUnchanged
<1>9. CASE FetchPull(i)
  <2>0. PullUnchanged /\ runs[i].pc = "fetch"
    BY <1>9 DEF FetchPull, WorldUnchanged, Stands
  <2>1. CASE Enters(i, "mismatch") \/ Enters(i, "refused")
    BY <1>3, <2>0, <2>1 DEF Finished
  <2>2. CASE ~(Enters(i, "mismatch") \/ Enters(i, "refused"))
    <3> DEFINE r == [runs[i] EXCEPT !.pc = "checks", !.spec = pull.marker.version]
    <3>1. runs' = [runs EXCEPT ![i] = r] /\ _load_review_spec(runs[i])
      BY <1>9, <2>2 DEF FetchPull
    <3>2. Turn(i, r)
      BY <2>0, <3>1 DEF Turn, Loads
    <3> HIDE DEF r
    <3> QED
      BY <1>2, <2>0, <3>1, <3>2
  <2> QED
    BY <2>1, <2>2
<1>10. CASE CollectChecks(i)
  BY <1>2, <1>10 DEF CollectChecks, list_check_runs_for_ref, Turn, Reads, WorldUnchanged, Stands
<1>11. CASE CollectStatuses(i)
  BY <1>2, <1>11 DEF CollectStatuses, Turn, Decides, WorldUnchanged, Stands
<1> QED
  BY <1>4, <1>5, <1>6, <1>7, <1>8, <1>9, <1>10, <1>11 DEF StepOf

-----------------------------------------------------------------------------
(* Types, and the concurrency group *)

LEMMA SequenceOf ==
  ASSUME NEW S, NEW s \in Seq(S)
  PROVE  Len(s) \in Nat /\ DOMAIN s = 1..Len(s) /\ \A i \in DOMAIN s : s[i] \in S
BY ElementOfSeq, LenProperties

\* A function on the same places is a sequence too.
LEMMA SameLength ==
  ASSUME NEW S, NEW s \in Seq(S), NEW t, t = [i \in DOMAIN s |-> t[i]], \A i \in DOMAIN s : t[i] \in S
  PROVE  t \in Seq(S)
<1>1. Len(s) \in Nat /\ DOMAIN s = 1..Len(s)
  BY LenProperties
<1>2. t \in [1..Len(s) -> S]
  BY <1>1
<1> QED
  BY <1>1, <1>2, SeqDef

LEMMA MarkerTyped ==
  ASSUME pull \in Pulls
  PROVE  pull.marker.version \in {0} \cup Versions
<1>1. pull.marker \in Markers
  BY DEF Pulls
<1>2. CASE pull.marker = NoMarker
  <2>1. NoMarker.version = 0
    BY DEF NoMarker
  <2> QED
    BY <1>2, <2>1
<1>3. CASE pull.marker \in [path : Paths \cup {"./p"}, version : {0} \cup Versions]
  BY <1>3
<1> QED
  BY <1>1, <1>2, <1>3 DEF Markers

LEMMA RunsTyped ==
  ASSUME TypeOK
  PROVE  \A i \in DOMAIN runs : runs[i] \in RunStates /\ runs[i].sha \in Heads
<1>1. \A i \in DOMAIN runs : runs[i] \in RunStates
  BY SequenceOf DEF TypeOK
<1> QED
  BY <1>1 DEF RunStates

\* What a turn makes of a run is one.
LEMMA TurnTyped ==
  ASSUME TypeOK, Numbered, NEW i \in DOMAIN runs, NEW r, Turn(i, r)
  PROVE  r \in RunStates /\ r.sha = runs[i].sha
<1>1. runs[i] \in RunStates /\ runs[i].sha \in Heads
  BY RunsTyped
<1>2. CASE Ends(i, r)
  BY <1>1, <1>2 DEF Ends, RunStates
<1>3. CASE Gated(i, r)
  <2>1. pull.marker.path \in Paths /\ pull.marker.version \in {0} \cup Versions
    BY <1>3, MarkerTyped DEF Gated, load_spec_from_marker_at_ref, TypeOK
  <2>2. r.pc = "gated" /\ "gated" \in Waiting \cup Running \cup Finished
    BY <1>1, <1>3 DEF Gated, RunStates, Waiting
  <2> QED
    BY <1>1, <1>3, <2>1, <2>2 DEF Gated, RunStates
<1>4. CASE Waits(i, r)
  BY <1>1, <1>4 DEF Waits, RunStates, Waiting
<1>5. CASE Starts(i, r)
  BY <1>1, <1>5 DEF Starts, RunStates, Running
<1>6. CASE Loads(i, r)
  <2>1. pull.marker.version \in {0} \cup Versions
    BY MarkerTyped DEF TypeOK
  <2> QED
    BY <1>1, <1>6, <2>1 DEF Loads, RunStates, Running
<1>7. CASE Reads(i, r)
  <2>1. {c \in checks : c.sha = runs[i].sha} \in SUBSET CheckRuns
    BY DEF TypeOK
  <2>2. said[runs[i].sha].kinds \in SUBSET Kinds
    BY <1>1 DEF TypeOK
  <2> QED
    BY <1>1, <1>7, <2>1, <2>2 DEF Reads, RunStates, Running
<1>8. CASE Decides(i, r)
  <2>1. resolve_coderabbit_terminal(runs[i].seen, statuses, runs[i].sha) \in Kinds
    BY Resolves DEF TypeOK, Numbered
  <2> QED
    BY <1>1, <1>8, <2>1 DEF Decides, RunStates, Finished
<1> QED
  BY <1>2, <1>3, <1>4, <1>5, <1>6, <1>7, <1>8 DEF Turn

\* Where a run stands before and after its turn.
LEMMA TurnStages ==
  ASSUME TypeOK, NEW i \in DOMAIN runs, NEW r, Turn(i, r)
  PROVE  /\ r.pc \in Running => runs[i].pc \in Running \/ Free
         /\ r.pc = "queued" => Waits(i, r)
<1>1. runs[i] \in RunStates
  BY SequenceOf DEF TypeOK
<1>2. CASE Ends(i, r) \/ Gated(i, r) \/ Decides(i, r)
  <2>1. r.pc \in (Finished \ {"decided"}) \cup {"gated", "decided"}
    BY <1>1, <1>2 DEF Ends, Gated, Decides, RunStates
  <2> QED
    BY <2>1 DEF Finished, Running
<1>3. CASE Waits(i, r)
  BY <1>1, <1>3 DEF Waits, RunStates, Running
<1>4. CASE Starts(i, r)
  BY <1>1, <1>4 DEF Starts, RunStates
<1>5. CASE Loads(i, r) \/ Reads(i, r)
  BY <1>1, <1>5 DEF Loads, Reads, RunStates, Running
<1> QED
  BY <1>2, <1>3, <1>4, <1>5 DEF Turn

\* One review at most runs, and one waits.
LEMMA GroupKept ==
  ASSUME TypeOK, Numbered, NEW i \in DOMAIN runs, Moves(i)
  PROVE  /\ \A k \in DOMAIN runs : runs'[k] \in RunStates /\ runs'[k].sha = runs[k].sha
         /\ \A k, l \in DOMAIN runs' : runs'[k].pc \in Running /\ runs'[l].pc \in Running => k = l
         /\ \A k, l \in DOMAIN runs' : runs'[k].pc = "queued" /\ runs'[l].pc = "queued" => k = l
<1>0. \A k \in DOMAIN runs : runs[k] \in RunStates
  BY SequenceOf DEF TypeOK
<1>1. /\ DOMAIN runs' = DOMAIN runs /\ Turn(i, runs'[i])
      /\ \A k \in DOMAIN runs \ {i} :
           \/ runs'[k] = runs[k]
           \/ runs[k].pc = "queued" /\ runs'[k] = [runs[k] EXCEPT !.pc = "cancelled"]
  BY DEF Moves
<1>2. \A k \in DOMAIN runs \ {i} :
        /\ runs'[k] \in RunStates /\ runs'[k].sha = runs[k].sha
        /\ runs'[k].pc = runs[k].pc \/ runs'[k].pc = "cancelled"
  <2> SUFFICES ASSUME NEW k \in DOMAIN runs \ {i}
               PROVE  /\ runs'[k] \in RunStates /\ runs'[k].sha = runs[k].sha
                      /\ runs'[k].pc = runs[k].pc \/ runs'[k].pc = "cancelled"
    OBVIOUS
  <2>1. runs[k] \in RunStates
    BY <1>0
  <2>2. CASE runs'[k] = [runs[k] EXCEPT !.pc = "cancelled"]
    BY <2>1, <2>2 DEF RunStates, Finished
  <2> QED
    BY <1>1, <2>1, <2>2
<1>3. "cancelled" \notin Running /\ "queued" \notin Running
  BY DEF Running
<1>4. /\ runs'[i].pc \in Running => runs[i].pc \in Running \/ Free
      /\ runs'[i].pc = "queued" => \A k \in DOMAIN runs \ {i} : runs'[k].pc # "queued"
  BY <1>1, TurnStages DEF Waits
<1>5. /\ \A k, l \in DOMAIN runs : runs[k].pc \in Running /\ runs[l].pc \in Running => k = l
      /\ \A k, l \in DOMAIN runs : runs[k].pc = "queued" /\ runs[l].pc = "queued" => k = l
  BY DEF TypeOK
<1>6. \A k \in DOMAIN runs \ {i} :
        /\ runs'[k].pc \in Running => runs[k].pc \in Running
        /\ runs'[k].pc = "queued" => runs[k].pc = "queued"
  BY <1>2, <1>3
<1>7. runs'[i].pc \in Running => \A k \in DOMAIN runs \ {i} : runs'[k].pc \notin Running
  BY <1>4, <1>5, <1>6 DEF Free
<1>8. runs'[i] \in RunStates /\ runs'[i].sha = runs[i].sha
  BY <1>1, TurnTyped
<1>9. \A k, l \in DOMAIN runs : runs'[k].pc \in Running /\ runs'[l].pc \in Running => k = l
  BY <1>5, <1>6, <1>7
<1>10. \A k, l \in DOMAIN runs : runs'[k].pc = "queued" /\ runs'[l].pc = "queued" => k = l
  BY <1>4, <1>5, <1>6
<1> QED
  BY <1>1, <1>2, <1>8, <1>9, <1>10

\* The steps of the runs keep the types.
LEMMA TypedMoves ==
  ASSUME TypeOK, Numbered, NEW i \in DOMAIN runs, StepOf(i)
  PROVE  TypeOK'
<1>1. Moves(i) /\ PullUnchanged
  BY StepMoves DEF TypeOK
<1>2. runs' \in Seq(RunStates)
  <2>1. /\ \A k \in DOMAIN runs : runs'[k] \in RunStates
        /\ DOMAIN runs' = DOMAIN runs
    BY <1>1, GroupKept DEF Moves
  <2>2. runs' = [k \in DOMAIN runs |-> runs'[k]]
    BY SequenceOf DEF StepOf, Prepare, PrepareFails, Enqueue, Dequeue, FetchPull, CollectChecks,
                      list_check_runs_for_ref, CollectStatuses, Enters, TypeOK
  <2> QED
    BY <2>1, <2>2, SameLength DEF TypeOK
<1>3. verdict' \in [Heads -> Kinds]
  <2>1. CASE CollectStatuses(i)
    <3>1. runs[i].sha \in Heads
      BY RunsTyped
    <3>2. resolve_coderabbit_terminal(runs[i].seen, statuses, runs[i].sha) \in Kinds
      BY Resolves DEF TypeOK, Numbered
    <3> QED
      BY <2>1, <3>1, <3>2 DEF CollectStatuses, TypeOK
  <2>2. CASE ~CollectStatuses(i)
    <3>1. verdict' = verdict
      BY <2>2 DEF StepOf, Prepare, PrepareFails, Enqueue, Dequeue, FetchPull, CollectChecks
    <3> QED
      BY <3>1 DEF TypeOK
  <2> QED
    BY <2>1, <2>2
<1>4. touches' \in 0..budget.touches
  <2>1. touches' = touches \/ Touch
    BY DEF StepOf, Prepare, PrepareFails, Enqueue, Dequeue, FetchPull, CollectChecks,
           CollectStatuses, WorldUnchanged
  <2>2. budget.touches \in Nat
    BY BoundsAssumption DEF TypeOK
  <2> QED
    BY <2>1, <2>2 DEF Touch, TypeOK
<1>5. /\ \A k, l \in DOMAIN runs' : runs'[k].pc \in Running /\ runs'[l].pc \in Running => k = l
      /\ \A k, l \in DOMAIN runs' : runs'[k].pc = "queued" /\ runs'[l].pc = "queued" => k = l
  BY <1>1, GroupKept
<1> QED
  BY <1>1, <1>2, <1>3, <1>4, <1>5 DEF TypeOK, PullUnchanged

-----------------------------------------------------------------------------
(* Words of CodeRabbit *)

\* What a word adds to the timelines: one item of this second, if it is CodeRabbit's.
Word(h, ours, kind) ==
  /\ h \in Heads /\ ours \in BOOLEAN /\ kind \in Kinds
  /\ \E woken : /\ woken = <<>> \/ \E o \in BOOLEAN, n \in 0..2 : woken = <<NewRun(h, o, n)>>
                /\ Says(h, ours, kind, woken)
  /\ CheckSet(checks)' /\ StatusSet(statuses)'
  /\ \A g \in Heads :
       ~(ours /\ g = h) => Timeline(checks', statuses', g) = Timeline(checks, statuses, g)
  /\ ours => \E new : /\ new.at = now /\ new.kind = kind
                      /\ new \in Timeline(checks', statuses', h)
                      /\ \A a \in Timeline(checks', statuses', h) :
                           a = new \/ a \in Timeline(checks, statuses, h)
  /\ statuses \subseteq statuses'
  /\ \A s \in statuses' \ statuses : s.sha = h /\ s.ours = ours /\ StatusItem(s).kind = kind

\* Two sets with the same entries of a commit give the same timeline.
LEMMA SameTimeline ==
  ASSUME NEW cs, NEW ss, NEW ct, NEW st, NEW h,
         \A c : Belongs(c, h) => (c \in cs <=> c \in ct),
         \A s : Belongs(s, h) => (s \in ss <=> s \in st)
  PROVE  Timeline(cs, ss, h) = Timeline(ct, st, h)
<1>1. {e \in cs : Belongs(e, h)} = {e \in ct : Belongs(e, h)}
  OBVIOUS
<1>2. {e \in ss : Belongs(e, h)} = {e \in st : Belongs(e, h)}
  OBVIOUS
<1> QED
  BY <1>1, <1>2 DEF Timeline

LEMMA EntryTypes ==
  /\ \A c \in CheckRuns : c.id \in Nat /\ c.sha \in Heads /\ c.ours \in BOOLEAN
  /\ \A s \in Statuses : s.id \in Nat /\ s.sha \in Heads /\ s.ours \in BOOLEAN
BY DEF CheckRuns, Statuses

LEMMA NamedTyped ==
  ASSUME NEW h
  PROVE  Named(h) \in 0..2
BY DEF Named

LEMMA BeginIsWord ==
  ASSUME TypeOK, Numbered, NEW h \in Heads, NEW ours \in BOOLEAN, NEW id \in 1..budget.entries,
         BeginCheck(h, ours, id)
  PROVE  Word(h, ours, "IN_PROGRESS")
<1> DEFINE c == [ id |-> id, sha |-> h, ours |-> ours, status |-> "in_progress", conclusion |-> "",
                  started |-> now, completed |-> 0 ]
<1>0. /\ now \in Nat /\ now <= MaxTime /\ budget.entries \in Nat /\ id \in Nat /\ id <= budget.entries
      /\ MaxTime \in Nat
  BY BoundsAssumption DEF TypeOK
<1>1. /\ c.id = id /\ c.sha = h /\ c.ours = ours /\ c.started = now /\ c.completed = 0
      /\ CheckItem(c).at = now /\ CheckItem(c).kind = "IN_PROGRESS"
  BY DEF CheckItem
<1>2. c \in CheckRuns
  BY <1>0 DEF CheckRuns
<1>3. checks' = checks \cup {c} /\ statuses' = statuses /\ Says(h, ours, "IN_PROGRESS", <<>>)
      /\ budget' = budget /\ \A e \in checks : e.id < id
  BY DEF BeginCheck, Says, Fresh
<1> HIDE DEF c
<1>4. CheckSet(checks)'
  <2>1. \A e \in checks' : e \in CheckRuns /\ e.id <= budget.entries /\ e.started <= MaxTime /\ e.completed <= MaxTime
    BY <1>0, <1>1, <1>2, <1>3 DEF Numbered, CheckSet
  <2>2. \A e \in checks : e.id # id
    <3> SUFFICES ASSUME NEW e \in checks
                 PROVE  e.id # id
      OBVIOUS
    <3>1. e.id \in Nat /\ e.id < id
      BY <1>3, EntryTypes DEF TypeOK
    <3> QED
      BY <1>0, <3>1
  <2>3. \A d, e \in checks' : d.id = e.id => d = e
    BY <1>1, <1>3, <2>2 DEF Numbered, CheckSet
  <2> QED
    BY <1>3, <2>1, <2>3 DEF CheckSet
<1>5. StatusSet(statuses)'
  BY <1>3 DEF Numbered, StatusSet
<1>6. ASSUME NEW g \in Heads, ~(ours /\ g = h)
      PROVE  Timeline(checks', statuses', g) = Timeline(checks, statuses, g)
  <2>1. ~Belongs(c, g)
    BY <1>1, <1>6 DEF Belongs
  <2> QED
    BY <1>3, <2>1, SameTimeline
<1>7. ASSUME ours
      PROVE  /\ CheckItem(c) \in Timeline(checks', statuses', h)
             /\ \A a \in Timeline(checks', statuses', h) :
                  a = CheckItem(c) \/ a \in Timeline(checks, statuses, h)
  <2>1. Belongs(c, h)
    BY <1>1, <1>7 DEF Belongs
  <2> QED
    BY <1>3, <2>1, ItemsOf
<1>8. "IN_PROGRESS" \in Kinds
  BY DEF Kinds
<1> QED
  BY <1>1, <1>3, <1>4, <1>5, <1>6, <1>7, <1>8 DEF Word

LEMMA FinishIsWord ==
  ASSUME TypeOK, Numbered, NEW c \in checks, NEW conclusion \in Conclusions,
         FinishCheck(c, conclusion)
  PROVE  Word(c.sha, c.ours, map_check_conclusion(conclusion))
<1> DEFINE d == [c EXCEPT !.status = "completed", !.conclusion = conclusion, !.completed = now]
           kind == map_check_conclusion(conclusion)
           h == c.sha
<1>0. /\ now \in Nat /\ now # 0 /\ now <= MaxTime /\ MaxTime \in Nat
      /\ c \in CheckRuns /\ h \in Heads /\ c.ours \in BOOLEAN
  <2>1. now \in Nat /\ now # 0 /\ now <= MaxTime /\ MaxTime \in Nat
    BY BoundsAssumption DEF TypeOK
  <2>2. c \in CheckRuns
    BY DEF TypeOK
  <2> QED
    BY <2>1, <2>2, EntryTypes
<1>1. /\ d.id = c.id /\ d.sha = h /\ d.ours = c.ours /\ d.started = c.started
      /\ d.completed = now /\ d.status = "completed" /\ d.conclusion = conclusion
  BY <1>0 DEF CheckRuns
<1>2. d \in CheckRuns
  BY <1>0, WordsAssumption DEF CheckRuns
<1>3. /\ checks' = (checks \ {c}) \cup {d} /\ statuses' = statuses /\ budget' = budget
      /\ Says(h, c.ours, kind, <<NewRun(h, c.ours, Named(h))>>)
  BY DEF FinishCheck, Says, CompletedCheckWakes
<1> HIDE DEF d
<1>4. CheckItem(d).at = now /\ CheckItem(d).kind = kind
  BY <1>0, <1>1 DEF CheckItem
<1> HIDE DEF h, kind
<1>5. CheckSet(checks)'
  <2>1. \A e \in checks' : e \in CheckRuns /\ e.id <= budget.entries /\ e.started <= MaxTime /\ e.completed <= MaxTime
    BY <1>0, <1>1, <1>2, <1>3 DEF Numbered, CheckSet
  <2>2. \A e, f \in checks' : e.id = f.id => e = f
    BY <1>1, <1>3 DEF Numbered, CheckSet
  <2> QED
    BY <1>3, <2>1, <2>2 DEF CheckSet
<1>6. StatusSet(statuses)'
  BY <1>3 DEF Numbered, StatusSet
<1>7. ASSUME NEW g \in Heads, ~(c.ours /\ g = h)
      PROVE  Timeline(checks', statuses', g) = Timeline(checks, statuses, g)
  <2>1. ~Belongs(c, g) /\ ~Belongs(d, g)
    BY <1>1, <1>7 DEF Belongs, h
  <2> QED
    BY <1>3, <2>1, SameTimeline
<1>8. ASSUME c.ours
      PROVE  /\ CheckItem(d) \in Timeline(checks', statuses', h)
             /\ \A a \in Timeline(checks', statuses', h) :
                  a = CheckItem(d) \/ a \in Timeline(checks, statuses, h)
  <2>1. Belongs(d, h)
    BY <1>1, <1>8 DEF Belongs
  <2> QED
    BY <1>3, <2>1, ItemsOf
<1>9. kind \in Kinds
  BY Mapped DEF kind
<1>10. Named(h) \in 0..2
  BY NamedTyped
<1> QED
  BY <1>0, <1>3, <1>4, <1>5, <1>6, <1>7, <1>8, <1>9, <1>10 DEF Word, h, kind

LEMMA PostIsWord ==
  ASSUME TypeOK, Numbered, NEW h \in Heads, NEW ours \in BOOLEAN, NEW id \in 1..budget.entries,
         NEW p \in Posts, PostStatus(h, ours, id, p)
  PROVE  Word(h, ours, map_status_entry(p[1], p[2]))
<1> DEFINE s == [ id |-> id, sha |-> h, ours |-> ours, state |-> p[1], description |-> p[2],
                  updated |-> now ]
           kind == map_status_entry(p[1], p[2])
<1>0. /\ now \in Nat /\ now <= MaxTime /\ budget.entries \in Nat /\ id \in Nat /\ id <= budget.entries
      /\ MaxTime \in Nat
  BY BoundsAssumption DEF TypeOK
<1>1. /\ s.id = id /\ s.sha = h /\ s.ours = ours /\ s.updated = now
      /\ StatusItem(s).at = now /\ StatusItem(s).kind = kind
  BY DEF StatusItem
<1>2. s \in Statuses
  BY <1>0, WordsAssumption DEF Statuses
<1>3. /\ statuses' = statuses \cup {s} /\ checks' = checks /\ Says(h, ours, kind, StatusWakes(h, ours, p[1]))
      /\ budget' = budget /\ \A e \in statuses : e.id < id
  BY DEF PostStatus, Says, Fresh
<1>31. StatusWakes(h, ours, p[1]) = <<>> \/ StatusWakes(h, ours, p[1]) = <<NewRun(h, ours, 0)>>
  BY DEF StatusWakes
<1> HIDE DEF s, kind
<1>4. StatusSet(statuses)'
  <2>1. \A e \in statuses' : e \in Statuses /\ e.id <= budget.entries /\ e.updated <= MaxTime
    BY <1>0, <1>1, <1>2, <1>3 DEF Numbered, StatusSet
  <2>2. \A e \in statuses : e.id # id
    <3> SUFFICES ASSUME NEW e \in statuses
                 PROVE  e.id # id
      OBVIOUS
    <3>1. e.id \in Nat /\ e.id < id
      BY <1>3, EntryTypes DEF TypeOK
    <3> QED
      BY <1>0, <3>1
  <2>3. \A d, e \in statuses' : d.id = e.id => d = e
    BY <1>1, <1>3, <2>2 DEF Numbered, StatusSet
  <2> QED
    BY <1>3, <2>1, <2>3 DEF StatusSet
<1>5. CheckSet(checks)'
  BY <1>3 DEF Numbered, CheckSet
<1>6. ASSUME NEW g \in Heads, ~(ours /\ g = h)
      PROVE  Timeline(checks', statuses', g) = Timeline(checks, statuses, g)
  <2>1. ~Belongs(s, g)
    BY <1>1, <1>6 DEF Belongs
  <2> QED
    BY <1>3, <2>1, SameTimeline
<1>7. ASSUME ours
      PROVE  /\ StatusItem(s) \in Timeline(checks', statuses', h)
             /\ \A a \in Timeline(checks', statuses', h) :
                  a = StatusItem(s) \/ a \in Timeline(checks, statuses, h)
  <2>1. Belongs(s, h)
    BY <1>1, <1>7 DEF Belongs
  <2> QED
    BY <1>3, <2>1, ItemsOf
<1>8. kind \in Kinds
  BY Mapped DEF kind
<1>9. 0 \in 0..2
  OBVIOUS
<1> QED
  BY <1>1, <1>3, <1>31, <1>4, <1>5, <1>6, <1>7, <1>8, <1>9 DEF Word, kind

-----------------------------------------------------------------------------
(* What a word keeps *)

\* A word leaves everything alone but the entries, the runs and what was said last.
LEMMA WordFrame ==
  ASSUME TypeOK, NEW h, NEW ours, NEW kind, Word(h, ours, kind)
  PROVE  /\ UNCHANGED <<now, head, files, pull, budget, touches, verdict>>
         /\ said' = IF ~ours THEN said
                    ELSE [said EXCEPT ![h] =
                            [at    |-> now,
                             kinds |-> IF said[h].at = now THEN said[h].kinds \cup {kind} ELSE {kind}]]
         /\ runs' \in Seq(RunStates) /\ DOMAIN runs \subseteq DOMAIN runs'
         /\ \A i \in DOMAIN runs :
              runs'[i] = IF ours /\ runs[i].pc = "statuses" /\ runs[i].sha = h
                         THEN [runs[i] EXCEPT !.possible = @ \cup {kind}] ELSE runs[i]
         /\ \A i \in DOMAIN runs' \ DOMAIN runs : runs'[i].pc = "prepare" /\ runs'[i].seen = {}
<1>1. /\ h \in Heads /\ ours \in BOOLEAN /\ kind \in Kinds /\ runs \in Seq(RunStates)
  BY DEF Word, TypeOK
<1>2. PICK woken : /\ woken = <<>> \/ \E o \in BOOLEAN, n \in 0..2 : woken = <<NewRun(h, o, n)>>
                   /\ Says(h, ours, kind, woken)
  BY DEF Word
<1>3. /\ UNCHANGED <<now, head, files, pull, budget, touches, verdict>>
      /\ said' = IF ~ours THEN said
                 ELSE [said EXCEPT ![h] =
                         [at    |-> now,
                          kinds |-> IF said[h].at = now THEN said[h].kinds \cup {kind} ELSE {kind}]]
  BY <1>2 DEF Says
<1>4. /\ runs' \in Seq(RunStates) /\ DOMAIN runs \subseteq DOMAIN runs'
      /\ \A i \in DOMAIN runs :
           runs'[i] = IF ours /\ runs[i].pc = "statuses" /\ runs[i].sha = h
                      THEN [runs[i] EXCEPT !.possible = @ \cup {kind}] ELSE runs[i]
      /\ \A i \in DOMAIN runs' \ DOMAIN runs : runs'[i].pc = "prepare" /\ runs'[i].seen = {}
  BY <1>1, <1>2, SaysRuns
<1> QED
  BY <1>3, <1>4

\* The other fields of a run that overhears a word stay.
LEMMA WordRun ==
  ASSUME TypeOK, NEW h, NEW ours, NEW kind, Word(h, ours, kind), NEW i \in DOMAIN runs
  PROVE  /\ i \in DOMAIN runs'
         /\ runs'[i].pc = runs[i].pc /\ runs'[i].sha = runs[i].sha /\ runs'[i].seen = runs[i].seen
         /\ runs'[i].ours = runs[i].ours
         /\ runs'[i].spec_path = runs[i].spec_path /\ runs'[i].prepared = runs[i].prepared
         /\ runs'[i].spec = runs[i].spec /\ runs'[i].kind = runs[i].kind
         /\ runs[i].possible \subseteq runs'[i].possible
         /\ ours /\ runs[i].pc = "statuses" /\ runs[i].sha = h => kind \in runs'[i].possible
<1>1. runs[i] \in RunStates
  BY RunsTyped
<1>2. i \in DOMAIN runs' /\
      runs'[i] = IF ours /\ runs[i].pc = "statuses" /\ runs[i].sha = h
                 THEN [runs[i] EXCEPT !.possible = @ \cup {kind}] ELSE runs[i]
  BY WordFrame
<1>3. CASE ours /\ runs[i].pc = "statuses" /\ runs[i].sha = h
  <2>1. runs'[i] = [runs[i] EXCEPT !.possible = @ \cup {kind}]
    BY <1>2, <1>3
  <2> QED
    BY <1>1, <1>2, <2>1 DEF RunStates
<1>4. CASE ~(ours /\ runs[i].pc = "statuses" /\ runs[i].sha = h)
  BY <1>2, <1>4
<1> QED
  BY <1>3, <1>4

LEMMA WordKeepsTypes ==
  ASSUME TypeOK, Numbered, NEW h, NEW ours, NEW kind, Word(h, ours, kind)
  PROVE  TypeOK' /\ Numbered'
<1>1. /\ UNCHANGED <<now, head, files, pull, budget, touches, verdict>>
      /\ runs' \in Seq(RunStates)
      /\ \A i \in DOMAIN runs' \ DOMAIN runs : runs'[i].pc = "prepare" /\ runs'[i].seen = {}
  BY WordFrame
<1>2. CheckSet(checks)' /\ StatusSet(statuses)' /\ checks' \subseteq CheckRuns /\ statuses' \subseteq Statuses
  BY DEF Word, CheckSet, StatusSet
<1>3. said' \in [Heads -> [at : 0..MaxTime, kinds : SUBSET Kinds]]
  <2>1. now \in 0..MaxTime /\ h \in Heads /\ kind \in Kinds
    BY BoundsAssumption DEF TypeOK, Word
  <2>2. said[h].kinds \in SUBSET Kinds
    BY <2>1 DEF TypeOK
  <2>3. (IF said[h].at = now THEN said[h].kinds \cup {kind} ELSE {kind}) \in SUBSET Kinds
    BY <2>1, <2>2
  <2> DEFINE k == IF said[h].at = now THEN said[h].kinds \cup {kind} ELSE {kind}
             r == [at |-> now, kinds |-> k]
  <2>4. r \in [at : 0..MaxTime, kinds : SUBSET Kinds]
    BY <2>1, <2>3
  <2>5. said' = IF ~ours THEN said ELSE [said EXCEPT ![h] = r]
    BY WordFrame
  <2> HIDE DEF r
  <2> QED
    BY <2>1, <2>4, <2>5 DEF TypeOK
<1>4. \A i \in DOMAIN runs' :
        IF i \in DOMAIN runs THEN runs'[i].pc = runs[i].pc ELSE runs'[i].pc = "prepare"
  BY <1>1, WordRun
<1>5. "prepare" \notin Running
  BY DEF Running
<1>6. \A i, k \in DOMAIN runs' : runs'[i].pc \in Running /\ runs'[k].pc \in Running => i = k
  BY <1>4, <1>5 DEF TypeOK
<1>7. \A i, k \in DOMAIN runs' : runs'[i].pc = "queued" /\ runs'[k].pc = "queued" => i = k
  BY <1>4 DEF TypeOK
<1>8. TypeOK'
  BY <1>1, <1>2, <1>3, <1>6, <1>7 DEF TypeOK
<1>9. (\A i \in DOMAIN runs : CheckSet(runs[i].seen))'
  <2> SUFFICES ASSUME NEW i \in DOMAIN runs'
               PROVE  CheckSet(runs[i].seen)'
    OBVIOUS
  <2>1. CASE i \in DOMAIN runs
    <3>1. CheckSet(runs[i].seen) /\ runs'[i].seen = runs[i].seen
      BY <2>1, WordRun DEF Numbered
    <3> QED
      BY <1>1, <3>1 DEF CheckSet
  <2>2. CASE i \notin DOMAIN runs
    BY <1>1, <2>2 DEF CheckSet
  <2> QED
    BY <2>1, <2>2
<1> QED
  BY <1>2, <1>8, <1>9 DEF Numbered

-----------------------------------------------------------------------------
(* The steps *)

\* People and the clock.
Outside ==
  \/ Tick
  \/ Push(files[head])
  \/ \E f \in Paths, v \in {0} \cup Versions : Push([files[head] EXCEPT ![f] = v])
  \/ \E p \in Edited : EditPull(p)

\* Every step is a word, one from outside, or one of a run.
LEMMA Steps ==
  ASSUME TypeOK, Numbered, Next
  PROVE  \/ \E h, ours, kind : Word(h, ours, kind)
         \/ Outside
         \/ \E i \in DOMAIN runs : StepOf(i)
<1>1. ASSUME NEW h \in Heads, NEW ours \in Speakers, NEW id \in 1..budget.entries,
             BeginCheck(h, ours, id) \/ \E p \in Posts : PostStatus(h, ours, id, p)
      PROVE  \E kind : Word(h, ours, kind)
  <2>1. ours \in BOOLEAN
    BY DEF Speakers
  <2> QED
    BY <1>1, <2>1, BeginIsWord, PostIsWord
<1>2. ASSUME NEW c \in checks, NEW conclusion \in Conclusions, FinishCheck(c, conclusion)
      PROVE  \E h, ours, kind : Word(h, ours, kind)
  BY <1>2, FinishIsWord
<1> QED
  BY <1>1, <1>2 DEF Next, Outside

LEMMA OutsideFrame ==
  ASSUME Outside
  PROVE  UNCHANGED <<budget, checks, statuses, runs, verdict, said>>
BY DEF Outside, Tick, Push, EditPull

\* A push adds a commit; the Task Specs of the others stay.
LEMMA PushFrame ==
  ASSUME TypeOK, Outside
  PROVE  /\ head' \in Heads /\ head <= head' /\ files' \in [Heads -> Tree]
         /\ \A h \in Heads : h <= head => files'[h] = files[h]
<1>0. /\ Heads = 1..NumHeads /\ NumHeads \in Nat /\ head \in 1..NumHeads
      /\ files \in [Heads -> Tree] /\ files[head] \in Tree
  BY HeadsAssumption DEF TypeOK
<1>1. ASSUME NEW tree \in Tree, Push(tree)
      PROVE  /\ head' \in Heads /\ head <= head' /\ files' \in [Heads -> Tree]
             /\ \A h \in Heads : h <= head => files'[h] = files[h]
  <2>1. head' = head + 1 /\ head < NumHeads
        /\ files' = [h \in Heads |-> IF h > head THEN tree ELSE files[h]]
    BY <1>1 DEF Push
  <2>2. \A h \in Heads : h \in Nat /\ (h <= head => ~(h > head))
    BY <1>0
  <2> QED
    BY <1>0, <2>1, <2>2
<1>2. \A f \in Paths, v \in {0} \cup Versions : [files[head] EXCEPT ![f] = v] \in Tree
  BY <1>0 DEF Tree
<1>3. CASE Tick \/ \E p \in Edited : EditPull(p)
  BY <1>0, <1>3 DEF Tick, EditPull
<1> QED
  BY <1>0, <1>1, <1>2, <1>3 DEF Outside

LEMMA EditedTyped ==
  ASSUME pull \in Pulls
  PROVE  Edited \subseteq Pulls
<1>1. /\ [pull EXCEPT !.open = ~@] \in Pulls /\ [pull EXCEPT !.moved = ~@] \in Pulls
      /\ [pull EXCEPT !.shared = ~@] \in Pulls
  BY DEF Pulls
<1>2. \A m \in Markers : [pull EXCEPT !.marker = m] \in Pulls
  BY DEF Pulls
<1> QED
  BY <1>1, <1>2 DEF Edited

LEMMA TypedStep ==
  ASSUME TypeOK, Numbered, Next
  PROVE  TypeOK' /\ Numbered'
<1>1. ASSUME NEW h, NEW ours, NEW kind, Word(h, ours, kind)
      PROVE  TypeOK' /\ Numbered'
  BY <1>1, WordKeepsTypes
<1>2. CASE Outside
  <2>1. UNCHANGED <<budget, checks, statuses, runs, verdict, said>>
    BY <1>2, OutsideFrame
  <2>2. now' \in 1..MaxTime
    BY <1>2, BoundsAssumption DEF Outside, Tick, Push, EditPull, TypeOK
  <2>3. pull' \in Pulls
    BY <1>2, EditedTyped DEF Outside, Tick, Push, EditPull, TypeOK
  <2>4. touches' \in 0..budget.touches
    <3>1. touches' = touches \/ Touch
      BY <1>2 DEF Outside, Tick, Push, EditPull
    <3>2. budget.touches \in Nat
      BY BoundsAssumption DEF TypeOK
    <3> QED
      BY <3>1, <3>2 DEF Touch, TypeOK
  <2>5. head' \in Heads /\ files' \in [Heads -> Tree]
    BY <1>2, PushFrame
  <2>6. TypeOK'
    BY <2>1, <2>2, <2>3, <2>4, <2>5 DEF TypeOK
  <2>7. Numbered'
    BY <2>1 DEF Numbered, CheckSet, StatusSet
  <2> QED
    BY <2>6, <2>7
<1>3. ASSUME NEW i \in DOMAIN runs, StepOf(i)
      PROVE  TypeOK' /\ Numbered'
  <2>1. TypeOK' /\ Moves(i) /\ PullUnchanged
    BY <1>3, TypedMoves, StepMoves DEF TypeOK
  <2>2. DOMAIN runs' = DOMAIN runs /\ UNCHANGED <<checks, statuses, budget>>
    BY <2>1 DEF Moves, PullUnchanged
  <2>3. ASSUME NEW k \in DOMAIN runs
        PROVE  CheckSet(runs'[k].seen)
    <3>0. runs[k] \in RunStates /\ CheckSet(runs[k].seen)
      BY RunsTyped DEF Numbered
    <3>1. CASE runs'[k].seen = runs[k].seen
      BY <3>0, <3>1
    <3>2. CASE runs'[k].seen = {}
      BY <3>2 DEF CheckSet
    <3>3. CASE runs'[k].seen = {c \in checks : c.sha = runs[k].sha}
      BY <3>3 DEF Numbered, CheckSet
    <3>4. runs'[k].seen \in {runs[k].seen, {}, {c \in checks : c.sha = runs[k].sha}}
      <4>1. CASE k = i
        BY <2>1, <3>0, <4>1 DEF Moves, Turn, Ends, Gated, Waits, Starts, Loads, Reads, Decides, RunStates
      <4>2. CASE k # i
        BY <2>1, <3>0, <4>2 DEF Moves, RunStates
      <4> QED
        BY <4>1, <4>2
    <3> QED
      BY <3>1, <3>2, <3>3, <3>4
  <2>4. Numbered'
    BY <2>2, <2>3 DEF Numbered, CheckSet, StatusSet
  <2> QED
    BY <2>1, <2>4
<1> QED
  BY <1>1, <1>2, <1>3, Steps

\* What a commit is told last is the newest item of its timeline.
LEMMA LatestStep ==
  ASSUME TypeOK, Numbered, Latest, Next
  PROVE  Latest'
<1>0. now \in Nat /\ now # 0 /\ said \in [Heads -> [at : 0..MaxTime, kinds : SUBSET Kinds]]
  BY BoundsAssumption DEF TypeOK
<1>1. ASSUME NEW h, NEW ours, NEW kind, Word(h, ours, kind)
      PROVE  Latest'
  <2>0. now' = now /\ h \in Heads
    BY <1>1, WordFrame DEF Word
  <2> SUFFICES ASSUME NEW g \in Heads
               PROVE  /\ said'[g].at <= now'
                      /\ \A a \in Timeline(checks', statuses', g) :
                           a.at <= said'[g].at /\ (a.at = said'[g].at => a.kind \in said'[g].kinds)
                      /\ IF said'[g].at = 0 THEN "NONE" \in said'[g].kinds
                         ELSE \E a \in Timeline(checks', statuses', g) : a.at = said'[g].at
    BY DEF Latest
  <2>1. CASE ~(ours /\ g = h)
    <3>1. Timeline(checks', statuses', g) = Timeline(checks, statuses, g)
      BY <1>1, <2>1 DEF Word
    <3>2. said'[g] = said[g]
      BY <1>0, <1>1, <2>0, <2>1, WordFrame
    <3> QED
      BY <2>0, <3>1, <3>2 DEF Latest
  <2>2. CASE ours /\ g = h
    <3> DEFINE k == IF said[h].at = now THEN said[h].kinds \cup {kind} ELSE {kind}
    <3>0. said' = IF ~ours THEN said ELSE [said EXCEPT ![h] = [at |-> now, kinds |-> k]]
      BY <1>1, WordFrame
    <3>1. said' = [said EXCEPT ![h] = [at |-> now, kinds |-> k]]
      BY <2>2, <3>0
    <3>2. said'[g].at = now /\ said'[g].kinds = k
      BY <1>0, <2>0, <2>2, <3>1
    <3>3. PICK new : /\ new.at = now /\ new.kind = kind
                     /\ new \in Timeline(checks', statuses', h)
                     /\ \A a \in Timeline(checks', statuses', h) :
                          a = new \/ a \in Timeline(checks, statuses, h)
      BY <1>1, <2>2 DEF Word
    <3>4. ASSUME NEW a \in Timeline(checks, statuses, h)
          PROVE  a.at <= now /\ (a.at = now => a.kind \in k)
      <4>1. a.at <= said[h].at /\ said[h].at <= now /\ (a.at = said[h].at => a.kind \in said[h].kinds)
        BY <2>0 DEF Latest
      <4>2. a.at \in Nat /\ said[h].at \in Nat
        BY <1>0, <2>0, TimelineTyped DEF TypeOK, Numbered, Items
      <4>3. a.at <= now
        BY <1>0, <4>1, <4>2
      <4>4. a.at = now => said[h].at = now
        BY <1>0, <4>1, <4>2
      <4> QED
        BY <4>1, <4>3, <4>4
    <3>5. kind \in k
      OBVIOUS
    <3> HIDE DEF k
    <3>6. \A a \in Timeline(checks', statuses', g) : a.at <= now /\ (a.at = now => a.kind \in k)
      BY <1>0, <2>2, <3>3, <3>4, <3>5
    <3>7. \E a \in Timeline(checks', statuses', g) : a.at = now
      BY <2>2, <3>3
    <3> QED
      BY <1>0, <2>0, <3>2, <3>6, <3>7
  <2> QED
    BY <2>1, <2>2
<1>2. CASE Outside
  <2>1. UNCHANGED <<checks, statuses, said>>
    BY <1>2, OutsideFrame
  <2>2. now' = now \/ now' = now + 1
    BY <1>2 DEF Outside, Tick, Push, EditPull
  <2> SUFFICES ASSUME NEW h \in Heads
               PROVE  said[h].at <= now'
    BY <2>1 DEF Latest
  <2>3. said[h].at \in Nat /\ said[h].at <= now
    BY <1>0 DEF Latest
  <2> QED
    BY <1>0, <2>2, <2>3
<1>3. ASSUME NEW i \in DOMAIN runs, StepOf(i)
      PROVE  Latest'
  <2>1. UNCHANGED <<checks, statuses, said, now>>
    BY <1>3, StepMoves DEF TypeOK, PullUnchanged
  <2> QED
    BY <2>1 DEF Latest
<1> QED
  BY <1>1, <1>2, <1>3, Steps

\* A review hears what is said between its calls; what it has read does not change.
LEMMA HeardStep ==
  ASSUME TypeOK, Numbered, Latest, Heard, Next
  PROVE  Heard'
<1>1. ASSUME NEW h, NEW ours, NEW kind, Word(h, ours, kind)
      PROVE  Heard'
  <2> SUFFICES ASSUME NEW i \in DOMAIN runs', runs'[i].pc = "statuses"
               PROVE  \E t \in Nat : HeardSince(runs[i], t)'
    BY DEF Heard, Stands
  <2>1. i \in DOMAIN runs
    BY <1>1, WordFrame
  <2>2. /\ runs[i].pc = "statuses" /\ runs'[i].sha = runs[i].sha /\ runs'[i].seen = runs[i].seen
        /\ runs[i].possible \subseteq runs'[i].possible
        /\ ours /\ runs[i].sha = h => kind \in runs'[i].possible
    BY <1>1, <2>1, WordRun
  <2>3. PICK t \in Nat : HeardSince(runs[i], t)
    BY <2>1, <2>2 DEF Heard, Stands
  <2> DEFINE g == runs[i].sha
             seen == runs[i].seen
  <2>4. statuses \subseteq statuses' /\ Timeline(seen, statuses, g) \subseteq Timeline(seen, statuses', g)
    <3>1. statuses \subseteq statuses'
      BY <1>1 DEF Word
    <3> QED
      BY <3>1, ItemsOf
  <2>5. ASSUME NEW a \in Timeline(seen, statuses', g), a \notin Timeline(seen, statuses, g)
        PROVE  a.kind \in runs'[i].possible
    <3>1. PICK s \in statuses' : Belongs(s, g) /\ a = StatusItem(s)
      BY <2>5, ItemsOf
    <3>2. s \notin statuses
      BY <2>5, <3>1, ItemsOf
    <3>3. s.sha = h /\ s.ours = ours /\ StatusItem(s).kind = kind
      BY <1>1, <3>2 DEF Word
    <3> QED
      BY <2>2, <3>1, <3>3 DEF Belongs
  <2>6. \A a \in Timeline(seen, statuses', g) : a.at >= t => a.kind \in runs'[i].possible
    BY <2>2, <2>3, <2>5 DEF HeardSince
  <2>7. IF t = 0 THEN "NONE" \in runs'[i].possible ELSE \E a \in Timeline(seen, statuses', g) : a.at >= t
    BY <2>2, <2>3, <2>4 DEF HeardSince
  <2>8. HeardSince(runs[i], t)'
    BY <2>2, <2>6, <2>7 DEF HeardSince
  <2> QED
    BY <2>8
<1>2. CASE Outside
  <2>1. UNCHANGED <<statuses, runs>>
    BY <1>2, OutsideFrame
  <2> QED
    BY <2>1 DEF Heard, HeardSince, Stands
<1>3. ASSUME NEW i \in DOMAIN runs, StepOf(i)
      PROVE  Heard'
  <2>1. Moves(i) /\ statuses' = statuses
    BY <1>3, StepMoves DEF TypeOK, PullUnchanged
  <2> SUFFICES ASSUME NEW k \in DOMAIN runs, runs'[k].pc = "statuses"
               PROVE  \E t \in Nat : HeardSince(runs[k], t)'
    BY <2>1 DEF Heard, Stands, Moves
  <2>2. runs[k] \in RunStates /\ runs[k].sha \in Heads
    BY RunsTyped
  <2>3. CASE runs'[k] = runs[k]
    <3>1. PICK t \in Nat : HeardSince(runs[k], t)
      BY <2>3 DEF Heard, Stands
    <3>2. HeardSince(runs[k], t)'
      BY <2>1, <2>3, <3>1 DEF HeardSince
    <3> QED
      BY <3>2
  <2>4. CASE Reads(k, runs'[k])
    <3> DEFINE h == runs[k].sha
               cs == {c \in checks : c.sha = h}
    <3>0. PICK t \in Nat : t = said[h].at
      BY <2>2 DEF TypeOK
    <3>1. runs'[k].sha = h /\ runs'[k].seen = cs /\ runs'[k].possible = said[h].kinds
      BY <2>2, <2>4 DEF Reads, RunStates
    <3>2. Timeline(cs, statuses, h) = Timeline(checks, statuses, h)
      <4>1. \A c : Belongs(c, h) => (c \in cs <=> c \in checks)
        BY DEF Belongs
      <4> HIDE DEF cs
      <4> QED
        BY <4>1, SameTimeline
    <3>4. \A a \in Timeline(checks, statuses, h) : a.at \in Nat
      BY TimelineTyped DEF TypeOK, Numbered, Items
    <3>5. \A a \in Timeline(checks, statuses, h) : a.at >= t => a.kind \in said[h].kinds
      <4> SUFFICES ASSUME NEW a \in Timeline(checks, statuses, h), a.at >= t
                   PROVE  a.kind \in said[h].kinds
        OBVIOUS
      <4>1. a.at <= t /\ (a.at = t => a.kind \in said[h].kinds)
        BY <2>2, <3>0 DEF Latest
      <4> QED
        BY <3>0, <3>4, <4>1
    <3>6. IF t = 0 THEN "NONE" \in said[h].kinds ELSE \E a \in Timeline(checks, statuses, h) : a.at >= t
      BY <2>2, <3>0, <3>4 DEF Latest
    <3>7. HeardSince(runs[k], t)'
      <4> DEFINE items == Timeline(checks, statuses, h)
                 kinds == said[h].kinds
      <4>1. Timeline(runs'[k].seen, statuses', runs'[k].sha) = items /\ runs'[k].possible = kinds
        BY <2>1, <3>1, <3>2
      <4> HIDE DEF items, kinds
      <4> QED
        BY <4>1, <3>5, <3>6 DEF HeardSince, items, kinds
    <3> QED
      BY <3>0, <3>7
  <2>5. runs'[k] = runs[k] \/ Reads(k, runs'[k])
    <3>1. CASE k # i
      BY <2>1, <2>2, <3>1 DEF Moves, RunStates
    <3>2. CASE k = i
      BY <2>1, <2>2, <3>2 DEF Moves, Turn, Ends, Gated, Waits, Starts, Loads, Decides, RunStates, Finished
    <3> QED
      BY <3>1, <3>2
  <2> QED
    BY <2>3, <2>4, <2>5
<1> QED
  BY <1>1, <1>2, <1>3, Steps

\* What was prepared and loaded stays what the commit of the run has.
LEMMA PreparedStep ==
  ASSUME TypeOK, Numbered, Prepared, Next
  PROVE  Prepared'
<1> DEFINE Through == {"gated", "queued", "decided"} \cup Running
           Loaded == {"checks", "statuses", "decided"}
           Found(r) == /\ r.sha <= head /\ r.spec_path \in Paths
                       /\ files[r.sha][r.spec_path] = r.prepared
                       /\ r.pc \in Loaded => r.spec = r.prepared
<1>0. \A i \in DOMAIN runs : runs[i].pc \in Through => Found(runs[i])
  BY DEF Prepared
<1>1. ASSUME NEW h, NEW ours, NEW kind, Word(h, ours, kind)
      PROVE  Prepared'
  <2>1. UNCHANGED <<head, files>>
    BY <1>1, WordFrame
  <2> SUFFICES ASSUME NEW i \in DOMAIN runs', runs'[i].pc \in Through
               PROVE  /\ runs'[i].sha <= head' /\ runs'[i].spec_path \in Paths
                      /\ files'[runs'[i].sha][runs'[i].spec_path] = runs'[i].prepared
                      /\ runs'[i].pc \in Loaded => runs'[i].spec = runs'[i].prepared
    BY DEF Prepared
  <2>2. i \in DOMAIN runs
    <3>1. "prepare" \notin Through
      BY DEF Running
    <3> HIDE DEF Through
    <3> QED
      BY <1>1, <3>1, WordFrame
  <2>3. /\ runs'[i].pc = runs[i].pc /\ runs'[i].sha = runs[i].sha
        /\ runs'[i].spec_path = runs[i].spec_path /\ runs'[i].prepared = runs[i].prepared
        /\ runs'[i].spec = runs[i].spec
    BY <1>1, <2>2, WordRun
  <2>4. Found(runs[i])
    BY <1>0, <2>2, <2>3
  <2> HIDE DEF Through, Loaded
  <2> QED
    BY <2>1, <2>3, <2>4
<1>2. CASE Outside
  <2>1. /\ runs' = runs /\ head' \in Heads /\ head <= head'
        /\ \A h \in Heads : h <= head => files'[h] = files[h]
    BY <1>2, OutsideFrame, PushFrame
  <2> SUFFICES ASSUME NEW i \in DOMAIN runs, runs[i].pc \in Through
               PROVE  /\ runs[i].sha <= head' /\ runs[i].spec_path \in Paths
                      /\ files'[runs[i].sha][runs[i].spec_path] = runs[i].prepared
                      /\ runs[i].pc \in Loaded => runs[i].spec = runs[i].prepared
    BY <2>1 DEF Prepared
  <2>2. Found(runs[i]) /\ runs[i].sha \in Heads
    BY <1>0, RunsTyped
  <2> HIDE DEF Through, Loaded
  <2>3. runs[i].sha <= head'
    <3>1. runs[i].sha \in Nat /\ head \in Nat /\ head' \in Nat
      BY <2>1, <2>2, HeadsAssumption DEF TypeOK
    <3> QED
      BY <2>1, <2>2, <3>1
  <2> QED
    BY <2>1, <2>2, <2>3
<1>3. ASSUME NEW i \in DOMAIN runs, StepOf(i)
      PROVE  Prepared'
  <2>1. Moves(i) /\ DOMAIN runs' = DOMAIN runs /\ UNCHANGED <<head, files>>
    BY <1>3, StepMoves DEF TypeOK, PullUnchanged, Moves
  <2> SUFFICES ASSUME NEW k \in DOMAIN runs, runs'[k].pc \in Through
               PROVE  Found(runs'[k])
    BY <2>1 DEF Prepared
  <2>2. runs[k] \in RunStates /\ runs[k].sha \in Heads
    BY RunsTyped
  <2>3. ASSUME runs'[k].pc \in Loaded => runs[k].pc \in Loaded, runs[k].pc \in Through,
               runs'[k].sha = runs[k].sha, runs'[k].spec_path = runs[k].spec_path,
               runs'[k].prepared = runs[k].prepared, runs'[k].spec = runs[k].spec
        PROVE  Found(runs'[k])
    <3>1. Found(runs[k])
      BY <1>0, <2>3
    <3> HIDE DEF Through, Loaded
    <3> QED
      BY <2>3, <3>1
  <2>4. CASE k # i
    <3>1. runs'[k] = runs[k]
      <4>1. runs'[k] # [runs[k] EXCEPT !.pc = "cancelled"]
        BY <2>2 DEF RunStates, Running
      <4> QED
        BY <2>1, <2>4, <4>1 DEF Moves
    <3>2. Found(runs[k])
      BY <1>0, <3>1
    <3> QED
      BY <3>1, <3>2
  <2>5. CASE k = i
    <3>0. Turn(k, runs'[k])
      BY <2>1, <2>5 DEF Moves
    <3>1. CASE Ends(k, runs'[k])
      BY <3>1 DEF Ends, Finished, Running
    <3>2. CASE Gated(k, runs'[k])
      <4>1. /\ runs'[k].sha = head /\ runs'[k].spec_path = pull.marker.path
            /\ runs'[k].prepared = pull.marker.version /\ runs'[k].pc = "gated"
        BY <2>2, <3>2 DEF Gated, RunStates
      <4>2. pull.marker.path \in Paths /\ files[head][pull.marker.path] = pull.marker.version
        BY <3>2 DEF Gated, load_spec_from_marker_at_ref
      <4>3. head <= head
        BY HeadsAssumption DEF TypeOK
      <4> QED
        BY <4>1, <4>2, <4>3
    <3>3. CASE Waits(k, runs'[k])
      BY <2>2, <2>3, <3>3 DEF Waits, RunStates
    <3>4. CASE Starts(k, runs'[k])
      BY <2>2, <2>3, <3>4 DEF Starts, RunStates
    <3>5. CASE Loads(k, runs'[k])
      <4>1. /\ runs'[k].sha = runs[k].sha /\ runs'[k].spec_path = runs[k].spec_path
            /\ runs'[k].prepared = runs[k].prepared /\ runs'[k].spec = pull.marker.version
        BY <2>2, <3>5 DEF Loads, RunStates
      <4>2. files[runs[k].sha][runs[k].spec_path] = pull.marker.version
        BY <3>5 DEF Loads, _load_review_spec, load_spec_from_marker_at_ref
      <4>3. Found(runs[k])
        BY <1>0, <3>5 DEF Loads, Running
      <4> HIDE DEF Through, Loaded
      <4> QED
        BY <4>1, <4>2, <4>3
    <3>6. CASE Reads(k, runs'[k])
      BY <2>2, <2>3, <3>6 DEF Reads, RunStates, Running
    <3>7. CASE Decides(k, runs'[k])
      BY <2>2, <2>3, <3>7 DEF Decides, RunStates, Running
    <3> QED
      BY <3>0, <3>1, <3>2, <3>3, <3>4, <3>5, <3>6, <3>7 DEF Turn
  <2> QED
    BY <2>4, <2>5
<1> QED
  BY <1>1, <1>2, <1>3, Steps

\* A verdict is among what the review could have heard.
LEMMA VerdictStep ==
  ASSUME TypeOK, Numbered, Heard, VerdictWasTrue, Next
  PROVE  VerdictWasTrue'
<1>1. ASSUME NEW h, NEW ours, NEW kind, Word(h, ours, kind)
      PROVE  VerdictWasTrue'
  <2> SUFFICES ASSUME NEW i \in DOMAIN runs', runs'[i].pc = "decided"
               PROVE  runs'[i].kind \in runs'[i].possible
    BY DEF VerdictWasTrue, Stands
  <2>1. i \in DOMAIN runs
    BY <1>1, WordFrame
  <2>2. /\ runs'[i].pc = runs[i].pc /\ runs'[i].kind = runs[i].kind
        /\ runs[i].possible \subseteq runs'[i].possible
    BY <1>1, <2>1, WordRun
  <2> QED
    BY <2>1, <2>2 DEF VerdictWasTrue, Stands
<1>2. CASE Outside
  BY <1>2, OutsideFrame DEF VerdictWasTrue, Stands
<1>3. ASSUME NEW i \in DOMAIN runs, StepOf(i)
      PROVE  VerdictWasTrue'
  <2>1. Moves(i) /\ DOMAIN runs' = DOMAIN runs
    BY <1>3, StepMoves DEF TypeOK, Moves
  <2> SUFFICES ASSUME NEW k \in DOMAIN runs, runs'[k].pc = "decided"
               PROVE  runs'[k].kind \in runs'[k].possible
    BY <2>1 DEF VerdictWasTrue, Stands
  <2>2. runs[k] \in RunStates
    BY RunsTyped
  <2>3. CASE runs'[k] = runs[k]
    BY <2>3 DEF VerdictWasTrue, Stands
  <2>4. CASE Decides(k, runs'[k])
    <3> DEFINE items == Timeline(runs[k].seen, statuses, runs[k].sha)
               kind == resolve_coderabbit_terminal(runs[k].seen, statuses, runs[k].sha)
    <3>1. runs'[k].kind = kind /\ runs'[k].possible = runs[k].possible
      BY <2>2, <2>4 DEF Decides, RunStates
    <3>2. PICK t \in Nat : HeardSince(runs[k], t)
      BY <2>4 DEF Decides, Heard, Stands
    <3>3. /\ \A a \in items : a.at >= t => a.kind \in runs[k].possible
          /\ IF t = 0 THEN "NONE" \in runs[k].possible ELSE \E a \in items : a.at >= t
      BY <3>2 DEF HeardSince
    <3>4. /\ items = {} => kind = "NONE"
          /\ items # {} => \E a \in items : kind = a.kind /\ \A b \in items : b.at <= a.at
      BY Resolves DEF TypeOK, Numbered
    <3>5. \A a \in items : a.at \in Nat
      BY TimelineTyped DEF TypeOK, Numbered, Items
    <3> HIDE DEF items, kind
    <3>6. kind \in runs[k].possible
      <4>1. CASE items = {}
        BY <3>3, <3>4, <4>1
      <4>2. CASE items # {}
        <5>1. PICK a \in items : kind = a.kind /\ \A b \in items : b.at <= a.at
          BY <3>4, <4>2
        <5>2. a.at >= t
          BY <3>2, <3>3, <3>5, <5>1
        <5> QED
          BY <3>3, <5>1, <5>2
      <4> QED
        BY <4>1, <4>2
    <3> QED
      BY <3>1, <3>6
  <2>5. runs'[k] = runs[k] \/ Decides(k, runs'[k])
    <3>1. CASE k # i
      BY <2>1, <2>2, <3>1 DEF Moves, RunStates
    <3>2. CASE k = i
      BY <2>1, <2>2, <3>2 DEF Moves, Turn, Ends, Gated, Waits, Starts, Loads, Reads, RunStates, Finished
    <3> QED
      BY <3>1, <3>2
  <2> QED
    BY <2>3, <2>4, <2>5
<1> QED
  BY <1>1, <1>2, <1>3, Steps

-----------------------------------------------------------------------------
(* The last word *)

\* No run has stopped at a moved head, failed, or turned the pull request down.
NothingStopped ==
  \A i \in DOMAIN runs : runs[i].pc \notin {"mismatch", "failed", "refused", "ignored"}

\* A run that will still read both lists for the head, if it is not stopped: before it
\* looks at the head again it may carry any commit.
Follows(run) ==
  \/ run.pc = "prepare" /\ run.ours /\ run.sha = head
  \/ run.pc \in {"gated", "queued", "fetch"}
  \/ run.pc = "checks" /\ run.sha = head

\* A review of the head between its calls, and one that has read the last word.
Judges(run) == run.pc = "statuses" /\ run.sha = head
Hears(run)  == resolve_coderabbit_terminal(run.seen, statuses, head) \in said[head].kinds

\* The last word about the head is still to be read, or all that is judged, and in the
\* end the verdict, is of that word.
Followed ==
  \/ \E i \in DOMAIN runs : Follows(runs[i])
  \/ /\ \A i \in DOMAIN runs : Judges(runs[i]) => Hears(runs[i])
     /\ verdict[head] \in said[head].kinds \/ \E i \in DOMAIN runs : Judges(runs[i])

LastWordFollowed == NothingStopped /\ said[head].kinds \subseteq Terminal => Followed

\* Nothing is said about a commit that is not pushed yet.
Unsaid ==
  /\ \A h \in Heads : h > head => said[h].kinds = {"NONE"}
  /\ \A c \in checks : c.sha <= head

\* A word that has been said, with the run it wakes if it is a terminal one of CodeRabbit.
Wakes(h, ours, kind) ==
  /\ Word(h, ours, kind)
  /\ h <= head /\ \A c \in checks' : c.sha <= head
  /\ ours /\ kind \in Terminal =>
       \E i \in DOMAIN runs' : runs'[i].pc = "prepare" /\ runs'[i].ours /\ runs'[i].sha = h

\* The run that is woken comes last.
LEMMA WokenIsThere ==
  ASSUME runs \in Seq(RunStates), NEW h \in Heads, NEW ours \in BOOLEAN, NEW kind \in Kinds,
         NEW n \in 0..2, Says(h, ours, kind, <<NewRun(h, ours, n)>>)
  PROVE  \E i \in DOMAIN runs' :
           runs'[i].pc = "prepare" /\ runs'[i].ours = ours /\ runs'[i].sha = h
<1> DEFINE heard == IF ours THEN Overheard(h, kind) ELSE runs
           r == NewRun(h, ours, n)
<1>1. heard \in Seq(RunStates)
  <2>1. \A i \in DOMAIN runs : runs[i] \in RunStates
    BY SequenceOf
  <2>2. \A s \in RunStates : [s EXCEPT !.possible = @ \cup {kind}] \in RunStates
    BY DEF RunStates
  <2>3. Overheard(h, kind) = [i \in DOMAIN runs |-> Overheard(h, kind)[i]]
    BY DEF Overheard
  <2>4. \A i \in DOMAIN runs : Overheard(h, kind)[i] \in RunStates
    BY <2>1, <2>2 DEF Overheard
  <2>5. Overheard(h, kind) \in Seq(RunStates)
    BY <2>3, <2>4, SameLength
  <2> QED
    BY <2>5
<1>2. r \in RunStates /\ r.pc = "prepare" /\ r.ours = ours /\ r.sha = h
  BY Woken DEF NewRun
<1>3. runs' = heard \o <<r>>
  BY DEF Says
<1> HIDE DEF heard, r
<1>4. runs' = Append(heard, r)
  BY <1>1, <1>2, <1>3, AppendIsConcat
<1>5. /\ runs' \in Seq(RunStates) /\ Len(runs') = Len(heard) + 1
      /\ runs'[Len(heard) + 1] = r
  BY <1>1, <1>2, <1>4, AppendProperties
<1>6. Len(heard) + 1 \in DOMAIN runs'
  BY <1>1, <1>5, LenProperties
<1> QED
  BY <1>2, <1>5, <1>6

\* Every step is such a word, one from outside, or one of a run.
LEMMA WordsWake ==
  ASSUME TypeOK, Numbered, Unsaid, Next
  PROVE  \/ \E h, ours, kind : Wakes(h, ours, kind)
         \/ Outside
         \/ \E i \in DOMAIN runs : StepOf(i)
<1>0. runs \in Seq(RunStates) /\ checks \subseteq CheckRuns
  BY DEF TypeOK
<1>1. ASSUME NEW h \in Heads, NEW ours \in Speakers, NEW id \in 1..budget.entries,
             BeginCheck(h, ours, id)
      PROVE  Wakes(h, ours, "IN_PROGRESS")
  <2>1. Word(h, ours, "IN_PROGRESS")
    BY <1>1, BeginIsWord DEF Speakers
  <2>2. h <= head /\ \A c \in checks' : c.sha <= head
    <3> DEFINE c == [ id |-> id, sha |-> h, ours |-> ours, status |-> "in_progress",
                      conclusion |-> "", started |-> now, completed |-> 0 ]
    <3>1. checks' = checks \cup {c} /\ h <= head
      BY <1>1 DEF BeginCheck
    <3>2. c.sha = h
      OBVIOUS
    <3> HIDE DEF c
    <3> QED
      BY <3>1, <3>2 DEF Unsaid
  <2>3. "IN_PROGRESS" \notin Terminal
    BY DEF Terminal, Escalating
  <2> QED
    BY <2>1, <2>2, <2>3 DEF Wakes
<1>2. ASSUME NEW h \in Heads, NEW ours \in Speakers, NEW id \in 1..budget.entries,
             NEW p \in Posts, PostStatus(h, ours, id, p)
      PROVE  Wakes(h, ours, map_status_entry(p[1], p[2]))
  <2> DEFINE kind == map_status_entry(p[1], p[2])
  <2>1. Word(h, ours, kind) /\ ours \in BOOLEAN /\ kind \in Kinds
    BY <1>2, PostIsWord, Mapped DEF Speakers
  <2>2. h <= head /\ \A c \in checks' : c.sha <= head
    BY <1>2 DEF PostStatus, Unsaid
  <2>3. CASE p[1] = "pending"
    <3>1. p[2] \in {"", "in_progress"}
      BY <2>3, PendingAssumption
    <3>2. kind = "IN_PROGRESS"
      BY <2>3, <3>1 DEF map_status_entry
    <3>3. kind \notin Terminal
      BY <3>2 DEF Terminal, Escalating
    <3> QED
      BY <2>1, <2>2, <3>3 DEF Wakes
  <2>4. CASE p[1] # "pending"
    <3>1. Says(h, ours, kind, <<NewRun(h, ours, 0)>>)
      BY <1>2, <2>4 DEF PostStatus, StatusWakes
    <3> HIDE DEF kind
    <3>2. 0 \in 0..2
      OBVIOUS
    <3>3. \E i \in DOMAIN runs' : runs'[i].pc = "prepare" /\ runs'[i].ours = ours /\ runs'[i].sha = h
      BY <1>0, <2>1, <3>1, <3>2, WokenIsThere
    <3> QED
      BY <2>1, <2>2, <3>3 DEF Wakes, kind
  <2> QED
    BY <2>3, <2>4
<1>3. ASSUME NEW c \in checks, NEW conclusion \in Conclusions, FinishCheck(c, conclusion)
      PROVE  Wakes(c.sha, c.ours, map_check_conclusion(conclusion))
  <2> DEFINE kind == map_check_conclusion(conclusion)
             d == [c EXCEPT !.status = "completed", !.conclusion = conclusion, !.completed = now]
  <2>1. Word(c.sha, c.ours, kind) /\ c \in CheckRuns /\ c.sha \in Heads /\ c.ours \in BOOLEAN
    BY <1>0, <1>3, FinishIsWord, EntryTypes
  <2>2. c.sha <= head
    BY DEF Unsaid
  <2>3. \A e \in checks' : e.sha <= head
    <3>1. d.sha = c.sha /\ checks' = (checks \ {c}) \cup {d}
      BY <1>3, <2>1 DEF FinishCheck, CheckRuns
    <3> HIDE DEF d
    <3> QED
      BY <2>2, <3>1 DEF Unsaid
  <2>4. Says(c.sha, c.ours, kind, <<NewRun(c.sha, c.ours, Named(c.sha))>>)
    BY <1>3 DEF FinishCheck, CompletedCheckWakes
  <2>5. Named(c.sha) \in 0..2 /\ kind \in Kinds
    BY NamedTyped, Mapped
  <2> HIDE DEF kind
  <2>6. \E i \in DOMAIN runs' :
          runs'[i].pc = "prepare" /\ runs'[i].ours = c.ours /\ runs'[i].sha = c.sha
    BY <1>0, <2>1, <2>4, <2>5, WokenIsThere
  <2> QED
    BY <2>1, <2>2, <2>3, <2>6 DEF Wakes, kind
<1> QED
  BY <1>1, <1>2, <1>3 DEF Next, Outside

\* A word about the head that may be the last wakes a run; another one changes nothing
\* of what is read of it.
LEMMA WordIsFollowed ==
  ASSUME TypeOK, Numbered, Unsaid, LastWordFollowed, NEW h, NEW ours, NEW kind, Wakes(h, ours, kind)
  PROVE  Unsaid' /\ LastWordFollowed'
<1>0. /\ Word(h, ours, kind) /\ h \in Heads /\ h <= head /\ head' = head /\ verdict' = verdict
      /\ head \in Heads /\ said \in [Heads -> [at : 0..MaxTime, kinds : SUBSET Kinds]]
      /\ \A g \in Heads : g \in Nat
  <2>1. Word(h, ours, kind) /\ h <= head
    BY DEF Wakes
  <2>2. h \in Heads
    BY <2>1 DEF Word
  <2>3. head' = head /\ verdict' = verdict
    BY <2>1, WordFrame
  <2>4. head \in Heads /\ said \in [Heads -> [at : 0..MaxTime, kinds : SUBSET Kinds]]
    BY DEF TypeOK
  <2> QED
    BY <2>1, <2>2, <2>3, <2>4, HeadsAssumption
<1>1. \A g \in Heads : ~(ours /\ g = h) => said'[g] = said[g]
  BY <1>0, WordFrame
<1>2. Unsaid'
  <2>1. \A g \in Heads : g > head => g # h
    BY <1>0
  <2> QED
    BY <1>0, <1>1, <2>1 DEF Unsaid, Wakes
<1>3. ASSUME NothingStopped', said'[head].kinds \subseteq Terminal
      PROVE  Followed'
  <2>1. CASE ours /\ head = h
    <3> DEFINE k == IF said[h].at = now THEN said[h].kinds \cup {kind} ELSE {kind}
    <3>1. said' = IF ~ours THEN said ELSE [said EXCEPT ![h] = [at |-> now, kinds |-> k]]
      BY <1>0, WordFrame
    <3>2. kind \in k
      OBVIOUS
    <3> HIDE DEF k
    <3>3. said'[head].kinds = k
      BY <1>0, <2>1, <3>1
    <3>4. kind \in Terminal
      BY <1>3, <3>2, <3>3
    <3>5. PICK i \in DOMAIN runs' : runs'[i].pc = "prepare" /\ runs'[i].ours /\ runs'[i].sha = h
      BY <2>1, <3>4 DEF Wakes
    <3>6. Follows(runs[i])'
      BY <1>0, <2>1, <3>5 DEF Follows
    <3> QED
      BY <3>5, <3>6 DEF Followed
  <2>2. CASE ~(ours /\ head = h)
    <3>0. said'[head] = said[head]
      BY <1>0, <1>1, <2>2
    <3>1. \A i \in DOMAIN runs :
            /\ i \in DOMAIN runs' /\ runs'[i].pc = runs[i].pc /\ runs'[i].sha = runs[i].sha
            /\ runs'[i].ours = runs[i].ours /\ runs'[i].seen = runs[i].seen
      BY <1>0, WordRun
    <3>2. \A i \in DOMAIN runs' \ DOMAIN runs : runs'[i].pc = "prepare"
      BY <1>0, WordFrame
    <3>3. Followed
      BY <1>3, <3>0, <3>1 DEF LastWordFollowed, NothingStopped
    <3>4. CASE \E i \in DOMAIN runs : Follows(runs[i])
      <4>1. PICK i \in DOMAIN runs : Follows(runs[i])
        BY <3>4
      <4>2. i \in DOMAIN runs' /\ Follows(runs[i])'
        BY <1>0, <3>1, <4>1 DEF Follows
      <4> QED
        BY <4>2 DEF Followed
    <3>5. CASE ~\E i \in DOMAIN runs : Follows(runs[i])
      <4>1. ASSUME NEW i \in DOMAIN runs', Judges(runs[i])'
            PROVE  i \in DOMAIN runs /\ Judges(runs[i]) /\ Hears(runs[i])'
        <5>1. i \in DOMAIN runs /\ Judges(runs[i])
          BY <1>0, <3>1, <3>2, <4>1 DEF Judges
        <5>2. Hears(runs[i])
          BY <3>3, <3>5, <5>1 DEF Followed
        <5>3. Timeline(runs[i].seen, statuses', head) = Timeline(runs[i].seen, statuses, head)
          <6>1. \A s : Belongs(s, head) => (s \in statuses' <=> s \in statuses)
            BY <1>0, <2>2 DEF Word, Belongs
          <6> QED
            BY <6>1, SameTimeline
        <5>4. Hears(runs[i])'
          BY <1>0, <3>0, <3>1, <5>1, <5>2, <5>3 DEF Hears, resolve_coderabbit_terminal
        <5> QED
          BY <5>1, <5>4
      <4>2. ASSUME NEW i \in DOMAIN runs, Judges(runs[i])
            PROVE  i \in DOMAIN runs' /\ Judges(runs[i])'
        BY <1>0, <3>1, <4>2 DEF Judges
      <4>3. verdict[head] \in said[head].kinds \/ \E i \in DOMAIN runs : Judges(runs[i])
        BY <3>3, <3>5 DEF Followed
      <4>4. verdict'[head'] \in said'[head'].kinds \/ \E i \in DOMAIN runs' : Judges(runs[i])'
        BY <1>0, <3>0, <4>2, <4>3
      <4> QED
        BY <4>1, <4>4 DEF Followed
    <3> QED
      BY <3>4, <3>5
  <2> QED
    BY <2>1, <2>2
<1>4. said'[head'].kinds = said'[head].kinds
  BY <1>0
<1> QED
  BY <1>2, <1>3, <1>4 DEF LastWordFollowed

\* A new head has not been spoken about.
LEMMA OutsideIsFollowed ==
  ASSUME TypeOK, Unsaid, LastWordFollowed, Outside
  PROVE  Unsaid' /\ LastWordFollowed'
<1>0. /\ UNCHANGED <<budget, checks, statuses, runs, verdict, said>>
      /\ head' \in Heads /\ head \in Heads /\ head <= head' /\ \A g \in Heads : g \in Nat
  BY OutsideFrame, PushFrame, HeadsAssumption DEF TypeOK
<1>1. Unsaid'
  <2>1. \A g \in Heads : g > head' => g > head
    BY <1>0
  <2>2. \A c \in checks : c.sha <= head'
    <3> SUFFICES ASSUME NEW c \in checks
                 PROVE  c.sha <= head'
      OBVIOUS
    <3>1. c.sha \in Heads /\ c.sha <= head
      BY EntryTypes DEF TypeOK, Unsaid
    <3> QED
      BY <1>0, <3>1
  <2> QED
    BY <1>0, <2>1, <2>2 DEF Unsaid
<1>2. CASE head' = head
  <2>1. Followed => Followed'
    BY <1>0, <1>2 DEF Followed, Follows, Judges, Hears
  <2> QED
    BY <1>0, <1>1, <1>2, <2>1 DEF LastWordFollowed, NothingStopped
<1>3. CASE head' # head
  <2>1. said[head'].kinds = {"NONE"}
    BY <1>0, <1>3 DEF Unsaid
  <2>2. "NONE" \notin Terminal
    BY DEF Terminal, Escalating
  <2> QED
    BY <1>0, <1>1, <2>1, <2>2 DEF LastWordFollowed
<1> QED
  BY <1>2, <1>3

\* Where only one run changes, what the others follow and have read stays.
LEMMA OthersFollow ==
  ASSUME NEW i \in DOMAIN runs, DOMAIN runs' = DOMAIN runs, UNCHANGED <<head, statuses, said>>,
         \A k \in DOMAIN runs \ {i} : runs'[k] = runs[k],
         verdict'[head] = verdict[head],
         ~Follows(runs[i]), ~Judges(runs[i]), ~Judges(runs[i])', Followed
  PROVE  Followed'
<1>1. \A k \in DOMAIN runs \ {i} : /\ Follows(runs[k]) => Follows(runs[k])'
                                   /\ Judges(runs[k]) <=> Judges(runs[k])'
                                   /\ Hears(runs[k]) => Hears(runs[k])'
  BY DEF Follows, Judges, Hears
<1>2. CASE \E k \in DOMAIN runs : Follows(runs[k])
  <2>1. PICK k \in DOMAIN runs : Follows(runs[k])
    BY <1>2
  <2>2. k \in DOMAIN runs' /\ Follows(runs[k])'
    BY <1>1, <2>1
  <2> QED
    BY <2>2 DEF Followed
<1>3. CASE ~\E k \in DOMAIN runs : Follows(runs[k])
  <2>1. /\ \A k \in DOMAIN runs : Judges(runs[k]) => Hears(runs[k])
        /\ verdict[head] \in said[head].kinds \/ \E k \in DOMAIN runs : Judges(runs[k])
    BY <1>3 DEF Followed
  <2>2. \A k \in DOMAIN runs' : Judges(runs[k])' => Hears(runs[k])'
    BY <1>1, <2>1
  <2>3. verdict'[head'] \in said'[head'].kinds \/ \E k \in DOMAIN runs' : Judges(runs[k])'
    BY <1>1, <2>1
  <2> QED
    BY <2>2, <2>3 DEF Followed
<1> QED
  BY <1>2, <1>3

\* The run in turn: it goes on towards both lists, reads them, or is stopped.
LEMMA TurnIsFollowed ==
  ASSUME TypeOK, Numbered, Latest, Unsaid, LastWordFollowed, NEW i \in DOMAIN runs, StepOf(i)
  PROVE  Unsaid' /\ LastWordFollowed'
<1>0. /\ Moves(i) /\ DOMAIN runs' = DOMAIN runs
      /\ UNCHANGED <<head, statuses, said, checks>> /\ head \in Heads
      /\ \A k \in DOMAIN runs : runs[k] \in RunStates
  BY StepMoves, RunsTyped DEF TypeOK, Moves, PullUnchanged
<1>1. Unsaid'
  BY <1>0 DEF Unsaid
<1> SUFFICES ASSUME NothingStopped', said[head].kinds \subseteq Terminal
             PROVE  Followed'
  BY <1>0, <1>1 DEF LastWordFollowed
<1>2. Followed
  <2>1. NothingStopped
    <3> SUFFICES ASSUME NEW k \in DOMAIN runs
                 PROVE  runs[k].pc \notin {"mismatch", "failed", "refused", "ignored"}
      BY DEF NothingStopped
    <3>1. CASE k = i
      BY <3>1 DEF StepOf, Prepare, PrepareFails, Enqueue, Dequeue, FetchPull, CollectChecks,
                  CollectStatuses, Stands
    <3>2. CASE k # i
      <4>1. runs'[k] = runs[k] \/ runs[k].pc = "queued"
        BY <1>0, <3>2 DEF Moves
      <4> QED
        BY <1>0, <4>1 DEF NothingStopped
    <3> QED
      BY <3>1, <3>2
  <2> QED
    BY <2>1 DEF LastWordFollowed
<1>3. ASSUME Follows(runs[i])'
      PROVE  Followed'
  BY <1>0, <1>3 DEF Followed
<1>4. ASSUME NEW stage, Enters(i, stage)
      PROVE  /\ runs'[i].pc = stage /\ runs'[i].sha = runs[i].sha
             /\ \A k \in DOMAIN runs \ {i} : runs'[k] = runs[k]
  BY <1>0, <1>4 DEF Enters, RunStates
<1>5. runs'[i].pc \notin {"mismatch", "failed", "refused", "ignored"}
  BY <1>0 DEF NothingStopped
<1>6. CASE Prepare(i) \/ PrepareFails(i)
  <2>1. CASE Enters(i, "skipped")
    <3>1. verdict' = verdict /\ ~Judges(runs[i])
      BY <1>6 DEF Prepare, PrepareFails, Stands, Judges
    <3>2. ~Follows(runs[i])
      <4>1. runs'[i].pc = "skipped"
        BY <1>4, <2>1
      <4>2. Prepare(i) /\ ~Enters(i, "ignored") /\ ~Enters(i, "failed")
        BY <1>4, <1>6, <4>1 DEF PrepareFails
      <4>3. runs' # [runs EXCEPT ![i] =
                       [@ EXCEPT !.pc = "gated", !.spec_path = pull.marker.path,
                                 !.prepared = pull.marker.version]]
        BY <1>0, <4>1 DEF RunStates
      <4>4. ~runs[i].ours \/ runs[i].sha # head
        BY <4>2, <4>3 DEF Prepare, has_coderabbit_event_identity
      <4> QED
        BY <1>6, <4>4 DEF Prepare, PrepareFails, Stands, Follows
    <3>3. ~Judges(runs[i])'
      BY <1>4, <2>1 DEF Judges
    <3> QED
      BY <1>0, <1>2, <1>4, <2>1, <3>1, <3>2, <3>3, OthersFollow
  <2>2. CASE ~Enters(i, "skipped")
    <3>1. Prepare(i) /\ ~Enters(i, "ignored") /\ ~Enters(i, "failed")
      BY <1>4, <1>5, <1>6 DEF PrepareFails
    <3>2. runs' = [runs EXCEPT ![i] =
                     [@ EXCEPT !.pc = "gated", !.spec_path = pull.marker.path,
                               !.prepared = pull.marker.version]]
      BY <2>2, <3>1 DEF Prepare
    <3>3. runs'[i].pc = "gated"
      BY <1>0, <3>2 DEF RunStates
    <3> QED
      BY <1>3, <3>3 DEF Follows
  <2> QED
    BY <2>1, <2>2
<1>7. CASE Enqueue(i) \/ Dequeue(i)
  <2>1. runs'[i].pc \in {"fetch", "queued"}
    <3>1. CASE Enters(i, "fetch")
      BY <1>4, <3>1
    <3>2. CASE ~Enters(i, "fetch")
      <4>1. runs' = [k \in DOMAIN runs |->
                       IF k = i THEN [runs[k] EXCEPT !.pc = "queued"]
                       ELSE IF Cancels(k) THEN [runs[k] EXCEPT !.pc = "cancelled"]
                       ELSE runs[k]]
        BY <1>7, <3>2 DEF Enqueue, Dequeue
      <4>2. runs'[i] = [runs[i] EXCEPT !.pc = "queued"]
        BY <4>1
      <4> QED
        BY <1>0, <4>2 DEF RunStates
    <3> QED
      BY <3>1, <3>2
  <2> QED
    BY <1>3, <2>1 DEF Follows
<1>8. CASE FetchPull(i)
  <2>1. ~Enters(i, "mismatch") /\ ~Enters(i, "refused")
    BY <1>4, <1>5
  <2>2. /\ runs[i].sha = head
        /\ runs' = [runs EXCEPT ![i] = [@ EXCEPT !.pc = "checks", !.spec = pull.marker.version]]
    BY <1>8, <2>1 DEF FetchPull
  <2>3. runs'[i].pc = "checks" /\ runs'[i].sha = head
    BY <1>0, <2>2 DEF RunStates
  <2> QED
    BY <1>0, <1>3, <2>3 DEF Follows
<1>9. CASE CollectChecks(i)
  <2> DEFINE h == runs[i].sha
             cs == {c \in checks : c.sha = h}
  <2>0. /\ runs[i].pc = "checks" /\ verdict' = verdict
        /\ runs' = [runs EXCEPT ![i] =
                      [@ EXCEPT !.pc = "statuses", !.seen = cs, !.possible = said[h].kinds]]
    BY <1>9 DEF CollectChecks, list_check_runs_for_ref, Stands
  <2> HIDE DEF cs
  <2>1. /\ runs'[i].pc = "statuses" /\ runs'[i].sha = h /\ runs'[i].seen = cs
        /\ \A k \in DOMAIN runs \ {i} : runs'[k] = runs[k]
    BY <1>0, <2>0 DEF RunStates
  <2>2. CASE h # head
    <3>1. ~Follows(runs[i]) /\ ~Judges(runs[i]) /\ ~Judges(runs[i])'
      BY <1>0, <2>0, <2>1, <2>2 DEF Follows, Judges
    <3> QED
      BY <1>0, <1>2, <2>0, <2>1, <3>1, OthersFollow
  <2>3. CASE h = head
    <3>1. Timeline(cs, statuses, head) = Timeline(checks, statuses, head)
      <4>1. \A c : Belongs(c, head) => (c \in cs <=> c \in checks)
        BY <2>3 DEF Belongs, cs
      <4> QED
        BY <4>1, SameTimeline
    <3>2. resolve_coderabbit_terminal(cs, statuses, head) \in said[head].kinds
      <4> DEFINE items == Timeline(checks, statuses, head)
                 kind == resolve_coderabbit_terminal(checks, statuses, head)
      <4>1. kind = resolve_coderabbit_terminal(cs, statuses, head)
        BY <3>1 DEF resolve_coderabbit_terminal
      <4>2. /\ \A a \in items : a.at <= said[head].at /\ (a.at = said[head].at => a.kind \in said[head].kinds)
            /\ IF said[head].at = 0 THEN "NONE" \in said[head].kinds
                                    ELSE \E a \in items : a.at = said[head].at
        BY <1>0 DEF Latest
      <4>3. "NONE" \notin said[head].kinds
        BY DEF Terminal, Escalating
      <4>4. items # {} => \E a \in items : kind = a.kind /\ \A b \in items : b.at <= a.at
        BY Resolves DEF TypeOK, Numbered
      <4>5. said[head].at \in Nat /\ \A a \in items : a.at \in Nat
        BY <1>0, TimelineTyped DEF TypeOK, Numbered, Items
      <4> HIDE DEF items, kind
      <4>6. PICK a \in items : kind = a.kind /\ \A b \in items : b.at <= a.at
        BY <4>2, <4>3, <4>4
      <4>7. a.at = said[head].at
        BY <4>2, <4>3, <4>5, <4>6
      <4> QED
        BY <4>1, <4>2, <4>6, <4>7
    <3>3. Judges(runs[i])' /\ Hears(runs[i])'
      BY <1>0, <2>1, <2>3, <3>2 DEF Judges, Hears
    <3>4. \A k \in DOMAIN runs \ {i} : ~Judges(runs[k])'
      <4>1. \A k \in DOMAIN runs \ {i} : runs[k].pc \notin Running
        BY <2>0 DEF TypeOK, Running
      <4> QED
        BY <2>1, <4>1 DEF Judges, Running
    <3> QED
      BY <1>0, <3>3, <3>4 DEF Followed
  <2> QED
    BY <2>2, <2>3
<1>10. CASE CollectStatuses(i)
  <2> DEFINE kind == resolve_coderabbit_terminal(runs[i].seen, statuses, runs[i].sha)
  <2>0. /\ runs[i].pc = "statuses" /\ verdict' = [verdict EXCEPT ![runs[i].sha] = kind]
        /\ runs' = [runs EXCEPT ![i] = [@ EXCEPT !.pc = "decided", !.seen = {}, !.kind = kind]]
    BY <1>10 DEF CollectStatuses, Stands
  <2>1. runs'[i].pc = "decided" /\ \A k \in DOMAIN runs \ {i} : runs'[k] = runs[k]
    BY <1>0, <2>0 DEF RunStates
  <2>2. ~Follows(runs[i]) /\ ~Judges(runs[i])'
    BY <2>0, <2>1 DEF Follows, Judges
  <2>3. verdict \in [Heads -> Kinds]
    BY DEF TypeOK
  <2>4. CASE runs[i].sha # head
    <3>1. verdict'[head] = verdict[head] /\ ~Judges(runs[i])
      BY <1>0, <2>0, <2>3, <2>4 DEF Judges
    <3> QED
      BY <1>0, <1>2, <2>1, <2>2, <3>1, OthersFollow
  <2>5. CASE runs[i].sha = head
    <3>1. CASE \E k \in DOMAIN runs : Follows(runs[k])
      <4>1. PICK k \in DOMAIN runs : Follows(runs[k])
        BY <3>1
      <4>2. Follows(runs[k])'
        BY <1>0, <2>1, <2>2, <4>1 DEF Follows
      <4> QED
        BY <1>0, <4>2 DEF Followed
    <3>2. CASE ~\E k \in DOMAIN runs : Follows(runs[k])
      <4>1. Judges(runs[i])
        BY <2>0, <2>5 DEF Judges
      <4>2. Hears(runs[i])
        BY <1>2, <3>2, <4>1 DEF Followed
      <4>3. kind \in said[head].kinds
        BY <2>5, <4>2 DEF Hears
      <4> HIDE DEF kind
      <4>4. verdict'[head] \in said[head].kinds
        BY <1>0, <2>0, <2>3, <2>5, <4>3
      <4>5. \A k \in DOMAIN runs : ~Judges(runs[k])'
        <5>1. \A k \in DOMAIN runs \ {i} : runs[k].pc \notin Running
          BY <2>0 DEF TypeOK, Running
        <5> QED
          BY <2>1, <2>2, <5>1 DEF Judges, Running
      <4> QED
        BY <1>0, <4>4, <4>5 DEF Followed
    <3> QED
      BY <3>1, <3>2
  <2> QED
    BY <2>4, <2>5
<1> QED
  BY <1>6, <1>7, <1>8, <1>9, <1>10 DEF StepOf

-----------------------------------------------------------------------------
(* The theorems *)

LEMMA InitHolds ==
  ASSUME Init
  PROVE  IInv
<1>0. Heads = 1..NumHeads /\ NumHeads \in Nat \ {0} /\ MaxTime \in Nat \ {0}
      /\ Budgets \subseteq [entries : Nat, touches : Nat]
  BY HeadsAssumption, BoundsAssumption
<1>1. runs = <<>> /\ DOMAIN runs = {} /\ runs \in Seq(RunStates)
  <2>1. runs = <<>>
    BY DEF Init
  <2> QED
    BY <2>1, EmptySeq
<1>2. TypeOK
  <2>1. files \in [Heads -> Tree]
    BY DEF Init, Tree, Versions
  <2>2. pull \in Pulls
    BY DEF Init, Delivered, Pulls, Markers, Paths, Versions
  <2>3. verdict \in [Heads -> Kinds] /\ said \in [Heads -> [at : 0..MaxTime, kinds : SUBSET Kinds]]
    BY <1>0 DEF Init, Kinds
  <2>4. now \in 1..MaxTime /\ head \in Heads /\ budget \in Budgets /\ touches \in 0..budget.touches
    BY <1>0 DEF Init
  <2> QED
    BY <1>1, <2>1, <2>2, <2>3, <2>4 DEF TypeOK, Init
<1>3. Numbered
  BY <1>1 DEF Init, Numbered, CheckSet, StatusSet
<1>4. Latest
  <2>1. \A h \in Heads : Timeline(checks, statuses, h) = {}
    BY DEF Init, Timeline
  <2> SUFFICES ASSUME NEW h \in Heads
               PROVE  said[h].at <= now /\ said[h].at = 0 /\ "NONE" \in said[h].kinds
    BY <2>1 DEF Latest
  <2> QED
    BY DEF Init
<1>5. Heard /\ Prepared /\ VerdictWasTrue
  BY <1>1 DEF Heard, Prepared, VerdictWasTrue
<1> QED
  BY <1>2, <1>3, <1>4, <1>5 DEF IInv

\* The invariant holds in every behaviour.
LEMMA IInvInvariant ==
  Spec => []IInv
<1>1. Init => IInv
  BY InitHolds
<1>2. IInv /\ [Next]_vars => IInv'
  <2> SUFFICES ASSUME IInv, [Next]_vars
               PROVE  IInv'
    OBVIOUS
  <2>1. TypeOK /\ Numbered /\ Latest /\ Heard /\ Prepared /\ VerdictWasTrue
    BY DEF IInv
  <2>2. CASE Next
    <3>1. TypeOK' /\ Numbered'
      BY <2>1, <2>2, TypedStep
    <3>2. Latest' /\ Heard' /\ Prepared' /\ VerdictWasTrue'
      BY <2>1, <2>2, LatestStep, HeardStep, PreparedStep, VerdictStep
    <3> QED
      BY <3>1, <3>2 DEF IInv
  <2>3. CASE UNCHANGED vars
    <3>1. TypeOK' /\ Numbered'
      BY <2>1, <2>3 DEF vars, TypeOK, Numbered, CheckSet, StatusSet
    <3>2. Latest' /\ Heard'
      BY <2>1, <2>3 DEF vars, Latest, Heard, HeardSince, Stands
    <3>3. Prepared' /\ VerdictWasTrue'
      BY <2>1, <2>3 DEF vars, Prepared, VerdictWasTrue, Stands
    <3> QED
      BY <3>1, <3>2, <3>3 DEF IInv
  <2> QED
    BY <2>2, <2>3
<1> QED
  BY <1>1, <1>2, PTL DEF Spec

\* The last word is followed in every behaviour.
LEMMA FollowedInvariant ==
  Spec => [](Unsaid /\ LastWordFollowed)
<1> DEFINE F == Unsaid /\ LastWordFollowed
<1>1. Init => F
  <2>1. "NONE" \notin Terminal
    BY DEF Terminal, Escalating
  <2>2. Init => head \in Heads
    BY HeadsAssumption DEF Init
  <2> QED
    BY <2>1, <2>2 DEF Init, Unsaid, LastWordFollowed
<1>2. IInv /\ F /\ [Next]_vars => F'
  <2> SUFFICES ASSUME IInv, F, [Next]_vars
               PROVE  F'
    OBVIOUS
  <2>1. TypeOK /\ Numbered /\ Latest /\ Unsaid /\ LastWordFollowed
    BY DEF IInv
  <2>2. CASE Next
    BY <2>1, <2>2, WordsWake, WordIsFollowed, OutsideIsFollowed, TurnIsFollowed
  <2>3. CASE UNCHANGED vars
    BY <2>1, <2>3 DEF vars, Unsaid, LastWordFollowed, NothingStopped, Followed, Follows, Judges, Hears
  <2> QED
    BY <2>2, <2>3
<1> QED
  BY <1>1, <1>2, IInvInvariant, PTL DEF Spec

\* The review workflow of agent-review.yml: the state keeps its types, and of the
\* reviews of a pull request one runs and one waits at most.
THEOREM TypeCorrect == Spec => []TypeOK
<1>1. IInv => TypeOK
  BY DEF IInv
<1> QED
  BY <1>1, IInvInvariant, PTL

\* resolve_coderabbit_terminal over check runs read in one call and statuses read in
\* another: a review's verdict was CodeRabbit's last word at a moment between the two.
THEOREM VerdictWasTrueHolds == Spec => []VerdictWasTrue
<1>1. IInv => VerdictWasTrue
  BY DEF IInv
<1> QED
  BY <1>1, IInvInvariant, PTL

\* prepare_review and _load_review_spec: a review judges by the version of the Task
\* Spec that its preparation found, whatever people push and edit between the jobs.
THEOREM JudgedByPreparedSpecHolds == Spec => []JudgedByPreparedSpec
<1>1. IInv => JudgedByPreparedSpec
  BY DEF IInv, Prepared, JudgedByPreparedSpec, Running
<1> QED
  BY <1>1, IInvInvariant, PTL

\* The concurrency group of agent-review.yml and the second look at the head: whatever is
\* cancelled or skipped, CodeRabbit's last word about the head is missed only if a run
\* has failed, turned the pull request down, or stopped at a moved head.
THEOREM OnlyTheOvertakenMissHolds == Spec => []OnlyTheOvertakenMiss
<1>1. Unsaid /\ LastWordFollowed => OnlyTheOvertakenMiss
  <2> SUFFICES ASSUME LastWordFollowed, NothingStopped, said[head].kinds \subseteq Terminal,
                      \A i \in DOMAIN runs : runs[i].pc \in Finished
               PROVE  verdict[head] \in said[head].kinds
    BY DEF OnlyTheOvertakenMiss, LastWordIsHeard, NothingStopped
  <2>1. \A i \in DOMAIN runs : ~Follows(runs[i]) /\ ~Judges(runs[i])
    BY DEF Follows, Judges, Finished
  <2> QED
    BY <2>1 DEF LastWordFollowed, Followed
<1> QED
  BY <1>1, FollowedInvariant, PTL
=============================================================================

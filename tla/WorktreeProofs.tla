--------------------------- MODULE WorktreeProofs ---------------------------
(***************************************************************************)
(* Proofs about Worktree, for every repository, every policy, every Task   *)
(* Spec and any number of edits: which paths the lists of git name, what   *)
(* an accepted policy protects, and with both that a push stays inside of  *)
(* what may be edited and that a report is as complete as it can be.       *)
(***************************************************************************)
EXTENDS Worktree, SequenceTheorems, TLAPS

-----------------------------------------------------------------------------
(* Paths and patterns *)

\* What a segment of a path may be.
Name == STRING \cup {Probe}

\* A list of strings is a list of names.
LEMMA StringsAreNames ==
  ASSUME NEW s \in Seq(STRING)
  PROVE  s \in Seq(Name)
<1>1. Len(s) \in Nat /\ s \in [1..Len(s) -> STRING]
  BY LenProperties
<1>2. s \in [1..Len(s) -> Name]
  BY <1>1 DEF Name
<1> QED
  BY <1>1, <1>2, SeqDef

\* A directory is above a path if the path begins with it.
LEMMA UnderByNames ==
  ASSUME NEW dir \in Seq(Name), NEW path \in Seq(Name)
  PROVE  IsUnder(dir, path)
           <=> Len(dir) <= Len(path) /\ \A i \in 1..Len(dir) : path[i] = dir[i]
<1>1. Len(dir) \in Nat /\ Len(path) \in Nat
  BY LenProperties
<1>2. CASE Len(dir) <= Len(path)
  <2> DEFINE head == SubSeq(path, 1, Len(dir))
  <2>1. \A i \in 1..Len(path) : path[i] \in Name
    BY LenProperties, ElementOfSeq
  <2>2. head = [i \in 1..Len(dir) |-> path[i]]
    BY <1>1, <1>2
  <2>3. dir = [i \in 1..Len(dir) |-> dir[i]]
    BY LenProperties
  <2>4. head = dir <=> \A i \in 1..Len(dir) : path[i] = dir[i]
    BY <2>2, <2>3
  <2> QED
    BY <1>2, <2>4 DEF IsUnder
<1>3. CASE ~(Len(dir) <= Len(path))
  BY <1>3 DEF IsUnder
<1> QED
  BY <1>2, <1>3

\* The child that stands for the files of a directory.
LEMMA Child ==
  ASSUME NEW dir \in Seq(Name)
  PROVE  LET child == Append(dir, Probe)
         IN  /\ child \in Seq(Name) /\ Len(child) = Len(dir) + 1
             /\ DOMAIN child = 1..(Len(dir) + 1)
             /\ \A i \in 1..Len(dir) : child[i] = dir[i]
             /\ child[Len(dir) + 1] = Probe
<1>1. Probe \in Name
  BY DEF Name
<1> HIDE DEF Probe, Name
<1> DEFINE child == Append(dir, Probe)
<1>2. child \in Seq(Name) /\ Len(child) = Len(dir) + 1 /\ Len(dir) \in Nat
  BY <1>1, AppendProperties, LenProperties
<1>3. \A i \in 1..Len(dir) : child[i] = dir[i]
  BY <1>1, AppendProperties
<1>4. child[Len(dir) + 1] = Probe
  BY <1>1, AppendProperties
<1>5. DOMAIN child = 1..(Len(dir) + 1)
  BY <1>2, LenProperties
<1> QED
  BY <1>2, <1>3, <1>4, <1>5

\* A wildcard that stands for the name of the child stands for any names.
LEMMA WildcardGrows ==
  ASSUME NEW dir \in Seq(Name), NEW path \in Seq(Name), NEW q \in Seq(Name),
         \A i \in DOMAIN q : q[i] # Probe,
         IsUnder(dir, path), Len(path) > Len(dir),
         fnmatch(Append(dir, Probe), q)
  PROVE  fnmatch(path, q)
<1> DEFINE child == Append(dir, Probe)
           n == Len(dir)
<1>1. /\ n \in Nat /\ Len(path) \in Nat /\ DOMAIN path = 1..Len(path)
      /\ DOMAIN child = 1..(n + 1) /\ child[n + 1] = Probe
      /\ \A i \in 1..n : child[i] = dir[i]
  BY Child, LenProperties
<1>2. \A i \in 1..n : path[i] = dir[i]
  BY UnderByNames
<1>3. PICK to \in [DOMAIN child -> DOMAIN q] :
        /\ \A k \in DOMAIN q : \E i \in DOMAIN child : to[i] = k
        /\ \A i, j \in DOMAIN child : i < j => to[i] <= to[j]
        /\ \A i \in DOMAIN child :
             \/ q[to[i]] \in Wild
             \/ child[i] = q[to[i]] /\ \A j \in DOMAIN child : to[j] = to[i] => j = i
  BY DEF fnmatch
<1> HIDE DEF child, n
<1> DEFINE on == [i \in DOMAIN path |-> IF i <= n THEN to[i] ELSE to[n + 1]]
<1>4. n + 1 \in DOMAIN child /\ \A i \in 1..n : i \in DOMAIN child
  BY <1>1
<1>5. \A i \in DOMAIN path : i <= n => i \in 1..n
  BY <1>1
<1>6. on \in [DOMAIN path -> DOMAIN q]
  BY <1>3, <1>4, <1>5
<1>7. q[to[n + 1]] \in Wild
  BY <1>1, <1>3, <1>4
<1>8. ASSUME NEW k \in DOMAIN q
      PROVE  \E i \in DOMAIN path : on[i] = k
  <2>1. PICK i \in DOMAIN child : to[i] = k
    BY <1>3
  <2>2. i \in 1..(n + 1) /\ n + 1 <= Len(path)
    BY <1>1, Len(path) > Len(dir) DEF n
  <2>3. i \in DOMAIN path /\ on[i] = k
    BY <1>1, <2>1, <2>2
  <2> QED
    BY <2>3
<1>9. ASSUME NEW i \in DOMAIN path, NEW j \in DOMAIN path, i < j
      PROVE  on[i] <= on[j]
  <2>0. i \in Nat /\ j \in Nat /\ i >= 1 /\ j >= 1
    BY <1>1
  <2>1. CASE j <= n
    BY <1>1, <1>3, <1>9, <2>0, <2>1
  <2>2. CASE i <= n /\ j > n
    <3>1. on[i] = to[i] /\ on[j] = to[n + 1]
      BY <1>1, <2>0, <2>2
    <3>2. i \in DOMAIN child /\ n + 1 \in DOMAIN child /\ i < n + 1
      BY <1>1, <2>0, <2>2
    <3>3. to[i] <= to[n + 1]
      BY <1>3, <3>2
    <3> QED
      BY <3>1, <3>3
  <2>3. CASE i > n
    <3>1. on[i] = to[n + 1] /\ on[j] = to[n + 1]
      BY <1>1, <1>9, <2>0, <2>3
    <3>2. to[n + 1] \in 1..Len(q) /\ Len(q) \in Nat
      BY <1>3, <1>4, LenProperties
    <3> QED
      BY <3>1, <3>2
  <2> QED
    BY <1>1, <2>0, <2>1, <2>2, <2>3
<1>10. ASSUME NEW i \in DOMAIN path
       PROVE  \/ q[on[i]] \in Wild
              \/ path[i] = q[on[i]] /\ \A j \in DOMAIN path : on[j] = on[i] => j = i
  <2>1. CASE i > n
    BY <1>1, <1>7, <2>1
  <2>2. CASE i <= n /\ q[to[i]] \notin Wild
    <3>1. i \in 1..n /\ on[i] = to[i]
      BY <1>1, <2>2
    <3>2. child[i] = q[to[i]] /\ \A j \in DOMAIN child : to[j] = to[i] => j = i
      BY <1>3, <1>4, <2>2, <3>1
    <3>3. ASSUME NEW j \in DOMAIN path, on[j] = on[i]
          PROVE  j = i
      <4>1. CASE j <= n
        BY <1>1, <1>4, <1>5, <3>1, <3>2, <3>3, <4>1
      <4>2. CASE j > n
        BY <1>1, <1>4, <1>7, <2>2, <3>1, <3>3, <4>2
      <4> QED
        BY <1>1, <4>1, <4>2
    <3> QED
      BY <1>1, <1>2, <3>1, <3>2, <3>3
  <2>3. CASE i <= n /\ q[to[i]] \in Wild
    BY <1>1, <2>3
  <2> QED
    BY <1>1, <2>1, <2>2, <2>3
<1> HIDE DEF on
<1> QED
  BY <1>6, <1>8, <1>9, <1>10 DEF fnmatch

\* What protects the probe protects every file in the directory, at any depth.
LEMMA DirectoryIsProtected ==
  ASSUME NEW dir \in Seq(Name), NEW path \in Seq(Name), NEW patterns,
         \A q \in patterns : q \in Seq(Name) /\ \A i \in DOMAIN q : q[i] # Probe,
         _directory_is_recursively_protected(dir, patterns),
         IsUnder(dir, path)
  PROVE  MatchesAny(path, patterns)
<1>0. Len(dir) \in Nat /\ Len(path) \in Nat /\ Len(dir) <= Len(path)
      /\ \A i \in 1..Len(dir) : path[i] = dir[i]
  BY UnderByNames, LenProperties
<1>1. dir # <<>>
  BY DEF _directory_is_recursively_protected, MatchesAny, path_matches
<1>2. Len(dir) >= 1 /\ path # <<>>
  BY <1>0, <1>1, EmptySeq, LenProperties
<1>3. CASE Len(path) = Len(dir)
  <2>1. path = dir
    <3>1. path = [i \in 1..Len(path) |-> path[i]] /\ dir = [i \in 1..Len(dir) |-> dir[i]]
      BY LenProperties
    <3> QED
      BY <1>0, <1>3, <3>1
  <2> QED
    BY <2>1 DEF _directory_is_recursively_protected
<1>4. CASE Len(path) > Len(dir)
  <2> DEFINE child == Append(dir, Probe)
             n == Len(dir)
  <2>1. PICK q \in patterns : path_matches(child, q)
    BY DEF _directory_is_recursively_protected, MatchesAny
  <2>2. /\ q \in Seq(Name) /\ q # <<>> /\ Len(q) \in Nat /\ DOMAIN q = 1..Len(q)
        /\ \A i \in DOMAIN q : q[i] # Probe
    BY <2>1, LenProperties DEF path_matches
  <2>3. /\ child \in Seq(Name) /\ Len(child) = n + 1 /\ child[n + 1] = Probe
        /\ \A i \in 1..n : child[i] = dir[i]
    BY Child
  <2> HIDE DEF child
  <2>4. CASE Len(q) > 1 /\ q[Len(q)] = "**"
    <3> DEFINE r == SubSeq(q, 1, Len(q) - 1)
    <3>1. /\ r \in Seq(Name) /\ Len(r) = Len(q) - 1
          /\ \A i \in 1..(Len(q) - 1) : r[i] = q[i]
      BY <2>2, <2>4, SubSeqProperties
    <3>2. IsUnder(r, child)
      BY <2>1, <2>4 DEF path_matches
    <3> HIDE DEF r
    <3>3. Len(r) <= n + 1 /\ \A i \in 1..Len(r) : child[i] = r[i]
      BY <2>3, <3>1, <3>2, UnderByNames
    <3>4. Len(r) <= n
      <4>0. Len(r) \in Nat /\ n \in Nat /\ Len(r) <= n + 1
        BY <1>0, <3>1, <3>3, LenProperties
      <4>1. SUFFICES ASSUME Len(r) = n + 1 PROVE FALSE
        BY <4>0
      <4>2. n + 1 \in 1..Len(r) /\ n + 1 \in 1..(Len(q) - 1) /\ n + 1 \in DOMAIN q
        BY <1>0, <2>2, <3>1, <4>1
      <4> QED
        BY <2>2, <2>3, <3>1, <3>3, <4>2
    <3>5. \A i \in 1..Len(r) : path[i] = r[i]
      BY <1>0, <2>2, <2>3, <3>1, <3>3, <3>4
    <3>6. IsUnder(r, path)
      BY <1>0, <2>2, <3>1, <3>4, <3>5, UnderByNames
    <3>7. path_matches(path, q)
      BY <1>2, <2>2, <2>4, <3>6 DEF path_matches, r
    <3> QED
      BY <3>7 DEF MatchesAny
  <2>5. CASE ~(Len(q) > 1 /\ q[Len(q)] = "**") /\ Len(q) = 1 /\ Literal(q)
    <3>1. IsUnder(q, child)
      BY <2>1, <2>5 DEF path_matches
    <3>2. child[1] = q[1]
      BY <2>2, <2>3, <2>5, <3>1, UnderByNames
    <3>3. path[1] = q[1]
      BY <1>0, <1>2, <2>3, <3>2
    <3>4. IsUnder(q, path)
      BY <1>0, <1>2, <2>2, <2>5, <3>3, UnderByNames
    <3>5. path_matches(path, q)
      BY <1>2, <2>2, <2>5, <3>4 DEF path_matches
    <3> QED
      BY <3>5 DEF MatchesAny
  <2>6. CASE ~(Len(q) > 1 /\ q[Len(q)] = "**") /\ ~(Len(q) = 1 /\ Literal(q))
    <3>1. fnmatch(child, q)
      BY <2>1, <2>6 DEF path_matches
    <3>2. fnmatch(path, q)
      BY <1>4, <2>2, <3>1, WildcardGrows DEF child
    <3>3. path_matches(path, q)
      BY <1>2, <2>2, <2>6, <3>2 DEF path_matches
    <3> QED
      BY <3>3 DEF MatchesAny
  <2> QED
    BY <2>4, <2>5, <2>6
<1> QED
  BY <1>0, <1>3, <1>4

-----------------------------------------------------------------------------
(* The lists of git *)

\* What git diff tells: of every path that differs and is there, what it holds; of every
\* one that is gone, that it is, if only as the source of a rename.
LEMMA DiffTells ==
  ASSUME NEW s \in Tree, NEW t \in Tree
  PROVE  /\ \A p \in Differ(s, t) : t[p] # Absent => \E c \in Diff(s, t) : c.path = p
         /\ \A p \in Differ(s, t) : t[p] = Absent => \E c \in Diff(s, t) : c.old = p
         /\ \A c \in Diff(s, t) :
              /\ c.path \in Differ(s, t)
              /\ \/ c.old = c.path
                 \/ /\ s[c.path] = Absent /\ t[c.path] # Absent
                    /\ s[c.old] # Absent /\ t[c.old] = Absent /\ s[c.old] = t[c.path]
<1> DEFINE there   == {p \in Differ(s, t) : t[p] # Absent}
           changes == {Change(p, Source(s, t, p)) : p \in there}
           renamed == {c.old : c \in changes}
           others  == {Change(p, p) : p \in Differ(s, t) \ (there \cup renamed)}
<1>1. Diff(s, t) = changes \cup others
  BY DEF Diff
<1>2. ASSUME NEW p \in there
      PROVE  \/ Source(s, t, p) = p
             \/ /\ s[p] = Absent /\ s[Source(s, t, p)] # Absent
                /\ t[Source(s, t, p)] = Absent /\ s[Source(s, t, p)] = t[p]
  <2> DEFINE pairs   == {r \in Differ(s, t) \X Differ(s, t) :
                           /\ s[r[1]] # Absent /\ t[r[1]] = Absent
                           /\ s[r[2]] = Absent /\ t[r[2]] = s[r[1]]}
             Apart(R) == \A r, q \in R : r[1] = q[1] <=> r[2] = q[2]
             renames == CHOOSE R \in SUBSET pairs :
                          Apart(R) /\ \A r \in pairs \ R : ~Apart(R \cup {r})
             from    == {q \in Paths : <<q, p>> \in pairs \cap renames}
             q       == CHOOSE x \in from : TRUE
  <2>1. Source(s, t, p) = IF from # {} THEN q ELSE p
    BY DEF Source
  <2>2. \A x \in from : <<x, p>> \in pairs
    OBVIOUS
  <2>3. \A x : <<x, p>> \in pairs =>
          s[x] # Absent /\ t[x] = Absent /\ s[p] = Absent /\ t[p] = s[x]
    OBVIOUS
  <2>4. from # {} => q \in from
    OBVIOUS
  <2> HIDE DEF pairs, from, q
  <2> QED
    BY <2>1, <2>2, <2>3, <2>4
<1>3. \A p \in there : Change(p, Source(s, t, p)) \in changes
  OBVIOUS
<1>4. \A p, q : Change(p, q).path = p /\ Change(p, q).old = q
  BY DEF Change
<1>5. \A p \in Differ(s, t) : t[p] # Absent => p \in there
  OBVIOUS
<1>6. \A p \in Differ(s, t) \ (there \cup renamed) : Change(p, p) \in others
  OBVIOUS
<1>7. \A p \in Differ(s, t) : t[p] = Absent => p \notin there
  OBVIOUS
<1>8. \A p \in renamed : \E c \in changes : c.old = p
  OBVIOUS
<1>9. ASSUME NEW c \in changes
      PROVE  \E p \in there : c = Change(p, Source(s, t, p))
  OBVIOUS
<1>10. ASSUME NEW c \in others
       PROVE  \E p \in Differ(s, t) : c = Change(p, p)
  OBVIOUS
<1>11. \A p \in there : p \in Differ(s, t) /\ t[p] # Absent
  OBVIOUS
<1> HIDE DEF there, changes, renamed, others
<1>12. \A p \in Differ(s, t) : t[p] # Absent => \E c \in Diff(s, t) : c.path = p
  BY <1>1, <1>3, <1>4, <1>5
<1>13. ASSUME NEW p \in Differ(s, t), t[p] = Absent
       PROVE  \E c \in Diff(s, t) : c.old = p
  <2>1. CASE p \in renamed
    BY <1>1, <1>8, <2>1
  <2>2. CASE p \notin renamed
    <3>1. Change(p, p) \in others
      BY <1>6, <1>7, <1>13, <2>2
    <3> QED
      BY <1>1, <1>4, <3>1
  <2> QED
    BY <2>1, <2>2
<1>14. ASSUME NEW c \in Diff(s, t)
       PROVE  /\ c.path \in Differ(s, t)
              /\ \/ c.old = c.path
                 \/ /\ s[c.path] = Absent /\ t[c.path] # Absent
                    /\ s[c.old] # Absent /\ t[c.old] = Absent /\ s[c.old] = t[c.path]
  <2>1. CASE c \in changes
    <3>1. PICK p \in there : c = Change(p, Source(s, t, p))
      BY <1>9, <2>1
    <3>2. c.path = p /\ c.old = Source(s, t, p)
      BY <1>4, <3>1
    <3> QED
      BY <1>2, <1>11, <3>2
  <2>2. CASE c \in others
    <3>1. PICK p \in Differ(s, t) : c = Change(p, p)
      BY <1>10, <2>2
    <3> QED
      BY <1>4, <3>1
  <2> QED
    BY <1>1, <2>1, <2>2
<1> QED
  BY <1>12, <1>13, <1>14

\* Lists that are merged keep every path, and a change whose path is in one list only.
LEMMA OverKeeps ==
  ASSUME NEW earlier, NEW later
  PROVE  /\ later \subseteq Over(earlier, later)
         /\ Over(earlier, later) \subseteq earlier \cup later
         /\ \A c \in earlier : c \in Over(earlier, later) \/ \E d \in later : d.path = c.path
BY DEF Over

\* Lists of single paths.
LEMMA SingleTells ==
  ASSUME NEW S
  PROVE  /\ \A p \in S : \E c \in Single(S) : c.path = p /\ c.old = p
         /\ \A c \in Single(S) : c.path \in S /\ c.old = c.path
<1>1. \A p, q : Change(p, q).path = p /\ Change(p, q).old = q
  BY DEF Change
<1>2. \A p \in S : Change(p, p) \in Single(S)
  BY DEF Single
<1>3. \A c \in Single(S) : \E p \in S : c = Change(p, p)
  BY DEF Single
<1> QED
  BY <1>1, <1>2, <1>3

-----------------------------------------------------------------------------
(* The invariant *)

\* Ignored files outside of the state directory: no list names them.
Quiet == {p \in Ignored : ~_is_orchestrator_state_path(p)}

\* The tree the deliver job is to push: what was reported, as the job left it.
Target == [p \in Paths |-> IF p \in changed THEN built[p] ELSE base[p]]

Typed ==
  /\ entries \in Policies /\ route \in {"execute", "repair"}
  /\ base \in Trees /\ index \in Tree /\ work \in Tree /\ built \in Tree

\* Past its loading, a policy protects what it has to; nothing is pushed before the end.
Accepted ==
  /\ stage \notin {"load", "done"} => _parse_runtime_edit_policy(entries)
  /\ stage # "done" => pushed = base

\* Past its check, what can be committed is in scope, but for what slips in.
Past == (stage = "validate" /\ route = "repair") \/ stage \in {"final", "commit"}

Checked ==
  Past => /\ \A p \in changed : path_is_in_scope(p, spec, protected)
          /\ Differ(base, index) \ slipped \subseteq changed

\* What each stage of a delivery has established on the way to its target.
Late == stage = "final" \/ (stage = "commit" /\ route = "execute")

Carried ==
  /\ stage \notin {"verify", "final", "commit", "done"} => \A p \in Ignored : index[p] = Absent
  /\ route = "repair" => stage \in {"load", "snapshot", "codex", "validate", "commit", "done"}
  /\ stage \in {"deliver", "clean", "apply", "stage", "verify"} =>
       /\ changed \cap Quiet = {}
       /\ DOMAIN patch = Differ(base, Target) /\ \A p \in DOMAIN patch : patch[p].to = Target[p]
  /\ stage = "deliver" => changed = change_path_list
  /\ stage \in {"clean", "apply", "stage"} => index = base
  /\ stage = "apply" => \A p \in Paths \ Quiet : work[p] = base[p]
  /\ stage \in {"stage", "verify"} => \A p \in Paths \ Quiet : work[p] = Target[p]
  /\ stage = "verify" => index = Target
  /\ Late => /\ \A p \in Paths \ slipped : index[p] = Target[p]
             /\ \A p \in (Paths \cap changed) \ rewritten : work[p] = Target[p]

IInv ==
  Typed /\ Accepted /\ Checked /\ Carried /\ OnlyEditableIsPushed /\ DeliveredIsReported

-----------------------------------------------------------------------------
(* What the list of changed paths names *)

\* The base commit is a tree without ignored files.
LEMMA Bases ==
  ASSUME Typed
  PROVE  /\ base \in Tree /\ TrackedWork \in Tree
         /\ \A p \in Ignored : p \in Paths /\ base[p] = Absent
<1>1. base \in Tree /\ \A p \in Ignored : base[p] = Absent
  BY TreesAssumption DEF Typed
<1>2. TrackedWork \in Tree
  BY DEF TrackedWork, Tree, Typed
<1> QED
  BY <1>1, <1>2, TreesAssumption

\* Every change of a tracked file is listed; new files are, but for most ignored ones.
\* What is listed comes from one of the four lists.
LEMMA ListTells ==
  /\ \A c \in Diff(base, TrackedWork) \cup Diff(base, index) : c.path \in change_path_list
  /\ \A p \in Paths : Untracked(p) /\ p \notin Quiet => p \in change_path_list
  /\ \A c \in Diff(base, index) :
       c.old \in change_path_list \/ Untracked(c.path)
  /\ \A p \in change_path_list :
       \/ \E c \in Diff(base, TrackedWork) \cup Diff(base, index) : p \in {c.path, c.old}
       \/ p \in Paths /\ Untracked(p) /\ p \notin Quiet
<1> DEFINE d1 == Diff(base, TrackedWork)
           d2 == Diff(base, index)
           new == {p \in Paths : Untracked(p) /\ p \notin Ignored}
           own == {p \in Ignored : Untracked(p) /\ _is_orchestrator_state_path(p)}
           tracked == Over(d1, d2)
           all == Over(tracked, Single(new))
<1>1. collect_changes = Over(Single(own), all)
  BY DEF collect_changes
<1>2. \A p : p \in change_path_list <=> \E c \in collect_changes : p \in {c.path, c.old}
  BY DEF change_path_list
<1>3. \A p \in new : p \in Paths /\ Untracked(p) /\ p \notin Ignored
  OBVIOUS
<1>4. \A p \in own : p \in Ignored /\ p \in Paths /\ Untracked(p) /\ _is_orchestrator_state_path(p)
  BY TreesAssumption
<1>5. \A p \in Paths : Untracked(p) /\ p \notin Quiet => p \in new \cup own
  BY DEF Quiet
<1>0. tracked = Over(d1, d2) /\ all = Over(tracked, Single(new))
  OBVIOUS
<1> HIDE DEF new, own, tracked, all, d1, d2
<1>6. /\ d2 \subseteq tracked /\ tracked \subseteq d1 \cup d2
      /\ \A c \in d1 : \E d \in tracked : d.path = c.path
  BY <1>0, OverKeeps
<1>7. /\ Single(new) \subseteq all /\ all \subseteq tracked \cup Single(new)
      /\ \A c \in tracked : c \in all \/ \E d \in Single(new) : d.path = c.path
  BY <1>0, OverKeeps
<1>8. /\ all \subseteq collect_changes /\ collect_changes \subseteq Single(own) \cup all
      /\ \A c \in Single(own) : \E d \in collect_changes : d.path = c.path
  BY <1>1, OverKeeps
<1>9. /\ \A p \in new : \E c \in Single(new) : c.path = p
      /\ \A c \in Single(new) : c.path \in new /\ c.old = c.path
  BY SingleTells
<1>10. /\ \A p \in own : \E c \in Single(own) : c.path = p
       /\ \A c \in Single(own) : c.path \in own /\ c.old = c.path
  BY SingleTells
<1>11. \A c \in tracked : c.path \in change_path_list
  BY <1>2, <1>7, <1>8
<1>12. \A c \in d1 \cup d2 : c.path \in change_path_list
  BY <1>6, <1>11
<1>13. \A p \in new \cup own : p \in change_path_list
  BY <1>2, <1>7, <1>8, <1>9, <1>10
<1>14. \A c \in d2 : c.old \in change_path_list \/ c.path \in new
  BY <1>2, <1>6, <1>7, <1>8, <1>9
<1>15. \A c \in collect_changes : c \in d1 \cup d2 \/ (c.path \in new \cup own /\ c.old = c.path)
  BY <1>6, <1>7, <1>8, <1>9, <1>10
<1>16. ASSUME NEW p \in change_path_list
       PROVE  (\E c \in d1 \cup d2 : p \in {c.path, c.old}) \/ p \in new \cup own
  BY <1>2, <1>15
<1>17. \A p \in new \cup own : p \in Paths /\ Untracked(p) /\ p \notin Quiet
  BY <1>3, <1>4 DEF Quiet
<1> QED
  BY <1>3, <1>5, <1>12, <1>13, <1>14, <1>16, <1>17 DEF d1, d2

\* Whatever is staged is listed, even if the working tree has it otherwise.
LEMMA IndexIsListed ==
  ASSUME Typed
  PROVE  Differ(base, index) \subseteq change_path_list
<1> SUFFICES ASSUME NEW p \in Differ(base, index)
             PROVE  p \in change_path_list
  OBVIOUS
<1>1. base \in Tree /\ index \in Tree
  BY Bases DEF Typed
<1>2. CASE index[p] # Absent
  <2>1. PICK c \in Diff(base, index) : c.path = p
    BY <1>1, <1>2, DiffTells
  <2> QED
    BY <2>1, ListTells
<1>3. CASE index[p] = Absent
  <2>1. PICK c \in Diff(base, index) : c.old = p
    BY <1>1, <1>3, DiffTells
  <2>2. c.path = p \/ index[c.path] # Absent
    BY <1>1, <2>1, DiffTells
  <2>3. CASE c.path = p
    BY <2>3, ListTells
  <2>4. CASE index[c.path] # Absent
    <3>1. ~Untracked(c.path)
      BY <2>4 DEF Untracked, Tracked
    <3> QED
      BY <2>1, <3>1, ListTells
  <2> QED
    BY <2>2, <2>3, <2>4
<1> QED
  BY <1>2, <1>3

\* An ignored file that is not staged and no state is not listed.
LEMMA QuietIsNotListed ==
  ASSUME Typed, NEW p \in Quiet, index[p] = Absent
  PROVE  p \notin change_path_list
<1>1. base \in Tree /\ index \in Tree /\ TrackedWork \in Tree /\ p \in Paths /\ base[p] = Absent
  BY Bases DEF Typed, Quiet
<1>2. TrackedWork[p] = Absent
  BY <1>1 DEF TrackedWork, Tracked
<1>3. \A c \in Diff(base, TrackedWork) : p \notin {c.path, c.old}
  <2> SUFFICES ASSUME NEW c \in Diff(base, TrackedWork)
               PROVE  p \notin {c.path, c.old}
    OBVIOUS
  <2>1. c.path \in Differ(base, TrackedWork) /\ (c.old = c.path \/ base[c.old] # Absent)
    BY <1>1, DiffTells
  <2>2. p \notin Differ(base, TrackedWork)
    BY <1>1, <1>2 DEF Differ
  <2> QED
    BY <1>1, <2>1, <2>2
<1>4. \A c \in Diff(base, index) : p \notin {c.path, c.old}
  <2> SUFFICES ASSUME NEW c \in Diff(base, index)
               PROVE  p \notin {c.path, c.old}
    OBVIOUS
  <2>1. c.path \in Differ(base, index) /\ (c.old = c.path \/ base[c.old] # Absent)
    BY <1>1, DiffTells
  <2>2. p \notin Differ(base, index)
    BY <1>1 DEF Differ
  <2> QED
    BY <1>1, <2>1, <2>2
<1> QED
  BY <1>3, <1>4, ListTells

\* What differs and is not listed: an ignored file, or the source of a staged rename.
LEMMA HiddenAre ==
  ASSUME Typed, NEW p \in Differ(base, work), p \notin change_path_list
  PROVE  \/ p \in Quiet
         \/ /\ work[p] = Absent /\ index[p] = base[p]
            /\ \E q \in change_path_list : base[q] = Absent /\ Tracked(q) /\ work[q] = base[p]
<1>1. /\ p \in Paths /\ base[p] # work[p]
      /\ base \in Tree /\ index \in Tree /\ work \in Tree /\ TrackedWork \in Tree
  BY Bases DEF Differ, Typed
<1>2. index[p] = base[p]
  BY <1>1, IndexIsListed DEF Differ
<1>3. CASE ~Tracked(p)
  BY <1>1, <1>2, <1>3, ListTells DEF Tracked, Untracked
<1>4. CASE Tracked(p)
  <2>1. TrackedWork[p] = work[p] /\ p \in Differ(base, TrackedWork)
    BY <1>1, <1>4 DEF TrackedWork, Differ
  <2>2. \A c \in Diff(base, TrackedWork) : c.path # p
    BY ListTells
  <2>3. work[p] = Absent
    BY <1>1, <2>1, <2>2, DiffTells
  <2>4. PICK c \in Diff(base, TrackedWork) : c.old = p
    BY <1>1, <2>1, <2>3, DiffTells
  <2> DEFINE q == c.path
  <2>5. q \in Paths /\ base[q] = Absent /\ TrackedWork[q] # Absent /\ base[p] = TrackedWork[q]
    BY <1>1, <2>2, <2>4, DiffTells DEF Differ
  <2>6. Tracked(q) /\ work[q] = base[p]
    BY <2>5 DEF TrackedWork
  <2>7. q \in change_path_list
    BY ListTells
  <2> QED
    BY <1>2, <2>3, <2>5, <2>6, <2>7
<1> QED
  BY <1>3, <1>4

-----------------------------------------------------------------------------
(* What an accepted policy leaves free *)

\* A canonical entry without the probe is a pattern without the probe.
LEMMA PatternsAreNames ==
  ASSUME NEW es \in Policies
  PROVE  \A q \in PolicyOf(es) : q \in Seq(Name) /\ \A i \in DOMAIN q : q[i] # Probe
<1> SUFFICES ASSUME NEW e \in es
             PROVE  /\ Trimmed(e.parts) \in Seq(Name)
                    /\ \A i \in DOMAIN Trimmed(e.parts) : Trimmed(e.parts)[i] # Probe
  BY DEF PolicyOf
<1> DEFINE s == e.parts
<1>1. s \in Seq(Name) /\ \A i \in DOMAIN s : s[i] # Probe
  BY NamesAssumption, StringsAreNames
<1> HIDE DEF s
<1>2. Len(s) \in Nat /\ DOMAIN s = 1..Len(s)
  BY <1>1, LenProperties
<1>3. CASE s # <<>> /\ s[Len(s)] = ""
  <2> DEFINE r == SubSeq(s, 1, Len(s) - 1)
  <2>0. Len(s) >= 1
    <3>1. Len(s) # 0
      BY <1>1, <1>3, EmptySeq
    <3> QED
      BY <1>2, <3>1
  <2>1. r \in Seq(Name) /\ Len(r) = Len(s) - 1 /\ \A i \in 1..(Len(s) - 1) : r[i] = s[i]
    BY <1>1, <1>2, <2>0, SubSeqProperties
  <2> HIDE DEF r
  <2>2. DOMAIN r = 1..(Len(s) - 1)
    BY <2>1, LenProperties
  <2>3. \A i \in DOMAIN r : r[i] # Probe
    BY <1>1, <1>2, <2>1, <2>2
  <2>4. Trimmed(s) = r
    BY <1>3 DEF Trimmed, r
  <2> QED
    BY <2>1, <2>3, <2>4 DEF s
<1>4. CASE ~(s # <<>> /\ s[Len(s)] = "")
  <2>1. Trimmed(s) = s
    BY <1>4 DEF Trimmed
  <2> QED
    BY <1>1, <2>1 DEF s
<1> QED
  BY <1>3, <1>4

\* What is in scope of a Task Spec under an accepted policy is nothing it must protect.
LEMMA ScopeIsFree ==
  ASSUME NEW es \in Policies, _parse_runtime_edit_policy(es),
         NEW p \in Paths, NEW sp, path_is_in_scope(p, sp, PolicyOf(es))
  PROVE  ~Required(p)
<1>1. ~MatchesAny(p, PolicyOf(es))
  BY DEF path_is_in_scope
<1>2. /\ p \in Seq(Name) /\ TaskDir \in Seq(Name) /\ StateDir \in Seq(Name)
  BY NamesAssumption, StringsAreNames
<1>3. p # ConfigFile
  BY <1>1 DEF _parse_runtime_edit_policy
<1>4. ~IsUnder(TaskDir, p)
  BY <1>1, <1>2, PatternsAreNames, DirectoryIsProtected DEF _parse_runtime_edit_policy
<1>5. ~IsUnder(StateDir, p)
  BY <1>1, <1>2, PatternsAreNames, DirectoryIsProtected DEF _parse_runtime_edit_policy
<1> QED
  BY <1>3, <1>4, <1>5 DEF Required

\* Only paths that are added, or were staged before, differ in a commit.
LEMMA AddedDiffers ==
  ASSUME Typed, NEW S, Differ(base, index) \ slipped \subseteq S
  PROVE  Differ(base, Added(S)) \ slipped \subseteq S
BY DEF Differ, Added

LEMMA AddedIsTree ==
  ASSUME Typed, NEW S
  PROVE  Added(S) \in Tree
BY DEF Typed, Tree, Added

-----------------------------------------------------------------------------
(* The steps *)

\* The list of changed paths is a function of the three trees.
LEMMA ListFrame ==
  ASSUME base' = base, index' = index, work' = work
  PROVE  change_path_list' = change_path_list
<1>1. TrackedWork' = TrackedWork /\ \A p : Tracked(p)' = Tracked(p) /\ Untracked(p)' = Untracked(p)
  BY DEF TrackedWork, Tracked, Untracked
<1>2. collect_changes' = collect_changes
  BY <1>1 DEF collect_changes
<1> QED
  BY <1>2 DEF change_path_list

LEMMA InitHolds == Init => IInv
<1> SUFFICES ASSUME Init
             PROVE  IInv
  OBVIOUS
<1>1. base \in Tree /\ \A p \in Ignored : base[p] = Absent
  BY TreesAssumption DEF Init
<1>2. Typed
  BY <1>1 DEF Init, Typed
<1>3. Differ(base, base) = {}
  BY DEF Differ
<1> QED
  BY <1>1, <1>2, <1>3 DEF Init, IInv, Accepted, Checked, Past, Carried, Late,
                          OnlyEditableIsPushed, DeliveredIsReported

LEMMA TargetIsTree ==
  ASSUME Typed
  PROVE  Target \in Tree
<1>1. base \in Tree
  BY Bases
<1> QED
  BY <1>1 DEF Typed, Target, Tree

LEMMA TypedStep ==
  ASSUME Typed, Carried, Next
  PROVE  Typed'
<1>1. ASSUME base' = base
      PROVE  base' \in Trees /\ base' \in Tree
  BY <1>1, TreesAssumption DEF Typed
<1>2. CASE Load \/ Snapshot \/ CheckScope \/ Validate \/ assert_clean_for_delivery
           \/ Verify \/ FinalVerification
  BY <1>2 DEF Typed, Load, Snapshot, CheckScope, Validate, assert_clean_for_delivery, Verify,
              FinalVerification, Stays, history
<1>3. CASE Report
  BY <1>3 DEF Typed, Report, Stays
<1>4. CASE Checkout
  BY <1>1, <1>4 DEF Typed, Checkout, Stays, history
<1>5. CASE ApplyPatch
  <2>1. Target \in Tree /\ \A p \in DOMAIN patch : patch[p].to = Target[p]
    BY <1>5, TargetIsTree DEF ApplyPatch, Carried
  <2>2. work' \in Tree
    BY <1>5, <2>1 DEF ApplyPatch, Tree, Typed
  <2> QED
    BY <1>5, <2>2 DEF ApplyPatch, Typed, Stays, history
<1>6. CASE StageAll \/ Commit
  BY <1>6, AddedIsTree DEF Typed, StageAll, Commit, Stays, history
<1>7. ASSUME NEW p \in Paths, Stage(p)
      PROVE  Typed'
  BY <1>7, AddedIsTree DEF Typed, Stage, Stays
<1>8. ASSUME NEW p \in Paths, NEW c \in Contents \cup {Absent}, Edit(p, c)
      PROVE  Typed'
  BY <1>8 DEF Typed, Tree, Edit, Stays
<1> QED
  BY <1>2, <1>3, <1>4, <1>5, <1>6, <1>7, <1>8 DEF Next

LEMMA AcceptedStep ==
  ASSUME Accepted, Next
  PROVE  Accepted'
<1>1. CASE Load \/ Snapshot \/ CheckScope \/ Validate \/ Report
  BY <1>1 DEF Accepted, Load, Snapshot, CheckScope, Validate, Report, Stays, Fails, Enters
<1>2. CASE Checkout \/ assert_clean_for_delivery \/ ApplyPatch \/ StageAll \/ Verify \/ FinalVerification
  BY <1>2 DEF Accepted, Checkout, assert_clean_for_delivery, ApplyPatch, StageAll, Verify,
              FinalVerification, Stays, history, Fails, Enters
<1>3. CASE Commit
  BY <1>3 DEF Accepted, Commit, Stays, Fails
<1>4. CASE \E p \in Paths : Stage(p) \/ \E c \in Contents \cup {Absent} : Edit(p, c)
  BY <1>4 DEF Accepted, Stage, Edit, Stays
<1> QED
  BY <1>1, <1>2, <1>3, <1>4 DEF Next

\* Which trees differ is a function of them.
LEMMA DifferFrame ==
  ASSUME base' = base, index' = index
  PROVE  Differ(base, index)' = Differ(base, index)
BY DEF Differ

\* A check reads the list that is committed, and what is staged is in it.
LEMMA CheckedStep ==
  ASSUME Typed, Carried, Checked, Next
  PROVE  Checked'
<1>1. CASE Load \/ Snapshot \/ Report \/ Checkout \/ assert_clean_for_delivery \/ ApplyPatch \/ StageAll
  BY <1>1 DEF Checked, Past, Load, Snapshot, Report, Checkout, assert_clean_for_delivery, ApplyPatch,
              StageAll, Fails, Enters
<1>2. CASE CheckScope
  <2>1. changed' = change_path_list /\ Differ(base, index) \subseteq changed'
    BY <1>2, IndexIsListed DEF CheckScope
  <2>2. UNCHANGED <<spec, entries, base, index>> /\ stage' \in {"done", "validate"}
    BY <1>2 DEF CheckScope, Stays, Fails, Enters
  <2>3. stage' = "validate" => \A p \in changed' : path_is_in_scope(p, spec, protected)
    BY <1>2 DEF CheckScope, Fails
  <2>4. Differ(base, index)' = Differ(base, index) /\ protected' = protected
    BY <2>2, DifferFrame DEF protected
  <2> QED
    BY <2>1, <2>2, <2>3, <2>4 DEF Checked, Past
<1>3. CASE Validate \/ FinalVerification
  <2>1. /\ UNCHANGED <<spec, entries, base, index, changed, route, slipped>>
        /\ stage \in {"validate", "final"}
    BY <1>3 DEF Validate, FinalVerification, Stays, history
  <2>2. Past' => Past
    BY <1>3 DEF Validate, FinalVerification, Fails, Enters, Past, Stays
  <2>3. Differ(base, index)' = Differ(base, index) /\ protected' = protected
    BY <2>1, DifferFrame DEF protected
  <2> QED
    BY <2>1, <2>2, <2>3 DEF Checked
<1>4. CASE Verify
  <2>1. UNCHANGED <<spec, entries, base, index, changed>> /\ stage' \in {"final", "done"}
    BY <1>4 DEF Verify, Stays, Fails, Enters
  <2>2. Differ(base, index)' = Differ(base, index) /\ protected' = protected
    BY <2>1, DifferFrame DEF protected
  <2>3. stage' = "final" =>
          /\ change_path_list = changed
          /\ \A p \in changed : path_is_in_scope(p, spec, protected)
    BY <1>4 DEF Verify, Fails
  <2>4. Differ(base, index) \subseteq change_path_list
    BY IndexIsListed
  <2> QED
    BY <2>1, <2>2, <2>3, <2>4 DEF Checked, Past
<1>5. CASE Commit
  BY <1>5 DEF Checked, Past, Commit, Fails
<1>6. ASSUME NEW p \in Paths, Stage(p)
      PROVE  Checked'
  <2>1. /\ UNCHANGED <<spec, entries, base, changed, route, stage>> /\ protected' = protected
        /\ index' = Added({p}) /\ slipped' = slipped \cup {p}
    BY <1>6 DEF Stage, Stays, protected
  <2>2. \A x \in Paths : x # p => index'[x] = index[x]
    BY <2>1 DEF Added
  <2>3. Differ(base, index)' \ slipped' \subseteq Differ(base, index) \ slipped
    BY <2>1, <2>2 DEF Differ
  <2>4. Past' = Past
    BY <2>1 DEF Past
  <2> QED
    BY <2>1, <2>3, <2>4 DEF Checked
<1>7. CASE \E p \in Paths, c \in Contents \cup {Absent} : Edit(p, c)
  <2>1. UNCHANGED <<spec, entries, base, index, changed, route, stage, slipped>>
    BY <1>7 DEF Edit, Stays
  <2>2. Differ(base, index)' = Differ(base, index) /\ protected' = protected
    BY <2>1, DifferFrame DEF protected
  <2>3. Past' = Past
    BY <2>1 DEF Past
  <2> QED
    BY <2>1, <2>2, <2>3 DEF Checked
<1> QED
  BY <1>1, <1>2, <1>3, <1>4, <1>5, <1>6, <1>7 DEF Next

\* Before the export: nothing ignored is staged, and there is no target yet.
LEMMA CarriedEarly ==
  ASSUME Typed, Carried, Load \/ Snapshot \/ CheckScope \/ Validate
  PROVE  Carried'
<1>1. CASE Load \/ Snapshot \/ CheckScope
  BY <1>1 DEF Carried, Late, Typed, Load, Snapshot, CheckScope, Stays, Fails, Enters
<1>2. CASE Validate
  BY <1>2 DEF Carried, Late, Typed, Validate, Stays, Fails, Enters
<1> QED
  BY <1>1, <1>2

\* What is staged is not ignored; after the target is there, it has slipped in.
LEMMA CarriedStage ==
  ASSUME Typed, Carried, NEW p \in Paths, Stage(p)
  PROVE  Carried'
<1>1. /\ UNCHANGED <<stage, route, base, changed, work, built, rewritten>> /\ p \notin Ignored
      /\ stage \in {"snapshot", "codex", "validate", "final"}
      /\ index' = Added({p}) /\ slipped' = slipped \cup {p}
  BY DEF Stage, Stays
<1>2. \A x \in Paths : x # p => index'[x] = index[x]
  BY <1>1 DEF Added
<1>3. Late' = Late /\ Target' = Target
  BY <1>1 DEF Late, Target
<1>4. (\A i \in Ignored : index[i] = Absent) => \A i \in Ignored : index'[i] = Absent
  BY <1>1, <1>2, TreesAssumption
<1>5. Late' => /\ \A x \in Paths \ slipped' : index'[x] = Target'[x]
               /\ \A x \in (Paths \cap changed') \ rewritten' : work'[x] = Target'[x]
  BY <1>1, <1>2, <1>3 DEF Carried
<1> QED
  BY <1>1, <1>4, <1>5 DEF Carried

\* An edit of a file: there is none between a check of the files and what relies on it,
\* except for those of the final verification.
LEMMA CarriedEdit ==
  ASSUME Typed, Carried, NEW p \in Paths, NEW c, Edit(p, c)
  PROVE  Carried'
<1>1. /\ UNCHANGED <<stage, route, base, index, changed, patch, built, slipped>>
      /\ stage \in {"snapshot", "codex", "validate", "clean", "final"}
      /\ work' = [work EXCEPT ![p] = c]
      /\ rewritten' = IF stage = "final" THEN rewritten \cup {p} ELSE rewritten
  BY DEF Edit, Stays
<1>2. Target' = Target /\ Differ(base, Target)' = Differ(base, Target) /\ Quiet' = Quiet /\ Late' = Late
  BY <1>1 DEF Target, Differ, Quiet, Late
<1>3. Late => stage = "final"
  BY <1>1 DEF Late
<1>4. \A x \in Paths : x # p => work'[x] = work[x]
  BY <1>1 DEF Typed, Tree
<1>5. Late' => /\ \A x \in Paths \ slipped' : index'[x] = Target'[x]
               /\ \A x \in (Paths \cap changed') \ rewritten' : work'[x] = Target'[x]
  BY <1>1, <1>2, <1>3, <1>4 DEF Carried
<1> QED
  BY <1>1, <1>2, <1>5 DEF Carried

\* The export: with all paths added, the copy of the index is the target.
LEMMA CarriedReport ==
  ASSUME Typed, Carried, Report
  PROVE  Carried'
<1>1. /\ UNCHANGED <<base, index, work, route>> /\ stage = "report" /\ route = "execute"
      /\ stage' \in {"deliver", "done"} /\ changed' = change_path_list
      /\ \A p \in Ignored : index[p] = Absent
  BY DEF Report, Carried, Typed, Stays, Fails, Enters
<1>2. CASE stage' = "done"
  BY <1>1, <1>2 DEF Carried, Late
<1>3. CASE stage' = "deliver"
  <2> DEFINE to == Exported(change_path_list)
  <2>1. /\ patch' = [p \in Differ(base, to) |-> [from |-> base[p], to |-> to[p]]]
        /\ built' = work
    BY <1>3 DEF Report, Fails
  <2>2. \A p \in Paths : p \notin change_path_list => index[p] = base[p]
    BY IndexIsListed DEF Differ
  <2>3. to = Target'
    <3>1. to = [p \in Paths |-> IF p \in change_path_list THEN work[p] ELSE index[p]]
      BY DEF Exported, Added
    <3>2. Target' = [p \in Paths |-> IF p \in change_path_list THEN work[p] ELSE base[p]]
      BY <1>1, <2>1 DEF Target
    <3> QED
      BY <2>2, <3>1, <3>2
  <2> HIDE DEF to
  <2>4. DOMAIN patch' = Differ(base, Target)' /\ \A p \in DOMAIN patch' : patch'[p].to = Target'[p]
    <3>1. Differ(base, Target)' = Differ(base, to)
      BY <1>1, <2>3 DEF Differ
    <3> QED
      BY <2>1, <2>3, <3>1
  <2>5. changed' \cap Quiet = {}
    BY <1>1, QuietIsNotListed DEF Quiet
  <2>6. change_path_list' = change_path_list
    BY <1>1, ListFrame
  <2> QED
    BY <1>1, <1>3, <2>4, <2>5, <2>6 DEF Carried, Late, Quiet
<1> QED
  BY <1>1, <1>2, <1>3

\* What a clean checkout may still hold are ignored files.
LEMMA CleanIsBase ==
  ASSUME Typed, index = base, Listed = {},
         ~\E p \in Ignored : Untracked(p) /\ _is_orchestrator_state_path(p)
  PROVE  \A p \in Paths \ Quiet : work[p] = base[p]
<1> SUFFICES ASSUME NEW p \in Paths \ Quiet
             PROVE  work[p] = base[p]
  OBVIOUS
<1>1. CASE Tracked(p)
  BY <1>1 DEF Listed
<1>2. CASE ~Tracked(p)
  BY <1>2 DEF Listed, Tracked, Untracked, Quiet
<1> QED
  BY <1>1, <1>2

\* The deliver job up to the patch.
LEMMA CarriedDeliver ==
  ASSUME Typed, Carried, Checkout \/ assert_clean_for_delivery \/ ApplyPatch
  PROVE  Carried'
<1>1. /\ UNCHANGED <<base, changed, patch, built, route>>
      /\ stage \in {"deliver", "clean", "apply"} /\ stage' \in {"clean", "apply", "stage", "done"}
      /\ route = "execute"
  BY DEF Carried, Typed, Checkout, assert_clean_for_delivery, ApplyPatch, Stays, Fails, Enters, history
<1>2. Target' = Target /\ Differ(base, Target)' = Differ(base, Target) /\ Quiet' = Quiet
  BY <1>1 DEF Target, Differ, Quiet
<1>3. base \in Tree /\ \A p \in Ignored : base[p] = Absent
  BY Bases
<1>4. /\ changed \cap Quiet = {}
      /\ DOMAIN patch = Differ(base, Target) /\ \A p \in DOMAIN patch : patch[p].to = Target[p]
  BY <1>1 DEF Carried
<1>5. CASE Checkout
  <2>1. stage' = "clean" /\ index' = base
    BY <1>5 DEF Checkout, Enters
  <2> QED
    BY <1>1, <1>2, <1>3, <1>4, <2>1 DEF Carried, Late
<1>6. CASE assert_clean_for_delivery
  <2>1. UNCHANGED <<index, work>> /\ index = base /\ stage' \in {"apply", "done"}
    BY <1>6 DEF assert_clean_for_delivery, Carried, Fails, Enters
  <2>2. stage' = "apply" => \A p \in Paths \ Quiet : work[p] = base[p]
    BY <1>6, <2>1, CleanIsBase DEF assert_clean_for_delivery, Fails
  <2> QED
    BY <1>1, <1>2, <1>3, <1>4, <2>1, <2>2 DEF Carried, Late
<1>7. CASE ApplyPatch
  <2>1. /\ UNCHANGED index /\ index = base /\ stage' = "stage"
        /\ work' = [p \in Paths |-> IF p \in DOMAIN patch THEN patch[p].to ELSE work[p]]
        /\ \A p \in Paths \ Quiet : work[p] = base[p]
    BY <1>7 DEF ApplyPatch, Carried, Enters
  <2>2. \A p \in Paths \ Quiet : work'[p] = Target[p]
    BY <1>4, <2>1 DEF Differ
  <2> QED
    BY <1>1, <1>2, <1>3, <1>4, <2>1, <2>2 DEF Carried, Late
<1> QED
  BY <1>5, <1>6, <1>7

\* What is staged of the applied patch is the target.
LEMMA StagedIsTarget ==
  ASSUME Typed, Carried, stage = "stage"
  PROVE  Added(change_path_list) = Target
<1>1. /\ index = base /\ changed \cap Quiet = {}
      /\ \A p \in Paths \ Quiet : work[p] = Target[p]
  BY DEF Carried
<1>2. ASSUME NEW p \in Paths
      PROVE  (IF p \in change_path_list THEN work[p] ELSE index[p]) = Target[p]
  <2>1. CASE p \in Quiet
    <3>1. index[p] = Absent
      BY <2>1 DEF Carried, Quiet
    <3>2. p \notin change_path_list
      BY <2>1, <3>1, QuietIsNotListed
    <3> QED
      BY <1>1, <2>1, <3>2 DEF Target
  <2>2. CASE p \notin Quiet /\ p \in change_path_list
    BY <1>1, <2>2
  <2>3. CASE p \notin Quiet /\ p \notin change_path_list
    <3>1. ~\E q \in change_path_list : base[q] = Absent /\ Tracked(q)
      BY <1>1 DEF Tracked
    <3>2. base[p] = work[p]
      BY <2>3, <3>1, HiddenAre DEF Differ
    <3> QED
      BY <1>1, <2>3, <3>2
  <2> QED
    BY <2>1, <2>2, <2>3
<1> QED
  BY <1>2 DEF Added, Target

\* The deliver job from there on; a repair commits without it.
LEMMA CarriedEnd ==
  ASSUME Typed, Carried, StageAll \/ Verify \/ FinalVerification \/ Commit
  PROVE  Carried'
<1>1. /\ UNCHANGED <<base, changed, patch, built, route, work>>
      /\ stage' \in {"verify", "final", "commit", "done"}
  BY DEF StageAll, Verify, FinalVerification, Commit, Stays, Fails, Enters, history
<1>2. Target' = Target /\ Differ(base, Target)' = Differ(base, Target) /\ Quiet' = Quiet
  BY <1>1 DEF Target, Differ, Quiet
<1>3. CASE stage' = "done"
  BY <1>1, <1>3 DEF Carried, Late
<1>4. CASE StageAll /\ stage' # "done"
  <2>1. stage = "stage" /\ stage' = "verify" /\ route = "execute" /\ index' = Added(change_path_list)
    BY <1>4 DEF StageAll, Fails, Enters, Carried, Typed
  <2>2. /\ changed \cap Quiet = {}
        /\ DOMAIN patch = Differ(base, Target) /\ \A p \in DOMAIN patch : patch[p].to = Target[p]
        /\ \A p \in Paths \ Quiet : work[p] = Target[p]
    BY <2>1 DEF Carried
  <2>3. index' = Target
    BY <2>1, StagedIsTarget
  <2> QED
    BY <1>1, <1>2, <2>1, <2>2, <2>3 DEF Carried, Late
<1>5. CASE Verify /\ stage' # "done"
  <2>1. stage = "verify" /\ stage' = "final" /\ UNCHANGED index /\ route = "execute"
    BY <1>5 DEF Verify, Fails, Enters, Carried, Typed
  <2>2. /\ changed \cap Quiet = {} /\ index = Target
        /\ \A p \in Paths \ Quiet : work[p] = Target[p]
    BY <2>1 DEF Carried
  <2> QED
    BY <1>1, <1>2, <2>1, <2>2 DEF Carried
<1>6. CASE FinalVerification /\ stage' # "done"
  <2>1. /\ stage = "final" /\ stage' = "commit" /\ UNCHANGED <<index, slipped, rewritten>>
        /\ route = "execute"
    BY <1>6 DEF FinalVerification, Fails, Enters, Carried, Typed, history
  <2>2. Late /\ stage' = "commit" /\ Late'
    BY <1>1, <2>1 DEF Late
  <2> QED
    BY <1>1, <1>2, <2>1, <2>2 DEF Carried
<1>7. CASE Commit /\ stage' # "done"
  BY <1>7 DEF Commit, Fails
<1> QED
  BY <1>3, <1>4, <1>5, <1>6, <1>7

LEMMA CarriedStep ==
  ASSUME Typed, Carried, Next
  PROVE  Carried'
BY CarriedEarly, CarriedStage, CarriedEdit, CarriedReport, CarriedDeliver, CarriedEnd DEF Next

-----------------------------------------------------------------------------
(* What the steps keep *)

\* Only a commit pushes: paths that were checked, which hold all that was staged then.
LEMMA EditableStep ==
  ASSUME Typed, Accepted, Checked, OnlyEditableIsPushed, Next
  PROVE  OnlyEditableIsPushed'
<1>1. UNCHANGED <<base, spec, entries>> /\ protected' = protected
  BY DEF Next, Load, Snapshot, CheckScope, Validate, Report, Checkout, assert_clean_for_delivery,
         ApplyPatch, StageAll, Verify, FinalVerification, Commit, Stage, Edit, Stays, protected
<1>2. CASE stage # "commit"
  <2>2. pushed' = pushed
    BY <1>2 DEF Next, Load, Snapshot, CheckScope, Validate, Report, Checkout, assert_clean_for_delivery,
                ApplyPatch, StageAll, Verify, FinalVerification, Commit, Stage, Edit
  <2>3. CASE stage = "done"
    <3>1. FALSE
      BY <2>3 DEF Next, Load, Snapshot, CheckScope, Validate, Report, Checkout, assert_clean_for_delivery,
                  ApplyPatch, StageAll, Verify, FinalVerification, Commit, Stage, Edit
    <3> QED
      BY <3>1
  <2>4. CASE stage # "done"
    <3>1. pushed' = base'
      BY <1>1, <2>2, <2>4 DEF Accepted
    <3> QED
      BY <3>1 DEF OnlyEditableIsPushed, Differ
  <2> QED
    BY <2>3, <2>4
<1>3. CASE stage = "commit"
  <2>1. Commit
    BY <1>3 DEF Next, Load, Snapshot, CheckScope, Validate, Report, Checkout, assert_clean_for_delivery,
                ApplyPatch, StageAll, Verify, FinalVerification, Stage, Edit
  <2>2. pushed = base /\ slipped' = slipped /\ pushed' \in {pushed, base, Added(changed)}
    BY <1>3, <2>1 DEF Commit, Accepted, history
  <2>3. /\ Differ(base, index) \ slipped \subseteq changed
        /\ \A p \in changed : path_is_in_scope(p, spec, protected)
    BY <1>3 DEF Checked, Past
  <2>4. _parse_runtime_edit_policy(entries) /\ entries \in Policies /\ protected = PolicyOf(entries)
    BY <1>3 DEF Accepted, Typed, protected
  <2>5. Differ(base, Added(changed)) \ slipped \subseteq changed
    BY <2>3, AddedDiffers
  <2>6. \A p \in Differ(base, Added(changed)) \ slipped :
          path_is_in_scope(p, spec, protected) /\ ~Required(p)
    BY <2>3, <2>4, <2>5, ScopeIsFree DEF Differ
  <2>7. CASE pushed' = base
    BY <1>1, <2>7 DEF OnlyEditableIsPushed, Differ
  <2>8. CASE pushed' = Added(changed)
    <3>1. Differ(base, pushed)' = Differ(base, Added(changed))
      BY <1>1, <2>8 DEF Differ
    <3> QED
      BY <1>1, <2>2, <2>6, <3>1 DEF OnlyEditableIsPushed
  <2> QED
    BY <2>2, <2>7, <2>8
<1> QED
  BY <1>2, <1>3

\* What is committed is the target, staged, with the reported paths added once more.
LEMMA DeliveredStep ==
  ASSUME Typed, Carried, DeliveredIsReported, Next
  PROVE  DeliveredIsReported'
<1>1. CASE Commit
  <2> SUFFICES ASSUME code' = "", route' = "execute", NEW p \in Paths
               PROVE  \/ pushed'[p] = IF p \in changed' THEN built'[p] ELSE base'[p]
                      \/ changed' # {} /\ p \in (rewritten' \cap changed') \cup slipped'
    BY DEF DeliveredIsReported
  <2>1. /\ stage = "commit" /\ route = "execute"
        /\ UNCHANGED <<changed, built, base, rewritten, slipped>>
        /\ pushed' = IF changed = {} THEN base ELSE Added(changed)
    BY <1>1 DEF Commit, Stays, Fails, history
  <2>2. /\ p \notin slipped => index[p] = Target[p]
        /\ p \in changed /\ p \notin rewritten => work[p] = Target[p]
    BY <2>1 DEF Carried, Late
  <2>3. Target[p] = IF p \in changed THEN built[p] ELSE base[p]
    BY DEF Target
  <2>4. CASE changed = {}
    BY <2>1, <2>4
  <2>5. CASE changed # {}
    <3>1. pushed'[p] = IF p \in changed THEN work[p] ELSE index[p]
      BY <2>1, <2>5 DEF Added
    <3> QED
      BY <2>1, <2>2, <2>3, <2>5, <3>1
  <2> QED
    BY <2>4, <2>5
<1>2. CASE ~Commit
  <2>1. stage' # "done" \/ code' # ""
    BY <1>2 DEF Next, Load, Snapshot, CheckScope, Validate, Report, Checkout, assert_clean_for_delivery,
                ApplyPatch, StageAll, Verify, FinalVerification, Stage, Edit, Fails, Enters
  <2> QED
    BY <2>1 DEF DeliveredIsReported
<1> QED
  BY <1>1, <1>2

\* The invariant holds for any repository, policies, Task Specs and number of edits.
LEMMA IInvInvariant == Spec => []IInv
<1>1. IInv /\ [Next]_vars => IInv'
  <2> SUFFICES ASSUME IInv, [Next]_vars
               PROVE  IInv'
    OBVIOUS
  <2>1. CASE Next
    <3>1. Typed' /\ Accepted' /\ Checked' /\ Carried'
      BY <2>1, TypedStep, AcceptedStep, CheckedStep, CarriedStep DEF IInv
    <3> QED
      BY <2>1, <3>1, EditableStep, DeliveredStep DEF IInv
  <2>2. CASE UNCHANGED vars
    <3>1. UNCHANGED <<entries, spec, route, stage, code, base, index, work, edits, changed,
                      patch, pushed, built, rewritten, slipped>>
      BY <2>2 DEF vars, history
    <3>2. /\ change_path_list' = change_path_list /\ Target' = Target /\ protected' = protected
          /\ Differ(base, index)' = Differ(base, index)
          /\ Differ(base, Target)' = Differ(base, Target)
          /\ Differ(base, pushed)' = Differ(base, pushed)
      BY <3>1, ListFrame DEF Target, protected, Differ
    <3>3. Typed' /\ Accepted' /\ Checked' /\ Carried'
      BY <3>1, <3>2 DEF IInv, Typed, Accepted, Checked, Past, Carried, Late, Quiet
    <3>4. OnlyEditableIsPushed' /\ DeliveredIsReported'
      BY <3>1, <3>2 DEF IInv, OnlyEditableIsPushed, DeliveredIsReported
    <3> QED
      BY <3>3, <3>4 DEF IInv
  <2> QED
    BY <2>1, <2>2
<1> QED
  BY <1>1, InitHolds, PTL DEF Spec

-----------------------------------------------------------------------------
(* Theorems *)

\* Whatever Codex and the validations edit, stage and rename, a report names every path
\* that differs, but for ignored files and sources of staged renames.
THEOREM OnlyStagedRenamesHideHolds == Spec => []OnlyStagedRenamesHide
<1>1. IInv => OnlyStagedRenamesHide
  BY HiddenAre DEF IInv, Carried, OnlyStagedRenamesHide, Quiet
<1> QED
  BY <1>1, IInvInvariant, PTL

\* The commit of a deliver job holds the reported paths as the execute job left them and
\* all others as its base commit has them, but for what its own final verification wrote
\* to reported paths, or staged.
THEOREM DeliveredIsReportedHolds == Spec => []DeliveredIsReported
<1>1. IInv => DeliveredIsReported
  BY DEF IInv
<1> QED
  BY <1>1, IInvInvariant, PTL

\* Under any policy that is accepted and any Task Spec, no commit changes a path that
\* is out of scope, nor the configuration, a Task Spec or a state, unless a command
\* staged it after the last check of the scope.
THEOREM OnlyEditableIsPushedHolds == Spec => []OnlyEditableIsPushed
<1>1. IInv => OnlyEditableIsPushed
  BY DEF IInv
<1> QED
  BY <1>1, IInvInvariant, PTL

=============================================================================

------------------------------ MODULE Worktree ------------------------------
(***************************************************************************)
(* From the files that Codex edits to the commit that is pushed            *)
(* (agent/gitutil.py, agent/gitwrite.py, agent/scope.py and their callers).*)
(* Git holds three trees: the head commit, the index and the working tree. *)
(* An execute job reports which paths differ and exports a patch of them;  *)
(* the deliver job applies it to a new checkout and commits.  A review     *)
(* repair commits in the checkout it has edited.  Codex is told not to     *)
(* stage anything; it may, as the commands of a validation may, which run  *)
(* between the last check of the scope and the commit.                     *)
(***************************************************************************)
EXTENDS EditPolicy, FiniteSets

CONSTANTS
  Paths,      \* the files of the repository
  Ignored,    \* those that match .gitignore
  Contents,   \* what a file may hold; what is similar has one number
  Absent,     \* the content of a file that is not there
  Trees,      \* head commits a job may start from
  Policies,   \* settings of runtime_edit_policy.protected_paths: sets of entries
  Specs,      \* Task Specs: [allowed, forbidden], sets of patterns
  MaxEdits    \* edits and stagings in a behaviour

Tree == [Paths -> Contents \cup {Absent}]

\* Where the state of the orchestrator is, whatever state.directory says; .gitignore
\* has the same path.
_is_orchestrator_state_path(p) == IsUnder(<<".agent", "state">>, p)

ASSUME TreesAssumption ==
  /\ Ignored \subseteq Paths /\ Absent \notin Contents
  /\ Trees \subseteq Tree /\ \A t \in Trees : \A p \in Ignored : t[p] = Absent
  /\ \A p \in Paths : _is_orchestrator_state_path(p) => p \in Ignored
ASSUME EditsAssumption == MaxEdits \in Nat

\* Paths are lists of names, and no policy has the probe in it.
ASSUME NamesAssumption ==
  /\ Paths \subseteq Seq(STRING) /\ {TaskDir, StateDir} \subseteq Seq(STRING)
  /\ \A es \in Policies : \A e \in es :
       e.parts \in Seq(STRING) /\ \A i \in DOMAIN e.parts : e.parts[i] # Probe

VARIABLES
  entries, spec,  \* the policy and the Task Spec as they are written
  route,          \* "execute" or "repair"
  stage,          \* where the jobs are
  code,           \* the error that ended them, or ""
  base,           \* the tree of base_sha, which is checked out
  index, work,    \* the index and the working tree
  edits,          \* edits so far
  changed,        \* the changed paths that were reported, or checked
  patch,          \* the exported patch: pairs of contents
  pushed,         \* the tree of the commit that was pushed
  built,          \* history: the working tree that was exported
  rewritten,      \* history: what the deliver job's final verification wrote
  slipped         \* history: what was staged after the last check of the scope

history == <<built, rewritten, slipped>>
vars == <<entries, spec, route, stage, code, base, index, work, edits, changed, patch, pushed, history>>

Init ==
  /\ entries \in Policies /\ spec \in Specs /\ route \in {"execute", "repair"}
  /\ stage = "load" /\ code = ""
  /\ base \in Trees /\ index = base /\ work = base
  /\ edits = 0 /\ changed = {} /\ patch = <<>> /\ pushed = base
  /\ built = base /\ rewritten = {} /\ slipped = {}

protected == PolicyOf(entries)

-----------------------------------------------------------------------------
(* What git tells *)

Differ(s, t) == {p \in Paths : s[p] # t[p]}

\* Untracked files are not in the index.
Tracked(p)   == index[p] # Absent
Untracked(p) == ~Tracked(p) /\ work[p] # Absent

\* The working tree as git diff sees it.
TrackedWork == [p \in Paths |-> IF Tracked(p) THEN work[p] ELSE Absent]

Change(path, old) == [path |-> path, old |-> old]

\* git diff --name-status --find-renames: a file that is new and holds what a removed
\* one held is a rename of it; no removed file is the source of two.
Source(s, t, p) ==
  LET pairs   == {r \in Differ(s, t) \X Differ(s, t) :
                    /\ s[r[1]] # Absent /\ t[r[1]] = Absent
                    /\ s[r[2]] = Absent /\ t[r[2]] = s[r[1]]}
      Apart(R) == \A r, q \in R : r[1] = q[1] <=> r[2] = q[2]
      renames == CHOOSE R \in SUBSET pairs :
                   Apart(R) /\ \A r \in pairs \ R : ~Apart(R \cup {r})
      from    == {q \in Paths : <<q, p>> \in pairs \cap renames}
  IN  IF from # {} THEN CHOOSE q \in from : TRUE ELSE p

Diff(s, t) ==
  LET there   == {p \in Differ(s, t) : t[p] # Absent}
      changes == {Change(p, Source(s, t, p)) : p \in there}
      renamed == {c.old : c \in changes}
  IN  changes \cup {Change(p, p) : p \in Differ(s, t) \ (there \cup renamed)}

\* by_path: a later list replaces what an earlier one says of the same path.
Over(earlier, later) == later \cup {c \in earlier : \A d \in later : d.path # c.path}

Single(S) == {Change(p, p) : p \in S}

\* Mutant: new files are not looked for.
TrackedChanges == Over(Diff(base, TrackedWork), Diff(base, index))

collect_changes ==
  LET tracked   == Over(Diff(base, TrackedWork), Diff(base, index))
      untracked == Single({p \in Paths : Untracked(p) /\ p \notin Ignored})
      state     == Single({p \in Ignored : Untracked(p) /\ _is_orchestrator_state_path(p)})
  IN  Over(state, Over(tracked, untracked))

change_path_list == {c.path : c \in collect_changes} \cup {c.old : c \in collect_changes}

\* git add -- paths fails on a path that is nowhere, and without -f on an ignored one.
Addable(paths, force) ==
  \A p \in paths : (Tracked(p) \/ Untracked(p)) /\ (force \/ Tracked(p) \/ p \notin Ignored)

Added(paths) == [p \in Paths |-> IF p \in paths THEN work[p] ELSE index[p]]

-----------------------------------------------------------------------------
(* The jobs *)

Stays == UNCHANGED <<entries, spec, route, base>>
Enters(s) == stage' = s /\ UNCHANGED code

Fails(c) == stage' = "done" /\ code' = c

\* load_config and validate_spec_scope_policy.
Load ==
  /\ stage = "load"
  /\ IF ~_parse_runtime_edit_policy(entries) THEN Fails("INVALID_INPUT")
     ELSE IF ~validate_spec_scope_policy(spec, protected) THEN Fails("INVALID_SPEC")
     ELSE Enters("snapshot")
  /\ Stays /\ UNCHANGED <<index, work, edits, changed, patch, pushed, history>>

\* What git status lists, ignored files apart.
Listed ==
  {p \in Paths : index[p] # base[p] \/ (Tracked(p) /\ work[p] # index[p])
                                   \/ (Untracked(p) /\ p \notin Ignored)}

\* capture_snapshot, and assert_clean_worktree, if require_clean_worktree is set and,
\* for an execute job, no task is completed yet (cycle.py:289).
Snapshot ==
  /\ stage = "snapshot"
  /\ \E required \in BOOLEAN :
       IF required /\ \E p \in Listed : ~_is_orchestrator_state_path(p)
       THEN Fails("DIRTY_WORKTREE") ELSE Enters("codex")
  /\ Stays /\ UNCHANGED <<index, work, edits, changed, patch, pushed, history>>

\* A step before a job, Codex, or a command of a validation or of a final verification
\* writes or removes a file.
Edit(p, c) ==
  /\ stage \in {"snapshot", "codex", "validate", "clean", "final"} /\ edits < MaxEdits
  /\ work[p] # c
  /\ work' = [work EXCEPT ![p] = c]
  /\ edits' = edits + 1
  /\ rewritten' = IF stage = "final" THEN rewritten \cup {p} ELSE rewritten
  /\ Stays /\ UNCHANGED <<stage, code, index, changed, patch, pushed, built, slipped>>

\* It stages one, with a git add that is not forced.
Stage(p) ==
  /\ stage \in {"snapshot", "codex", "validate", "final"} /\ edits < MaxEdits
  /\ index[p] # work[p] /\ p \notin Ignored
  /\ index' = Added({p})
  /\ edits' = edits + 1
  /\ slipped' = slipped \cup {p}
  /\ Stays /\ UNCHANGED <<stage, code, work, changed, patch, pushed, built, rewritten>>

\* check_scope after Codex; a repair has to change something.
CheckScope ==
  /\ stage = "codex"
  /\ changed' = change_path_list
  /\ IF \E p \in changed' : ~path_is_in_scope(p, spec, protected) THEN Fails("SCOPE_VIOLATION")
     ELSE IF route = "repair" /\ changed' = {} THEN Fails("NO_CHANGES")
     ELSE Enters("validate")
  /\ slipped' = {}
  /\ Stays /\ UNCHANGED <<index, work, edits, patch, pushed, built, rewritten>>

\* The validations fail, or pass; then the next task or repair of an execute job is
\* Codex's turn again, or there is none left.
Validate ==
  /\ stage = "validate"
  /\ \/ Fails("VALIDATION")
     \/ route = "repair" /\ Enters("commit")
     \/ route = "execute" /\ (Enters("codex") \/ Enters("report"))
  /\ Stays /\ UNCHANGED <<index, work, edits, changed, patch, pushed, history>>

\* Mutant: the patch is made from the index as it is.
IndexAsItIs(paths) == index

\* A copy of the index, to which the paths are added, is what a patch leads to.
Exported(paths) == Added(paths)

\* run_work_unit's last steps: the changed paths are reported, whatever validation
\* commands have added to them, and export_patch collects them again.
Report ==
  LET to == Exported(change_path_list)
  IN
  /\ stage = "report"
  /\ changed' = change_path_list
  /\ IF ~Addable(change_path_list, TRUE) THEN Fails("GIT_FAILED") /\ UNCHANGED <<patch, built>>
     ELSE /\ patch' = [p \in Differ(base, to) |-> [from |-> base[p], to |-> to[p]]]
          /\ built' = work
          /\ Enters("deliver")
  /\ Stays /\ UNCHANGED <<index, work, edits, pushed, rewritten, slipped>>

\* The deliver job checks base_sha out (checkout_delivery_parent).
Checkout ==
  /\ stage = "deliver" /\ Enters("clean")
  /\ index' = base /\ work' = base
  /\ Stays /\ UNCHANGED <<edits, changed, patch, pushed, history>>

\* Nothing may differ yet, a state file that git ignores included.
assert_clean_for_delivery ==
  /\ stage = "clean"
  /\ IF Listed # {} \/ \E p \in Ignored : Untracked(p) /\ _is_orchestrator_state_path(p)
     THEN Fails("DIRTY_WORKTREE") ELSE Enters("apply")
  /\ Stays /\ UNCHANGED <<index, work, edits, changed, patch, pushed, history>>

\* apply_patch, up to git apply, which finds what it expects: the patch is one of the
\* tree that is checked out, and .gitattributes gives all text files one line ending.
ApplyPatch ==
  /\ stage = "apply" /\ Enters("stage")
  /\ work' = [p \in Paths |-> IF p \in DOMAIN patch THEN patch[p].to ELSE work[p]]
  /\ Stays /\ UNCHANGED <<index, edits, changed, patch, pushed, history>>

\* apply_patch, its end: what has changed is staged.
StageAll ==
  /\ stage = "stage"
  /\ IF Addable(change_path_list, TRUE)
     THEN index' = Added(change_path_list) /\ Enters("verify")
     ELSE Fails("GIT_FAILED") /\ UNCHANGED index
  /\ Stays /\ UNCHANGED <<work, edits, changed, patch, pushed, history>>

\* The paths are checked once more, against the scope and the report.
Verify ==
  /\ stage = "verify"
  /\ IF \E p \in change_path_list : ~path_is_in_scope(p, spec, protected)
     THEN Fails("COMMIT_SCOPE_VIOLATION")
     ELSE IF change_path_list # changed THEN Fails("PATCH_MANIFEST_MISMATCH")
     ELSE Enters("final")
  /\ slipped' = {}
  /\ Stays /\ UNCHANGED <<index, work, edits, changed, patch, pushed, built, rewritten>>

\* The end of run_final_verification in the deliver job.
FinalVerification ==
  /\ stage = "final"
  /\ Fails("VALIDATION") \/ Enters("commit")
  /\ Stays /\ UNCHANGED <<index, work, edits, changed, patch, pushed, history>>

\* commit_paths, without -f, of the paths that were checked; git commits the index, if
\* it has anything new; and the push.
Commit ==
  /\ stage = "commit"
  /\ IF ~Addable(changed, FALSE) THEN Fails("GIT_FAILED") /\ UNCHANGED <<index, pushed>>
     ELSE /\ index' = Added(changed)
          /\ IF route = "repair" /\ index' = base THEN Fails("GIT_FAILED") /\ UNCHANGED pushed
             ELSE /\ stage' = "done" /\ UNCHANGED code
                  /\ pushed' = IF changed = {} THEN base ELSE index'
  /\ Stays /\ UNCHANGED <<work, edits, changed, patch, history>>

Next ==
  \/ Load \/ Snapshot \/ CheckScope \/ Validate \/ Report
  \/ Checkout \/ assert_clean_for_delivery \/ ApplyPatch \/ StageAll \/ Verify
  \/ FinalVerification \/ Commit
  \/ \E p \in Paths : Stage(p) \/ \E c \in Contents \cup {Absent} : Edit(p, c)

Spec == Init /\ [][Next]_vars

-----------------------------------------------------------------------------
(* Properties *)

\* "tracked + untracked + rename/delete + gitignored .agent/state/**"
\* (agent/README.md:104): a report names every path whose content is not that of
\* the base any more, except ignored files, and except a removed file that git
\* takes for the source of a file which was also staged: of that one the staged
\* state is told, without the source.
OnlyStagedRenamesHide ==
  stage = "deliver" =>
    \A p \in Differ(base, work) \ changed :
      \/ p \in Ignored /\ ~_is_orchestrator_state_path(p)
      \/ /\ work[p] = Absent /\ index[p] = base[p]
         /\ \E q \in changed : base[q] = Absent /\ Tracked(q) /\ work[q] = base[p]

\* The deliver job pushes the reported paths as they were when the execute job ended,
\* staged or not, and all others as they are in the base.  What a command of its own
\* final verification does is all that can come in between: it is not looked at again,
\* a reported path is pushed as the command wrote it and any path that it staged is.
DeliveredIsReported ==
  stage = "done" /\ code = "" /\ route = "execute" =>
    \A p \in Paths :
      \/ pushed[p] = IF p \in changed THEN built[p] ELSE base[p]
      \/ changed # {} /\ p \in (rewritten \cap changed) \cup slipped

\* A push changes only what the policy and the Task Spec let it change, which, under
\* a policy that was accepted, is neither agent/config.json nor a Task Spec nor a state
\* (config.py:302).  Paths that a command stages after the last check of the scope,
\* in the validations of a repair or the final verification of a deliver job, are
\* pushed unchecked; what it writes without staging is pushed in checked paths only.
OnlyEditableIsPushed ==
  \A p \in Differ(base, pushed) \ slipped :
    path_is_in_scope(p, spec, protected) /\ ~Required(p)

-----------------------------------------------------------------------------
(* What the documents say and the code does not do *)

\* Commit, push and pull request follow when every check has passed (README.md:186).
VerifiedIsCommitted == [][stage = "commit" => code' = ""]_vars
=============================================================================

----------------------------- MODULE EditPolicy -----------------------------
(***************************************************************************)
(* Which files a work unit may edit: the Runtime Edit Policy of the        *)
(* repository (agent/config.py) and the paths of a Task Spec               *)
(* (agent/scope.py).  A path is a list of segments.  A pattern is one too, *)
(* in which "*" and "**" are wildcards; wildcards inside of a segment are  *)
(* left out.                                                               *)
(***************************************************************************)
EXTENDS Naturals, Sequences

CONSTANTS ConfigFile,  \* agent/config.json, as a path
          TaskDir,     \* task_spec.directory
          StateDir     \* state.directory

Wild == {"*", "**"}
Literal(pattern) == \A i \in DOMAIN pattern : pattern[i] \notin Wild

IsUnder(dir, path) == Len(dir) <= Len(path) /\ SubSeq(path, 1, Len(dir)) = dir

\* A wildcard of fnmatch stands for any text, "/" included: for one segment or more.
fnmatch(path, pattern) ==
  \E to \in [DOMAIN path -> DOMAIN pattern] :
    /\ \A k \in DOMAIN pattern : \E i \in DOMAIN path : to[i] = k
    /\ \A i, j \in DOMAIN path : i < j => to[i] <= to[j]
    /\ \A i \in DOMAIN path :
         \/ pattern[to[i]] \in Wild
         \/ path[i] = pattern[to[i]] /\ \A j \in DOMAIN path : to[j] = to[i] => j = i

\* "dir/**" and a single name stand for themselves and what is below, anything else
\* for what it matches as a whole: "a/b" is not "a/b/c".
path_matches(path, pattern) ==
  /\ path # <<>> /\ pattern # <<>>
  /\ CASE Len(pattern) > 1 /\ pattern[Len(pattern)] = "**" ->
            IsUnder(SubSeq(pattern, 1, Len(pattern) - 1), path)
       [] Len(pattern) = 1 /\ Literal(pattern) -> IsUnder(pattern, path)
       [] OTHER -> fnmatch(path, pattern)

MatchesAny(path, patterns) == \E p \in patterns : path_matches(path, p)

\* Protected, then forbidden, then allowed; what nothing matches is denied.
path_is_in_scope(path, spec, protected) ==
  /\ ~MatchesAny(path, protected)
  /\ ~MatchesAny(path, spec.forbidden)
  /\ MatchesAny(path, spec.allowed)

-----------------------------------------------------------------------------
(* The policy is read *)

\* _canonicalize_repo_relative_posix: an entry is relative to the repository and has
\* no empty, "." or ".." segment, but for a slash at its end.
Trimmed(parts) ==
  IF parts # <<>> /\ parts[Len(parts)] = "" THEN SubSeq(parts, 1, Len(parts) - 1) ELSE parts

IsCanonical(entry) ==
  /\ ~entry.absolute
  /\ Trimmed(entry.parts) # <<>>
  /\ \A i \in DOMAIN Trimmed(entry.parts) : Trimmed(entry.parts)[i] \notin {"", ".", ".."}

\* Mutant: the directory itself is probed, but no file in it.
DirectoryItself(dir, patterns) == MatchesAny(dir, patterns)

\* A file that stands for every file of a directory.
Probe == "__runtime_policy_child__"

_directory_is_recursively_protected(dir, patterns) ==
  /\ MatchesAny(dir, patterns)
  /\ MatchesAny(Append(dir, Probe), patterns)

\* The entries of runtime_edit_policy.protected_paths make a policy.
PolicyOf(entries) == {Trimmed(e.parts) : e \in entries}

_parse_runtime_edit_policy(entries) ==
  /\ entries # {} /\ \A e \in entries : IsCanonical(e)
  /\ MatchesAny(ConfigFile, PolicyOf(entries))
  /\ _directory_is_recursively_protected(TaskDir, PolicyOf(entries))
  /\ _directory_is_recursively_protected(StateDir, PolicyOf(entries))

\* A Task Spec that clearly asks for what is protected is turned away.
validate_spec_scope_policy(spec, protected) ==
  \A p \in spec.allowed :
    /\ p # <<"**">> /\ p \notin protected
    /\ Literal(p) => ~MatchesAny(p, protected)

\* What every policy has to protect.
Required(path) == path = ConfigFile \/ IsUnder(TaskDir, path) \/ IsUnder(StateDir, path)
=============================================================================

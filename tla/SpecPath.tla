------------------------------ MODULE SpecPath ------------------------------
(***************************************************************************)
(* The path in the identity of a work unit (agent/spec.py): however a Task *)
(* Spec was named on the command line, its marker holds one canonical path *)
(* relative to the repository.  A path is a list of segments.              *)
(***************************************************************************)
EXTENDS Integers, Sequences, FiniteSets

CONSTANTS Root,       \* the directory of the repository, from the file system's root
          Directory   \* the directory of the Task Specs, from the repository's

IsName(segment) == segment \notin {"", ".", ".."}

\* The repository's directory is a resolved path; the code refuses either to be empty.
ASSUME PathsAssumption ==
  /\ Root \in Seq(STRING) \ {<<>>} /\ \A i \in DOMAIN Root : IsName(Root[i])
  /\ Directory \in Seq(STRING) \ {<<>>}

Escape == [code |-> "SPEC_PATH_ESCAPE", parts |-> <<>>]
Path(parts) == [code |-> "", parts |-> parts]

IsPrefix(p, q) == Len(p) <= Len(q) /\ SubSeq(q, 1, Len(p)) = p

\* The parts that are left after one more segment: empty ones and "." are dropped,
\* ".." takes back the last one; top is what ".." is above them all.
Taken(before, segment, top) ==
  LET parts == before.parts
  IN  IF before.code # "" \/ segment \in {"", "."} THEN before
      ELSE IF segment # ".." THEN Path(Append(parts, segment))
      ELSE IF parts = <<>> THEN top
      ELSE Path(SubSeq(parts, 1, Len(parts) - 1))

Collapsed(segments, top) ==
  LET after[i \in 0..Len(segments)] ==
        IF i = 0 THEN Path(<<>>) ELSE Taken(after[i - 1], segments[i], top)
  IN  after[Len(segments)]

\* Mutant: ".." above the repository is dropped, as above the root of a file system.
DropsAbove(segments) == Collapsed(segments, Path(<<>>))

collapse_path_segments(segments) == Collapsed(segments, Escape)

\* An absolute path of a file that is there is resolved before it is made relative;
\* of another one the text of the root is stripped.
repo_relative_spec_path(path, exists) ==
  LET from == IF exists THEN Collapsed(path.parts, Path(<<>>)) ELSE Path(path.parts)
  IN  CASE ~path.absolute -> Path(path.parts)
        [] path.absolute /\ from.code = "" /\ IsPrefix(Root, from.parts) ->
             Path(SubSeq(from.parts, Len(Root) + 1, Len(from.parts)))
        [] OTHER -> Escape

\* _assert_under_spec_directory
UnderDirectory(parts) == IsPrefix(Directory, parts) /\ parts # Directory

canonicalize_spec_path(path, exists) ==
  LET relative  == repo_relative_spec_path(path, exists)
      canonical == collapse_path_segments(relative.parts)
  IN  IF relative.code # "" THEN relative
      ELSE IF canonical.code # "" THEN canonical
      ELSE IF canonical.parts = <<>> THEN [Escape EXCEPT !.code = "SPEC_PATH_INVALID"]
      ELSE IF UnderDirectory(canonical.parts) THEN canonical
      ELSE [Escape EXCEPT !.code = "SPEC_PATH_OUT_OF_DIR"]

is_canonical_spec_path(parts) ==
  /\ parts # <<>> /\ \A i \in DOMAIN parts : IsName(parts[i])
  /\ UnderDirectory(parts)

-----------------------------------------------------------------------------
(* What a path denotes, without collapsing it *)

\* A name stands unless a later ".." takes it back: between the two, names and
\* ".." cancel out.
Ups(p, i, k)   == Cardinality({n \in i..k : p[n] = ".."})
Downs(p, i, k) == Cardinality({n \in i..k : IsName(p[n])})

Stands(p, i) == IsName(p[i]) /\ \A k \in i..Len(p) : Downs(p, i, k) > Ups(p, i, k)

Standing(p) == {i \in DOMAIN p : Stands(p, i)}
Leaves(p)   == \E k \in DOMAIN p : Ups(p, 1, k) > Downs(p, 1, k)

\* q lists the names that stand in p.
Denotes(p, q) ==
  LET number(i) == Cardinality({k \in Standing(p) : k <= i})
  IN  /\ Len(q) = Cardinality(Standing(p))
      /\ \A i \in Standing(p) : q[number(i)] = p[i]
=============================================================================

--------------------------- MODULE ReviewTrackText ---------------------------
(***************************************************************************)
(* The comment that carries the memory of the reviews                      *)
(* (agent/review_track.py): how a ReviewTrack is written, and what reading *)
(* makes of a comment that somebody edited.  A comment is its marker and a *)
(* sequence of lines; a line has a key and a value, where the keys "item", *)
(* "blank" and "text" stand for "- <identity>", an empty line and a line   *)
(* without a colon.  The empty value is "".                                *)
(***************************************************************************)
EXTENDS Integers, Sequences

IdentityKeys == {"spec_id", "spec_path", "spec_sha256", "base_branch", "target_branch"}
_KNOWN_KEYS  == IdentityKeys \cup {"schema_version", "head_sha", "review_attempts"}

REVIEW_TRACK_SCHEMA_VERSION == 2

Line(key, value) == [key |-> key, value |-> value]

\* A track: the identity of its work unit, the head it is bound to, the number
\* of repairs, and the identities of the processed feedback.
render_review_track(track) ==
  [ marker |-> "closed",
    lines  |-> <<Line("schema_version", REVIEW_TRACK_SCHEMA_VERSION)>>
      \o [i \in 1..5 |-> LET key == <<"spec_id", "spec_path", "spec_sha256", "base_branch",
                                      "target_branch">>[i]
                         IN  Line(key, track.identity[key])]
      \o <<Line("head_sha", track.head), Line("review_attempts", track.attempts),
           Line("processed", "")>>
      \o [i \in 1..Len(track.processed) |-> Line("item", track.processed[i])] ]

\* An item counts below "processed:", up to the next line of another kind.
Listing(lines, i) ==
  \E j \in 1..(i - 1) :
    /\ lines[j].key = "processed"
    /\ \A k \in j..(i - 1) : lines[k].key \in {"processed", "item", "blank"}

FieldLines(lines) == {i \in DOMAIN lines : lines[i].key \notin {"processed", "item", "blank"}}

WellFormed(lines) ==
  /\ \A i \in DOMAIN lines : lines[i].key = "item" => Listing(lines, i)
  /\ \A i \in FieldLines(lines) :
       /\ lines[i].key \in _KNOWN_KEYS
       /\ \A k \in FieldLines(lines) : lines[k].key = lines[i].key => k = i

\* The value of a field, or what stands for one that is missing.
Field(lines, key, missing) ==
  IF \E i \in DOMAIN lines : lines[i].key = key
  THEN lines[CHOOSE i \in DOMAIN lines : lines[i].key = key].value ELSE missing

Unreadable == {}

\* The track that a comment holds: a set of one, or Unreadable.
parse_review_track(body) ==
  LET lines    == body.lines
      identity == [key \in IdentityKeys |-> Field(lines, key, "")]
      attempts == Field(lines, "review_attempts", 0)
      items    == SelectSeq(lines, LAMBDA line : line.key = "item")
  IN
  IF /\ body.marker = "closed"
     /\ WellFormed(lines)
     /\ Field(lines, "schema_version", 0) = REVIEW_TRACK_SCHEMA_VERSION
     /\ \A key \in IdentityKeys : identity[key] # ""
     /\ attempts \in Nat
  THEN {[ identity  |-> identity,
          head      |-> Field(lines, "head_sha", ""),
          attempts  |-> attempts,
          processed |-> [i \in 1..Len(items) |-> items[i].value] ]}
  ELSE Unreadable

matches_work_unit(track, identity) == track.identity = identity
=============================================================================

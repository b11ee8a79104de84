---------------------------- MODULE MCReviewLoop ----------------------------
(* Instances of ReviewLoop for TLC. *)
EXTENDS ReviewLoop, ReviewTrackText

TwoHeads == 1..2

\* A conversation comment, an inline one, and one about a path out of scope.
ThreeItems   == 1..3
TwoInline    == {2, 3}
ThreeNatures == <<"plain", "plain", "forbidden">>

OneOrTwo == {1, 2}

Answer(class, confident, paths) == [class |-> class, confident |-> confident, paths |-> paths]
Ignore == Answer("NON_ACTIONABLE", TRUE, "none")
Refuse == Answer("CONFLICTS_WITH_SPEC", TRUE, "none")
Fix    == Answer("ACTIONABLE", TRUE, "inside")
IgnoreOrFix == {Ignore, Fix}
ThreeAnswers == {Ignore, Refuse, Fix}

ThreeWords    == {"COMPLETED", "FAILED", "IN_PROGRESS"}
JustCompleted == {"COMPLETED"}

-----------------------------------------------------------------------------
(* Tracking comments with up to two items *)

Identity == [key \in IdentityKeys |-> key]
Written  == [identity : {Identity}, head : {"", "h"}, attempts : 0..2,
             processed : {<<>>, <<"a">>, <<"a", "b">>}]

Without(body, i) ==
  [body EXCEPT !.lines = SubSeq(@, 1, i - 1) \o SubSeq(@, i + 1, Len(@))]
With(body, i, line) ==
  [body EXCEPT !.lines = SubSeq(@, 1, i) \o <<line>> \o SubSeq(@, i + 1, Len(@))]

\* What one review saves is what the next one loads.
ASSUME WhatIsSavedIsLoaded ==
  \A track \in Written : parse_review_track(render_review_track(track)) = {track}

\* A comment that lost a line is unreadable, or it forgot one thing: the head,
\* the attempts, or one processed item.  The identity is never lost unnoticed.
ASSUME ALostLineForgetsOneThing ==
  \A track \in Written : \A i \in DOMAIN render_review_track(track).lines :
    \A t \in parse_review_track(Without(render_review_track(track), i)) :
      /\ matches_work_unit(t, Identity)
      /\ \/ t = [track EXCEPT !.head = ""]
         \/ t = [track EXCEPT !.attempts = 0]
         \/ /\ t = [track EXCEPT !.processed = t.processed]
            /\ Len(track.processed) - Len(t.processed) \in {0, 1}

\* A line that is not a review's, or is there twice, makes it unreadable, unless
\* it is empty, one more item, or a second heading of the items.
ASSUME AnotherLineIsNoticed ==
  \A track \in Written : \A i \in 0..Len(render_review_track(track).lines) :
    /\ \A key \in _KNOWN_KEYS \cup {"text", "unknown"} :
         parse_review_track(With(render_review_track(track), i, Line(key, "h"))) = Unreadable
    /\ \A t \in parse_review_track(With(render_review_track(track), i, Line("blank", ""))) : t = track
=============================================================================

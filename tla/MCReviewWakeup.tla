--------------------------- MODULE MCReviewWakeup ---------------------------
(* Instances of ReviewWakeup for TLC. *)
EXTENDS ReviewWakeup

TwoHeads == 1..2

AllConclusions == {"success", "skipped", "failure", "unknown"}
AllPosts ==
  { <<"pending", "in_progress">>, <<"pending", "">>, <<"success", "completed">>,
    <<"success", "skipped">>, <<"success", "">>, <<"failure", "">> }

Finishes == { <<"success", "completed">> }

Entries == Cardinality(checks) + Cardinality(statuses)

Simple ==
  /\ \A c \in checks : c.ours /\ c.conclusion \in {"", "success"}
  /\ \A s \in statuses : s.ours /\ <<s.state, s.description>> \in Finishes

\* Two words of any kind about one commit, two simple ones or three statuses about two;
\* or two simple ones within a second, and somebody who touches anything else.
SomeBudgets ==
  {[entries |-> 2, touches |-> 0], [entries |-> 3, touches |-> 0], [entries |-> 2, touches |-> 1],
   [entries |-> 1, touches |-> 2]}

Bounded ==
  IF budget.touches > 0 THEN Simple /\ now = 1
  ELSE IF budget.entries = 2 THEN Simple \/ head = 1
  ELSE Simple /\ checks = {}
=============================================================================

--------------------------- MODULE FeedbackLedger ---------------------------
(***************************************************************************)
(* What the memory of the review promises, whoever pushes, comments, fails *)
(* or restarts: feedback is settled once and stays settled, and a repair   *)
(* is attempted a bounded number of times, each time for feedback that was *)
(* not settled before.                                                     *)
(***************************************************************************)
EXTENDS Naturals

CONSTANTS Items, Limit

VARIABLES done,   \* feedback that will not be looked at again
          spent   \* repairs attempted

vars == <<done, spent>>

Init == done = {} /\ spent = 0

Settle(S) == done' = done \cup S /\ UNCHANGED spent

Spend(S) ==
  /\ spent < Limit
  /\ spent' = spent + 1
  /\ done' = done \cup S

Next ==
  \/ \E S \in SUBSET Items : Settle(S)
  \/ \E S \in SUBSET (Items \ done) : S # {} /\ Spend(S)

Spec == Init /\ [][Next]_vars
=============================================================================

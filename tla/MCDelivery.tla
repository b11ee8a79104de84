----------------------------- MODULE MCDelivery -----------------------------
(***************************************************************************)
(* Instances of Delivery for TLC.  Two base commits; the second one edits  *)
(* the Task Spec and moves it to another base branch, or leaves it alone.  *)
(***************************************************************************)
EXTENDS Delivery, TLC

CONSTANTS main, develop, s1, s2

SpecEdited  == <<s1, s2>>
SpecKept    == <<s1>>
BranchMoved == s1 :> main @@ s2 :> develop
BranchKept  == s1 :> main @@ s2 :> main

AnyJob == Permutations(Jobs)
=============================================================================

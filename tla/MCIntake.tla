------------------------------ MODULE MCIntake ------------------------------
(* Intake with two files, two branches and two tasks, one of which also comes *)
(* for the other branch, and a malformed document.                            *)
EXTENDS Intake

Texts    == {"t1", "t2", "u", "x"}
TaskIds  == [c \in Texts |-> IF c = "u" THEN "U" ELSE "T"]
Bases    == [c \in Texts |-> IF c = "t2" THEN "topic" ELSE "main"]
Broken   == {"x"}
Paths    == {"f", "g"}
Holding(x, y) == [p \in Paths |-> IF p = "f" THEN x ELSE y]
SomeTrees == {Holding("t1", "none"), Holding("x", "none"),
              Holding("t1", "u"), Holding("t1", "t2")}
=============================================================================

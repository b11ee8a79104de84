--------------------------- MODULE DeliveryLedger ---------------------------
(***************************************************************************)
(* What the deliver jobs promise to whoever looks at the target branch,    *)
(* its pull requests and the messages about them, in whatever order the    *)
(* calls of the jobs, their failures and the people come: work lands on a  *)
(* branch that holds none, a pull request shows the work it was opened     *)
(* for, and a job has one outcome, which is final, and announces nothing   *)
(* but a failure.                                                          *)
(***************************************************************************)
EXTENDS Naturals, Sequences

CONSTANTS Jobs, Specs, BaseCommits,
          Absent,   \* no branch
          Foreign   \* a commit, or the work of a pull request, of nobody's job

VARIABLES tip,    \* of the target branch
          pulls,  \* the work of each pull request, and whether it is open
          run,    \* the work of each job, whether it changes nothing, and its outcome
          told    \* jobs whose failure was announced

vars == <<tip, pulls, run, told>>

NotStarted == [work |-> Foreign, empty |-> FALSE, outcome |-> "none"]

Init == tip = Absent /\ pulls = <<>> /\ run = [j \in Jobs |-> NotStarted] /\ told = {}

Unused == {Absent} \cup BaseCommits

-----------------------------------------------------------------------------
(* Jobs *)

Running(j) == run[j].work # Foreign /\ run[j].outcome = "none"

Begin(j) ==
  /\ run[j] = NotStarted
  /\ \E s \in Specs, e \in BOOLEAN :
       run' = [run EXCEPT ![j] = [work |-> s, empty |-> e, outcome |-> "none"]]
  /\ UNCHANGED <<tip, pulls, told>>

\* What a job did stands, also when it fails because the answer to its call is lost.
MayFail(j) == run' \in {run, [run EXCEPT ![j].outcome = "FAILED"]}

Land(j) ==
  /\ Running(j)
  /\ tip \in Unused
  /\ IF run[j].empty THEN tip' \in BaseCommits ELSE tip' = j
  /\ MayFail(j)
  /\ UNCHANGED <<pulls, told>>

\* As long as every job changes something, a pull request is opened on the work it is
\* for, or on what people put on top of it, and there is no other one of a job.
OnItsWork(j) ==
  /\ tip \in {j, Foreign}
  /\ \A n \in DOMAIN pulls : pulls[n].open => pulls[n].work = Foreign

Open(j) ==
  /\ Running(j)
  /\ tip \notin Unused
  /\ (\A k \in Jobs : ~run[k].empty) => OnItsWork(j)
  /\ pulls' = Append(pulls, [work |-> run[j].work, open |-> TRUE])
  /\ MayFail(j)
  /\ UNCHANGED <<tip, told>>

Deliver(j) ==
  /\ Running(j)
  /\ \E n \in DOMAIN pulls : pulls[n].work = run[j].work
  /\ run' = [run EXCEPT ![j].outcome = "PR_CREATED"]
  /\ UNCHANGED <<tip, pulls, told>>

Fail(j) ==
  /\ Running(j)
  /\ \E o \in {"FAILED", "ESCALATED"} : run' = [run EXCEPT ![j].outcome = o]
  /\ UNCHANGED <<tip, pulls, told>>

Tell(j) ==
  /\ run[j].outcome \in {"FAILED", "ESCALATED"}
  /\ told' = told \cup {j}
  /\ UNCHANGED <<tip, pulls, run>>

-----------------------------------------------------------------------------
(* People *)

Branch == tip \in Unused /\ tip' \in Unused /\ UNCHANGED <<pulls, run, told>>

Commit == tip # Absent /\ tip' = Foreign /\ UNCHANGED <<pulls, run, told>>

OpenByHand ==
  /\ tip \notin Unused
  /\ pulls' = Append(pulls, [work |-> Foreign, open |-> TRUE])
  /\ UNCHANGED <<tip, run, told>>

\* The branch is only deleted with its pull requests.
Close(S) ==
  /\ pulls' = [n \in DOMAIN pulls |-> [pulls[n] EXCEPT !.open = @ /\ n \notin S]]
  /\ tip' = tip \/ (tip' = Absent /\ S = DOMAIN pulls)
  /\ UNCHANGED <<run, told>>

Next ==
  \/ \E j \in Jobs : Begin(j) \/ Land(j) \/ Open(j) \/ Deliver(j) \/ Fail(j) \/ Tell(j)
  \/ Branch \/ Commit \/ OpenByHand
  \/ \E S \in SUBSET DOMAIN pulls : Close(S)

Spec == Init /\ [][Next]_vars
=============================================================================

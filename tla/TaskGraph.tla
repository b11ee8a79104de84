----------------------------- MODULE TaskGraph -----------------------------
(***************************************************************************)
(* The check of the task graph of a Task Spec (agent/spec.py,              *)
(* _assert_task_graph): unique ids, known dependencies, and a depth-first  *)
(* search for cycles, one call or return of its inner function at a time.  *)
(* ExecutionState assumes what this check establishes.                     *)
(***************************************************************************)
EXTENDS Naturals, Sequences

CONSTANT Ids  \* what may stand for a task id in a Task Spec

\* A task: its id, and the ids it depends on in the order they are listed.
TaskRecords == [ id : Ids, depends_on : Seq(Ids) ]

VARIABLES
  tasks,     \* the tasks, in definition order
  verdict,   \* how far the parser is, and in the end what it found
  position,  \* the task the outer loop has come to
  stack,     \* calls of dfs under way: the node, and how many dependencies it has called
  visiting,
  visited

search == <<position, stack, visiting, visited>>
graph  == <<tasks, verdict, search>>

Outcomes == {"accepted", "invalid", "duplicate", "unknown", "cycle"}
Verdicts == Outcomes \cup {"written", "reading", "parsed", "searching"}

\* Type correctness; visiting holds exactly the nodes of the calls under way.
GraphTypeOK ==
  /\ tasks \in Seq(TaskRecords)
  /\ verdict \in Verdicts
  /\ position \in 1..(Len(tasks) + 1)
  /\ stack \in Seq([ node : Ids, called : Nat ])
  /\ visiting = {stack[i].node : i \in DOMAIN stack}
  /\ visited \subseteq Ids

NoSearch == position = 1 /\ stack = <<>> /\ visiting = {} /\ visited = {}

-----------------------------------------------------------------------------
(* The graph *)

SetOf(list) == {list[i] : i \in DOMAIN list}

known == {tasks[i].id : i \in DOMAIN tasks}

Unique == \A i, k \in DOMAIN tasks : tasks[i].id = tasks[k].id => i = k
Known  == \A i \in DOMAIN tasks : SetOf(tasks[i].depends_on) \subseteq known

adjacency(node) == LET i == CHOOSE k \in DOMAIN tasks : tasks[k].id = node
                   IN  tasks[i].depends_on

\* A set of tasks each of which depends on one of them holds a cycle.
Acyclic ==
  \A S \in SUBSET known : S # {} => \E node \in S : SetOf(adjacency(node)) \cap S = {}

-----------------------------------------------------------------------------
(* The check *)

Ends(v) == verdict' = v /\ UNCHANGED <<tasks, search>>

RejectDuplicate == verdict = "parsed" /\ ~Unique /\ Ends("duplicate")
RejectUnknown   == verdict = "parsed" /\ Unique /\ ~Known /\ Ends("unknown")
BeginSearch     == verdict = "parsed" /\ Unique /\ Known /\ Ends("searching")

\* Mutant: one set for the nodes that were ever entered.
EnteredBefore(node) == node \in visited \cup visiting

SearchedBefore(node) == node \in visited

\* dfs(node), up to its loop.  calls is the stack of the caller.
Call(node, calls) ==
  \/ /\ SearchedBefore(node)
     /\ stack' = calls
     /\ UNCHANGED <<verdict, visiting>>
  \/ /\ ~SearchedBefore(node) /\ node \in visiting
     /\ verdict' = "cycle" /\ stack' = calls
     /\ UNCHANGED visiting
  \/ /\ ~SearchedBefore(node) /\ node \notin visiting
     /\ visiting' = visiting \cup {node}
     /\ stack' = Append(calls, [node |-> node, called |-> 0])
     /\ UNCHANGED verdict

Top == stack[Len(stack)]

\* Mutant: the loop over the dependencies does not move on.
SameDependency == stack

NextDependency == [stack EXCEPT ![Len(stack)].called = @ + 1]

\* The outer loop calls dfs for the next task.
VisitTask ==
  /\ verdict = "searching" /\ stack = <<>> /\ position <= Len(tasks)
  /\ Call(tasks[position].id, stack)
  /\ position' = position + 1
  /\ UNCHANGED <<tasks, visited>>

\* The call on top calls dfs for its next dependency.
VisitDependency ==
  /\ verdict = "searching" /\ stack # <<>>
  /\ Top.called < Len(adjacency(Top.node))
  /\ Call(adjacency(Top.node)[Top.called + 1], NextDependency)
  /\ UNCHANGED <<tasks, position, visited>>

Finished ==
  /\ visiting' = visiting \ {Top.node}
  /\ visited' = visited \cup {Top.node}

\* The call on top returns.
Leave ==
  /\ verdict = "searching" /\ stack # <<>>
  /\ Top.called = Len(adjacency(Top.node))
  /\ Finished
  /\ stack' = SubSeq(stack, 1, Len(stack) - 1)
  /\ UNCHANGED <<tasks, verdict, position>>

Accept ==
  /\ verdict = "searching" /\ stack = <<>> /\ position > Len(tasks)
  /\ Ends("accepted")

CheckGraph ==
  \/ RejectDuplicate \/ RejectUnknown \/ BeginSearch
  \/ VisitTask \/ VisitDependency \/ Leave \/ Accept

-----------------------------------------------------------------------------
(* Properties *)

\* The search decides whether there is a cycle (spec.py:576-602).  An accepted Task
\* Spec has unique ids, known dependencies and no cycle: every set of its tasks has
\* one that depends on none of them, which is the form in which ExecutionState
\* assumes it; and none is turned away for a cycle it does not have, whatever paths
\* of its graph meet again.
AcyclicityIsDecided ==
  /\ verdict = "accepted" => Unique /\ Known /\ Acyclic
  /\ verdict = "cycle" => ~Acyclic
=============================================================================

--------------------------- MODULE TaskSpecProofs ---------------------------
(***************************************************************************)
(* Proofs about TaskSpec and its TaskGraph, for every set of ids,          *)
(* sections, subsections, drafts and blocks people may put into them.      *)
(* About the graph: the invariant says what the stack of the depth-first   *)
(* search is (a path of the graph whose nodes differ), what its visited    *)
(* set is (closed under dependencies and without a cycle), and which       *)
(* dependencies of the nodes on the stack lie in it.  About the parser: it *)
(* keeps within its types, hands the check of the graph the tasks of a     *)
(* document exactly if it is a Task Spec, the check decides whether their  *)
(* graph has a cycle, and no step of either is made for nothing.  About    *)
(* the identity: the path in it denotes the file that was named.           *)
(***************************************************************************)
EXTENDS TaskSpec, SequenceTheorems, FiniteSetTheorems, WellFoundedInduction, TLAPS

-----------------------------------------------------------------------------
(* The search *)

Needs(node) == SetOf(adjacency(node))

\* Every call under way is for a task, and has called no more than its dependencies.
OnStack ==
  /\ visited \subseteq known
  /\ \A i \in DOMAIN stack : /\ stack[i].node \in known
                             /\ stack[i].called <= Len(adjacency(stack[i].node))

\* Each call made the next one, for the dependency it has come to.
Chained ==
  \A i \in DOMAIN stack : i < Len(stack) =>
    stack[i].called >= 1 /\ adjacency(stack[i].node)[stack[i].called] = stack[i + 1].node

\* No node is entered twice.
Apart ==
  /\ visiting \cap visited = {}
  /\ \A i, k \in DOMAIN stack : stack[i].node = stack[k].node => i = k

\* The dependencies a call is done with are visited.
Settled ==
  \A i \in DOMAIN stack : \A k \in 1..stack[i].called :
    k < stack[i].called \/ i = Len(stack) => adjacency(stack[i].node)[k] \in visited

\* The visited nodes are closed under dependencies and hold no cycle.
Ordered ==
  /\ \A node \in visited : Needs(node) \subseteq visited
  /\ \A S \in SUBSET visited : S # {} => \E node \in S : Needs(node) \cap S = {}

\* The outer loop leaves no task behind.
Covered == \A i \in 1..(position - 1) : tasks[i].id \in visited \cup visiting

SearchInv == OnStack /\ Chained /\ Apart /\ Settled /\ Ordered /\ Covered

Checked == {"searching", "accepted", "cycle"}

GraphInv ==
  /\ verdict \notin Checked => NoSearch
  /\ verdict \in Checked => Unique /\ Known
  /\ verdict = "searching" => SearchInv
  /\ AcyclicityIsDecided

-----------------------------------------------------------------------------
(* The graph *)

\* A known node has its dependencies in a sequence of ids.
LEMMA AdjacencyType ==
  ASSUME tasks \in Seq(TaskRecords), NEW node \in known
  PROVE  adjacency(node) \in Seq(Ids)
<1>1. PICK i \in DOMAIN tasks : tasks[i].id = node
  BY DEF known
<1> DEFINE k == CHOOSE j \in DOMAIN tasks : tasks[j].id = node
<1>2. k \in DOMAIN tasks
  BY <1>1
<1>3. tasks[k] \in TaskRecords
  BY <1>2, ElementOfSeq
<1> QED
  BY <1>3 DEF adjacency, TaskRecords

\* The dependencies of a known node are known.
LEMMA NeedsAreKnown ==
  ASSUME tasks \in Seq(TaskRecords), Known, NEW node \in known
  PROVE  \A k \in 1..Len(adjacency(node)) : adjacency(node)[k] \in known
<1>1. PICK i \in DOMAIN tasks : tasks[i].id = node
  BY DEF known
<1> DEFINE k == CHOOSE j \in DOMAIN tasks : tasks[j].id = node
<1>2. k \in DOMAIN tasks
  BY <1>1
<1>3. SetOf(tasks[k].depends_on) \subseteq known
  BY <1>2 DEF Known
<1>4. adjacency(node) = tasks[k].depends_on
  BY DEF adjacency
<1>5. DOMAIN adjacency(node) = 1..Len(adjacency(node))
  BY AdjacencyType, LenProperties
<1> QED
  BY <1>3, <1>4, <1>5 DEF SetOf

\* What a node needs are the members of its list.
LEMMA NeedsMembers ==
  ASSUME tasks \in Seq(TaskRecords), NEW node \in known
  PROVE  Needs(node) = {adjacency(node)[k] : k \in 1..Len(adjacency(node))}
<1>1. DOMAIN adjacency(node) = 1..Len(adjacency(node))
  BY AdjacencyType, LenProperties
<1> QED
  BY <1>1 DEF Needs, SetOf

\* The graph is that of the tasks: it stays as long as they do.
LEMMA GraphFrame ==
  ASSUME tasks' = tasks
  PROVE  /\ known' = known
         /\ Unique' = Unique /\ Known' = Known
         /\ \A node : adjacency(node)' = adjacency(node)
         /\ \A node : Needs(node)' = Needs(node)
         /\ Acyclic' = Acyclic
<1>1. known' = known
  BY DEF known
<1>2. Unique' = Unique /\ Known' = Known
  BY DEF Unique, Known, known, SetOf
<1>3. \A node : adjacency(node)' = adjacency(node)
  BY DEF adjacency
<1>4. \A node : Needs(node)' = Needs(node)
  BY <1>3 DEF Needs, SetOf
<1>5. Acyclic' = Acyclic
  BY <1>1, <1>4 DEF Acyclic, Needs
<1> QED
  BY <1>1, <1>2, <1>3, <1>4, <1>5

\* The entries of a stack.
LEMMA StackType ==
  ASSUME NEW s \in Seq([ node : Ids, called : Nat ])
  PROVE  /\ Len(s) \in Nat /\ DOMAIN s = 1..Len(s)
         /\ \A i \in 1..Len(s) : s[i].node \in Ids /\ s[i].called \in Nat
<1>1. Len(s) \in Nat /\ DOMAIN s = 1..Len(s)
  BY LenProperties
<1>2. \A i \in 1..Len(s) : s[i] \in [ node : Ids, called : Nat ]
  BY ElementOfSeq
<1> QED
  BY <1>1, <1>2

-----------------------------------------------------------------------------
(* One call of dfs *)

\* The stack with which a caller calls dfs(node): its own entry has moved on.
Calling(calls, node) ==
  /\ calls \in Seq([ node : Ids, called : Nat ]) /\ Len(calls) = Len(stack)
  /\ \A i \in 1..Len(stack) :
       /\ calls[i].node = stack[i].node
       /\ calls[i].called = IF i = Len(stack) THEN stack[i].called + 1 ELSE stack[i].called
       /\ i = Len(stack) => /\ calls[i].called <= Len(adjacency(calls[i].node))
                            /\ adjacency(calls[i].node)[calls[i].called] = node

\* What every call finds: a search under way over a graph that was checked.
UnderWay == GraphTypeOK /\ SearchInv /\ Unique /\ Known /\ verdict = "searching"

\* The outer loop moves on to the task it calls dfs for, or stays.
Moves(node) ==
  \/ position' = position
  \/ position <= Len(tasks) /\ tasks[position].id = node /\ position' = position + 1

\* A call for a visited node returns at once.
LEMMA CallReturns ==
  ASSUME UnderWay, NEW node \in known, NEW calls, Calling(calls, node), Moves(node),
         node \in visited, stack' = calls, UNCHANGED <<tasks, verdict, visiting, visited>>
  PROVE  GraphTypeOK' /\ GraphInv'
<1> USE DEF UnderWay
<1>1. /\ tasks \in Seq(TaskRecords) /\ stack \in Seq([ node : Ids, called : Nat ])
      /\ stack' \in Seq([ node : Ids, called : Nat ])
      /\ DOMAIN stack = 1..Len(stack) /\ DOMAIN stack' = 1..Len(stack)
      /\ Len(stack') = Len(stack) /\ Len(stack) \in Nat
      /\ \A i \in 1..Len(stack) : stack[i].called \in Nat /\ stack'[i].called \in Nat
  BY StackType DEF GraphTypeOK, Calling
<1>2. /\ known' = known /\ Unique' /\ Known'
      /\ \A n : adjacency(n)' = adjacency(n)
      /\ \A n : Needs(n)' = Needs(n)
  BY GraphFrame
<1>3. position' \in 1..(Len(tasks') + 1)
  BY <1>1 DEF GraphTypeOK, Moves
<1>4. visiting' = {stack'[i].node : i \in DOMAIN stack'}
  BY <1>1 DEF GraphTypeOK, Calling
<1>5. GraphTypeOK'
  BY <1>1, <1>3, <1>4 DEF GraphTypeOK
<1>6. OnStack'
  BY <1>1, <1>2 DEF OnStack, SearchInv, Calling
<1>7. Chained'
  <2> SUFFICES ASSUME NEW i \in 1..Len(stack), i < Len(stack)
               PROVE  /\ stack'[i].called >= 1
                      /\ adjacency(stack'[i].node)[stack'[i].called] = stack'[i + 1].node
    BY <1>1, <1>2 DEF Chained
  <2>0. i + 1 \in 1..Len(stack)
    BY <1>1
  <2>1. stack'[i].called = stack[i].called /\ stack'[i].node = stack[i].node
    BY DEF Calling
  <2>2. stack'[i + 1].node = stack[i + 1].node
    BY <2>0 DEF Calling
  <2> QED
    BY <1>1, <2>1, <2>2 DEF Chained, SearchInv
<1>8. Apart'
  <2>1. visiting' \cap visited' = {}
    BY DEF Apart, SearchInv
  <2>2. \A i \in 1..Len(stack) : stack'[i].node = stack[i].node
    BY DEF Calling
  <2>3. \A i, k \in 1..Len(stack) : stack[i].node = stack[k].node => i = k
    BY <1>1 DEF Apart, SearchInv
  <2>4. \A i, k \in DOMAIN stack' : stack'[i].node = stack'[k].node => i = k
    BY <1>1, <2>2, <2>3
  <2> QED
    BY <2>1, <2>4 DEF Apart
<1>9. Settled'
  <2> SUFFICES ASSUME NEW i \in 1..Len(stack), NEW k \in 1..stack'[i].called,
                      k < stack'[i].called \/ i = Len(stack)
               PROVE  adjacency(stack'[i].node)[k] \in visited
    BY <1>1, <1>2 DEF Settled
  <2>1. CASE i = Len(stack) /\ k = stack'[i].called
    BY <2>1 DEF Calling
  <2>2. CASE ~(i = Len(stack) /\ k = stack'[i].called)
    <3>1. stack'[i].called = IF i = Len(stack) THEN stack[i].called + 1 ELSE stack[i].called
      BY DEF Calling
    <3>4. stack[i].called \in Nat /\ stack'[i].called \in Nat /\ k \in 1..stack'[i].called
      BY <1>1
    <3>2. k \in 1..stack[i].called
      <4>1. CASE i = Len(stack)
        BY <2>2, <3>1, <3>4, <4>1
      <4>2. CASE i # Len(stack)
        BY <3>1, <3>4, <4>2
      <4> QED
        BY <4>1, <4>2
    <3>3. k < stack[i].called \/ i = Len(stack)
      BY <3>1
    <3> QED
      BY <1>1, <3>2, <3>3 DEF Calling, Settled, SearchInv
  <2> QED
    BY <2>1, <2>2
<1>10. Ordered'
  BY <1>2 DEF Ordered, SearchInv
<1>11. Covered'
  <2>1. tasks' = tasks /\ visited' = visited /\ visiting' = visiting
    OBVIOUS
  <2>2. \A i \in 1..(position - 1) : tasks[i].id \in visited \cup visiting
    BY DEF Covered, SearchInv
  <2>3. position \in Nat
    BY <1>1, LenProperties DEF GraphTypeOK
  <2>4. CASE position' = position
    BY <2>1, <2>2, <2>4 DEF Covered
  <2>5. CASE tasks[position].id = node /\ position' = position + 1
    <3>1. \A i \in 1..position : tasks[i].id \in visited \cup visiting
      <4> SUFFICES ASSUME NEW i \in 1..position
                   PROVE  tasks[i].id \in visited \cup visiting
        OBVIOUS
      <4>1. i = position \/ i \in 1..(position - 1)
        BY <2>3
      <4> QED
        BY <2>2, <2>5, <4>1
    <3>2. position' - 1 = position
      BY <2>3, <2>5
    <3> QED
      BY <2>1, <3>1, <3>2 DEF Covered
  <2> QED
    BY <2>4, <2>5 DEF Moves
<1>12. AcyclicityIsDecided'
  BY DEF AcyclicityIsDecided
<1> QED
  BY <1>2, <1>5, <1>6, <1>7, <1>8, <1>9, <1>10, <1>11, <1>12 DEF GraphInv, SearchInv, Checked

\* A call for a new node is put on the stack.
LEMMA CallEnters ==
  ASSUME UnderWay, NEW node \in known, NEW calls, Calling(calls, node), Moves(node),
         node \notin visited, node \notin visiting,
         visiting' = visiting \cup {node},
         stack' = Append(calls, [node |-> node, called |-> 0]),
         UNCHANGED <<tasks, verdict, visited>>
  PROVE  GraphTypeOK' /\ GraphInv'
<1> USE DEF UnderWay
<1> DEFINE last == Len(stack) + 1
<1>0. node \in Ids
  <2>1. PICK i \in DOMAIN tasks : tasks[i].id = node
    BY DEF known
  <2>2. tasks[i] \in TaskRecords
    BY ElementOfSeq, LenProperties DEF GraphTypeOK
  <2> QED
    BY <2>1, <2>2 DEF TaskRecords
<1>1. /\ tasks \in Seq(TaskRecords)
      /\ DOMAIN stack = 1..Len(stack) /\ DOMAIN stack' = 1..last
      /\ Len(stack') = last /\ Len(stack) \in Nat
      /\ stack' \in Seq([ node : Ids, called : Nat ])
      /\ \A i \in 1..Len(stack) : stack[i].called \in Nat /\ stack'[i] = calls[i]
      /\ stack'[last] = [node |-> node, called |-> 0]
  <2>1. calls \in Seq([ node : Ids, called : Nat ]) /\ Len(calls) = Len(stack)
    BY DEF Calling
  <2>2. [node |-> node, called |-> 0] \in [ node : Ids, called : Nat ]
    BY <1>0
  <2>3. /\ stack' \in Seq([ node : Ids, called : Nat ])
        /\ Len(stack') = Len(calls) + 1
        /\ \A i \in 1..Len(calls) : stack'[i] = calls[i]
        /\ stack'[Len(calls) + 1] = [node |-> node, called |-> 0]
    BY <2>1, <2>2, AppendProperties
  <2>4. Len(stack) \in Nat /\ DOMAIN stack = 1..Len(stack) /\ DOMAIN stack' = 1..last
        /\ \A i \in 1..Len(stack) : stack[i].called \in Nat
    BY <2>1, <2>3, StackType DEF GraphTypeOK
  <2> QED
    BY <2>1, <2>3, <2>4 DEF GraphTypeOK
<1>2. /\ known' = known /\ Unique' /\ Known'
      /\ \A n : adjacency(n)' = adjacency(n)
      /\ \A n : Needs(n)' = Needs(n)
  BY GraphFrame
<1>3. position' \in 1..(Len(tasks') + 1)
  BY <1>1 DEF GraphTypeOK, Moves
<1>n. /\ \A i \in 1..Len(stack) : stack'[i].node = stack[i].node
      /\ stack'[last].node = node
  BY <1>1 DEF Calling
<1>4. visiting' = {stack'[i].node : i \in DOMAIN stack'}
  <2>1. visiting = {stack[i].node : i \in 1..Len(stack)}
    BY <1>1 DEF GraphTypeOK
  <2>2. visiting = {stack'[i].node : i \in 1..Len(stack)}
    BY <1>n, <2>1
  <2>3. DOMAIN stack' = 1..Len(stack) \cup {last}
    BY <1>1
  <2> HIDE DEF last
  <2> QED
    BY <1>n, <2>2, <2>3
<1>5. GraphTypeOK'
  BY <1>1, <1>3, <1>4 DEF GraphTypeOK
<1>6. OnStack'
  <2>1. Len(adjacency(node)) \in Nat
    BY <1>1, AdjacencyType, LenProperties
  <2> QED
    BY <1>1, <1>2, <2>1 DEF OnStack, SearchInv, Calling
<1>7. Chained'
  <2> SUFFICES ASSUME NEW i \in 1..last, i < last
               PROVE  /\ stack'[i].called >= 1
                      /\ adjacency(stack'[i].node)[stack'[i].called] = stack'[i + 1].node
    BY <1>1, <1>2 DEF Chained
  <2>1. i \in 1..Len(stack)
    BY <1>1
  <2>2. CASE i < Len(stack)
    <3>1. /\ stack'[i].called = stack[i].called /\ stack'[i].node = stack[i].node
          /\ stack'[i + 1].node = stack[i + 1].node
      BY <1>1, <1>n, <2>1, <2>2 DEF Calling
    <3> QED
      BY <1>1, <2>1, <2>2, <3>1 DEF Chained, SearchInv
  <2>3. CASE i = Len(stack)
    <3>1. /\ calls[i].node = stack[i].node /\ calls[i].called = stack[i].called + 1
          /\ adjacency(calls[i].node)[calls[i].called] = node
      BY <2>1, <2>3 DEF Calling
    <3>2. stack'[i] = calls[i] /\ stack[i].called + 1 >= 1
      BY <1>1, <2>1
    <3>3. stack'[i + 1].node = node
      BY <1>n, <2>3
    <3> QED
      BY <3>1, <3>2, <3>3
  <2>4. i < Len(stack) \/ i = Len(stack)
    <3>1. Len(stack) \in Nat
      BY <1>1
    <3> QED
      BY <2>1, <3>1
  <2> QED
    BY <2>2, <2>3, <2>4
<1>8. Apart'
  <2>1. visiting' \cap visited' = {}
    BY DEF Apart, SearchInv
  <2>2. \A i \in 1..Len(stack) : stack'[i].node \in visiting
    BY <1>1, <1>n DEF GraphTypeOK
  <2>3. ASSUME NEW i \in 1..last, NEW k \in 1..last, stack'[i].node = stack'[k].node
        PROVE  i = k
    <3>1. CASE i \in 1..Len(stack) /\ k \in 1..Len(stack)
      BY <1>1, <1>n, <2>3, <3>1 DEF Apart, SearchInv
    <3>2. CASE i = last \/ k = last
      BY <1>1, <1>n, <2>2, <2>3, <3>2
    <3> QED
      BY <1>1, <3>1, <3>2
  <2> QED
    BY <1>1, <2>1, <2>3 DEF Apart
<1>9. Settled'
  <2> SUFFICES ASSUME NEW i \in 1..last, NEW k \in 1..stack'[i].called,
                      k < stack'[i].called \/ i = last
               PROVE  adjacency(stack'[i].node)[k] \in visited
    BY <1>1, <1>2 DEF Settled
  <2>1. i \in 1..Len(stack) /\ k < stack'[i].called
    BY <1>1
  <2>2. k \in 1..stack[i].called /\ (k < stack[i].called \/ i = Len(stack))
    BY <1>1, <2>1 DEF Calling
  <2> QED
    BY <1>1, <2>1, <2>2 DEF Calling, Settled, SearchInv
<1>10. Ordered'
  BY <1>2 DEF Ordered, SearchInv
<1>11. Covered'
  <2>1. \A i \in 1..(position - 1) : tasks[i].id \in visited' \cup visiting'
    BY DEF Covered, SearchInv
  <2>2. position \in Nat /\ (position' = position \/ (position' = position + 1 /\ tasks[position].id = node))
    BY <1>1, LenProperties DEF Moves, GraphTypeOK
  <2> QED
    BY <2>1, <2>2 DEF Covered
<1>12. AcyclicityIsDecided'
  BY DEF AcyclicityIsDecided
<1> QED
  BY <1>2, <1>5, <1>6, <1>7, <1>8, <1>9, <1>10, <1>11, <1>12 DEF GraphInv, SearchInv, Checked

\* A call for a node that is being visited has found a cycle: the stack from that
\* node on.
LEMMA CallFindsCycle ==
  ASSUME UnderWay, NEW node \in known, NEW calls, Calling(calls, node), Moves(node),
         node \in visiting, verdict' = "cycle", stack' = calls,
         UNCHANGED <<tasks, visiting, visited>>
  PROVE  GraphTypeOK' /\ GraphInv'
<1> USE DEF UnderWay
<1>1. /\ tasks \in Seq(TaskRecords)
      /\ stack' \in Seq([ node : Ids, called : Nat ])
      /\ DOMAIN stack = 1..Len(stack) /\ DOMAIN stack' = 1..Len(stack)
      /\ Len(stack) \in Nat
      /\ \A i \in 1..Len(stack) : stack[i].called \in Nat
  BY StackType DEF GraphTypeOK, Calling
<1>2. position' \in 1..(Len(tasks') + 1)
  BY <1>1 DEF GraphTypeOK, Moves
<1>3. visiting' = {stack'[i].node : i \in DOMAIN stack'}
  BY <1>1 DEF GraphTypeOK, Calling
<1>4. GraphTypeOK'
  BY <1>1, <1>2, <1>3 DEF GraphTypeOK, Verdicts, Outcomes
<1>5. PICK j \in 1..Len(stack) : stack[j].node = node
  BY <1>1 DEF GraphTypeOK
<1> DEFINE S == {stack[i].node : i \in j..Len(stack)}
<1>6. S \subseteq known /\ S # {}
  <2>1. \A i \in 1..Len(stack) : stack[i].node \in known
    BY <1>1 DEF OnStack, SearchInv
  <2>2. j..Len(stack) \subseteq 1..Len(stack) /\ Len(stack) \in j..Len(stack)
    BY <1>1, <1>5
  <2> QED
    BY <2>1, <2>2
<1>7. ASSUME NEW i \in j..Len(stack)
      PROVE  Needs(stack[i].node) \cap S # {}
  <2>1. i \in 1..Len(stack) /\ stack[i].node \in known
    BY <1>1, <1>5 DEF OnStack, SearchInv
  <2>2. Needs(stack[i].node) =
          {adjacency(stack[i].node)[k] : k \in 1..Len(adjacency(stack[i].node))}
    BY <1>1, <2>1, NeedsMembers
  <2>3. CASE i < Len(stack)
    <3>1. /\ stack[i].called >= 1 /\ stack[i].called <= Len(adjacency(stack[i].node))
          /\ adjacency(stack[i].node)[stack[i].called] = stack[i + 1].node
      BY <1>1, <2>1, <2>3 DEF Chained, OnStack, SearchInv
    <3>3. Len(adjacency(stack[i].node)) \in Nat
      BY <1>1, <2>1, AdjacencyType, LenProperties
    <3>4. stack[i].called \in 1..Len(adjacency(stack[i].node))
      BY <1>1, <2>1, <3>1, <3>3
    <3>2. i + 1 \in j..Len(stack)
      BY <1>1, <2>3
    <3> QED
      BY <2>2, <3>1, <3>2, <3>4
  <2>4. CASE i = Len(stack)
    <3>3. Len(adjacency(stack[i].node)) \in Nat
      BY <1>1, <2>1, AdjacencyType, LenProperties
    <3>4. /\ calls[i].node = stack[i].node /\ calls[i].called = stack[i].called + 1
          /\ calls[i].called <= Len(adjacency(calls[i].node))
          /\ adjacency(calls[i].node)[calls[i].called] = node
      BY <2>1, <2>4 DEF Calling
    <3>5. stack[i].called + 1 <= Len(adjacency(stack[i].node))
          /\ adjacency(stack[i].node)[stack[i].called + 1] = node
      BY <3>4
    <3>6. stack[i].called \in Nat
      BY <1>1, <2>1, <2>4, StackType
    <3>1. stack[i].called + 1 \in 1..Len(adjacency(stack[i].node))
      BY <3>3, <3>5, <3>6
    <3>2. node \in S
      BY <1>1, <1>5
    <3> QED
      BY <2>2, <3>1, <3>2, <3>5
  <2>5. i < Len(stack) \/ i = Len(stack)
    <3> HIDE DEF S
    <3>1. i \in 1..Len(stack)
      BY <2>1
    <3>2. Len(stack) \in Nat
      BY <1>1
    <3> QED
      BY <3>1, <3>2
  <2> QED
    BY <2>3, <2>4, <2>5
<1>8. ~Acyclic
  <2>1. \A n \in S : Needs(n) \cap S # {}
    BY <1>7
  <2> HIDE DEF S
  <2> QED
    BY <1>6, <2>1 DEF Acyclic, Needs
<1>9. AcyclicityIsDecided' /\ Unique' /\ Known'
  BY <1>8, GraphFrame DEF AcyclicityIsDecided
<1> QED
  BY <1>4, <1>9 DEF GraphInv, Checked

-----------------------------------------------------------------------------
(* The steps of the check *)

\* The case distinction of a call.
LEMMA CallStep ==
  ASSUME UnderWay, NEW node \in known, NEW calls, Calling(calls, node), Moves(node),
         Call(node, calls), UNCHANGED <<tasks, visited>>
  PROVE  GraphTypeOK' /\ GraphInv'
<1>1. CASE node \in visited
  BY <1>1, CallReturns DEF Call, SearchedBefore
<1>2. CASE node \notin visited /\ node \in visiting
  BY <1>2, CallFindsCycle DEF Call, SearchedBefore
<1>3. CASE node \notin visited /\ node \notin visiting
  BY <1>3, CallEnters DEF Call, SearchedBefore
<1> QED
  BY <1>1, <1>2, <1>3

\* The outer loop calls dfs with an empty stack.
LEMMA VisitTaskStep == UnderWay /\ VisitTask => GraphTypeOK' /\ GraphInv'
<1> SUFFICES ASSUME UnderWay, VisitTask
             PROVE  GraphTypeOK' /\ GraphInv'
  OBVIOUS
<1> DEFINE node == tasks[position].id
<1>1. position \in DOMAIN tasks
  BY LenProperties DEF UnderWay, GraphTypeOK, VisitTask
<1>2. node \in known
  BY <1>1 DEF known
<1>3. Calling(stack, node)
  <2>1. Len(stack) = 0 /\ stack \in Seq([ node : Ids, called : Nat ])
    BY EmptySeq DEF VisitTask, UnderWay, GraphTypeOK
  <2> QED
    BY <2>1 DEF Calling
<1>4. Moves(node) /\ Call(node, stack) /\ UNCHANGED <<tasks, visited>>
  BY DEF VisitTask, Moves
<1> HIDE DEF node
<1> QED
  BY <1>2, <1>3, <1>4, CallStep

\* The call on top: the entry it has, and the list it goes through.
LEMMA TopType ==
  ASSUME UnderWay, stack # <<>>
  PROVE  /\ Len(stack) \in Nat \ {0}
         /\ Top.node \in known /\ Top.called \in Nat
         /\ Len(adjacency(Top.node)) \in Nat
<1>1. Len(stack) \in Nat \ {0} /\ DOMAIN stack = 1..Len(stack)
  BY EmptySeq, LenProperties DEF UnderWay, GraphTypeOK
<1>2. Len(stack) \in 1..Len(stack)
  BY <1>1
<1>3. Top.node \in known /\ Top.called \in Nat
  BY <1>1, <1>2, StackType DEF UnderWay, GraphTypeOK, SearchInv, OnStack, Top
<1>4. Len(adjacency(Top.node)) \in Nat
  BY <1>3, AdjacencyType, LenProperties DEF UnderWay, GraphTypeOK
<1> QED
  BY <1>1, <1>3, <1>4

\* The call on top moves on to its next dependency and calls dfs for it.
LEMMA VisitDependencyStep == UnderWay /\ VisitDependency => GraphTypeOK' /\ GraphInv'
<1> SUFFICES ASSUME UnderWay, VisitDependency
             PROVE  GraphTypeOK' /\ GraphInv'
  OBVIOUS
<1> DEFINE node == adjacency(Top.node)[Top.called + 1]
           calls == NextDependency
<1>1. stack # <<>> /\ Top.called < Len(adjacency(Top.node))
  BY DEF VisitDependency
<1>2. /\ Len(stack) \in Nat \ {0}
      /\ Top.node \in known /\ Top.called \in Nat
      /\ Len(adjacency(Top.node)) \in Nat
  BY <1>1, TopType
<1>3. Top.called + 1 \in 1..Len(adjacency(Top.node))
  BY <1>1, <1>2
<1>4. node \in known
  BY <1>2, <1>3, NeedsAreKnown DEF UnderWay, GraphTypeOK
<1>5. stack \in Seq([ node : Ids, called : Nat ]) /\ DOMAIN stack = 1..Len(stack)
  BY LenProperties DEF UnderWay, GraphTypeOK
<1>6. Top \in [ node : Ids, called : Nat ]
  <2>1. Len(stack) \in 1..Len(stack)
    BY <1>2
  <2> QED
    BY <1>5, <2>1, ElementOfSeq DEF Top
<1> DEFINE entry == [Top EXCEPT !.called = Top.called + 1]
<1>7. entry \in [ node : Ids, called : Nat ] /\ entry.node = Top.node /\ entry.called = Top.called + 1
  BY <1>2, <1>6
<1>8. calls = [stack EXCEPT ![Len(stack)] = entry]
  BY DEF NextDependency, Top
<1> HIDE DEF calls, entry
<1>9. calls \in Seq([ node : Ids, called : Nat ]) /\ Len(calls) = Len(stack)
      /\ \A i \in 1..Len(stack) : calls[i] = IF i = Len(stack) THEN entry ELSE stack[i]
  BY <1>2, <1>5, <1>7, <1>8, ExceptSeq
<1>10. Calling(calls, node)
  BY <1>1, <1>2, <1>3, <1>7, <1>9 DEF Calling, Top
<1>11. Moves(node) /\ Call(node, calls) /\ UNCHANGED <<tasks, visited>>
  BY DEF VisitDependency, Moves, calls
<1> HIDE DEF node
<1> QED
  BY <1>4, <1>10, <1>11, CallStep

\* The call on top returns: its node joins the visited ones after all it needs.
LEMMA LeaveStep == UnderWay /\ Leave => GraphTypeOK' /\ GraphInv'
<1> SUFFICES ASSUME UnderWay, Leave
             PROVE  GraphTypeOK' /\ GraphInv'
  OBVIOUS
<1> USE DEF UnderWay
<1> DEFINE top == Top.node
           last == Len(stack)
<1>0. /\ last \in Nat \ {0}
      /\ top \in known /\ Top.called \in Nat /\ Top.called = Len(adjacency(top))
      /\ visiting' = visiting \ {top} /\ visited' = visited \cup {top}
      /\ UNCHANGED <<tasks, verdict, position>>
  BY TopType DEF Leave, Finished
<1>1. /\ tasks \in Seq(TaskRecords) /\ stack \in Seq([ node : Ids, called : Nat ])
      /\ DOMAIN stack = 1..last
      /\ \A i \in 1..last : stack[i].node \in Ids /\ stack[i].called \in Nat
  BY StackType DEF GraphTypeOK
<1>2. /\ stack' \in Seq([ node : Ids, called : Nat ])
      /\ DOMAIN stack' = 1..(last - 1) /\ Len(stack') = last - 1
      /\ \A i \in 1..(last - 1) : stack'[i] = stack[i]
  <2> DEFINE rest == SubSeq(stack, 1, last - 1)
             Entries == [ node : Ids, called : Nat ]
  <2>1. stack' = rest
    BY DEF Leave
  <2>2. last - 1 \in Nat /\ 1..(last - 1) \subseteq 1..last
    BY <1>0
  <2>3. \A i \in 1..(last - 1) : stack[i] \in Entries
    BY <1>1, <2>2, ElementOfSeq
  <2> HIDE DEF last, Entries
  <2>4. /\ rest \in Seq(Entries)
        /\ Len(rest) = IF 1 <= last - 1 THEN (last - 1) - 1 + 1 ELSE 0
        /\ \A i \in 1..((last - 1) - 1 + 1) : rest[i] = stack[1 + i - 1]
    BY <2>2, <2>3, SubSeqProperties
  <2> HIDE DEF rest
  <2>5. Len(rest) = last - 1 /\ DOMAIN rest = 1..(last - 1)
    BY <2>2, <2>4, LenProperties
  <2>6. \A i \in 1..(last - 1) : rest[i] = stack[i]
    BY <2>2, <2>4
  <2> QED
    BY <2>1, <2>4, <2>5, <2>6 DEF Entries
<1>3. stack[last].node = top /\ stack[last].called = Len(adjacency(top)) /\ last \in 1..last
  BY <1>0 DEF Top
<1>4. /\ known' = known /\ Unique' /\ Known'
      /\ \A n : adjacency(n)' = adjacency(n)
      /\ \A n : Needs(n)' = Needs(n)
  BY <1>0, GraphFrame
<1>5. top \notin visited /\ top \in visiting /\ top \in Ids
  BY <1>1, <1>3 DEF GraphTypeOK, SearchInv, Apart
<1>6. Needs(top) \subseteq visited
  <2>1. Needs(top) = {adjacency(top)[k] : k \in 1..Len(adjacency(top))}
    BY <1>0, <1>1, NeedsMembers
  <2>2. \A k \in 1..Len(adjacency(top)) : adjacency(top)[k] \in visited
    BY <1>1, <1>3 DEF SearchInv, Settled
  <2> QED
    BY <2>1, <2>2
<1> HIDE DEF top, last
<1>7. visiting' = {stack'[i].node : i \in DOMAIN stack'}
  <2>1. visiting = {stack[i].node : i \in 1..last}
    BY <1>1 DEF GraphTypeOK
  <2>2. \A i \in 1..last : stack[i].node = top => i = last
    BY <1>1, <1>3 DEF SearchInv, Apart
  <2>3. 1..last = 1..(last - 1) \cup {last} /\ last \notin 1..(last - 1)
    BY <1>0
  <2>4. visiting' = {stack[i].node : i \in 1..(last - 1)}
    BY <1>0, <1>3, <2>1, <2>2, <2>3
  <2> QED
    BY <1>2, <2>4
<1>8. GraphTypeOK'
  BY <1>0, <1>2, <1>5, <1>7 DEF GraphTypeOK
<1>9. OnStack'
  <2>1. 1..(last - 1) \subseteq 1..last
    BY <1>0
  <2> QED
    BY <1>0, <1>1, <1>2, <1>4, <2>1 DEF OnStack, SearchInv
<1>10. Chained'
  <2> SUFFICES ASSUME NEW i \in 1..(last - 1), i < last - 1
               PROVE  /\ stack[i].called >= 1
                      /\ adjacency(stack[i].node)[stack[i].called] = stack[i + 1].node
    <3>1. \A i \in 1..(last - 1) : i < last - 1 => stack'[i + 1] = stack[i + 1]
      BY <1>0, <1>2
    <3> QED
      BY <1>2, <1>4, <3>1 DEF Chained
  <2>1. i \in 1..last /\ i < last
    BY <1>0
  <2> QED
    BY <1>1, <2>1 DEF SearchInv, Chained, last
<1>11. Apart'
  <2>1. 1..(last - 1) \subseteq 1..last
    BY <1>0
  <2>2. \A i, k \in 1..(last - 1) : stack'[i].node = stack'[k].node => i = k
    BY <1>1, <1>2, <2>1 DEF SearchInv, Apart
  <2>3. visiting' \cap visited' = {}
    BY <1>0 DEF SearchInv, Apart
  <2> QED
    BY <1>2, <2>2, <2>3 DEF Apart
<1>12. Settled'
  <2> SUFFICES ASSUME NEW i \in 1..(last - 1), NEW k \in 1..stack[i].called,
                      k < stack[i].called \/ i = last - 1
               PROVE  adjacency(stack[i].node)[k] \in visited'
    BY <1>2, <1>4 DEF Settled
  <2>1. i \in 1..last /\ i < last
    BY <1>0
  <2>2. CASE k < stack[i].called
    BY <1>0, <1>1, <2>1, <2>2 DEF SearchInv, Settled
  <2>3. CASE k = stack[i].called /\ i = last - 1
    <3>1. adjacency(stack[i].node)[stack[i].called] = stack[i + 1].node
      BY <1>1, <2>1 DEF SearchInv, Chained, last
    <3>2. i + 1 = last
      BY <1>0, <2>3
    <3> QED
      BY <1>0, <1>3, <2>3, <3>1, <3>2
  <2>4. k < stack[i].called \/ k = stack[i].called
    <3>1. stack[i].called \in Nat
      BY <1>1, <2>1
    <3> QED
      BY <3>1
  <2> QED
    BY <2>2, <2>3, <2>4
<1>13. Ordered'
  <2>1. \A node \in visited' : Needs(node) \subseteq visited'
    BY <1>0, <1>6 DEF SearchInv, Ordered
  <2>2. ASSUME NEW S \in SUBSET visited', S # {}
        PROVE  \E node \in S : Needs(node) \cap S = {}
    <3>1. CASE S = {top}
      BY <1>5, <1>6, <3>1
    <3>2. CASE S # {top}
      <4>1. S \ {top} \subseteq visited /\ S \ {top} # {}
        BY <1>0, <2>2, <3>2
      <4>2. PICK node \in S \ {top} : Needs(node) \cap (S \ {top}) = {}
        BY <4>1 DEF SearchInv, Ordered
      <4>3. Needs(node) \subseteq visited
        BY <4>1, <4>2 DEF SearchInv, Ordered
      <4> QED
        BY <1>5, <4>2, <4>3
    <3> QED
      BY <3>1, <3>2
  <2> QED
    BY <1>4, <2>1, <2>2 DEF Ordered
<1>14. Covered'
  <2>1. visited' \cup visiting' = visited \cup visiting
    BY <1>0, <1>5
  <2> QED
    BY <1>0, <2>1 DEF SearchInv, Covered
<1>15. AcyclicityIsDecided'
  BY <1>0 DEF AcyclicityIsDecided
<1> QED
  BY <1>0, <1>4, <1>8, <1>9, <1>10, <1>11, <1>12, <1>13, <1>14, <1>15
  DEF GraphInv, SearchInv, Checked

\* The search ends with every task visited, so the whole graph is without a cycle.
LEMMA AcceptStep == UnderWay /\ Accept => GraphTypeOK' /\ GraphInv'
<1> SUFFICES ASSUME UnderWay, Accept
             PROVE  GraphTypeOK' /\ GraphInv'
  OBVIOUS
<1> USE DEF UnderWay
<1>1. /\ stack = <<>> /\ position > Len(tasks) /\ verdict' = "accepted"
      /\ UNCHANGED <<tasks, position, stack, visiting, visited>>
  BY DEF Accept, Ends, search
<1>2. GraphTypeOK'
  BY <1>1 DEF GraphTypeOK, Verdicts, Outcomes
<1>3. known \subseteq visited
  <2>1. visiting = {}
    BY <1>1 DEF GraphTypeOK
  <2>2. DOMAIN tasks = 1..(position - 1)
    BY <1>1, LenProperties DEF GraphTypeOK
  <2> QED
    BY <2>1, <2>2 DEF known, SearchInv, Covered
<1>4. Acyclic
  BY <1>3 DEF Acyclic, SearchInv, Ordered, Needs
<1> QED
  BY <1>1, <1>2, <1>4, GraphFrame DEF GraphInv, Checked, AcyclicityIsDecided

\* Every step of the check keeps the invariant.
THEOREM CheckStep == GraphTypeOK /\ GraphInv /\ CheckGraph => GraphTypeOK' /\ GraphInv'
<1> SUFFICES ASSUME GraphTypeOK, GraphInv, CheckGraph
             PROVE  GraphTypeOK' /\ GraphInv'
  OBVIOUS
<1>1. CASE RejectDuplicate \/ RejectUnknown
  <2>1. /\ verdict = "parsed" /\ verdict' \in {"duplicate", "unknown"}
        /\ UNCHANGED <<tasks, position, stack, visiting, visited>>
    BY <1>1 DEF RejectDuplicate, RejectUnknown, Ends, search
  <2> QED
    BY <2>1 DEF GraphTypeOK, GraphInv, Checked, NoSearch, Verdicts, Outcomes, AcyclicityIsDecided
<1>2. CASE BeginSearch
  <2>1. /\ verdict = "parsed" /\ verdict' = "searching" /\ Unique /\ Known
        /\ UNCHANGED <<tasks, position, stack, visiting, visited>>
    BY <1>2 DEF BeginSearch, Ends, search
  <2>2. NoSearch
    BY <2>1 DEF GraphInv, Checked
  <2>3. GraphTypeOK'
    BY <2>1 DEF GraphTypeOK, Verdicts
  <2>4. SearchInv'
    BY <2>1, <2>2 DEF NoSearch, SearchInv, OnStack, Chained, Apart, Settled, Ordered, Covered
  <2> QED
    BY <2>1, <2>3, <2>4, GraphFrame DEF GraphInv, Checked, AcyclicityIsDecided
<1>3. ASSUME verdict = "searching"
      PROVE  UnderWay
  BY <1>3 DEF UnderWay, GraphInv, Checked
<1>4. CASE VisitTask
  BY <1>3, <1>4, VisitTaskStep DEF VisitTask
<1>5. CASE VisitDependency
  BY <1>3, <1>5, VisitDependencyStep DEF VisitDependency
<1>6. CASE Leave
  BY <1>3, <1>6, LeaveStep DEF Leave
<1>7. CASE Accept
  BY <1>3, <1>7, AcceptStep DEF Accept
<1> QED
  BY <1>1, <1>2, <1>4, <1>5, <1>6, <1>7 DEF CheckGraph

-----------------------------------------------------------------------------
(* The parser *)

\* The parser starts at the first block and is past the heading it reads under.
ReadInv ==
  /\ TypeOK /\ GraphInv
  /\ verdict = "written" => index = 1 /\ heading = 0 /\ subsections = {}
  /\ heading # 0 => heading < index

\* Before the check begins, the graph is only asked for the type of the tasks.
LEMMA ReadingKeepsTheGraph ==
  ASSUME GraphTypeOK, GraphInv, verdict \notin Checked,
         tasks' \in Seq(TaskRecords), verdict' \in Verdicts,
         verdict' \notin Checked, UNCHANGED search
  PROVE  GraphTypeOK' /\ GraphInv'
<1>1. NoSearch /\ NoSearch'
  BY DEF GraphInv, NoSearch, search
<1>2. Len(tasks') \in Nat
  BY LenProperties
<1> QED
  BY <1>1, <1>2 DEF GraphTypeOK, GraphInv, NoSearch, search, Checked, AcyclicityIsDecided

\* The blocks of a draft.
LEMMA BlocksType ==
  ASSUME TypeOK
  PROVE  /\ doc \in Documents /\ draft.edits \in Nat
         /\ blocks \in Seq(HeadingBlocks) /\ Len(blocks) \in Nat /\ DOMAIN blocks = 1..Len(blocks)
         /\ \A i \in 1..Len(blocks) : blocks[i] \in HeadingBlocks
<1>1. doc \in Documents /\ draft.edits \in Nat
  BY DEF TypeOK, doc
<1>2. blocks \in Seq(HeadingBlocks)
  BY <1>1 DEF Documents, doc, blocks
<1> QED
  BY <1>1, <1>2, LenProperties, ElementOfSeq

\* A draft is edited only before it is read.
LEMMA EditStep ==
  ASSUME ReadInv, Editable, NEW d \in Documents, Becomes(d)
  PROVE  ReadInv'
<1>1. draft' \in [ doc : Documents, edits : Nat ] /\ draft'.doc = d
  BY BlocksType DEF ReadInv, Becomes, Editable
<1>2. /\ verdict = "written" /\ index = 1 /\ heading = 0 /\ subsections = {}
      /\ UNCHANGED <<index, sections, inTasks, heading, subsections, tasks, verdict, search>>
  BY DEF ReadInv, Editable, Becomes, reading, graph
<1>3. Len(d.blocks) \in Nat
  BY LenProperties DEF Documents
<1>4. GraphTypeOK' /\ GraphInv'
  BY <1>2, ReadingKeepsTheGraph DEF ReadInv, TypeOK, GraphTypeOK, Checked
<1>5. blocks' = d.blocks
  BY <1>1 DEF blocks
<1> QED
  BY <1>1, <1>2, <1>3, <1>4, <1>5 DEF ReadInv, TypeOK

\* Whatever people write, they write a document.
LEMMA WriteStep == ReadInv /\ Write => ReadInv'
<1> SUFFICES ASSUME ReadInv, Write
             PROVE  ReadInv'
  OBVIOUS
<1>0. /\ doc \in Documents
      /\ blocks \in Seq(HeadingBlocks) /\ Len(blocks) \in Nat /\ DOMAIN blocks = 1..Len(blocks)
      /\ \A i \in 1..Len(blocks) : blocks[i] \in HeadingBlocks
  BY BlocksType DEF ReadInv
<1>1. ASSUME NEW bs \in Seq(HeadingBlocks), Editable, WithBlocks(bs)
      PROVE  ReadInv'
  <2>1. [doc EXCEPT !.blocks = bs] \in Documents
    BY <1>0 DEF Documents
  <2> QED
    BY <1>1, <2>1, EditStep DEF WithBlocks
<1>2. ASSUME NEW m \in Int, NEW n \in Int, m >= 1, n <= Len(blocks)
      PROVE  SubSeq(blocks, m, n) \in Seq(HeadingBlocks)
  <2>1. \A i \in m..n : blocks[i] \in HeadingBlocks
    BY <1>0, <1>2
  <2> QED
    BY <2>1, SubSeqProperties
<1>3. CASE Insert
  <2>1. PICK i \in 0..Len(blocks), b \in Blocks :
          WithBlocks(SubSeq(blocks, 1, i) \o <<b>> \o SubSeq(blocks, i + 1, Len(blocks)))
    BY <1>3 DEF Insert
  <2>2. SubSeq(blocks, 1, i) \in Seq(HeadingBlocks)
        /\ SubSeq(blocks, i + 1, Len(blocks)) \in Seq(HeadingBlocks)
    BY <1>0, <1>2
  <2>3. <<b>> \in Seq(HeadingBlocks)
    BY DraftsAssumption
  <2>4. SubSeq(blocks, 1, i) \o <<b>> \o SubSeq(blocks, i + 1, Len(blocks)) \in Seq(HeadingBlocks)
    BY <2>2, <2>3, ConcatProperties
  <2> QED
    BY <1>1, <1>3, <2>1, <2>4 DEF Insert
<1>4. CASE Delete
  <2>1. PICK i \in 1..Len(blocks) :
          WithBlocks(SubSeq(blocks, 1, i - 1) \o SubSeq(blocks, i + 1, Len(blocks)))
    BY <1>0, <1>4 DEF Delete
  <2>2. SubSeq(blocks, 1, i - 1) \in Seq(HeadingBlocks)
        /\ SubSeq(blocks, i + 1, Len(blocks)) \in Seq(HeadingBlocks)
    BY <1>0, <1>2
  <2>3. SubSeq(blocks, 1, i - 1) \o SubSeq(blocks, i + 1, Len(blocks)) \in Seq(HeadingBlocks)
    BY <2>2, ConcatProperties
  <2> QED
    BY <1>1, <1>4, <2>1, <2>3 DEF Delete
<1>5. CASE Replace
  <2>1. PICK i \in 1..Len(blocks), b \in Blocks : WithBlocks([blocks EXCEPT ![i] = b])
    BY <1>0, <1>5 DEF Replace
  <2>2. [blocks EXCEPT ![i] = b] \in Seq(HeadingBlocks)
    BY <1>0, ExceptSeq, DraftsAssumption
  <2> QED
    BY <1>1, <1>5, <2>1, <2>2 DEF Replace
<1>6. CASE EditTop
  <2>1. CASE \E f \in Frontmatters : Becomes([doc EXCEPT !.frontmatter = f])
    <3>1. PICK f \in Frontmatters : Becomes([doc EXCEPT !.frontmatter = f])
      BY <2>1
    <3>2. [doc EXCEPT !.frontmatter = f] \in Documents
      BY <1>0 DEF Documents
    <3> QED
      BY <1>6, <3>1, <3>2, EditStep DEF EditTop
  <2>2. CASE Becomes([doc EXCEPT !.preamble = ~doc.preamble])
    <3>1. [doc EXCEPT !.preamble = ~doc.preamble] \in Documents
      BY <1>0 DEF Documents
    <3> QED
      BY <1>6, <2>2, <3>1, EditStep DEF EditTop
  <2> QED
    BY <1>6, <2>1, <2>2 DEF EditTop
<1> QED
  BY <1>3, <1>4, <1>5, <1>6 DEF Write

\* A task whose dependencies could all be read has ids for them.
LEMMA TaskType ==
  ASSUME ReadInv, heading # 0, blocks[heading].title \in Ids, DependsOk
  PROVE  TaskAt(heading) \in TaskRecords
<1>1. blocks[heading] \in HeadingBlocks
  BY BlocksType DEF ReadInv, TypeOK
<1> DEFINE list == blocks[heading].depends_on
<1>2. list \in Seq(Ids \cup {Unknown}) /\ Unknown \notin SetOf(list)
  BY <1>1 DEF HeadingBlocks, DependsOk
<1> HIDE DEF list
<1>3. Len(list) \in Nat /\ DOMAIN list = 1..Len(list)
  BY <1>2, LenProperties
<1>4. \A i \in 1..Len(list) : list[i] \in Ids
  <2>1. \A i \in 1..Len(list) : list[i] \in Ids \cup {Unknown}
    BY <1>2, ElementOfSeq
  <2>2. \A i \in 1..Len(list) : list[i] # Unknown
    BY <1>2, <1>3 DEF SetOf
  <2> QED
    BY <2>1, <2>2
<1>5. list \in Seq(Ids)
  BY <1>2, <1>3, <1>4, IsASeq, SeqDef
<1> QED
  BY <1>5 DEF TaskAt, TaskRecords, list

\* Every step of the parser keeps its types.
LEMMA ReadStep == ReadInv /\ Read => ReadInv'
<1> SUFFICES ASSUME ReadInv, Read
             PROVE  ReadInv'
  OBVIOUS
<1>0. /\ Len(blocks) \in Nat /\ DOMAIN blocks = 1..Len(blocks)
      /\ tasks \in Seq(TaskRecords) /\ GraphTypeOK /\ GraphInv
  BY BlocksType DEF ReadInv, TypeOK, GraphTypeOK
<1>1. verdict \in {"written", "reading"} /\ UNCHANGED <<draft, search>>
  BY DEF Read, Open, Reads, ReadSection, ReadHeading, ReadSubsection, EndTask, EndTasks,
         EndBody, Reject
<1>2. ASSUME tasks' \in Seq(TaskRecords), verdict' \in {"reading", "parsed", "invalid"}
      PROVE  GraphTypeOK' /\ GraphInv'
  BY <1>0, <1>1, <1>2, ReadingKeepsTheGraph DEF Checked, Verdicts, Outcomes
<1>3. blocks' = blocks
  BY <1>1 DEF blocks
<1>4. CASE UNCHANGED <<reading, tasks>> /\ verdict' \in {"reading", "parsed", "invalid"}
  BY <1>0, <1>1, <1>2, <1>3, <1>4 DEF ReadInv, TypeOK, reading
<1>5. CASE Open \/ EndBody
  BY <1>4, <1>5 DEF Open, EndBody, Reject
<1>6. CASE Reject
  BY <1>4, <1>6 DEF Reject
<1>7. CASE Reads /\ ~Reject
  <2>1. verdict = "reading"
    BY <1>7 DEF Reads
  <2>2. CASE ReadSection
    <3>1. /\ ~inTasks /\ index \in 1..Len(blocks) /\ index' = index + 1
          /\ sections' \subseteq REQUIRED_H1 /\ inTasks' \in BOOLEAN
          /\ UNCHANGED <<heading, subsections, tasks, verdict>>
      <4>1. /\ ~inTasks /\ ~AtEnd /\ SectionOk /\ index' = index + 1
            /\ sections' = sections \cup {Block.title} /\ (inTasks' = TRUE \/ inTasks' = inTasks)
            /\ UNCHANGED <<heading, subsections, tasks, verdict>>
        BY <1>7, <2>2 DEF ReadSection
      <4>2. index \in 1..Len(blocks)
        BY <1>0, <4>1 DEF AtEnd, ReadInv, TypeOK
      <4> QED
        BY <4>1, <4>2 DEF SectionOk, ReadInv, TypeOK
    <3>2. heading = 0
      BY <3>1 DEF ReadInv, TypeOK
    <3> QED
      BY <1>0, <1>1, <1>2, <1>3, <2>1, <3>1, <3>2 DEF ReadInv, TypeOK
  <2>3. CASE ReadHeading
    <3>1. /\ inTasks /\ heading = 0 /\ index \in 1..Len(blocks)
          /\ heading' = index /\ subsections' = {} /\ index' = index + 1
          /\ UNCHANGED <<sections, inTasks, tasks, verdict>>
      <4>1. /\ inTasks /\ heading = 0 /\ Level > 1
            /\ heading' = index /\ subsections' = {} /\ index' = index + 1
            /\ UNCHANGED <<sections, inTasks, tasks, verdict>>
        BY <1>7, <2>3 DEF ReadHeading
      <4>2. ~AtEnd
        BY <4>1 DEF Level
      <4> QED
        BY <1>0, <4>1, <4>2 DEF AtEnd, ReadInv, TypeOK
    <3>2. subsections' = (heading' + 1)..(index' - 1)
      BY <3>1
    <3> QED
      BY <1>0, <1>1, <1>2, <1>3, <2>1, <3>1, <3>2 DEF ReadInv, TypeOK
  <2>4. CASE ReadSubsection
    <3>1. /\ heading # 0 /\ index \in 1..Len(blocks)
          /\ subsections' = subsections \cup {index} /\ index' = index + 1
          /\ UNCHANGED <<sections, inTasks, heading, tasks, verdict>>
      <4>1. /\ heading # 0 /\ Level >= 3
            /\ subsections' = subsections \cup {index} /\ index' = index + 1
            /\ UNCHANGED <<sections, inTasks, heading, tasks, verdict>>
        BY <1>7, <2>4 DEF ReadSubsection
      <4>2. ~AtEnd
        BY <4>1 DEF Level
      <4> QED
        BY <1>0, <4>1, <4>2 DEF AtEnd, ReadInv, TypeOK
    <3>2. subsections' = (heading' + 1)..(index' - 1) /\ inTasks /\ heading \in 1..Len(blocks)
      BY <1>0, <3>1 DEF ReadInv, TypeOK
    <3> QED
      BY <1>0, <1>1, <1>2, <1>3, <2>1, <3>1, <3>2 DEF ReadInv, TypeOK
  <2>5. CASE EndTask
    <3>1. /\ heading # 0 /\ blocks[heading].title \in Ids /\ DependsOk
          /\ tasks' = Append(tasks, TaskAt(heading)) /\ heading' = 0
          /\ UNCHANGED <<index, sections, inTasks, subsections, verdict>>
      BY <1>7, <2>5 DEF EndTask
    <3>2. tasks' \in Seq(TaskRecords)
      BY <1>0, <3>1, TaskType, AppendProperties
    <3> QED
      BY <1>0, <1>1, <1>2, <1>3, <2>1, <3>1, <3>2 DEF ReadInv, TypeOK
  <2>6. CASE EndTasks
    <3>1. /\ heading = 0 /\ inTasks' = FALSE
          /\ UNCHANGED <<index, sections, heading, subsections, tasks, verdict>>
      BY <1>7, <2>6 DEF EndTasks
    <3> QED
      BY <1>0, <1>1, <1>2, <1>3, <2>1, <3>1 DEF ReadInv, TypeOK
  <2> QED
    BY <1>5, <2>2, <2>3, <2>4, <2>5, <2>6 DEF Read
<1> QED
  BY <1>5, <1>6, <1>7 DEF Read, ReadSection, ReadHeading, ReadSubsection, EndTask, EndTasks

\* The invariant holds initially.
LEMMA ReadInit == Init => ReadInv
<1> SUFFICES ASSUME Init
             PROVE  ReadInv
  OBVIOUS
<1>1. draft \in [ doc : Documents, edits : Nat ]
  BY DraftsAssumption DEF Init
<1>2. Len(blocks) \in Nat
  BY <1>1, LenProperties DEF Documents, blocks
<1>3. GraphTypeOK /\ GraphInv
  <2>1. /\ tasks = <<>> /\ stack = <<>> /\ position = 1 /\ visiting = {} /\ visited = {}
        /\ verdict = "written" /\ NoSearch
    BY DEF Init, NoSearch
  <2>2. /\ tasks \in Seq(TaskRecords) /\ Len(tasks) = 0
        /\ stack \in Seq([ node : Ids, called : Nat ]) /\ DOMAIN stack = {}
    BY <2>1, EmptySeq
  <2>3. position \in 1..(Len(tasks) + 1)
    BY <2>1, <2>2
  <2>4. visiting = {stack[i].node : i \in DOMAIN stack}
    BY <2>1, <2>2
  <2> QED
    BY <2>1, <2>2, <2>3, <2>4 DEF GraphTypeOK, GraphInv, Verdicts, Checked, AcyclicityIsDecided
<1>4. index = 1 /\ heading = 0 /\ subsections = {} /\ sections = {} /\ inTasks \in BOOLEAN
  BY DEF Init
<1>5. index \in 1..(Len(blocks) + 1) /\ heading \in 0..Len(blocks)
  BY <1>2, <1>4
<1>6. TypeOK
  BY <1>1, <1>3, <1>4, <1>5 DEF TypeOK
<1> QED
  BY <1>3, <1>4, <1>6 DEF ReadInv

\* Every step keeps it.
LEMMA ReadInvStep == ReadInv /\ [Next]_vars => ReadInv'
<1> SUFFICES ASSUME ReadInv, [Next]_vars
             PROVE  ReadInv'
  OBVIOUS
<1>1. ASSUME UNCHANGED <<draft, reading>>, GraphTypeOK', GraphInv', verdict' # "written"
      PROVE  ReadInv'
  BY <1>1 DEF ReadInv, TypeOK, reading, blocks
<1>2. CASE Check
  <2>1. GraphTypeOK' /\ GraphInv'
    BY <1>2, CheckStep DEF Check, ReadInv, TypeOK
  <2>2. verdict' # "written"
    BY <1>2 DEF Check, CheckGraph, RejectDuplicate, RejectUnknown, BeginSearch, VisitTask,
                VisitDependency, Leave, Accept, Ends, Call
  <2> QED
    BY <1>1, <1>2, <2>1, <2>2 DEF Check
<1>3. CASE Bind
  <2>1. verdict = "accepted" /\ UNCHANGED <<draft, reading, tasks, verdict, search>>
    BY <1>3 DEF Bind, graph
  <2>2. GraphTypeOK'
    BY <2>1 DEF ReadInv, TypeOK, GraphTypeOK, search
  <2>3. GraphInv'
    BY <2>1, GraphFrame DEF ReadInv, GraphInv, Checked, AcyclicityIsDecided
  <2> QED
    BY <1>1, <2>1, <2>2, <2>3
<1>4. CASE UNCHANGED vars
  <2>1. UNCHANGED <<draft, index, sections, inTasks, heading, subsections>>
        /\ UNCHANGED <<tasks, verdict, position, stack, visiting, visited>>
    BY <1>4 DEF vars, reading, graph, search
  <2>2. TypeOK'
    BY <2>1 DEF ReadInv, TypeOK, GraphTypeOK, blocks
  <2>3. /\ known' = known /\ Unique' = Unique /\ Known' = Known /\ Acyclic' = Acyclic
        /\ \A n : adjacency(n)' = adjacency(n)
        /\ \A n : Needs(n)' = Needs(n)
    BY <2>1, GraphFrame
  <2>4. SearchInv => SearchInv'
    BY <2>1, <2>3 DEF SearchInv, OnStack, Chained, Apart, Settled, Ordered, Covered
  <2>5. GraphInv'
    BY <2>1, <2>3, <2>4 DEF ReadInv, GraphInv, Checked, NoSearch, AcyclicityIsDecided
  <2> QED
    BY <2>1, <2>2, <2>5 DEF ReadInv
<1> QED
  BY <1>2, <1>3, <1>4, WriteStep, ReadStep DEF Next

\* The invariant of the reader and the search holds in every reachable state.
LEMMA ReadInductive == Spec => []ReadInv
BY ReadInit, ReadInvStep, PTL DEF Spec

\* Type correctness: the index never runs past the document, and what is read as a
\* task's subsections are the blocks right after its heading.
THEOREM TypeCorrect == Spec => []TypeOK
<1>1. ReadInv => TypeOK
  BY DEF ReadInv
<1> QED
  BY <1>1, ReadInductive, PTL

\* For every document: a Task Spec that is accepted has unique ids, known
\* dependencies and no cycle, and one that is rejected for a cycle has one.
THEOREM CyclesAreDecided == Spec => []AcyclicityIsDecided
<1>1. ReadInv => AcyclicityIsDecided
  BY DEF ReadInv, GraphInv
<1> QED
  BY <1>1, ReadInductive, PTL

-----------------------------------------------------------------------------
(* The documents *)

\* The blocks the parser is through with: those before the one it has come to, but
\* for the task it is in.
Through == IF heading = 0 THEN index - 1 ELSE heading - 1

SectionsRead == {i \in SectionBlocks : i < index}
TasksRead    == {i \in TaskBlocks : i <= Through}

Opened == Frontmatter /\ ~doc.preamble /\ blocks # <<>>

\* The sections are those that were read, and what was read stands where it may.
SectionsKept == OneEach(SectionsRead, sections)
AllPlaced    == \A i \in 1..Through : Placed(i)

\* Between two sections the next block opens one, and no Tasks was left without a task.
BetweenSections ==
  ~inTasks => /\ heading = 0
              /\ index = 1 \/ Level <= 1
              /\ "Tasks" \in sections => tasks # <<>>

\* Among the tasks no section has come since Tasks, and a block too deep to open a
\* task can only follow Tasks itself.
AmongTasks ==
  inTasks => /\ \E k \in SectionsRead : /\ blocks[k].title = "Tasks"
                                        /\ \A j \in (k + 1)..(index - 1) : blocks[j].level > 1
             /\ heading = 0 => Level <= 2 \/ blocks[index - 1].level = 1

\* In a task there are only its subsections, each once.
InTask ==
  heading # 0 => /\ blocks[heading].level = 2
                 /\ \A k \in subsections : blocks[k].level = 3
                 /\ \A i, k \in subsections : blocks[i].title = blocks[k].title => i = k

\* The tasks are the blocks of level 2 in their order.
TasksKept ==
  /\ Len(tasks) = Cardinality(TasksRead)
  /\ \A n \in 1..Len(tasks) : \E i \in TasksRead : Before(i) = n /\ tasks[n] = TaskAt(i)

Progress ==
  /\ Opened /\ SectionsKept /\ AllPlaced
  /\ BetweenSections /\ AmongTasks /\ InTask /\ TasksKept

\* What the parser knows of the document at each stage, and in the end.
Faithful ==
  /\ verdict = "written" => sections = {} /\ ~inTasks /\ tasks = <<>>
  /\ verdict = "reading" => Progress
  /\ verdict = "invalid" => ~WellFormed
  /\ verdict \notin {"written", "reading", "invalid"} => WellFormed /\ tasks = TasksOf

\* While the document stays, so does all that is said of it alone.
LEMMA SameDocument ==
  ASSUME UNCHANGED draft
  PROVE  /\ doc' = doc /\ blocks' = blocks
         /\ SectionBlocks' = SectionBlocks /\ TaskBlocks' = TaskBlocks
         /\ Frontmatter' = Frontmatter
         /\ \A i : Placed(i)' = Placed(i)
         /\ \A i : Before(i)' = Before(i)
         /\ \A i : TaskAt(i)' = TaskAt(i)
         /\ WellFormed' = WellFormed /\ TasksOf' = TasksOf
<1>1. doc' = doc /\ blocks' = blocks
  BY DEF doc, blocks
<1>2. SectionBlocks' = SectionBlocks /\ TaskBlocks' = TaskBlocks /\ Frontmatter' = Frontmatter
  BY <1>1 DEF SectionBlocks, TaskBlocks, Frontmatter
<1>3. \A i : Under(i)' = Under(i)
  BY <1>1 DEF Under
<1>4. \A S, names : OneEach(S, names)' <=> OneEach(S, names)
  BY <1>1 DEF OneEach, Titled
<1>5. \A i : Placed(i)' = Placed(i)
  BY <1>1, <1>2, <1>3 DEF Placed, OneEach, Titled
<1>6. \A i : TaskAt(i)' = TaskAt(i)
  BY <1>1 DEF TaskAt
<1>7. \A i : Before(i)' = Before(i)
  BY <1>2 DEF Before
<1>8. WellFormed' = WellFormed
  BY <1>1, <1>2, <1>5 DEF WellFormed, OneEach, Titled
<1>9. TasksOf' = TasksOf
  BY <1>1 DEF TasksOf, TaskAt, Before, TaskBlocks
<1> QED
  BY <1>1, <1>2, <1>5, <1>6, <1>7, <1>8, <1>9

\* The numbers of the blocks.
LEMMA Positions ==
  ASSUME ReadInv
  PROVE  /\ Len(blocks) \in Nat /\ DOMAIN blocks = 1..Len(blocks)
         /\ \A i \in 1..Len(blocks) : blocks[i].level \in 1..4
         /\ index \in 1..(Len(blocks) + 1) /\ heading \in 0..Len(blocks)
         /\ heading # 0 => inTasks /\ heading < index /\ subsections = (heading + 1)..(index - 1)
         /\ AtEnd <=> index = Len(blocks) + 1
         /\ ~AtEnd => index \in 1..Len(blocks) /\ Level = blocks[index].level
         /\ Level \in 0..4 /\ (AtEnd <=> Level = 0)
<1>1. Len(blocks) \in Nat /\ DOMAIN blocks = 1..Len(blocks)
      /\ \A i \in 1..Len(blocks) : blocks[i].level \in 1..4
  BY BlocksType DEF ReadInv, HeadingBlocks
<1>2. /\ index \in 1..(Len(blocks) + 1) /\ heading \in 0..Len(blocks)
      /\ heading # 0 => inTasks /\ heading < index /\ subsections = (heading + 1)..(index - 1)
  BY DEF ReadInv, TypeOK
<1> QED
  BY <1>1, <1>2 DEF AtEnd, Level, Block

\* Nothing is under a section whose next block is a section.
LEMMA NothingUnder ==
  ASSUME ReadInv, ~AtEnd, Level = 1
  PROVE  Under(index) = {} <=> NoSubheading
<1>0. /\ Len(blocks) \in Nat /\ DOMAIN blocks = 1..Len(blocks) /\ index \in 1..Len(blocks)
      /\ blocks[index].level = 1
      /\ \A i \in 1..Len(blocks) : blocks[i].level \in 1..4
  BY Positions
<1>1. ASSUME NoSubheading
      PROVE  Under(index) = {}
  <2>1. ASSUME NEW k \in Under(index)
        PROVE  FALSE
    <3>1. k \in 1..Len(blocks) /\ k > index /\ \A j \in (index + 1)..k : blocks[j].level > 1
      BY <1>0, <2>1 DEF Under
    <3>2. index + 1 \in (index + 1)..k /\ index < Len(blocks)
      BY <1>0, <3>1
    <3> QED
      BY <1>1, <3>1, <3>2 DEF NoSubheading
  <2> QED
    BY <2>1
<1>2. ASSUME ~NoSubheading
      PROVE  index + 1 \in Under(index)
  <2>1. index + 1 \in 1..Len(blocks) /\ blocks[index + 1].level # 1
    BY <1>0, <1>2 DEF NoSubheading
  <2>2. blocks[index + 1].level > 1
    BY <1>0, <2>1
  <2>3. \A j \in (index + 1)..(index + 1) : j = index + 1
    BY <1>0
  <2> QED
    BY <1>0, <2>1, <2>2, <2>3 DEF Under
<1> QED
  BY <1>1, <1>2

\* When a task ends, what is under it are the subsections that were read.
LEMMA UnderTask ==
  ASSUME ReadInv, InTask, heading # 0, Level < 3
  PROVE  Under(heading) = subsections
<1>0. /\ Len(blocks) \in Nat /\ DOMAIN blocks = 1..Len(blocks) /\ index \in 1..(Len(blocks) + 1)
      /\ heading \in 1..Len(blocks) /\ heading < index /\ blocks[heading].level = 2
      /\ subsections = (heading + 1)..(index - 1)
      /\ \A k \in subsections : blocks[k].level = 3
      /\ AtEnd <=> index = Len(blocks) + 1
      /\ ~AtEnd => blocks[index].level < 3
  BY Positions DEF InTask
<1>1. ASSUME NEW k \in subsections
      PROVE  k \in Under(heading)
  <2>1. k \in 1..Len(blocks) /\ k > heading
    BY <1>0, <1>1
  <2>2. \A j \in (heading + 1)..k : blocks[j].level > 2
    BY <1>0, <1>1
  <2> QED
    BY <1>0, <2>1, <2>2 DEF Under
<1>2. ASSUME NEW k \in Under(heading)
      PROVE  k \in subsections
  <2>1. k \in 1..Len(blocks) /\ k > heading /\ \A j \in (heading + 1)..k : blocks[j].level > 2
    BY <1>0, <1>2 DEF Under
  <2>2. CASE k >= index
    <3>1. index \in (heading + 1)..k /\ ~AtEnd
      BY <1>0, <2>1, <2>2
    <3>2. blocks[index].level > 2
      BY <2>1, <3>1
    <3>3. blocks[index].level \in 1..4
      BY <3>1, Positions
    <3> QED
      BY <1>0, <3>1, <3>2, <3>3
  <2>3. CASE k < index
    BY <1>0, <2>1, <2>3
  <2> QED
    BY <1>0, <2>1, <2>2, <2>3
<1> QED
  BY <1>1, <1>2

\* A block that is refused where a section is expected may not stand there.
LEMMA RefusedSection ==
  ASSUME ReadInv, Progress, ~inTasks, ~AtEnd, WellFormed
  PROVE  SectionOk /\ (IF Block.title = "Tasks" THEN ~Block.text ELSE NoSubheading /\ Block.text)
<1>0. /\ Len(blocks) \in Nat /\ DOMAIN blocks = 1..Len(blocks) /\ index \in 1..Len(blocks)
      /\ blocks[index].level \in 1..4 /\ Level = blocks[index].level
  BY Positions
<1>1. Placed(index)
  BY <1>0 DEF WellFormed
<1>2. Level = 1
  <2>1. CASE index = 1
    <3>1. ASSUME NEW k \in DOMAIN blocks
          PROVE  index \notin Under(k)
      BY <1>0, <2>1, <3>1 DEF Under
    <3> QED
      BY <1>0, <1>1, <3>1 DEF Placed, SectionBlocks, TaskBlocks
  <2>2. CASE Level <= 1
    BY <1>0, <2>2
  <2> QED
    BY <2>1, <2>2 DEF Progress, BetweenSections
<1>3. index \in SectionBlocks
  BY <1>0, <1>2 DEF SectionBlocks
<1>4. Block.title \in REQUIRED_H1
  BY <1>3 DEF WellFormed, OneEach, Titled, Block
<1>5. Block.title \notin sections
  <2>1. ASSUME Block.title \in sections
        PROVE  FALSE
    <3>1. PICK k \in SectionsRead : blocks[k].title = blocks[index].title
      BY <2>1 DEF Progress, SectionsKept, OneEach, Titled, Block
    <3>2. k \in SectionBlocks /\ k < index
      BY <3>1 DEF SectionsRead
    <3>3. k = index
      BY <1>3, <3>1, <3>2 DEF WellFormed, OneEach
    <3> QED
      BY <1>0, <3>2, <3>3
  <2> QED
    BY <2>1
<1>6. SectionOk
  BY <1>0, <1>2, <1>4, <1>5 DEF SectionOk, Block
<1>7. IF Block.title = "Tasks" THEN ~Block.text ELSE Under(index) = {} /\ Block.text
  <2>0. blocks[index].level = 1
    BY <1>0, <1>2
  <2>1. index \notin TaskBlocks /\ blocks[index].level # 3
    BY <2>0 DEF TaskBlocks
  <2>2. CASE blocks[index].title = "Tasks" /\ ~blocks[index].text
    BY <2>2 DEF Block
  <2>3. CASE blocks[index].title # "Tasks" /\ blocks[index].text /\ Under(index) = {}
    BY <2>3 DEF Block
  <2> QED
    BY <1>1, <2>1, <2>2, <2>3 DEF Placed
<1> QED
  BY <1>2, <1>6, <1>7, NothingUnder

\* A block that is refused where a task is expected may not stand there.
LEMMA RefusedHeading ==
  ASSUME ReadInv, Progress, inTasks, heading = 0, Level > 1, WellFormed
  PROVE  Level = 2
<1>0. /\ Len(blocks) \in Nat /\ DOMAIN blocks = 1..Len(blocks) /\ index \in 1..Len(blocks)
      /\ blocks[index].level \in 1..4 /\ Level = blocks[index].level
  BY Positions
<1> SUFFICES ASSUME Level # 2
             PROVE  FALSE
  OBVIOUS
<1>1. blocks[index - 1].level = 1
  BY <1>0 DEF Progress, AmongTasks
<1>2. Placed(index)
  BY <1>0 DEF WellFormed
<1>3. PICK k \in TaskBlocks : index \in Under(k)
  BY <1>0, <1>2 DEF Placed, SectionBlocks, TaskBlocks
<1>4. /\ k \in 1..Len(blocks) /\ blocks[k].level = 2 /\ k < index
      /\ \A j \in (k + 1)..index : blocks[j].level > 2
  BY <1>0, <1>3 DEF TaskBlocks, Under
<1>5. k # index - 1
  BY <1>1, <1>4
<1>6. index - 1 \in (k + 1)..index
  BY <1>0, <1>4, <1>5
<1> QED
  BY <1>1, <1>4, <1>6

\* A block that is refused in a task may not stand there.
LEMMA RefusedSubsection ==
  ASSUME ReadInv, Progress, heading # 0, Level >= 3, WellFormed
  PROVE  Level = 3 /\ \A k \in subsections : blocks[k].title # Block.title
<1>0. /\ Len(blocks) \in Nat /\ DOMAIN blocks = 1..Len(blocks) /\ index \in 1..Len(blocks)
      /\ blocks[index].level \in 1..4 /\ Level = blocks[index].level
      /\ heading \in 1..Len(blocks) /\ heading < index
      /\ subsections = (heading + 1)..(index - 1)
      /\ blocks[heading].level = 2 /\ \A k \in subsections : blocks[k].level = 3
  BY Positions DEF Progress, InTask
<1>1. Placed(index) /\ Placed(heading)
  BY <1>0 DEF WellFormed
<1>2. Level = 3
  BY <1>0, <1>1 DEF Placed, SectionBlocks, TaskBlocks
<1>3. OneEach(Under(heading), TASK_H3)
  BY <1>0, <1>1 DEF Placed, SectionBlocks, TaskBlocks
<1>4. ASSUME NEW k \in (heading + 1)..index
      PROVE  k \in Under(heading)
  <2>1. \A j \in (heading + 1)..k : blocks[j].level > 2
    <3>1. ASSUME NEW j \in (heading + 1)..k
          PROVE  blocks[j].level = 3
      <4>1. j \in subsections \/ j = index
        BY <1>0, <1>4, <3>1
      <4> QED
        BY <1>0, <1>2, <4>1
    <3> QED
      BY <3>1
  <2> QED
    BY <1>0, <1>4, <2>1 DEF Under
<1>5. ASSUME NEW k \in subsections, blocks[k].title = Block.title
      PROVE  FALSE
  <2>1. k \in Under(heading) /\ index \in Under(heading)
    BY <1>0, <1>4
  <2>2. k = index
    BY <1>3, <1>5, <2>1 DEF OneEach, Block
  <2> QED
    BY <1>0, <2>2
<1> QED
  BY <1>2, <1>5

\* A task that is refused is none.
LEMMA RefusedTask ==
  ASSUME ReadInv, Progress, heading # 0, Level < 3, WellFormed
  PROVE  blocks[heading].title \in Ids /\ DependsOk /\ SubsectionsOk
<1>0. /\ Len(blocks) \in Nat /\ DOMAIN blocks = 1..Len(blocks)
      /\ heading \in 1..Len(blocks) /\ subsections = (heading + 1)..(index - 1)
      /\ index \in 1..(Len(blocks) + 1)
      /\ blocks[heading].level = 2 /\ \A k \in subsections : blocks[k].level = 3
  BY Positions DEF Progress, InTask
<1>1. Placed(heading) /\ \A k \in subsections : Placed(k)
  BY <1>0 DEF WellFormed
<1>2. /\ blocks[heading].title \in Ids /\ DependsOk
      /\ OneEach(Under(heading), TASK_H3)
  BY <1>0, <1>1 DEF Placed, SectionBlocks, TaskBlocks, DependsOk
<1>3. Under(heading) = subsections
  BY UnderTask DEF Progress
<1>4. \A k \in subsections : blocks[k].text
  BY <1>0, <1>1 DEF Placed, SectionBlocks, TaskBlocks
<1>5. SubsectionsOk
  BY <1>2, <1>3, <1>4 DEF SubsectionsOk, OneEach, Titled
<1> QED
  BY <1>2, <1>5

\* The tasks that were read are finitely many, and none if there is none among them.
LEMMA TasksReadFinite ==
  ASSUME ReadInv
  PROVE  IsFiniteSet(TaskBlocks) /\ IsFiniteSet(TasksRead)
         /\ (Cardinality(TasksRead) = 0 <=> TasksRead = {})
<1>1. Len(blocks) \in Nat /\ DOMAIN blocks = 1..Len(blocks)
  BY Positions
<1>2. IsFiniteSet(1..Len(blocks))
  BY <1>1, FS_Interval
<1>3. IsFiniteSet(TaskBlocks) /\ IsFiniteSet(TasksRead)
  BY <1>1, <1>2, FS_Subset DEF TaskBlocks, TasksRead
<1> QED
  BY <1>3, FS_EmptySet

\* Tasks without a task is refused rightly.
LEMMA RefusedTasks ==
  ASSUME ReadInv, Progress, inTasks, heading = 0, Level <= 1, WellFormed
  PROVE  tasks # <<>>
<1>0. /\ Len(blocks) \in Nat /\ DOMAIN blocks = 1..Len(blocks) /\ index \in 1..(Len(blocks) + 1)
      /\ AtEnd <=> index = Len(blocks) + 1
      /\ ~AtEnd => Level = blocks[index].level
      /\ \A i \in 1..Len(blocks) : blocks[i].level \in 1..4
  BY Positions
<1> SUFFICES ASSUME tasks = <<>>
             PROVE  FALSE
  OBVIOUS
<1>1. Len(tasks) = 0
  BY EmptySeq
<1>2. TasksRead = {}
  BY <1>1, TasksReadFinite DEF Progress, TasksKept
<1>3. PICK t \in TaskBlocks : TRUE
  BY DEF WellFormed
<1>4. t \in 1..Len(blocks) /\ blocks[t].level = 2
  BY <1>0, <1>3 DEF TaskBlocks
<1>5. t >= index
  BY <1>0, <1>2, <1>3, <1>4 DEF TasksRead, Through
<1>6. t > index /\ ~AtEnd
  BY <1>0, <1>4, <1>5
<1>7. PICK k \in SectionBlocks : blocks[k].title = "Tasks" /\ t \in Under(k)
  <2>1. Placed(t)
    BY <1>0, <1>4 DEF WellFormed
  <2> QED
    BY <1>4, <2>1 DEF Placed, SectionBlocks
<1>8. PICK first \in SectionsRead : blocks[first].title = "Tasks"
  BY DEF Progress, AmongTasks
<1>9. first = k /\ first < index
  BY <1>7, <1>8 DEF WellFormed, OneEach, SectionsRead
<1>10. k \in 1..Len(blocks) /\ \A j \in (k + 1)..t : blocks[j].level > 1
  BY <1>0, <1>7 DEF SectionBlocks, Under
<1>11. index \in (k + 1)..t
  BY <1>0, <1>4, <1>6, <1>9, <1>10
<1> QED
  BY <1>0, <1>6, <1>10, <1>11

\* A body is refused at its end for what the document lacks.
LEMMA RefusedBody ==
  ASSUME ReadInv, Progress, ~inTasks, AtEnd, WellFormed
  PROVE  REQUIRED_H1 \subseteq sections /\ doc.frontmatter = "good"
<1>1. \A i \in DOMAIN blocks : i < index
  BY Positions
<1>2. SectionsRead = SectionBlocks
  BY <1>1 DEF SectionsRead, SectionBlocks
<1> QED
  BY <1>2 DEF Progress, SectionsKept, WellFormed, OneEach

\* What of the progress stays when the document stays: the sections and the tasks
\* that were read, as long as no other ones are.
LEMMA KeptProgress ==
  ASSUME Progress, UNCHANGED draft
  PROVE  /\ Opened'
         /\ sections' = sections /\ SectionsRead' = SectionsRead => SectionsKept'
         /\ tasks' = tasks /\ TasksRead' = TasksRead => TasksKept'
         /\ Through' = Through => AllPlaced'
         /\ Level' = IF index' > Len(blocks) THEN 0 ELSE blocks[index'].level
<1>1. /\ doc' = doc /\ blocks' = blocks /\ Frontmatter' = Frontmatter
      /\ \A i : Placed(i)' = Placed(i)
      /\ \A i : Before(i)' = Before(i)
      /\ \A i : TaskAt(i)' = TaskAt(i)
  BY SameDocument
<1>2. Opened'
  BY <1>1 DEF Progress, Opened
<1>3. sections' = sections /\ SectionsRead' = SectionsRead => SectionsKept'
  BY <1>1 DEF Progress, SectionsKept, OneEach, Titled
<1>4. tasks' = tasks /\ TasksRead' = TasksRead => TasksKept'
  BY <1>1 DEF Progress, TasksKept
<1>5. Through' = Through => AllPlaced'
  BY <1>1 DEF Progress, AllPlaced
<1>6. Level' = IF index' > Len(blocks) THEN 0 ELSE blocks[index'].level
  BY <1>1 DEF Level, AtEnd, Block
<1> QED
  BY <1>2, <1>3, <1>4, <1>5, <1>6

\* A section is read.
LEMMA SectionStep ==
  ASSUME ReadInv, Progress, ReadSection, ~Reject
  PROVE  Progress' /\ verdict' = "reading"
<1>0. /\ Len(blocks) \in Nat /\ DOMAIN blocks = 1..Len(blocks) /\ index \in 1..Len(blocks)
      /\ \A i \in 1..Len(blocks) : blocks[i].level \in 1..4
      /\ ~inTasks /\ ~AtEnd /\ Level = blocks[index].level
  BY Positions DEF ReadSection
<1>1. /\ UNCHANGED <<draft, heading, tasks>> /\ verdict' = "reading"
      /\ SectionOk /\ sections' = sections \cup {blocks[index].title} /\ index' = index + 1
  BY DEF ReadSection, Reads, Block
<1>2. \/ blocks[index].title = "Tasks" /\ ~blocks[index].text /\ inTasks' = TRUE
      \/ blocks[index].title # "Tasks" /\ NoSubheading /\ blocks[index].text /\ inTasks' = FALSE
  BY <1>0 DEF ReadSection, Block
<1>3. heading = 0 /\ heading' = 0 /\ Through = index - 1 /\ Through' = index
  BY <1>0, <1>1 DEF Progress, BetweenSections, Through
<1>4. /\ blocks[index].level = 1 /\ blocks[index].title \in REQUIRED_H1
      /\ blocks[index].title \notin sections
  BY <1>1 DEF SectionOk, Block
<1>5. index \in SectionBlocks /\ index \notin TaskBlocks
  BY <1>0, <1>4 DEF SectionBlocks, TaskBlocks
<1>6. /\ blocks' = blocks /\ SectionBlocks' = SectionBlocks /\ TaskBlocks' = TaskBlocks
      /\ \A i : Placed(i)' = Placed(i)
  BY <1>1, SameDocument
<1>7. Level' = IF index + 1 > Len(blocks) THEN 0 ELSE blocks[index + 1].level
  BY <1>1, KeptProgress
<1>8. SectionsRead' = SectionsRead \cup {index}
  BY <1>0, <1>1, <1>5, <1>6 DEF SectionsRead, SectionBlocks
<1>9. SectionsKept'
  <2>1. \A i \in SectionsRead : blocks[i].title # blocks[index].title
    BY <1>4 DEF Progress, SectionsKept, OneEach, Titled
  <2>2. Titled(SectionsRead \cup {index}) = sections \cup {blocks[index].title}
    BY DEF Progress, SectionsKept, OneEach, Titled
  <2>3. \A i, k \in SectionsRead \cup {index} : blocks[i].title = blocks[k].title => i = k
    BY <2>1 DEF Progress, SectionsKept, OneEach
  <2> QED
    BY <1>1, <1>6, <1>8, <2>2, <2>3 DEF SectionsKept, OneEach, Titled
<1>10. TasksKept'
  <2>1. TasksRead' = TasksRead
    BY <1>0, <1>3, <1>5, <1>6 DEF TasksRead, TaskBlocks
  <2> QED
    BY <1>1, <2>1, KeptProgress
<1>11. AllPlaced'
  <2>1. Placed(index)
    <3>1. Level = 1
      BY <1>0, <1>4
    <3> QED
      BY <1>0, <1>2, <1>5, <3>1, NothingUnder DEF Placed
  <2>2. \A i \in 1..(index - 1) : Placed(i)
    BY <1>3 DEF Progress, AllPlaced
  <2>3. \A i \in 1..index : Placed(i)
    BY <1>0, <2>1, <2>2
  <2> QED
    BY <1>3, <1>6, <2>3 DEF AllPlaced
<1>12. CASE blocks[index].title = "Tasks" /\ inTasks' = TRUE
  <2>1. index \in SectionsRead' /\ blocks'[index].title = "Tasks"
    BY <1>6, <1>8, <1>12
  <2>2. \A j \in (index + 1)..(index' - 1) : blocks'[j].level > 1
    BY <1>0, <1>1
  <2>3. blocks'[index' - 1].level = 1
    BY <1>0, <1>1, <1>4, <1>6
  <2>4. AmongTasks'
    BY <2>1, <2>2, <2>3 DEF AmongTasks
  <2> QED
    BY <1>1, <1>3, <1>9, <1>10, <1>11, <1>12, <2>4, KeptProgress
    DEF Progress, BetweenSections, InTask
<1>13. CASE blocks[index].title # "Tasks" /\ NoSubheading /\ inTasks' = FALSE
  <2>1. Level' <= 1
    BY <1>0, <1>7, <1>13 DEF NoSubheading
  <2>2. "Tasks" \in sections' => "Tasks" \in sections
    BY <1>1, <1>13
  <2>3. BetweenSections'
    BY <1>0, <1>1, <1>3, <2>1, <2>2 DEF Progress, BetweenSections
  <2> QED
    BY <1>1, <1>3, <1>9, <1>10, <1>11, <1>13, <2>3, KeptProgress
    DEF Progress, AmongTasks, InTask
<1> QED
  BY <1>1, <1>2, <1>12, <1>13

\* The heading of a task is read.
LEMMA HeadingStep ==
  ASSUME ReadInv, Progress, ReadHeading, ~Reject
  PROVE  Progress' /\ verdict' = "reading"
<1>1. /\ UNCHANGED <<draft, sections, tasks>> /\ verdict' = "reading"
      /\ inTasks /\ inTasks' /\ heading = 0 /\ Level = 2
      /\ heading' = index /\ subsections' = {} /\ index' = index + 1
  BY DEF ReadHeading, Reads
<1>0. /\ Len(blocks) \in Nat /\ DOMAIN blocks = 1..Len(blocks) /\ index \in 1..Len(blocks)
      /\ blocks[index].level = 2
  BY <1>1, Positions
<1>2. Through = index - 1 /\ Through' = index - 1
  BY <1>0, <1>1 DEF Through
<1>3. blocks' = blocks /\ SectionBlocks' = SectionBlocks /\ TaskBlocks' = TaskBlocks
  BY <1>1, SameDocument
<1>4. SectionsRead' = SectionsRead
  BY <1>0, <1>1, <1>3 DEF SectionsRead, SectionBlocks
<1>5. TasksRead' = TasksRead
  BY <1>2, <1>3 DEF TasksRead
<1>6. AmongTasks'
  <2>1. PICK k \in SectionsRead : /\ blocks[k].title = "Tasks"
                                  /\ \A j \in (k + 1)..(index - 1) : blocks[j].level > 1
    BY <1>1 DEF Progress, AmongTasks
  <2>2. k \in 1..Len(blocks)
    BY <1>0, <2>1 DEF SectionsRead, SectionBlocks
  <2>3. \A j \in (k + 1)..(index' - 1) : j = index \/ j \in (k + 1)..(index - 1)
    BY <1>0, <1>1, <2>2
  <2>4. \A j \in (k + 1)..(index' - 1) : blocks[j].level > 1
    BY <1>0, <2>1, <2>3
  <2> QED
    BY <1>0, <1>1, <1>3, <1>4, <2>1, <2>4 DEF AmongTasks
<1>7. InTask'
  BY <1>0, <1>1, <1>3 DEF InTask
<1> QED
  BY <1>1, <1>2, <1>4, <1>5, <1>6, <1>7, KeptProgress DEF Progress, BetweenSections

\* A subsection of a task is read.
LEMMA SubsectionStep ==
  ASSUME ReadInv, Progress, ReadSubsection, ~Reject
  PROVE  Progress' /\ verdict' = "reading"
<1>1. /\ UNCHANGED <<draft, sections, inTasks, heading, tasks>> /\ verdict' = "reading"
      /\ heading # 0 /\ Level = 3 /\ \A k \in subsections : blocks[k].title # Block.title
      /\ subsections' = subsections \cup {index} /\ index' = index + 1
  BY DEF ReadSubsection, Reads
<1>0. /\ Len(blocks) \in Nat /\ DOMAIN blocks = 1..Len(blocks) /\ index \in 1..Len(blocks)
      /\ blocks[index].level = 3 /\ inTasks
  BY <1>1, Positions
<1>2. Through' = Through
  BY <1>1 DEF Through
<1>3. blocks' = blocks /\ SectionBlocks' = SectionBlocks /\ TaskBlocks' = TaskBlocks
  BY <1>1, SameDocument
<1>4. SectionsRead' = SectionsRead
  BY <1>0, <1>1, <1>3 DEF SectionsRead, SectionBlocks
<1>5. TasksRead' = TasksRead
  BY <1>2, <1>3 DEF TasksRead
<1>6. AmongTasks'
  <2>1. PICK k \in SectionsRead : /\ blocks[k].title = "Tasks"
                                  /\ \A j \in (k + 1)..(index - 1) : blocks[j].level > 1
    BY <1>0 DEF Progress, AmongTasks
  <2>2. k \in 1..Len(blocks)
    BY <1>0, <2>1 DEF SectionsRead, SectionBlocks
  <2>3. \A j \in (k + 1)..(index' - 1) : j = index \/ j \in (k + 1)..(index - 1)
    BY <1>0, <1>1, <2>2
  <2>4. \A j \in (k + 1)..(index' - 1) : blocks[j].level > 1
    BY <1>0, <2>1, <2>3
  <2> QED
    BY <1>1, <1>3, <1>4, <2>1, <2>4 DEF AmongTasks
<1>7. InTask'
  <2>1. /\ blocks[heading].level = 2
        /\ \A k \in subsections : blocks[k].level = 3
        /\ \A i, k \in subsections : blocks[i].title = blocks[k].title => i = k
    BY <1>1 DEF Progress, InTask
  <2>2. /\ \A k \in subsections' : blocks[k].level = 3
        /\ \A i, k \in subsections' : blocks[i].title = blocks[k].title => i = k
    BY <1>0, <1>1, <2>1 DEF Block
  <2> QED
    BY <1>1, <1>3, <2>1, <2>2 DEF InTask
<1> QED
  BY <1>0, <1>1, <1>2, <1>4, <1>5, <1>6, <1>7, KeptProgress DEF Progress, BetweenSections

\* A task ends: it is one, and the next in order.
LEMMA TaskStep ==
  ASSUME ReadInv, Progress, EndTask, ~Reject
  PROVE  Progress' /\ verdict' = "reading"
<1>1. /\ UNCHANGED <<draft, index, sections, inTasks, subsections>> /\ verdict' = "reading"
      /\ heading # 0 /\ Level < 3 /\ heading' = 0 /\ tasks' = Append(tasks, TaskAt(heading))
      /\ blocks[heading].title \in Ids /\ DependsOk /\ SubsectionsOk
  BY DEF EndTask, Reads
<1>0. /\ Len(blocks) \in Nat /\ DOMAIN blocks = 1..Len(blocks) /\ index \in 1..(Len(blocks) + 1)
      /\ heading \in 1..Len(blocks) /\ heading < index /\ inTasks
      /\ subsections = (heading + 1)..(index - 1)
      /\ Level \in 0..4
      /\ tasks \in Seq(TaskRecords)
  BY <1>1, Positions DEF ReadInv, TypeOK, GraphTypeOK
<1>2. Through = heading - 1 /\ Through' = index - 1
  BY <1>1 DEF Through
<1>3. /\ blocks' = blocks /\ SectionBlocks' = SectionBlocks /\ TaskBlocks' = TaskBlocks
      /\ \A i : Placed(i)' = Placed(i)
      /\ \A i : Before(i)' = Before(i)
      /\ \A i : TaskAt(i)' = TaskAt(i)
  BY <1>1, SameDocument
<1>4. /\ blocks[heading].level = 2 /\ \A k \in subsections : blocks[k].level = 3
      /\ \A i, k \in subsections : blocks[i].title = blocks[k].title => i = k
  BY <1>1 DEF Progress, InTask
<1>5. heading \in TaskBlocks
  BY <1>0, <1>4 DEF TaskBlocks
<1>6. Under(heading) = subsections
  BY <1>1, UnderTask DEF Progress
<1>7. AllPlaced'
  <2>1. PICK k \in SectionsRead : /\ blocks[k].title = "Tasks"
                                  /\ \A j \in (k + 1)..(index - 1) : blocks[j].level > 1
    BY <1>0 DEF Progress, AmongTasks
  <2>2. k \in SectionBlocks /\ k \in 1..Len(blocks) /\ blocks[k].level = 1 /\ k < index
    BY <1>0, <2>1 DEF SectionsRead, SectionBlocks
  <2>3. k < heading
    <3>1. k # heading
      BY <1>4, <2>2
    <3>2. k \notin subsections
      BY <1>4, <2>2
    <3> QED
      BY <1>0, <2>2, <3>1, <3>2
  <2>4. heading \in Under(k)
    <3>1. \A j \in (k + 1)..heading : blocks[j].level > 1
      BY <1>0, <2>1, <2>2
    <3> QED
      BY <1>0, <2>2, <2>3, <3>1 DEF Under
  <2>5. OneEach(Under(heading), TASK_H3)
    BY <1>1, <1>4, <1>6 DEF SubsectionsOk, OneEach, Titled
  <2>6. Placed(heading)
    BY <1>1, <1>5, <2>1, <2>2, <2>4, <2>5 DEF Placed, DependsOk
  <2>7. \A i \in subsections : Placed(i)
    BY <1>1, <1>4, <1>5, <1>6 DEF Placed, SubsectionsOk
  <2>8. \A i \in 1..(heading - 1) : Placed(i)
    BY <1>2 DEF Progress, AllPlaced
  <2>9. \A i \in 1..(index - 1) : i \in 1..(heading - 1) \/ i = heading \/ i \in subsections
    BY <1>0
  <2> QED
    BY <1>2, <1>3, <2>6, <2>7, <2>8, <2>9 DEF AllPlaced
<1>8. TasksKept'
  <2>1. ASSUME NEW i \in TaskBlocks, i <= index - 1
        PROVE  i <= heading - 1 \/ i = heading
    <3>1. i \in 1..Len(blocks) /\ blocks[i].level = 2
      BY <1>0, <2>1 DEF TaskBlocks
    <3>2. i \notin subsections
      BY <1>4, <3>1
    <3> QED
      BY <1>0, <2>1, <3>1, <3>2
  <2>2. \A i \in TaskBlocks : i \in 1..Len(blocks)
    BY <1>0 DEF TaskBlocks
  <2>3. ASSUME NEW i \in TaskBlocks
        PROVE  /\ i \in TasksRead' <=> i \in TasksRead \/ i = heading
               /\ i <= heading <=> i \in TasksRead \/ i = heading
    <3>1. /\ i \in TasksRead <=> i <= heading - 1
          /\ i \in TasksRead' <=> i <= index - 1
      BY <1>1, <1>2, <1>3 DEF TasksRead
    <3>2. /\ i <= index - 1 <=> i <= heading - 1 \/ i = heading
          /\ i <= heading <=> i <= heading - 1 \/ i = heading
      BY <1>0, <2>1, <2>2
    <3> QED
      BY <3>1, <3>2
  <2>4. /\ TasksRead' = TasksRead \cup {heading} /\ heading \notin TasksRead
        /\ {k \in TaskBlocks : k <= heading} = TasksRead \cup {heading}
    <3>1. TasksRead \subseteq TaskBlocks /\ TasksRead' \subseteq TaskBlocks
      BY <1>3 DEF TasksRead
    <3>2. heading \notin TasksRead
      BY <1>0, <1>2 DEF TasksRead
    <3>3. TasksRead' = TasksRead \cup {heading}
      BY <1>5, <2>3, <3>1
    <3>4. \A k \in TaskBlocks : k <= heading <=> k \in TasksRead \/ k = heading
      BY <2>3
    <3>5. {k \in TaskBlocks : k <= heading} = TasksRead \cup {heading}
      BY <1>5, <3>1, <3>4
    <3> QED
      BY <3>2, <3>3, <3>5
  <2>5. Cardinality(TasksRead') = Cardinality(TasksRead) + 1
    BY <2>4, TasksReadFinite, FS_AddElement
  <2>6. Before(heading) = Cardinality(TasksRead')
    BY <2>4 DEF Before
  <2>7. Len(tasks) \in Nat /\ Len(tasks) = Cardinality(TasksRead)
    BY <1>0, LenProperties DEF Progress, TasksKept
  <2>8. /\ Len(tasks') = Len(tasks) + 1 /\ tasks'[Len(tasks) + 1] = TaskAt(heading)
        /\ \A n \in 1..Len(tasks) : tasks'[n] = tasks[n]
    <3>1. TaskAt(heading) \in TaskRecords
      BY <1>1, TaskType
    <3> QED
      BY <1>0, <1>1, <3>1, AppendProperties
  <2>9. ASSUME NEW n \in 1..(Len(tasks) + 1)
        PROVE  \E i \in TasksRead' : Before(i) = n /\ tasks'[n] = TaskAt(i)
    <3>1. CASE n = Len(tasks) + 1
      BY <2>4, <2>5, <2>6, <2>7, <2>8, <3>1
    <3>2. CASE n \in 1..Len(tasks)
      <4>1. PICK i \in TasksRead : Before(i) = n /\ tasks[n] = TaskAt(i)
        BY <3>2 DEF Progress, TasksKept
      <4> QED
        BY <2>4, <2>8, <3>2, <4>1
    <3> QED
      BY <2>7, <2>9, <3>1, <3>2
  <2> QED
    BY <1>3, <2>5, <2>7, <2>8, <2>9 DEF TasksKept
<1>9. SectionsRead' = SectionsRead
  BY <1>1, <1>3 DEF SectionsRead
<1>10. AmongTasks'
  <2>1. Level' = Level
    BY <1>1, <1>3 DEF Level, AtEnd, Block
  <2> QED
    BY <1>0, <1>1, <1>3, <1>9, <2>1 DEF Progress, AmongTasks
<1> QED
  BY <1>0, <1>1, <1>7, <1>8, <1>9, <1>10, KeptProgress DEF Progress, BetweenSections, InTask

\* The tasks end.
LEMMA TasksStep ==
  ASSUME ReadInv, Progress, EndTasks, ~Reject
  PROVE  Progress' /\ verdict' = "reading"
<1>1. /\ UNCHANGED <<draft, index, sections, heading, subsections, tasks>> /\ verdict' = "reading"
      /\ inTasks /\ heading = 0 /\ Level <= 1 /\ tasks # <<>> /\ inTasks' = FALSE
  BY DEF EndTasks, Reads
<1>2. blocks' = blocks /\ SectionBlocks' = SectionBlocks /\ TaskBlocks' = TaskBlocks
  BY <1>1, SameDocument
<1>3. SectionsRead' = SectionsRead /\ Through' = Through
  BY <1>1, <1>2 DEF SectionsRead, Through
<1>4. TasksRead' = TasksRead
  BY <1>2, <1>3 DEF TasksRead
<1>5. Level' = Level
  BY <1>1, <1>2 DEF Level, AtEnd, Block
<1> QED
  BY <1>1, <1>3, <1>4, <1>5, KeptProgress DEF Progress, BetweenSections, AmongTasks, InTask

\* No two tasks have the same number.
LEMMA NumbersDiffer ==
  ASSUME ReadInv, NEW i \in TaskBlocks, NEW k \in TaskBlocks, Before(i) = Before(k)
  PROVE  i = k
<1>0. IsFiniteSet(TaskBlocks) /\ \A t \in TaskBlocks : t \in Nat
  BY TasksReadFinite, Positions DEF TaskBlocks
<1>1. ASSUME NEW a \in TaskBlocks, NEW b \in TaskBlocks, a < b
      PROVE  Before(a) # Before(b)
  <2> DEFINE A == {t \in TaskBlocks : t <= a}
             B == {t \in TaskBlocks : t <= b}
  <2>1. A \subseteq B /\ b \in B /\ b \notin A
    BY <1>0, <1>1
  <2>2. IsFiniteSet(B)
    BY <1>0, FS_Subset
  <2>3. Cardinality(A) = Cardinality(B) => A = B
    BY <2>1, <2>2, FS_Subset
  <2> QED
    BY <2>1, <2>3 DEF Before
<1> QED
  BY <1>0, <1>1

\* The document ends: it is a Task Spec, and its tasks are those that were read.
LEMMA BodyStep ==
  ASSUME ReadInv, Progress, EndBody, ~Reject
  PROVE  WellFormed /\ tasks = TasksOf /\ UNCHANGED <<draft, tasks>> /\ verdict' = "parsed"
<1>1. /\ UNCHANGED <<draft, tasks>> /\ verdict' = "parsed"
      /\ ~inTasks /\ AtEnd /\ REQUIRED_H1 \subseteq sections /\ doc.frontmatter = "good"
  BY DEF EndBody, Reads
<1>0. /\ Len(blocks) \in Nat /\ DOMAIN blocks = 1..Len(blocks) /\ index = Len(blocks) + 1
      /\ heading = 0 /\ tasks \in Seq(TaskRecords)
  BY <1>1, Positions DEF Progress, BetweenSections, ReadInv, TypeOK, GraphTypeOK
<1>2. SectionsRead = SectionBlocks
  BY <1>0 DEF SectionsRead, SectionBlocks
<1>3. Through = Len(blocks)
  BY <1>0 DEF Through
<1>4. TasksRead = TaskBlocks
  BY <1>0, <1>3 DEF TasksRead, TaskBlocks
<1>5. sections = REQUIRED_H1
  BY <1>1 DEF ReadInv, TypeOK
<1>6. OneEach(SectionBlocks, REQUIRED_H1)
  BY <1>2, <1>5 DEF Progress, SectionsKept
<1>7. Len(tasks) \in Nat /\ DOMAIN tasks = 1..Len(tasks) /\ Len(tasks) = Cardinality(TaskBlocks)
  BY <1>0, <1>4, LenProperties DEF Progress, TasksKept
<1>8. TaskBlocks # {}
  <2>1. tasks # <<>>
    BY <1>1, <1>5, DraftsAssumption DEF Progress, BetweenSections
  <2>2. Len(tasks) # 0
    BY <1>0, <2>1, EmptySeq
  <2> QED
    BY <1>4, <1>7, <2>2, TasksReadFinite
<1>9. WellFormed
  BY <1>0, <1>1, <1>3, <1>6, <1>8 DEF WellFormed, Progress, Opened, AllPlaced
<1>10. tasks = TasksOf
  <2>1. DOMAIN TasksOf = 1..Len(tasks)
    BY <1>7 DEF TasksOf
  <2>2. ASSUME NEW n \in 1..Len(tasks)
        PROVE  tasks[n] = TasksOf[n]
    <3>1. PICK i \in TaskBlocks : Before(i) = n /\ tasks[n] = TaskAt(i)
      BY <1>4 DEF Progress, TasksKept
    <3> DEFINE c == CHOOSE k \in TaskBlocks : Before(k) = n
    <3>2. c \in TaskBlocks /\ Before(c) = n
      BY <3>1
    <3>3. TasksOf[n] = TaskAt(c)
      BY <1>7 DEF TasksOf
    <3> HIDE DEF c
    <3>4. c = i
      BY <3>1, <3>2, NumbersDiffer
    <3> QED
      BY <3>1, <3>3, <3>4
  <2>3. tasks = [n \in 1..Len(tasks) |-> tasks[n]]
    BY <1>0, <1>7
  <2>4. TasksOf = [n \in 1..Len(tasks) |-> TasksOf[n]]
    BY <1>7 DEF TasksOf
  <2> QED
    BY <2>2, <2>3, <2>4
<1> QED
  BY <1>1, <1>9, <1>10

\* A document that is handed in.
LEMMA OpenStep ==
  ASSUME ReadInv, Faithful, Open
  PROVE  Faithful'
<1>0. /\ verdict = "written" /\ index = 1 /\ heading = 0 /\ sections = {} /\ ~inTasks
      /\ tasks = <<>> /\ UNCHANGED <<draft, reading, tasks>>
  BY DEF Open, Reject, ReadInv, Faithful
<1>1. CASE Opened
  <2>1. verdict' = "reading"
    BY <1>1 DEF Open, Opened
  <2>2. UNCHANGED <<index, sections, inTasks, heading, subsections>>
    BY <1>0 DEF reading
  <2>3. SectionsRead = {} /\ Through = 0 /\ TasksRead = {}
    BY <1>0, Positions DEF SectionsRead, SectionBlocks, Through, TasksRead, TaskBlocks
  <2>4. Len(tasks) = 0
    BY <1>0, EmptySeq
  <2>5. Progress
    BY <1>0, <1>1, <2>3, <2>4, TasksReadFinite
    DEF Progress, SectionsKept, OneEach, Titled, AllPlaced, BetweenSections, AmongTasks, InTask,
        TasksKept
  <2>6. blocks' = blocks /\ SectionBlocks' = SectionBlocks /\ TaskBlocks' = TaskBlocks
    BY <1>0, SameDocument
  <2>7. SectionsRead' = SectionsRead /\ Through' = Through
    BY <2>2, <2>6 DEF SectionsRead, Through
  <2>8. TasksRead' = TasksRead
    BY <2>6, <2>7 DEF TasksRead
  <2>9. Progress'
    BY <1>0, <2>2, <2>5, <2>7, <2>8, KeptProgress
    DEF Progress, BetweenSections, AmongTasks, InTask
  <2> QED
    BY <2>1, <2>9 DEF Faithful
<1>2. CASE ~Opened
  <2>1. verdict' = "invalid"
    BY <1>2 DEF Open, Reject, Opened
  <2>2. ~WellFormed
    <3>1. blocks = <<>> => DOMAIN blocks = {}
      OBVIOUS
    <3> QED
      BY <1>2, <3>1 DEF WellFormed, Opened, Frontmatter, TaskBlocks
  <2> QED
    BY <1>0, <2>1, <2>2, SameDocument DEF Faithful
<1> QED
  BY <1>1, <1>2

\* Every step of the parser is faithful to the document.
LEMMA FaithfulRead == ReadInv /\ Faithful /\ Read => Faithful'
<1> SUFFICES ASSUME ReadInv, Faithful, Read
             PROVE  Faithful'
  OBVIOUS
<1>1. CASE Open
  BY <1>1, OpenStep
<1>2. CASE Reads
  <2>0. verdict = "reading" /\ UNCHANGED draft /\ Progress
    BY <1>2 DEF Reads, Faithful
  <2>1. ASSUME Reject, ~WellFormed
        PROVE  Faithful'
    BY <2>0, <2>1, SameDocument DEF Faithful, Reject
  <2>2. ASSUME Progress', verdict' = "reading"
        PROVE  Faithful'
    BY <2>2 DEF Faithful
  <2>3. CASE ReadSection
    <3>1. CASE Reject
      <4>1. ~inTasks /\ ~AtEnd /\ verdict' = "invalid"
        BY <2>3, <3>1 DEF ReadSection, Reject
      <4>2. ~SectionOk \/ (IF Block.title = "Tasks" THEN Block.text ELSE ~NoSubheading \/ ~Block.text)
        BY <2>0, <2>3, <4>1 DEF ReadSection
      <4> QED
        BY <2>0, <2>1, <3>1, <4>1, <4>2, RefusedSection
    <3> QED
      BY <2>0, <2>2, <2>3, <3>1, SectionStep
  <2>4. CASE ReadHeading
    <3>1. CASE Reject
      <4>1. inTasks /\ heading = 0 /\ Level > 1 /\ Level # 2
        BY <2>0, <2>4, <3>1 DEF ReadHeading, Reject
      <4> QED
        BY <2>0, <2>1, <3>1, <4>1, RefusedHeading
    <3> QED
      BY <2>0, <2>2, <2>4, <3>1, HeadingStep
  <2>5. CASE ReadSubsection
    <3>1. CASE Reject
      <4>1. /\ heading # 0 /\ Level >= 3
            /\ ~(Level = 3 /\ \A k \in subsections : blocks[k].title # Block.title)
        BY <2>0, <2>5, <3>1 DEF ReadSubsection, Reject
      <4> QED
        BY <2>0, <2>1, <3>1, <4>1, RefusedSubsection
    <3> QED
      BY <2>0, <2>2, <2>5, <3>1, SubsectionStep
  <2>6. CASE EndTask
    <3>1. CASE Reject
      <4>1. /\ heading # 0 /\ Level < 3
            /\ ~(blocks[heading].title \in Ids /\ DependsOk /\ SubsectionsOk)
        BY <2>0, <2>6, <3>1 DEF EndTask, Reject
      <4> QED
        BY <2>0, <2>1, <3>1, <4>1, RefusedTask
    <3> QED
      BY <2>0, <2>2, <2>6, <3>1, TaskStep
  <2>7. CASE EndTasks
    <3>1. CASE Reject
      <4>1. inTasks /\ heading = 0 /\ Level <= 1 /\ tasks = <<>>
        BY <2>0, <2>7, <3>1 DEF EndTasks, Reject
      <4> QED
        BY <2>0, <2>1, <3>1, <4>1, RefusedTasks
    <3> QED
      BY <2>0, <2>2, <2>7, <3>1, TasksStep
  <2>8. CASE EndBody
    <3>1. CASE Reject
      <4>1. ~inTasks /\ AtEnd /\ ~(REQUIRED_H1 \subseteq sections /\ doc.frontmatter = "good")
        BY <2>0, <2>8, <3>1 DEF EndBody, Reject
      <4> QED
        BY <2>0, <2>1, <3>1, <4>1, RefusedBody
    <3>2. CASE ~Reject
      <4>1. WellFormed /\ tasks = TasksOf /\ UNCHANGED <<draft, tasks>> /\ verdict' = "parsed"
        BY <2>0, <2>8, <3>2, BodyStep
      <4> QED
        BY <4>1, SameDocument DEF Faithful
    <3> QED
      BY <3>1, <3>2
  <2> QED
    BY <2>0, <2>3, <2>4, <2>5, <2>6, <2>7, <2>8 DEF Read, Open
<1> QED
  BY <1>1, <1>2 DEF Read, ReadSection, ReadHeading, ReadSubsection, EndTask, EndTasks, EndBody

\* So is every other step: people edit only what was not read, and the check of the
\* graph changes neither the document nor its tasks.
LEMMA FaithfulStep == ReadInv /\ Faithful /\ [Next]_vars => Faithful'
<1> SUFFICES ASSUME ReadInv, Faithful, [Next]_vars
             PROVE  Faithful'
  OBVIOUS
<1>1. CASE Write
  <2>1. /\ verdict = "written" /\ UNCHANGED <<reading, graph>>
    BY <1>1 DEF Write, Insert, Delete, Replace, EditTop, Editable, WithBlocks, Becomes
  <2> QED
    BY <2>1 DEF Faithful, reading, graph
<1>2. ASSUME UNCHANGED <<draft, tasks>>,
             verdict \notin {"written", "reading", "invalid"},
             verdict' \notin {"written", "reading", "invalid"}
      PROVE  Faithful'
  BY <1>2, SameDocument DEF Faithful
<1>3. CASE Check
  <2>1. UNCHANGED <<draft, tasks>>
    BY <1>3 DEF Check, CheckGraph, RejectDuplicate, RejectUnknown, BeginSearch, VisitTask,
                VisitDependency, Leave, Accept, Ends
  <2>2. /\ verdict \in {"parsed", "searching"}
        /\ verdict' \in {"duplicate", "unknown", "searching", "cycle", "accepted"}
    BY <1>3 DEF Check, CheckGraph, RejectDuplicate, RejectUnknown, BeginSearch, VisitTask,
                VisitDependency, Leave, Accept, Ends, Call
  <2> QED
    BY <1>2, <2>1, <2>2
<1>4. CASE Bind
  BY <1>2, <1>4 DEF Bind, graph
<1>5. CASE UNCHANGED vars
  <2>1. UNCHANGED <<draft, index, sections, inTasks, heading, subsections, tasks, verdict>>
    BY <1>5 DEF vars, reading, graph
  <2>2. CASE verdict = "reading"
    <3>1. blocks' = blocks /\ SectionBlocks' = SectionBlocks /\ TaskBlocks' = TaskBlocks
      BY <2>1, SameDocument
    <3>2. SectionsRead' = SectionsRead /\ Through' = Through /\ Level' = Level
      BY <2>1, <3>1 DEF SectionsRead, Through, Level, AtEnd, Block
    <3>3. TasksRead' = TasksRead
      BY <3>1, <3>2 DEF TasksRead
    <3>4. Progress
      BY <2>2 DEF Faithful
    <3>5. BetweenSections' /\ AmongTasks' /\ InTask'
      BY <2>1, <3>1, <3>2, <3>4 DEF Progress, BetweenSections, AmongTasks, InTask
    <3>6. Progress'
      BY <2>1, <3>2, <3>3, <3>4, <3>5, KeptProgress DEF Progress
    <3> QED
      BY <2>1, <2>2, <3>6 DEF Faithful
  <2>3. CASE verdict # "reading"
    BY <2>1, <2>3, SameDocument DEF Faithful
  <2> QED
    BY <2>2, <2>3
<1> QED
  BY <1>1, <1>3, <1>4, <1>5, FaithfulRead DEF Next

\* For every document: the parser hands its tasks to the check of the graph, in
\* their order and with nothing left out or added, exactly if it is a Task Spec.
THEOREM ReadsWhatIsWrittenHolds == Spec => []ReadsWhatIsWritten
<1>1. Init => Faithful
  BY DEF Init, Faithful
<1>2. Spec => [](ReadInv /\ Faithful)
  BY <1>1, ReadInit, ReadInvStep, FaithfulStep, PTL DEF Spec
<1>3. Faithful => ReadsWhatIsWritten
  BY DEF Faithful, ReadsWhatIsWritten, Outcomes
<1> QED
  BY <1>2, <1>3, PTL

-----------------------------------------------------------------------------
(* The path in the identity: collapsing it, segment by segment *)

\* What holds of 0 and of the successors of what it holds of holds up to any bound.
LEMMA UpTo ==
  ASSUME NEW S, NEW n \in Nat, 0 \in S,
         \A i \in 0..(n - 1) : i \in S => i + 1 \in S
  PROVE  \A i \in 0..n : i \in S
<1> DEFINE T == {i \in 0..n : i \notin S}
           R == OpToRel(<, Nat)
<1>1. IsWellFoundedOn(R, Nat)
  BY NatLessThanWellFounded
<1>2. \A x, y \in Nat : y < x => <<y, x>> \in R
  BY DEF OpToRel
<1> HIDE DEF R
<1>3. SUFFICES ASSUME T # {} PROVE FALSE
  OBVIOUS
<1>4. T \subseteq Nat
  OBVIOUS
<1>5. PICK x \in T : \A y \in T : ~(<<y, x>> \in R)
  <2> HIDE DEF T
  <2> QED
    BY <1>1, <1>3, <1>4, WFMin
<1>6. x \in 0..n /\ x \notin S /\ x # 0
  OBVIOUS
<1>7. x - 1 \in 0..(n - 1) /\ x - 1 \in Nat /\ x - 1 < x /\ (x - 1) + 1 = x
  BY <1>6
<1>8. x - 1 \notin T
  <2>1. <<x - 1, x>> \in R
    BY <1>2, <1>6, <1>7
  <2> HIDE DEF T
  <2> QED
    BY <1>5, <2>1
<1>9. x - 1 \in S
  BY <1>7, <1>8
<1> QED
  BY <1>6, <1>7, <1>9

\* What is left after each of the first m segments.
Collapsing(g, p, top, m) ==
  g = [i \in 0..m |-> IF i = 0 THEN Path(<<>>) ELSE Taken(g[i - 1], p[i], top)]

\* There is such a function, and it is the one of Collapsed.
LEMMA CollapsingEnds ==
  ASSUME NEW p \in Seq(STRING), NEW top
  PROVE  \E g : Collapsing(g, p, top, Len(p)) /\ Collapsed(p, top) = g[Len(p)]
<1> DEFINE S == {m \in 0..Len(p) : \E g : Collapsing(g, p, top, m)}
<1>0. Len(p) \in Nat
  OBVIOUS
<1>1. 0 \in S
  <2>1. Collapsing([i \in 0..0 |-> Path(<<>>)], p, top, 0)
    BY DEF Collapsing
  <2> QED
    BY <1>0, <2>1
<1>2. ASSUME NEW m \in 0..(Len(p) - 1), m \in S
      PROVE  m + 1 \in S
  <2>1. PICK g : Collapsing(g, p, top, m)
    BY <1>2
  <2> DEFINE h == [i \in 0..(m + 1) |-> IF i = m + 1 THEN Taken(g[m], p[m + 1], top) ELSE g[i]]
  <2>2. Collapsing(h, p, top, m + 1)
    <3>1. ASSUME NEW i \in 0..(m + 1)
          PROVE  h[i] = IF i = 0 THEN Path(<<>>) ELSE Taken(h[i - 1], p[i], top)
      <4>1. CASE i = m + 1
        BY <4>1
      <4>2. CASE i \in 0..m
        <5>1. h[i] = g[i] /\ (i # 0 => h[i - 1] = g[i - 1])
          BY <4>2
        <5>2. g[i] = IF i = 0 THEN Path(<<>>) ELSE Taken(g[i - 1], p[i], top)
          BY <2>1, <4>2 DEF Collapsing
        <5> QED
          BY <5>1, <5>2
      <4> QED
        BY <4>1, <4>2
    <3> HIDE DEF h
    <3>2. h = [i \in 0..(m + 1) |-> h[i]]
      BY DEF h
    <3> QED
      BY <3>1, <3>2 DEF Collapsing
  <2> QED
    BY <1>0, <2>2
<1>3. \A m \in 0..Len(p) : m \in S
  <2> HIDE DEF S
  <2> QED
    BY <1>0, <1>1, <1>2, UpTo
<1>4. \E g : Collapsing(g, p, top, Len(p))
  BY <1>0, <1>3
<1> DEFINE after[i \in 0..Len(p)] ==
             IF i = 0 THEN Path(<<>>) ELSE Taken(after[i - 1], p[i], top)
<1>5. Collapsed(p, top) = after[Len(p)]
  BY DEF Collapsed
<1>6. after = CHOOSE g : Collapsing(g, p, top, Len(p))
  BY DEF Collapsing
<1> HIDE DEF after
<1> QED
  BY <1>4, <1>5, <1>6

\* The parts that are left are always a path or an escape.
Tops == {Path(<<>>), Escape}

\* One more element, and one less.
LEMMA AppendedTo ==
  ASSUME NEW S, NEW q \in Seq(S), NEW x \in S
  PROVE  /\ Append(q, x) \in Seq(S) /\ Len(Append(q, x)) = Len(q) + 1
         /\ \A i \in 1..Len(q) : Append(q, x)[i] = q[i]
         /\ Append(q, x)[Len(q) + 1] = x
OBVIOUS

LEMMA FrontOf ==
  ASSUME NEW S, NEW q \in Seq(S), q # <<>>
  PROVE  LET f == SubSeq(q, 1, Len(q) - 1)
         IN  f \in Seq(S) /\ Len(f) = Len(q) - 1 /\ \A i \in 1..(Len(q) - 1) : f[i] = q[i]
<1> DEFINE f == SubSeq(q, 1, Len(q) - 1)
<1>1. 1 \in Int /\ Len(q) \in Nat /\ Len(q) - 1 \in Int /\ Len(q) - 1 \in Nat
  BY EmptySeq
<1>2. \A i \in 1..(Len(q) - 1) : q[i] \in S
  BY <1>1, ElementOfSeq
<1>3. /\ f \in Seq(S)
      /\ Len(f) = IF 1 <= Len(q) - 1 THEN (Len(q) - 1) - 1 + 1 ELSE 0
      /\ \A i \in 1..((Len(q) - 1) - 1 + 1) : f[i] = q[1 + i - 1]
  <2> HIDE DEF f
  <2> QED
    BY <1>1, <1>2, SubSeqProperties DEF f
<1> HIDE DEF f
<1>4. Len(f) = Len(q) - 1
  <2>1. \A l \in Nat : l - 1 \in Nat => (IF 1 <= l - 1 THEN (l - 1) - 1 + 1 ELSE 0) = l - 1
    OBVIOUS
  <2> QED
    BY <1>1, <1>3, <2>1, Zenon
<1>5. ASSUME NEW i \in 1..(Len(q) - 1)
      PROVE  f[i] = q[i]
  <2>1. i \in 1..((Len(q) - 1) - 1 + 1) /\ 1 + i - 1 = i
    BY <1>1
  <2> QED
    BY <1>3, <2>1
<1> QED
  BY <1>3, <1>4, <1>5 DEF f

IsDropped(segment) == segment \in {"", "."}

\* Each kind of segment, and what it leaves of a path.
LEMMA TakenCases ==
  ASSUME NEW parts \in Seq(STRING), NEW segment \in STRING, NEW top
  PROVE  /\ IsDropped(segment) => Taken(Path(parts), segment, top) = Path(parts)
         /\ IsName(segment) => Taken(Path(parts), segment, top) = Path(Append(parts, segment))
         /\ segment = ".." /\ parts = <<>> => Taken(Path(parts), segment, top) = top
         /\ segment = ".." /\ parts # <<>> =>
              Taken(Path(parts), segment, top) = Path(SubSeq(parts, 1, Len(parts) - 1))
         /\ IsDropped(segment) \/ IsName(segment) \/ segment = ".."
<1>1. Path(parts).code = "" /\ Path(parts).parts = parts
  BY DEF Path
<1>2. IsDropped(segment) => Taken(Path(parts), segment, top) = Path(parts)
  BY <1>1 DEF Taken, IsDropped
<1>3. segment = ".." /\ parts = <<>> => Taken(Path(parts), segment, top) = top
  BY <1>1 DEF Taken
<1>4. segment = ".." /\ parts # <<>> =>
        Taken(Path(parts), segment, top) = Path(SubSeq(parts, 1, Len(parts) - 1))
  BY <1>1 DEF Taken
<1>5. IsName(segment) => Taken(Path(parts), segment, top) = Path(Append(parts, segment))
  BY <1>1 DEF Taken, IsName
<1>6. IsDropped(segment) \/ IsName(segment) \/ segment = ".."
  BY DEF IsName, IsDropped
<1> QED
  BY <1>2, <1>3, <1>4, <1>5, <1>6

\* An escape stays one.
LEMMA EscapeStays == \A segment, top : Taken(Escape, segment, top) = Escape
BY DEF Taken, Escape

\* One segment more, counted: a name goes down, ".." goes up.
LEMMA OneMore ==
  ASSUME NEW p, NEW j \in Nat, NEW i \in Nat, j <= i + 1
  PROVE  /\ Ups(p, j, i) \in Nat /\ Downs(p, j, i) \in Nat
         /\ Ups(p, j, i + 1) = IF p[i + 1] = ".." THEN Ups(p, j, i) + 1 ELSE Ups(p, j, i)
         /\ Downs(p, j, i + 1) = IF IsName(p[i + 1]) THEN Downs(p, j, i) + 1 ELSE Downs(p, j, i)
<1> DEFINE up(k)   == {n \in j..k : p[n] = ".."}
           down(k) == {n \in j..k : IsName(p[n])}
<1>1. IsFiniteSet(j..i)
  BY FS_Interval
<1>2. up(i) \in SUBSET (j..i) /\ down(i) \in SUBSET (j..i)
  OBVIOUS
<1>3. IsFiniteSet(up(i)) /\ IsFiniteSet(down(i))
  BY <1>1, <1>2, FS_Subset
<1>4. Cardinality(up(i)) \in Nat /\ Cardinality(down(i)) \in Nat
  BY <1>3, FS_CardinalityType
<1>5. j..(i + 1) = (j..i) \cup {i + 1} /\ i + 1 \notin j..i
  OBVIOUS
<1>6. i + 1 \notin up(i) /\ i + 1 \notin down(i)
  BY <1>5
<1>7. up(i + 1) = IF p[i + 1] = ".." THEN up(i) \cup {i + 1} ELSE up(i)
  BY <1>5
<1>8. down(i + 1) = IF IsName(p[i + 1]) THEN down(i) \cup {i + 1} ELSE down(i)
  BY <1>5
<1>9. /\ Cardinality(up(i) \cup {i + 1}) = Cardinality(up(i)) + 1
      /\ Cardinality(down(i) \cup {i + 1}) = Cardinality(down(i)) + 1
  <2> HIDE DEF up, down
  <2> QED
    BY <1>3, <1>6, FS_AddElement
<1>10. /\ Ups(p, j, i) = Cardinality(up(i)) /\ Ups(p, j, i + 1) = Cardinality(up(i + 1))
       /\ Downs(p, j, i) = Cardinality(down(i)) /\ Downs(p, j, i + 1) = Cardinality(down(i + 1))
  BY DEF Ups, Downs
<1> HIDE DEF up, down
<1> QED
  BY <1>4, <1>7, <1>8, <1>9, <1>10

\* Nothing is counted before the first segment.
LEMMA NoneYet == \A p : \A i \in Nat : Ups(p, i + 1, i) = 0 /\ Downs(p, i + 1, i) = 0
<1> TAKE p
<1> TAKE i \in Nat
<1>1. (i + 1)..i = {}
  OBVIOUS
<1>2. {n \in (i + 1)..i : p[n] = ".."} = {} /\ {n \in (i + 1)..i : IsName(p[n])} = {}
  BY <1>1
<1> QED
  BY <1>2, FS_EmptySet DEF Ups, Downs

\* How far below its start the way from j to i ends.
Depth(p, j, i) == Downs(p, j, i) - Ups(p, j, i)

StandsIn(p, j, i) == IsName(p[j]) /\ \A k \in j..i : Depth(p, j, k) > 0

LEMMA DepthStep ==
  ASSUME NEW p, NEW j \in Nat, NEW i \in Nat, j <= i + 1
  PROVE  /\ Depth(p, j, i) \in Int
         /\ Depth(p, j, i + 1) = IF p[i + 1] = ".." THEN Depth(p, j, i) - 1
                                 ELSE IF IsName(p[i + 1]) THEN Depth(p, j, i) + 1
                                 ELSE Depth(p, j, i)
<1>1. p[i + 1] = ".." => ~IsName(p[i + 1])
  BY DEF IsName
<1>2. /\ Ups(p, j, i) \in Nat /\ Downs(p, j, i) \in Nat
      /\ Ups(p, j, i + 1) = IF p[i + 1] = ".." THEN Ups(p, j, i) + 1 ELSE Ups(p, j, i)
      /\ Downs(p, j, i + 1) = IF IsName(p[i + 1]) THEN Downs(p, j, i) + 1 ELSE Downs(p, j, i)
  BY OneMore
<1> QED
  BY <1>1, <1>2 DEF Depth

\* A name stands one segment further if it stood, and the way does not end at its start.
LEMMA StandsFurther ==
  ASSUME NEW p, NEW j \in Nat, NEW i \in Nat, j <= i
  PROVE  StandsIn(p, j, i + 1) <=> StandsIn(p, j, i) /\ Depth(p, j, i + 1) > 0
<1>1. j..(i + 1) = (j..i) \cup {i + 1}
  OBVIOUS
<1> QED
  BY <1>1 DEF StandsIn

\* A name stands where it is written.
LEMMA StandsFirst ==
  ASSUME NEW p, NEW i \in Nat
  PROVE  /\ StandsIn(p, i + 1, i + 1) <=> IsName(p[i + 1])
         /\ IsName(p[i + 1]) => Depth(p, i + 1, i + 1) = 1
<1>1. Depth(p, i + 1, i) = 0
  BY NoneYet DEF Depth
<1>2. (i + 1)..(i + 1) = {i + 1} /\ i + 1 \in Nat
  OBVIOUS
<1>3. Depth(p, i + 1, i + 1) = IF p[i + 1] = ".." THEN 0 - 1
                               ELSE IF IsName(p[i + 1]) THEN 1 ELSE 0
  BY <1>1, <1>2, DepthStep
<1>4. IsName(p[i + 1]) => Depth(p, i + 1, i + 1) = 1
  BY <1>3 DEF IsName
<1> QED
  BY <1>2, <1>4 DEF StandsIn

\* What a position is kept in: at holds, in order, the positions of the names that
\* stand in the first i segments of p, and parts holds these names.
Keeps(p, i, top, parts, at) ==
  /\ parts \in Seq(STRING) /\ at \in Seq(1..i) /\ Len(at) = Len(parts)
  /\ \A n \in 1..Len(at) : /\ parts[n] = p[at[n]] /\ StandsIn(p, at[n], i)
                           /\ Depth(p, at[n], i) = Len(at) - n + 1
  /\ \A m, n \in 1..Len(at) : m < n => at[m] < at[n]
  /\ \A j \in 1..i : StandsIn(p, j, i) => \E n \in 1..Len(at) : at[n] = j
  /\ top = Escape => Depth(p, 1, i) = Len(at)

LEMMA KeepsNothing == \A p, top : Keeps(p, 0, top, <<>>, <<>>)
<1> TAKE p, top
<1>1. Depth(p, 1, 0) = 0
  BY NoneYet DEF Depth
<1>2. <<>> \in Seq(STRING) /\ <<>> \in Seq(1..0) /\ Len(<<>>) = 0
  OBVIOUS
<1> QED
  BY <1>1, <1>2 DEF Keeps

\* A segment that is dropped changes nothing.
LEMMA KeepsDropped ==
  ASSUME NEW p, NEW i \in Nat, NEW top, NEW parts, NEW at,
         Keeps(p, i, top, parts, at), IsDropped(p[i + 1])
  PROVE  Keeps(p, i + 1, top, parts, at)
<1>0. p[i + 1] # ".." /\ ~IsName(p[i + 1])
  BY DEF IsName, IsDropped
<1>1. \A j \in 1..(i + 1) : Depth(p, j, i + 1) = Depth(p, j, i)
  <2> TAKE j \in 1..(i + 1)
  <2>1. j \in Nat /\ j <= i + 1
    OBVIOUS
  <2> QED
    BY <1>0, <2>1, DepthStep
<1>2. at \in Seq(1..i) /\ at \in Seq(1..(i + 1)) /\ \A n \in 1..Len(at) : at[n] \in 1..i
  <2>1. at \in Seq(1..i)
    BY DEF Keeps
  <2>2. 1..i \subseteq 1..(i + 1)
    OBVIOUS
  <2> QED
    BY <2>1, <2>2
<1>3. \A j \in 1..i : StandsIn(p, j, i + 1) <=> StandsIn(p, j, i)
  <2> TAKE j \in 1..i
  <2>1. j \in Nat /\ j <= i /\ j \in 1..(i + 1) /\ i \in j..i
    OBVIOUS
  <2>2. StandsIn(p, j, i + 1) <=> StandsIn(p, j, i) /\ Depth(p, j, i + 1) > 0
    BY <2>1, StandsFurther
  <2>3. StandsIn(p, j, i) => Depth(p, j, i) > 0
    BY <2>1 DEF StandsIn
  <2> QED
    BY <1>1, <2>1, <2>2, <2>3
<1>4. ~StandsIn(p, i + 1, i + 1)
  BY <1>0 DEF StandsIn
<1>5. \A j \in 1..(i + 1) : j \in 1..i \/ j = i + 1
  OBVIOUS
<1>6. 1 \in 1..(i + 1)
  OBVIOUS
<1>7. \A n \in 1..Len(at) : /\ parts[n] = p[at[n]] /\ StandsIn(p, at[n], i + 1)
                            /\ Depth(p, at[n], i + 1) = Len(at) - n + 1
  BY <1>1, <1>2, <1>3, <1>5 DEF Keeps
<1>8. \A j \in 1..(i + 1) : StandsIn(p, j, i + 1) => \E n \in 1..Len(at) : at[n] = j
  BY <1>3, <1>4, <1>5 DEF Keeps
<1>9. top = Escape => Depth(p, 1, i + 1) = Len(at)
  BY <1>1, <1>6 DEF Keeps
<1> QED
  BY <1>2, <1>7, <1>8, <1>9 DEF Keeps

\* A name is kept.
LEMMA KeepsName ==
  ASSUME NEW p, NEW i \in Nat, NEW top, NEW parts, NEW at,
         Keeps(p, i, top, parts, at), p[i + 1] \in STRING, IsName(p[i + 1])
  PROVE  Keeps(p, i + 1, top, Append(parts, p[i + 1]), Append(at, i + 1))
<1> DEFINE more == Append(at, i + 1)
           names == Append(parts, p[i + 1])
<1>0. p[i + 1] # ".."
  BY DEF IsName
<1>1. \A j \in 1..(i + 1) : Depth(p, j, i + 1) = Depth(p, j, i) + 1
  <2> TAKE j \in 1..(i + 1)
  <2>1. j \in Nat /\ j <= i + 1
    OBVIOUS
  <2> QED
    BY <1>0, <2>1, DepthStep
<1>2. /\ at \in Seq(1..i) /\ at \in Seq(1..(i + 1)) /\ i + 1 \in 1..(i + 1)
      /\ \A n \in 1..Len(at) : at[n] \in 1..i
  <2>1. at \in Seq(1..i)
    BY DEF Keeps
  <2>2. 1..i \subseteq 1..(i + 1) /\ i + 1 \in 1..(i + 1)
    OBVIOUS
  <2> QED
    BY <2>1, <2>2
<1>3. /\ more \in Seq(1..(i + 1)) /\ Len(more) = Len(at) + 1
      /\ \A n \in 1..Len(at) : more[n] = at[n]
      /\ more[Len(at) + 1] = i + 1
  BY <1>2, AppendedTo
<1>4. /\ names \in Seq(STRING) /\ Len(names) = Len(parts) + 1
      /\ \A n \in 1..Len(parts) : names[n] = parts[n]
      /\ names[Len(parts) + 1] = p[i + 1]
  <2>1. parts \in Seq(STRING)
    BY DEF Keeps
  <2> QED
    BY <2>1, AppendedTo
<1>5. Len(at) = Len(parts) /\ Len(at) \in Nat
  BY <1>2 DEF Keeps
<1> HIDE DEF more, names
<1>6. \A j \in 1..i : StandsIn(p, j, i + 1) <=> StandsIn(p, j, i)
  <2> TAKE j \in 1..i
  <2>1. j \in Nat /\ j <= i /\ j \in 1..(i + 1) /\ i \in j..i /\ j <= i + 1
    OBVIOUS
  <2>2. StandsIn(p, j, i + 1) <=> StandsIn(p, j, i) /\ Depth(p, j, i + 1) > 0
    BY <2>1, StandsFurther
  <2>3. StandsIn(p, j, i) => Depth(p, j, i) > 0
    BY <2>1 DEF StandsIn
  <2>4. Depth(p, j, i) \in Int
    BY <2>1, DepthStep
  <2> QED
    BY <1>1, <2>1, <2>2, <2>3, <2>4
<1>7. StandsIn(p, i + 1, i + 1) /\ Depth(p, i + 1, i + 1) = 1
  BY StandsFirst
<1>8. \A n \in 1..Len(more) : n \in 1..Len(at) \/ n = Len(at) + 1
  BY <1>3, <1>5
<1>9. \A n \in 1..Len(more) : /\ names[n] = p[more[n]] /\ StandsIn(p, more[n], i + 1)
                              /\ Depth(p, more[n], i + 1) = Len(more) - n + 1
  <2> TAKE n \in 1..Len(more)
  <2>1. CASE n = Len(at) + 1
    BY <1>3, <1>4, <1>5, <1>7, <2>1
  <2>2. CASE n \in 1..Len(at)
    <3>1. more[n] = at[n] /\ names[n] = parts[n] /\ at[n] \in 1..i /\ at[n] \in 1..(i + 1)
      BY <1>2, <1>3, <1>4, <1>5, <2>2
    <3>2. parts[n] = p[at[n]] /\ StandsIn(p, at[n], i) /\ Depth(p, at[n], i) = Len(at) - n + 1
      BY <2>2 DEF Keeps
    <3>3. Depth(p, at[n], i + 1) = Len(more) - n + 1
      BY <1>1, <1>3, <1>5, <3>1, <3>2
    <3> QED
      BY <1>6, <3>1, <3>2, <3>3
  <2> QED
    BY <1>8, <2>1, <2>2
<1>10. \A m, n \in 1..Len(more) : m < n => more[m] < more[n]
  <2> TAKE m, n \in 1..Len(more)
  <2>0. m \in Nat /\ n \in Nat /\ m <= Len(at) + 1
    BY <1>3, <1>5
  <2>1. CASE n \in 1..Len(at)
    <3>1. m < n => m \in 1..Len(at)
      BY <1>5, <2>0, <2>1
    <3>2. \A k, l \in 1..Len(at) : k < l => at[k] < at[l]
      BY DEF Keeps
    <3>3. more[n] = at[n] /\ (m < n => more[m] = at[m])
      BY <1>3, <2>1, <3>1
    <3> QED
      BY <2>1, <3>1, <3>2, <3>3
  <2>2. CASE n = Len(at) + 1
    BY <1>2, <1>3, <1>5, <1>8, <2>2
  <2> QED
    BY <1>8, <2>1, <2>2
<1>11. \A j \in 1..(i + 1) : StandsIn(p, j, i + 1) => \E n \in 1..Len(more) : more[n] = j
  <2> TAKE j \in 1..(i + 1)
  <2>1. CASE j = i + 1
    BY <1>3, <1>5, <2>1
  <2>2. CASE j \in 1..i
    <3>1. StandsIn(p, j, i + 1) => \E n \in 1..Len(at) : at[n] = j
      BY <1>6, <2>2 DEF Keeps
    <3> QED
      BY <1>3, <1>5, <3>1
  <2> QED
    BY <2>1, <2>2
<1>12. top = Escape => Depth(p, 1, i + 1) = Len(more)
  <2>1. 1 \in 1..(i + 1)
    OBVIOUS
  <2> QED
    BY <1>1, <1>3, <2>1 DEF Keeps
<1>13. Len(more) = Len(names)
  BY <1>3, <1>4, <1>5
<1> QED
  BY <1>3, <1>4, <1>9, <1>10, <1>11, <1>12, <1>13 DEF Keeps, more, names

\* Every step of ".." goes up by one.
LEMMA UpStep ==
  ASSUME NEW p, NEW i \in Nat, p[i + 1] = ".."
  PROVE  /\ \A j \in 1..(i + 1) : Depth(p, j, i + 1) = Depth(p, j, i) - 1
         /\ \A j \in 1..(i + 1) : StandsIn(p, j, i + 1) <=>
              j \in 1..i /\ StandsIn(p, j, i) /\ Depth(p, j, i) > 1
<1>1. \A j \in 1..(i + 1) : Depth(p, j, i + 1) = Depth(p, j, i) - 1 /\ Depth(p, j, i) \in Int
  <2> TAKE j \in 1..(i + 1)
  <2>1. j \in Nat /\ j <= i + 1
    OBVIOUS
  <2> QED
    BY <2>1, DepthStep
<1>2. ~IsName(p[i + 1])
  BY DEF IsName
<1>3. ASSUME NEW j \in 1..(i + 1)
      PROVE  StandsIn(p, j, i + 1) <=> j \in 1..i /\ StandsIn(p, j, i) /\ Depth(p, j, i) > 1
  <2>1. CASE j = i + 1
    <3>1. j \notin 1..i
      BY <2>1
    <3>2. ~StandsIn(p, j, i + 1)
      BY <1>2, <2>1 DEF StandsIn
    <3> QED
      BY <3>1, <3>2
  <2>2. CASE j \in 1..i
    <3>1. j \in Nat /\ j <= i
      BY <2>2
    <3>2. StandsIn(p, j, i + 1) <=> StandsIn(p, j, i) /\ Depth(p, j, i + 1) > 0
      BY <3>1, StandsFurther
    <3> QED
      BY <1>1, <2>2, <3>2
  <2> QED
    BY <2>1, <2>2
<1> QED
  BY <1>1, <1>3

\* ".." takes back the last name.
LEMMA KeepsFront ==
  ASSUME NEW p, NEW i \in Nat, NEW top, NEW parts, NEW at,
         Keeps(p, i, top, parts, at), p[i + 1] = "..", parts # <<>>
  PROVE  Keeps(p, i + 1, top, SubSeq(parts, 1, Len(parts) - 1), SubSeq(at, 1, Len(at) - 1))
<1> DEFINE less  == SubSeq(at, 1, Len(at) - 1)
           names == SubSeq(parts, 1, Len(parts) - 1)
<1>1. /\ \A j \in 1..(i + 1) : Depth(p, j, i + 1) = Depth(p, j, i) - 1
      /\ \A j \in 1..(i + 1) : StandsIn(p, j, i + 1) <=>
           j \in 1..i /\ StandsIn(p, j, i) /\ Depth(p, j, i) > 1
  BY UpStep
<1>2. at \in Seq(1..i) /\ parts \in Seq(STRING) /\ Len(at) = Len(parts)
  BY DEF Keeps
<1>3. Len(at) \in Nat \ {0} /\ at # <<>>
  BY <1>2, EmptySeq
<1>4. names \in Seq(STRING) /\ Len(names) = Len(parts) - 1 /\ \A n \in 1..(Len(parts) - 1) : names[n] = parts[n]
  BY <1>2, FrontOf
<1>5. less \in Seq(1..i) /\ Len(less) = Len(at) - 1 /\ \A n \in 1..(Len(at) - 1) : less[n] = at[n]
  BY <1>2, <1>3, FrontOf
<1> HIDE DEF less, names
<1>6. less \in Seq(1..(i + 1)) /\ \A n \in 1..Len(at) : at[n] \in 1..i /\ at[n] \in 1..(i + 1)
  <2>1. 1..i \subseteq 1..(i + 1)
    OBVIOUS
  <2>2. less \in Seq(1..(i + 1))
    BY <1>5, <2>1
  <2>3. \A n \in 1..Len(at) : at[n] \in 1..i
    BY <1>2
  <2> QED
    BY <2>1, <2>2, <2>3
<1>7. \A n \in 1..Len(less) : n \in 1..Len(at) /\ n \in 1..Len(at) /\ n < Len(at)
  BY <1>3, <1>5
<1>8. \A n \in 1..Len(at) : /\ parts[n] = p[at[n]] /\ StandsIn(p, at[n], i)
                            /\ Depth(p, at[n], i) = Len(at) - n + 1
  BY DEF Keeps
<1>9. \A n \in 1..Len(less) : /\ names[n] = p[less[n]] /\ StandsIn(p, less[n], i + 1)
                              /\ Depth(p, less[n], i + 1) = Len(less) - n + 1
  <2> TAKE n \in 1..Len(less)
  <2>1. n \in 1..Len(at) /\ n < Len(at) /\ less[n] = at[n] /\ names[n] = parts[n]
    BY <1>2, <1>4, <1>5, <1>7
  <2>2. at[n] \in 1..i /\ at[n] \in 1..(i + 1)
    BY <1>6, <2>1
  <2>3. parts[n] = p[at[n]] /\ StandsIn(p, at[n], i) /\ Depth(p, at[n], i) = Len(at) - n + 1
    BY <1>8, <2>1
  <2>4. Depth(p, at[n], i) > 1
    BY <1>3, <2>1, <2>3
  <2>5. StandsIn(p, at[n], i + 1) /\ Depth(p, at[n], i + 1) = Depth(p, at[n], i) - 1
    BY <1>1, <2>2, <2>3, <2>4
  <2>6. Depth(p, at[n], i + 1) = Len(less) - n + 1
    BY <1>3, <1>5, <2>3, <2>5
  <2> QED
    BY <2>1, <2>3, <2>5, <2>6
<1>10. \A m, n \in 1..Len(less) : m < n => less[m] < less[n]
  <2>1. \A k, l \in 1..Len(at) : k < l => at[k] < at[l]
    BY DEF Keeps
  <2> TAKE m, n \in 1..Len(less)
  <2>2. /\ m \in 1..Len(at) /\ n \in 1..Len(at) /\ less[m] = at[m] /\ less[n] = at[n]
    BY <1>3, <1>5, <1>7
  <2> QED
    BY <2>1, <2>2
<1>11. \A j \in 1..(i + 1) : StandsIn(p, j, i + 1) => \E n \in 1..Len(less) : less[n] = j
  <2> TAKE j \in 1..(i + 1)
  <2> HAVE StandsIn(p, j, i + 1)
  <2>1. j \in 1..i /\ StandsIn(p, j, i) /\ Depth(p, j, i) > 1
    BY <1>1
  <2>2. PICK n \in 1..Len(at) : at[n] = j
    BY <2>1 DEF Keeps
  <2>3. Depth(p, j, i) = Len(at) - n + 1
    BY <1>8, <2>2
  <2>4. n \in 1..(Len(at) - 1)
    BY <1>3, <2>1, <2>2, <2>3
  <2>5. n \in 1..Len(less) /\ less[n] = j
    BY <1>5, <2>2, <2>4
  <2> QED
    BY <2>5
<1>12. top = Escape => Depth(p, 1, i + 1) = Len(less)
  <2>1. 1 \in 1..(i + 1)
    OBVIOUS
  <2>2. top = Escape => Depth(p, 1, i) = Len(at)
    BY DEF Keeps
  <2> QED
    BY <1>1, <1>3, <1>5, <2>1, <2>2
<1>13. Len(less) = Len(names)
  BY <1>2, <1>4, <1>5
<1> QED
  BY <1>4, <1>6, <1>9, <1>10, <1>11, <1>12, <1>13 DEF Keeps, less, names

\* Where nothing is left to take back, ".." takes nothing at the root of the file
\* system, and leaves the repository.
LEMMA KeepsAtTop ==
  ASSUME NEW p, NEW i \in Nat, NEW top, NEW at,
         Keeps(p, i, top, <<>>, at), p[i + 1] = ".."
  PROVE  /\ top # Escape => Keeps(p, i + 1, top, <<>>, <<>>)
         /\ top = Escape => Ups(p, 1, i + 1) > Downs(p, 1, i + 1)
<1>1. /\ \A j \in 1..(i + 1) : Depth(p, j, i + 1) = Depth(p, j, i) - 1
      /\ \A j \in 1..(i + 1) : StandsIn(p, j, i + 1) <=>
           j \in 1..i /\ StandsIn(p, j, i) /\ Depth(p, j, i) > 1
  BY UpStep
<1>2. Len(at) = 0 /\ <<>> \in Seq(STRING) /\ <<>> \in Seq(1..(i + 1)) /\ Len(<<>>) = 0
  BY DEF Keeps
<1>3. \A j \in 1..i : ~StandsIn(p, j, i)
  BY <1>2 DEF Keeps
<1>4. \A j \in 1..(i + 1) : ~StandsIn(p, j, i + 1)
  BY <1>1, <1>3
<1>5. top # Escape => Keeps(p, i + 1, top, <<>>, <<>>)
  BY <1>2, <1>4 DEF Keeps
<1>6. top = Escape => Ups(p, 1, i + 1) > Downs(p, 1, i + 1)
  <2>1. 1 \in 1..(i + 1) /\ 1 \in Nat /\ i + 1 \in Nat /\ 1 <= (i + 1) + 1
    OBVIOUS
  <2>2. top = Escape => Depth(p, 1, i) = 0
    BY <1>2 DEF Keeps
  <2>3. top = Escape => Depth(p, 1, i + 1) = 0 - 1
    BY <1>1, <2>1, <2>2
  <2>4. Ups(p, 1, i + 1) \in Nat /\ Downs(p, 1, i + 1) \in Nat
    BY <2>1, OneMore
  <2> QED
    BY <2>3, <2>4 DEF Depth
<1> QED
  BY <1>5, <1>6

\* The parts that are left name the segments that stand; and it takes a ".." above the
\* repository to escape.
LEMMA CollapsedKeeps ==
  ASSUME NEW p \in Seq(STRING), NEW top \in Tops
  PROVE  \/ \E parts, at : Collapsed(p, top) = Path(parts) /\ Keeps(p, Len(p), top, parts, at)
         \/ Collapsed(p, top) = Escape /\ top = Escape /\ Leaves(p)
<1>1. PICK g : Collapsing(g, p, top, Len(p)) /\ Collapsed(p, top) = g[Len(p)]
  BY CollapsingEnds
<1> DEFINE S == {i \in 0..Len(p) :
                   \/ \E parts, at : g[i] = Path(parts) /\ Keeps(p, i, top, parts, at)
                   \/ g[i] = Escape /\ top = Escape /\ Leaves(p)}
<1>2. Len(p) \in Nat /\ DOMAIN p = 1..Len(p)
  OBVIOUS
<1>3. \A i \in 0..Len(p) : g[i] = IF i = 0 THEN Path(<<>>) ELSE Taken(g[i - 1], p[i], top)
  BY <1>1 DEF Collapsing
<1>4. 0 \in S
  <2>1. 0 \in 0..Len(p)
    BY <1>2
  <2>2. g[0] = Path(<<>>)
    BY <1>3, <2>1
  <2>3. Keeps(p, 0, top, <<>>, <<>>)
    BY KeepsNothing
  <2> QED
    BY <2>1, <2>2, <2>3
<1>5. ASSUME NEW i \in 0..(Len(p) - 1), i \in S
      PROVE  i + 1 \in S
  <2>1. i \in Nat /\ i + 1 \in 0..Len(p) /\ i + 1 # 0 /\ (i + 1) - 1 = i /\ i + 1 \in 1..Len(p)
    BY <1>2
  <2>2. g[i + 1] = Taken(g[i], p[i + 1], top)
    BY <1>3, <2>1
  <2>3. p[i + 1] \in STRING
    BY <1>2, <2>1
  <2>4. CASE g[i] = Escape /\ top = Escape /\ Leaves(p)
    <3>1. g[i + 1] = Escape
      BY <2>2, <2>4, EscapeStays
    <3> QED
      BY <2>1, <2>4, <3>1
  <2>5. CASE \E parts, at : g[i] = Path(parts) /\ Keeps(p, i, top, parts, at)
    <3>1. PICK parts, at : g[i] = Path(parts) /\ Keeps(p, i, top, parts, at)
      BY <2>5
    <3>2. parts \in Seq(STRING)
      BY <3>1 DEF Keeps
    <3>3. SUFFICES \/ \E q, r : g[i + 1] = Path(q) /\ Keeps(p, i + 1, top, q, r)
                   \/ g[i + 1] = Escape /\ top = Escape /\ Leaves(p)
      BY <2>1
    <3>8. /\ IsDropped(p[i + 1]) => Taken(Path(parts), p[i + 1], top) = Path(parts)
          /\ IsName(p[i + 1]) => Taken(Path(parts), p[i + 1], top) = Path(Append(parts, p[i + 1]))
          /\ p[i + 1] = ".." /\ parts = <<>> => Taken(Path(parts), p[i + 1], top) = top
          /\ p[i + 1] = ".." /\ parts # <<>> =>
               Taken(Path(parts), p[i + 1], top) = Path(SubSeq(parts, 1, Len(parts) - 1))
          /\ IsDropped(p[i + 1]) \/ IsName(p[i + 1]) \/ p[i + 1] = ".."
      BY <2>3, <3>2, TakenCases
    <3>4. CASE IsDropped(p[i + 1])
      <4>1. g[i + 1] = Path(parts)
        BY <2>2, <3>1, <3>8, <3>4
      <4>2. Keeps(p, i + 1, top, parts, at)
        BY <2>1, <3>1, <3>4, KeepsDropped
      <4> QED
        BY <4>1, <4>2
    <3>5. CASE IsName(p[i + 1])
      <4>1. g[i + 1] = Path(Append(parts, p[i + 1]))
        BY <2>2, <3>1, <3>8, <3>5
      <4>2. Keeps(p, i + 1, top, Append(parts, p[i + 1]), Append(at, i + 1))
        BY <2>1, <2>3, <3>1, <3>5, KeepsName
      <4> QED
        BY <4>1, <4>2
    <3>6. CASE p[i + 1] = ".." /\ parts # <<>>
      <4>1. g[i + 1] = Path(SubSeq(parts, 1, Len(parts) - 1))
        BY <2>2, <3>1, <3>8, <3>6
      <4>2. Keeps(p, i + 1, top, SubSeq(parts, 1, Len(parts) - 1), SubSeq(at, 1, Len(at) - 1))
        BY <2>1, <3>1, <3>6, KeepsFront
      <4> QED
        BY <4>1, <4>2
    <3>7. CASE p[i + 1] = ".." /\ parts = <<>>
      <4>1. g[i + 1] = top
        BY <2>2, <3>1, <3>8, <3>7
      <4>2. Keeps(p, i, top, <<>>, at)
        BY <3>1, <3>7
      <4>3. /\ top # Escape => Keeps(p, i + 1, top, <<>>, <<>>)
            /\ top = Escape => Ups(p, 1, i + 1) > Downs(p, 1, i + 1)
        BY <2>1, <3>7, <4>2, KeepsAtTop
      <4>4. CASE top = Escape
        <5>1. Leaves(p)
          BY <1>2, <2>1, <4>3, <4>4 DEF Leaves
        <5> QED
          BY <4>1, <4>4, <5>1
      <4>5. CASE top # Escape
        <5>1. top = Path(<<>>)
          BY <4>5 DEF Tops
        <5> QED
          BY <4>1, <4>3, <4>5, <5>1
      <4> QED
        BY <4>4, <4>5
    <3> QED
      BY <3>4, <3>5, <3>6, <3>7, <3>8
  <2> QED
    BY <1>5, <2>4, <2>5
<1>6. \A i \in 0..Len(p) : i \in S
  <2> HIDE DEF S
  <2> QED
    BY <1>2, <1>4, <1>5, UpTo
<1>7. Len(p) \in S
  BY <1>2, <1>6
<1> QED
  BY <1>1, <1>7

\* A sequence without repetitions lists a set, and one in order numbers it.
LEMMA Listed ==
  ASSUME NEW s, NEW l \in Nat, NEW S,
         \A n \in 1..l : s[n] \in S, \A x \in S : \E n \in 1..l : s[n] = x,
         \A m, n \in 1..l : m # n => s[m] # s[n]
  PROVE  Cardinality(S) = l
<1> DEFINE f == [n \in 1..l |-> s[n]]
<1>1. f \in [1..l -> S] /\ DOMAIN f = 1..l /\ \A n \in 1..l : f[n] = s[n]
  OBVIOUS
<1> HIDE DEF f
<1>4. \A m, n \in DOMAIN f : f[m] = f[n] => m = n
  BY <1>1
<1>5. f \in Bijection(1..l, S)
  BY <1>1, <1>4 DEF Bijection, Injection, Surjection, IsInjective
<1>2. ExistsBijection(1..l, S)
  BY <1>5 DEF ExistsBijection
<1>3. IsFiniteSet(1..l) /\ Cardinality(1..l) = l
  BY FS_Interval
<1> QED
  BY <1>2, <1>3, FS_Bijection

\* What is kept of the whole path is what the path denotes.
LEMMA KeepsDenotes ==
  ASSUME NEW p \in Seq(STRING), NEW top, NEW parts, NEW at, Keeps(p, Len(p), top, parts, at)
  PROVE  /\ parts \in Seq(STRING) /\ \A n \in DOMAIN parts : IsName(parts[n])
         /\ Denotes(p, parts)
<1>1. /\ parts \in Seq(STRING) /\ at \in Seq(1..Len(p)) /\ Len(at) = Len(parts)
      /\ \A n \in 1..Len(at) : parts[n] = p[at[n]] /\ StandsIn(p, at[n], Len(p))
      /\ \A m, n \in 1..Len(at) : m < n => at[m] < at[n]
      /\ \A j \in 1..Len(p) : StandsIn(p, j, Len(p)) => \E n \in 1..Len(at) : at[n] = j
  BY DEF Keeps
<1>2. Len(p) \in Nat /\ DOMAIN p = 1..Len(p) /\ Len(at) \in Nat
  BY <1>1
<1>3. \A n \in DOMAIN parts : IsName(parts[n])
  BY <1>1 DEF StandsIn
<1>4. \A j \in 1..Len(p) : Stands(p, j) <=> StandsIn(p, j, Len(p))
  <2> TAKE j \in 1..Len(p)
  <2>1. \A k \in j..Len(p) : Depth(p, j, k) > 0 <=> Downs(p, j, k) > Ups(p, j, k)
    <3> TAKE k \in j..Len(p)
    <3>1. j \in Nat /\ k \in Nat /\ j <= k + 1
      BY <1>2
    <3>2. Ups(p, j, k) \in Nat /\ Downs(p, j, k) \in Nat
      BY <3>1, OneMore
    <3> QED
      BY <3>2 DEF Depth
  <2> QED
    BY <2>1 DEF Stands, StandsIn
<1> DEFINE number(i) == Cardinality({k \in Standing(p) : k <= i})
<1>5. Standing(p) = {j \in 1..Len(p) : StandsIn(p, j, Len(p))}
  BY <1>2, <1>4 DEF Standing
<1>6. \A n \in 1..Len(at) : at[n] \in 1..Len(p) /\ at[n] \in Standing(p)
  BY <1>1, <1>5
<1>7. \A x \in Standing(p) : \E n \in 1..Len(at) : at[n] = x
  BY <1>1, <1>5
<1>8. \A m, n \in 1..Len(at) : m # n => at[m] # at[n]
  BY <1>1, <1>2, <1>6
<1>9. Cardinality(Standing(p)) = Len(at)
  BY <1>2, <1>6, <1>7, <1>8, Listed
<1>10. ASSUME NEW n \in 1..Len(at)
       PROVE  number(at[n]) = n
  <2> DEFINE T == {k \in Standing(p) : k <= at[n]}
  <2>1. n \in Nat /\ \A m \in 1..n : m \in 1..Len(at)
    BY <1>2
  <2>2. \A m \in 1..n : at[m] \in T
    BY <1>1, <1>2, <1>6, <2>1
  <2>3. ASSUME NEW x \in T
        PROVE  \E m \in 1..n : at[m] = x
    <3>1. PICK m \in 1..Len(at) : at[m] = x
      BY <1>7
    <3>2. at[m] <= at[n]
      BY <3>1
    <3>3. m <= n
      BY <1>1, <1>2, <1>6, <3>2
    <3> QED
      BY <2>1, <3>1, <3>3
  <2>4. \A m, k \in 1..n : m # k => at[m] # at[k]
    BY <1>8, <2>1
  <2> HIDE DEF T
  <2>5. Cardinality(T) = n
    BY <2>1, <2>2, <2>3, <2>4, Listed
  <2> QED
    BY <2>5 DEF T
<1>11. \A i \in Standing(p) : parts[number(i)] = p[i]
  <2> HIDE DEF number
  <2> QED
    BY <1>1, <1>7, <1>10
<1> QED
  BY <1>1, <1>3, <1>9, <1>11 DEF Denotes

\* The first parts of a sequence, one by one.
LEMMA PrefixGrows ==
  ASSUME NEW S, NEW a \in Seq(S), NEW i \in 0..(Len(a) - 1)
  PROVE  /\ SubSeq(a, 1, i) \in Seq(S) /\ SubSeq(a, 1, i + 1) = Append(SubSeq(a, 1, i), a[i + 1])
         /\ a[i + 1] \in S
OBVIOUS

\* What is added to or taken from the end leaves what is in front.
LEMMA Joined ==
  \A a, q \in Seq(STRING), x \in STRING :
    /\ Append(a \o q, x) = a \o Append(q, x) /\ a \o q \in Seq(STRING)
    /\ q # <<>> => /\ a \o q # <<>>
                   /\ SubSeq(a \o q, 1, Len(a \o q) - 1) = a \o SubSeq(q, 1, Len(q) - 1)
<1> DEFINE S == STRING
<1> HIDE DEF S
<1>1. \A a, q \in Seq(S), x \in S :
        /\ Append(a \o q, x) = a \o Append(q, x) /\ a \o q \in Seq(S)
        /\ q # <<>> => /\ a \o q # <<>>
                       /\ SubSeq(a \o q, 1, Len(a \o q) - 1) = a \o SubSeq(q, 1, Len(q) - 1)
  OBVIOUS
<1> QED
  BY <1>1, Zenon DEF S

\* Names in front of a path that does not escape stay there.
LEMMA AfterNames ==
  ASSUME NEW a \in Seq(STRING), \A i \in DOMAIN a : IsName(a[i]), NEW r \in Seq(STRING),
         NEW top \in Tops, NEW q, Collapsed(r, Escape) = Path(q)
  PROVE  q \in Seq(STRING) /\ Collapsed(a \o r, top) = Path(a \o q)
<1> DEFINE p == a \o r
<1>0. /\ p \in Seq(STRING) /\ Len(a) \in Nat /\ Len(r) \in Nat /\ Len(p) = Len(a) + Len(r)
      /\ \A i \in 1..Len(a) : p[i] = a[i]
      /\ \A i \in 1..Len(r) : p[Len(a) + i] = r[i] /\ r[i] \in STRING
      /\ DOMAIN a = 1..Len(a)
  OBVIOUS
<1> HIDE DEF p
<1>1. PICK g : Collapsing(g, p, top, Len(p)) /\ Collapsed(p, top) = g[Len(p)]
  BY <1>0, CollapsingEnds
<1>2. PICK h : Collapsing(h, r, Escape, Len(r)) /\ Collapsed(r, Escape) = h[Len(r)]
  BY CollapsingEnds
<1>3. \A i \in 0..Len(p) : g[i] = IF i = 0 THEN Path(<<>>) ELSE Taken(g[i - 1], p[i], top)
  BY <1>1 DEF Collapsing
<1>4. \A i \in 0..Len(r) : h[i] = IF i = 0 THEN Path(<<>>) ELSE Taken(h[i - 1], r[i], Escape)
  BY <1>2 DEF Collapsing
<1> DEFINE A == {i \in 0..Len(a) : g[i] = Path(SubSeq(a, 1, i))}
<1>5. 0 \in A
  <2>1. 0 \in 0..Len(p) /\ 0 \in 0..Len(a)
    BY <1>0
  <2>2. SubSeq(a, 1, 0) = <<>>
    OBVIOUS
  <2> QED
    BY <1>3, <2>1, <2>2
<1>6. ASSUME NEW i \in 0..(Len(a) - 1), i \in A
      PROVE  i + 1 \in A
  <2>1. i + 1 \in 0..Len(a) /\ i + 1 \in 0..Len(p) /\ i + 1 # 0 /\ (i + 1) - 1 = i /\ i + 1 \in 1..Len(a)
    BY <1>0
  <2>2. g[i + 1] = Taken(g[i], p[i + 1], top)
    BY <1>3, <2>1
  <2>3. p[i + 1] = a[i + 1] /\ IsName(a[i + 1])
    BY <1>0, <2>1
  <2>4. /\ SubSeq(a, 1, i) \in Seq(STRING) /\ a[i + 1] \in STRING
        /\ SubSeq(a, 1, i + 1) = Append(SubSeq(a, 1, i), a[i + 1])
    BY PrefixGrows
  <2>5. g[i] = Path(SubSeq(a, 1, i))
    BY <1>6
  <2>6. Taken(Path(SubSeq(a, 1, i)), a[i + 1], top) = Path(Append(SubSeq(a, 1, i), a[i + 1]))
    <3> DEFINE t == SubSeq(a, 1, i)
               x == a[i + 1]
    <3>1. t \in Seq(STRING) /\ x \in STRING /\ IsName(x)
      BY <2>3, <2>4
    <3> HIDE DEF t, x
    <3>2. Taken(Path(t), x, top) = Path(Append(t, x))
      BY <3>1, TakenCases
    <3> QED
      BY <3>2 DEF t, x
  <2> QED
    BY <2>1, <2>2, <2>3, <2>4, <2>5, <2>6
<1>7. \A i \in 0..Len(a) : i \in A
  <2> HIDE DEF A
  <2> QED
    BY <1>0, <1>5, <1>6, UpTo
<1>8. g[Len(a)] = Path(a)
  <2>1. Len(a) \in 0..Len(a)
    BY <1>0
  <2>2. SubSeq(a, 1, Len(a)) = a
    OBVIOUS
  <2> QED
    BY <1>7, <2>1, <2>2
<1> HIDE DEF A
<1> DEFINE R == {i \in 0..Len(r) : h[i] = Escape \/ \E s \in Seq(STRING) :
                                     h[i] = Path(s) /\ g[Len(a) + i] = Path(a \o s)}
<1>9. 0 \in R
  <2>1. 0 \in 0..Len(r) /\ Len(a) + 0 = Len(a)
    BY <1>0
  <2>2. h[0] = Path(<<>>) /\ a \o <<>> = a /\ <<>> \in Seq(STRING)
    BY <1>4, <2>1
  <2>3. g[Len(a) + 0] = Path(a \o <<>>)
    BY <1>8, <2>1, <2>2
  <2> QED
    BY <2>1, <2>2, <2>3
<1>10. ASSUME NEW i \in 0..(Len(r) - 1), i \in R
       PROVE  i + 1 \in R
  <2>1. /\ i + 1 \in 0..Len(r) /\ i + 1 # 0 /\ (i + 1) - 1 = i /\ i + 1 \in 1..Len(r)
        /\ Len(a) + (i + 1) \in 0..Len(p) /\ Len(a) + (i + 1) # 0
        /\ (Len(a) + (i + 1)) - 1 = Len(a) + i
    BY <1>0
  <2>2. h[i + 1] = Taken(h[i], r[i + 1], Escape)
    BY <1>4, <2>1
  <2>3. g[Len(a) + (i + 1)] = Taken(g[Len(a) + i], p[Len(a) + (i + 1)], top)
    BY <1>3, <2>1
  <2>4. p[Len(a) + (i + 1)] = r[i + 1] /\ r[i + 1] \in STRING
    BY <1>0, <2>1
  <2>5. CASE h[i] = Escape
    <3>1. h[i + 1] = Escape
      BY <2>2, <2>5, EscapeStays
    <3> QED
      BY <2>1, <3>1
  <2>7. a \in Seq(STRING)
    OBVIOUS
  <2>6. ASSUME NEW s \in Seq(STRING), h[i] = Path(s), g[Len(a) + i] = Path(a \o s)
        PROVE  i + 1 \in R
    <3>1. SUFFICES h[i + 1] = Escape \/ \E t \in Seq(STRING) :
                     h[i + 1] = Path(t) /\ g[Len(a) + (i + 1)] = Path(a \o t)
      BY <2>1
    <3> DEFINE x == r[i + 1]
               c == Taken(Path(s), x, Escape)
               d == Taken(Path(a \o s), x, top)
    <3>2. h[i + 1] = c /\ g[Len(a) + (i + 1)] = d
      BY <2>2, <2>3, <2>4, <2>6
    <3>3. x \in STRING
      BY <2>4
    <3>4. /\ Append(a \o s, x) = a \o Append(s, x) /\ a \o s \in Seq(STRING)
          /\ s # <<>> => /\ a \o s # <<>>
                         /\ SubSeq(a \o s, 1, Len(a \o s) - 1) = a \o SubSeq(s, 1, Len(s) - 1)
      <4> HIDE DEF x
      <4> QED
        BY <2>7, <3>3, Joined, Zenon
    <3>5. Append(s, x) \in Seq(STRING) /\ (s # <<>> => SubSeq(s, 1, Len(s) - 1) \in Seq(STRING))
      <4> HIDE DEF x
      <4> QED
        BY <3>3, AppendedTo, FrontOf
    <3>6. /\ IsDropped(x) => c = Path(s)
          /\ IsName(x) => c = Path(Append(s, x))
          /\ x = ".." /\ s = <<>> => c = Escape
          /\ x = ".." /\ s # <<>> => c = Path(SubSeq(s, 1, Len(s) - 1))
          /\ IsDropped(x) \/ IsName(x) \/ x = ".."
      <4> HIDE DEF x
      <4> QED
        BY <3>3, TakenCases
    <3>7. /\ IsDropped(x) => d = Path(a \o s)
          /\ IsName(x) => d = Path(Append(a \o s, x))
          /\ x = ".." /\ a \o s # <<>> => d = Path(SubSeq(a \o s, 1, Len(a \o s) - 1))
      <4> DEFINE t == a \o s
      <4>1. t \in Seq(STRING)
        BY <3>4
      <4> HIDE DEF x, t
      <4>2. /\ IsDropped(x) => Taken(Path(t), x, top) = Path(t)
            /\ IsName(x) => Taken(Path(t), x, top) = Path(Append(t, x))
            /\ x = ".." /\ t # <<>> => Taken(Path(t), x, top) = Path(SubSeq(t, 1, Len(t) - 1))
        BY <3>3, <4>1, TakenCases
      <4> QED
        BY <4>2 DEF t
    <3> HIDE DEF x, c, d
    <3>8. CASE IsDropped(x)
      BY <3>2, <3>6, <3>7, <3>8
    <3>9. CASE IsName(x)
      BY <3>2, <3>4, <3>5, <3>6, <3>7, <3>9
    <3>10. CASE x = ".." /\ s = <<>>
      BY <3>2, <3>6, <3>10
    <3>11. CASE x = ".." /\ s # <<>>
      BY <3>2, <3>4, <3>5, <3>6, <3>7, <3>11
    <3> QED
      BY <3>6, <3>8, <3>9, <3>10, <3>11
  <2> QED
    BY <1>10, <2>5, <2>6
<1>11. \A i \in 0..Len(r) : i \in R
  <2> HIDE DEF R
  <2> QED
    BY <1>0, <1>9, <1>10, UpTo
<1>12. Len(r) \in R
  BY <1>0, <1>11
<1>13. h[Len(r)] = Path(q) /\ Path(q) # Escape
  BY <1>2 DEF Path, Escape
<1>14. PICK s \in Seq(STRING) : h[Len(r)] = Path(s) /\ g[Len(a) + Len(r)] = Path(a \o s)
  <2>1. h[Len(r)] = Escape \/ \E s \in Seq(STRING) : h[Len(r)] = Path(s) /\ g[Len(a) + Len(r)] = Path(a \o s)
    BY <1>12
  <2> QED
    BY <1>13, <2>1
<1>15. s = q
  <2>1. \A t : Path(t).parts = t
    BY DEF Path
  <2>2. Path(s).parts = Path(q).parts
    BY <1>13, <1>14
  <2>3. Path(s).parts = s
    BY <2>1
  <2>4. Path(q).parts = q
    BY <2>1
  <2> QED
    BY <2>2, <2>3, <2>4
<1> QED
  BY <1>0, <1>1, <1>14, <1>15 DEF p

LEMMA PathFields ==
  /\ \A s : Path(s).code = "" /\ Path(s).parts = s /\ Path(s) # Escape
  /\ Escape.code = "SPEC_PATH_ESCAPE" /\ Path(<<>>) \in Tops /\ Escape \in Tops
BY DEF Path, Escape, Tops

\* What is left of a path: names, and the ones that it denotes; or an escape.
LEMMA CollapsedDenotes ==
  ASSUME NEW p \in Seq(STRING), NEW top \in Tops
  PROVE  \/ \E q \in Seq(STRING) : /\ Collapsed(p, top) = Path(q) /\ Denotes(p, q)
                                   /\ \A n \in DOMAIN q : IsName(q[n])
         \/ Collapsed(p, top) = Escape /\ top = Escape /\ Leaves(p)
<1>1. CASE Collapsed(p, top) = Escape /\ top = Escape /\ Leaves(p)
  BY <1>1
<1>2. CASE \E parts, at : Collapsed(p, top) = Path(parts) /\ Keeps(p, Len(p), top, parts, at)
  <2>1. PICK parts, at : Collapsed(p, top) = Path(parts) /\ Keeps(p, Len(p), top, parts, at)
    BY <1>2
  <2>2. /\ parts \in Seq(STRING) /\ \A n \in DOMAIN parts : IsName(parts[n])
        /\ Denotes(p, parts)
    BY <2>1, KeepsDenotes
  <2> QED
    BY <2>1, <2>2
<1> QED
  BY <1>1, <1>2, CollapsedKeeps

LEMMA CutInTwo ==
  ASSUME NEW S, NEW f \in Seq(S), NEW n \in Nat, n <= Len(f)
  PROVE  f = SubSeq(f, 1, n) \o SubSeq(f, n + 1, Len(f))
<1> DEFINE a == SubSeq(f, 1, n)
           b == SubSeq(f, n + 1, Len(f))
<1>1. a \in Seq(S) /\ Len(a) = n /\ \A i \in 1..n : a[i] = f[i]
  OBVIOUS
<1>2. b \in Seq(S) /\ Len(b) = Len(f) - n /\ \A i \in 1..(Len(f) - n) : b[i] = f[n + i]
  OBVIOUS
<1>0. Len(f) \in Nat
  OBVIOUS
<1> HIDE DEF a, b
<1>3. a \o b \in Seq(S) /\ Len(a \o b) = Len(f)
  BY <1>0, <1>1, <1>2
<1>4. ASSUME NEW i \in 1..Len(f)
      PROVE  (a \o b)[i] = f[i]
  <2>1. CASE i \in 1..n
    BY <1>1, <1>2, <2>1
  <2>2. CASE i \in (n + 1)..Len(f)
    <3>1. i - n \in 1..(Len(f) - n) /\ n + (i - n) = i
      BY <1>0, <2>2
    <3>2. b[i - n] = f[i]
      BY <1>2, <3>1
    <3>3. (a \o b)[i] = b[i - n]
      BY <1>0, <1>1, <1>2, <2>2
    <3> QED
      BY <3>2, <3>3
  <2>3. i \in 1..n \/ i \in (n + 1)..Len(f)
    BY <1>0
  <2> QED
    BY <2>1, <2>2, <2>3, Zenon
<1>5. a \o b = f
  BY <1>3, <1>4, SeqEqual
<1> QED
  BY <1>5 DEF a, b

\* What stands after the root is the rest of the path.
LEMMA AfterRoot ==
  ASSUME NEW f \in Seq(STRING), IsPrefix(Root, f)
  PROVE  /\ SubSeq(f, Len(Root) + 1, Len(f)) \in Seq(STRING)
         /\ f = Root \o SubSeq(f, Len(Root) + 1, Len(f))
<1> DEFINE S == STRING
<1>1. Root \in Seq(S)
  BY PathsAssumption
<1>2. f \in Seq(S)
  OBVIOUS
<1> HIDE DEF S
<1>3. Len(Root) \in Nat /\ Len(Root) <= Len(f) /\ SubSeq(f, 1, Len(Root)) = Root
  <2>1. Len(Root) \in Nat
    BY <1>1
  <2>2. Len(Root) <= Len(f) /\ SubSeq(f, 1, Len(Root)) = Root
    BY Zenon DEF IsPrefix
  <2> QED
    BY <2>1, <2>2
<1>4. SubSeq(f, Len(Root) + 1, Len(f)) \in Seq(S)
  BY <1>2, <1>3
<1>5. f = SubSeq(f, 1, Len(Root)) \o SubSeq(f, Len(Root) + 1, Len(f))
  BY <1>2, <1>3, CutInTwo
<1> QED
  BY <1>3, <1>4, <1>5 DEF S

\* Of the names in front of a path, what it denotes is taken as it stands.
LEMMA DenotesAfter ==
  ASSUME NEW a \in Seq(STRING), \A i \in DOMAIN a : IsName(a[i]), NEW r \in Seq(STRING), NEW q,
         Collapsed(r, Escape) = Path(q)
  PROVE  Collapsed(a \o r, Path(<<>>)) = Path(a \o q) /\ Denotes(a \o r, a \o q)
<1>1. Path(<<>>) \in Tops /\ Path(<<>>) # Escape
  BY PathFields
<1>2. Collapsed(a \o r, Path(<<>>)) = Path(a \o q)
  BY <1>1, AfterNames
<1>3. a \o r \in Seq(STRING)
  OBVIOUS
<1>4. PICK s \in Seq(STRING) : Collapsed(a \o r, Path(<<>>)) = Path(s) /\ Denotes(a \o r, s)
  <2> DEFINE p == a \o r
  <2>1. p \in Seq(STRING)
    BY <1>3
  <2> HIDE DEF p
  <2>2. \E s \in Seq(STRING) : Collapsed(p, Path(<<>>)) = Path(s) /\ Denotes(p, s)
    BY <1>1, <2>1, CollapsedDenotes
  <2> QED
    BY <2>2 DEF p
<1>5. s = a \o q
  <2> DEFINE t == a \o q
  <2>1. Path(t) = Path(s)
    BY <1>2, <1>4
  <2> HIDE DEF t
  <2>2. Path(t).parts = t /\ Path(s).parts = s
    BY PathFields
  <2>3. s = t
    BY <2>1, <2>2
  <2> QED
    BY <2>3 DEF t
<1> QED
  BY <1>2, <1>4, <1>5

\* A list of names is what it denotes, in front of nothing.
LEMMA NamesStay ==
  ASSUME NEW a \in Seq(STRING), \A i \in DOMAIN a : IsName(a[i])
  PROVE  Collapsed(a, Escape) = Path(a)
<1>0. <<>> \in Seq(STRING)
  OBVIOUS
<1>1. Escape \in Tops
  BY PathFields
<1>2. Collapsed(<<>>, Escape) = Path(<<>>)
  <2>1. Len(<<>>) = 0 /\ 0 \in 0..0
    OBVIOUS
  <2>2. PICK g : Collapsing(g, <<>>, Escape, Len(<<>>)) /\ Collapsed(<<>>, Escape) = g[Len(<<>>)]
    BY <1>0, CollapsingEnds
  <2>3. g[0] = Path(<<>>)
    BY <2>1, <2>2 DEF Collapsing
  <2> QED
    BY <2>1, <2>2, <2>3
<1>3. Collapsed(a \o <<>>, Escape) = Path(a \o <<>>)
  BY <1>0, <1>1, <1>2, AfterNames
<1>4. a \o <<>> = a
  OBVIOUS
<1> QED
  BY <1>3, <1>4

\* The branches of canonicalize_spec_path, for a relative path that collapses to q.
LEMMA Branches ==
  ASSUME NEW path, NEW exists, NEW r, NEW q,
         repo_relative_spec_path(path, exists) = Path(r), Collapsed(r, Escape) = Path(q)
  PROVE  LET to == canonicalize_spec_path(path, exists)
         IN  /\ to.code # "SPEC_PATH_ESCAPE"
             /\ to.code = "" => to = Path(q) /\ q # <<>> /\ UnderDirectory(q)
<1> DEFINE relative  == repo_relative_spec_path(path, exists)
           canonical == collapse_path_segments(relative.parts)
<1>1. relative.code = "" /\ relative.parts = r
  BY PathFields
<1>2. canonical = Path(q) /\ canonical.code = "" /\ canonical.parts = q
  BY <1>1, PathFields DEF collapse_path_segments
<1> DEFINE to == IF q = <<>> THEN [Escape EXCEPT !.code = "SPEC_PATH_INVALID"]
                 ELSE IF UnderDirectory(q) THEN Path(q)
                 ELSE [Escape EXCEPT !.code = "SPEC_PATH_OUT_OF_DIR"]
<1>3. canonicalize_spec_path(path, exists) = to
  <2> HIDE DEF relative, canonical
  <2>1. canonicalize_spec_path(path, exists) =
          IF relative.code # "" THEN relative
          ELSE IF canonical.code # "" THEN canonical
          ELSE IF canonical.parts = <<>> THEN [Escape EXCEPT !.code = "SPEC_PATH_INVALID"]
          ELSE IF UnderDirectory(canonical.parts) THEN canonical
          ELSE [Escape EXCEPT !.code = "SPEC_PATH_OUT_OF_DIR"]
    BY DEF canonicalize_spec_path, relative, canonical
  <2> QED
    BY <1>1, <1>2, <2>1
<1>4. /\ [Escape EXCEPT !.code = "SPEC_PATH_INVALID"].code = "SPEC_PATH_INVALID"
      /\ [Escape EXCEPT !.code = "SPEC_PATH_OUT_OF_DIR"].code = "SPEC_PATH_OUT_OF_DIR"
  BY DEF Escape
<1>5. Path(q).code = ""
  BY PathFields
<1>6. to.code # "SPEC_PATH_ESCAPE" /\ (to.code = "" => to = Path(q) /\ q # <<>> /\ UnderDirectory(q))
  BY <1>4, <1>5
<1> HIDE DEF to
<1> QED
  BY <1>3, <1>6

\* A refused path is refused for what it is, before anything is collapsed.
LEMMA RefusedBranch ==
  ASSUME NEW path, NEW exists
  PROVE  LET relative == repo_relative_spec_path(path, exists)
         IN  /\ relative = Escape => canonicalize_spec_path(path, exists) = Escape
             /\ relative.code = "" /\ collapse_path_segments(relative.parts) = Escape =>
                  canonicalize_spec_path(path, exists) = Escape
BY PathFields DEF canonicalize_spec_path

Source(path, exists) ==
  path.absolute \in BOOLEAN /\ path.parts \in Seq(STRING) /\ exists \in BOOLEAN

\* How a named file is made relative: taken as it is, refused, or stripped of the root.
Relative(path, exists) ==
  \/ ~path.absolute /\ repo_relative_spec_path(path, exists) = Path(path.parts)
  \/ path.absolute /\ repo_relative_spec_path(path, exists) = Escape
  \/ \E f, r \in Seq(STRING) :
       /\ path.absolute /\ repo_relative_spec_path(path, exists) = Path(r)
       /\ f = Root \o r
       /\ ~exists => f = path.parts
       /\ exists => Denotes(path.parts, f) /\ \A n \in DOMAIN f : IsName(f[n])

LEMMA MadeRelative ==
  ASSUME NEW path, NEW exists, Source(path, exists)
  PROVE  Relative(path, exists)
<1>0. path.absolute \in BOOLEAN /\ path.parts \in Seq(STRING) /\ exists \in BOOLEAN
  BY DEF Source
<1> DEFINE from == IF exists THEN Collapsed(path.parts, Path(<<>>)) ELSE Path(path.parts)
           strip(s) == SubSeq(s, Len(Root) + 1, Len(s))
<1>1. PICK f \in Seq(STRING) :
        /\ from = Path(f)
        /\ ~exists => f = path.parts
        /\ exists => Denotes(path.parts, f) /\ \A n \in DOMAIN f : IsName(f[n])
  <2>1. CASE exists
    <3>1. Path(<<>>) \in Tops /\ Path(<<>>) # Escape
      BY PathFields
    <3>2. \E q \in Seq(STRING) : /\ Collapsed(path.parts, Path(<<>>)) = Path(q) /\ Denotes(path.parts, q)
                                 /\ \A n \in DOMAIN q : IsName(q[n])
      BY <1>0, <3>1, CollapsedDenotes
    <3> QED
      BY <2>1, <3>2
  <2>2. CASE ~exists
    BY <1>0, <2>2
  <2> QED
    BY <2>1, <2>2
<1> HIDE DEF from
<1>2. from.code = "" /\ from.parts = f
  BY <1>1, PathFields
<1>3. CASE ~path.absolute
  <2>1. repo_relative_spec_path(path, exists) = Path(path.parts)
    BY <1>3 DEF repo_relative_spec_path
  <2> QED
    BY <1>3, <2>1 DEF Relative
<1>4. CASE path.absolute
  <2>1. repo_relative_spec_path(path, exists) =
          IF IsPrefix(Root, f) THEN Path(strip(f)) ELSE Escape
    BY <1>2, <1>4 DEF repo_relative_spec_path, from
  <2>2. CASE ~IsPrefix(Root, f)
    BY <1>4, <2>1, <2>2 DEF Relative
  <2>3. CASE IsPrefix(Root, f)
    <3>1. strip(f) \in Seq(STRING) /\ f = Root \o strip(f)
      BY <2>3, AfterRoot
    <3> HIDE DEF strip
    <3> QED
      BY <1>1, <1>4, <2>1, <2>3, <3>1 DEF Relative
  <2> QED
    BY <2>2, <2>3
<1> QED
  BY <1>3, <1>4

\* Whatever a file is named by, what it is bound to is canonical and denotes it; and a
\* relative path that is refused as an escape leaves the repository.
LEMMA CanonicalIsTheFile ==
  ASSUME NEW path, NEW exists, Source(path, exists)
  PROVE  LET to == canonicalize_spec_path(path, exists)
         IN  /\ to.code = "" => /\ is_canonical_spec_path(to.parts)
                                /\ Denotes(path.parts, IF path.absolute THEN Root \o to.parts ELSE to.parts)
             /\ to.code = "SPEC_PATH_ESCAPE" /\ ~path.absolute => Leaves(path.parts)
<1> DEFINE to == canonicalize_spec_path(path, exists)
           Goal == /\ to.code = "" => /\ is_canonical_spec_path(to.parts)
                                      /\ Denotes(path.parts, IF path.absolute THEN Root \o to.parts ELSE to.parts)
                   /\ to.code = "SPEC_PATH_ESCAPE" /\ ~path.absolute => Leaves(path.parts)
<1> SUFFICES Goal
  OBVIOUS
<1>1. Escape \in Tops /\ Escape.code = "SPEC_PATH_ESCAPE"
  BY PathFields
<1>0. path.absolute \in BOOLEAN /\ path.parts \in Seq(STRING) /\ exists \in BOOLEAN
  BY DEF Source
\* Once the path is made relative, all depends on what is left of it.
<1>2. ASSUME NEW r \in Seq(STRING), repo_relative_spec_path(path, exists) = Path(r),
             ~path.absolute => r = path.parts,
             \A q \in Seq(STRING) : path.absolute /\ Collapsed(r, Escape) = Path(q) => Denotes(path.parts, Root \o q)
      PROVE  Goal
  <2>1. CASE \E q \in Seq(STRING) : /\ Collapsed(r, Escape) = Path(q) /\ Denotes(r, q)
                                    /\ \A n \in DOMAIN q : IsName(q[n])
    <3>1. PICK q \in Seq(STRING) : /\ Collapsed(r, Escape) = Path(q) /\ Denotes(r, q)
                                   /\ \A n \in DOMAIN q : IsName(q[n])
      BY <2>1
    <3>2. /\ to.code # "SPEC_PATH_ESCAPE"
          /\ to.code = "" => to = Path(q) /\ q # <<>> /\ UnderDirectory(q)
      <4> HIDE DEF Goal
      <4> QED
        BY <1>2, <3>1, Branches
    <3>3. Path(q).parts = q
      BY PathFields
    <3>4. Denotes(path.parts, IF path.absolute THEN Root \o q ELSE q)
      BY <1>2, <3>1
    <3> HIDE DEF to
    <3>5. to.code = "" => is_canonical_spec_path(to.parts)
      BY <3>1, <3>2, <3>3 DEF is_canonical_spec_path
    <3>6. to.code = "" => Denotes(path.parts, IF path.absolute THEN Root \o to.parts ELSE to.parts)
      BY <3>2, <3>3, <3>4
    <3> QED
      BY <3>2, <3>5, <3>6
  <2>2. CASE Collapsed(r, Escape) = Escape /\ Leaves(r)
    <3>1. Path(r).code = "" /\ Path(r).parts = r
      BY PathFields
    <3>2. collapse_path_segments(Path(r).parts) = Escape
      BY <2>2, <3>1 DEF collapse_path_segments
    <3>3. to = Escape
      BY <1>2, <3>1, <3>2, RefusedBranch
    <3> HIDE DEF to
    <3>4. to.code # "" /\ (~path.absolute => Leaves(path.parts))
      BY <1>1, <1>2, <2>2, <3>3
    <3> QED
      BY <3>4
  <2> QED
    BY <1>1, <2>1, <2>2, CollapsedDenotes
<1>3. CASE ~path.absolute /\ repo_relative_spec_path(path, exists) = Path(path.parts)
  <2> HIDE DEF Goal
  <2> QED
    BY <1>0, <1>2, <1>3
<1>4. CASE path.absolute /\ repo_relative_spec_path(path, exists) = Escape
  <2>1. to = Escape
    BY <1>4, RefusedBranch
  <2> HIDE DEF to
  <2>2. to.code # "" /\ path.absolute
    BY <1>1, <1>4, <2>1
  <2> QED
    BY <2>2
<1>5. ASSUME NEW f \in Seq(STRING), NEW r \in Seq(STRING), path.absolute,
             repo_relative_spec_path(path, exists) = Path(r), f = Root \o r, ~exists => f = path.parts,
             exists => Denotes(path.parts, f) /\ \A n \in DOMAIN f : IsName(f[n])
      PROVE  Goal
  <2>1. Root \in Seq(STRING) /\ \A i \in DOMAIN Root : IsName(Root[i])
    BY PathsAssumption
  <2>2. ASSUME NEW q \in Seq(STRING), Collapsed(r, Escape) = Path(q)
        PROVE  Denotes(path.parts, Root \o q)
    <3>1. CASE ~exists
      <4>1. Denotes(Root \o r, Root \o q)
        BY <2>1, <2>2, DenotesAfter
      <4> QED
        BY <1>5, <3>1, <4>1
    <3>2. CASE exists
      <4>1. \A n \in DOMAIN r : IsName(r[n])
        <5>1. ASSUME NEW n \in DOMAIN r
              PROVE  Len(Root) + n \in DOMAIN (Root \o r) /\ (Root \o r)[Len(Root) + n] = r[n]
          BY <2>1
        <5> QED
          BY <1>5, <3>2, <5>1
      <4>2. Collapsed(r, Escape) = Path(r)
        BY <4>1, NamesStay
      <4>3. Path(r).parts = r /\ Path(q).parts = q
        BY PathFields
      <4>4. r = q
        BY <2>2, <4>2, <4>3
      <4> QED
        BY <1>5, <3>2, <4>4
    <3> QED
      BY <3>1, <3>2
  <2>3. \A q \in Seq(STRING) : Collapsed(r, Escape) = Path(q) => Denotes(path.parts, Root \o q)
    BY <2>2
  <2> HIDE DEF Goal
  <2> QED
    BY <1>2, <1>5, <2>3
<1>6. Relative(path, exists)
  BY MadeRelative
<1> HIDE DEF Goal
<1> QED
  BY <1>3, <1>4, <1>5, <1>6 DEF Relative

LEMMA BindStep ==
  ASSUME Bind
  PROVE  IdentityIsTheFile'
<1>1. PICK path \in SourcePaths :
        identity' = [bound |-> TRUE, path |-> path,
                     result |-> canonicalize_spec_path(path, path.exists)]
  BY DEF Bind
<1>2. Source(path, path.exists)
  <2>1. path \in [ absolute : BOOLEAN, exists : BOOLEAN, parts : Seq(STRING) ]
    BY SourcesAssumption
  <2>2. path.absolute \in BOOLEAN /\ path.parts \in Seq(STRING) /\ path.exists \in BOOLEAN
    BY <2>1
  <2> QED
    BY <2>2 DEF Source
<1> DEFINE to == canonicalize_spec_path(path, path.exists)
<1>3. /\ to.code = "" => /\ is_canonical_spec_path(to.parts)
                         /\ Denotes(path.parts, IF path.absolute THEN Root \o to.parts ELSE to.parts)
      /\ to.code = "SPEC_PATH_ESCAPE" /\ ~path.absolute => Leaves(path.parts)
  BY <1>2, CanonicalIsTheFile
<1>4. identity'.path = path /\ identity'.result = to
  BY <1>1
<1> HIDE DEF to
<1> QED
  BY <1>3, <1>4 DEF IdentityIsTheFile

\* Nothing but Bind names a work unit.
LEMMA IdentityStays ==
  ASSUME [Next]_vars
  PROVE  Bind \/ identity' = identity
<1>1. CASE Write
  BY <1>1 DEF Write, Insert, Delete, Replace, EditTop, WithBlocks, Becomes
<1>2. CASE Open
  BY <1>2 DEF Open, Reject
<1>3. CASE Read /\ Reads
  BY <1>3 DEF Reads
<1>4. CASE Check
  BY <1>4 DEF Check
<1>5. CASE UNCHANGED vars
  BY <1>5 DEF vars
<1>6. Read => Open \/ Reads
  BY DEF Read, ReadSection, ReadHeading, ReadSubsection, EndTask, EndTasks, EndBody
<1> QED
  BY <1>1, <1>2, <1>3, <1>4, <1>5, <1>6 DEF Next

\* Two names of one file make one identity: a bound path is canonical and denotes the
\* file that was named, and only a path that leaves the repository is refused as an
\* escape (spec.py:134-301), for every root, every directory of Task Specs and paths of
\* any length.
THEOREM IdentityIsTheFileHolds == Spec => []IdentityIsTheFile
<1>1. Init => IdentityIsTheFile
  <2>1. Init => ~identity.bound
    BY DEF Init, Unbound
  <2> QED
    BY <2>1 DEF IdentityIsTheFile
<1>2. IdentityIsTheFile /\ [Next]_vars => IdentityIsTheFile'
  <2> SUFFICES ASSUME IdentityIsTheFile, [Next]_vars
               PROVE  IdentityIsTheFile'
    OBVIOUS
  <2>1. CASE Bind
    BY <2>1, BindStep
  <2>2. CASE identity' = identity
    BY <2>2 DEF IdentityIsTheFile
  <2> QED
    BY <2>1, <2>2, IdentityStays
<1> QED
  BY <1>1, <1>2, PTL DEF Spec
-----------------------------------------------------------------------------
(* Every document is judged *)

\* How far the parser is: it opens the document, reads it, takes it to the check of
\* the graph, searches, and is done.
Stage(v) ==
  IF v \in Outcomes THEN 4 ELSE
  IF v = "searching" THEN 3 ELSE
  IF v = "parsed" THEN 2 ELSE
  IF v = "reading" THEN 1 ELSE 0

\* A block is passed over in three steps at most: it opens the tasks or a task, and
\* that is ended again.
RoundsLeft ==
  3 * (Len(blocks) + 1 - index) + (IF heading # 0 THEN 1 ELSE 0) + (IF inTasks THEN 1 ELSE 0)

\* The calls of dfs for the dependencies of a node, by their place in its list, and its
\* return (0).
Calls == UNION {{node} \X (0..Len(adjacency(node))) : node \in known}

\* Those that are still to come, for every node that is not visited.
CallsLeft ==
  {c \in Calls :
     /\ c[1] \notin visited
     /\ \A i \in DOMAIN stack : stack[i].node = c[1] => c[2] = 0 \/ c[2] > stack[i].called}

StepsLeft == IF verdict = "reading" THEN RoundsLeft
             ELSE Len(tasks) + 1 - position + Cardinality(CallsLeft)

\* Every step of the parser, whatever document it reads and whatever graph it
\* searches, takes it to a later stage or leaves it less to do in the one it is in: no
\* round of the nested loops and no call of dfs is made for nothing (spec.py:395-470,
\* 576-602).
ParserIsBounded ==
  [][Read \/ Check =>
       \/ Stage(verdict') > Stage(verdict)
       \/ verdict' = verdict /\ StepsLeft \in Nat /\ StepsLeft' \in Nat /\ StepsLeft' < StepsLeft]_vars

\* What a step of the parser does to its stage or to what it has left.
Lowers == \/ Stage(verdict') > Stage(verdict)
          \/ verdict' = verdict /\ StepsLeft \in Nat /\ StepsLeft' \in Nat /\ StepsLeft' < StepsLeft

LEMMA Stages ==
  /\ \A v \in Outcomes : Stage(v) = 4
  /\ Stage("searching") = 3 /\ Stage("parsed") = 2
  /\ Stage("reading") = 1 /\ Stage("written") = 0
BY DEF Stage, Outcomes

\* The document: a block is passed over, or a loop ends.
LEMMA RoundsType ==
  ASSUME TypeOK
  PROVE  RoundsLeft \in Nat
<1>1. Len(blocks) \in Nat /\ index \in Nat /\ index <= Len(blocks) + 1
  BY BlocksType DEF TypeOK
<1> QED
  BY <1>1 DEF RoundsLeft

LEMMA ReadLowers ==
  ASSUME TypeOK, TypeOK', Read
  PROVE  Lowers
<1>1. CASE Open
  BY <1>1, Stages DEF Open, Reject, Lowers, Outcomes
<1>2. ASSUME Reads, verdict' \in {"invalid", "parsed"}
      PROVE  Lowers
  BY <1>2, Stages DEF Reads, Lowers, Outcomes
<1>3. /\ Len(blocks) \in Nat /\ index \in Nat /\ heading \in Nat /\ inTasks \in BOOLEAN
      /\ index' \in Nat /\ heading' \in Nat /\ inTasks' \in BOOLEAN
      /\ index' <= Len(blocks)' + 1
  BY BlocksType DEF TypeOK
<1>4. Reads => Len(blocks)' = Len(blocks)
  BY DEF Reads, blocks
<1>5. ASSUME Reads, verdict' = verdict, RoundsLeft' < RoundsLeft
      PROVE  Lowers
  <2>1. RoundsLeft \in Nat /\ RoundsLeft' \in Nat
    BY <1>3, <1>4, <1>5, RoundsType DEF RoundsLeft
  <2>2. verdict = "reading"
    BY <1>5 DEF Reads
  <2> QED
    BY <1>5, <2>1, <2>2 DEF Lowers, StepsLeft
<1>6. CASE ReadSection
  <2>1. Reads
    BY <1>6 DEF ReadSection
  <2>2. verdict' = "invalid" \/ (verdict' = verdict /\ index' = index + 1 /\ heading' = heading)
    BY <1>6 DEF ReadSection, Reject
  <2>3. index' = index + 1 /\ heading' = heading => RoundsLeft' < RoundsLeft
    BY <1>3, <1>4, <2>1 DEF RoundsLeft
  <2> QED
    BY <1>2, <1>5, <2>1, <2>2, <2>3
<1>7. CASE ReadHeading
  <2>1. Reads /\ inTasks
    BY <1>7 DEF ReadHeading
  <2>2. verdict' = "invalid" \/ (verdict' = verdict /\ index' = index + 1 /\ inTasks' = inTasks)
    BY <1>7 DEF ReadHeading, Reject
  <2>3. index' = index + 1 /\ inTasks' = inTasks => RoundsLeft' < RoundsLeft
    BY <1>3, <1>4, <2>1 DEF RoundsLeft
  <2> QED
    BY <1>2, <1>5, <2>1, <2>2, <2>3
<1>8. CASE ReadSubsection
  <2>1. Reads
    BY <1>8 DEF ReadSubsection
  <2>2. \/ verdict' = "invalid"
        \/ verdict' = verdict /\ index' = index + 1 /\ UNCHANGED <<heading, inTasks>>
    BY <1>8 DEF ReadSubsection, Reject
  <2>3. index' = index + 1 /\ UNCHANGED <<heading, inTasks>> => RoundsLeft' < RoundsLeft
    BY <1>3, <1>4, <2>1 DEF RoundsLeft
  <2> QED
    BY <1>2, <1>5, <2>1, <2>2, <2>3
<1>9. CASE EndTask
  <2>1. Reads /\ heading # 0
    BY <1>9 DEF EndTask
  <2>2. verdict' = "invalid" \/ (verdict' = verdict /\ heading' = 0 /\ UNCHANGED <<index, inTasks>>)
    BY <1>9 DEF EndTask, Reject
  <2>3. heading' = 0 /\ UNCHANGED <<index, inTasks>> => RoundsLeft' < RoundsLeft
    BY <1>3, <1>4, <2>1 DEF RoundsLeft
  <2> QED
    BY <1>2, <1>5, <2>1, <2>2, <2>3
<1>10. CASE EndTasks
  <2>1. Reads /\ inTasks
    BY <1>10 DEF EndTasks
  <2>2. \/ verdict' = "invalid"
        \/ verdict' = verdict /\ inTasks' = FALSE /\ UNCHANGED <<index, heading>>
    BY <1>10 DEF EndTasks, Reject
  <2>3. inTasks' = FALSE /\ UNCHANGED <<index, heading>> => RoundsLeft' < RoundsLeft
    BY <1>3, <1>4, <2>1 DEF RoundsLeft
  <2> QED
    BY <1>2, <1>5, <2>1, <2>2, <2>3
<1>11. CASE EndBody
  BY <1>2, <1>11 DEF EndBody, Reject
<1> QED
  BY <1>1, <1>6, <1>7, <1>8, <1>9, <1>10, <1>11 DEF Read

\* The search: a graph has finitely many calls.
LEMMA CallsAreFinite ==
  ASSUME tasks \in Seq(TaskRecords)
  PROVE  IsFiniteSet(CallsLeft) /\ Cardinality(CallsLeft) \in Nat
<1> DEFINE CallsOf(node) == {node} \X (0..Len(adjacency(node)))
           All == {CallsOf(node) : node \in known}
<1>1. IsFiniteSet(known)
  <2>1. DOMAIN tasks = 1..Len(tasks) /\ Len(tasks) \in Nat
    BY LenProperties
  <2> DEFINE f == [i \in 1..Len(tasks) |-> tasks[i].id]
  <2>2. f \in Surjection(1..Len(tasks), known)
    <3>1. known = {tasks[i].id : i \in 1..Len(tasks)}
      BY <2>1 DEF known
    <3> QED
      BY <3>1 DEF Surjection
  <2>3. IsFiniteSet(1..Len(tasks))
    BY <2>1, FS_Interval
  <2> QED
    BY <2>2, <2>3, FS_Surjection
<1>2. \A node \in known : IsFiniteSet(CallsOf(node))
  <2> TAKE node \in known
  <2>1. Len(adjacency(node)) \in Nat
    BY AdjacencyType, LenProperties
  <2>2. IsFiniteSet({node})
    BY FS_Singleton
  <2>3. IsFiniteSet(0..Len(adjacency(node)))
    BY <2>1, FS_Interval
  <2> QED
    BY <2>2, <2>3, FS_Product
<1>3. IsFiniteSet(All)
  <2> DEFINE f == [node \in known |-> CallsOf(node)]
  <2> HIDE DEF CallsOf
  <2>1. f \in Surjection(known, All)
    BY DEF Surjection
  <2> QED
    BY <1>1, <2>1, FS_Surjection
<1>4. IsFiniteSet(UNION All)
  <2>1. \A T \in All : IsFiniteSet(T)
    BY <1>2
  <2> HIDE DEF All
  <2> QED
    BY <1>3, <2>1, FS_UNION
<1>5. CallsLeft \in SUBSET UNION All
  BY DEF CallsLeft, Calls
<1> HIDE DEF All
<1> QED
  BY <1>4, <1>5, FS_Subset, FS_CardinalityType

\* One call less.
LEMMA OneCallLess ==
  ASSUME tasks \in Seq(TaskRecords), CallsLeft' \subseteq CallsLeft,
         NEW c \in CallsLeft, c \notin CallsLeft'
  PROVE  /\ Cardinality(CallsLeft') \in Nat /\ Cardinality(CallsLeft) \in Nat
         /\ Cardinality(CallsLeft') < Cardinality(CallsLeft)
<1> DEFINE now == CallsLeft
           next == CallsLeft'
<1>1. IsFiniteSet(now) /\ Cardinality(now) \in Nat
  BY CallsAreFinite
<1>2. next \in SUBSET now /\ c \in now /\ c \notin next
  OBVIOUS
<1> HIDE DEF now, next
<1>3. /\ IsFiniteSet(next) /\ Cardinality(next) <= Cardinality(now)
      /\ Cardinality(now) = Cardinality(next) => now = next
  BY <1>1, <1>2, FS_Subset
<1>4. Cardinality(next) \in Nat
  BY <1>3, FS_CardinalityType
<1>5. Cardinality(next) < Cardinality(now)
  BY <1>1, <1>2, <1>3, <1>4
<1> QED
  BY <1>1, <1>4, <1>5 DEF now, next

\* A call is the number of a dependency of a task, or its return.
LEMMA CallsType ==
  /\ \A c \in Calls : c = <<c[1], c[2]>> /\ c[1] \in known /\ c[2] \in Nat
  /\ \A node \in known : \A k \in 0..Len(adjacency(node)) : <<node, k>> \in Calls
<1>1. ASSUME NEW c \in Calls
      PROVE  c = <<c[1], c[2]>> /\ c[1] \in known /\ c[2] \in Nat
  <2>1. PICK node \in known : c \in {node} \X (0..Len(adjacency(node)))
    BY DEF Calls
  <2> QED
    BY <2>1
<1>2. ASSUME NEW node \in known, NEW k \in 0..Len(adjacency(node))
      PROVE  <<node, k>> \in Calls
  <2>1. <<node, k>> \in {node} \X (0..Len(adjacency(node)))
    OBVIOUS
  <2> QED
    BY <2>1 DEF Calls
<1> QED
  BY <1>1, <1>2

\* The calls to come when the search has gone on.
LEMMA CallsNext ==
  ASSUME tasks' = tasks
  PROVE  CallsLeft' = {c \in Calls :
           /\ c[1] \notin visited'
           /\ \A i \in DOMAIN stack' : stack'[i].node = c[1] => c[2] = 0 \/ c[2] > stack'[i].called}
<1>1. known' = known /\ \A node : adjacency(node)' = adjacency(node)
  BY GraphFrame
<1>2. Calls' = Calls
  BY <1>1 DEF Calls
<1> QED
  BY <1>2 DEF CallsLeft

\* A new entry leaves the others where they are.
LEMMA PushKeeps ==
  ASSUME NEW s \in Seq([ node : Ids, called : Nat ]), NEW new
  PROVE  \A i \in 1..Len(s) : i \in DOMAIN Append(s, new) /\ Append(s, new)[i] = s[i]
BY StackType

\* A stack whose entries, but for new ones without a call, have called as much or more
\* leaves no more to call.
LEMMA CallsKept ==
  ASSUME tasks' = tasks, visited' = visited,
         NEW s, stack' = s \/ \E node : stack' = Append(s, [node |-> node, called |-> 0]),
         s \in Seq([ node : Ids, called : Nat ]), stack \in Seq([ node : Ids, called : Nat ]),
         Len(s) = Len(stack),
         \A i \in 1..Len(s) : s[i].node = stack[i].node /\ s[i].called >= stack[i].called
  PROVE  CallsLeft' \subseteq CallsLeft
<1>1. /\ DOMAIN stack = 1..Len(stack) /\ Len(stack) \in Nat
      /\ \A i \in 1..Len(stack) : stack[i].called \in Nat /\ s[i].called \in Nat
  BY StackType
<1>2. \A i \in 1..Len(s) : i \in DOMAIN stack' /\ stack'[i] = s[i]
  <2>1. CASE stack' = s
    BY <1>1, <2>1, StackType
  <2>2. ASSUME NEW node, stack' = Append(s, [node |-> node, called |-> 0])
        PROVE  \A i \in 1..Len(s) : i \in DOMAIN stack' /\ stack'[i] = s[i]
    BY <2>2, PushKeeps
  <2> QED
    BY <2>1, <2>2
<1>3. ASSUME NEW c \in CallsLeft'
      PROVE  c \in CallsLeft
  <2>1. /\ c \in Calls /\ c[1] \notin visited
        /\ \A i \in DOMAIN stack' : stack'[i].node = c[1] => c[2] = 0 \/ c[2] > stack'[i].called
    BY <1>3, CallsNext
  <2>2. c[2] \in Nat
    BY <2>1, CallsType
  <2>3. ASSUME NEW i \in DOMAIN stack, stack[i].node = c[1]
        PROVE  c[2] = 0 \/ c[2] > stack[i].called
    <3>1. c[2] = 0 \/ c[2] > s[i].called
      BY <1>1, <1>2, <2>1, <2>3
    <3> QED
      BY <1>1, <2>2, <3>1
  <2> QED
    BY <2>1, <2>3 DEF CallsLeft
<1> QED
  BY <1>3

\* The stack a call of dfs leaves, if it finds no cycle.
LEMMA CallLeaves ==
  ASSUME NEW node, NEW calls, Call(node, calls), verdict = "searching"
  PROVE  \/ verdict' = "cycle"
         \/ /\ verdict' = verdict
            /\ stack' = calls \/ \E n : stack' = Append(calls, [node |-> n, called |-> 0])
BY DEF Call

LEMMA VisitTaskLowers == UnderWay /\ VisitTask => Lowers
<1> SUFFICES ASSUME UnderWay, VisitTask
             PROVE  Lowers
  OBVIOUS
<1>1. /\ tasks \in Seq(TaskRecords) /\ stack \in Seq([ node : Ids, called : Nat ])
      /\ position \in Nat /\ position <= Len(tasks) /\ Len(tasks) \in Nat
      /\ verdict = "searching" /\ tasks' = tasks /\ position' = position + 1
      /\ visited' = visited
  BY LenProperties DEF UnderWay, GraphTypeOK, VisitTask
<1>2. Call(tasks[position].id, stack)
  BY DEF VisitTask
<1>3. CASE verdict' = "cycle"
  BY <1>1, <1>3, Stages DEF Lowers, Outcomes
<1>4. CASE /\ verdict' = verdict
           /\ stack' = stack \/ \E n : stack' = Append(stack, [node |-> n, called |-> 0])
  <2>1. \A i \in 1..Len(stack) : stack[i].called >= stack[i].called
    <3>1. stack \in Seq([ node : Ids, called : Nat ])
      BY <1>1
    <3>2. \A i \in 1..Len(stack) : stack[i].called \in Nat
      BY <3>1, StackType
    <3> QED
      BY <3>2
  <2>2. CallsLeft' \subseteq CallsLeft
    BY <1>1, <1>4, <2>1, CallsKept
  <2>3. IsFiniteSet(CallsLeft) /\ Cardinality(CallsLeft) \in Nat
    BY <1>1, CallsAreFinite
  <2>4. Cardinality(CallsLeft') \in Nat /\ Cardinality(CallsLeft') <= Cardinality(CallsLeft)
    <3> DEFINE now == CallsLeft
               next == CallsLeft'
    <3>1. IsFiniteSet(now) /\ next \in SUBSET now
      BY <2>2, <2>3
    <3> HIDE DEF now, next
    <3>2. IsFiniteSet(next) /\ Cardinality(next) <= Cardinality(now)
      BY <3>1, FS_Subset
    <3>3. Cardinality(next) \in Nat
      BY <3>2, FS_CardinalityType
    <3> QED
      BY <3>2, <3>3 DEF now, next
  <2>5. /\ StepsLeft = Len(tasks) + 1 - position + Cardinality(CallsLeft)
        /\ StepsLeft' = Len(tasks) + 1 - (position + 1) + Cardinality(CallsLeft')
    BY <1>1, <1>4 DEF StepsLeft
  <2> QED
    BY <1>1, <1>4, <2>3, <2>4, <2>5 DEF Lowers
<1> QED
  BY <1>1, <1>2, <1>3, <1>4, CallLeaves

\* With one call less to make, the search has less left.
LEMMA LessToSearch ==
  ASSUME UnderWay, tasks' = tasks, position' = position, verdict' = verdict,
         CallsLeft' \subseteq CallsLeft, NEW c \in CallsLeft, c \notin CallsLeft'
  PROVE  Lowers
<1>1. /\ tasks \in Seq(TaskRecords) /\ Len(tasks) \in Nat /\ verdict = "searching"
      /\ position \in Nat /\ position <= Len(tasks) + 1
  BY LenProperties DEF UnderWay, GraphTypeOK
<1>2. /\ Cardinality(CallsLeft') \in Nat /\ Cardinality(CallsLeft) \in Nat
      /\ Cardinality(CallsLeft') < Cardinality(CallsLeft)
  BY <1>1, OneCallLess
<1>3. /\ StepsLeft = Len(tasks) + 1 - position + Cardinality(CallsLeft)
      /\ StepsLeft' = Len(tasks) + 1 - position + Cardinality(CallsLeft')
  BY <1>1 DEF StepsLeft
<1> QED
  BY <1>1, <1>2, <1>3 DEF Lowers

LEMMA VisitDependencyLowers == UnderWay /\ VisitDependency => Lowers
<1> SUFFICES ASSUME UnderWay, VisitDependency
             PROVE  Lowers
  OBVIOUS
<1> DEFINE c == <<Top.node, Top.called + 1>>
           s == NextDependency
           n == Len(stack)
<1>1. /\ tasks \in Seq(TaskRecords) /\ stack \in Seq([ node : Ids, called : Nat ])
      /\ verdict = "searching" /\ UNCHANGED <<tasks, position, visited>>
      /\ stack # <<>> /\ Top.called < Len(adjacency(Top.node))
      /\ Call(adjacency(Top.node)[Top.called + 1], s)
  BY DEF UnderWay, GraphTypeOK, VisitDependency
<1>2. /\ n \in Nat \ {0} /\ Top.node \in known /\ Top.called \in Nat
      /\ Len(adjacency(Top.node)) \in Nat
  BY <1>1, TopType
<1>3. /\ DOMAIN stack = 1..n /\ n \in 1..n
      /\ \A i \in 1..n : stack[i].node \in Ids /\ stack[i].called \in Nat
  <2>1. stack \in Seq([ node : Ids, called : Nat ])
    BY <1>1
  <2>2. /\ DOMAIN stack = 1..Len(stack)
        /\ \A i \in 1..Len(stack) : stack[i].node \in Ids /\ stack[i].called \in Nat
    BY <2>1, StackType
  <2> QED
    BY <1>2, <2>2
<1>4. /\ s \in Seq([ node : Ids, called : Nat ]) /\ Len(s) = n
      /\ \A i \in 1..n : s[i].node = stack[i].node /\ s[i].called >= stack[i].called
      /\ s[n].called = Top.called + 1
  <2> DEFINE entry == [Top EXCEPT !.called = @ + 1]
  <2>1. Top \in [ node : Ids, called : Nat ]
    BY <1>1, <1>3, ElementOfSeq DEF Top
  <2>2. /\ entry \in [ node : Ids, called : Nat ]
        /\ entry.node = Top.node /\ entry.called = Top.called + 1
    BY <2>1
  <2>3. s = [stack EXCEPT ![n] = entry]
    BY DEF NextDependency, Top
  <2> HIDE DEF entry, s
  <2>4. s \in Seq([ node : Ids, called : Nat ]) /\ Len(s) = n
        /\ \A i \in 1..n : s[i] = IF i = n THEN entry ELSE stack[i]
    BY <1>1, <1>3, <2>2, <2>3, ExceptSeq
  <2>5. stack[n].node = Top.node /\ stack[n].called = Top.called
    BY DEF Top
  <2>6. \A i \in 1..n : s[i].node = stack[i].node /\ s[i].called >= stack[i].called
    <3> TAKE i \in 1..n
    <3>1. CASE i = n
      BY <1>2, <2>2, <2>4, <2>5, <3>1
    <3>2. CASE i # n
      <4>1. s[i] = stack[i]
        BY <2>4, <3>2
      <4>2. stack[i].called \in Nat
        BY <1>3
      <4> HIDE DEF n
      <4> QED
        BY <4>1, <4>2
    <3> QED
      BY <3>1, <3>2
  <2>7. s[n] = entry
    BY <1>3, <2>4
  <2> QED
    BY <2>2, <2>4, <2>6, <2>7
<1>5. CASE verdict' = "cycle"
  BY <1>1, <1>5, Stages DEF Lowers, Outcomes
<1>6. CASE /\ verdict' = verdict
           /\ stack' = s \/ \E m : stack' = Append(s, [node |-> m, called |-> 0])
  <2> HIDE DEF s
  <2>1. CallsLeft' \subseteq CallsLeft
    BY <1>1, <1>4, <1>6, CallsKept
  <2>2. c \in Calls
    <3>1. Top.called + 1 \in 0..Len(adjacency(Top.node))
      BY <1>1, <1>2
    <3> QED
      BY <1>2, <3>1, CallsType
  <2>3. c[1] = Top.node /\ c[2] = Top.called + 1
    OBVIOUS
  <2>4. c \in CallsLeft
    <3>1. Top.node \notin visited
      BY <1>3 DEF UnderWay, SearchInv, Apart, GraphTypeOK, Top
    <3>2. \A i \in DOMAIN stack : stack[i].node = Top.node => stack[i].called = Top.called
      BY <1>3 DEF UnderWay, SearchInv, Apart, Top
    <3> HIDE DEF c
    <3> QED
      BY <1>2, <2>2, <2>3, <3>1, <3>2 DEF CallsLeft
  <2>5. c \notin CallsLeft'
    <3>1. n \in DOMAIN stack' /\ stack'[n] = s[n]
      <4>1. DOMAIN s = 1..n /\ n \in 1..Len(s)
        BY <1>2, <1>4, StackType
      <4>2. ASSUME NEW m, stack' = Append(s, [node |-> m, called |-> 0])
            PROVE  n \in DOMAIN stack' /\ stack'[n] = s[n]
        BY <1>4, <4>1, <4>2, PushKeeps
      <4> QED
        BY <1>3, <1>6, <4>1, <4>2
    <3>2. s[n].node = Top.node
      BY <1>3, <1>4 DEF Top
    <3> HIDE DEF c
    <3>3. ~(c[2] = 0 \/ c[2] > s[n].called)
      BY <1>2, <1>4, <2>3
    <3> QED
      BY <1>1, <2>3, <3>1, <3>2, <3>3, CallsNext
  <2> HIDE DEF c
  <2> QED
    BY <1>1, <1>6, <2>1, <2>4, <2>5, LessToSearch
<1> QED
  BY <1>1, <1>5, <1>6, CallLeaves

LEMMA LeaveLowers == UnderWay /\ Leave => Lowers
<1> SUFFICES ASSUME UnderWay, Leave
             PROVE  Lowers
  OBVIOUS
<1> DEFINE c == <<Top.node, 0>>
           n == Len(stack)
<1>1. /\ tasks \in Seq(TaskRecords) /\ stack \in Seq([ node : Ids, called : Nat ])
      /\ stack # <<>> /\ UNCHANGED <<tasks, verdict, position>>
      /\ visited' = visited \cup {Top.node} /\ stack' = SubSeq(stack, 1, n - 1)
  BY DEF UnderWay, GraphTypeOK, Leave, Finished
<1>2. /\ n \in Nat \ {0} /\ Top.node \in known /\ Len(adjacency(Top.node)) \in Nat
  BY <1>1, TopType
<1>3. DOMAIN stack = 1..n /\ n \in 1..n
  BY <1>1, <1>2, StackType
<1>4. \A i \in 1..(n - 1) : i \in DOMAIN stack' /\ stack'[i] = stack[i]
  BY <1>1, <1>2, SubSeqProperties
<1>5. c \in Calls /\ c[1] = Top.node /\ c[2] = 0
  BY <1>2, CallsType
<1> HIDE DEF c
<1>6. c \in CallsLeft
  <2>1. Top.node \notin visited
    BY <1>3 DEF UnderWay, SearchInv, Apart, GraphTypeOK, Top
  <2> QED
    BY <1>5, <2>1 DEF CallsLeft
<1>7. c \notin CallsLeft'
  BY <1>1, <1>5, CallsNext
<1>8. CallsLeft' \subseteq CallsLeft
  <2> SUFFICES ASSUME NEW d \in CallsLeft'
               PROVE  d \in CallsLeft
    OBVIOUS
  <2>1. /\ d \in Calls /\ d[1] \notin visited /\ d[1] # Top.node
        /\ \A i \in DOMAIN stack' : stack'[i].node = d[1] => d[2] = 0 \/ d[2] > stack'[i].called
    BY <1>1, CallsNext
  <2>2. ASSUME NEW i \in DOMAIN stack, stack[i].node = d[1]
        PROVE  d[2] = 0 \/ d[2] > stack[i].called
    <3>1. i # n
      BY <2>1, <2>2 DEF Top
    <3>2. i \in 1..(n - 1)
      BY <1>2, <1>3, <3>1
    <3> QED
      BY <1>4, <2>1, <2>2, <3>2
  <2> QED
    BY <2>1, <2>2 DEF CallsLeft
<1> QED
  BY <1>1, <1>6, <1>7, <1>8, LessToSearch

LEMMA CheckLowers == GraphTypeOK /\ GraphInv /\ CheckGraph => Lowers
<1> SUFFICES ASSUME GraphTypeOK, GraphInv, CheckGraph
             PROVE  Lowers
  OBVIOUS
<1>1. CASE RejectDuplicate \/ RejectUnknown \/ BeginSearch
  BY <1>1, Stages DEF RejectDuplicate, RejectUnknown, BeginSearch, Ends, Lowers, Outcomes
<1>2. CASE Accept
  BY <1>2, Stages DEF Accept, Ends, Lowers, Outcomes
<1>3. verdict = "searching" => UnderWay
  BY DEF GraphInv, UnderWay, Checked
<1>4. CASE VisitTask \/ VisitDependency \/ Leave
  <2>1. verdict = "searching"
    BY <1>4 DEF VisitTask, VisitDependency, Leave
  <2> QED
    BY <1>3, <1>4, <2>1, VisitTaskLowers, VisitDependencyLowers, LeaveLowers
<1> QED
  BY <1>1, <1>2, <1>4 DEF CheckGraph

\* For every document and every graph of tasks, the parser goes on only until it is
\* done: each of its steps leaves it less to do.
THEOREM ParserIsBoundedHolds == Spec => ParserIsBounded
<1>1. ReadInv /\ ReadInv' /\ [Next]_vars =>
        [Read \/ Check => \/ Stage(verdict') > Stage(verdict)
                          \/ /\ verdict' = verdict /\ StepsLeft \in Nat /\ StepsLeft' \in Nat
                             /\ StepsLeft' < StepsLeft]_vars
  <2> SUFFICES ASSUME ReadInv, ReadInv', Read \/ Check
               PROVE  Lowers
    BY DEF Lowers
  <2>1. CASE Read
    BY <2>1, ReadLowers DEF ReadInv
  <2>2. CASE Check
    BY <2>2, CheckLowers DEF Check, ReadInv, TypeOK
  <2> QED
    BY <2>1, <2>2
<1> QED
  BY <1>1, ReadInductive, PTL DEF Spec, ParserIsBounded
=============================================================================

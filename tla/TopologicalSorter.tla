-------------------------- MODULE TopologicalSorter --------------------------
(***************************************************************************)
(* domain/entities.py: TaskGraph, and application/algorithms.py:           *)
(* TopologicalSorter.sort and get_execution_levels.                        *)
(*                                                                         *)
(* A client builds a graph with add_node and add_dependency and then asks  *)
(* for its execution levels.  The three loops of the algorithm are taken   *)
(* one iteration at a time: the scan that counts in-degrees, Kahn's loop,  *)
(* and the loop that turns the order into levels.                          *)
(*                                                                         *)
(* A task is its rank in the order of str(task), the key of every sort()   *)
(* in the code; str() is injective on task identifiers.                    *)
(***************************************************************************)
EXTENDS Integers, Sequences, FiniteSets

CONSTANT Tasks

ASSUME TasksAssumption == Tasks \subseteq Nat /\ IsFiniteSet(Tasks)

VARIABLES
  nodes,         \* TaskGraph.nodes
  dependencies,  \* TaskGraph.dependencies: task -> the tasks it waits for
  pc,            \* which loop runs, or how the sort ended
  scanned,       \* the entries of dependencies the first loop has counted
  inDegree,      \* in_degree
  ready,         \* the tasks in queue, which the code keeps sorted
  order,         \* result
  level          \* level: task -> execution level

graph == <<nodes, dependencies>>
vars  == <<nodes, dependencies, pc, scanned, inDegree, ready, order, level>>

Ended == {"done", "cycle", "crashed"}

Placed == {order[i] : i \in DOMAIN order}

-----------------------------------------------------------------------------
(* TaskGraph *)

\* The dependencies dict after add_node(n) for every n of S.
WithEntries(S) ==
  [m \in DOMAIN dependencies \cup S |->
     IF m \in DOMAIN dependencies THEN dependencies[m] ELSE {}]

AddNode(n) ==
  /\ pc = "build"
  /\ nodes' = nodes \cup {n}
  /\ dependencies' = WithEntries({n})
  /\ UNCHANGED <<pc, scanned, inDegree, ready, order, level>>

\* Mutant: the dependency is not added as a node.
AddDependencyOnly(n, d) ==
  /\ pc = "build"
  /\ nodes' = nodes \cup {n}
  /\ dependencies' = [WithEntries({n}) EXCEPT ![n] = @ \cup {d}]
  /\ UNCHANGED <<pc, scanned, inDegree, ready, order, level>>

AddDependency(n, d) ==
  /\ pc = "build"
  /\ nodes' = nodes \cup {n, d}
  /\ dependencies' = [WithEntries({n, d}) EXCEPT ![n] = @ \cup {d}]
  /\ UNCHANGED <<pc, scanned, inDegree, ready, order, level>>

-----------------------------------------------------------------------------
(* TopologicalSorter.sort *)

StartSort ==
  /\ pc = "build"
  /\ pc' = "scan"
  /\ inDegree' = [m \in nodes |-> 0]
  /\ UNCHANGED <<nodes, dependencies, scanned, ready, order, level>>

\* What scanning n's dependencies D leaves in in_degree[n]: one more for each
\* of them, but an undeclared dependency is reset to zero when it is met, and
\* if that is n itself, what was counted before it in the iteration is lost.
Counts(n, D) ==
  IF n \in D \ nodes
  THEN 1 .. Cardinality(D)
  ELSE {(IF n \in DOMAIN inDegree THEN inDegree[n] ELSE 0) + Cardinality(D)}

\* One iteration of the scan.  A dependency that is not a node is added to the
\* graph.  If it has no entry either, add_node grows the dict the loop is
\* iterating over and Python stops the loop with a RuntimeError.
ScanEntry(n) ==
  LET D == dependencies[n]
      undeclared == D \ nodes
      counted == IF D = {} THEN {} ELSE {n}
  IN
  /\ pc = "scan"
  /\ n \in DOMAIN dependencies \ scanned
  /\ nodes' = nodes \cup undeclared
  /\ dependencies' = WithEntries(undeclared)
  /\ pc' = IF undeclared \subseteq DOMAIN dependencies THEN pc ELSE "crashed"
  /\ scanned' = scanned \cup {n}
  /\ \E c \in Counts(n, D) :
       inDegree' = [m \in DOMAIN inDegree \cup undeclared \cup counted |->
                      IF m \in counted THEN c
                      ELSE IF m \in undeclared THEN 0 ELSE inDegree[m]]
  /\ UNCHANGED <<ready, order, level>>

StartKahn ==
  /\ pc = "scan"
  /\ scanned = DOMAIN dependencies
  /\ pc' = "kahn"
  /\ ready' = {m \in DOMAIN inDegree : inDegree[m] = 0}
  /\ UNCHANGED <<nodes, dependencies, scanned, inDegree, order, level>>

\* forward_edges[n]
Neighbors(n) == {m \in DOMAIN dependencies : n \in dependencies[m]}

\* The head of the sorted queue.
IsFirst(n) == n \in ready /\ \A m \in ready : n <= m

\* Mutant: a task is released with one dependency left.
ReleasedEarly(n) == {m \in Neighbors(n) : inDegree[m] \in {1, 2}}

\* The neighbours of n whose last counted dependency was n.
Released(n) == {m \in Neighbors(n) : inDegree[m] = 1}

Pop(n) ==
  /\ pc = "kahn"
  /\ IsFirst(n)
  /\ order' = Append(order, n)
  /\ inDegree' = [m \in DOMAIN inDegree |->
                    IF m \in Neighbors(n) THEN inDegree[m] - 1 ELSE inDegree[m]]
  /\ ready' = (ready \ {n}) \cup Released(n)
  /\ UNCHANGED <<nodes, dependencies, pc, scanned, level>>

\* Mutant: the number of placed tasks is not checked.
FinishKahnUnchecked ==
  /\ pc = "kahn"
  /\ ready = {}
  /\ pc' = "levels"
  /\ UNCHANGED <<nodes, dependencies, scanned, inDegree, ready, order, level>>

FinishKahn ==
  /\ pc = "kahn"
  /\ ready = {}
  /\ pc' = IF Len(order) = Cardinality(nodes) THEN "levels" ELSE "cycle"
  /\ UNCHANGED <<nodes, dependencies, scanned, inDegree, ready, order, level>>

-----------------------------------------------------------------------------
(* TopologicalSorter.get_execution_levels *)

\* graph.dependencies.get(n, frozenset()) and level.get(d, 0)
DepsOf(n)  == IF n \in DOMAIN dependencies THEN dependencies[n] ELSE {}
LevelOf(d) == IF d \in DOMAIN level THEN level[d] ELSE 0

\* Mutant: one above the lowest.
IsLevelMin(n, l) ==
  \/ DepsOf(n) = {} /\ l = 0
  \/ \E low \in DepsOf(n) :
       /\ \A d \in DepsOf(n) : LevelOf(low) <= LevelOf(d)
       /\ l = LevelOf(low) + 1

\* The level of n: 0 without dependencies, otherwise one above the highest.
IsLevel(n, l) ==
  \/ DepsOf(n) = {} /\ l = 0
  \/ \E top \in DepsOf(n) :
       /\ \A d \in DepsOf(n) : LevelOf(d) <= LevelOf(top)
       /\ l = LevelOf(top) + 1

AssignLevel(i) ==
  /\ pc = "levels"
  /\ i \in DOMAIN order
  /\ order[i] \notin DOMAIN level
  /\ \A j \in 1 .. i - 1 : order[j] \in DOMAIN level
  /\ \E l \in 0 .. Len(order) :
       /\ IsLevel(order[i], l)
       /\ level' = [m \in DOMAIN level \cup {order[i]} |->
                      IF m = order[i] THEN l ELSE level[m]]
  /\ UNCHANGED <<nodes, dependencies, pc, scanned, inDegree, ready, order>>

FinishLevels ==
  /\ pc = "levels"
  /\ Placed \subseteq DOMAIN level
  /\ pc' = "done"
  /\ UNCHANGED <<nodes, dependencies, scanned, inDegree, ready, order, level>>

-----------------------------------------------------------------------------

InitSort ==
  /\ pc = "build"
  /\ scanned = {}
  /\ inDegree = << >>
  /\ ready = {}
  /\ order = << >>
  /\ level = << >>

\* TaskGraph(): an empty graph, filled through add_node and add_dependency.
Init == nodes = {} /\ dependencies = << >> /\ InitSort

\* TaskGraph(nodes, dependencies): the fields of the dataclass given directly.
InitDirect ==
  /\ nodes \in SUBSET Tasks
  /\ \E entries \in SUBSET Tasks : dependencies \in [entries -> SUBSET Tasks]
  /\ InitSort

Build == \E n \in Tasks : AddNode(n) \/ \E d \in Tasks : AddDependency(n, d)

Sort ==
  \/ \E n \in Tasks : ScanEntry(n) \/ Pop(n)
  \/ StartKahn \/ FinishKahn
  \/ \E i \in 1 .. Len(order) : AssignLevel(i)
  \/ FinishLevels

Next == Build \/ StartSort \/ Sort

Spec == Init /\ [][Next]_vars

\* Once called, the algorithm runs to its end: it is one synchronous call.
FairSpec == Spec /\ WF_vars(Sort)

\* A graph given directly is sorted as it is.
DirectSpec == InitDirect /\ [][StartSort \/ Sort]_vars

-----------------------------------------------------------------------------
(* Properties *)

TypeOK ==
  /\ nodes \in SUBSET Tasks
  /\ dependencies \in [nodes -> SUBSET nodes]
  /\ pc \in {"build", "scan", "kahn", "levels"} \cup Ended
  /\ scanned \in SUBSET nodes
  /\ pc # "build" => inDegree \in [nodes -> Nat]
  /\ ready \in SUBSET nodes
  /\ order \in Seq(nodes)
  /\ \E S \in SUBSET nodes : level \in [S -> Nat]

\* The result lists no task twice, and a task only after everything it waits
\* for: "dependencies are always scheduled before their dependents".
OrderRespectsDependencies ==
  \A i \in DOMAIN order :
    /\ DepsOf(order[i]) \subseteq {order[j] : j \in 1 .. i - 1}
    /\ \A j \in 1 .. i - 1 : order[j] # order[i]

\* A set of tasks each of which waits for another of them.
HasCycle ==
  \E S \in SUBSET nodes : S # {} /\ \A n \in S : dependencies[n] \cap S # {}

\* "Circular dependency" is raised exactly on the graphs that have a cycle, and
\* an accepted graph is ordered completely.
CycleIffReported ==
  /\ pc = "cycle" => HasCycle
  /\ pc \in {"levels", "done"} => ~ HasCycle /\ Placed = nodes

\* Level 0 holds the tasks without dependencies; every other task is exactly
\* one level above the highest of its dependencies.  The engine and the master
\* run levels one after the other and rely on it.
LevelsAreTight ==
  pc = "done" =>
    /\ DOMAIN level = nodes
    /\ \A n \in nodes :
         /\ \A d \in dependencies[n] : level[d] < level[n]
         /\ level[n] > 0 => \E d \in dependencies[n] : level[d] = level[n] - 1

\* Sorting a graph built through the API ends, with levels or with a report of
\* a cycle, and never in the middle of the scan.
SortEnds == pc = "scan" ~> pc \in {"done", "cycle"}
=============================================================================

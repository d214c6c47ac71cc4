------------------------ MODULE TopologicalSorterProofs ------------------------
(* The sorter is correct for every finite set of tasks and every graph that   *)
(* add_node and add_dependency can build, in every order of iteration.        *)
(*                                                                            *)
(* The heart of the argument is CountsAreRight: at every turn of Kahn's loop   *)
(* in_degree counts the dependencies that are not placed yet, and the queue    *)
(* holds the tasks that wait to be placed and have none.                      *)
EXTENDS TopologicalSorter, FiniteSetTheorems, WellFoundedInduction, TLAPS

-----------------------------------------------------------------------------
(* Numbers and finite sets *)

LEMMA LeastNat ==
  ASSUME NEW I, I \subseteq Nat, I # {}
  PROVE  \E i \in I : \A j \in I : i <= j
<1>1. PICK i \in I : \A j \in I : ~ (<<j, i>> \in OpToRel(<, Nat))
  BY WFMin, NatLessThanWellFounded
<1>2. \A j \in Nat : <<j, i>> \in OpToRel(<, Nat) <=> j < i
  BY DEF OpToRel
<1>3. \A j \in I : ~ (j < i)
  BY <1>1, <1>2
<1> QED
  BY <1>3

LEMMA CardinalityZero ==
  ASSUME NEW S, IsFiniteSet(S)
  PROVE  /\ Cardinality(S) \in Nat
         /\ Cardinality(S) = 0 <=> S = {}
  BY FS_EmptySet, FS_CardinalityType

-----------------------------------------------------------------------------
(* The invariant *)

Kahn == {"kahn", "levels", "cycle", "done"}  \* where in_degree is complete

\* The shape of what the methods of TaskGraph build: dependencies are nodes, and
\* every node has an entry.
GraphShape == nodes \subseteq Tasks /\ dependencies \in [nodes -> SUBSET nodes]

\* Where each field has its initial value.
Untouched ==
  /\ pc \in {"build", "scan"} => ready = {} /\ order = << >>
  /\ pc \notin {"levels", "done"} => level = << >>
  /\ pc = "build" => scanned = {}

\* The scan has counted the dependencies of the entries it has seen.
ScanCounts ==
  pc = "scan" =>
    inDegree = [n \in nodes |-> IF n \in scanned THEN Cardinality(dependencies[n]) ELSE 0]

\* In Kahn's loop and later: what is counted is not placed.
CountsAreRight ==
  pc \in Kahn =>
    inDegree = [n \in nodes |-> Cardinality(dependencies[n] \ Placed)]

ReadyIsRight ==
  /\ pc = "kahn" => ready = {n \in nodes \ Placed : inDegree[n] = 0}
  /\ pc \in Kahn \ {"kahn"} => ready = {}

\* As many tasks are placed as the order is long.
PlacedIsCounted == IsFiniteSet(Placed) /\ Cardinality(Placed) = Len(order)

\* A task with a level is one above the highest of its dependencies, which all
\* have one.
LevelsSoFar ==
  /\ DOMAIN level \subseteq nodes
  /\ level \in [DOMAIN level -> Nat]
  /\ \A n \in DOMAIN level :
       /\ dependencies[n] \subseteq DOMAIN level
       /\ \A d \in dependencies[n] : level[d] < level[n]
       /\ level[n] > 0 => \E d \in dependencies[n] : level[d] = level[n] - 1

Fields ==
  /\ pc \in {"build", "scan", "kahn", "levels", "cycle", "done"}
  /\ scanned \subseteq nodes
  /\ order \in Seq(nodes)

Inductive ==
  /\ GraphShape /\ Fields /\ Untouched
  /\ ScanCounts /\ CountsAreRight /\ ReadyIsRight
  /\ PlacedIsCounted /\ OrderRespectsDependencies /\ CycleIffReported
  /\ LevelsSoFar /\ (pc = "done" => DOMAIN level = nodes)

-----------------------------------------------------------------------------

LEMMA NodesFinite ==
  ASSUME GraphShape
  PROVE  /\ IsFiniteSet(nodes)
         /\ \A n \in nodes : DepsOf(n) = dependencies[n] /\ dependencies[n] \subseteq nodes
         /\ \A n \in nodes : IsFiniteSet(dependencies[n])
         /\ \A n \in nodes : \A S : IsFiniteSet(dependencies[n] \ S)
<1>1. IsFiniteSet(nodes)
  BY FS_Subset, TasksAssumption DEF GraphShape
<1>2. \A n \in nodes : DepsOf(n) = dependencies[n] /\ dependencies[n] \in SUBSET nodes
  BY DEF GraphShape, DepsOf
<1>3. \A n \in nodes : IsFiniteSet(dependencies[n])
  BY <1>1, <1>2, FS_Subset
<1> QED
  BY <1>1, <1>2, <1>3, FS_Difference

\* What is placed depends on what is placed.
LEMMA PlacedIsClosed ==
  ASSUME GraphShape, Fields, OrderRespectsDependencies, NEW n \in Placed
  PROVE  n \in nodes /\ dependencies[n] \subseteq Placed
<1>1. PICK i \in DOMAIN order : order[i] = n
  BY DEF Placed
<1>2. order[i] \in nodes /\ i \in 1 .. Len(order) /\ DOMAIN order = 1 .. Len(order)
  BY <1>1 DEF Fields
<1> QED
  BY <1>1, <1>2, NodesFinite DEF OrderRespectsDependencies, Placed

\* An order of all tasks, dependencies first, leaves no room for a cycle: the
\* first task of a cycle in the order would need an earlier one of it.
LEMMA OrderedIsAcyclic ==
  ASSUME GraphShape, Fields, OrderRespectsDependencies, Placed = nodes
  PROVE  ~ HasCycle
<1> SUFFICES ASSUME NEW S \in SUBSET nodes, S # {},
                    \A n \in S : dependencies[n] \cap S # {}
             PROVE  FALSE
  BY DEF HasCycle
<1> DEFINE I == {i \in DOMAIN order : order[i] \in S}
<1>1. DOMAIN order = 1 .. Len(order) /\ Len(order) \in Nat
  BY DEF Fields
<1>2. I \subseteq Nat /\ I # {}
  BY <1>1 DEF Placed
<1>3. PICK i \in I : \A j \in I : i <= j
  BY <1>2, LeastNat
<1>4. PICK d \in S : d \in dependencies[order[i]]
  BY <1>3
<1>5. PICK j \in 1 .. i - 1 : order[j] = d
  BY <1>3, <1>4, NodesFinite DEF OrderRespectsDependencies
<1>6. j \in I /\ j < i
  BY <1>1, <1>2, <1>3, <1>4, <1>5
<1> QED
  BY <1>1, <1>2, <1>3, <1>6

\* When nothing is ready and something is left, what is left is a cycle.
LEMMA StuckIsCyclic ==
  ASSUME Inductive, pc = "kahn", ready = {}, Placed # nodes
  PROVE  HasCycle
<1> DEFINE S == nodes \ Placed
<1> USE DEF Inductive
<1>1. S # {}
  BY PlacedIsClosed
<1>2. ASSUME NEW n \in S PROVE dependencies[n] \cap S # {}
  <2>1. Cardinality(dependencies[n] \ Placed) # 0
    BY <1>2 DEF ReadyIsRight, CountsAreRight, Kahn
  <2>2. dependencies[n] \ Placed # {}
    BY <1>2, <2>1, NodesFinite, CardinalityZero
  <2> QED
    BY <1>2, <2>2, NodesFinite
<1> QED
  BY <1>1, <1>2 DEF HasCycle

-----------------------------------------------------------------------------
(* Initial states and steps *)

LEMMA InitInductive == Init => Inductive
<1> SUFFICES ASSUME Init PROVE Inductive
  OBVIOUS
<1> USE DEF Init, InitSort
<1>1. GraphShape /\ Fields /\ Untouched
  BY DEF GraphShape, Fields, Untouched
<1>2. ScanCounts /\ CountsAreRight /\ ReadyIsRight
  BY DEF ScanCounts, CountsAreRight, ReadyIsRight, Kahn
<1>3. Placed = {}
  BY DEF Placed
<1>4. PlacedIsCounted
  BY <1>3, FS_EmptySet DEF PlacedIsCounted
<1>5. OrderRespectsDependencies /\ CycleIffReported
  BY DEF OrderRespectsDependencies, CycleIffReported
<1>6. LevelsSoFar
  BY DEF LevelsSoFar
<1> QED
  BY <1>1, <1>2, <1>4, <1>5, <1>6 DEF Inductive

\* A step that leaves the graph, the order and the levels alone keeps what is
\* said of them.
LEMMA OrderKept ==
  ASSUME Inductive, UNCHANGED <<order, nodes, dependencies>>
  PROVE  PlacedIsCounted' /\ OrderRespectsDependencies' /\ GraphShape' /\ Placed' = Placed
         /\ HasCycle' = HasCycle
  BY DEF Inductive, PlacedIsCounted, OrderRespectsDependencies, GraphShape, Placed, DepsOf, HasCycle

LEMMA LevelsKept ==
  ASSUME Inductive, UNCHANGED <<level, nodes, dependencies>>
  PROVE  LevelsSoFar'
  BY DEF Inductive, LevelsSoFar

\* add_node and add_dependency.
LEMMA BuildKeeps ==
  ASSUME Inductive, NEW n \in Tasks, NEW d \in Tasks, AddNode(n) \/ AddDependency(n, d)
  PROVE  Inductive'
<1> USE DEF Inductive
<1>1. pc = "build" /\ UNCHANGED <<pc, scanned, inDegree, ready, order, level>>
  BY DEF AddNode, AddDependency
<1>2. nodes \subseteq nodes' /\ GraphShape'
  <2>1. CASE AddNode(n)
    <3>1. nodes' = nodes \cup {n} /\ dependencies' = WithEntries({n})
      BY <2>1 DEF AddNode
    <3> QED
      BY <3>1 DEF GraphShape, WithEntries
  <2>2. CASE AddDependency(n, d)
    <3> DEFINE wide == WithEntries({n, d})
    <3>1. nodes' = nodes \cup {n, d} /\ dependencies' = [wide EXCEPT ![n] = @ \cup {d}]
      BY <2>2 DEF AddDependency
    <3>2. wide \in [nodes' -> SUBSET nodes']
      BY <3>1 DEF GraphShape, WithEntries
    <3> HIDE DEF wide
    <3> QED
      BY <3>1, <3>2 DEF GraphShape
  <2> QED
    BY <2>1, <2>2
<1>3. order = << >> /\ level = << >> /\ scanned = {} /\ ready = {}
  BY <1>1 DEF Untouched
<1>4. Fields' /\ Untouched'
  BY <1>1, <1>2, <1>3 DEF Fields, Untouched
<1>5. ScanCounts' /\ CountsAreRight' /\ ReadyIsRight'
  BY <1>1, <1>3 DEF ScanCounts, CountsAreRight, ReadyIsRight, Kahn
<1>6. PlacedIsCounted' /\ OrderRespectsDependencies' /\ CycleIffReported'
  BY <1>1, <1>3 DEF PlacedIsCounted, Placed, OrderRespectsDependencies, CycleIffReported
<1>7. LevelsSoFar'
  BY <1>1, <1>3 DEF LevelsSoFar
<1> QED
  BY <1>1, <1>2, <1>4, <1>5, <1>6, <1>7

LEMMA StartSortKeeps == Inductive /\ StartSort => Inductive'
<1> SUFFICES ASSUME Inductive, StartSort PROVE Inductive'
  OBVIOUS
<1> USE DEF Inductive
<1>1. pc = "build" /\ pc' = "scan" /\ UNCHANGED <<nodes, dependencies, scanned, ready, order, level>>
  BY DEF StartSort
<1>2. ScanCounts'
  BY <1>1 DEF StartSort, ScanCounts, Untouched
<1>3. Fields' /\ Untouched' /\ CountsAreRight' /\ ReadyIsRight' /\ CycleIffReported'
  BY <1>1 DEF Fields, Untouched, CountsAreRight, ReadyIsRight, CycleIffReported, Kahn
<1> QED
  BY <1>1, <1>2, <1>3, OrderKept, LevelsKept

\* In a graph the methods have built, the scan meets no undeclared dependency.
LEMMA ScanKeeps == ASSUME Inductive, NEW n \in Tasks, ScanEntry(n) PROVE Inductive'
<1> USE DEF Inductive
<1> DEFINE D == dependencies[n]
<1>1. pc = "scan" /\ n \in nodes \ scanned /\ scanned' = scanned \cup {n}
      /\ UNCHANGED <<ready, order, level>>
  BY DEF ScanEntry, GraphShape
<1>2. D \ nodes = {} /\ IsFiniteSet(D)
  BY <1>1, NodesFinite
<1>3. WithEntries({}) = dependencies
  BY DEF WithEntries, GraphShape
<1>4. UNCHANGED <<nodes, dependencies, pc>>
  BY <1>1, <1>2, <1>3 DEF ScanEntry
<1>5. inDegree \in [nodes -> Nat] /\ inDegree[n] = 0
  <2>1. \A m \in nodes : Cardinality(dependencies[m]) \in Nat
    BY NodesFinite, CardinalityZero
  <2> QED
    BY <1>1, <2>1 DEF ScanCounts
<1>6. Counts(n, D) = {Cardinality(D)}
  BY <1>1, <1>2, <1>5, CardinalityZero DEF Counts
<1>7. inDegree' = [m \in nodes |-> IF m = n THEN Cardinality(D) ELSE inDegree[m]]
  <2>1. PICK c \in Counts(n, D) :
          inDegree' = [m \in DOMAIN inDegree \cup (D \ nodes) \cup (IF D = {} THEN {} ELSE {n}) |->
                         IF m \in (IF D = {} THEN {} ELSE {n}) THEN c
                         ELSE IF m \in D \ nodes THEN 0 ELSE inDegree[m]]
    BY DEF ScanEntry
  <2>2. c = Cardinality(D)
    BY <1>6, <2>1
  <2>3. CASE D = {}
    BY <1>1, <1>5, <2>1, <2>2, <2>3, FS_EmptySet
  <2>4. CASE D # {}
    BY <1>1, <1>2, <1>5, <2>1, <2>2, <2>4
  <2> QED
    BY <2>3, <2>4
<1>8. ScanCounts'
  BY <1>1, <1>4, <1>7 DEF ScanCounts
<1>9. Fields' /\ Untouched' /\ CountsAreRight' /\ ReadyIsRight' /\ CycleIffReported'
  BY <1>1, <1>4 DEF Fields, Untouched, CountsAreRight, ReadyIsRight, CycleIffReported, Kahn
<1> QED
  BY <1>1, <1>4, <1>8, <1>9, OrderKept, LevelsKept

LEMMA StartKahnKeeps == Inductive /\ StartKahn => Inductive'
<1> SUFFICES ASSUME Inductive, StartKahn PROVE Inductive'
  OBVIOUS
<1> USE DEF Inductive
<1>1. pc = "scan" /\ pc' = "kahn" /\ scanned = nodes
      /\ UNCHANGED <<nodes, dependencies, scanned, inDegree, order, level>>
  BY DEF StartKahn, GraphShape
<1>2. order = << >> /\ Placed = {}
  BY <1>1 DEF Untouched, Placed
<1>3. inDegree = [n \in nodes |-> Cardinality(dependencies[n] \ Placed)]
  <2>1. \A n \in nodes : dependencies[n] \ Placed = dependencies[n]
    BY <1>2
  <2> QED
    BY <1>1, <2>1 DEF ScanCounts
<1>4. CountsAreRight'
  BY <1>1, <1>3, OrderKept DEF CountsAreRight
<1>5. ReadyIsRight'
  BY <1>1, <1>2, <1>3, OrderKept DEF ReadyIsRight, StartKahn
<1>6. Fields' /\ Untouched' /\ ScanCounts' /\ CycleIffReported'
  BY <1>1 DEF Fields, Untouched, ScanCounts, CycleIffReported
<1> QED
  BY <1>1, <1>4, <1>5, <1>6, OrderKept, LevelsKept

\* Kahn's step: the first of the queue is placed, and the tasks that waited for
\* nothing else are queued.
LEMMA PopKeeps == ASSUME Inductive, NEW n \in Tasks, Pop(n) PROVE Inductive'
<1> USE DEF Inductive
<1>1. /\ pc = "kahn" /\ order' = Append(order, n)
      /\ UNCHANGED <<nodes, dependencies, pc, scanned, level>>
  BY DEF Pop
<1>2. n \in nodes \ Placed /\ inDegree[n] = 0
  BY <1>1 DEF Pop, IsFirst, ReadyIsRight
<1>3. inDegree = [m \in nodes |-> Cardinality(dependencies[m] \ Placed)]
  BY <1>1 DEF CountsAreRight, Kahn
<1>4. dependencies[n] \subseteq Placed
  BY <1>2, <1>3, NodesFinite, CardinalityZero
<1>5. /\ DOMAIN order = 1 .. Len(order) /\ Len(order) \in Nat
      /\ order' \in Seq(nodes) /\ Len(order') = Len(order) + 1
      /\ DOMAIN order' = 1 .. Len(order) + 1
      /\ order'[Len(order) + 1] = n
      /\ \A i \in 1 .. Len(order) : order'[i] = order[i]
  BY <1>1, <1>2 DEF Fields
<1>6. Placed' = Placed \cup {n}
  BY <1>5 DEF Placed
<1>7. PlacedIsCounted'
  BY <1>2, <1>5, <1>6, FS_AddElement DEF PlacedIsCounted
<1>8. OrderRespectsDependencies'
  <2> SUFFICES ASSUME NEW i \in DOMAIN order'
               PROVE  /\ dependencies[order'[i]] \subseteq {order'[j] : j \in 1 .. i - 1}
                      /\ \A j \in 1 .. i - 1 : order'[j] # order'[i]
    <3>1. \A m \in nodes : DepsOf(m)' = dependencies[m]
      BY <1>1 DEF DepsOf, GraphShape
    <3>2. \A i \in DOMAIN order' : order'[i] \in nodes
      BY <1>5
    <3> QED
      BY <3>1, <3>2 DEF OrderRespectsDependencies
  <2>1. CASE i = Len(order) + 1
    BY <1>2, <1>4, <1>5, <2>1 DEF Placed
  <2>2. CASE i # Len(order) + 1
    <3>1. i \in DOMAIN order /\ order[i] \in nodes /\ \A j \in 1 .. i : order'[j] = order[j]
      BY <1>5, <2>2 DEF Fields
    <3>2. dependencies[order[i]] \subseteq {order[j] : j \in 1 .. i - 1}
          /\ \A j \in 1 .. i - 1 : order[j] # order[i]
      BY <3>1, NodesFinite DEF OrderRespectsDependencies
    <3> QED
      BY <1>5, <3>1, <3>2
  <2> QED
    BY <2>1, <2>2
<1>9. Neighbors(n) = {m \in nodes : n \in dependencies[m]}
  BY DEF Neighbors, GraphShape
<1>10. ASSUME NEW m \in nodes
       PROVE  /\ n \in dependencies[m] =>
                   /\ Cardinality(dependencies[m] \ Placed) \in Nat \ {0}
                   /\ Cardinality(dependencies[m] \ Placed') = Cardinality(dependencies[m] \ Placed) - 1
              /\ n \notin dependencies[m] => dependencies[m] \ Placed' = dependencies[m] \ Placed
  <2>1. CASE n \in dependencies[m]
    <3> DEFINE R == dependencies[m] \ Placed
    <3>1. IsFiniteSet(R) /\ n \in R /\ R \ {n} = dependencies[m] \ Placed'
      BY <1>2, <1>6, <2>1, NodesFinite
    <3>2. Cardinality(R \ {n}) = Cardinality(R) - 1 /\ Cardinality(R) \in Nat /\ Cardinality(R) # 0
      BY <3>1, FS_RemoveElement, CardinalityZero
    <3> QED
      BY <2>1, <3>1, <3>2
  <2>2. CASE n \notin dependencies[m]
    BY <1>6, <2>2
  <2> QED
    BY <2>1, <2>2
<1>11. inDegree' = [m \in nodes |-> Cardinality(dependencies[m] \ Placed')]
  <2>1. inDegree' = [m \in nodes |-> IF n \in dependencies[m] THEN inDegree[m] - 1 ELSE inDegree[m]]
    BY <1>3, <1>9 DEF Pop
  <2> QED
    BY <1>3, <1>10, <2>1
<1>12. CountsAreRight'
  BY <1>1, <1>11 DEF CountsAreRight
<1>13. ready' = {m \in nodes \ Placed' : inDegree'[m] = 0}
  <2>1. ready' = (ready \ {n}) \cup {m \in nodes : n \in dependencies[m] /\ inDegree[m] = 1}
    BY <1>9 DEF Pop, Released
  <2>2. ready = {m \in nodes \ Placed : inDegree[m] = 0}
    BY <1>1 DEF ReadyIsRight
  <2>3. \A m \in nodes : n \in dependencies[m] => m \notin Placed /\ m # n
    BY <1>2, <1>4, PlacedIsClosed
  <2>4. \A m \in nodes : /\ n \in dependencies[m] =>
                              inDegree[m] # 0 /\ (inDegree'[m] = 0 <=> inDegree[m] = 1)
                         /\ n \notin dependencies[m] => inDegree'[m] = inDegree[m]
    BY <1>3, <1>10, <1>11
  <2> QED
    BY <1>6, <2>1, <2>2, <2>3, <2>4
<1>14. ReadyIsRight'
  BY <1>1, <1>13 DEF ReadyIsRight
<1>15. Fields' /\ Untouched' /\ ScanCounts' /\ CycleIffReported'
  BY <1>1, <1>5 DEF Fields, Untouched, ScanCounts, CycleIffReported
<1>16. GraphShape'
  BY <1>1 DEF GraphShape
<1> QED
  BY <1>1, <1>7, <1>8, <1>12, <1>14, <1>15, <1>16, LevelsKept

\* The order is as long as there are nodes exactly when there is no cycle.
LEMMA FinishKahnKeeps == Inductive /\ FinishKahn => Inductive'
<1> SUFFICES ASSUME Inductive, FinishKahn PROVE Inductive'
  OBVIOUS
<1> USE DEF Inductive
<1>1. /\ pc = "kahn" /\ ready = {}
      /\ UNCHANGED <<nodes, dependencies, scanned, inDegree, ready, order, level>>
      /\ pc' = IF Len(order) = Cardinality(nodes) THEN "levels" ELSE "cycle"
  BY DEF FinishKahn
<1>2. Placed \subseteq nodes
  BY PlacedIsClosed
<1>3. CycleIffReported'
  <2>1. CASE Len(order) = Cardinality(nodes)
    <3>1. Placed = nodes
      BY <1>2, <2>1, NodesFinite, FS_Subset DEF PlacedIsCounted
    <3>2. ~ HasCycle
      BY <3>1, OrderedIsAcyclic
    <3> QED
      BY <1>1, <2>1, <3>1, <3>2, OrderKept DEF CycleIffReported
  <2>2. CASE Len(order) # Cardinality(nodes)
    <3>1. HasCycle
      BY <1>1, <2>2, StuckIsCyclic DEF PlacedIsCounted
    <3> QED
      BY <1>1, <2>2, <3>1, OrderKept DEF CycleIffReported
  <2> QED
    BY <2>1, <2>2
<1>4. CountsAreRight' /\ ReadyIsRight'
  BY <1>1, OrderKept DEF CountsAreRight, ReadyIsRight, Kahn
<1>5. Fields' /\ Untouched' /\ ScanCounts' /\ pc' # "done"
  BY <1>1 DEF Fields, Untouched, ScanCounts
<1> QED
  BY <1>1, <1>3, <1>4, <1>5, OrderKept, LevelsKept

\* What a task waits for is earlier in the order and has its level.
LEMMA AssignLevelKeeps ==
  ASSUME Inductive, NEW i \in 1 .. Len(order), AssignLevel(i)
  PROVE  Inductive'
<1> USE DEF Inductive
<1> DEFINE n == order[i]
<1>1. /\ pc = "levels" /\ i \in DOMAIN order /\ n \notin DOMAIN level
      /\ \A j \in 1 .. i - 1 : order[j] \in DOMAIN level
      /\ UNCHANGED <<nodes, dependencies, pc, scanned, inDegree, ready, order>>
  BY DEF AssignLevel
<1>2. PICK l \in 0 .. Len(order) :
        /\ IsLevel(n, l)
        /\ level' = [m \in DOMAIN level \cup {n} |-> IF m = n THEN l ELSE level[m]]
  BY DEF AssignLevel
<1>3. n \in nodes /\ DepsOf(n) = dependencies[n] /\ dependencies[n] \subseteq DOMAIN level
  BY <1>1, NodesFinite DEF Fields, OrderRespectsDependencies
<1>4. \A d \in dependencies[n] : LevelOf(d) = level[d] /\ level[d] \in Nat
  BY <1>3 DEF LevelOf, LevelsSoFar
<1>5. l \in Nat
  BY <1>2 DEF Fields
<1>6. /\ \A d \in dependencies[n] : level[d] < l
      /\ l > 0 => \E d \in dependencies[n] : level[d] = l - 1
  BY <1>2, <1>3, <1>4, <1>5 DEF IsLevel
<1>7. /\ DOMAIN level' = DOMAIN level \cup {n} /\ level'[n] = l
      /\ \A m \in DOMAIN level : level'[m] = level[m]
  BY <1>1, <1>2
<1>8. LevelsSoFar'
  <2>1. DOMAIN level' \subseteq nodes' /\ level' \in [DOMAIN level' -> Nat]
    BY <1>1, <1>2, <1>3, <1>5 DEF LevelsSoFar
  <2>2. ASSUME NEW m \in DOMAIN level'
        PROVE  /\ dependencies[m] \subseteq DOMAIN level'
               /\ \A d \in dependencies[m] : level'[d] < level'[m]
               /\ level'[m] > 0 => \E d \in dependencies[m] : level'[d] = level'[m] - 1
    <3>1. CASE m = n
      BY <1>3, <1>6, <1>7, <3>1
    <3>2. CASE m # n
      BY <1>7, <3>2 DEF LevelsSoFar
    <3> QED
      BY <3>1, <3>2
  <2> QED
    BY <1>1, <2>1, <2>2 DEF LevelsSoFar
<1>9. Fields' /\ Untouched' /\ ScanCounts' /\ CountsAreRight' /\ ReadyIsRight' /\ CycleIffReported'
  BY <1>1, OrderKept DEF Fields, Untouched, ScanCounts, CountsAreRight, ReadyIsRight, CycleIffReported
<1> QED
  BY <1>1, <1>8, <1>9, OrderKept

LEMMA FinishLevelsKeeps == Inductive /\ FinishLevels => Inductive'
<1> SUFFICES ASSUME Inductive, FinishLevels PROVE Inductive'
  OBVIOUS
<1> USE DEF Inductive
<1>1. /\ pc = "levels" /\ pc' = "done" /\ Placed \subseteq DOMAIN level
      /\ UNCHANGED <<nodes, dependencies, scanned, inDegree, ready, order, level>>
  BY DEF FinishLevels
<1>2. DOMAIN level' = nodes'
  BY <1>1 DEF CycleIffReported, LevelsSoFar
<1>3. Fields' /\ Untouched' /\ ScanCounts' /\ ReadyIsRight'
  BY <1>1 DEF Fields, Untouched, ScanCounts, ReadyIsRight, Kahn
<1>4. CountsAreRight' /\ CycleIffReported'
  BY <1>1, OrderKept DEF CountsAreRight, CycleIffReported, Kahn
<1> QED
  BY <1>1, <1>2, <1>3, <1>4, OrderKept, LevelsKept

LEMMA StepInductive == Inductive /\ [Next]_vars => Inductive'
<1> SUFFICES ASSUME Inductive, [Next]_vars PROVE Inductive'
  OBVIOUS
<1>1. CASE Build
  BY <1>1, BuildKeeps DEF Build
<1>2. CASE StartSort
  BY <1>2, StartSortKeeps
<1>3. CASE Sort
  BY <1>3, ScanKeeps, PopKeeps, StartKahnKeeps, FinishKahnKeeps, AssignLevelKeeps, FinishLevelsKeeps
     DEF Sort
<1>4. CASE UNCHANGED vars
  BY <1>4, OrderKept, LevelsKept
     DEF vars, Inductive, Fields, Untouched, ScanCounts, CountsAreRight, ReadyIsRight, CycleIffReported
<1> QED
  BY <1>1, <1>2, <1>3, <1>4 DEF Next

LEMMA InductiveHolds == Spec => []Inductive
  BY InitInductive, StepInductive, PTL DEF Spec

-----------------------------------------------------------------------------
(* The theorems *)

\* The fields keep their types: dependencies always has an entry for every node
\* and names only nodes, so no lookup of the algorithm fails.
THEOREM TypeCorrect == Spec => []TypeOK
<1>1. Inductive => TypeOK
  <2> SUFFICES ASSUME Inductive PROVE TypeOK
    OBVIOUS
  <2> USE DEF Inductive
  <2>1. pc # "build" => inDegree \in [nodes -> Nat]
    <3>1. \A n \in nodes : Cardinality(dependencies[n]) \in Nat
                        /\ Cardinality(dependencies[n] \ Placed) \in Nat
      BY NodesFinite, CardinalityZero
    <3>2. pc = "scan" => inDegree \in [nodes -> Nat]
      <4>1. \A n \in nodes : (IF n \in scanned THEN Cardinality(dependencies[n]) ELSE 0) \in Nat
        BY <3>1
      <4> QED
        BY <4>1 DEF ScanCounts
    <3>3. pc \in Kahn => inDegree \in [nodes -> Nat]
      BY <3>1 DEF CountsAreRight
    <3> QED
      BY <3>2, <3>3 DEF Kahn, Fields
  <2>2. ready \in SUBSET nodes
    BY DEF ReadyIsRight, Untouched, Fields, Kahn
  <2>3. \E S \in SUBSET nodes : level \in [S -> Nat]
    BY DEF LevelsSoFar
  <2> QED
    BY <2>1, <2>2, <2>3 DEF TypeOK, GraphShape, Fields, Ended
<1> QED
  BY <1>1, InductiveHolds, PTL

\* Whatever graph was built and however the scan iterated, the result of sort()
\* lists no task twice, and a task only after everything it waits for.
THEOREM OrderIsRight == Spec => []OrderRespectsDependencies
<1>1. Inductive => OrderRespectsDependencies
  BY DEF Inductive
<1> QED
  BY <1>1, InductiveHolds, PTL

\* sort() reports a circular dependency exactly on the graphs that have one, and
\* orders every other graph completely.
THEOREM CyclesAreReported == Spec => []CycleIffReported
<1>1. Inductive => CycleIffReported
  BY DEF Inductive
<1> QED
  BY <1>1, InductiveHolds, PTL

\* get_execution_levels puts every task exactly one level above the highest of
\* its dependencies: what the engine and the master assume of their levels.
THEOREM LevelsAreRight == Spec => []LevelsAreTight
<1>1. Inductive => LevelsAreTight
  BY DEF Inductive, LevelsSoFar, LevelsAreTight
<1> QED
  BY <1>1, InductiveHolds, PTL
=============================================================================

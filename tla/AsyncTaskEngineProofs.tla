------------------------ MODULE AsyncTaskEngineProofs ------------------------
(* Safety of the engine for every set of tasks and graphs, every bound on    *)
(* concurrency and retries, and every Bloom filter.                          *)
(*                                                                           *)
(* The invariants are proved in layers: types, then where the children are   *)
(* (Structure), then the others, each from the ones before it.  What one     *)
(* step of a child does is stated once, in ChildEffect.                      *)
EXTENDS AsyncTaskEngine, BloomFilterLemmas, FiniteSetTheorems

-----------------------------------------------------------------------------
(* Types *)

LEMMA NoGraphHasNoNodes == NodesOf(NoGraph) = {}
  BY DEF NodesOf, NoGraph

LEMMA InitTyped == Init => TypeOK
<1> SUFFICES ASSUME Init PROVE TypeOK
  OBVIOUS
<1>1. bloom \in Bitmaps
  BY EmptyBitmapTyped DEF Init
<1>2. permits \in Nat
  BY EngineAssumption DEF Init
<1> QED
  BY <1>1, <1>2 DEF Init, TypeOK, Outside, Statuses, Active, Holding

LEMMA RunTyped == TypeOK /\ RunStep => TypeOK'
<1> SUFFICES ASSUME TypeOK, RunStep PROVE TypeOK'
  OBVIOUS
<1> USE DEF TypeOK, runVars, childVars, Outside, Statuses, Final
<1>1. CASE StartLevel
  BY <1>1 DEF StartLevel, Active, Holding
<1>2. CASE SkipRemaining
  BY <1>2 DEF SkipRemaining
<1>3. CASE Finish
  BY <1>3 DEF Finish
<1>4. CASE NextLevel
  BY <1>4 DEF NextLevel
<1>5. CASE CancelOnError
  BY <1>5 DEF CancelOnError
<1>6. CASE CancelSlept
  BY <1>6 DEF CancelSlept
<1>7. CASE GatherRaises
  BY <1>7 DEF GatherRaises
<1> QED
  BY <1>1, <1>2, <1>3, <1>4, <1>5, <1>6, <1>7 DEF RunStep

LEMMA ChildTyped == ASSUME TypeOK, NEW t \in Tasks, Child(t) PROVE TypeOK'
<1> USE DEF TypeOK, runVars, Outside, Statuses, Final, Active, Holding, EndWith, BeginAttempt
<1>1. CASE AcquireAndRun(t)
  BY <1>1 DEF AcquireAndRun
<1>2. CASE AcquireAndEnd(t)
  BY <1>2 DEF AcquireAndEnd
<1>3. CASE ExecSuccess(t)
  <2>1. bloom' \in Bitmaps
    BY <1>3, AddedTyped, EngineAssumption DEF ExecSuccess
  <2> QED
    BY <1>3, <2>1 DEF ExecSuccess
<1>4. CASE ExecFailRetry(t)
  BY <1>4 DEF ExecFailRetry
<1>5. CASE ExecFailFinal(t)
  BY <1>5 DEF ExecFailFinal
<1>6. CASE Retry(t)
  BY <1>6 DEF Retry
<1>7. CASE RetryCancelled(t)
  BY <1>7 DEF RetryCancelled
<1>8. CASE InterruptWaiting(t)
  BY <1>8 DEF InterruptWaiting
<1>9. CASE InterruptBackoff(t)
  BY <1>9 DEF InterruptBackoff
<1> QED
  BY <1>1, <1>2, <1>3, <1>4, <1>5, <1>6, <1>7, <1>8, <1>9 DEF Child

LEMMA NextTyped == TypeOK /\ [Next]_vars => TypeOK'
<1> SUFFICES ASSUME TypeOK, [Next]_vars PROVE TypeOK'
  OBVIOUS
<1>1. ASSUME NEW g \in Graphs, StartRun(g) PROVE TypeOK'
  <2>1. status' \in [Tasks -> Statuses] /\ phase' \in [Tasks -> {"none", "ended", "error"} \cup Active]
    BY <1>1 DEF StartRun, Statuses
  <2>2. rpc' \in Outside \cup {"level", "gather", "cancelling"} /\ graph' \in Graphs
    BY <1>1 DEF StartRun, Outside
  <2>3. runs' \in Nat /\ lvl' \in Nat
    BY <1>1 DEF StartRun, TypeOK
  <2>4. retryCount' \in [Tasks -> Nat]
    BY <1>1 DEF StartRun
  <2>5. interrupted' \in SUBSET Tasks /\ aborting' \in BOOLEAN /\ cancelEvent' \in BOOLEAN
    BY <1>1 DEF StartRun
  <2>6. /\ permits' \in Nat /\ bloom' \in Bitmaps /\ succeeded' \in SUBSET Tasks
        /\ continueOnFailure' \in BOOLEAN
    BY <1>1 DEF StartRun, TypeOK
  <2> QED
    BY <2>1, <2>2, <2>3, <2>4, <2>5, <2>6 DEF TypeOK
<1>2. CASE AbortRun
  BY <1>2 DEF AbortRun, TypeOK, Outside, ToInterrupt, InPhase
<1>3. CASE Cancel
  BY <1>3 DEF Cancel, TypeOK, runVars, childVars
<1>4. CASE UNCHANGED vars
  BY <1>4 DEF vars, runVars, childVars, TypeOK
<1> QED
  BY <1>1, <1>2, <1>3, <1>4, RunTyped, ChildTyped DEF Next

\* The types of the engine's fields.
THEOREM TypeCorrect == Spec => []TypeOK
  BY InitTyped, NextTyped, PTL DEF Spec

-----------------------------------------------------------------------------
(* Where the children are *)

\* The step of one child leaves run(), the graph and the other children alone,
\* and takes its own from an active phase to one of four ends.
LEMMA ChildEffect ==
  ASSUME TypeOK, NEW t \in Tasks, Child(t)
  PROVE  /\ UNCHANGED <<continueOnFailure, runs, graph, rpc, lvl, aborting, cancelEvent>>
         /\ phase[t] \in Active
         /\ \A u \in Tasks \ {t} : /\ phase'[u] = phase[u]
                                  /\ status'[u] = status[u]
                                  /\ retryCount'[u] = retryCount[u]
         /\ interrupted \ {t} \subseteq interrupted'
         /\ interrupted' \subseteq interrupted
         /\ \/ phase'[t] = "executing" /\ status'[t] = "running"
            \/ phase'[t] = "backoff" /\ status'[t] = status[t] /\ phase[t] = "executing"
            \/ phase'[t] = "ended" /\ status'[t] \in Final
            \/ /\ phase'[t] = "error" /\ status'[t] = status[t]
               /\ t \in interrupted \/ (phase[t] = "waiting" /\ t \in Faulty)
<1> USE DEF TypeOK, runVars, Final, Active, Holding, EndWith, BeginAttempt
<1>1. CASE AcquireAndRun(t)
  BY <1>1 DEF AcquireAndRun
<1>2. CASE AcquireAndEnd(t)
  BY <1>2 DEF AcquireAndEnd, Verdict
<1>3. CASE ExecSuccess(t)
  BY <1>3 DEF ExecSuccess
<1>4. CASE ExecFailRetry(t)
  BY <1>4 DEF ExecFailRetry
<1>5. CASE ExecFailFinal(t)
  BY <1>5 DEF ExecFailFinal
<1>6. CASE Retry(t)
  BY <1>6 DEF Retry
<1>7. CASE RetryCancelled(t)
  BY <1>7 DEF RetryCancelled
<1>8. CASE InterruptWaiting(t)
  BY <1>8 DEF InterruptWaiting
<1>9. CASE InterruptBackoff(t)
  BY <1>9 DEF InterruptBackoff
<1> QED
  BY <1>1, <1>2, <1>3, <1>4, <1>5, <1>6, <1>7, <1>8, <1>9 DEF Child

Structure == GraphAccepted /\ ChildrenInLevel /\ LaterLevelsUntouched /\ AbortReachesAll

LEMMA StructureInit == Init => Structure
<1> SUFFICES ASSUME Init PROVE Structure
  OBVIOUS
<1>1. GraphAccepted /\ LaterLevelsUntouched /\ AbortReachesAll
  BY DEF Init, Outside, GraphAccepted, LaterLevelsUntouched, AbortReachesAll
<1>2. ChildrenInLevel
  BY DEF Init, ChildrenInLevel, Active, Holding
<1> QED
  BY <1>1, <1>2 DEF Structure

LEMMA StructureStart ==
  ASSUME TypeOK, NEW g \in Graphs, StartRun(g) PROVE Structure'
<1>1. GraphAccepted'
  BY DEF StartRun, GraphAccepted, Outside
<1>2. ChildrenInLevel'
  BY DEF StartRun, ChildrenInLevel, Active, Holding
<1>3. LaterLevelsUntouched'
  <2>1. NodesOf(g) \subseteq Tasks
    BY EngineAssumption DEF IsGraph
  <2> QED
    BY <2>1 DEF StartRun, LaterLevelsUntouched, Nodes
<1>4. AbortReachesAll'
  BY DEF StartRun, AbortReachesAll
<1> QED
  BY <1>1, <1>2, <1>3, <1>4 DEF Structure

LEMMA StructureChild ==
  ASSUME TypeOK, Structure, NEW t \in Tasks, Child(t) PROVE Structure'
<1> USE ChildEffect DEF Structure
<1>1. rpc = "gather" /\ t \in Nodes /\ graph.level[t] = lvl
  BY DEF ChildrenInLevel
<1>2. GraphAccepted'
  BY DEF GraphAccepted
<1>3. ChildrenInLevel'
  <2>1. t \in interrupted => aborting
    BY DEF AbortReachesAll
  <2> SUFFICES ASSUME NEW u \in Tasks
               PROVE /\ phase'[u] \in Active => rpc' = "gather" /\ u \in Nodes' /\ graph'.level[u] = lvl'
                     /\ phase'[u] = "waiting" => status'[u] = "pending"
                     /\ phase'[u] \in Holding => status'[u] = "running"
                     /\ phase'[u] = "ended" => status'[u] \in Final
                     /\ phase'[u] = "error" => aborting' \/ (u \in Faulty /\ status'[u] = "pending")
    BY DEF ChildrenInLevel
  <2>2. CASE u # t
    BY <2>2 DEF ChildrenInLevel, Nodes
  <2>3. CASE u = t
    BY <1>1, <2>1, <2>3 DEF ChildrenInLevel, Nodes, Active, Holding
  <2> QED
    BY <2>2, <2>3
<1>4. LaterLevelsUntouched'
  <2>1. \A u \in Nodes : ~ Begun(graph.level[u]) => u # t
    BY <1>1 DEF Begun
  <2>2. Nodes \subseteq Tasks
    BY EngineAssumption, NoGraphHasNoNodes DEF TypeOK, Nodes, IsGraph
  <2> QED
    BY <2>1, <2>2 DEF LaterLevelsUntouched, Begun, Nodes
<1>5. AbortReachesAll'
  BY DEF AbortReachesAll, InPhase
<1> QED
  BY <1>2, <1>3, <1>4, <1>5

LEMMA NodesAreTasks ==
  ASSUME TypeOK
  PROVE  /\ Nodes \subseteq Tasks
         /\ rpc \notin Outside /\ GraphAccepted => graph.level \in [Nodes -> Nat]
  BY EngineAssumption, NoGraphHasNoNodes DEF TypeOK, Nodes, IsGraph, GraphAccepted

LEMMA StructureRun ==
  ASSUME TypeOK, Structure, RunStep \/ AbortRun \/ Cancel PROVE Structure'
<1> USE NodesAreTasks DEF Structure
<1>0. lvl \in Nat /\ phase \in [Tasks -> {"none", "ended", "error"} \cup Active]
      /\ status \in [Tasks -> Statuses]
  BY DEF TypeOK
<1>1. CASE StartLevel
  <2>1. \A u \in Tasks : phase[u] \notin Active
    BY <1>1 DEF StartLevel, ChildrenInLevel
  <2>2. GraphAccepted' /\ graph \in Graphs /\ graph.level \in [Nodes -> Nat] /\ rpc = "level"
    BY <1>1 DEF StartLevel, GraphAccepted, Outside
  <2>3. \A u \in LevelNodes(lvl) : phase[u] = "none" /\ status[u] = "pending"
    BY <1>1, <2>2 DEF LevelNodes, LaterLevelsUntouched, Begun, Outside
  <2>4. /\ \A u \in Tasks : phase'[u] = IF u \in Started THEN "waiting" ELSE phase[u]
        /\ \A u \in Tasks : status'[u] = IF u \in AlreadyDone THEN "skipped" ELSE status[u]
    BY <1>1 DEF StartLevel
  <2>5. Started \cap AlreadyDone = {} /\ Started \subseteq LevelNodes(lvl)
        /\ AlreadyDone \subseteq LevelNodes(lvl)
    BY DEF Started, AlreadyDone
  <2>6. ChildrenInLevel'
    <3>1. ASSUME NEW u \in Started
          PROVE  /\ phase'[u] = "waiting" /\ status'[u] = "pending"
                 /\ rpc' = "gather" /\ u \in Nodes' /\ graph'.level[u] = lvl'
      BY <1>1, <2>3, <2>4, <2>5 DEF StartLevel, LevelNodes, Nodes
    <3>2. ASSUME NEW u \in Tasks \ Started
          PROVE  phase'[u] = phase[u] /\ (status'[u] = status[u] \/ (phase[u] = "none"))
      BY <2>3, <2>4, <2>5
    <3>3. UNCHANGED aborting
      BY <1>1 DEF StartLevel
    <3> QED
      BY <2>1, <3>1, <3>2, <3>3 DEF ChildrenInLevel, Active, Holding
  <2>7. LaterLevelsUntouched'
    <3> SUFFICES ASSUME NEW u \in Nodes', ~ Begun(graph.level[u])'
                 PROVE  phase'[u] = "none" /\ status'[u] = "pending"
      BY DEF LaterLevelsUntouched
    <3>1. u \in Nodes /\ graph'.level[u] = graph.level[u] /\ graph.level[u] \in Nat
      BY <1>1, <2>2 DEF StartLevel, Nodes
    <3>2. graph.level[u] # lvl /\ ~ Begun(graph.level[u])
      BY <1>0, <1>1, <3>1, <2>2 DEF StartLevel, Begun
    <3>3. phase[u] = "none" /\ status[u] = "pending"
      BY <3>1, <3>2, <2>2 DEF LaterLevelsUntouched, Outside
    <3> QED
      BY <3>1, <3>2, <3>3, <2>4, <2>5 DEF LevelNodes
  <2>8. AbortReachesAll'
    BY <1>1 DEF StartLevel, AbortReachesAll
  <2> QED
    BY <2>2, <2>6, <2>7, <2>8
<1>2. CASE SkipRemaining
  <2>1. \A u \in LevelNodes(lvl) : phase[u] = "none"
    BY <1>2 DEF SkipRemaining, LevelNodes, LaterLevelsUntouched, Begun, Outside
  <2>2. ChildrenInLevel'
    <3>1. \A u \in Tasks : phase[u] \notin Active
      BY <1>2 DEF SkipRemaining, ChildrenInLevel
    <3>2. \A u \in Tasks : phase[u] # "none" => status'[u] = status[u]
      BY <1>2, <2>1 DEF SkipRemaining
    <3>3. UNCHANGED <<phase, aborting>>
      BY <1>2 DEF SkipRemaining
    <3> QED
      BY <3>1, <3>2, <3>3 DEF ChildrenInLevel, Active, Holding
  <2> QED
    BY <1>2, <2>2 DEF SkipRemaining, GraphAccepted, LaterLevelsUntouched, AbortReachesAll, Outside
<1>3. CASE Finish
  BY <1>3 DEF Finish, childVars, GraphAccepted, ChildrenInLevel, LaterLevelsUntouched,
              AbortReachesAll, Outside
<1>4. CASE NextLevel \/ CancelSlept
  <2>1. /\ UNCHANGED <<graph, status, phase, interrupted, aborting>>
        /\ rpc \in {"gather", "cancelling"} /\ rpc' = "level" /\ lvl' = lvl + 1
    BY <1>4 DEF NextLevel, CancelSlept, GatherDone, childVars
  <2>2. GraphAccepted' /\ graph.level \in [Nodes -> Nat] /\ rpc \notin Outside
    BY <2>1 DEF GraphAccepted, Outside
  <2>3. ~ aborting
    BY <1>4 DEF NextLevel, CancelSlept, AbortReachesAll
  <2>4. ChildrenInLevel'
    <3>1. \A u \in Tasks : phase[u] \notin Active
      BY <1>0, <1>4 DEF NextLevel, CancelSlept, GatherDone, InPhase, ChildrenInLevel
    <3> QED
      BY <2>1, <3>1 DEF ChildrenInLevel
  <2>5. LaterLevelsUntouched'
    BY <1>0, <2>1, <2>2 DEF LaterLevelsUntouched, Begun, Nodes
  <2>6. AbortReachesAll'
    BY <2>1, <2>3 DEF AbortReachesAll
  <2> QED
    BY <2>2, <2>4, <2>5, <2>6
<1>5. CASE CancelOnError
  <2>1. /\ UNCHANGED <<graph, lvl, status, phase, interrupted, aborting>>
        /\ rpc = "gather" /\ rpc' = "cancelling" /\ ~ aborting
        /\ \A u \in Tasks : phase[u] \notin Active
    BY <1>0, <1>5 DEF CancelOnError, GatherDone, childVars, InPhase
  <2>2. GraphAccepted' /\ ChildrenInLevel' /\ AbortReachesAll'
    BY <2>1 DEF GraphAccepted, ChildrenInLevel, AbortReachesAll, Outside
  <2>3. LaterLevelsUntouched'
    BY <2>1 DEF LaterLevelsUntouched, Begun, Nodes, Outside
  <2> QED
    BY <2>2, <2>3
<1>6. CASE GatherRaises
  <2>1. /\ UNCHANGED <<graph, lvl, status, phase, interrupted, aborting>>
        /\ rpc' = "raised" /\ aborting
        /\ \A u \in Tasks : phase[u] \notin Active
    BY <1>0, <1>6 DEF GatherRaises, GatherDone, childVars, InPhase
  <2> QED
    BY <2>1 DEF GraphAccepted, ChildrenInLevel, LaterLevelsUntouched,
                AbortReachesAll, Outside, InPhase, Active
<1>7. CASE AbortRun
  <2>1. /\ UNCHANGED <<graph, lvl, status, phase>> /\ aborting'
        /\ rpc \in {"gather", "cancelling"} /\ rpc' \in {"gather", "raised"}
        /\ interrupted' = InPhase(Active)
        /\ rpc = "gather" => rpc' = rpc
    BY <1>7 DEF AbortRun, ToInterrupt
  <2>2. GraphAccepted' /\ AbortReachesAll'
    BY <2>1 DEF GraphAccepted, AbortReachesAll, Outside, InPhase, Active
  <2>3. ChildrenInLevel'
    BY <2>1 DEF ChildrenInLevel, Nodes
  <2>4. LaterLevelsUntouched'
    BY <2>1 DEF LaterLevelsUntouched, Begun, Nodes, Outside
  <2> QED
    BY <2>2, <2>3, <2>4
<1>8. CASE Cancel
  BY <1>8 DEF Cancel, runVars, childVars, GraphAccepted, ChildrenInLevel,
              LaterLevelsUntouched, AbortReachesAll, Begun, Nodes, InPhase
<1> QED
  BY <1>1, <1>2, <1>3, <1>4, <1>5, <1>6, <1>7, <1>8 DEF RunStep

LEMMA StructureNext == TypeOK /\ Structure /\ [Next]_vars => Structure'
<1> SUFFICES ASSUME TypeOK, Structure, [Next]_vars PROVE Structure'
  OBVIOUS
<1>1. CASE UNCHANGED vars
  BY <1>1 DEF vars, runVars, childVars, Structure, GraphAccepted, ChildrenInLevel,
              LaterLevelsUntouched, AbortReachesAll, Begun, Nodes, InPhase
<1> QED
  BY <1>1, StructureStart, StructureRun, StructureChild DEF Next

\* Where the children of a run are, and what an abort has reached.
THEOREM StructureHolds == Spec => []Structure
  BY TypeCorrect, StructureInit, StructureNext, PTL DEF Spec

\* run() is a barrier between the levels: proved of every graph and every
\* interleaving of the children, their failures and cancellations.
THEOREM LevelsAreBarriers == Spec => []LevelBarrier
<1>1. TypeOK /\ Structure => LevelBarrier
  <2> SUFFICES ASSUME TypeOK, Structure, NEW t \in InPhase(Active), NEW u \in Nodes
               PROVE  /\ graph.level[u] # graph.level[t] => phase[u] \notin Active
                      /\ graph.level[u] > graph.level[t] => phase[u] = "none" /\ status[u] = "pending"
    BY DEF LevelBarrier
  <2>1. rpc = "gather" /\ graph.level[t] = lvl /\ t \in Nodes
    BY DEF InPhase, Structure, ChildrenInLevel
  <2>2. u \in Tasks /\ graph.level[u] \in Nat
    BY <2>1, NodesAreTasks DEF Structure, Outside
  <2>3. graph.level[u] # lvl => phase[u] \notin Active
    BY <2>2 DEF Structure, ChildrenInLevel
  <2>4. graph.level[u] > lvl => ~ Begun(graph.level[u])
    BY <2>1, <2>2 DEF Begun, TypeOK
  <2> QED
    BY <2>1, <2>3, <2>4 DEF Structure, LaterLevelsUntouched, Outside
<1> QED
  BY <1>1, TypeCorrect, StructureHolds, PTL

-----------------------------------------------------------------------------
(* The steps that no child takes *)

\* Within a run they start tasks the filter does not report, and mark pending
\* tasks of the level run() is at, before it has children.
LEMMA RunEffect ==
  ASSUME TypeOK, Structure, RunStep \/ AbortRun \/ Cancel \/ UNCHANGED vars
  PROVE  /\ UNCHANGED <<continueOnFailure, runs, graph, retryCount, permits, bloom, succeeded>>
         /\ \A u \in Tasks : phase'[u] # phase[u] =>
              /\ phase[u] = "none" /\ phase'[u] = "waiting"
              /\ ~ MayContain(bloom, u)
         /\ \A u \in Tasks : status'[u] # status[u] =>
              /\ rpc = "level" /\ u \in LevelNodes(lvl)
              /\ status[u] = "pending"
              /\ status'[u] = "cancelled" \/ (status'[u] = "skipped" /\ MayContain(bloom, u))
<1>1. CASE StartLevel
  <2>1. \A u \in LevelNodes(lvl) : phase[u] = "none" /\ status[u] = "pending"
    BY <1>1 DEF StartLevel, LevelNodes, Structure, LaterLevelsUntouched, Begun, Outside, TypeOK
  <2> QED
    BY <1>1, <2>1 DEF StartLevel, Started, AlreadyDone, TypeOK
<1>2. CASE SkipRemaining
  BY <1>2 DEF SkipRemaining, TypeOK
<1>3. CASE Finish \/ NextLevel \/ CancelOnError \/ CancelSlept \/ GatherRaises
  BY <1>3 DEF Finish, NextLevel, CancelOnError, CancelSlept, GatherRaises, childVars
<1>4. CASE AbortRun \/ Cancel \/ UNCHANGED vars
  BY <1>4 DEF AbortRun, Cancel, vars, runVars, childVars
<1> QED
  BY <1>1, <1>2, <1>3, <1>4 DEF RunStep

\* There are children only while run() awaits gather.
LEMMA NobodyActive ==
  ASSUME Structure, rpc # "gather" PROVE \A u \in Tasks : phase[u] \notin Active
  BY DEF Structure, ChildrenInLevel

-----------------------------------------------------------------------------
(* The filter *)

\* What succeeded is in the filter, so it is not started again.
Filtered == SucceededInFilter /\ SuccessIsNeverRepeated

LEMMA FilteredChild ==
  ASSUME TypeOK, Filtered, NEW t \in Tasks, Child(t) PROVE Filtered'
<1> USE DEF Filtered, SucceededInFilter, SuccessIsNeverRepeated, InPhase
<1>1. CASE ExecSuccess(t)
  <2>1. bloom \in Bitmaps /\ succeeded \subseteq Items /\ t \in Items
    BY EngineAssumption DEF TypeOK
  <2>2. \A u \in succeeded : MayContain(Added(bloom, t), u)
    BY <2>1, AddedKeeps
  <2>3. MayContain(Added(bloom, t), t)
    BY <2>1, AddedContains
  <2>4. SucceededInFilter'
    BY <1>1, <2>2, <2>3 DEF ExecSuccess
  <2>5. phase' = [phase EXCEPT ![t] = "ended"] /\ succeeded' = succeeded \cup {t}
    BY <1>1 DEF ExecSuccess, EndWith
  <2>6. SuccessIsNeverRepeated'
    BY <2>5 DEF TypeOK, Active, Holding
  <2> QED
    BY <2>4, <2>6
<1>2. CASE ~ ExecSuccess(t)
  <2>1. UNCHANGED <<bloom, succeeded>>
    BY <1>2 DEF Child, AcquireAndRun, AcquireAndEnd, ExecFailRetry, ExecFailFinal,
                Retry, RetryCancelled, InterruptWaiting, InterruptBackoff
  <2>2. \A u \in Tasks : phase'[u] \in Active => phase[u] \in Active
    BY ChildEffect
  <2> QED
    BY <2>1, <2>2
<1> QED
  BY <1>1, <1>2

LEMMA FilteredNext == TypeOK /\ Structure /\ Filtered /\ [Next]_vars => Filtered'
<1> SUFFICES ASSUME TypeOK, Structure, Filtered, [Next]_vars PROVE Filtered'
  OBVIOUS
<1> USE DEF Filtered, SucceededInFilter, SuccessIsNeverRepeated, InPhase, Active, Holding
<1>1. ASSUME NEW g \in Graphs, StartRun(g) PROVE Filtered'
  BY <1>1 DEF StartRun
<1>2. CASE RunStep \/ AbortRun \/ Cancel \/ UNCHANGED vars
  BY <1>2, RunEffect
<1> QED
  BY <1>1, <1>2, FilteredChild DEF Next

\* A task that has succeeded in any run of the engine is not started again,
\* whatever the size and the hash functions of the filter.
THEOREM SuccessIsFinal == Spec => []SuccessIsNeverRepeated
<1>1. Init => Filtered
  BY DEF Init, Filtered, SucceededInFilter, SuccessIsNeverRepeated, InPhase, Active, Holding
<1>2. Filtered => SuccessIsNeverRepeated
  BY DEF Filtered
<1> QED
  BY <1>1, <1>2, TypeCorrect, StructureHolds, FilteredNext, PTL DEF Spec

-----------------------------------------------------------------------------
(* Dependencies *)

\* A dependency of a task of the current level is not a child any more.
LEMMA DependenciesAreDone ==
  ASSUME TypeOK, Structure, NEW t \in Tasks, phase[t] \in Active, NEW d \in graph.deps[t]
  PROVE  d \in Tasks /\ phase[d] \notin Active
<1>1. graph \in Graphs /\ graph.acyclic /\ t \in Nodes /\ graph.level[t] = lvl
  BY DEF Structure, ChildrenInLevel, GraphAccepted, Outside
<1>2. d \in Nodes /\ Nodes \subseteq Tasks /\ graph.level[d] \in Nat /\ graph.level[d] < lvl
  BY <1>1, EngineAssumption DEF IsGraph, Nodes
<1> QED
  BY <1>2 DEF Structure, ChildrenInLevel, TypeOK

LEMMA RunsOnlyAfterDepsNext ==
  TypeOK /\ Structure /\ RunsOnlyAfterDeps /\ [Next]_vars => RunsOnlyAfterDeps'
<1> SUFFICES ASSUME TypeOK, Structure, RunsOnlyAfterDeps, [Next]_vars PROVE RunsOnlyAfterDeps'
  OBVIOUS
<1>1. ASSUME NEW g \in Graphs, StartRun(g) PROVE RunsOnlyAfterDeps'
  BY <1>1 DEF StartRun, RunsOnlyAfterDeps, InPhase, Holding
<1>2. CASE RunStep \/ AbortRun \/ Cancel \/ UNCHANGED vars
  <2>1. InPhase(Holding)' \subseteq InPhase(Holding) /\ UNCHANGED graph
    BY <1>2, RunEffect DEF InPhase, Holding
  <2> SUFFICES ASSUME NEW t \in InPhase(Holding), NEW d \in graph.deps[t]
               PROVE  status'[d] = status[d]
    BY <2>1 DEF RunsOnlyAfterDeps
  <2>2. t \in Tasks /\ phase[t] \in Active
    BY DEF InPhase, Active
  <2>3. rpc = "gather" /\ d \in Tasks
    BY <2>2, DependenciesAreDone DEF Structure, ChildrenInLevel
  <2> QED
    BY <1>2, <2>3, RunEffect
<1>3. ASSUME NEW c \in Tasks, Child(c) PROVE RunsOnlyAfterDeps'
  <2> SUFFICES ASSUME NEW t \in Tasks, phase'[t] \in Holding, NEW d \in graph.deps[t]
               PROVE  status'[d] \in Satisfied
    BY <1>3, ChildEffect DEF RunsOnlyAfterDeps, InPhase
  <2>1. phase[t] \in Active
    BY <1>3, ChildEffect DEF Active
  <2>2. d \in Tasks /\ status'[d] = status[d]
    BY <1>3, <2>1, ChildEffect, DependenciesAreDone
  <2>3. CASE phase[t] \in Holding
    BY <2>2, <2>3 DEF RunsOnlyAfterDeps, InPhase
  <2>4. CASE phase[t] \notin Holding
    <3>1. t = c
      BY <1>3, <2>4, ChildEffect
    <3>2. AcquireAndRun(t)
      BY <1>3, <3>1, <2>4 DEF Child, AcquireAndEnd, ExecSuccess, ExecFailRetry, ExecFailFinal,
            Retry, RetryCancelled, InterruptWaiting, InterruptBackoff, EndWith, Holding, TypeOK
    <3>3. DepsMet(t)
      BY <3>2 DEF AcquireAndRun, Verdict
    <3> QED
      BY <2>2, <3>3 DEF DepsMet
  <2> QED
    BY <2>3, <2>4
<1> QED
  BY <1>1, <1>2, <1>3 DEF Next

\* An attempt runs only while every dependency is satisfied: in every graph,
\* with every interleaving, failure and cancellation.
THEOREM DependenciesFirst == Spec => []RunsOnlyAfterDeps
<1>1. Init => RunsOnlyAfterDeps
  BY DEF Init, RunsOnlyAfterDeps, InPhase, Holding
<1> QED
  BY <1>1, TypeCorrect, StructureHolds, RunsOnlyAfterDepsNext, PTL DEF Spec

-----------------------------------------------------------------------------
(* The semaphore *)

\* A child that takes or gives back a permit enters or leaves the holders.
LEMMA ChildPermits ==
  ASSUME TypeOK, NEW t \in Tasks, Child(t)
  PROVE  \/ /\ phase[t] \notin Holding /\ phase'[t] \in Holding
            /\ permits > 0 /\ permits' = permits - 1
         \/ /\ phase[t] \in Holding /\ phase'[t] \notin Holding
            /\ permits' = permits + 1
         \/ /\ phase[t] \in Holding <=> phase'[t] \in Holding
            /\ permits' = permits
<1> USE DEF TypeOK, Holding, EndWith, BeginAttempt
<1>1. CASE AcquireAndRun(t)
  BY <1>1 DEF AcquireAndRun
<1>2. CASE AcquireAndEnd(t) \/ InterruptWaiting(t)
  BY <1>2 DEF AcquireAndEnd, InterruptWaiting
<1>3. CASE ExecSuccess(t) \/ ExecFailFinal(t)
  BY <1>3 DEF ExecSuccess, ExecFailFinal
<1>4. CASE ExecFailRetry(t) \/ Retry(t)
  BY <1>4 DEF ExecFailRetry, Retry
<1>5. CASE RetryCancelled(t) \/ InterruptBackoff(t)
  BY <1>5 DEF RetryCancelled, InterruptBackoff
<1> QED
  BY <1>1, <1>2, <1>3, <1>4, <1>5 DEF Child

LEMMA HoldersFinite ==
  IsFiniteSet(InPhase(Holding)) /\ Cardinality(InPhase(Holding)) \in Nat
<1>1. InPhase(Holding) \in SUBSET Tasks
  BY DEF InPhase
<1> QED
  BY <1>1, EngineAssumption, FS_Subset, FS_CardinalityType

LEMMA SemaphoreChild ==
  ASSUME TypeOK, SemaphoreConserved, NEW t \in Tasks, Child(t) PROVE SemaphoreConserved'
<1> DEFINE H == InPhase(Holding)
<1>0. /\ IsFiniteSet(H) /\ Cardinality(H) \in Nat /\ permits \in Nat
      /\ MaxConcurrent \in Nat /\ permits + Cardinality(H) = MaxConcurrent
  BY HoldersFinite, EngineAssumption DEF TypeOK, SemaphoreConserved
<1>1. \A u \in Tasks \ {t} : phase'[u] = phase[u]
  BY ChildEffect
<1>2. CASE /\ phase[t] \notin Holding /\ phase'[t] \in Holding
           /\ permits > 0 /\ permits' = permits - 1
  <2>1. H' = H \cup {t} /\ t \notin H
    BY <1>1, <1>2 DEF InPhase
  <2>2. Cardinality(H') = Cardinality(H) + 1
    BY <1>0, <2>1, FS_AddElement
  <2> QED
    BY <1>0, <1>2, <2>2 DEF SemaphoreConserved
<1>3. CASE /\ phase[t] \in Holding /\ phase'[t] \notin Holding
           /\ permits' = permits + 1
  <2>1. H' = H \ {t} /\ t \in H
    BY <1>1, <1>3 DEF InPhase
  <2>2. Cardinality(H') = Cardinality(H) - 1
    BY <1>0, <2>1, FS_RemoveElement
  <2> QED
    BY <1>0, <1>3, <2>2 DEF SemaphoreConserved
<1>4. CASE /\ phase[t] \in Holding <=> phase'[t] \in Holding
           /\ permits' = permits
  <2>1. H' = H
    BY <1>1, <1>4 DEF InPhase
  <2> QED
    BY <1>4, <2>1 DEF SemaphoreConserved
<1> QED
  BY <1>2, <1>3, <1>4, ChildPermits

LEMMA SemaphoreNext ==
  TypeOK /\ Structure /\ SemaphoreConserved /\ [Next]_vars => SemaphoreConserved'
<1> SUFFICES ASSUME TypeOK, Structure, SemaphoreConserved, [Next]_vars PROVE SemaphoreConserved'
  OBVIOUS
<1>1. ASSUME NEW g \in Graphs, StartRun(g) PROVE SemaphoreConserved'
  <2>1. \A u \in Tasks : phase[u] \notin Active
    BY <1>1, NobodyActive DEF StartRun, Outside
  <2>2. InPhase(Holding)' = InPhase(Holding) /\ UNCHANGED permits
    BY <1>1, <2>1 DEF StartRun, InPhase, Active, Holding
  <2> QED
    BY <2>2 DEF SemaphoreConserved
<1>2. CASE RunStep \/ AbortRun \/ Cancel \/ UNCHANGED vars
  <2>1. InPhase(Holding)' = InPhase(Holding) /\ UNCHANGED permits
    BY <1>2, RunEffect DEF InPhase, Holding
  <2> QED
    BY <2>1 DEF SemaphoreConserved
<1> QED
  BY <1>1, <1>2, SemaphoreChild DEF Next

\* Permits are neither lost nor invented, however the children end.
THEOREM PermitsConserved == Spec => []SemaphoreConserved
<1>1. Init => SemaphoreConserved
  <2> SUFFICES ASSUME Init PROVE SemaphoreConserved
    OBVIOUS
  <2>1. InPhase(Holding) = {}
    BY DEF Init, InPhase, Holding
  <2> QED
    BY <2>1, FS_EmptySet, EngineAssumption DEF Init, SemaphoreConserved
<1> QED
  BY <1>1, TypeCorrect, StructureHolds, SemaphoreNext, PTL DEF Spec

-----------------------------------------------------------------------------
(* Retries *)

\* A task has made no more attempts than its node allows, and is failed only
\* after the last one.
Retries == RetriesBounded /\ FailsAfterAllAttempts

LEMMA RetriesChild ==
  ASSUME TypeOK, Structure, Retries, NEW t \in Tasks, Child(t) PROVE Retries'
<1>1. /\ UNCHANGED graph
      /\ \A u \in Tasks \ {t} : status'[u] = status[u] /\ retryCount'[u] = retryCount[u]
  BY ChildEffect
<1>2. MaxRetries[t] \in Nat /\ retryCount[t] \in Nat /\ retryCount[t] <= MaxRetries[t]
  BY EngineAssumption DEF TypeOK, Retries, RetriesBounded
<1>3. status[t] # "failed"
  BY ChildEffect DEF Structure, ChildrenInLevel, Active, Holding
<1>4. /\ retryCount'[t] <= MaxRetries[t]
      /\ t \in Registered /\ status'[t] = "failed" => retryCount'[t] = MaxRetries[t]
  <2> USE <1>2, <1>3 DEF TypeOK, EndWith, BeginAttempt
  <2>1. CASE AcquireAndRun(t) \/ Retry(t)
    BY <2>1 DEF AcquireAndRun, Retry
  <2>2. CASE AcquireAndEnd(t)
    BY <2>2 DEF AcquireAndEnd, Verdict
  <2>3. CASE ExecSuccess(t) \/ RetryCancelled(t)
    BY <2>3 DEF ExecSuccess, RetryCancelled
  <2>4. CASE ExecFailRetry(t)
    BY <2>4 DEF ExecFailRetry, AttemptsLeft
  <2>5. CASE ExecFailFinal(t)
    BY <2>5 DEF ExecFailFinal, AttemptsLeft
  <2>6. CASE InterruptWaiting(t) \/ InterruptBackoff(t)
    BY <2>6 DEF InterruptWaiting, InterruptBackoff
  <2> QED
    BY <2>1, <2>2, <2>3, <2>4, <2>5, <2>6 DEF Child
<1>5. Nodes \subseteq Tasks
  BY NodesAreTasks
<1> QED
  BY <1>1, <1>4, <1>5 DEF Retries, RetriesBounded, FailsAfterAllAttempts, Nodes

LEMMA RetriesNext == TypeOK /\ Structure /\ Retries /\ [Next]_vars => Retries'
<1> SUFFICES ASSUME TypeOK, Structure, Retries, [Next]_vars PROVE Retries'
  OBVIOUS
<1>1. ASSUME NEW g \in Graphs, StartRun(g) PROVE Retries'
  <2>1. NodesOf(g) \subseteq Tasks /\ \A u \in Tasks : MaxRetries[u] \in Nat
    BY EngineAssumption DEF IsGraph
  <2> QED
    BY <1>1, <2>1 DEF StartRun, Retries, RetriesBounded, FailsAfterAllAttempts, Nodes
<1>2. CASE RunStep \/ AbortRun \/ Cancel \/ UNCHANGED vars
  BY <1>2, RunEffect, NodesAreTasks DEF Retries, RetriesBounded, FailsAfterAllAttempts, Nodes
<1> QED
  BY <1>1, <1>2, RetriesChild DEF Next

\* A registered task is reported failed only after all its attempts.
THEOREM FailureIsExhausted == Spec => []FailsAfterAllAttempts
<1>1. Init => Retries
  BY EngineAssumption, NoGraphHasNoNodes
     DEF Init, Retries, RetriesBounded, FailsAfterAllAttempts, Nodes
<1>2. Retries => FailsAfterAllAttempts
  BY DEF Retries
<1> QED
  BY <1>1, <1>2, TypeCorrect, StructureHolds, RetriesNext, PTL DEF Spec

-----------------------------------------------------------------------------
(* What a step may not do *)

\* A final status stays what it is for the rest of the run.
THEOREM FinalStatusStays == Spec => FinalIsFinal
<1> DEFINE Stays == runs' = runs => \A t \in Tasks : status[t] \in Final => status'[t] = status[t]
<1>1. TypeOK /\ Structure /\ [Next]_vars => Stays
  <2> SUFFICES ASSUME TypeOK, Structure, [Next]_vars PROVE Stays
    OBVIOUS
  <2>1. ASSUME NEW g \in Graphs, StartRun(g) PROVE Stays
    BY <2>1 DEF StartRun, TypeOK
  <2>2. CASE RunStep \/ AbortRun \/ Cancel \/ UNCHANGED vars
    BY <2>2, RunEffect DEF Final
  <2>3. ASSUME NEW c \in Tasks, Child(c) PROVE Stays
    <3>1. status[c] \notin Final
      BY <2>3, ChildEffect DEF Structure, ChildrenInLevel, Active, Holding, Final
    <3> QED
      BY <2>3, <3>1, ChildEffect
  <2> QED
    BY <2>1, <2>2, <2>3 DEF Next
<1> QED
  BY <1>1, TypeCorrect, StructureHolds, PTL DEF Spec, FinalIsFinal

\* A child starts an attempt only with the cancel event clear, and its first one
\* only if no CancelledError is on its way to it.
LEMMA ChildStarts ==
  ASSUME TypeOK, NEW t \in Tasks, Child(t), phase'[t] = "executing"
  PROVE  ~ cancelEvent /\ (phase[t] = "waiting" => t \notin interrupted)
<1>1. AcquireAndRun(t) \/ Retry(t)
  BY DEF Child, AcquireAndEnd, ExecSuccess, ExecFailRetry, ExecFailFinal, RetryCancelled,
         InterruptWaiting, InterruptBackoff, EndWith, TypeOK
<1> QED
  BY <1>1 DEF AcquireAndRun, Retry, Verdict

\* Once cancel() was called, no attempt starts in the run.
THEOREM CancelStopsAttempts == Spec => NoStartAfterCancel
<1> DEFINE Stopped ==
      cancelEvent /\ runs' = runs =>
        \A t \in Tasks : phase'[t] = "executing" => phase[t] = "executing"
<1>1. TypeOK /\ Structure /\ [Next]_vars => Stopped
  <2> SUFFICES ASSUME TypeOK, Structure, [Next]_vars PROVE Stopped
    OBVIOUS
  <2>1. ASSUME NEW g \in Graphs, StartRun(g) PROVE Stopped
    BY <2>1 DEF StartRun
  <2>2. CASE RunStep \/ AbortRun \/ Cancel \/ UNCHANGED vars
    BY <2>2, RunEffect
  <2>3. ASSUME NEW c \in Tasks, Child(c) PROVE Stopped
    BY <2>3, ChildEffect, ChildStarts
  <2> QED
    BY <2>1, <2>2, <2>3 DEF Next
<1> QED
  BY <1>1, TypeCorrect, StructureHolds, PTL DEF Spec, NoStartAfterCancel

\* Once the task awaiting run() was cancelled, no task starts that had not begun.
THEOREM AbortStopsTasks == Spec => AbortStartsNoTask
<1> DEFINE Stopped ==
      aborting /\ runs' = runs =>
        \A t \in Tasks : phase'[t] = "executing" => phase[t] \in Holding
<1>1. TypeOK /\ Structure /\ [Next]_vars => Stopped
  <2> SUFFICES ASSUME TypeOK, Structure, [Next]_vars PROVE Stopped
    OBVIOUS
  <2>1. ASSUME NEW g \in Graphs, StartRun(g) PROVE Stopped
    BY <2>1 DEF StartRun
  <2>2. CASE RunStep \/ AbortRun \/ Cancel \/ UNCHANGED vars
    BY <2>2, RunEffect DEF Holding
  <2>3. ASSUME NEW c \in Tasks, Child(c), aborting, phase'[c] = "executing"
        PROVE  phase[c] \in Holding
    <3>1. phase[c] # "waiting"
      BY <2>3, ChildStarts DEF Structure, AbortReachesAll, InPhase
    <3> QED
      BY <2>3, <3>1, ChildEffect DEF Active
  <2>4. ASSUME NEW c \in Tasks, Child(c) PROVE Stopped
    BY <2>3, <2>4, ChildEffect DEF Holding
  <2> QED
    BY <2>1, <2>2, <2>4 DEF Next
<1> QED
  BY <1>1, TypeCorrect, StructureHolds, PTL DEF Spec, AbortStartsNoTask

-----------------------------------------------------------------------------
(* Skipped tasks *)

\* A task that was skipped belongs to a level that has begun, so its
\* dependencies keep their status.
LEMMA SkippedHasSettledDependencies ==
  ASSUME TypeOK, Structure, rpc \notin Outside,
         NEW u \in Nodes, status[u] = "skipped", NEW d \in graph.deps[u]
  PROVE  /\ d \in Nodes /\ d \in Tasks
         /\ graph.level[d] < lvl
<1>1. graph \in Graphs /\ graph.acyclic
  BY DEF Structure, GraphAccepted
<1>2. d \in Nodes /\ d \in Tasks /\ graph.level[d] < graph.level[u]
      /\ graph.level[d] \in Nat /\ graph.level[u] \in Nat
  BY <1>1, EngineAssumption DEF IsGraph, Nodes
<1>3. Begun(graph.level[u])
  BY DEF Structure, LaterLevelsUntouched
<1>4. lvl \in Nat
  BY DEF TypeOK
<1> QED
  BY <1>2, <1>3, <1>4 DEF Begun

\* The code's own two reasons: the filter reports the task, or DepsMet does not hold.
SkipReported ==
  \A t \in Nodes : status[t] = "skipped" =>
    MayContain(bloom, t) \/ \E d \in graph.deps[t] : status[d] \notin Satisfied

LEMMA SkipReportedNext ==
  TypeOK /\ Structure /\ SkipReported /\ [Next]_vars => SkipReported'
<1> SUFFICES ASSUME TypeOK, Structure, SkipReported, [Next]_vars PROVE SkipReported'
  OBVIOUS
<1> USE NodesAreTasks
<1>1. ASSUME NEW g \in Graphs, StartRun(g) PROVE SkipReported'
  <2>1. NodesOf(g) \subseteq Tasks
    BY EngineAssumption DEF IsGraph
  <2> QED
    BY <1>1, <2>1 DEF StartRun, SkipReported, Nodes
<1>2. CASE RunStep \/ AbortRun \/ Cancel \/ UNCHANGED vars
  <2> SUFFICES ASSUME NEW u \in Nodes, status'[u] = "skipped", ~ MayContain(bloom, u)
               PROVE  \E d \in graph.deps[u] : status'[d] \notin Satisfied
    BY <1>2, RunEffect DEF SkipReported, Nodes
  <2>1. status[u] = "skipped"
    BY <1>2, RunEffect
  <2>2. PICK d \in graph.deps[u] : status[d] \notin Satisfied
    BY <2>1 DEF SkipReported
  <2>3. status'[d] = status[d]
    <3>1. CASE rpc = "level"
      <4>1. d \in Tasks /\ d \notin LevelNodes(lvl)
        BY <2>1, <3>1, SkippedHasSettledDependencies DEF Outside, LevelNodes, TypeOK
      <4> QED
        BY <1>2, <4>1, RunEffect
    <3>2. CASE rpc # "level"
      <4>1. UNCHANGED status
        BY <1>2, <3>2 DEF RunStep, StartLevel, SkipRemaining, Finish, NextLevel, CancelOnError,
              CancelSlept, GatherRaises, AbortRun, Cancel, vars, childVars
      <4> QED
        BY <4>1
    <3> QED
      BY <3>1, <3>2
  <2> QED
    BY <2>2, <2>3
<1>3. ASSUME NEW c \in Tasks, Child(c) PROVE SkipReported'
  <2>1. rpc = "gather" /\ c \in Nodes /\ graph.level[c] = lvl /\ UNCHANGED graph
    BY <1>3, ChildEffect DEF Structure, ChildrenInLevel
  <2>2. ASSUME NEW u \in Tasks, MayContain(bloom, u) PROVE MayContain(bloom', u)
    BY <1>3, <2>2, AddedKeeps, EngineAssumption
       DEF Child, AcquireAndRun, AcquireAndEnd, ExecSuccess, ExecFailRetry, ExecFailFinal,
           Retry, RetryCancelled, InterruptWaiting, InterruptBackoff, TypeOK
  <2> SUFFICES ASSUME NEW u \in Nodes, status'[u] = "skipped", ~ MayContain(bloom', u)
               PROVE  \E d \in graph.deps[u] : status'[d] \notin Satisfied
    BY <2>1 DEF SkipReported, Nodes
  <2>3. CASE u # c
    <3>1. status[u] = "skipped"
      BY <1>3, <2>3, ChildEffect
    <3>2. PICK d \in graph.deps[u] : status[d] \notin Satisfied
      BY <2>2, <3>1 DEF SkipReported
    <3>3. d \in Tasks \ {c}
      BY <2>1, <3>1, SkippedHasSettledDependencies DEF Outside, TypeOK
    <3> QED
      BY <1>3, <3>2, <3>3, ChildEffect
  <2>4. CASE u = c
    <3>1. Verdict(c) = "skipped"
      <4> USE <2>4 DEF TypeOK, EndWith, BeginAttempt
      <4>1. status[c] # "skipped"
        BY <1>3, ChildEffect DEF Structure, ChildrenInLevel, Active, Holding
      <4>2. AcquireAndEnd(c)
        BY <1>3, <4>1 DEF Child, AcquireAndRun, ExecSuccess, ExecFailRetry, ExecFailFinal,
              Retry, RetryCancelled, InterruptWaiting, InterruptBackoff
      <4> QED
        BY <4>1, <4>2 DEF AcquireAndEnd
    <3>2. PICK d \in graph.deps[c] : status[d] \notin Satisfied
      BY <3>1 DEF Verdict, DepsMet
    <3>3. d \in Tasks /\ d # c
      BY <1>3, <2>1, ChildEffect, DependenciesAreDone
    <3> QED
      BY <1>3, <2>4, <3>2, <3>3, ChildEffect
  <2> QED
    BY <2>3, <2>4
<1> QED
  BY <1>1, <1>2, <1>3 DEF Next

\* Only tasks that succeeded have set bits of the filter.
FilterHasCauses == HasCauses(bloom, succeeded)

LEMMA FilterHasCausesNext ==
  TypeOK /\ Structure /\ FilterHasCauses /\ [Next]_vars => FilterHasCauses'
<1> SUFFICES ASSUME TypeOK, Structure, HasCauses(bloom, succeeded), [Next]_vars
             PROVE  HasCauses(bloom', succeeded')
  BY DEF FilterHasCauses
<1>1. ASSUME NEW t \in Tasks, ExecSuccess(t) PROVE HasCauses(bloom', succeeded')
  BY <1>1, AddedHasCauses DEF ExecSuccess
<1>2. ASSUME NEW t \in Tasks, Child(t), ~ ExecSuccess(t) PROVE UNCHANGED <<bloom, succeeded>>
  BY <1>2 DEF Child, AcquireAndRun, AcquireAndEnd, ExecFailRetry, ExecFailFinal,
              Retry, RetryCancelled, InterruptWaiting, InterruptBackoff
<1>3. ASSUME NEW g \in Graphs, StartRun(g) PROVE UNCHANGED <<bloom, succeeded>>
  BY <1>3 DEF StartRun
<1>4. CASE RunStep \/ AbortRun \/ Cancel \/ UNCHANGED vars
  BY <1>4, RunEffect
<1> QED
  BY <1>1, <1>2, <1>3, <1>4 DEF Next

\* A task is skipped because a direct dependency did not succeed, or because tasks
\* that succeeded cover all its positions, for every size of the filter and every
\* digest function (engine.py, run() and _execute_node).
THEOREM SkipsAreJustified == Spec => []SkipHasReason
<1>1. Init => SkipReported /\ FilterHasCauses
  BY NoGraphHasNoNodes, EmptyHasCauses DEF Init, SkipReported, Nodes, FilterHasCauses
<1>2. TypeOK /\ Structure /\ SkipReported /\ FilterHasCauses => SkipHasReason
  <2> SUFFICES ASSUME TypeOK, Structure, SkipReported, HasCauses(bloom, succeeded),
                      NEW t \in Nodes, status[t] = "skipped", MayContain(bloom, t)
               PROVE  Hashes(t) \subseteq UNION {Hashes(u) : u \in succeeded}
    BY DEF SkipHasReason, SkipReported, FilterHasCauses
  <2>1. t \in Items /\ succeeded \in SUBSET Items
    BY NodesAreTasks, EngineAssumption DEF TypeOK
  <2> QED
    BY <2>1, PositiveIsCovered
<1> QED
  BY <1>1, <1>2, TypeCorrect, StructureHolds, SkipReportedNext, FilterHasCausesNext, PTL DEF Spec

-----------------------------------------------------------------------------
(* Exceptions *)

\* With continue_on_failure off, a task that raised belongs to the level run()
\* waits for, or run() is about to stop.
LEMMA ErrorsStopNext == TypeOK /\ Structure /\ ErrorsStop /\ [Next]_vars => ErrorsStop'
<1> SUFFICES ASSUME TypeOK, Structure, ErrorsStop, [Next]_vars, ~ continueOnFailure'
             PROVE  ErrorsStop'
  BY DEF ErrorsStop
<1> USE NodesAreTasks
<1>1. ASSUME NEW g \in Graphs, StartRun(g) PROVE ErrorsStop'
  <2>1. NodesOf(g) \subseteq Tasks
    BY EngineAssumption DEF IsGraph
  <2> QED
    BY <1>1, <2>1 DEF StartRun, ErrorsStop, Nodes
<1>2. CASE RunStep \/ AbortRun \/ Cancel \/ UNCHANGED vars
  <2> SUFFICES ASSUME NEW t \in Nodes, phase[t] = "error"
               PROVE  /\ rpc' = "gather" => graph.level[t] = lvl'
                      /\ rpc' \in {"level", "cancelling"} => cancelEvent'
    BY <1>2, RunEffect DEF ErrorsStop, Nodes
  <2>0. /\ rpc = "gather" => graph.level[t] = lvl
        /\ rpc \in {"level", "cancelling"} => cancelEvent
    BY <1>2, RunEffect DEF ErrorsStop
  <2>1. CASE StartLevel \/ NextLevel
    BY <2>0, <2>1 DEF StartLevel, NextLevel, GatherDone, ChildRaised, LevelNodes
  <2>2. CASE SkipRemaining \/ Finish \/ CancelOnError \/ CancelSlept \/ GatherRaises
    BY <2>0, <2>2 DEF SkipRemaining, Finish, CancelOnError, CancelSlept, GatherRaises
  <2>3. CASE AbortRun \/ Cancel \/ UNCHANGED vars
    BY <2>0, <2>3 DEF AbortRun, Cancel, vars, runVars
  <2> QED
    BY <1>2, <2>1, <2>2, <2>3 DEF RunStep
<1>3. ASSUME NEW c \in Tasks, Child(c) PROVE ErrorsStop'
  <2>1. rpc = "gather" /\ graph.level[c] = lvl
    BY <1>3, ChildEffect DEF Structure, ChildrenInLevel
  <2> QED
    BY <1>3, <2>1, ChildEffect DEF ErrorsStop, Nodes
<1> QED
  BY <1>1, <1>2, <1>3 DEF Next

\* With continue_on_failure off, no task runs after a level in which one raised.
THEOREM ExceptionEndsRun == Spec => []ExceptionStopsRun
<1>1. Init => ErrorsStop
  BY NoGraphHasNoNodes DEF Init, ErrorsStop, Nodes
<1>2. TypeOK /\ Structure /\ ErrorsStop => ExceptionStopsRun
  <2> SUFFICES ASSUME TypeOK, Structure, ErrorsStop, ~ continueOnFailure,
                      NEW t \in Nodes, phase[t] = "error", NEW u \in InPhase(Active)
               PROVE  graph.level[u] <= graph.level[t]
    BY DEF ExceptionStopsRun
  <2>1. rpc = "gather" /\ graph.level[u] = lvl /\ lvl \in Nat
    BY DEF Structure, ChildrenInLevel, InPhase, TypeOK
  <2> QED
    BY <2>1 DEF ErrorsStop
<1> QED
  BY <1>1, <1>2, TypeCorrect, StructureHolds, ErrorsStopNext, PTL DEF Spec

-----------------------------------------------------------------------------
(* Completeness *)

\* Every task of a level that has begun has had a child, or was skipped; so
\* the states that run() returns are final.
Complete == NothingLeftOut /\ CompleteUnlessCancelled

LEMMA CompleteStartLevel ==
  ASSUME TypeOK, Structure, Complete, StartLevel PROVE Complete'
<1>1. /\ UNCHANGED graph /\ rpc = "level" /\ rpc' \in {"level", "gather"}
      /\ IF Started = {} THEN rpc' = "level" /\ lvl' = lvl + 1
                         ELSE rpc' = "gather" /\ lvl' = lvl
      /\ \A u \in Tasks : phase'[u] = IF u \in Started THEN "waiting" ELSE phase[u]
      /\ \A u \in Tasks : status'[u] = IF u \in AlreadyDone THEN "skipped" ELSE status[u]
  BY DEF StartLevel
<1>2. lvl \in Nat /\ graph.level \in [Nodes -> Nat] /\ Nodes \subseteq Tasks
  BY <1>1, NodesAreTasks DEF TypeOK, Structure, Outside
<1> SUFFICES ASSUME NEW u \in Nodes, Begun(graph.level[u])', phase'[u] = "none"
             PROVE  status'[u] = "skipped"
  BY <1>1 DEF Complete, NothingLeftOut, CompleteUnlessCancelled, Nodes
<1>3. graph.level[u] <= lvl /\ u \notin Started /\ phase[u] = "none"
  BY <1>1, <1>2 DEF Begun
<1>4. CASE graph.level[u] = lvl
  BY <1>1, <1>2, <1>3, <1>4 DEF Started, LevelNodes
<1>5. CASE graph.level[u] < lvl
  BY <1>1, <1>2, <1>3, <1>5 DEF Begun, Complete, NothingLeftOut, Outside
<1> QED
  BY <1>2, <1>3, <1>4, <1>5

LEMMA CompleteFinish ==
  ASSUME TypeOK, Structure, Complete, Finish PROVE Complete'
<1>1. /\ UNCHANGED <<graph, phase, status>> /\ rpc = "level" /\ rpc' = "returned"
      /\ ~ LevelsLeft
  BY DEF Finish, childVars
<1>2. lvl \in Nat /\ graph.level \in [Nodes -> Nat] /\ Nodes \subseteq Tasks
  BY <1>1, NodesAreTasks DEF TypeOK, Structure, Outside
<1> SUFFICES ASSUME NEW u \in Nodes
             PROVE  status[u] \in Final \/ (u \in Faulty /\ status[u] = "pending")
  BY <1>1 DEF Complete, NothingLeftOut, CompleteUnlessCancelled, Nodes, Outside
<1>3. Begun(graph.level[u])
  BY <1>1, <1>2 DEF LevelsLeft, Begun
<1>4. phase[u] \notin Active
  BY <1>1, <1>2, NobodyActive
<1>5. CASE phase[u] = "none"
  BY <1>1, <1>3, <1>5 DEF Complete, NothingLeftOut, Outside, Final
<1>6. CASE phase[u] \in {"ended", "error"}
  BY <1>1, <1>2, <1>6 DEF Structure, ChildrenInLevel, AbortReachesAll
<1> QED
  BY <1>2, <1>4, <1>5, <1>6 DEF TypeOK

LEMMA CompleteNext == TypeOK /\ Structure /\ Complete /\ [Next]_vars => Complete'
<1> SUFFICES ASSUME TypeOK, Structure, Complete, [Next]_vars PROVE Complete'
  OBVIOUS
<1>0. lvl \in Nat /\ Nodes \subseteq Tasks
      /\ (rpc \notin Outside => graph.level \in [Nodes -> Nat])
  BY NodesAreTasks DEF TypeOK, Structure
<1>1. ASSUME NEW g \in Graphs, StartRun(g) PROVE Complete'
  <2>1. IsGraph(g)
    BY EngineAssumption
  <2>2. \A u \in NodesOf(g) : g.level[u] \in Nat
    BY <2>1 DEF IsGraph
  <2>3. graph' = g /\ lvl' = 0 /\ rpc' \in {"level", "raised"}
    BY <1>1 DEF StartRun
  <2>4. NothingLeftOut'
    BY <2>2, <2>3 DEF NothingLeftOut, Begun, Nodes, Outside
  <2> QED
    BY <2>3, <2>4 DEF Complete, CompleteUnlessCancelled
<1>2. CASE SkipRemaining \/ GatherRaises
  BY <1>2 DEF SkipRemaining, GatherRaises, Complete, NothingLeftOut,
              CompleteUnlessCancelled, Outside
<1>3. CASE NextLevel \/ CancelSlept \/ CancelOnError
  <2>1. /\ UNCHANGED <<graph, status, phase>>
        /\ rpc \in {"gather", "cancelling"} /\ rpc' \in {"level", "cancelling"}
        /\ lvl' = IF rpc' = "level" THEN lvl + 1 ELSE lvl
    BY <1>3 DEF NextLevel, CancelSlept, CancelOnError, GatherDone, childVars
  <2>2. \A u \in Nodes : Begun(graph.level[u])' => Begun(graph.level[u])
    BY <1>0, <2>1 DEF Begun, Outside
  <2> QED
    BY <2>1, <2>2 DEF Complete, NothingLeftOut, CompleteUnlessCancelled, Nodes, Outside
<1>4. CASE AbortRun
  BY <1>4 DEF AbortRun, Complete, NothingLeftOut, CompleteUnlessCancelled, Nodes, Begun, Outside
<1>5. CASE Cancel \/ UNCHANGED vars
  BY <1>5 DEF Cancel, vars, runVars, childVars, Complete, NothingLeftOut,
              CompleteUnlessCancelled, Nodes, Begun
<1>6. ASSUME NEW c \in Tasks, Child(c) PROVE Complete'
  <2>1. rpc = "gather" /\ phase'[c] # "none"
    BY <1>6, ChildEffect DEF Structure, ChildrenInLevel, Final
  <2> QED
    BY <1>0, <1>6, <2>1, ChildEffect
       DEF Complete, NothingLeftOut, CompleteUnlessCancelled, Nodes, Begun, Outside
<1> QED
  BY <1>1, <1>2, <1>3, <1>4, <1>5, <1>6, CompleteStartLevel, CompleteFinish DEF Next, RunStep

\* run() returns final states, unless the run was cancelled or a node could not
\* be created.
THEOREM ReturnsComplete == Spec => []CompleteUnlessCancelled
<1>1. Init => Complete
  BY DEF Init, Complete, NothingLeftOut, CompleteUnlessCancelled, Outside
<1>2. Complete => CompleteUnlessCancelled
  BY DEF Complete
<1> QED
  BY <1>1, <1>2, TypeCorrect, StructureHolds, CompleteNext, PTL DEF Spec

-----------------------------------------------------------------------------
(* The engine implements DagExecution.  Each step of a run is a step of the    *)
(* abstract specification, or changes nothing that it has; which one follows   *)
(* from the invariants above.                                                 *)

\* The invariants the steps are mapped with.
Mapped == TypeOK /\ Structure /\ SuccessIsNeverRepeated /\ SemaphoreConserved

Abstract == [Dag!Next]_(Dag!vars)

LEMMA DagInit == Init => Dag!Init
<1> SUFFICES ASSUME Init PROVE Dag!Init
  OBVIOUS
<1>1. InPhase(Holding) = {}
  BY DEF Init, InPhase, Holding
<1> QED
  BY <1>1 DEF Init, NoGraph, Dag!Init

\* A call of run() replaces the graph when no task is active.
LEMMA DagStart ==
  ASSUME Mapped, NEW g \in Graphs, StartRun(g) PROVE Abstract
<1>1. \A u \in Tasks : phase[u] \notin Active
  BY NobodyActive DEF Mapped, StartRun, Outside
<1>2. InPhase(Holding) = {} /\ InPhase(Holding)' = {}
  BY <1>1 DEF StartRun, InPhase, Active, Holding
<1>3. Dag!Run(g)
  BY <1>2 DEF StartRun, NodesOf, Dag!Run
<1> QED
  BY <1>3 DEF Abstract, Dag!Next

\* The other steps of run() settle tasks that have not begun.
LEMMA DagRun ==
  ASSUME Mapped, RunStep \/ AbortRun \/ Cancel \/ UNCHANGED vars PROVE Abstract
<1> USE DEF Mapped
<1>1. InPhase(Holding)' = InPhase(Holding) /\ UNCHANGED <<graph, succeeded>>
  BY RunEffect DEF InPhase, Holding
<1>2. \A u \in Tasks : status'[u] # status[u] =>
        status[u] = "pending" /\ status'[u] \in {"failed", "skipped", "cancelled"}
  BY RunEffect
<1>3. TypeOK'
  BY NextTyped DEF Next
<1>4. Dag!Settle
  BY <1>1, <1>2, <1>3 DEF Dag!Settle, TypeOK, Statuses, Final
<1> QED
  BY <1>4 DEF Abstract, Dag!Next

\* A child takes a permit only for a task that may begin.
LEMMA DagBegin ==
  ASSUME Mapped, NEW t \in Tasks, AcquireAndRun(t) PROVE Dag!Begin(t)
<1> DEFINE H == InPhase(Holding)
<1> USE DEF Mapped, TypeOK
<1>1. phase[t] = "waiting" /\ permits > 0 /\ Verdict(t) = "run" /\ BeginAttempt(t)
  BY DEF AcquireAndRun
<1>2. t \in Nodes /\ status[t] = "pending"
  BY <1>1 DEF Structure, ChildrenInLevel, Active
<1>3. t \notin H /\ t \notin succeeded
  BY <1>1 DEF SuccessIsNeverRepeated, InPhase, Active, Holding
<1>4. \A d \in graph.deps[t] : status[d] \in {"success", "skipped"}
  BY <1>1 DEF Verdict, DepsMet, Satisfied
<1>5. Cardinality(H) < MaxConcurrent
  BY <1>1, HoldersFinite, EngineAssumption DEF SemaphoreConserved
<1>6. H' = H \cup {t} /\ status' = [status EXCEPT ![t] = "running"]
  BY <1>1 DEF BeginAttempt, EndWith, InPhase, Holding
<1>7. UNCHANGED <<graph, succeeded>>
  BY DEF AcquireAndRun, runVars
<1>8. Dag!Cardinality(H) = Cardinality(H)
  BY DEF Dag!Cardinality, Cardinality, Dag!IsFiniteSet, IsFiniteSet
<1> QED
  BY <1>2, <1>3, <1>4, <1>5, <1>6, <1>7, <1>8 DEF Dag!Begin, Dag!Nodes, Nodes, NodesOf

\* A task leaves the semaphore with status s.
LEMMA HolderEnds ==
  ASSUME TypeOK, NEW t \in Tasks, phase[t] \in Holding,
         NEW s, NEW p \in {"ended", "error"}, EndWith(t, s, p)
  PROVE  /\ t \in InPhase(Holding)
         /\ InPhase(Holding)' = InPhase(Holding) \ {t}
         /\ status' = [status EXCEPT ![t] = s]
  BY DEF TypeOK, EndWith, InPhase, Holding

LEMMA DagEnds ==
  ASSUME Mapped, NEW t \in Tasks,
         ExecSuccess(t) \/ ExecFailFinal(t) \/ RetryCancelled(t) \/ InterruptBackoff(t)
  PROVE  Abstract
<1> USE DEF Mapped, Holding
<1>1. CASE ExecSuccess(t)
  <2>1. Dag!Succeed(t)
    BY <1>1, HolderEnds DEF ExecSuccess, runVars, Dag!Succeed
  <2> QED
    BY <2>1 DEF Abstract, Dag!Next
<1>2. CASE ExecFailFinal(t)
  <2>1. Dag!Fail(t)
    BY <1>2, HolderEnds DEF ExecFailFinal, runVars, Dag!Fail
  <2> QED
    BY <2>1 DEF Abstract, Dag!Next
<1>3. CASE RetryCancelled(t)
  <2>1. Dag!Fail(t)
    BY <1>3, HolderEnds DEF RetryCancelled, runVars, Dag!Fail
  <2> QED
    BY <2>1 DEF Abstract, Dag!Next
<1>4. CASE InterruptBackoff(t)
  <2>1. status[t] = "running"
    BY <1>4 DEF InterruptBackoff, Structure, ChildrenInLevel
  <2>2. Dag!Fail(t)
    BY <1>4, <2>1, HolderEnds DEF InterruptBackoff, runVars, Dag!Fail
  <2> QED
    BY <2>2 DEF Abstract, Dag!Next
<1> QED
  BY <1>1, <1>2, <1>3, <1>4

\* Attempts after the first, and the ends of a task that never began.
LEMMA DagHidden ==
  ASSUME Mapped, NEW t \in Tasks,
         \/ ExecFailRetry(t) \/ Retry(t)
         \/ AcquireAndEnd(t) \/ InterruptWaiting(t)
  PROVE  Abstract
<1> USE DEF Mapped
<1>1. UNCHANGED <<graph, succeeded>>
  BY DEF ExecFailRetry, Retry, AcquireAndEnd, InterruptWaiting, runVars
<1>2. InPhase(Holding)' = InPhase(Holding)
  <2>1. /\ phase[t] \in Holding <=> phase'[t] \in Holding
        /\ \A u \in Tasks \ {t} : phase'[u] = phase[u]
    BY DEF ExecFailRetry, Retry, AcquireAndEnd, InterruptWaiting, BeginAttempt, EndWith,
           Holding, TypeOK
  <2> QED
    BY <2>1 DEF InPhase
<1>3. CASE ExecFailRetry(t) \/ Retry(t) \/ InterruptWaiting(t)
  <2>1. phase[t] = "backoff" => status[t] = "running"
    BY DEF Structure, ChildrenInLevel, Holding
  <2>2. UNCHANGED status
    BY <1>3, <2>1 DEF ExecFailRetry, Retry, InterruptWaiting, BeginAttempt, EndWith, TypeOK
  <2> QED
    BY <1>1, <1>2, <2>2 DEF Abstract, Dag!vars
<1>4. CASE AcquireAndEnd(t)
  <2>1. status[t] = "pending"
    BY <1>4 DEF AcquireAndEnd, Structure, ChildrenInLevel
  <2>2. \A u \in Tasks : status'[u] # status[u] =>
          status[u] = "pending" /\ status'[u] \in {"failed", "skipped", "cancelled"}
    BY <1>4, <2>1 DEF AcquireAndEnd, Verdict, EndWith, TypeOK, Final
  <2>3. TypeOK'
    BY <1>4, NextTyped DEF Next, Child
  <2>4. Dag!Settle
    BY <1>1, <1>2, <2>2, <2>3 DEF Dag!Settle, TypeOK, Statuses, Final
  <2> QED
    BY <2>4 DEF Abstract, Dag!Next
<1> QED
  BY <1>3, <1>4

\* The engine executes a graph as DagExecution allows: every task after all it
\* depends on, once in a run, never after it has succeeded, within the bound on
\* concurrency, and with a status that does not change any more.
THEOREM EngineImplementsDag == Spec => ImplementsDag
<1>1. Mapped /\ [Next]_vars => Abstract
  <2> SUFFICES ASSUME Mapped, [Next]_vars PROVE Abstract
    OBVIOUS
  <2>1. ASSUME NEW t \in Tasks, AcquireAndRun(t) PROVE Abstract
    BY <2>1, DagBegin DEF Abstract, Dag!Next
  <2>2. ASSUME NEW t \in Tasks, Child(t) PROVE Abstract
    BY <2>1, <2>2, DagEnds, DagHidden DEF Child
  <2> QED
    BY <2>2, DagStart, DagRun DEF Next
<1>2. Spec => []Mapped
  BY TypeCorrect, StructureHolds, SuccessIsFinal, PermitsConserved, PTL DEF Mapped
<1> QED
  BY <1>1, <1>2, DagInit, PTL DEF Spec, Abstract, ImplementsDag, Dag!Spec
=============================================================================

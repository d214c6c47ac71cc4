--------------------------- MODULE DistributedProofs ---------------------------
(* Safety of the masters and workers, for every number of them, every graph,  *)
(* every filter, and whatever is lost or dies on the way.                     *)
(*                                                                            *)
(* A task is either untouched, at a level above lvl or in todo, or it is       *)
(* Sent, skipped or given up.  A payload, an outcome and a result belong to a   *)
(* Sent task of their dispatch; two of them never belong to the same one.      *)
EXTENDS Distributed, BloomFilterLemmas, FiniteSetTheorems, WellFoundedInduction

-----------------------------------------------------------------------------
(* The invariant *)

\* A worker holds a message from its dequeue until it has reported it.
WorkerShape ==
  \A w \in Workers :
    Busy(w) <=> wpc[w] \in {"executing", "backoff", "success", "failed"}

\* The payloads that wait or are worked on.
Payloads == {taskQueue[i] : i \in DOMAIN taskQueue} \cup {held[w] : w \in {v \in Workers : Busy(v)}}

Answers == {resultQueue[i] : i \in DOMAIN resultQueue}

Active == {"dispatching", "collecting"}

\* A dispatch id is given out once, and everything that bears one is of a
\* dispatch that was made.
DispatchIds ==
  /\ \A m, n \in Masters : dispatch[m] = dispatch[n] /\ dispatch[m] # 0 => m = n
  /\ \A m \in Masters : dispatch[m] <= dispatches /\ (mpc[m] \in Active => dispatch[m] # 0)
  /\ \A msg \in Payloads \cup Answers \cup outcomes : msg.dispatch \in 1 .. dispatches

Ready(m) == graph[m].acyclic

LevelOf(m, t) == graph[m].level[t]

\* t was dispatched, or could have been.
Sent(m, t) == t \in Nodes(m) /\ Ready(m) /\ LevelOf(m, t) <= lvl[m] /\ t \notin todo[m]

\* What the dispatch loop and the collection loop know of the level.
LevelState(m) ==
  /\ mpc[m] \in Active => Ready(m)
  /\ mpc[m] = "collecting" => todo[m] = {}
  /\ todo[m] \cup expected[m] \subseteq LevelNodes(graph[m], lvl[m])
  /\ collected[m] \subseteq expected[m] \ todo[m]
  /\ expected[m] \cap todo[m] = {}
  /\ expected[m] # {} => Ready(m)
  /\ \A t \in collected[m] : Reported(m, t)
  /\ mpc[m] \in Active =>
       \A t \in LevelNodes(graph[m], lvl[m]) \ (todo[m] \cup expected[m]) : t \in DOMAIN results[m]
          /\ results[m][t] = "skipped"

\* What is settled: the tasks of the levels before, and nothing of those after
\* as long as the loop goes on.
ResultsState(m) ==
  /\ DOMAIN results[m] \subseteq Nodes(m)
  /\ \A t \in DOMAIN results[m] : results[m][t] # "cancelled" => Sent(m, t)
  /\ \A t \in DOMAIN results[m] : results[m][t] = "cancelled" =>
       /\ mpc[m] = "returned"
       /\ t \in late[m] \/ LevelOf(m, t) > lvl[m]

\* A level is left only when it has what the next ones wait for, or its time is up.
LevelsBelow(m) ==
  \A t \in Nodes(m) : Ready(m) /\ LevelOf(m, t) < lvl[m] =>
    \/ t \in late[m]
    \/ /\ t \in DOMAIN results[m]
       /\ results[m][t] \in {"success", "skipped"} \/ ContinueOnFailure[m]

Returned(m) ==
  mpc[m] = "returned" =>
    /\ Ready(m)
    /\ \/ LevelNodes(graph[m], lvl[m]) = {}
       \/ DOMAIN results[m] = Nodes(m)

MasterShape == \A m \in Masters : LevelState(m) /\ ResultsState(m) /\ LevelsBelow(m) /\ Returned(m)

\* Payloads and outcomes belong to tasks that were dispatched.
SentOnly ==
  \A m \in Masters : \A msg \in Payloads \cup outcomes :
    msg.dispatch = dispatch[m] => Sent(m, msg.task)

\* A result that waits was produced by an execution, and so is one a worker is about
\* to send.
Origins ==
  /\ \A w \in Workers : wpc[w] \in Reporting =>
       [task |-> held[w].task, dispatch |-> held[w].dispatch, status |-> wpc[w]] \in outcomes
  /\ \A r \in Answers : \E o \in outcomes :
       r = ResultDict(o.task, o.status, o.status = "success" /\ o.task \in Valued, o.dispatch)

\* The context has every result that a payload could be expected to carry.
ContextHasResults ==
  \A m \in Masters : \A t \in DOMAIN results[m] :
    results[m][t] = "success" /\ t \in Valued /\ SoleVersion(m, t) => t.name \in context[m]

\* Two payloads for the same execution.
Same(p, q) == p.task = q.task /\ p.dispatch = q.dispatch

PayloadsDiffer ==
  /\ \A i, j \in DOMAIN taskQueue : Same(taskQueue[i], taskQueue[j]) => i = j
  /\ \A v, w \in Workers : Busy(v) /\ Busy(w) /\ Same(held[v], held[w]) => v = w
  /\ \A i \in DOMAIN taskQueue : \A w \in Workers : Busy(w) => ~ Same(taskQueue[i], held[w])

Answered(m, t, i) == resultQueue[i].name = t.name /\ resultQueue[i].dispatch = dispatch[m]

IsFor(m, t, p) == p.task = t /\ p.dispatch = dispatch[m]

\* No two results, and no result of a task that is still on its way or is reported.
AnswersDiffer ==
  \A m \in Masters : \A t \in Nodes(m) : SoleVersion(m, t) =>
    /\ \A i, j \in DOMAIN resultQueue : Answered(m, t, i) /\ Answered(m, t, j) => i = j
    /\ \A i \in DOMAIN resultQueue : Answered(m, t, i) =>
         ~ Reported(m, t) /\ \A p \in Payloads : ~ IsFor(m, t, p)
    /\ Reported(m, t) => \A p \in Payloads : ~ IsFor(m, t, p)

\* As long as nothing is stopped or dies, a worker that has a message can report it.
Undisturbed ==
  faults = 0 =>
    /\ brokerUp /\ abandoned = [tasks |-> 0, results |-> 0]
    /\ \A w \in Workers : running[w] /\ (Busy(w) => connected[w])

Somewhere(m, t) ==
  \/ \E p \in Payloads : IsFor(m, t, p)
  \/ \E r \in Answers : r.name = t.name /\ r.dispatch = dispatch[m]
  \/ Reported(m, t)

AwaitedIsSomewhere ==
  faults = 0 =>
    \A m \in Masters : Masters = {m} => 
      \A t \in expected[m] \ (Unbuildable \cup Oversized) :
        t.version = DefaultVersion => Somewhere(m, t)

Inductive ==
  /\ TypeOK /\ WorkerShape /\ DispatchIds /\ MasterShape
  /\ SentOnly /\ Origins /\ ResultsAreGenuine /\ ContextHasResults /\ ContextIsComplete
  /\ PayloadsDiffer /\ AnswersDiffer
  /\ Undisturbed /\ AwaitedIsSomewhere

-----------------------------------------------------------------------------
(* Types *)

LEMMA InitTyped == Init => TypeOK
<1> SUFFICES ASSUME Init PROVE TypeOK
  OBVIOUS
<1> USE DEF Init
<1>1. QueuesTypeOK
  BY WorkerAssumption DEF QueuesInit, QueuesTypeOK
<1>2. << >> \in Results
  <2>1. << >> \in [{} -> Statuses]
    OBVIOUS
  <2> QED
    BY <2>1 DEF Results
<1>3. MasterTypeOK
  BY <1>2, EmptyBitmapTyped DEF MasterInit, MasterTypeOK, Outside
<1>4. WorkerTypeOK
  BY DEF WorkerInit, WorkerTypeOK, WorkerStates
<1> QED
  BY <1>1, <1>3, <1>4 DEF TypeOK

LEMMA WithStatusTyped ==
  ASSUME NEW r \in Results, NEW S \in SUBSET Tasks, NEW s \in Statuses
  PROVE  WithStatus(r, S, s) \in Results
<1>1. PICK D \in SUBSET Tasks : r \in [D -> Statuses]
  BY DEF Results
<1>2. D \cup S \in SUBSET Tasks /\ WithStatus(r, S, s) \in [D \cup S -> Statuses]
  BY <1>1 DEF WithStatus
<1> QED
  BY <1>2 DEF Results

\* The nodes of every graph are tasks, and its dependencies nodes.
LEMMA GraphsTyped ==
  ASSUME MasterTypeOK, NEW m \in Masters
  PROVE  /\ IsGraph(graph[m])
         /\ Nodes(m) \subseteq Tasks
         /\ \A l : LevelNodes(graph[m], l) \subseteq Nodes(m)
         /\ \A t \in Nodes(m) : LevelOf(m, t) \in Nat /\ graph[m].deps[t] \subseteq Nodes(m)
<1>1. IsGraph(graph[m])
  <2>1. CASE graph[m] \in Graphs[m]
    BY <2>1, MasterAssumption
  <2>2. CASE graph[m] = NoGraph
    BY <2>2 DEF NoGraph, IsGraph, NodesOf
  <2> QED
    BY <2>1, <2>2 DEF MasterTypeOK
<1> QED
  BY <1>1 DEF IsGraph, Nodes, LevelNodes, LevelOf

LEMMA MasterStepTyped ==
  ASSUME TypeOK, NEW m \in Masters, MasterStep(m), UNCHANGED workerVars
  PROVE  TypeOK'
<1> USE DEF TypeOK, Outside
<1>1. WorkerTypeOK'
  BY DEF workerVars, WorkerTypeOK
<1>2. ASSUME NEW t \in Tasks, Enqueue(m, t) PROVE TypeOK'
  <2>1. Payload(m, t) \in TaskMessages
    BY DEF Payload, TaskMessages, MasterTypeOK, Dispatches
  <2>2. QueuesTypeOK'
    BY <1>2, <2>1 DEF Enqueue, QueuesTypeOK, session
  <2>3. Added(seen[m], t) \in Bitmaps
    BY AddedTyped, MasterAssumption DEF MasterTypeOK
  <2>4. MasterTypeOK'
    BY <1>2, <2>3 DEF Enqueue, MasterTypeOK, session, progress
  <2> QED
    BY <1>1, <2>2, <2>4
<1>3. ASSUME NEW t \in Tasks, Skip(m, t) PROVE TypeOK'
  <2>1. WithStatus(results[m], {t}, "skipped") \in Results
    BY WithStatusTyped DEF MasterTypeOK, Statuses
  <2>2. QueuesTypeOK' /\ MasterTypeOK'
    BY <1>3, <2>1 DEF Skip, QueuesTypeOK, queueVars, MasterTypeOK, session, progress
  <2> QED
    BY <1>1, <2>2
<1>4. ASSUME Await(m) PROVE TypeOK'
  BY <1>1, <1>4 DEF Await, QueuesTypeOK, queueVars, MasterTypeOK, session, progress
<1>5. ASSUME NextLevel(m), UNCHANGED <<queueVars, session, progress, results, context, seen>>,
             late' \in [Masters -> SUBSET Tasks]
      PROVE  TypeOK'
  <2>1. LevelNodes(graph[m], lvl[m] + 1) \in SUBSET Tasks
    BY GraphsTyped
  <2>2. QueuesTypeOK' /\ MasterTypeOK'
    BY <1>5, <2>1 DEF NextLevel, QueuesTypeOK, queueVars, MasterTypeOK, session, progress
  <2> QED
    BY <1>1, <2>2
<1>6. ASSUME NothingToAwait(m) PROVE TypeOK'
  BY <1>5, <1>6 DEF NothingToAwait, MasterTypeOK
<1>7. ASSUME LevelDone(m) PROVE TypeOK'
  <2>1. late' \in [Masters -> SUBSET Tasks]
    BY <1>7 DEF LevelDone, MasterTypeOK, Missing
  <2> QED
    BY <1>5, <1>7, <2>1 DEF LevelDone
<1>8. ASSUME Collect(m) PROVE TypeOK'
  <2> DEFINE r == Head(resultQueue)
  <2>1. r \in ResultMessages /\ Tail(resultQueue) \in Seq(ResultMessages)
    BY <1>8 DEF Collect, QueuesTypeOK
  <2>2. ReadBack(r) \in Tasks /\ r.status \in Statuses /\ r.name \in Names
    BY <1>8, <2>1 DEF Collect, Accepts, MasterTypeOK, ResultMessages, Statuses
  <2>3. WithStatus(results[m], {ReadBack(r)}, r.status) \in Results
    BY <2>2, WithStatusTyped DEF MasterTypeOK
  <2> HIDE DEF r
  <2>4. QueuesTypeOK'
    BY <1>8, <2>1 DEF Collect, QueuesTypeOK, session
  <2>5. context' = [context EXCEPT ![m] = IF r.status = "success" /\ r.value THEN @ \cup {r.name} ELSE @]
        /\ results' = [results EXCEPT ![m] = WithStatus(@, {ReadBack(r)}, r.status)]
        /\ collected' = [collected EXCEPT ![m] = @ \cup {ReadBack(r)}]
        /\ UNCHANGED <<session, progress, mpc, lvl, todo, expected, seen, late>>
    BY <1>8 DEF Collect, r
  <2>6. MasterTypeOK'
    BY <2>2, <2>3, <2>5 DEF MasterTypeOK, session, progress
  <2> QED
    BY <1>1, <2>4, <2>6
<1>9. ASSUME Discard(m) PROVE TypeOK'
  BY <1>1, <1>9 DEF Discard, QueuesTypeOK, MasterTypeOK, masterVars, submission, progress
<1>10. ASSUME GiveUp(m) PROVE TypeOK'
  <2>1. Nodes(m) \ DOMAIN results[m] \in SUBSET Tasks
    BY GraphsTyped
  <2>2. WithStatus(results[m], Nodes(m) \ DOMAIN results[m], "cancelled") \in Results
    BY <2>1, WithStatusTyped DEF MasterTypeOK, Statuses
  <2>3. late' \in [Masters -> SUBSET Tasks]
    BY <1>10 DEF GiveUp, MasterTypeOK, Missing
  <2>4. QueuesTypeOK' /\ MasterTypeOK'
    BY <1>10, <2>2, <2>3 DEF GiveUp, QueuesTypeOK, queueVars, MasterTypeOK, session, progress
  <2> QED
    BY <1>1, <2>4
<1>11. ASSUME Raise(m) PROVE TypeOK'
  BY <1>1, <1>11 DEF Raise, QueuesTypeOK, queueVars, MasterTypeOK, submission, progress
<1> QED
  BY <1>2, <1>3, <1>4, <1>6, <1>7, <1>8, <1>9, <1>10, <1>11 DEF MasterStep

LEMMA MasterCallTyped ==
  ASSUME TypeOK, NEW m \in Masters, MasterCall(m), UNCHANGED workerVars
  PROVE  TypeOK'
<1> USE DEF TypeOK, Outside
<1>1. WorkerTypeOK'
  BY DEF workerVars, WorkerTypeOK
<1>2. ASSUME NEW g \in Graphs[m], Submit(m, g) PROVE TypeOK'
  <2>1. LevelNodes(g, 0) \in SUBSET Tasks
    BY MasterAssumption DEF IsGraph, LevelNodes
  <2>2. << >> \in Results
    <3>1. << >> \in [{} -> Statuses]
      OBVIOUS
    <3> QED
      BY <3>1 DEF Results
  <2>3. EmptyBitmap \in Bitmaps
    BY EmptyBitmapTyped
  <2>4. QueuesTypeOK' /\ MasterTypeOK'
    BY <1>2, <2>1, <2>2, <2>3 DEF Submit, QueuesTypeOK, queueVars, MasterTypeOK, session
  <2> QED
    BY <1>1, <2>4
<1>3. ASSUME Connect(m) PROVE TypeOK'
  BY <1>1, <1>3 DEF Connect, QueuesTypeOK, queueVars, MasterTypeOK, submission, progress
<1>5. ASSUME Shutdown(m) PROVE TypeOK'
  BY <1>1, <1>5 DEF Shutdown, Fault, QueuesTypeOK, queueVars, MasterTypeOK, submission, progress
<1>4. ASSUME MasterCrash(m) PROVE TypeOK'
  <2>1. abandoned' \in [{"tasks", "results"} -> Nat]
    BY <1>4 DEF MasterCrash, QueuesTypeOK
  <2> QED
    BY <1>1, <1>4, <2>1 DEF MasterCrash, Fault, QueuesTypeOK, MasterTypeOK, submission, progress
<1> QED
  BY <1>2, <1>3, <1>4, <1>5 DEF MasterCall

LEMMA WorkerTyped ==
  ASSUME TypeOK, WorkerShape, NEW w \in Workers, WorkerStep(w) \/ WorkerFault(w),
         UNCHANGED masterVars
  PROVE  TypeOK' /\ WorkerShape'
<1> USE DEF TypeOK, WorkerStates, Reporting, WorkerShape, Busy
<1>1. MasterTypeOK'
  BY DEF masterVars, submission, progress, MasterTypeOK
<1>2. ASSUME Take(w) PROVE TypeOK' /\ WorkerShape'
  <2>1. Head(taskQueue) \in TaskMessages /\ Head(taskQueue) # NoMessage
        /\ Tail(taskQueue) \in Seq(TaskMessages)
    BY <1>2, WorkerAssumption DEF Take, QueuesTypeOK
  <2> QED
    BY <1>1, <1>2, <2>1 DEF Take, QueuesTypeOK, WorkerTypeOK
<1>3. ASSUME NEW status \in Reporting, Conclude(w, status), wpc[w] = "executing",
             UNCHANGED <<queueVars, faults, running, connected, held>>
      PROVE  TypeOK' /\ WorkerShape'
  <2>1. held[w] \in TaskMessages
    BY <1>3 DEF WorkerTypeOK
  <2>2. [task |-> held[w].task, dispatch |-> held[w].dispatch, status |-> status]
          \in [task : Tasks, dispatch : Dispatches, status : {"success", "failed"}]
    BY <2>1 DEF TaskMessages
  <2>3. TypeOK'
    BY <1>1, <1>3, <2>2 DEF Conclude, QueuesTypeOK, queueVars, WorkerTypeOK
  <2>4. WorkerShape'
    BY <1>3 DEF Conclude, WorkerTypeOK
  <2> QED
    BY <2>3, <2>4
<1>4. ASSUME FailAttempt(w) \/ BackoffOver(w) PROVE TypeOK' /\ WorkerShape'
  <2>1. CASE FailAttempt(w)
    BY <1>1, <2>1 DEF FailAttempt, Built, QueuesTypeOK, queueVars, WorkerTypeOK
  <2>2. CASE BackoffOver(w)
    BY <1>1, <2>2 DEF BackoffOver, QueuesTypeOK, queueVars, WorkerTypeOK
  <2> QED
    BY <1>4, <2>1, <2>2
<1>5. ASSUME Leave(w) \/ Spin(w) \/ Disconnect(w) PROVE TypeOK' /\ WorkerShape'
  BY <1>1, <1>5 DEF Leave, Spin, Disconnect, QueuesTypeOK, queueVars, WorkerTypeOK
<1>6. ASSUME Forget(w) PROVE TypeOK' /\ WorkerShape'
  BY <1>1, <1>6 DEF Forget, NextMessage, QueuesTypeOK, queueVars, WorkerTypeOK
<1>7. ASSUME Report(w) PROVE TypeOK' /\ WorkerShape'
  <2>1. Result(w) \in Seq(ResultMessages)
    BY <1>7 DEF Report, Result, ResultDict, ResultMessages, WorkerTypeOK, TaskMessages, Names, Dispatches
  <2>2. resultQueue' \in Seq(ResultMessages)
    BY <1>7, <2>1 DEF Report, QueuesTypeOK
  <2>3. Arrives(w) \in BOOLEAN
    BY DEF Arrives, WorkerTypeOK
  <2>4. QueuesTypeOK'
    BY <1>7, <2>2 DEF Report, QueuesTypeOK
  <2> QED
    BY <1>1, <1>7, <2>3, <2>4 DEF Report, NextMessage, WorkerTypeOK
<1>8. ASSUME Stop(w) \/ Start(w) PROVE TypeOK' /\ WorkerShape'
  <2>1. CASE Stop(w)
    BY <1>1, <2>1 DEF Stop, Fault, QueuesTypeOK, queueVars, WorkerTypeOK
  <2>2. CASE Start(w)
    BY <1>1, <2>2 DEF Start, QueuesTypeOK, queueVars, WorkerTypeOK
  <2> QED
    BY <1>8, <2>1, <2>2
<1>9. ASSUME Crash(w) PROVE TypeOK' /\ WorkerShape'
  <2>1. abandoned' \in [{"tasks", "results"} -> Nat]
    BY <1>9 DEF Crash, QueuesTypeOK
  <2>2. QueuesTypeOK'
    BY <1>9, <2>1 DEF Crash, Fault, QueuesTypeOK
  <2> QED
    BY <1>1, <1>9, <2>2 DEF Crash, WorkerTypeOK
<1>10. ASSUME Reject(w) \/ Succeed(w) \/ FailTask(w) PROVE TypeOK' /\ WorkerShape'
  BY <1>3, <1>10 DEF Reject, Succeed, FailTask, Built
<1> QED
  BY <1>2, <1>4, <1>5, <1>6, <1>7, <1>8, <1>9, <1>10 DEF WorkerStep, WorkerFault

LEMMA StepTyped == TypeOK /\ WorkerShape /\ [Next]_vars => TypeOK' /\ WorkerShape'
<1> SUFFICES ASSUME TypeOK, WorkerShape, [Next]_vars PROVE TypeOK' /\ WorkerShape'
  OBVIOUS
<1> USE DEF TypeOK
<1>1. UNCHANGED workerVars => WorkerShape'
  BY DEF workerVars, WorkerShape, Busy
<1>2. ASSUME NEW m \in Masters, MasterStep(m) \/ MasterCall(m), UNCHANGED workerVars
      PROVE  TypeOK' /\ WorkerShape'
  BY <1>1, <1>2, MasterStepTyped, MasterCallTyped
<1>3. ASSUME NEW w \in Workers, WorkerStep(w) \/ WorkerFault(w), UNCHANGED masterVars
      PROVE  TypeOK' /\ WorkerShape'
  BY <1>3, WorkerTyped
<1>4. ASSUME LoseTask \/ LoseResult \/ GetterTimeout \/ QueuesStart,
             UNCHANGED <<masterVars, workerVars>>
      PROVE  TypeOK' /\ WorkerShape'
  <2>1. MasterTypeOK' /\ WorkerTypeOK'
    BY <1>4 DEF masterVars, submission, progress, MasterTypeOK, workerVars, WorkerTypeOK
  <2>2. ASSUME NEW q \in {"tasks", "results"}, GetterEnds(q)
        PROVE  abandoned' \in [{"tasks", "results"} -> Nat]
    BY <2>2 DEF GetterEnds, QueuesTypeOK
  <2>3. LoseTask => QueuesTypeOK'
    BY <2>2 DEF LoseTask, GetterEnds, QueuesTypeOK
  <2>6. LoseResult => QueuesTypeOK'
    BY <2>2 DEF LoseResult, GetterEnds, QueuesTypeOK
  <2>4. GetterTimeout => QueuesTypeOK'
    BY <2>2 DEF GetterTimeout, GetterEnds, QueuesTypeOK
  <2>5. QueuesStart => QueuesTypeOK'
    BY DEF QueuesStart, QueuesTypeOK
  <2> QED
    BY <1>1, <1>4, <2>1, <2>3, <2>4, <2>5, <2>6
<1>5. ASSUME BrokerEnds PROVE TypeOK' /\ WorkerShape'
  <2>1. QueuesTypeOK'
    <3>1. [tasks |-> 0, results |-> 0] \in [{"tasks", "results"} -> Nat]
      OBVIOUS
    <3>2. << >> \in Seq(TaskMessages) /\ << >> \in Seq(ResultMessages)
      OBVIOUS
    <3>3. faults' \in Nat
      BY <1>5 DEF BrokerEnds, QueuesEnd, Fault, QueuesTypeOK
    <3>5. brokerUp' \in BOOLEAN
      BY <1>5 DEF BrokerEnds, QueuesEnd
    <3>4. taskQueue' = << >> /\ resultQueue' = << >> /\ abandoned' = [tasks |-> 0, results |-> 0]
      BY <1>5 DEF BrokerEnds, QueuesEnd
    <3> QED
      BY <3>1, <3>2, <3>3, <3>4, <3>5 DEF QueuesTypeOK
  <2>2. MasterTypeOK' /\ WorkerTypeOK' /\ WorkerShape'
    BY <1>5 DEF BrokerEnds, MasterTypeOK, submission, progress, WorkerTypeOK, WorkerShape, Busy
  <2> QED
    BY <2>1, <2>2
<1>6. ASSUME UNCHANGED vars PROVE TypeOK' /\ WorkerShape'
  BY <1>1, <1>6 DEF vars, queueVars, masterVars, submission, progress, workerVars,
                    QueuesTypeOK, MasterTypeOK, WorkerTypeOK
<1> QED
  BY <1>2, <1>3, <1>4, <1>5, <1>6 DEF Next

-----------------------------------------------------------------------------
(* The master's loop *)

\* Nothing changes in m's submission.
SameRow(m) ==
  /\ graph'[m] = graph[m] /\ dispatch'[m] = dispatch[m] /\ lvl'[m] = lvl[m]
  /\ todo'[m] = todo[m] /\ expected'[m] = expected[m] /\ collected'[m] = collected[m]
  /\ results'[m] = results[m] /\ context'[m] = context[m] /\ late'[m] = late[m]

LEMMA OthersKept ==
  ASSUME TypeOK, NEW m \in Masters, MasterStep(m) \/ MasterCall(m), NEW n \in Masters \ {m}
  PROVE  SameRow(n) /\ mpc'[n] = mpc[n]
  BY DEF MasterStep, MasterCall, Enqueue, Skip, Await, NothingToAwait, NextLevel, Collect, Discard,
         LevelDone, GiveUp, Raise, Submit, Connect, Shutdown, MasterCrash, masterVars, submission,
         progress, SameRow, TypeOK, MasterTypeOK

LEMMA ShapeKept ==
  ASSUME MasterShape, NEW m \in Masters, SameRow(m),
         mpc'[m] = mpc[m] \/ (mpc[m] \in Active /\ mpc'[m] = "raised")
  PROVE  LevelState(m)' /\ ResultsState(m)' /\ LevelsBelow(m)' /\ Returned(m)'
<1>1. LevelState(m)'
  BY DEF MasterShape, SameRow, LevelState, Active, Ready, LevelNodes, Reported
<1>2. ResultsState(m)'
  BY DEF MasterShape, SameRow, ResultsState, Active, Nodes, Sent, Ready, LevelOf
<1>3. LevelsBelow(m)' /\ Returned(m)'
  BY DEF MasterShape, SameRow, LevelsBelow, Returned, Nodes, Ready, LevelOf, LevelNodes
<1> QED
  BY <1>1, <1>2, <1>3

LEMMA SubmitShape ==
  ASSUME TypeOK, NEW m \in Masters, NEW g \in Graphs[m], Submit(m, g)
  PROVE  LevelState(m)' /\ ResultsState(m)' /\ LevelsBelow(m)' /\ Returned(m)'
<1>1. /\ graph'[m] = g /\ lvl'[m] = 0 /\ todo'[m] = LevelNodes(g, 0)
      /\ expected'[m] = {} /\ collected'[m] = {} /\ results'[m] = << >>
      /\ mpc'[m] = IF g.acyclic /\ NodesOf(g) # {} THEN "dispatching" ELSE "raised"
  BY DEF Submit, TypeOK, MasterTypeOK
<1>2. \A t \in NodesOf(g) : g.level[t] \in Nat
  BY MasterAssumption DEF IsGraph
<1>3. LevelState(m)'
  BY <1>1 DEF LevelState, Active, Ready
<1>4. ResultsState(m)'
  BY <1>1 DEF ResultsState
<1>5. LevelsBelow(m)'
  BY <1>1, <1>2 DEF LevelsBelow, Nodes, Ready, LevelOf
<1>6. Returned(m)'
  BY <1>1 DEF Returned
<1> QED
  BY <1>3, <1>4, <1>5, <1>6

LEMMA EnqueueShape ==
  ASSUME TypeOK, MasterShape, NEW m \in Masters, NEW t \in Tasks, Enqueue(m, t)
  PROVE  LevelState(m)' /\ ResultsState(m)' /\ LevelsBelow(m)' /\ Returned(m)'
<1>1. /\ mpc[m] = "dispatching" /\ t \in todo[m]
      /\ todo'[m] = todo[m] \ {t} /\ expected'[m] = expected[m] \cup {t}
      /\ UNCHANGED <<graph, mpc, lvl, collected, results, late>>
  BY DEF Enqueue, Due, progress, TypeOK, MasterTypeOK
<1>2. LevelState(m)'
  BY <1>1 DEF MasterShape, LevelState, Active, Ready, LevelNodes, Reported
<1>3. ResultsState(m)'
  BY <1>1 DEF MasterShape, ResultsState, Nodes, Sent, Ready, LevelOf
<1>4. LevelsBelow(m)' /\ Returned(m)'
  BY <1>1 DEF MasterShape, LevelsBelow, Returned, Nodes, Ready, LevelOf, LevelNodes
<1> QED
  BY <1>2, <1>3, <1>4

LEMMA SkipShape ==
  ASSUME TypeOK, MasterShape, NEW m \in Masters, NEW t \in Tasks, Skip(m, t)
  PROVE  LevelState(m)' /\ ResultsState(m)' /\ LevelsBelow(m)' /\ Returned(m)'
<1>1. /\ mpc[m] = "dispatching" /\ t \in todo[m]
      /\ todo'[m] = todo[m] \ {t} /\ results'[m] = WithStatus(results[m], {t}, "skipped")
      /\ UNCHANGED <<graph, mpc, lvl, expected, collected, late>>
  BY DEF Skip, progress, TypeOK, MasterTypeOK
<1>2. /\ DOMAIN results'[m] = DOMAIN results[m] \cup {t} /\ results'[m][t] = "skipped"
      /\ \A u \in DOMAIN results[m] \ {t} : results'[m][u] = results[m][u]
  BY <1>1 DEF WithStatus
<1>3. t \in Nodes(m) /\ LevelOf(m, t) = lvl[m] /\ Ready(m) /\ lvl[m] \in Nat
  BY <1>1 DEF MasterShape, LevelState, LevelNodes, Nodes, LevelOf, Active, TypeOK, MasterTypeOK
<1>4. LevelState(m)'
  <2>1. \A u \in collected[m] : u \in DOMAIN results[m] \ {t} /\ results[m][u] \in {"success", "failed"}
    BY <1>1 DEF MasterShape, LevelState, Reported
  <2>2. \A u \in collected[m] : Reported(m, u)'
    BY <1>2, <2>1 DEF Reported
  <2>3. \A u \in LevelNodes(graph[m], lvl[m]) \ (todo[m] \cup expected[m]) :
          u \in DOMAIN results[m] /\ results[m][u] = "skipped"
    BY <1>1 DEF MasterShape, LevelState, Active
  <2> QED
    BY <1>1, <1>2, <2>2, <2>3 DEF MasterShape, LevelState, Active, Ready
<1>5. ResultsState(m)'
  <2>1. \A u \in DOMAIN results[m] : results[m][u] # "cancelled" /\ Sent(m, u)
    BY <1>1 DEF MasterShape, ResultsState, Active
  <2>2. DOMAIN results'[m] \subseteq Nodes(m)
    BY <1>2, <1>3 DEF MasterShape, ResultsState
  <2>3. \A u \in DOMAIN results'[m] : results'[m][u] # "cancelled" /\ Sent(m, u)'
    BY <1>1, <1>2, <1>3, <2>1 DEF Sent, Nodes, Ready, LevelOf
  <2> QED
    BY <1>1, <2>2, <2>3 DEF ResultsState, Nodes
<1>6. LevelsBelow(m)' /\ Returned(m)'
  BY <1>1, <1>2, <1>3 DEF MasterShape, LevelsBelow, Returned, Nodes, Ready, LevelOf, LevelNodes
<1> QED
  BY <1>4, <1>5, <1>6

LEMMA AwaitShape ==
  ASSUME TypeOK, MasterShape, NEW m \in Masters, Await(m)
  PROVE  LevelState(m)' /\ ResultsState(m)' /\ LevelsBelow(m)' /\ Returned(m)'
<1>1. /\ mpc[m] = "dispatching" /\ todo[m] = {} /\ mpc'[m] = "collecting"
      /\ UNCHANGED <<graph, lvl, todo, expected, collected, results, late>>
  BY DEF Await, progress, TypeOK, MasterTypeOK
<1>2. LevelState(m)'
  BY <1>1 DEF MasterShape, LevelState, Active, Ready, LevelNodes, Reported
<1>3. ResultsState(m)' /\ LevelsBelow(m)' /\ Returned(m)'
  BY <1>1 DEF MasterShape, ResultsState, LevelsBelow, Returned, Nodes, Sent, Ready, LevelOf, LevelNodes
<1> QED
  BY <1>2, <1>3

LEMMA CollectShape ==
  ASSUME TypeOK, MasterShape, NEW m \in Masters, Collect(m)
  PROVE  LevelState(m)' /\ ResultsState(m)' /\ LevelsBelow(m)' /\ Returned(m)'
<1> DEFINE r == Head(resultQueue)
           t == ReadBack(r)
<1>1. /\ mpc[m] = "collecting" /\ t \in expected[m] /\ r.status \in {"success", "failed"}
      /\ collected'[m] = collected[m] \cup {t}
      /\ results'[m] = WithStatus(results[m], {t}, r.status)
      /\ UNCHANGED <<graph, mpc, lvl, todo, expected, late>>
  <2>1. r \in ResultMessages
    BY DEF Collect, TypeOK, QueuesTypeOK
  <2> QED
    BY <2>1 DEF Collect, Collecting, Accepts, progress, TypeOK, MasterTypeOK, ResultMessages
<1> HIDE DEF r, t
<1>2. /\ DOMAIN results'[m] = DOMAIN results[m] \cup {t} /\ results'[m][t] = r.status
      /\ \A u \in DOMAIN results[m] \ {t} : results'[m][u] = results[m][u]
  BY <1>1 DEF WithStatus
<1>3. t \in Nodes(m) /\ LevelOf(m, t) = lvl[m] /\ Ready(m) /\ lvl[m] \in Nat /\ t \notin todo[m]
  BY <1>1 DEF MasterShape, LevelState, LevelNodes, Nodes, LevelOf, Active, TypeOK, MasterTypeOK
<1>4. LevelState(m)'
  <2>1. \A u \in collected[m] : u \in DOMAIN results[m] /\ results[m][u] \in {"success", "failed"}
    BY DEF MasterShape, LevelState, Reported
  <2>2. \A u \in collected'[m] : Reported(m, u)'
    BY <1>1, <1>2, <2>1 DEF Reported
  <2>3. \A u \in LevelNodes(graph[m], lvl[m]) \ (todo[m] \cup expected[m]) :
          u \in DOMAIN results[m] /\ results[m][u] = "skipped"
    BY <1>1 DEF MasterShape, LevelState, Active
  <2>4. \A u \in LevelNodes(graph[m], lvl[m]) \ (todo[m] \cup expected[m]) :
          u \in DOMAIN results'[m] /\ results'[m][u] = "skipped"
    BY <1>1, <1>2, <2>3
  <2>5. collected'[m] \subseteq expected[m] \ todo[m]
    BY <1>1, <1>3 DEF MasterShape, LevelState
  <2> QED
    BY <1>1, <1>3, <2>2, <2>4, <2>5 DEF MasterShape, LevelState, Active, Ready
<1>5. ResultsState(m)'
  <2>1. \A u \in DOMAIN results[m] : results[m][u] # "cancelled" /\ Sent(m, u)
    BY <1>1 DEF MasterShape, ResultsState, Active
  <2>2. DOMAIN results'[m] \subseteq Nodes(m)
    BY <1>2, <1>3 DEF MasterShape, ResultsState
  <2>3. \A u \in DOMAIN results'[m] : results'[m][u] # "cancelled" /\ Sent(m, u)'
    BY <1>1, <1>2, <1>3, <2>1 DEF Sent, Nodes, Ready, LevelOf
  <2> QED
    BY <1>1, <2>2, <2>3 DEF ResultsState, Nodes
<1>6. LevelsBelow(m)'
  <2>1. \A u \in Nodes(m) : LevelOf(m, u) < lvl[m] => u # t
    BY <1>3
  <2> QED
    BY <1>1, <1>2, <2>1 DEF MasterShape, LevelsBelow, Nodes, Ready, LevelOf
<1>7. Returned(m)'
  BY <1>1 DEF Returned
<1> QED
  BY <1>4, <1>5, <1>6, <1>7

\* The level that is left has what it needs: every task of it succeeded, was
\* skipped, or failed where that is tolerated; or it is late.
LevelIsSettled(m) ==
  \A t \in LevelNodes(graph[m], lvl[m]) :
    \/ t \in late'[m]
    \/ /\ t \in DOMAIN results[m]
       /\ results[m][t] \in {"success", "skipped"} \/ ContinueOnFailure[m]

LEMMA NextLevelShape ==
  ASSUME TypeOK, MasterShape, NEW m \in Masters, mpc[m] \in Active, NextLevel(m),
         LevelIsSettled(m), late[m] \subseteq late'[m], UNCHANGED <<graph, results>>
  PROVE  LevelState(m)' /\ ResultsState(m)' /\ LevelsBelow(m)' /\ Returned(m)'
<1> DEFINE next == LevelNodes(graph[m], lvl[m] + 1)
<1>1. /\ mpc'[m] = IF next = {} THEN "returned" ELSE "dispatching"
      /\ lvl'[m] = lvl[m] + 1 /\ todo'[m] = next
      /\ expected'[m] = {} /\ collected'[m] = {}
  BY DEF NextLevel, TypeOK, MasterTypeOK
<1>2. Ready(m) /\ lvl[m] \in Nat /\ \A t \in Nodes(m) : LevelOf(m, t) \in Nat
  BY GraphsTyped DEF MasterShape, LevelState, TypeOK, MasterTypeOK
<1>3. LevelState(m)'
  BY <1>1, <1>2 DEF LevelState, Active, Ready, LevelNodes
<1>4. ResultsState(m)'
  <2>1. \A t \in DOMAIN results[m] : results[m][t] # "cancelled" /\ Sent(m, t)
    BY DEF MasterShape, ResultsState, Active
  <2>2. \A t \in Nodes(m) : LevelOf(m, t) <= lvl[m] => t \notin next
    BY <1>2 DEF LevelNodes, LevelOf
  <2> QED
    BY <1>1, <1>2, <2>1, <2>2 DEF MasterShape, ResultsState, Nodes, Sent, Ready, LevelOf
<1>5. LevelsBelow(m)'
  <2> SUFFICES ASSUME NEW t \in Nodes(m), LevelOf(m, t) < lvl[m] + 1, t \notin late'[m]
               PROVE  /\ t \in DOMAIN results[m]
                      /\ results[m][t] \in {"success", "skipped"} \/ ContinueOnFailure[m]
    BY <1>1 DEF LevelsBelow, Nodes, LevelOf
  <2>1. CASE LevelOf(m, t) = lvl[m]
    BY <2>1 DEF LevelIsSettled, LevelNodes, Nodes, LevelOf
  <2>2. CASE LevelOf(m, t) < lvl[m]
    BY <1>2, <2>2 DEF MasterShape, LevelsBelow
  <2> QED
    BY <1>2, <2>1, <2>2
<1>6. Returned(m)'
  BY <1>1, <1>2 DEF Returned, Ready
<1> QED
  BY <1>3, <1>4, <1>5, <1>6

LEMMA LevelDoneShape ==
  ASSUME TypeOK, MasterShape, NEW m \in Masters, NothingToAwait(m) \/ LevelDone(m)
  PROVE  LevelState(m)' /\ ResultsState(m)' /\ LevelsBelow(m)' /\ Returned(m)'
<1>1. CASE NothingToAwait(m)
  <2>1. /\ mpc[m] = "dispatching" /\ todo[m] = {} /\ expected[m] = {} /\ NextLevel(m)
        /\ UNCHANGED <<graph, results, late>>
    BY <1>1 DEF NothingToAwait, progress
  <2>2. LevelIsSettled(m)
    BY <2>1 DEF LevelIsSettled, MasterShape, LevelState, Active
  <2> QED
    BY <2>1, <2>2, NextLevelShape DEF Active
<1>2. CASE LevelDone(m)
  <2>1. /\ mpc[m] = "collecting" /\ ~ GivesUp(m) /\ NextLevel(m)
        /\ late'[m] = late[m] \cup (expected[m] \ collected[m])
        /\ UNCHANGED <<graph, results>>
    BY <1>2 DEF LevelDone, Collected, TimeIsUp, Collecting, Missing, progress, TypeOK, MasterTypeOK
  <2>2. LevelIsSettled(m)
    <3> SUFFICES ASSUME NEW t \in LevelNodes(graph[m], lvl[m]), t \notin late'[m]
                 PROVE  /\ t \in DOMAIN results[m]
                        /\ results[m][t] \in {"success", "skipped"} \/ ContinueOnFailure[m]
      BY <2>1 DEF LevelIsSettled
    <3>1. CASE t \in collected[m]
      <4>1. Reported(m, t)
        BY <3>1 DEF MasterShape, LevelState
      <4>2. results[m][t] = "failed" => ContinueOnFailure[m]
        BY <2>1, <3>1 DEF GivesUp, Failed
      <4> QED
        BY <4>1, <4>2 DEF Reported
    <3>2. CASE t \notin collected[m]
      BY <2>1, <3>2 DEF MasterShape, LevelState, Active
    <3> QED
      BY <3>1, <3>2
  <2> QED
    BY <2>1, <2>2, NextLevelShape DEF Active
<1> QED
  BY <1>1, <1>2

\* What is cancelled has no result, so it is of a later level or late.
LEMMA GiveUpShape ==
  ASSUME TypeOK, MasterShape, NEW m \in Masters, GiveUp(m)
  PROVE  LevelState(m)' /\ ResultsState(m)' /\ LevelsBelow(m)' /\ Returned(m)'
<1> DEFINE rest == Nodes(m) \ DOMAIN results[m]
<1>1. /\ mpc[m] = "collecting" /\ mpc'[m] = "returned"
      /\ late'[m] = late[m] \cup (expected[m] \ collected[m])
      /\ results'[m] = WithStatus(results[m], rest, "cancelled")
      /\ UNCHANGED <<graph, lvl, todo, expected, collected>>
  BY DEF GiveUp, Collected, TimeIsUp, Collecting, Missing, progress, TypeOK, MasterTypeOK
<1>2. /\ DOMAIN results'[m] = DOMAIN results[m] \cup rest
      /\ \A t \in rest : results'[m][t] = "cancelled"
      /\ \A t \in DOMAIN results[m] : results'[m][t] = results[m][t]
  BY <1>1 DEF WithStatus
<1>3. /\ Ready(m) /\ lvl[m] \in Nat /\ \A t \in Nodes(m) : LevelOf(m, t) \in Nat
      /\ DOMAIN results[m] \subseteq Nodes(m)
  BY <1>1, GraphsTyped DEF MasterShape, LevelState, ResultsState, Active, TypeOK, MasterTypeOK
<1>4. LevelState(m)'
  <2>1. \A u \in collected[m] : u \in DOMAIN results[m] /\ results[m][u] \in {"success", "failed"}
    BY DEF MasterShape, LevelState, Reported
  <2>2. \A u \in collected[m] : Reported(m, u)'
    BY <1>2, <2>1 DEF Reported
  <2> QED
    BY <1>1, <1>3, <2>2 DEF MasterShape, LevelState, Active, Ready
<1>5. \A t \in rest : t \in late'[m] \/ LevelOf(m, t) > lvl[m]
  <2> SUFFICES ASSUME NEW t \in rest, t \notin late'[m], LevelOf(m, t) <= lvl[m] PROVE FALSE
    BY <1>3
  <2>1. t \notin expected[m] \ collected[m] /\ t \notin late[m]
    BY <1>1
  <2>2. CASE LevelOf(m, t) = lvl[m]
    <3>1. t \in LevelNodes(graph[m], lvl[m])
      BY <2>2 DEF LevelNodes, Nodes, LevelOf
    <3> QED
      BY <1>1, <2>1, <3>1 DEF MasterShape, LevelState, Active, Reported
  <2>3. CASE LevelOf(m, t) < lvl[m]
    BY <1>3, <2>1, <2>3 DEF MasterShape, LevelsBelow
  <2> QED
    BY <1>3, <2>2, <2>3
<1>6. ResultsState(m)'
  <2>1. \A t \in DOMAIN results[m] : results[m][t] # "cancelled" /\ Sent(m, t)
    BY <1>1 DEF MasterShape, ResultsState, Active
  <2> QED
    BY <1>1, <1>2, <1>3, <1>5, <2>1 DEF ResultsState, Nodes, Sent, Ready, LevelOf
<1>7. LevelsBelow(m)'
  BY <1>1, <1>2 DEF MasterShape, LevelsBelow, Nodes, Ready, LevelOf
<1>8. Returned(m)'
  BY <1>1, <1>2, <1>3 DEF Returned, Ready, Nodes
<1> QED
  BY <1>4, <1>6, <1>7, <1>8

LEMMA MasterShapeNext == TypeOK /\ MasterShape /\ [Next]_vars => MasterShape'
<1> SUFFICES ASSUME TypeOK, MasterShape, [Next]_vars, NEW n \in Masters
             PROVE  (LevelState(n) /\ ResultsState(n) /\ LevelsBelow(n) /\ Returned(n))'
  BY DEF MasterShape
<1>1. ASSUME NEW m \in Masters, MasterStep(m) \/ MasterCall(m)
      PROVE  (LevelState(n) /\ ResultsState(n) /\ LevelsBelow(n) /\ Returned(n))'
  <2>1. CASE n # m
    BY <1>1, <2>1, OthersKept, ShapeKept
  <2>2. CASE n = m /\ (Discard(m) \/ Raise(m) \/ Connect(m) \/ Shutdown(m) \/ MasterCrash(m))
    <3>1. SameRow(m) /\ (mpc'[m] = mpc[m] \/ (mpc[m] \in Active /\ mpc'[m] = "raised"))
      BY <2>2 DEF Discard, Raise, Due, Collecting, Connect, Shutdown, MasterCrash, Outside, Active,
                  masterVars, submission, progress, SameRow, TypeOK, MasterTypeOK
    <3> QED
      BY <2>2, <3>1, ShapeKept
  <2> QED
    BY <1>1, <2>1, <2>2, SubmitShape, EnqueueShape, SkipShape, AwaitShape, CollectShape,
       LevelDoneShape, GiveUpShape DEF MasterStep, MasterCall
<1>2. ASSUME UNCHANGED <<submission, mpc>>
      PROVE  (LevelState(n) /\ ResultsState(n) /\ LevelsBelow(n) /\ Returned(n))'
  <2>1. SameRow(n) /\ mpc'[n] = mpc[n]
    BY <1>2 DEF submission, progress, SameRow
  <2> QED
    BY <2>1, ShapeKept
<1> QED
  BY <1>1, <1>2 DEF Next, BrokerEnds, vars, masterVars

-----------------------------------------------------------------------------
(* How messages move *)

\* A queue loses its head, or everything.
Shrunk(old, new) == new = old \/ (old # << >> /\ new = Tail(old)) \/ new = << >>

LEMMA ShrunkKeeps ==
  ASSUME NEW S, NEW old \in Seq(S), NEW new, Shrunk(old, new)
  PROVE  \E k \in Nat : \A i \in DOMAIN new : i + k \in DOMAIN old /\ new[i] = old[i + k]
<1>1. CASE new = old
  <2>1. \A i \in DOMAIN new : i + 0 \in DOMAIN old /\ new[i] = old[i + 0]
    BY <1>1
  <2> QED
    BY <2>1
<1>2. CASE old # << >> /\ new = Tail(old)
  <2>1. \A i \in DOMAIN new : i + 1 \in DOMAIN old /\ new[i] = old[i + 1]
    BY <1>2
  <2> QED
    BY <2>1
<1>3. CASE new = << >>
  BY <1>3
<1> QED
  BY <1>1, <1>2, <1>3 DEF Shrunk

\* Messages are lost, taken or read.
Fewer ==
  /\ Shrunk(taskQueue, taskQueue')
  /\ Shrunk(resultQueue, resultQueue')
  /\ \A w \in Workers : held'[w] \in {held[w], NoMessage}

LEMMA Moves ==
  TypeOK /\ WorkerShape /\ [Next]_vars =>
    \/ \E m \in Masters, t \in Tasks : Enqueue(m, t) /\ UNCHANGED workerVars
    \/ \E w \in Workers : Take(w) /\ UNCHANGED masterVars
    \/ \E w \in Workers : Report(w) /\ UNCHANGED masterVars
    \/ Fewer
<1> SUFFICES ASSUME TypeOK, WorkerShape, [Next]_vars,
                    ~ \E m \in Masters, t \in Tasks : Enqueue(m, t) /\ UNCHANGED workerVars,
                    ~ \E w \in Workers : Take(w) /\ UNCHANGED masterVars,
                    ~ \E w \in Workers : Report(w) /\ UNCHANGED masterVars
             PROVE  Fewer
  OBVIOUS
<1>1. ASSUME NEW m \in Masters, MasterStep(m) \/ MasterCall(m), UNCHANGED workerVars
      PROVE  Fewer
  BY <1>1 DEF MasterStep, MasterCall, Skip, Await, NothingToAwait, Collect, Discard, LevelDone,
              GiveUp, Raise, Submit, Connect, Shutdown, MasterCrash, queueVars, workerVars, Fewer, Shrunk
<1>2. ASSUME NEW w \in Workers, WorkerStep(w) \/ WorkerFault(w), UNCHANGED masterVars
      PROVE  Fewer
  BY <1>2 DEF WorkerStep, WorkerFault, Reject, Forget, NextMessage, Succeed, FailAttempt, BackoffOver,
              FailTask, Leave, Spin, Disconnect, Stop, Crash, Start, queueVars, Fewer, Shrunk,
              TypeOK, WorkerTypeOK
<1>3. ASSUME LoseTask \/ LoseResult \/ GetterTimeout \/ QueuesStart, UNCHANGED workerVars
      PROVE  Fewer
  BY <1>3 DEF LoseTask, LoseResult, GetterTimeout, QueuesStart, workerVars, Fewer, Shrunk
<1>4. ASSUME BrokerEnds PROVE Fewer
  BY <1>4 DEF BrokerEnds, QueuesEnd, Fewer, Shrunk
<1>5. ASSUME UNCHANGED vars PROVE Fewer
  BY <1>5 DEF vars, queueVars, workerVars, Fewer, Shrunk
<1> QED
  BY <1>1, <1>2, <1>3, <1>4, <1>5 DEF Next

LEMMA PayloadsFewer == TypeOK /\ Fewer => Payloads' \subseteq Payloads
<1> SUFFICES ASSUME TypeOK, Fewer PROVE Payloads' \subseteq Payloads
  OBVIOUS
<1>1. PICK k \in Nat : \A i \in DOMAIN taskQueue' :
                         i + k \in DOMAIN taskQueue /\ taskQueue'[i] = taskQueue[i + k]
  BY ShrunkKeeps DEF Fewer, TypeOK, QueuesTypeOK
<1> QED
  BY <1>1 DEF Fewer, Payloads, Busy

LEMMA PayloadsTake ==
  ASSUME TypeOK, NEW w \in Workers, Take(w) PROVE Payloads' \subseteq Payloads
  BY DEF Take, Payloads, Busy, TypeOK, QueuesTypeOK, WorkerTypeOK

LEMMA PayloadsReport ==
  ASSUME TypeOK, NEW w \in Workers, Report(w)
  PROVE  /\ Payloads' \subseteq Payloads
         /\ taskQueue' = taskQueue /\ ~ Busy(w)' /\ \A v \in Workers \ {w} : held'[v] = held[v]
  BY DEF Report, NextMessage, Payloads, Busy, TypeOK, WorkerTypeOK

\* A payload comes from a master.
LEMMA PayloadsEnqueue ==
  ASSUME TypeOK, NEW m \in Masters, NEW t \in Tasks, Enqueue(m, t), UNCHANGED workerVars
  PROVE  Payloads' = Payloads \cup {Payload(m, t)}
<1> DEFINE new == Payload(m, t)
           k   == Len(taskQueue) + 1
<1>1. taskQueue' = Append(taskQueue, new) /\ UNCHANGED held
  BY DEF Enqueue, workerVars
<1>2. /\ DOMAIN taskQueue' = DOMAIN taskQueue \cup {k}
      /\ taskQueue'[k] = new /\ \A i \in DOMAIN taskQueue : taskQueue'[i] = taskQueue[i]
  BY <1>1 DEF TypeOK, QueuesTypeOK
<1> HIDE DEF new, k
<1>3. Payloads' = Payloads \cup {new}
  BY <1>1, <1>2 DEF Payloads, Busy
<1> QED
  BY <1>3 DEF new

LEMMA NewPayload ==
  ASSUME TypeOK, WorkerShape, [Next]_vars, NEW p \in Payloads', p \notin Payloads
  PROVE  \E m \in Masters, t \in Tasks :
           Enqueue(m, t) /\ UNCHANGED workerVars /\ p = Payload(m, t)
  BY Moves, PayloadsEnqueue, PayloadsTake, PayloadsReport, PayloadsFewer

\* An outcome comes from a payload that was worked on.
LEMMA NewOutcome ==
  ASSUME TypeOK, WorkerShape, [Next]_vars, NEW o \in outcomes', o \notin outcomes
  PROVE  \E p \in Payloads : o.task = p.task /\ o.dispatch = p.dispatch
<1>1. ASSUME NEW w \in Workers, NEW status, Conclude(w, status), wpc[w] = "executing"
      PROVE  \E p \in Payloads : o.task = p.task /\ o.dispatch = p.dispatch
  <2>1. o = [task |-> held[w].task, dispatch |-> held[w].dispatch, status |-> status]
    BY <1>1 DEF Conclude
  <2>2. held[w] \in Payloads
    BY <1>1 DEF WorkerShape, Payloads
  <2> QED
    BY <2>1, <2>2
<1>2. ASSUME NEW w \in Workers, WorkerStep(w) \/ WorkerFault(w)
      PROVE  \E p \in Payloads : o.task = p.task /\ o.dispatch = p.dispatch
  BY <1>1, <1>2 DEF WorkerStep, WorkerFault, Take, Reject, Forget, Succeed, Built, FailAttempt,
                    BackoffOver, FailTask, Report, Leave, Spin, Disconnect, Stop, Crash, Start
<1>3. ~ UNCHANGED outcomes
  OBVIOUS
<1> QED
  BY <1>2, <1>3 DEF Next, workerVars, vars, BrokerEnds

\* A result comes from a worker that has concluded.
LEMMA NewAnswer ==
  ASSUME TypeOK, WorkerShape, [Next]_vars, NEW r \in Answers', r \notin Answers
  PROVE  \E w \in Workers :
           /\ Report(w) /\ UNCHANGED masterVars
           /\ r = ResultDict(held[w].task, wpc[w],
                             wpc[w] = "success" /\ held[w].task \in Valued, held[w].dispatch)
<1> USE DEF TypeOK, QueuesTypeOK
<1>1. ASSUME NEW m \in Masters, NEW t \in Tasks, Enqueue(m, t) PROVE FALSE
  BY <1>1 DEF Enqueue, Answers
<1>2. ASSUME NEW w \in Workers, Take(w) PROVE FALSE
  BY <1>2 DEF Take, Answers
<1>3. ASSUME NEW w \in Workers, Report(w)
      PROVE  r = ResultDict(held[w].task, wpc[w],
                            wpc[w] = "success" /\ held[w].task \in Valued, held[w].dispatch)
  <2> DEFINE new == ResultDict(held[w].task, wpc[w],
                               wpc[w] = "success" /\ held[w].task \in Valued, held[w].dispatch)
  <2>1. Arrives(w) /\ resultQueue' = resultQueue \o << new >>
    BY <1>3 DEF Report, Result, Answers
  <2> HIDE DEF new
  <2>2. \A i \in DOMAIN resultQueue' :
          resultQueue'[i] = new \/ (i \in DOMAIN resultQueue /\ resultQueue'[i] = resultQueue[i])
    <3>1. << new >> \in Seq({new}) /\ Len(<< new >>) = 1 /\ << new >>[1] = new
      OBVIOUS
    <3> QED
      BY <2>1, <3>1
  <2>3. r = new
    BY <2>2 DEF Answers
  <2> QED
    BY <2>3 DEF new
<1>4. ASSUME Fewer PROVE FALSE
  <2>1. PICK k \in Nat : \A i \in DOMAIN resultQueue' :
                           i + k \in DOMAIN resultQueue /\ resultQueue'[i] = resultQueue[i + k]
    BY <1>4, ShrunkKeeps DEF Fewer
  <2> QED
    BY <2>1 DEF Answers
<1> QED
  BY <1>1, <1>2, <1>3, <1>4, Moves

-----------------------------------------------------------------------------
(* Dispatches *)

\* No result comes in.
ResultsStay(m) ==
  /\ context'[m] = context[m]
  /\ \A t : Reported(m, t)' = Reported(m, t)
  /\ \A t : Reported(m, t) => results'[m][t] = results[m][t]

\* What a step may do to a submission that is not a new one.
LEMMA RowNext ==
  ASSUME TypeOK, MasterShape, [Next]_vars, NEW m \in Masters, \A g \in Graphs[m] : ~ Submit(m, g)
  PROVE  /\ graph'[m] = graph[m] /\ dispatch'[m] = dispatch[m]
         /\ mpc'[m] \in Active => mpc[m] \in Active
         /\ \A t : Sent(m, t) => Sent(m, t)'
         /\ Collect(m) \/ ResultsStay(m)
<1> DEFINE Goal == /\ graph'[m] = graph[m] /\ dispatch'[m] = dispatch[m]
                   /\ mpc'[m] \in Active => mpc[m] \in Active
                   /\ \A t : Sent(m, t) => Sent(m, t)'
                   /\ Collect(m) \/ ResultsStay(m)
<1>1. ASSUME SameRow(m), mpc'[m] \in Active => mpc[m] \in Active PROVE Goal
  BY <1>1 DEF SameRow, Sent, Nodes, Ready, LevelOf, ResultsStay, Reported
<1>2. ASSUME NEW t \in Tasks, Enqueue(m, t) PROVE Goal
  <2>1. /\ todo'[m] = todo[m] \ {t}
        /\ UNCHANGED <<graph, dispatch, mpc, lvl, results, context>>
    BY <1>2 DEF Enqueue, progress, TypeOK, MasterTypeOK
  <2> QED
    BY <2>1 DEF Sent, Nodes, Ready, LevelOf, ResultsStay, Reported
<1>3. ASSUME NEW t \in Tasks, Skip(m, t) PROVE Goal
  <2>1. /\ t \in todo[m] /\ todo'[m] = todo[m] \ {t}
        /\ results'[m] = WithStatus(results[m], {t}, "skipped")
        /\ UNCHANGED <<graph, dispatch, mpc, lvl, context>>
    BY <1>3 DEF Skip, progress, TypeOK, MasterTypeOK
  <2>2. ~ Reported(m, t)
    BY <2>1 DEF MasterShape, ResultsState, Sent, Reported
  <2>3. ResultsStay(m)
    BY <2>1, <2>2 DEF ResultsStay, Reported, WithStatus
  <2> QED
    BY <2>1, <2>3 DEF Sent, Nodes, Ready, LevelOf
<1>4. ASSUME NextLevel(m), mpc[m] \in Active, UNCHANGED <<graph, dispatch, results, context>> PROVE Goal
  <2>1. lvl'[m] = lvl[m] + 1 /\ todo'[m] = LevelNodes(graph[m], lvl[m] + 1) /\ lvl[m] \in Nat
    BY <1>4 DEF NextLevel, TypeOK, MasterTypeOK
  <2>2. \A t \in Nodes(m) : LevelOf(m, t) \in Nat
    BY GraphsTyped DEF TypeOK
  <2>3. \A t : Sent(m, t) => Sent(m, t)'
    BY <1>4, <2>1, <2>2 DEF Sent, Nodes, Ready, LevelOf, LevelNodes
  <2> QED
    BY <1>4, <2>3 DEF ResultsStay, Reported
<1>5. ASSUME GiveUp(m) PROVE Goal
  <2>1. /\ results'[m] = WithStatus(results[m], Nodes(m) \ DOMAIN results[m], "cancelled")
        /\ mpc'[m] = "returned"
        /\ UNCHANGED <<graph, dispatch, lvl, todo, context>>
    BY <1>5 DEF GiveUp, progress, TypeOK, MasterTypeOK
  <2>2. ResultsStay(m)
    BY <2>1 DEF ResultsStay, Reported, WithStatus
  <2> QED
    BY <2>1, <2>2 DEF Sent, Nodes, Ready, LevelOf, Active
<1>6. ASSUME Collect(m) PROVE Goal
  BY <1>6 DEF Collect, progress, Sent, Nodes, Ready, LevelOf
<1>7. ASSUME MasterStep(m) \/ MasterCall(m) PROVE Goal
  <2>1. CASE Await(m) \/ Discard(m) \/ Raise(m) \/ Connect(m) \/ Shutdown(m) \/ MasterCrash(m)
    <3>1. SameRow(m) /\ (mpc'[m] \in Active => mpc[m] \in Active)
      BY <2>1 DEF Await, Discard, Raise, Connect, Shutdown, MasterCrash, Active,
                  masterVars, submission, progress, SameRow, TypeOK, MasterTypeOK
    <3> QED
      BY <1>1, <3>1
  <2>2. CASE NothingToAwait(m) \/ LevelDone(m)
    <3>1. NextLevel(m) /\ mpc[m] \in Active /\ UNCHANGED <<graph, dispatch, results, context>>
      BY <2>2 DEF NothingToAwait, LevelDone, Collected, TimeIsUp, Collecting, Active, progress
    <3> QED
      BY <1>4, <3>1
  <2> QED
    BY <1>2, <1>3, <1>5, <1>6, <1>7, <2>1, <2>2 DEF MasterStep, MasterCall
<1>8. ASSUME NEW n \in Masters \ {m}, MasterStep(n) \/ MasterCall(n) PROVE Goal
  BY <1>1, <1>8, OthersKept
<1>9. ASSUME UNCHANGED <<submission, mpc>> PROVE Goal
  <2>1. SameRow(m) /\ mpc'[m] = mpc[m]
    BY <1>9 DEF submission, progress, SameRow
  <2> QED
    BY <1>1, <2>1
<1>10. Goal
  BY <1>7, <1>8, <1>9 DEF Next, BrokerEnds, vars, masterVars
<1> QED
  BY <1>10

\* A new submission leaves all else as it is.
LEMMA SubmitNext ==
  ASSUME TypeOK, [Next]_vars, NEW m \in Masters, NEW g \in Graphs[m], Submit(m, g)
  PROVE  /\ dispatches' = dispatches + 1 /\ dispatch'[m] = dispatches + 1
         /\ results'[m] = << >> /\ context'[m] = {} /\ expected'[m] = {} /\ graph'[m] = g
         /\ Payloads' = Payloads /\ Answers' = Answers
         /\ UNCHANGED <<queueVars, faults, workerVars>>
         /\ \A n \in Masters \ {m} : SameRow(n) /\ mpc'[n] = mpc[n]
<1>1. /\ dispatches' = dispatches + 1 /\ dispatch'[m] = dispatches + 1
      /\ results'[m] = << >> /\ context'[m] = {} /\ expected'[m] = {} /\ graph'[m] = g
      /\ UNCHANGED <<queueVars, faults>>
  BY DEF Submit, session, TypeOK, MasterTypeOK
<1>2. dispatches' # dispatches
  BY <1>1 DEF TypeOK, MasterTypeOK
<1>3. UNCHANGED workerVars
  BY <1>2 DEF Next, BrokerEnds, masterVars, submission, progress, vars
<1>4. Payloads' = Payloads /\ Answers' = Answers
  BY <1>1, <1>3 DEF queueVars, workerVars, Payloads, Answers, Busy
<1> QED
  BY <1>1, <1>3, <1>4, OthersKept DEF MasterCall

LEMMA DispatchIdsNext ==
  TypeOK /\ WorkerShape /\ MasterShape /\ DispatchIds /\ [Next]_vars => DispatchIds'
<1> SUFFICES ASSUME TypeOK, WorkerShape, MasterShape, DispatchIds, [Next]_vars PROVE DispatchIds'
  OBVIOUS
<1> USE DEF DispatchIds
<1>1. dispatches \in Nat /\ \A m \in Masters : dispatch[m] \in Nat
  BY DEF TypeOK, MasterTypeOK
<1>2. CASE \E m \in Masters : \E g \in Graphs[m] : Submit(m, g)
  <2>1. PICK m \in Masters : \E g \in Graphs[m] : Submit(m, g)
    BY <1>2
  <2>2. /\ dispatches' = dispatches + 1 /\ dispatch'[m] = dispatches + 1
        /\ Payloads' = Payloads /\ Answers' = Answers /\ outcomes' = outcomes
        /\ \A n \in Masters \ {m} : dispatch'[n] = dispatch[n] /\ mpc'[n] = mpc[n]
    BY <2>1, SubmitNext DEF SameRow, workerVars
  <2>3. \A msg \in Payloads \cup Answers \cup outcomes : msg.dispatch \in 1 .. dispatches + 1
    BY <1>1
  <2>4. \A k \in Masters : dispatch'[k] <= dispatches' /\ (mpc'[k] \in Active => dispatch'[k] # 0)
    BY <1>1, <2>2
  <2>5. \A k, n \in Masters : dispatch'[k] = dispatch'[n] /\ dispatch'[k] # 0 => k = n
    BY <1>1, <2>2
  <2> QED
    BY <2>2, <2>3, <2>4, <2>5
<1>3. CASE ~ \E m \in Masters : \E g \in Graphs[m] : Submit(m, g)
  <2>1. \A m \in Masters : dispatch'[m] = dispatch[m] /\ (mpc'[m] \in Active => mpc[m] \in Active)
    BY <1>3, RowNext
  <2>2. dispatches' = dispatches
    BY <1>3 DEF Next, MasterStep, MasterCall, Enqueue, Skip, Await, NothingToAwait, Collect, Discard,
                LevelDone, GiveUp, Raise, Connect, Shutdown, MasterCrash, BrokerEnds, vars,
                masterVars, submission, progress
  <2>3. \A p \in Payloads' : p.dispatch \in 1 .. dispatches
    <3> SUFFICES ASSUME NEW p \in Payloads', p \notin Payloads PROVE p.dispatch \in 1 .. dispatches
      OBVIOUS
    <3>1. PICK m \in Masters : \E t \in Tasks : Enqueue(m, t) /\ p = Payload(m, t)
      BY NewPayload
    <3>2. mpc[m] \in Active /\ p.dispatch = dispatch[m]
      BY <3>1 DEF Enqueue, Due, Active, Payload
    <3> QED
      BY <1>1, <3>2
  <2>4. \A o \in outcomes' : o.dispatch \in 1 .. dispatches
    BY NewOutcome
  <2>5. \A r \in Answers' : r.dispatch \in 1 .. dispatches
    <3> SUFFICES ASSUME NEW r \in Answers', r \notin Answers PROVE r.dispatch \in 1 .. dispatches
      OBVIOUS
    <3>1. PICK w \in Workers : Report(w) /\ r.dispatch = held[w].dispatch
      BY NewAnswer DEF ResultDict
    <3>2. held[w] \in Payloads
      BY <3>1 DEF Report, Reporting, WorkerShape, Payloads
    <3> QED
      BY <3>1, <3>2
  <2> QED
    BY <2>1, <2>2, <2>3, <2>4, <2>5
<1> QED
  BY <1>2, <1>3

LEMMA SentOnlyNext ==
  TypeOK /\ WorkerShape /\ MasterShape /\ DispatchIds /\ SentOnly /\ [Next]_vars => SentOnly'
<1> SUFFICES ASSUME TypeOK, WorkerShape, MasterShape, DispatchIds, SentOnly, [Next]_vars,
                    NEW m \in Masters, NEW msg \in Payloads' \cup outcomes',
                    msg.dispatch = dispatch'[m]
             PROVE  Sent(m, msg.task)'
  BY DEF SentOnly
<1>1. CASE \E g \in Graphs[m] : Submit(m, g)
  <2>1. dispatch'[m] = dispatches + 1 /\ msg \in Payloads \cup outcomes
    BY <1>1, SubmitNext DEF workerVars
  <2> QED
    BY <2>1 DEF DispatchIds, TypeOK, MasterTypeOK
<1>2. CASE \A g \in Graphs[m] : ~ Submit(m, g)
  <2>1. dispatch'[m] = dispatch[m] /\ \A t : Sent(m, t) => Sent(m, t)'
    BY <1>2, RowNext
  <2>2. CASE msg \in Payloads \cup outcomes
    BY <2>1, <2>2 DEF SentOnly
  <2>3. CASE msg \in Payloads' /\ msg \notin Payloads
    <3>1. PICK n \in Masters : \E t \in Tasks : Enqueue(n, t) /\ msg = Payload(n, t)
      BY <2>3, NewPayload
    <3>2. PICK t \in Tasks : Enqueue(n, t) /\ msg = Payload(n, t)
      BY <3>1
    <3>3. n = m
      BY <2>1, <3>2 DEF DispatchIds, Enqueue, Due, Active, Payload
    <3>4. mpc[m] \in Active /\ t \in todo[m] /\ todo'[m] = todo[m] \ {t} /\ UNCHANGED <<graph, lvl>>
      BY <3>2, <3>3 DEF Enqueue, Due, Active, progress, TypeOK, MasterTypeOK
    <3>5. t \in Nodes(m) /\ Ready(m) /\ LevelOf(m, t) = lvl[m] /\ lvl[m] \in Nat
      BY <3>4 DEF MasterShape, LevelState, LevelNodes, Nodes, LevelOf, TypeOK, MasterTypeOK
    <3>6. msg.task = t
      BY <3>2 DEF Payload
    <3> QED
      BY <3>4, <3>5, <3>6 DEF Sent, Nodes, Ready, LevelOf
  <2>4. CASE msg \in outcomes' /\ msg \notin outcomes
    <3>1. PICK p \in Payloads : msg.task = p.task /\ msg.dispatch = p.dispatch
      BY <2>4, NewOutcome
    <3> QED
      BY <2>1, <3>1 DEF SentOnly
  <2> QED
    BY <2>2, <2>3, <2>4
<1> QED
  BY <1>1, <1>2

-----------------------------------------------------------------------------
(* Results *)

\* What the result at the head of the queue is credited to.
LEMMA CollectEffect ==
  ASSUME TypeOK, MasterShape, NEW m \in Masters, Collect(m)
  PROVE  \E r \in Answers :
           /\ r = Head(resultQueue) /\ resultQueue # << >> /\ resultQueue' = Tail(resultQueue)
           /\ r.dispatch = dispatch[m] /\ r.status \in {"success", "failed"}
           /\ ReadBack(r) \in expected[m] \ todo[m] /\ LevelOf(m, ReadBack(r)) = lvl[m]
           /\ ReadBack(r) \in Nodes(m)
           /\ results'[m] = WithStatus(results[m], {ReadBack(r)}, r.status)
           /\ context'[m] = IF r.status = "success" /\ r.value
                            THEN context[m] \cup {r.name} ELSE context[m]
           /\ graph'[m] = graph[m] /\ dispatch'[m] = dispatch[m]
<1> DEFINE r == Head(resultQueue)
<1>1. r \in Answers /\ r \in ResultMessages
  BY DEF Collect, Answers, TypeOK, QueuesTypeOK
<1>2. r.status \in {"success", "failed"}
  BY <1>1 DEF ResultMessages
<1>3. /\ resultQueue # << >> /\ resultQueue' = Tail(resultQueue)
      /\ r.dispatch = dispatch[m] /\ ReadBack(r) \in expected[m]
      /\ results'[m] = WithStatus(results[m], {ReadBack(r)}, r.status)
      /\ context'[m] = IF r.status = "success" /\ r.value
                       THEN context[m] \cup {r.name} ELSE context[m]
      /\ graph'[m] = graph[m] /\ dispatch'[m] = dispatch[m]
  BY DEF Collect, Accepts, progress, TypeOK, MasterTypeOK
<1> HIDE DEF r
<1>4. ReadBack(r) \notin todo[m] /\ ReadBack(r) \in Nodes(m) /\ LevelOf(m, ReadBack(r)) = lvl[m]
  BY <1>3 DEF MasterShape, LevelState, LevelNodes, Nodes, LevelOf
<1>5. r = Head(resultQueue)
  BY DEF r
<1> QED
  BY <1>1, <1>2, <1>3, <1>4, <1>5

\* A task of that name was executed for it, and it is the one that is credited if the
\* graph has no other version of it.
LEMMA CreditIsRight ==
  ASSUME TypeOK, SentOnly, Origins, NEW m \in Masters, NEW r \in Answers, r.dispatch = dispatch[m],
         ReadBack(r) \in Nodes(m)
  PROVE  /\ \E u \in Nodes(m) :
              /\ u.name = ReadBack(r).name
              /\ [task |-> u, dispatch |-> dispatch[m], status |-> r.status] \in outcomes
         /\ SoleVersion(m, ReadBack(r)) =>
              /\ r.value = (r.status = "success" /\ ReadBack(r) \in Valued)
              /\ r.name = ReadBack(r).name
<1>1. PICK o \in outcomes :
        r = ResultDict(o.task, o.status, o.status = "success" /\ o.task \in Valued, o.dispatch)
  BY DEF Origins
<1>2. /\ r.name = o.task.name /\ r.status = o.status /\ r.dispatch = o.dispatch
      /\ r.value = (o.status = "success" /\ o.task \in Valued)
  BY <1>1 DEF ResultDict
<1>3. o.task \in Nodes(m)
  BY <1>2 DEF SentOnly, Sent
<1>4. ReadBack(r).name = o.task.name
  BY <1>2 DEF ReadBack
<1>5. o = [task |-> o.task, dispatch |-> o.dispatch, status |-> o.status]
  BY DEF TypeOK, WorkerTypeOK
<1>6. SoleVersion(m, ReadBack(r)) => o.task = ReadBack(r)
  BY <1>3, <1>4 DEF SoleVersion
<1> QED
  BY <1>2, <1>3, <1>4, <1>5, <1>6

\* A worker that is about to report has concluded what it reports.
LEMMA OutcomesStay ==
  ASSUME TypeOK, [Next]_vars
  PROVE  /\ outcomes \subseteq outcomes'
         /\ \A w \in Workers : wpc'[w] \in Reporting =>
              \/ wpc'[w] = wpc[w] /\ held'[w] = held[w]
              \/ held'[w] = held[w]
                 /\ [task |-> held[w].task, dispatch |-> held[w].dispatch, status |-> wpc'[w]] \in outcomes'
<1> DEFINE Goal == /\ outcomes \subseteq outcomes'
                   /\ \A w \in Workers : wpc'[w] \in Reporting =>
                        \/ wpc'[w] = wpc[w] /\ held'[w] = held[w]
                        \/ held'[w] = held[w]
                           /\ [task |-> held[w].task, dispatch |-> held[w].dispatch, status |-> wpc'[w]]
                                \in outcomes'
<1> USE DEF TypeOK, WorkerTypeOK, Reporting
<1>1. ASSUME NEW w \in Workers, NEW status, Conclude(w, status), UNCHANGED held PROVE Goal
  BY <1>1 DEF Conclude
<1>2. ASSUME NEW w \in Workers, WorkerStep(w) \/ WorkerFault(w) PROVE Goal
  <2>1. CASE Reject(w) \/ Succeed(w) \/ FailTask(w)
    BY <1>1, <2>1 DEF Reject, Succeed, FailTask
  <2>2. CASE Take(w) \/ Report(w) \/ Forget(w)
    BY <2>2 DEF Take, Report, Forget, NextMessage
  <2>3. CASE FailAttempt(w) \/ BackoffOver(w) \/ Leave(w) \/ Spin(w) \/ Disconnect(w)
    BY <2>3 DEF FailAttempt, BackoffOver, Leave, Spin, Disconnect
  <2>4. CASE Stop(w) \/ Crash(w) \/ Start(w)
    BY <2>4 DEF Stop, Crash, Start
  <2> QED
    BY <1>2, <2>1, <2>2, <2>3, <2>4 DEF WorkerStep, WorkerFault
<1>3. ASSUME UNCHANGED <<wpc, held, outcomes>> PROVE Goal
  BY <1>3
<1>4. Goal
  BY <1>2, <1>3 DEF Next, BrokerEnds, vars, workerVars
<1> QED
  BY <1>4

LEMMA OriginsNext == TypeOK /\ WorkerShape /\ Origins /\ [Next]_vars => Origins'
<1> SUFFICES ASSUME TypeOK, WorkerShape, Origins, [Next]_vars PROVE Origins'
  OBVIOUS
<1>1. \A w \in Workers : wpc'[w] \in Reporting =>
        [task |-> held'[w].task, dispatch |-> held'[w].dispatch, status |-> wpc'[w]] \in outcomes'
  BY OutcomesStay DEF Origins
<1>2. ASSUME NEW r \in Answers', r \notin Answers
      PROVE  \E o \in outcomes :
               r = ResultDict(o.task, o.status, o.status = "success" /\ o.task \in Valued, o.dispatch)
  <2>1. PICK w \in Workers :
          /\ Report(w)
          /\ r = ResultDict(held[w].task, wpc[w],
                            wpc[w] = "success" /\ held[w].task \in Valued, held[w].dispatch)
    BY <1>2, NewAnswer
  <2> DEFINE o == [task |-> held[w].task, dispatch |-> held[w].dispatch, status |-> wpc[w]]
  <2>2. o \in outcomes
    BY <2>1 DEF Origins, Report
  <2> QED
    BY <2>1, <2>2
<1>3. outcomes \subseteq outcomes'
  BY OutcomesStay
<1> QED
  BY <1>1, <1>2, <1>3 DEF Origins

\* Among these executions is one that m's dispatch has of a task of that name.
Produced(m, t, status, executions) ==
  \E u \in Nodes(m) :
    u.name = t.name /\ [task |-> u, dispatch |-> dispatch[m], status |-> status] \in executions

LEMMA ResultsGenuineNext ==
  /\ TypeOK /\ MasterShape /\ SentOnly /\ Origins
  /\ ResultsAreGenuine /\ ContextHasResults /\ [Next]_vars
  => ResultsAreGenuine' /\ ContextHasResults'
<1> SUFFICES ASSUME TypeOK, MasterShape, SentOnly, Origins, ResultsAreGenuine, ContextHasResults,
                    [Next]_vars, NEW m \in Masters, NEW t \in DOMAIN results'[m], Reported(m, t)'
             PROVE  /\ \E u \in Nodes(m)' :
                         /\ u.name = t.name
                         /\ [task |-> u, dispatch |-> dispatch'[m], status |-> results'[m][t]]
                              \in outcomes'
                    /\ SoleVersion(m, t)' =>
                         (results'[m][t] = "success" /\ t \in Valued => t.name \in context'[m])
  BY DEF ResultsAreGenuine, ContextHasResults, Reported
<1> DEFINE InContext == SoleVersion(m, t) =>
                          (results'[m][t] = "success" /\ t \in Valued => t.name \in context'[m])
<1>1. \A g \in Graphs[m] : ~ Submit(m, g)
  BY SubmitNext
<1>2. Nodes(m)' = Nodes(m) /\ dispatch'[m] = dispatch[m]
  BY <1>1, RowNext DEF Nodes
<1>3. outcomes \subseteq outcomes'
  BY OutcomesStay
<1>4. SUFFICES Produced(m, t, results'[m][t], outcomes) /\ InContext
  BY <1>2, <1>3, <1>4 DEF Produced, SoleVersion
<1>5. ASSUME Reported(m, t), results'[m][t] = results[m][t], context[m] \subseteq context'[m]
      PROVE  Produced(m, t, results'[m][t], outcomes) /\ InContext
  BY <1>5 DEF ResultsAreGenuine, ContextHasResults, Reported, Produced
<1>6. CASE Collect(m)
  <2>1. PICK r \in Answers :
          /\ r.dispatch = dispatch[m] /\ ReadBack(r) \in Nodes(m)
          /\ results'[m] = WithStatus(results[m], {ReadBack(r)}, r.status)
          /\ context'[m] = IF r.status = "success" /\ r.value
                           THEN context[m] \cup {r.name} ELSE context[m]
    BY <1>6, CollectEffect
  <2>2. CASE t = ReadBack(r)
    <3>1. results'[m][t] = r.status
      BY <2>1, <2>2 DEF WithStatus
    <3>2. /\ Produced(m, t, r.status, outcomes)
          /\ SoleVersion(m, t) => /\ r.value = (r.status = "success" /\ t \in Valued)
                                  /\ r.name = t.name
      BY <2>1, <2>2, CreditIsRight DEF Produced
    <3> QED
      BY <2>1, <3>1, <3>2
  <2>3. CASE t # ReadBack(r)
    <3>1. Reported(m, t) /\ results'[m][t] = results[m][t]
      BY <2>1, <2>3 DEF WithStatus, Reported
    <3> QED
      BY <1>5, <2>1, <3>1
  <2> QED
    BY <2>2, <2>3
<1>7. CASE ResultsStay(m)
  BY <1>5, <1>7 DEF ResultsStay
<1> QED
  BY <1>1, <1>6, <1>7, RowNext

LEMMA ContextNext ==
  /\ TypeOK /\ WorkerShape /\ MasterShape /\ DispatchIds /\ SentOnly
  /\ ContextHasResults /\ ContextIsComplete /\ [Next]_vars
  => ContextIsComplete'
<1> SUFFICES ASSUME TypeOK, WorkerShape, MasterShape, DispatchIds, SentOnly, ContextHasResults,
                    ContextIsComplete, [Next]_vars,
                    NEW m \in Masters, NEW msg \in Payloads', msg.dispatch = dispatch'[m],
                    NEW d \in graph'[m].deps[msg.task], d \in Valued, d \in DOMAIN results'[m],
                    results'[m][d] = "success", SoleVersion(m, d)'
             PROVE  d.name \in msg.context
  BY DEF ContextIsComplete, InFlight, Payloads
<1>1. \A g \in Graphs[m] : ~ Submit(m, g)
  BY SubmitNext
<1>2. SoleVersion(m, d) /\ dispatch'[m] = dispatch[m] /\ graph'[m] = graph[m] /\ Reported(m, d)'
  BY <1>1, RowNext DEF SoleVersion, Nodes, Reported
<1>3. CASE msg \in Payloads
  <2>1. Sent(m, msg.task) /\ IsGraph(graph[m]) /\ lvl[m] \in Nat
    BY <1>2, <1>3, GraphsTyped DEF SentOnly, TypeOK, MasterTypeOK
  <2>2. LevelOf(m, d) < lvl[m]
    BY <1>2, <2>1 DEF Sent, Ready, LevelOf, Nodes, IsGraph
  <2>3. d \in DOMAIN results[m] /\ results[m][d] = "success"
    <3>1. CASE Collect(m)
      <4>1. PICK r \in Answers :
              /\ LevelOf(m, ReadBack(r)) = lvl[m]
              /\ results'[m] = WithStatus(results[m], {ReadBack(r)}, r.status)
        BY <3>1, CollectEffect
      <4>2. d # ReadBack(r)
        BY <2>1, <2>2, <4>1
      <4> QED
        BY <4>1, <4>2 DEF WithStatus
    <3>2. CASE ResultsStay(m)
      BY <1>2, <3>2 DEF ResultsStay, Reported
    <3> QED
      BY <1>1, <3>1, <3>2, RowNext
  <2>4. msg \in InFlight(m)
    BY <1>2, <1>3 DEF InFlight, Payloads
  <2> QED
    BY <1>2, <2>3, <2>4 DEF ContextIsComplete
<1>4. CASE msg \notin Payloads
  <2>1. PICK n \in Masters : \E t \in Tasks : Enqueue(n, t) /\ msg = Payload(n, t)
    BY <1>4, NewPayload
  <2>2. n = m
    BY <1>2, <2>1 DEF DispatchIds, Enqueue, Due, Active, Payload
  <2>3. msg.context = context[m] /\ results' = results
    BY <2>1, <2>2 DEF Enqueue, Payload
  <2> QED
    BY <1>2, <2>3 DEF ContextHasResults
<1> QED
  BY <1>3, <1>4

-----------------------------------------------------------------------------
(* Nothing is there twice *)

\* What is enqueued was neither dispatched nor executed before.
LEMMA EnqueuedIsNew ==
  ASSUME TypeOK, MasterShape, DispatchIds, SentOnly,
         NEW m \in Masters, NEW t \in Tasks, Enqueue(m, t)
  PROVE  /\ \A p \in Payloads \cup outcomes : ~ Same(p, Payload(m, t))
         /\ ~ Sent(m, t)
         /\ \A n \in Masters : dispatch[n] = dispatch[m] => n = m
  BY DEF Enqueue, Due, Active, DispatchIds, SentOnly, Sent, Same, Payload

LEMMA PayloadsDifferNext ==
  TypeOK /\ WorkerShape /\ MasterShape /\ DispatchIds /\ SentOnly /\ PayloadsDiffer /\ [Next]_vars
  => PayloadsDiffer'
<1> SUFFICES ASSUME TypeOK, WorkerShape, MasterShape, DispatchIds, SentOnly, PayloadsDiffer, [Next]_vars
             PROVE  PayloadsDiffer'
  OBVIOUS
<1> USE DEF TypeOK, QueuesTypeOK
<1>1. ASSUME NEW m \in Masters, NEW t \in Tasks, Enqueue(m, t), UNCHANGED workerVars
      PROVE  PayloadsDiffer'
  <2> DEFINE new == Payload(m, t)
             k   == Len(taskQueue) + 1
  <2>1. taskQueue' = Append(taskQueue, new) /\ UNCHANGED held
    BY <1>1 DEF Enqueue, workerVars
  <2>2. /\ DOMAIN taskQueue' = DOMAIN taskQueue \cup {k} /\ k \notin DOMAIN taskQueue
        /\ taskQueue'[k] = new /\ \A i \in DOMAIN taskQueue : taskQueue'[i] = taskQueue[i]
    BY <2>1
  <2>3. /\ \A i \in DOMAIN taskQueue : ~ Same(taskQueue[i], new) /\ ~ Same(new, taskQueue[i])
        /\ \A w \in Workers : Busy(w) => ~ Same(new, held[w])
    BY <1>1, EnqueuedIsNew DEF Payloads, Same
  <2> HIDE DEF new, k
  <2> QED
    BY <2>1, <2>2, <2>3 DEF PayloadsDiffer, Busy
<1>2. ASSUME NEW w \in Workers, Take(w) PROVE PayloadsDiffer'
  <2>1. /\ taskQueue # << >> /\ taskQueue' = Tail(taskQueue)
        /\ held'[w] = taskQueue[1] /\ \A v \in Workers \ {w} : held'[v] = held[v]
    BY <1>2 DEF Take, WorkerTypeOK
  <2>2. /\ 1 \in DOMAIN taskQueue
        /\ \A i \in DOMAIN taskQueue' :
             i \in Nat /\ i + 1 \in DOMAIN taskQueue \ {1} /\ taskQueue'[i] = taskQueue[i + 1]
    BY <2>1
  <2>3. \A i, j \in DOMAIN taskQueue' : Same(taskQueue'[i], taskQueue'[j]) => i = j
    BY <2>2 DEF PayloadsDiffer
  <2>4. \A u, v \in Workers : Busy(u)' /\ Busy(v)' /\ Same(held'[u], held'[v]) => u = v
    BY <2>1, <2>2 DEF PayloadsDiffer, Same, Busy
  <2>5. \A i \in DOMAIN taskQueue' : \A v \in Workers : Busy(v)' => ~ Same(taskQueue'[i], held'[v])
    <3> SUFFICES ASSUME NEW i \in DOMAIN taskQueue', NEW v \in Workers, Busy(v)',
                        Same(taskQueue'[i], held'[v])
                 PROVE  FALSE
      OBVIOUS
    <3>1. CASE v = w
      BY <2>1, <2>2, <3>1 DEF PayloadsDiffer
    <3>2. CASE v # w
      BY <2>1, <2>2, <3>2 DEF PayloadsDiffer, Busy
    <3> QED
      BY <3>1, <3>2
  <2> QED
    BY <2>3, <2>4, <2>5 DEF PayloadsDiffer
<1>3. ASSUME NEW w \in Workers, Report(w) PROVE PayloadsDiffer'
  <2>1. taskQueue' = taskQueue /\ \A v \in Workers : held'[v] \in {held[v], NoMessage}
    BY <1>3 DEF Report, NextMessage, WorkerTypeOK
  <2> QED
    BY <2>1 DEF PayloadsDiffer, Busy
<1>4. ASSUME Fewer PROVE PayloadsDiffer'
  <2>1. PICK k \in Nat : \A i \in DOMAIN taskQueue' :
                           i + k \in DOMAIN taskQueue /\ taskQueue'[i] = taskQueue[i + k]
    BY <1>4, ShrunkKeeps DEF Fewer
  <2>2. \A i \in DOMAIN taskQueue' : i \in Nat
    BY <1>4 DEF Fewer, Shrunk
  <2>3. \A i, j \in DOMAIN taskQueue' : Same(taskQueue'[i], taskQueue'[j]) => i = j
    BY <2>1, <2>2 DEF PayloadsDiffer
  <2>4. \A v \in Workers : Busy(v)' => Busy(v) /\ held'[v] = held[v]
    BY <1>4 DEF Fewer, Busy
  <2> QED
    BY <2>1, <2>3, <2>4 DEF PayloadsDiffer
<1> QED
  BY <1>1, <1>2, <1>3, <1>4, Moves

LEMMA AnswersDifferNext ==
  /\ TypeOK /\ WorkerShape /\ MasterShape /\ DispatchIds /\ SentOnly /\ Origins
  /\ PayloadsDiffer /\ AnswersDiffer /\ [Next]_vars
  => AnswersDiffer'
<1> SUFFICES ASSUME TypeOK, WorkerShape, MasterShape, DispatchIds, SentOnly, Origins,
                    PayloadsDiffer, AnswersDiffer, [Next]_vars,
                    NEW m \in Masters, NEW t \in Nodes(m)', SoleVersion(m, t)'
             PROVE  /\ \A i, j \in DOMAIN resultQueue' :
                         Answered(m, t, i)' /\ Answered(m, t, j)' => i = j
                    /\ \A i \in DOMAIN resultQueue' : Answered(m, t, i)' =>
                         ~ Reported(m, t)' /\ \A p \in Payloads' : ~ IsFor(m, t, p)'
                    /\ Reported(m, t)' => \A p \in Payloads' : ~ IsFor(m, t, p)'
  BY DEF AnswersDiffer
<1> DEFINE Goal == /\ \A i, j \in DOMAIN resultQueue' :
                        Answered(m, t, i)' /\ Answered(m, t, j)' => i = j
                   /\ \A i \in DOMAIN resultQueue' : Answered(m, t, i)' =>
                        ~ Reported(m, t)' /\ \A p \in Payloads' : ~ IsFor(m, t, p)'
                   /\ Reported(m, t)' => \A p \in Payloads' : ~ IsFor(m, t, p)'
<1>1. CASE \E g \in Graphs[m] : Submit(m, g)
  <2>1. /\ dispatch'[m] = dispatches + 1 /\ results'[m] = << >>
        /\ Payloads' = Payloads /\ Answers' = Answers /\ resultQueue' = resultQueue
    BY <1>1, SubmitNext DEF queueVars
  <2>2. \A x \in Payloads \cup Answers : x.dispatch # dispatches + 1
    BY DEF DispatchIds, TypeOK, MasterTypeOK
  <2>3. ~ Reported(m, t)' /\ \A p \in Payloads' : ~ IsFor(m, t, p)'
    BY <2>1, <2>2 DEF Reported, IsFor
  <2>4. \A i \in DOMAIN resultQueue' : ~ Answered(m, t, i)'
    BY <2>1, <2>2 DEF Answered, Answers
  <2> QED
    BY <2>3, <2>4
<1>2. CASE \A g \in Graphs[m] : ~ Submit(m, g)
  <2>1. /\ graph'[m] = graph[m] /\ dispatch'[m] = dispatch[m]
        /\ Collect(m) \/ ResultsStay(m)
    BY <1>2, RowNext
  <2>2. t \in Nodes(m) /\ SoleVersion(m, t)
    BY <2>1 DEF Nodes, SoleVersion
  <2>3. /\ \A i, j \in DOMAIN resultQueue : Answered(m, t, i) /\ Answered(m, t, j) => i = j
        /\ \A i \in DOMAIN resultQueue : Answered(m, t, i) =>
             ~ Reported(m, t) /\ \A p \in Payloads : ~ IsFor(m, t, p)
        /\ Reported(m, t) => \A p \in Payloads : ~ IsFor(m, t, p)
    BY <2>2 DEF AnswersDiffer
  <2>4. \A p : IsFor(m, t, p)' <=> IsFor(m, t, p)
    BY <2>1 DEF IsFor
  <2>5. ASSUME Payloads' \subseteq Payloads, Reported(m, t)' = Reported(m, t), NEW k \in Nat,
               \A i \in DOMAIN resultQueue' : i \in Nat /\ i + k \in DOMAIN resultQueue
                                              /\ resultQueue'[i] = resultQueue[i + k]
        PROVE  Goal
    <3>1. \A i \in DOMAIN resultQueue' : Answered(m, t, i)' => Answered(m, t, i + k)
      BY <2>1, <2>5 DEF Answered
    <3>2. \A i, j \in DOMAIN resultQueue' : Answered(m, t, i)' /\ Answered(m, t, j)' => i = j
      BY <2>3, <2>5, <3>1
    <3> QED
      BY <2>3, <2>4, <2>5, <3>1, <3>2
  <2>6. ASSUME Collect(m) PROVE Goal
    <3>1. PICK r \in Answers :
            /\ r = Head(resultQueue) /\ resultQueue # << >> /\ resultQueue' = Tail(resultQueue)
            /\ r.dispatch = dispatch[m]
            /\ results'[m] = WithStatus(results[m], {ReadBack(r)}, r.status)
      BY <2>6, CollectEffect
    <3>2. Payloads' \subseteq Payloads
      <4> SUFFICES ASSUME NEW p \in Payloads', p \notin Payloads PROVE FALSE
        OBVIOUS
      <4>1. PICK n \in Masters : \E u \in Tasks : Enqueue(n, u)
        BY NewPayload
      <4> QED
        BY <2>6, <4>1 DEF Collect, Enqueue, TypeOK, QueuesTypeOK
    <3>3. /\ 1 \in DOMAIN resultQueue /\ r = resultQueue[1]
          /\ \A i \in DOMAIN resultQueue' : i \in Nat /\ i + 1 \in DOMAIN resultQueue
                                            /\ i + 1 # 1 /\ resultQueue'[i] = resultQueue[i + 1]
      BY <3>1 DEF TypeOK, QueuesTypeOK
    <3>4. CASE t = ReadBack(r)
      <4>1. Answered(m, t, 1)
        BY <3>1, <3>3, <3>4 DEF Answered, ReadBack
      <4>2. \A i \in DOMAIN resultQueue' : ~ Answered(m, t, i)'
        BY <2>1, <2>3, <3>3, <4>1 DEF Answered
      <4> QED
        BY <2>3, <2>4, <3>2, <3>3, <4>1, <4>2
    <3>5. CASE t # ReadBack(r)
      <4>1. Reported(m, t)' = Reported(m, t)
        BY <3>1, <3>5 DEF Reported, WithStatus
      <4> QED
        BY <2>5, <3>2, <3>3, <4>1
    <3> QED
      BY <3>4, <3>5
  <2>7. ASSUME ResultsStay(m) PROVE Goal
    <3>1. Reported(m, t)' = Reported(m, t)
      BY <2>7 DEF ResultsStay
    <3>2. ASSUME resultQueue' = resultQueue PROVE
             \A i \in DOMAIN resultQueue' : i \in Nat /\ i + 0 \in DOMAIN resultQueue
                                            /\ resultQueue'[i] = resultQueue[i + 0]
      BY <3>2 DEF TypeOK, QueuesTypeOK
    <3>3. ASSUME NEW n \in Masters, NEW u \in Tasks, Enqueue(n, u), UNCHANGED workerVars PROVE Goal
      <4>1. resultQueue' = resultQueue
        BY <3>3 DEF Enqueue
      <4>2. CASE Payload(n, u).task = t /\ Payload(n, u).dispatch = dispatch[m]
        <5>1. n = m /\ u = t /\ ~ Sent(m, t)
          BY <3>3, <4>2, EnqueuedIsNew DEF Payload
        <5>2. ~ Reported(m, t)
          BY <5>1 DEF MasterShape, ResultsState, Reported
        <5>3. \A i \in DOMAIN resultQueue : ~ Answered(m, t, i)
          <6> SUFFICES ASSUME NEW i \in DOMAIN resultQueue, Answered(m, t, i) PROVE FALSE
            OBVIOUS
          <6>1. PICK o \in outcomes : o.task.name = t.name /\ o.dispatch = dispatch[m]
            BY DEF Origins, Answers, Answered, ResultDict
          <6>2. Sent(m, o.task)
            BY <6>1 DEF SentOnly
          <6> QED
            BY <2>2, <5>1, <6>1, <6>2 DEF SoleVersion, Sent
        <5> QED
          BY <2>1, <3>1, <4>1, <5>2, <5>3 DEF Answered
      <4>3. CASE ~ (Payload(n, u).task = t /\ Payload(n, u).dispatch = dispatch[m])
        <5>1. \A p \in Payloads' : p \in Payloads \/ ~ IsFor(m, t, p)
          BY <3>3, <4>3, PayloadsEnqueue DEF IsFor
        <5> QED
          BY <2>1, <2>3, <2>4, <3>1, <4>1, <5>1 DEF Answered
      <4> QED
        BY <4>2, <4>3
    <3>4. ASSUME NEW w \in Workers, Take(w) PROVE Goal
      <4>1. resultQueue' = resultQueue
        BY <3>4 DEF Take
      <4>2. Payloads' \subseteq Payloads
        BY <3>4, PayloadsTake
      <4> QED
        BY <2>5, <3>1, <3>2, <4>1, <4>2
    <3>5. ASSUME NEW w \in Workers, Report(w) PROVE Goal
      <4>1. CASE resultQueue' = resultQueue
        BY <2>5, <3>1, <3>2, <3>5, <4>1, PayloadsReport
      <4>2. CASE resultQueue' # resultQueue
        <5> DEFINE new == ResultDict(held[w].task, wpc[w],
                                     wpc[w] = "success" /\ held[w].task \in Valued, held[w].dispatch)
        <5>0. PICK k \in Nat : k = Len(resultQueue) + 1
          BY DEF TypeOK, QueuesTypeOK
        <5>1. resultQueue' = resultQueue \o << new >>
          BY <3>5, <4>2 DEF Report, Result
        <5>2. new.name = held[w].task.name /\ new.dispatch = held[w].dispatch
          BY DEF ResultDict
        <5> HIDE DEF new
        <5>3. /\ DOMAIN resultQueue' = DOMAIN resultQueue \cup {k} /\ resultQueue'[k] = new
              /\ \A i \in DOMAIN resultQueue : resultQueue'[i] = resultQueue[i]
          <6>1. << new >> \in Seq({new}) /\ Len(<< new >>) = 1 /\ << new >>[1] = new
            OBVIOUS
          <6> QED
            BY <5>0, <5>1, <6>1 DEF TypeOK, QueuesTypeOK
        <5>4. Busy(w) /\ held[w] \in Payloads
          BY <3>5 DEF Report, Reporting, WorkerShape, Payloads
        <5>5. Answered(m, t, k)' => IsFor(m, t, held[w])
          <6> SUFFICES ASSUME new.name = t.name, new.dispatch = dispatch[m]
                       PROVE  IsFor(m, t, held[w])
            BY <2>1, <5>3 DEF Answered
          <6>1. Sent(m, held[w].task)
            BY <5>2, <5>4 DEF SentOnly
          <6> QED
            BY <2>2, <5>2, <6>1 DEF SoleVersion, Sent, IsFor
        <5>6. IsFor(m, t, held[w]) => \A p \in Payloads' : ~ IsFor(m, t, p)
          <6> SUFFICES ASSUME IsFor(m, t, held[w]), NEW p \in Payloads', IsFor(m, t, p) PROVE FALSE
            OBVIOUS
          <6>1. /\ taskQueue' = taskQueue /\ ~ Busy(w)'
                /\ \A v \in Workers \ {w} : held'[v] = held[v]
            BY <3>5, PayloadsReport
          <6>2. CASE \E i \in DOMAIN taskQueue : p = taskQueue[i]
            BY <5>4, <6>2 DEF PayloadsDiffer, Same, IsFor
          <6>3. CASE \E v \in Workers \ {w} : Busy(v) /\ p = held[v]
            BY <5>4, <6>3 DEF PayloadsDiffer, Same, IsFor
          <6> QED
            BY <6>1, <6>2, <6>3 DEF Payloads, Busy
        <5>7. \A i \in DOMAIN resultQueue : Answered(m, t, i)' <=> Answered(m, t, i)
          BY <2>1, <5>3 DEF Answered
        <5>8. Payloads' \subseteq Payloads
          BY <3>5, PayloadsReport
        <5> QED
          BY <2>3, <2>4, <3>1, <5>3, <5>4, <5>5, <5>6, <5>7, <5>8
      <4> QED
        BY <4>1, <4>2
    <3>6. ASSUME Fewer PROVE Goal
      <4>1. PICK k \in Nat : \A i \in DOMAIN resultQueue' :
                               i + k \in DOMAIN resultQueue /\ resultQueue'[i] = resultQueue[i + k]
        BY <3>6, ShrunkKeeps DEF Fewer, TypeOK, QueuesTypeOK
      <4>2. \A i \in DOMAIN resultQueue' : i \in Nat
        BY <3>6 DEF Fewer, Shrunk, TypeOK, QueuesTypeOK
      <4>3. Payloads' \subseteq Payloads
        BY <3>6, PayloadsFewer
      <4> QED
        BY <2>5, <3>1, <4>1, <4>2, <4>3
    <3> QED
      BY <3>3, <3>4, <3>5, <3>6, Moves
  <2> QED
    BY <2>1, <2>6, <2>7
<1> QED
  BY <1>1, <1>2

-----------------------------------------------------------------------------
(* Nothing is lost *)

\* In a step that is no fault, the queues and the workers stay connected.
LEMMA UndisturbedNext ==
  TypeOK /\ WorkerShape /\ Undisturbed /\ [Next]_vars => Undisturbed'
<1> SUFFICES ASSUME TypeOK, WorkerShape, Undisturbed, [Next]_vars, faults' = 0 PROVE Undisturbed'
  BY DEF Undisturbed
<1> DEFINE Calm == /\ brokerUp' /\ abandoned' = [tasks |-> 0, results |-> 0]
                   /\ \A w \in Workers : running'[w] /\ (Busy(w)' => connected'[w])
<1> USE DEF TypeOK, QueuesTypeOK, WorkerTypeOK
<1>1. ~ Fault
  BY DEF Fault
<1>2. CASE faults # 0
  <2>1. faults' = faults
    BY <1>1, <1>2 DEF Next, MasterStep, MasterCall, Enqueue, Skip, Await, NothingToAwait, Collect,
       Discard, LevelDone, GiveUp, Raise, Submit, Connect, Shutdown, MasterCrash, session,
       WorkerStep, WorkerFault, Take, Reject, Forget, Succeed, FailAttempt, BackoffOver, FailTask,
       Report, Leave, Spin, Disconnect, Stop, Crash, Start, LoseTask, LoseResult, GetterTimeout,
       GetterEnds, QueuesStart, BrokerEnds, QueuesEnd, vars
  <2> QED
    BY <1>2, <2>1
<1>3. CASE faults = 0
  <2>1. /\ brokerUp /\ abandoned = [tasks |-> 0, results |-> 0]
        /\ \A w \in Workers : running[w] /\ (Busy(w) => connected[w])
    BY <1>3 DEF Undisturbed
  <2>2. ASSUME NEW m \in Masters, MasterStep(m) \/ MasterCall(m), UNCHANGED workerVars PROVE Calm
    <3>1. UNCHANGED <<brokerUp, abandoned>>
      BY <1>1, <2>2 DEF MasterStep, MasterCall, Enqueue, Skip, Await, NothingToAwait, Collect,
         Discard, LevelDone, GiveUp, Raise, Submit, Connect, Shutdown, MasterCrash, queueVars
    <3> QED
      BY <2>1, <2>2, <3>1 DEF workerVars, Busy
  <2>3. ASSUME NEW w \in Workers, WorkerStep(w) \/ WorkerFault(w) PROVE Calm
    <3>1. CASE Take(w)
      BY <2>1, <3>1 DEF Take, Busy
    <3>2. CASE Reject(w) \/ Succeed(w) \/ FailTask(w) \/ FailAttempt(w) \/ BackoffOver(w) \/ Spin(w)
      BY <2>1, <3>2 DEF Reject, Succeed, FailTask, FailAttempt, BackoffOver, Spin, queueVars, Busy
    <3>3. CASE Forget(w)
      BY <2>1, <3>3 DEF Forget, NextMessage, queueVars, Busy
    <3>4. CASE Report(w)
      <4>1. /\ UNCHANGED <<brokerUp, abandoned, running>> /\ ~ Busy(w)'
            /\ \A v \in Workers \ {w} : held'[v] = held[v] /\ connected'[v] = connected[v]
        BY <3>4 DEF Report, NextMessage, Busy
      <4> QED
        BY <2>1, <4>1 DEF Busy
    <3>5. CASE Leave(w) \/ Disconnect(w) \/ Stop(w) \/ Crash(w)
      BY <1>1, <2>1, <3>5 DEF Leave, Disconnect, Stop, Crash
    <3>6. CASE Start(w)
      BY <2>1, <3>6 DEF Start, queueVars, Busy
    <3> QED
      BY <2>3, <3>1, <3>2, <3>3, <3>4, <3>5, <3>6 DEF WorkerStep, WorkerFault
  <2>4. ASSUME LoseTask \/ LoseResult \/ GetterTimeout PROVE FALSE
    BY <2>1, <2>4 DEF LoseTask, LoseResult, GetterTimeout, GetterEnds
  <2>5. ~ QueuesStart /\ ~ BrokerEnds
    BY <1>1, <2>1 DEF QueuesStart, BrokerEnds, QueuesEnd
  <2>6. ASSUME UNCHANGED vars PROVE Calm
    <3>1. UNCHANGED <<brokerUp, abandoned, running, held, connected>>
      BY <2>6 DEF vars, queueVars, workerVars
    <3> QED
      BY <2>1, <3>1 DEF Busy
  <2> QED
    BY <2>2, <2>3, <2>4, <2>5, <2>6 DEF Next, Undisturbed
<1> QED
  BY <1>2, <1>3

\* What is not a fault, and what faults alone make possible.
LEMMA NoFault ==
  ASSUME TypeOK, Undisturbed, [Next]_vars, faults' = 0
  PROVE  /\ faults = 0 /\ ~ Fault
         /\ ~ LoseTask /\ ~ LoseResult /\ ~ QueuesEnd
         /\ \A w \in Workers : ~ Crash(w) /\ (Busy(w) => connected[w])
<1> USE DEF TypeOK, QueuesTypeOK
<1>1. ~ Fault
  BY DEF Fault
<1>2. faults' = faults
  <2>1. ASSUME NEW m \in Masters, MasterStep(m) PROVE faults' = faults
    BY <2>1 DEF MasterStep, Enqueue, Skip, Await, NothingToAwait, Collect, Discard, LevelDone,
       GiveUp, Raise, session
  <2>2. ASSUME NEW m \in Masters, MasterCall(m) PROVE faults' = faults
    BY <1>1, <2>2 DEF MasterCall, Submit, Connect, Shutdown, MasterCrash, session
  <2>3. ASSUME NEW w \in Workers, WorkerStep(w) PROVE faults' = faults
    BY <2>3 DEF WorkerStep, Take, Reject, Forget, Succeed, FailAttempt, BackoffOver, FailTask,
       Report, Leave, Spin, Disconnect
  <2>4. ASSUME NEW w \in Workers, WorkerFault(w) PROVE faults' = faults
    BY <1>1, <2>4 DEF WorkerFault, Stop, Crash, Start
  <2>5. ASSUME LoseTask \/ LoseResult \/ GetterTimeout \/ QueuesStart \/ BrokerEnds
        PROVE  faults' = faults
    BY <1>1, <2>5 DEF LoseTask, LoseResult, GetterTimeout, GetterEnds, QueuesStart, BrokerEnds,
       QueuesEnd
  <2> QED
    BY <2>1, <2>2, <2>3, <2>4, <2>5 DEF Next, vars
<1>3. ~ LoseTask /\ ~ LoseResult
  BY <1>2 DEF LoseTask, LoseResult, GetterEnds, Undisturbed
<1>4. ~ QueuesEnd /\ \A w \in Workers : ~ Crash(w)
  BY <1>1 DEF QueuesEnd, Crash
<1> QED
  BY <1>1, <1>2, <1>3, <1>4 DEF Undisturbed

LEMMA PayloadStays ==
  ASSUME TypeOK, WorkerShape, Undisturbed, [Next]_vars, faults' = 0, NEW p \in Payloads
  PROVE  \/ p \in Payloads'
         \/ \E w \in Workers : Busy(w) /\ held[w] = p /\ (Report(w) \/ Forget(w))
<1> DEFINE Goal == \/ p \in Payloads'
                   \/ \E w \in Workers : Busy(w) /\ held[w] = p /\ (Report(w) \/ Forget(w))
<1> USE DEF TypeOK, QueuesTypeOK, WorkerTypeOK
<1>1. ASSUME UNCHANGED <<taskQueue, held>> PROVE Goal
  BY <1>1 DEF Payloads, Busy
<1>2. ASSUME NEW m \in Masters, MasterStep(m) \/ MasterCall(m), UNCHANGED workerVars PROVE Goal
  <2>1. CASE \E t \in Tasks : Enqueue(m, t)
    BY <1>2, <2>1, PayloadsEnqueue
  <2>2. CASE ~ \E t \in Tasks : Enqueue(m, t)
    <3>1. UNCHANGED <<taskQueue, held>>
      BY <1>2, <2>2 DEF MasterStep, MasterCall, Skip, Await, NothingToAwait, Collect, Discard,
         LevelDone, GiveUp, Raise, Submit, Connect, Shutdown, MasterCrash, queueVars, workerVars
    <3> QED
      BY <1>1, <3>1
  <2> QED
    BY <2>1, <2>2
<1>3. ASSUME NEW w \in Workers, WorkerStep(w) \/ WorkerFault(w) PROVE Goal
  <2>1. CASE Take(w)
    <3>1. /\ taskQueue # << >> /\ taskQueue' = Tail(taskQueue)
          /\ held'[w] = taskQueue[1] /\ \A v \in Workers \ {w} : held'[v] = held[v]
      BY <2>1 DEF Take
    <3>2. \A i \in DOMAIN taskQueue \ {1} : i - 1 \in DOMAIN taskQueue' /\ taskQueue'[i - 1] = taskQueue[i]
      BY <3>1
    <3>3. ~ Busy(w)
      BY <2>1 DEF Take, WorkerShape
    <3>4. taskQueue[1] \in TaskMessages /\ taskQueue[1] # NoMessage
      BY <3>1, WorkerAssumption
    <3>5. ASSUME NEW i \in DOMAIN taskQueue, p = taskQueue[i] PROVE p \in Payloads'
      <4>1. CASE i = 1
        BY <3>1, <3>4, <3>5, <4>1 DEF Payloads, Busy
      <4>2. CASE i # 1
        BY <3>2, <3>5, <4>2 DEF Payloads
      <4> QED
        BY <4>1, <4>2
    <3>6. ASSUME NEW v \in Workers, Busy(v), p = held[v] PROVE p \in Payloads'
      <4>1. v # w /\ held'[v] = held[v]
        BY <3>1, <3>3, <3>6
      <4> QED
        BY <3>6, <4>1 DEF Payloads, Busy
    <3> QED
      BY <3>5, <3>6 DEF Payloads
  <2>2. CASE Report(w) \/ Forget(w)
    <3>1. taskQueue' = taskQueue /\ \A v \in Workers \ {w} : held'[v] = held[v]
      BY <2>2 DEF Report, Forget, NextMessage, queueVars
    <3>2. ASSUME NEW i \in DOMAIN taskQueue, p = taskQueue[i] PROVE p \in Payloads'
      BY <3>1, <3>2 DEF Payloads
    <3>3. ASSUME NEW v \in Workers, Busy(v), p = held[v] PROVE Goal
      <4>1. CASE v = w
        BY <2>2, <3>3, <4>1
      <4>2. CASE v # w
        BY <3>1, <3>3, <4>2 DEF Payloads, Busy
      <4> QED
        BY <4>1, <4>2
    <3> QED
      BY <3>2, <3>3 DEF Payloads
  <2>3. ~ Crash(w)
    BY NoFault
  <2>4. CASE ~ (Take(w) \/ Report(w) \/ Forget(w))
    <3>1. UNCHANGED <<taskQueue, held>>
      BY <1>3, <2>3, <2>4 DEF WorkerStep, WorkerFault, Reject, Succeed, FailAttempt, BackoffOver,
         FailTask, Leave, Spin, Disconnect, Stop, Start, queueVars
    <3> QED
      BY <1>1, <3>1
  <2> QED
    BY <2>1, <2>2, <2>4
<1>4. ASSUME LoseTask \/ LoseResult \/ GetterTimeout \/ QueuesStart, UNCHANGED workerVars PROVE Goal
  <2>1. UNCHANGED <<taskQueue, held>>
    BY <1>4, NoFault DEF GetterTimeout, QueuesStart, workerVars
  <2> QED
    BY <1>1, <2>1
<1>5. ~ BrokerEnds
  BY NoFault DEF BrokerEnds
<1>6. CASE UNCHANGED vars
  BY <1>1, <1>6 DEF vars, queueVars, workerVars
<1>7. Goal
  BY <1>2, <1>3, <1>4, <1>5, <1>6 DEF Next
<1> QED
  BY <1>7

LEMMA AnswerStays ==
  ASSUME TypeOK, WorkerShape, Undisturbed, [Next]_vars, faults' = 0, NEW r \in Answers
  PROVE  r \in Answers' \/ \E m \in Masters : (Collect(m) \/ Discard(m)) /\ r = Head(resultQueue)
<1> DEFINE Goal == r \in Answers' \/ \E m \in Masters : (Collect(m) \/ Discard(m)) /\ r = Head(resultQueue)
<1> USE DEF TypeOK, QueuesTypeOK, WorkerTypeOK
<1>1. ASSUME UNCHANGED resultQueue PROVE Goal
  BY <1>1 DEF Answers
<1>2. ASSUME NEW m \in Masters, Collect(m) \/ Discard(m) PROVE Goal
  <2>1. resultQueue # << >> /\ resultQueue' = Tail(resultQueue)
    BY <1>2 DEF Collect, Discard
  <2>2. \A i \in DOMAIN resultQueue \ {1} :
          i - 1 \in DOMAIN resultQueue' /\ resultQueue'[i - 1] = resultQueue[i]
    BY <2>1
  <2>3. Head(resultQueue) = resultQueue[1]
    BY <2>1
  <2>4. PICK i \in DOMAIN resultQueue : r = resultQueue[i]
    BY DEF Answers
  <2>5. CASE i = 1
    BY <1>2, <2>3, <2>4, <2>5
  <2>6. CASE i # 1
    BY <2>2, <2>4, <2>6 DEF Answers
  <2> QED
    BY <2>5, <2>6
<1>3. ASSUME NEW w \in Workers, Report(w) PROVE Goal
  <2>1. \A i \in DOMAIN resultQueue : i \in DOMAIN resultQueue' /\ resultQueue'[i] = resultQueue[i]
    <3>1. CASE resultQueue' = resultQueue
      BY <3>1
    <3>2. CASE resultQueue' = resultQueue \o Result(w)
      <4>1. \E x : Result(w) = << x >>
        BY DEF Result
      <4>2. PICK x : Result(w) = << x >>
        BY <4>1
      <4>3. << x >> \in Seq({x}) /\ Len(<< x >>) = 1
        OBVIOUS
      <4> QED
        BY <3>2, <4>2, <4>3
    <3> QED
      BY <1>3, <3>1, <3>2 DEF Report
  <2> QED
    BY <2>1 DEF Answers
<1>4. ~ LoseResult /\ ~ BrokerEnds
  BY NoFault DEF BrokerEnds
<1>5. CASE ~ \E m \in Masters : Collect(m) \/ Discard(m)
  <2>1. CASE ~ \E w \in Workers : Report(w)
    <3>1. UNCHANGED resultQueue
      <4>1. ASSUME NEW m \in Masters, MasterStep(m) \/ MasterCall(m) PROVE UNCHANGED resultQueue
        BY <1>5, <4>1 DEF MasterStep, MasterCall, Enqueue, Skip, Await, NothingToAwait, LevelDone,
           GiveUp, Raise, Submit, Connect, Shutdown, MasterCrash, queueVars
      <4>2. ASSUME NEW w \in Workers, WorkerStep(w) \/ WorkerFault(w)
            PROVE  UNCHANGED resultQueue
        BY <2>1, <4>2 DEF WorkerStep, WorkerFault, Take, Reject, Forget, Succeed, FailAttempt,
           BackoffOver, FailTask, Leave, Spin, Disconnect, Stop, Crash, Start, queueVars
      <4>3. ASSUME LoseTask \/ GetterTimeout \/ QueuesStart PROVE UNCHANGED resultQueue
        BY <4>3 DEF LoseTask, GetterTimeout, QueuesStart
      <4> QED
        BY <1>4, <4>1, <4>2, <4>3 DEF Next, vars, queueVars
    <3> QED
      BY <1>1, <3>1
  <2> QED
    BY <1>3, <2>1
<1> QED
  BY <1>2, <1>5

LEMMA ExpectedNext ==
  ASSUME TypeOK, [Next]_vars, NEW m \in Masters, NEW t \in expected'[m]
  PROVE  t \in expected[m] \/ (Enqueue(m, t) /\ UNCHANGED workerVars)
<1>1. CASE expected'[m] \subseteq expected[m]
  BY <1>1
<1>2. ASSUME NEW n \in Masters \ {m}, MasterStep(n) \/ MasterCall(n)
      PROVE  expected'[m] \subseteq expected[m]
  BY <1>2, OthersKept DEF SameRow
<1>3. ASSUME NEW u \in Tasks, Enqueue(m, u), UNCHANGED workerVars
      PROVE  t \in expected[m] \/ (Enqueue(m, t) /\ UNCHANGED workerVars)
  <2>1. expected'[m] = expected[m] \cup {u}
    BY <1>3 DEF Enqueue, TypeOK, MasterTypeOK
  <2> QED
    BY <1>3, <2>1
<1>4. ASSUME MasterStep(m) \/ MasterCall(m), ~ \E u \in Tasks : Enqueue(m, u)
      PROVE  expected'[m] \subseteq expected[m]
  BY <1>4 DEF MasterStep, MasterCall, Skip, Await, NothingToAwait, NextLevel, Collect, Discard,
     LevelDone, GiveUp, Raise, Submit, Connect, Shutdown, MasterCrash, masterVars, submission,
     TypeOK, MasterTypeOK
<1>5. CASE UNCHANGED submission
  BY <1>1, <1>5 DEF submission
<1> QED
  BY <1>1, <1>2, <1>3, <1>4, <1>5 DEF Next, BrokerEnds, vars, masterVars

LEMMA AwaitedNext ==
  /\ TypeOK /\ WorkerShape /\ MasterShape /\ DispatchIds /\ SentOnly /\ Undisturbed /\ AwaitedIsSomewhere
  /\ [Next]_vars
  => AwaitedIsSomewhere'
<1> SUFFICES ASSUME TypeOK, WorkerShape, MasterShape, DispatchIds, SentOnly, Undisturbed,
                    AwaitedIsSomewhere, [Next]_vars, faults' = 0,
                    NEW m \in Masters, Masters = {m},
                    NEW t \in expected'[m] \ (Unbuildable \cup Oversized), t.version = DefaultVersion
             PROVE  Somewhere(m, t)'
  BY DEF AwaitedIsSomewhere
<1>1. \A g \in Graphs[m] : ~ Submit(m, g)
  BY SubmitNext
<1>2. dispatch'[m] = dispatch[m] /\ (Collect(m) \/ ResultsStay(m)) /\ \A p : IsFor(m, t, p)' <=> IsFor(m, t, p)
  BY <1>1, RowNext DEF IsFor
<1>3. CASE Enqueue(m, t) /\ UNCHANGED workerVars
  <2>1. t \in Tasks
    BY <1>3 DEF Enqueue, Due, TypeOK, MasterTypeOK
  <2>2. Payload(m, t) \in Payloads'
    BY <1>3, <2>1, PayloadsEnqueue
  <2> QED
    BY <1>2, <2>2 DEF Somewhere, IsFor, Payload
<1>4. CASE t \in expected[m]
  <2>1. Somewhere(m, t)
    BY <1>4, NoFault DEF AwaitedIsSomewhere
  <2>2. Collect(m) /\ Reported(m, t) => Reported(m, t)'
    <3> SUFFICES ASSUME Collect(m), Reported(m, t) PROVE Reported(m, t)'
      OBVIOUS
    <3>1. PICK r \in Answers :
            /\ r.status \in {"success", "failed"}
            /\ results'[m] = WithStatus(results[m], {ReadBack(r)}, r.status)
      BY CollectEffect
    <3> QED
      BY <3>1 DEF Reported, WithStatus
  <2>3. CASE Reported(m, t)
    BY <1>2, <2>2, <2>3 DEF Somewhere, ResultsStay
  <2>4. ASSUME NEW p \in Payloads, IsFor(m, t, p) PROVE Somewhere(m, t)'
    <3>1. CASE p \in Payloads'
      BY <1>2, <2>4, <3>1 DEF Somewhere
    <3>2. ASSUME NEW w \in Workers, Busy(w), held[w] = p, Report(w) \/ Forget(w)
          PROVE  Somewhere(m, t)'
      <4> DEFINE new == ResultDict(held[w].task, wpc[w],
                                   wpc[w] = "success" /\ held[w].task \in Valued, held[w].dispatch)
      <4>1. held[w].task = t /\ held[w].dispatch = dispatch[m]
        BY <2>4, <3>2 DEF IsFor
      <4>2. Report(w) /\ Arrives(w)
        BY <3>2, <4>1, NoFault DEF Forget, Arrives
      <4>3. new.name = t.name /\ new.dispatch = dispatch'[m]
        BY <1>2, <4>1 DEF ResultDict
      <4>4. resultQueue' = resultQueue \o << new >>
        BY <4>2 DEF Report, Result
      <4> HIDE DEF new
      <4>5. new \in Answers'
        <5>1. << new >> \in Seq({new}) /\ Len(<< new >>) = 1 /\ << new >>[1] = new
          OBVIOUS
        <5>2. Len(resultQueue) + 1 \in DOMAIN resultQueue' /\ resultQueue'[Len(resultQueue) + 1] = new
          BY <4>4, <5>1 DEF TypeOK, QueuesTypeOK
        <5> QED
          BY <5>2 DEF Answers
      <4> QED
        BY <4>3, <4>5 DEF Somewhere
    <3> QED
      BY <3>1, <3>2, PayloadStays
  <2>5. ASSUME NEW r \in Answers, r.name = t.name, r.dispatch = dispatch[m]
        PROVE  Somewhere(m, t)'
    <3>1. CASE r \in Answers'
      BY <1>2, <2>5, <3>1 DEF Somewhere
    <3>2. ASSUME Collect(m) \/ Discard(m), r = Head(resultQueue) PROVE Somewhere(m, t)'
      <4>1. ReadBack(r) = t
        <5>1. t = [name |-> t.name, version |-> t.version]
          BY <1>4, TasksAreIds DEF TypeOK, MasterTypeOK
        <5> QED
          BY <2>5, <5>1 DEF ReadBack
      <4>2. Collect(m)
        BY <1>4, <2>5, <3>2, <4>1 DEF Discard, Accepts
      <4>3. Reported(m, t)'
        <5>1. PICK q \in Answers :
                /\ q = Head(resultQueue) /\ q.status \in {"success", "failed"}
                /\ results'[m] = WithStatus(results[m], {ReadBack(q)}, q.status)
          BY <4>2, CollectEffect
        <5> QED
          BY <3>2, <4>1, <5>1 DEF Reported, WithStatus
      <4> QED
        BY <4>3 DEF Somewhere
    <3> QED
      BY <3>1, <3>2, AnswerStays
  <2> QED
    BY <2>1, <2>3, <2>4, <2>5 DEF Somewhere
<1> QED
  BY <1>3, <1>4, ExpectedNext

-----------------------------------------------------------------------------
(* The invariant holds *)

LEMMA InitInductive == Init => Inductive
<1> SUFFICES ASSUME Init PROVE Inductive
  OBVIOUS
<1>1. TypeOK
  BY InitTyped
<1>2. /\ DOMAIN taskQueue = {} /\ DOMAIN resultQueue = {}
      /\ \A w \in Workers : ~ Busy(w) /\ wpc[w] = "polling" /\ running[w]
      /\ outcomes = {} /\ faults = 0 /\ brokerUp
      /\ abandoned = [tasks |-> 0, results |-> 0]
  BY DEF Init, QueuesInit, WorkerInit, Busy
<1>3. Payloads = {} /\ Answers = {}
  BY <1>2 DEF Payloads, Answers
<1>4. ASSUME NEW m \in Masters
      PROVE  /\ graph[m].acyclic /\ Nodes(m) = {} /\ LevelNodes(graph[m], lvl[m]) = {}
             /\ mpc[m] = "idle" /\ dispatch[m] = 0 /\ DOMAIN results[m] = {}
             /\ todo[m] = {} /\ expected[m] = {} /\ collected[m] = {}
  BY <1>4 DEF Init, MasterInit, NoGraph, Nodes, NodesOf, LevelNodes
<1>5. WorkerShape
  BY <1>2 DEF WorkerShape
<1>6. DispatchIds
  <2>1. dispatches = 0
    BY DEF Init, MasterInit
  <2> QED
    BY <1>2, <1>3, <1>4, <2>1 DEF DispatchIds, Active
<1>7. MasterShape
  BY <1>4 DEF MasterShape, LevelState, ResultsState, LevelsBelow, Returned, Active, Ready
<1>8. SentOnly /\ Origins
  BY <1>2, <1>3 DEF SentOnly, Origins, Reporting
<1>9. ResultsAreGenuine /\ ContextHasResults
  BY <1>4 DEF ResultsAreGenuine, ContextHasResults
<1>10. ContextIsComplete
  BY <1>3 DEF ContextIsComplete, InFlight, Payloads
<1>11. PayloadsDiffer /\ AnswersDiffer
  BY <1>2, <1>4 DEF PayloadsDiffer, AnswersDiffer
<1>12. Undisturbed
  BY <1>2 DEF Undisturbed
<1>13. AwaitedIsSomewhere
  BY <1>4 DEF AwaitedIsSomewhere
<1> QED
  BY <1>1, <1>5, <1>6, <1>7, <1>8, <1>9, <1>10, <1>11, <1>12, <1>13 DEF Inductive

LEMMA StepInductive == Inductive /\ [Next]_vars => Inductive'
BY StepTyped, DispatchIdsNext, MasterShapeNext, SentOnlyNext, OriginsNext, ResultsGenuineNext,
   ContextNext, PayloadsDifferNext, AnswersDifferNext, UndisturbedNext, AwaitedNext
   DEF Inductive

LEMMA InductiveHolds == Spec => []Inductive
<1>1. Init => Inductive
  BY InitInductive
<1>2. Inductive /\ [Next]_vars => Inductive'
  BY StepInductive
<1> QED
  BY <1>1, <1>2, PTL DEF Spec

-----------------------------------------------------------------------------
(* What it implies *)

\* The least of some numbers.
LEMMA Least ==
  ASSUME NEW I, I \subseteq Nat, I # {}
  PROVE  \E i \in I : \A j \in I : i <= j
<1>1. PICK i \in I : \A j \in I : ~ (<<j, i>> \in OpToRel(<, Nat))
  BY WFMin, NatLessThanWellFounded
<1>2. \A j \in Nat : <<j, i>> \in OpToRel(<, Nat) <=> j < i
  BY DEF OpToRel
<1>3. \A j \in I : ~ (j < i)
  BY <1>1, <1>2
<1> QED
  BY <1>3

\* The size of a set that cannot have two elements.
LEMMA AtMostOne ==
  ASSUME NEW S, \A x, y \in S : x = y
  PROVE  IsFiniteSet(S) /\ Cardinality(S) = (IF S = {} THEN 0 ELSE 1)
<1>1. CASE S = {}
  BY <1>1, FS_EmptySet
<1>2. CASE S # {}
  <2>1. PICK x : S = {x}
    BY <1>2
  <2> QED
    BY <1>2, <2>1, FS_Singleton
<1> QED
  BY <1>1, <1>2

LEMMA NonEmptyCounts ==
  ASSUME NEW S, IsFiniteSet(S)
  PROVE  Cardinality(S) \in Nat /\ (S # {} => Cardinality(S) >= 1)
BY FS_CardinalityType, FS_EmptySet

\* A payload in flight is that of a dispatched task, whose dependencies are on
\* levels that were left.
LEMMA InFlightIsSent ==
  ASSUME Inductive, NEW m \in Masters, NEW msg \in InFlight(m)
  PROVE  /\ msg \in Payloads /\ msg.dispatch = dispatch[m] /\ Sent(m, msg.task)
         /\ \A d \in graph[m].deps[msg.task] : d \in Nodes(m) /\ LevelOf(m, d) < lvl[m]
<1>1. msg \in Payloads /\ msg.dispatch = dispatch[m]
  BY DEF InFlight, Payloads
<1>2. Sent(m, msg.task)
  BY <1>1 DEF Inductive, SentOnly
<1>3. ASSUME NEW d \in graph[m].deps[msg.task]
      PROVE  d \in Nodes(m) /\ LevelOf(m, d) < lvl[m]
  <2>1. d \in Nodes(m) /\ LevelOf(m, d) \in Nat /\ LevelOf(m, msg.task) \in Nat
    BY <1>2, GraphsTyped DEF Sent, Inductive, TypeOK
  <2>2. LevelOf(m, d) < LevelOf(m, msg.task)
    BY <1>2, GraphsTyped DEF Sent, Ready, IsGraph, Nodes, LevelOf, Inductive, TypeOK
  <2>3. LevelOf(m, msg.task) <= lvl[m] /\ lvl[m] \in Nat
    BY <1>2 DEF Sent, Inductive, TypeOK, MasterTypeOK
  <2> QED
    BY <2>1, <2>2, <2>3
<1> QED
  BY <1>1, <1>2, <1>3

LEMMA OrderedAndUncancelled == Inductive => DispatchedAfterDeps /\ CancelledIsNotExecuted
<1> SUFFICES ASSUME Inductive PROVE DispatchedAfterDeps /\ CancelledIsNotExecuted
  OBVIOUS
<1>1. DispatchedAfterDeps
  <2> SUFFICES ASSUME NEW m \in Masters, NEW msg \in InFlight(m),
                      NEW d \in graph[m].deps[msg.task], d \notin late[m]
               PROVE  /\ d \in DOMAIN results[m]
                      /\ results[m][d] \in {"success", "skipped"} \/ ContinueOnFailure[m]
    BY DEF DispatchedAfterDeps
  <2>1. d \in Nodes(m) /\ LevelOf(m, d) < lvl[m] /\ Ready(m)
    BY InFlightIsSent DEF Sent
  <2> QED
    BY <2>1 DEF Inductive, MasterShape, LevelsBelow
<1>2. CancelledIsNotExecuted
  <2> SUFFICES ASSUME NEW m \in Masters, NEW t \in DOMAIN results[m],
                      results[m][t] = "cancelled", t \notin late[m]
               PROVE  /\ \A o \in outcomes : ~ (o.task = t /\ o.dispatch = dispatch[m])
                      /\ \A msg \in InFlight(m) : msg.task # t
    BY DEF CancelledIsNotExecuted
  <2>1. t \in Nodes(m) /\ LevelOf(m, t) > lvl[m]
    BY DEF Inductive, MasterShape, ResultsState
  <2>2. LevelOf(m, t) \in Nat /\ lvl[m] \in Nat
    BY <2>1, GraphsTyped DEF Inductive, TypeOK, MasterTypeOK
  <2>3. ~ Sent(m, t)
    BY <2>1, <2>2 DEF Sent
  <2> QED
    BY <2>3, InFlightIsSent DEF Inductive, SentOnly
<1> QED
  BY <1>1, <1>2

\* When a level is empty, so are all that follow.
LEMMA NoLevelAfterAnEmptyOne ==
  ASSUME TypeOK, NEW m \in Masters, Ready(m), LevelNodes(graph[m], lvl[m]) = {},
         NEW t \in Nodes(m)
  PROVE  LevelOf(m, t) < lvl[m]
<1> DEFINE Later == {l \in Nat : l >= lvl[m] /\ \E u \in Nodes(m) : LevelOf(m, u) = l}
<1>1. lvl[m] \in Nat /\ \A u \in Nodes(m) : LevelOf(m, u) \in Nat
  BY GraphsTyped DEF TypeOK, MasterTypeOK
<1>2. SUFFICES ASSUME LevelOf(m, t) >= lvl[m] PROVE FALSE
  BY <1>1
<1>3. PICK l \in Later : \A k \in Later : l <= k
  BY <1>1, <1>2, Least
<1>4. PICK u \in Nodes(m) : LevelOf(m, u) = l
  BY <1>3
<1>5. l # lvl[m]
  BY <1>4 DEF LevelNodes, Nodes, LevelOf
<1>6. l > lvl[m] /\ l > 0
  BY <1>1, <1>3, <1>5
<1>7. PICK d \in graph[m].deps[u] : LevelOf(m, d) = l - 1
  BY <1>4, <1>6, GraphsTyped DEF TypeOK, IsGraph, Ready, Nodes, LevelOf
<1>8. d \in Nodes(m)
  BY <1>4, <1>7, GraphsTyped DEF TypeOK
<1>9. l - 1 \in Later
  BY <1>1, <1>3, <1>6, <1>7, <1>8
<1> QED
  BY <1>3, <1>9

LEMMA NothingIsLeftOut == Inductive => ReturnsEveryTask
<1> SUFFICES ASSUME Inductive, NEW m \in Masters, mpc[m] = "returned"
             PROVE  /\ Nodes(m) \ late[m] \subseteq DOMAIN results[m]
                    /\ DOMAIN results[m] \subseteq Nodes(m)
  BY DEF ReturnsEveryTask
<1>1. DOMAIN results[m] \subseteq Nodes(m)
  BY DEF Inductive, MasterShape, ResultsState
<1>2. CASE LevelNodes(graph[m], lvl[m]) = {}
  <2>1. Ready(m)
    BY DEF Inductive, MasterShape, Returned
  <2>2. \A t \in Nodes(m) : LevelOf(m, t) < lvl[m]
    BY <1>2, <2>1, NoLevelAfterAnEmptyOne DEF Inductive
  <2> QED
    BY <1>1, <2>1, <2>2 DEF Inductive, MasterShape, LevelsBelow
<1> QED
  BY <1>1, <1>2 DEF Inductive, MasterShape, Returned

LEMMA CopiesExclude == Inductive => AtMostOneCopy
<1> SUFFICES ASSUME Inductive, NEW m \in Masters, NEW t \in Nodes(m), SoleVersion(m, t)
             PROVE  Copies(m, t) <= 1
  BY DEF AtMostOneCopy
<1> DEFINE Q == {i \in DOMAIN taskQueue :
                   taskQueue[i].task = t /\ taskQueue[i].dispatch = dispatch[m]}
           H == {w \in Workers : Busy(w) /\ held[w].task = t /\ held[w].dispatch = dispatch[m]}
           R == {i \in DOMAIN resultQueue :
                   resultQueue[i].name = t.name /\ resultQueue[i].dispatch = dispatch[m]}
<1>1. \A x, y \in Q : x = y
  BY DEF Inductive, PayloadsDiffer, Same
<1>2. \A x, y \in H : x = y
  BY DEF Inductive, PayloadsDiffer, Same
<1>3. \A x, y \in R : x = y
  BY DEF Inductive, AnswersDiffer, Answered
<1>4. Q = {} \/ H = {}
  BY DEF Inductive, PayloadsDiffer, Same
<1>5. R # {} \/ Reported(m, t) => \A p \in Payloads : ~ IsFor(m, t, p)
  BY DEF Inductive, AnswersDiffer, Answered
<1>6. (\A p \in Payloads : ~ IsFor(m, t, p)) => Q = {} /\ H = {}
  BY DEF Payloads, IsFor
<1>7. R = {} \/ ~ Reported(m, t)
  BY DEF Inductive, AnswersDiffer, Answered
<1>8. Copies(m, t) = Cardinality(Q) + Cardinality(H) + Cardinality(R)
                       + (IF Reported(m, t) THEN 1 ELSE 0)
  BY DEF Copies
<1> HIDE DEF Q, H, R
<1>9. /\ Cardinality(Q) = (IF Q = {} THEN 0 ELSE 1)
      /\ Cardinality(H) = (IF H = {} THEN 0 ELSE 1)
      /\ Cardinality(R) = (IF R = {} THEN 0 ELSE 1)
  BY <1>1, <1>2, <1>3, AtMostOne
<1> QED
  BY <1>4, <1>5, <1>6, <1>7, <1>8, <1>9

LEMMA AwaitedCounts == Inductive => NothingIsLost
<1> SUFFICES ASSUME Inductive, faults = 0, Cardinality(Masters) = 1, NEW m \in Masters,
                    NEW t \in expected[m] \ (Unbuildable \cup Oversized),
                    t.version = DefaultVersion
             PROVE  Copies(m, t) >= 1
  BY DEF NothingIsLost
<1> DEFINE Q == {i \in DOMAIN taskQueue :
                   taskQueue[i].task = t /\ taskQueue[i].dispatch = dispatch[m]}
           H == {w \in Workers : Busy(w) /\ held[w].task = t /\ held[w].dispatch = dispatch[m]}
           R == {i \in DOMAIN resultQueue :
                   resultQueue[i].name = t.name /\ resultQueue[i].dispatch = dispatch[m]}
<1>1. Masters = {m}
  <2>1. IsFiniteSet(Masters)
    BY MasterAssumption
  <2>2. PICK x : Masters = {x}
    BY <2>1, FS_Singleton
  <2> QED
    BY <2>2
<1>2. Somewhere(m, t)
  BY <1>1 DEF Inductive, AwaitedIsSomewhere
<1>3. IsFiniteSet(Q) /\ IsFiniteSet(R)
  <2>1. IsFiniteSet(1 .. Len(taskQueue)) /\ IsFiniteSet(1 .. Len(resultQueue))
    <3>1. Len(taskQueue) \in Int /\ Len(resultQueue) \in Int
      BY DEF Inductive, TypeOK, QueuesTypeOK
    <3> QED
      BY <3>1, FS_Interval
  <2>2. Q \subseteq 1 .. Len(taskQueue) /\ R \subseteq 1 .. Len(resultQueue)
    BY DEF Inductive, TypeOK, QueuesTypeOK
  <2> QED
    BY <2>1, <2>2, FS_Subset
<1>4. IsFiniteSet(H)
  <2>1. \A x, y \in H : x = y
    BY DEF Inductive, PayloadsDiffer, Same
  <2> HIDE DEF H
  <2> QED
    BY <2>1, AtMostOne
<1>5. Q # {} \/ H # {} \/ R # {} \/ Reported(m, t)
  BY <1>2 DEF Somewhere, IsFor, Payloads, Answers
<1>6. Copies(m, t) = Cardinality(Q) + Cardinality(H) + Cardinality(R)
                       + (IF Reported(m, t) THEN 1 ELSE 0)
  BY DEF Copies
<1> HIDE DEF Q, H, R
<1>7. /\ Cardinality(Q) \in Nat /\ (Q # {} => Cardinality(Q) >= 1)
      /\ Cardinality(H) \in Nat /\ (H # {} => Cardinality(H) >= 1)
      /\ Cardinality(R) \in Nat /\ (R # {} => Cardinality(R) >= 1)
  BY <1>3, <1>4, NonEmptyCounts
<1> QED
  BY <1>5, <1>6, <1>7

-----------------------------------------------------------------------------
(* The theorems *)

\* The queues hold payloads and results, the masters' and workers' fields what
\* their types say, and the results of a submit_graph are those of tasks.
THEOREM TypeCorrect == Spec => []TypeOK
<1>1. Inductive => TypeOK
  BY DEF Inductive
<1> QED
  BY <1>1, InductiveHolds, PTL

\* submit_graph credits a result to the dispatch whose execution produced it and to the
\* name of the task that was executed, however late it is and whichever master it was
\* meant for.  The version may be another: results bear none.
THEOREM CreditsWhatRan == Spec => []ResultsAreGenuine
<1>1. Inductive => ResultsAreGenuine
  BY DEF Inductive
<1> QED
  BY <1>1, InductiveHolds, PTL

\* The context of a payload has the result of every dependency that has one, and is
\* in the graph in one version only.
THEOREM ContextsAreComplete == Spec => []ContextIsComplete
<1>1. Inductive => ContextIsComplete
  BY DEF Inductive
<1> QED
  BY <1>1, InductiveHolds, PTL

\* The levels of submit_graph keep the order of the dependencies, though workers
\* take the payloads in any order: each has succeeded or was skipped, or has failed with
\* continue_on_failure on, or was late when the time of its level was up.
THEOREM DependenciesFirst == Spec => []DispatchedAfterDeps
<1>1. Inductive => DispatchedAfterDeps
  BY OrderedAndUncancelled
<1> QED
  BY <1>1, InductiveHolds, PTL

\* What submit_graph reports as CANCELLED has not been executed for this dispatch and
\* will not be, but for the tasks that were late when the time of their level was up.
THEOREM CancelledNeverRan == Spec => []CancelledIsNotExecuted
<1>1. Inductive => CancelledIsNotExecuted
  BY OrderedAndUncancelled
<1> QED
  BY <1>1, InductiveHolds, PTL

\* submit_graph returns with a status for every task of the graph that was not late.
THEOREM EveryTaskReturned == Spec => []ReturnsEveryTask
<1>1. Inductive => ReturnsEveryTask
  BY NothingIsLeftOut
<1> QED
  BY <1>1, InductiveHolds, PTL

\* No two workers ever have the same task of a dispatch, and it yields one
\* result at most, for each task that is in its graph in one version only.
THEOREM OneCopy == Spec => []AtMostOneCopy
<1>1. Inductive => AtMostOneCopy
  BY CopiesExclude
<1> QED
  BY <1>1, InductiveHolds, PTL

\* What a sole master awaits is queued, worked on, or reported, as long as no
\* process dies or is stopped: each task of version 1.0.0 whose node can be
\* instantiated and whose result is not too long to be sent.
THEOREM NothingLost == Spec => []NothingIsLost
<1>1. Inductive => NothingIsLost
  BY AwaitedCounts
<1> QED
  BY <1>1, InductiveHolds, PTL
=============================================================================

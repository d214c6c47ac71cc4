--------------------------- MODULE AsyncTaskEngine ---------------------------
(***************************************************************************)
(* application/engine.py: class AsyncTaskEngine.                           *)
(*                                                                         *)
(* One engine runs one graph after another.  The coroutine run() starts    *)
(* the tasks of a level as children (_execute_node), waits for all of them *)
(* in asyncio.gather and goes on to the next level.  Everything between    *)
(* two awaits is one step.  cancel() may be called at any await, and so    *)
(* may Task.cancel() of the task that awaits run().                        *)
(*                                                                         *)
(* A graph arrives with its levels: TopologicalSorter has computed them    *)
(* (module TopologicalSorter), or has reported a cycle.                    *)
(***************************************************************************)
EXTENDS BloomFilter

CONSTANTS
  Tasks,              \* the task identifiers
  Graphs,             \* the graphs that may be run: [deps, level, acyclic]
  Registered,         \* the tasks NodeRegistry.get_node finds
  Faulty,             \* the tasks whose node class cannot be instantiated
  MaxRetries,         \* task -> max_retries of its node
  MaxConcurrent,      \* config.max_concurrent_tasks
  MaxRuns             \* bounds the calls of run()

NodesOf(g) == DOMAIN g.deps

\* What add_node and add_dependency ensure of the dependencies, and LevelsAreTight
\* of the levels of an accepted graph.
IsGraph(g) ==
  /\ NodesOf(g) \subseteq Tasks
  /\ g.deps \in [NodesOf(g) -> SUBSET NodesOf(g)]
  /\ g.level \in [NodesOf(g) -> Nat]
  /\ g.acyclic \in BOOLEAN
  /\ g.acyclic => \A t \in NodesOf(g) : \A d \in g.deps[t] : g.level[d] < g.level[t]

ASSUME EngineAssumption ==
  /\ Tasks \subseteq Items
  /\ IsFiniteSet(Tasks)
  /\ \A g \in Graphs : IsGraph(g)
  /\ Registered \subseteq Tasks
  /\ Faulty \subseteq Tasks
  /\ MaxRetries \in [Tasks -> Nat]
  /\ MaxConcurrent \in Nat \ {0}
  /\ MaxRuns \in Nat

VARIABLES
  continueOnFailure,  \* config.continue_on_failure, given to the constructor
  runs,         \* how often run() was called
  graph,        \* its argument in the latest call
  rpc,          \* where run() is
  lvl,          \* level_idx
  status,       \* _states[t].status, "absent" when t is not in the graph
  retryCount,   \* _states[t].retry_count
  phase,        \* where the child of task t is
  interrupted,  \* the children that a CancelledError is on its way to
  aborting,     \* the task awaiting run() was cancelled
  permits,      \* the value of _semaphore
  cancelEvent,  \* _cancel_event
  bloom,        \* _bloom
  succeeded     \* history: the tasks that completed successfully in any run

runVars   == <<continueOnFailure, runs, graph, rpc, lvl, aborting>>
childVars == <<status, retryCount, phase, interrupted, permits>>
vars == <<runVars, childVars, cancelEvent, bloom, succeeded>>

NoGraph == [deps |-> << >>, level |-> << >>, acyclic |-> TRUE]

Nodes == NodesOf(graph)

Outside  == {"idle", "returned", "raised"}
Final    == {"success", "failed", "skipped", "cancelled"}
Statuses == {"absent", "pending", "running"} \cup Final

Holding == {"executing", "backoff"}     \* inside `async with self._semaphore`
Active  == {"waiting"} \cup Holding

InPhase(P) == {t \in Tasks : phase[t] \in P}

Init ==
  /\ continueOnFailure \in BOOLEAN
  /\ runs = 0
  /\ graph = NoGraph
  /\ rpc = "idle"
  /\ lvl = 0
  /\ status = [t \in Tasks |-> "absent"]
  /\ retryCount = [t \in Tasks |-> 0]
  /\ phase = [t \in Tasks |-> "none"]
  /\ interrupted = {}
  /\ aborting = FALSE
  /\ permits = MaxConcurrent
  /\ cancelEvent = FALSE
  /\ bloom = EmptyBitmap
  /\ succeeded = {}

-----------------------------------------------------------------------------
(* run() *)

\* New states, the cancel event cleared; a cyclic graph raises ValueError.
StartRun(g) ==
  /\ rpc \in Outside
  /\ runs < MaxRuns
  /\ runs' = runs + 1
  /\ graph' = g
  /\ rpc' = IF g.acyclic THEN "level" ELSE "raised"
  /\ lvl' = 0
  /\ status' = [t \in Tasks |-> IF t \in NodesOf(g) THEN "pending" ELSE "absent"]
  /\ retryCount' = [t \in Tasks |-> 0]
  /\ phase' = [t \in Tasks |-> "none"]
  /\ interrupted' = {}
  /\ aborting' = FALSE
  /\ cancelEvent' = FALSE
  /\ UNCHANGED <<continueOnFailure, permits, bloom, succeeded>>

\* Mutant: the levels run so far are taken again.
LevelNodesUpTo(l) == {t \in Nodes : graph.level[t] <= l}

LevelNodes(l) == {t \in Nodes : graph.level[t] = l}

\* Mutant: the last level is left out.
LevelsLeftOffByOne == \E t \in Nodes : graph.level[t] > lvl

LevelsLeft == \E t \in Nodes : graph.level[t] >= lvl

\* Mutant: only this run's successes count as done.
AlreadyDoneThisRun == {t \in LevelNodes(lvl) : status[t] = "success"}

\* `if node in self._bloom`: the tasks of the level that are not run.
AlreadyDone == {t \in LevelNodes(lvl) : MayContain(bloom, t)}

\* The children created for the level.
Started == LevelNodes(lvl) \ AlreadyDone

StartLevel ==
  /\ rpc = "level" /\ LevelsLeft /\ ~ cancelEvent
  /\ status' = [t \in Tasks |-> IF t \in AlreadyDone THEN "skipped" ELSE status[t]]
  /\ phase' = [t \in Tasks |-> IF t \in Started THEN "waiting" ELSE phase[t]]
  /\ rpc' = IF Started = {} THEN "level" ELSE "gather"
  /\ lvl' = IF Started = {} THEN lvl + 1 ELSE lvl
  /\ UNCHANGED <<continueOnFailure, runs, graph, aborting, retryCount, interrupted,
                 permits, cancelEvent, bloom, succeeded>>

\* Cancellation found before a level: that level is marked, and the loop left.
SkipRemaining ==
  /\ rpc = "level" /\ LevelsLeft /\ cancelEvent
  /\ status' = [t \in Tasks |->
                  IF t \in LevelNodes(lvl) /\ status[t] = "pending"
                  THEN "cancelled" ELSE status[t]]
  /\ rpc' = "returned"
  /\ UNCHANGED <<continueOnFailure, runs, graph, lvl, aborting, retryCount, phase,
                 interrupted, permits, cancelEvent, bloom, succeeded>>

Finish ==
  /\ rpc = "level" /\ ~ LevelsLeft
  /\ rpc' = "returned"
  /\ UNCHANGED <<continueOnFailure, runs, graph, lvl, aborting, childVars, cancelEvent,
                 bloom, succeeded>>

\* Mutant: children that wait for the semaphore are not waited for.
GatherDoneEarly == rpc = "gather" /\ InPhase(Holding) = {}

GatherDone == rpc = "gather" /\ InPhase(Active) = {}

\* Mutant: a coroutine that returned is looked for instead.
ChildRaisedNever == \E t \in LevelNodes(lvl) : phase[t] = "none"

\* gather's results hold an exception: a child raised instead of returning.
ChildRaised == \E t \in LevelNodes(lvl) : phase[t] = "error"

NextLevel ==
  /\ GatherDone /\ ~ aborting
  /\ ChildRaised => continueOnFailure
  /\ rpc' = "level"
  /\ lvl' = lvl + 1
  /\ UNCHANGED <<continueOnFailure, runs, graph, aborting, childVars, cancelEvent,
                 bloom, succeeded>>

\* `await self.cancel()`: sets the event and sleeps for 0.1 s ...
CancelOnError ==
  /\ GatherDone /\ ~ aborting
  /\ ChildRaised /\ ~ continueOnFailure
  /\ cancelEvent' = TRUE
  /\ rpc' = "cancelling"
  /\ UNCHANGED <<continueOnFailure, runs, graph, lvl, aborting, childVars, bloom, succeeded>>

\* ... and the loop goes on.
CancelSlept ==
  /\ rpc = "cancelling"
  /\ rpc' = "level"
  /\ lvl' = lvl + 1
  /\ UNCHANGED <<continueOnFailure, runs, graph, aborting, childVars, cancelEvent,
                 bloom, succeeded>>

\* Mutant: only children that have begun are cancelled.
ToInterruptBegun == InPhase(Holding)

ToInterrupt == InPhase(Active)

\* The task that awaits run() is cancelled.  gather passes that on to every
\* child that is not done, and raises once they all are.
AbortRun ==
  /\ rpc \in {"gather", "cancelling"}
  /\ rpc' = IF rpc = "cancelling" THEN "raised" ELSE rpc
  /\ aborting' = TRUE
  /\ interrupted' = ToInterrupt
  /\ UNCHANGED <<continueOnFailure, runs, graph, lvl, status, retryCount, phase, permits,
                 cancelEvent, bloom, succeeded>>

GatherRaises ==
  /\ GatherDone /\ aborting
  /\ rpc' = "raised"
  /\ UNCHANGED <<continueOnFailure, runs, graph, lvl, aborting, childVars, cancelEvent,
                 bloom, succeeded>>

\* cancel(), called from outside.  run() awaits nothing at "level".
Cancel ==
  /\ rpc # "level"
  /\ cancelEvent' = TRUE
  /\ UNCHANGED <<runVars, childVars, bloom, succeeded>>

-----------------------------------------------------------------------------
(* _execute_node(t) *)

\* A dependency with one of these statuses lets its dependents run.
Satisfied == {"success", "skipped"}

\* Mutant: one satisfied dependency is enough.
DepsMetAny(t) == graph.deps[t] = {} \/ \E d \in graph.deps[t] : status[d] \in Satisfied

DepsMet(t) == \A d \in graph.deps[t] : status[d] \in Satisfied

\* The child leaves the semaphore, or never entered it, with status s.
EndWith(t, s, p) ==
  /\ status' = [status EXCEPT ![t] = s]
  /\ phase' = [phase EXCEPT ![t] = p]

\* mark_running and the call of execute.
BeginAttempt(t) == EndWith(t, "running", "executing")

\* Mutant: no look at the cancel event.
VerdictIgnoresCancel(t) ==
  IF ~ DepsMet(t) THEN "skipped"
  ELSE IF t \notin Registered THEN "failed"
  ELSE IF t \in Faulty THEN "raise"
  ELSE "run"

\* The semaphore is acquired: the checks up to the first await of execute.
\* They decide with what status the child ends, if it does not run.
Verdict(t) ==
  IF ~ DepsMet(t) THEN "skipped"
  ELSE IF t \notin Registered THEN "failed"
  ELSE IF t \in Faulty THEN "raise"
  ELSE IF cancelEvent THEN "cancelled"
  ELSE "run"

AcquireAndRun(t) ==
  /\ phase[t] = "waiting" /\ t \notin interrupted /\ permits > 0
  /\ Verdict(t) = "run"
  /\ BeginAttempt(t)
  /\ permits' = permits - 1
  /\ UNCHANGED <<runVars, retryCount, interrupted, cancelEvent, bloom, succeeded>>

\* The permit is taken and given back within the step.
AcquireAndEnd(t) ==
  /\ phase[t] = "waiting" /\ t \notin interrupted /\ permits > 0
  /\ \/ Verdict(t) \in Final /\ EndWith(t, Verdict(t), "ended")
     \/ Verdict(t) = "raise" /\ EndWith(t, status[t], "error")
  /\ UNCHANGED <<runVars, retryCount, interrupted, permits, cancelEvent, bloom, succeeded>>

\* execute returns in time: mark_success, bloom.add.
ExecSuccess(t) ==
  /\ phase[t] = "executing"
  /\ EndWith(t, "success", "ended")
  /\ permits' = permits + 1
  /\ bloom' = Added(bloom, t)
  /\ succeeded' = succeeded \cup {t}
  /\ interrupted' = interrupted \ {t}
  /\ UNCHANGED <<runVars, retryCount, cancelEvent>>

\* Mutant: one attempt too few.
AttemptsLeftOffByOne(t) == retryCount[t] + 1 < MaxRetries[t]

AttemptsLeft(t) == retryCount[t] < MaxRetries[t]

\* execute raises, times out, or is interrupted: `except BaseException` takes
\* the CancelledError too.  The next attempt follows after a sleep.
ExecFailRetry(t) ==
  /\ phase[t] = "executing" /\ AttemptsLeft(t)
  /\ retryCount' = [retryCount EXCEPT ![t] = @ + 1]
  /\ phase' = [phase EXCEPT ![t] = "backoff"]
  /\ interrupted' = interrupted \ {t}
  /\ UNCHANGED <<runVars, status, permits, cancelEvent, bloom, succeeded>>

\* Mutant: the permit is kept.
ExecFailFinalLeak(t) ==
  /\ phase[t] = "executing" /\ ~ AttemptsLeft(t)
  /\ EndWith(t, "failed", "ended")
  /\ interrupted' = interrupted \ {t}
  /\ UNCHANGED <<runVars, retryCount, permits, cancelEvent, bloom, succeeded>>

\* Mutant: whatever has ended is put into the filter.
ExecFailFinalAdds(t) ==
  /\ phase[t] = "executing" /\ ~ AttemptsLeft(t)
  /\ EndWith(t, "failed", "ended")
  /\ permits' = permits + 1
  /\ bloom' = Added(bloom, t)
  /\ interrupted' = interrupted \ {t}
  /\ UNCHANGED <<runVars, retryCount, cancelEvent, succeeded>>

ExecFailFinal(t) ==
  /\ phase[t] = "executing" /\ ~ AttemptsLeft(t)
  /\ EndWith(t, "failed", "ended")
  /\ permits' = permits + 1
  /\ interrupted' = interrupted \ {t}
  /\ UNCHANGED <<runVars, retryCount, cancelEvent, bloom, succeeded>>

\* The sleep between two attempts is over.
Retry(t) ==
  /\ phase[t] = "backoff" /\ t \notin interrupted /\ ~ cancelEvent
  /\ BeginAttempt(t)
  /\ UNCHANGED <<runVars, retryCount, interrupted, permits, cancelEvent, bloom, succeeded>>

RetryCancelled(t) ==
  /\ phase[t] = "backoff" /\ t \notin interrupted /\ cancelEvent
  /\ EndWith(t, "cancelled", "ended")
  /\ permits' = permits + 1
  /\ UNCHANGED <<runVars, retryCount, interrupted, cancelEvent, bloom, succeeded>>

\* CancelledError outside the try block: the child raises, its status stays.
InterruptWaiting(t) ==
  /\ phase[t] = "waiting" /\ t \in interrupted
  /\ EndWith(t, status[t], "error")
  /\ interrupted' = interrupted \ {t}
  /\ UNCHANGED <<runVars, retryCount, permits, cancelEvent, bloom, succeeded>>

\* Mutant: the permit is kept.
InterruptBackoffLeak(t) ==
  /\ phase[t] = "backoff" /\ t \in interrupted
  /\ EndWith(t, status[t], "error")
  /\ interrupted' = interrupted \ {t}
  /\ UNCHANGED <<runVars, retryCount, permits, cancelEvent, bloom, succeeded>>

InterruptBackoff(t) ==
  /\ phase[t] = "backoff" /\ t \in interrupted
  /\ EndWith(t, status[t], "error")
  /\ permits' = permits + 1
  /\ interrupted' = interrupted \ {t}
  /\ UNCHANGED <<runVars, retryCount, cancelEvent, bloom, succeeded>>

-----------------------------------------------------------------------------

RunStep ==
  \/ StartLevel \/ SkipRemaining \/ Finish
  \/ NextLevel \/ CancelOnError \/ CancelSlept \/ GatherRaises

Child(t) ==
  \/ AcquireAndRun(t) \/ AcquireAndEnd(t)
  \/ ExecSuccess(t) \/ ExecFailRetry(t) \/ ExecFailFinal(t)
  \/ Retry(t) \/ RetryCancelled(t)
  \/ InterruptWaiting(t) \/ InterruptBackoff(t)

Next ==
  \/ \E g \in Graphs : StartRun(g)
  \/ RunStep \/ AbortRun \/ Cancel
  \/ \E t \in Tasks : Child(t)

Spec == Init /\ [][Next]_vars

\* The event loop resumes every coroutine that can go on, and an attempt ends:
\* wait_for gives it default_timeout.  Nobody has to call or cancel anything.
FairSpec ==
  /\ Spec
  /\ WF_vars(RunStep)
  /\ \A t \in Tasks : WF_vars(Child(t))

-----------------------------------------------------------------------------
(* What holds between the fields while a run is under way: the parts of the  *)
(* inductive invariant the proofs rest on.                                   *)

\* A run has an accepted graph.
GraphAccepted == rpc \notin Outside => graph \in Graphs /\ graph.acyclic

\* Unfinished children belong to the level gather waits for; where a child is
\* tells the status of its task.
ChildrenInLevel ==
  \A t \in Tasks :
    /\ phase[t] \in Active => rpc = "gather" /\ t \in Nodes /\ graph.level[t] = lvl
    /\ phase[t] = "waiting" => status[t] = "pending"
    /\ phase[t] \in Holding => status[t] = "running"
    /\ phase[t] = "ended" => status[t] \in Final
    /\ phase[t] = "error" => aborting \/ (t \in Faulty /\ status[t] = "pending")

\* run() has come to the tasks of level l.
Begun(l) == l < lvl \/ (l = lvl /\ rpc # "level")

LaterLevelsUntouched ==
  rpc \notin Outside =>
    \A t \in Nodes : ~ Begun(graph.level[t]) => phase[t] = "none" /\ status[t] = "pending"

NothingLeftOut ==
  rpc \notin Outside =>
    \A t \in Nodes : Begun(graph.level[t]) /\ phase[t] = "none" => status[t] = "skipped"

AbortReachesAll ==
  /\ aborting => rpc \in {"gather", "raised"}
  /\ interrupted # {} => aborting
  /\ aborting => InPhase({"waiting"}) \subseteq interrupted

RetriesBounded == \A t \in Tasks : retryCount[t] <= MaxRetries[t]

SucceededInFilter == \A t \in succeeded : MayContain(bloom, t)

\* After an exception the run does not go on, with continue_on_failure off.
ErrorsStop ==
  ~ continueOnFailure =>
    \A t \in Nodes : phase[t] = "error" =>
      /\ rpc = "gather" => graph.level[t] = lvl
      /\ rpc \in {"level", "cancelling"} => cancelEvent

-----------------------------------------------------------------------------
(* Properties *)

\* (Proved only: module AsyncTaskEngineProofs.)
TypeOK ==
  /\ continueOnFailure \in BOOLEAN
  /\ runs \in Nat
  /\ graph \in Graphs \cup {NoGraph}
  /\ rpc \in Outside \cup {"level", "gather", "cancelling"}
  /\ lvl \in Nat
  /\ status \in [Tasks -> Statuses]
  /\ retryCount \in [Tasks -> Nat]
  /\ phase \in [Tasks -> {"none", "ended", "error"} \cup Active]
  /\ interrupted \in SUBSET Tasks
  /\ aborting \in BOOLEAN
  /\ permits \in Nat
  /\ cancelEvent \in BOOLEAN
  /\ bloom \in Bitmaps
  /\ succeeded \in SUBSET Tasks

\* No permit is lost or invented, whichever way the children end: returns,
\* exceptions, interruptions, cancellation.  Runs that follow get the full
\* concurrency, and never more than max_concurrent_tasks attempts overlap.
SemaphoreConserved == permits + Cardinality(InPhase(Holding)) = MaxConcurrent

\* While a task is in its attempts, each of its dependencies has succeeded or
\* was skipped: the check made when the semaphore was acquired stays true.
RunsOnlyAfterDeps ==
  \A t \in InPhase(Holding) : \A d \in graph.deps[t] : status[d] \in Satisfied

\* run() is a barrier: while a task of some level is unfinished, no task of
\* another level is, and those of later levels are untouched.
LevelBarrier ==
  \A t \in InPhase(Active) : \A u \in Nodes :
    /\ graph.level[u] # graph.level[t] => phase[u] \notin Active
    /\ graph.level[u] > graph.level[t] => phase[u] = "none" /\ status[u] = "pending"

\* "BloomFilter prevents duplicate execution": a task that has succeeded in any
\* run of this engine is never started again.
SuccessIsNeverRepeated == InPhase(Active) \cap succeeded = {}

\* A task is skipped only with a reason: a direct dependency did not succeed, or the
\* filter takes the task for one that was executed, which takes tasks that have
\* succeeded, in this run or before, at each of its positions.  What failed, was
\* cancelled or was interrupted must not leave a trace in the filter, which outlives
\* the run.
SkipHasReason ==
  \A t \in Nodes : status[t] = "skipped" =>
    \/ \E d \in graph.deps[t] : status[d] \notin Satisfied
    \/ Hashes(t) \subseteq UNION {Hashes(u) : u \in succeeded}

\* A registered task is reported failed only after all its attempts.
FailsAfterAllAttempts ==
  \A t \in Nodes \cap Registered : status[t] = "failed" => retryCount[t] = MaxRetries[t]

\* Without continue_on_failure, a child that raised ends the run at its level.
ExceptionStopsRun ==
  \A t \in Nodes : phase[t] = "error" /\ ~ continueOnFailure =>
    \A u \in InPhase(Active) : graph.level[u] <= graph.level[t]

\* Without a cancellation, the states run() returns are final, but for the task
\* whose node could not be created: it stays pending.
CompleteUnlessCancelled ==
  rpc = "returned" /\ ~ cancelEvent =>
    \A t \in Nodes : status[t] \in Final \/ (t \in Faulty /\ status[t] = "pending")

\* (Proved only; the refinement implies it.)  Within a run a final status stays
\* what it is.
FinalIsFinal ==
  [][runs' = runs => \A t \in Tasks : status[t] \in Final => status'[t] = status[t]]_vars

\* Once the cancel event is set, no attempt starts in this run.
NoStartAfterCancel ==
  [][cancelEvent /\ runs' = runs =>
       \A t \in Tasks : phase'[t] = "executing" => phase[t] = "executing"]_vars

\* Once the task awaiting run() is cancelled, no task starts that had not been
\* started before.
AbortStartsNoTask ==
  [][aborting /\ runs' = runs =>
       \A t \in Tasks : phase'[t] = "executing" => phase[t] \in Holding]_vars

\* run() comes to an end, cancelled or not.
RunEnds == rpc \notin Outside ~> rpc \in Outside

\* The engine, with its levels, semaphore, retries, filter and cancellation, does
\* what DagExecution promises: what waits, holds the semaphore or is between two
\* attempts is hidden, but for the tasks inside the semaphore being active.
Dag == INSTANCE DagExecution WITH active <- InPhase(Holding), done <- succeeded
ImplementsDag == Dag!Spec

=============================================================================

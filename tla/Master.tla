-------------------------------- MODULE Master --------------------------------
(***************************************************************************)
(* application/distributed.py: class Master, method submit_graph.  The     *)
(* master enqueues a level of the graph, task by task, and collects        *)
(* results until it has all of the level or level_timeout has passed; then *)
(* it goes on with the next level, or gives up after a failure.  An        *)
(* exception of the connection ends submit_graph.                          *)
(*                                                                         *)
(* Several masters may share the queues, as they do by default.            *)
(***************************************************************************)
EXTENDS Queues, BloomFilter

CONSTANTS
  Masters,
  Graphs,             \* master -> the graphs it may be given: [deps, level, acyclic]
  ContinueOnFailure,  \* master -> continue_on_failure
  TimesOut,           \* the dispatches during which level_timeout may pass
  MaxContext,         \* how many results a payload has room for
  MaxDispatches       \* bounds the calls of submit_graph

NodesOf(g) == DOMAIN g.deps

\* The graph and its levels, as TopologicalSorter returns them (LevelsAreTight).
IsGraph(g) ==
  /\ NodesOf(g) \subseteq Tasks
  /\ g.deps \in [NodesOf(g) -> SUBSET NodesOf(g)]
  /\ g.level \in [NodesOf(g) -> Nat]
  /\ g.acyclic \in BOOLEAN
  /\ g.acyclic => \A t \in NodesOf(g) :
       /\ \A d \in g.deps[t] : g.level[d] < g.level[t]
       /\ g.level[t] > 0 => \E d \in g.deps[t] : g.level[d] = g.level[t] - 1

ASSUME MasterAssumption ==
  /\ Tasks \subseteq Items
  /\ IsFiniteSet(Masters)
  /\ \A m \in Masters : \A g \in Graphs[m] : IsGraph(g)
  /\ ContinueOnFailure \in [Masters -> BOOLEAN]
  /\ TimesOut \subseteq Nat
  /\ MaxContext \in Nat
  /\ MaxDispatches \in Nat

VARIABLES
  dispatches, \* the dispatches so far, of all masters
  linked,     \* the connection of _queue is open at both ends
  mpc,        \* where submit_graph is
  graph,      \* its argument
  dispatch,   \* dispatch_id
  lvl,        \* level_idx
  todo,       \* the tasks of the level the dispatch loop has not reached
  expected,   \* expected, while the level is dispatched level_payloads
  collected,  \* the tasks in collected
  results,    \* results: task -> status, for the tasks it has
  context,    \* the keys of _context
  seen,       \* bloom
  late        \* history: the tasks awaited in vain when the time of their level was up

progress   == <<graph, dispatch, dispatches>>
submission == <<progress, lvl, todo, expected, collected, results, context, seen, late>>
masterVars == <<submission, mpc, linked>>
session    == <<linked, faults>>

NoGraph == [deps |-> << >>, level |-> << >>, acyclic |-> TRUE]

Outside == {"idle", "returned", "raised"}

MasterInit ==
  /\ dispatches = 0
  /\ linked = [m \in Masters |-> TRUE]
  /\ mpc = [m \in Masters |-> "idle"]
  /\ graph = [m \in Masters |-> NoGraph]
  /\ dispatch = [m \in Masters |-> 0]
  /\ lvl = [m \in Masters |-> 0]
  /\ todo = [m \in Masters |-> {}]
  /\ expected = [m \in Masters |-> {}]
  /\ collected = [m \in Masters |-> {}]
  /\ results = [m \in Masters |-> << >>]
  /\ context = [m \in Masters |-> {}]
  /\ seen = [m \in Masters |-> EmptyBitmap]
  /\ late = [m \in Masters |-> {}]

Nodes(m) == NodesOf(graph[m])

LevelNodes(g, l) == {t \in NodesOf(g) : g.level[t] = l}

\* Mutant: the statuses r has are lost.
WithStatusOverwritten(r, S, s) == [t \in DOMAIN r \cup S |-> s]

\* r with status s for every task of S.
WithStatus(r, S, s) ==
  [t \in DOMAIN r \cup S |-> IF t \in S THEN s ELSE r[t]]

-----------------------------------------------------------------------------

\* A new dispatch id and an empty context.  A cyclic graph raises ValueError,
\* and so does an empty one: BloomFilter(expected_items=0).
Submit(m, g) ==
  /\ mpc[m] \in Outside
  /\ dispatches < MaxDispatches
  /\ dispatches' = dispatches + 1
  /\ dispatch' = [dispatch EXCEPT ![m] = dispatches + 1]
  /\ graph' = [graph EXCEPT ![m] = g]
  /\ mpc' = [mpc EXCEPT ![m] =
       IF g.acyclic /\ NodesOf(g) # {} THEN "dispatching" ELSE "raised"]
  /\ lvl' = [lvl EXCEPT ![m] = 0]
  /\ todo' = [todo EXCEPT ![m] = LevelNodes(g, 0)]
  /\ expected' = [expected EXCEPT ![m] = {}]
  /\ collected' = [collected EXCEPT ![m] = {}]
  /\ results' = [results EXCEPT ![m] = << >>]
  /\ context' = [context EXCEPT ![m] = {}]
  /\ seen' = [seen EXCEPT ![m] = EmptyBitmap]
  /\ late' = [late EXCEPT ![m] = {}]
  /\ UNCHANGED <<queueVars, session>>

\* Mutant: the results of the levels before are not passed on.
PayloadWithoutContext(m, t) == [task |-> t, context |-> {}, dispatch |-> dispatch[m]]

\* The payload of t, with the context as it is now.
Payload(m, t) == [task |-> t, context |-> context[m], dispatch |-> dispatch[m]]

\* A task of the level that has to be enqueued.
Due(m, t) == mpc[m] = "dispatching" /\ t \in todo[m] /\ ~ MayContain(seen[m], t)

\* A longer request makes the broker close the connection.
Fits(m) == Cardinality(context[m]) <= MaxContext

Enqueue(m, t) ==
  /\ Due(m, t)
  /\ linked[m] /\ Fits(m)
  /\ taskQueue' = Append(taskQueue, Payload(m, t))
  /\ seen' = [seen EXCEPT ![m] = Added(@, t)]
  /\ todo' = [todo EXCEPT ![m] = @ \ {t}]
  /\ expected' = [expected EXCEPT ![m] = @ \cup {t}]
  /\ UNCHANGED <<brokerUp, resultQueue, abandoned, session, progress, mpc, lvl,
                 collected, results, context, late>>

\* The filter reports a task that was never dispatched: it is SKIPPED.
Skip(m, t) ==
  /\ mpc[m] = "dispatching" /\ t \in todo[m]
  /\ MayContain(seen[m], t)
  /\ results' = [results EXCEPT ![m] = WithStatus(@, {t}, "skipped")]
  /\ todo' = [todo EXCEPT ![m] = @ \ {t}]
  /\ UNCHANGED <<queueVars, session, progress, mpc, lvl, expected, collected, context,
                 seen, late>>

\* The level is dispatched; the clock of level_timeout starts.
Await(m) ==
  /\ mpc[m] = "dispatching" /\ todo[m] = {} /\ expected[m] # {}
  /\ mpc' = [mpc EXCEPT ![m] = "collecting"]
  /\ UNCHANGED <<queueVars, session, progress, lvl, todo, expected, collected, results,
                 context, seen, late>>

\* Mutant: the loop ends one level early.
NextLevelOffByOne(m) ==
  LET next == LevelNodes(graph[m], lvl[m] + 1) IN
  /\ mpc' = [mpc EXCEPT ![m] =
       IF LevelNodes(graph[m], lvl[m] + 2) = {} THEN "returned" ELSE "dispatching"]
  /\ lvl' = [lvl EXCEPT ![m] = @ + 1]
  /\ todo' = [todo EXCEPT ![m] = next]
  /\ expected' = [expected EXCEPT ![m] = {}]
  /\ collected' = [collected EXCEPT ![m] = {}]

\* On to the next level, or out of the loop with what there is.
NextLevel(m) ==
  LET next == LevelNodes(graph[m], lvl[m] + 1) IN
  /\ mpc' = [mpc EXCEPT ![m] = IF next = {} THEN "returned" ELSE "dispatching"]
  /\ lvl' = [lvl EXCEPT ![m] = @ + 1]
  /\ todo' = [todo EXCEPT ![m] = next]
  /\ expected' = [expected EXCEPT ![m] = {}]
  /\ collected' = [collected EXCEPT ![m] = {}]

\* Every task of the level was skipped: nothing to wait for.
NothingToAwait(m) ==
  /\ mpc[m] = "dispatching" /\ todo[m] = {} /\ expected[m] = {}
  /\ NextLevel(m)
  /\ UNCHANGED <<queueVars, session, progress, results, context, seen, late>>

\* Mutants: the dispatch of a result is not looked at; failures are passed over.
AcceptsAnyDispatch(m, r) == ReadBack(r) \in expected[m]
AcceptsSuccesses(m, r) ==
  r.dispatch = dispatch[m] /\ ReadBack(r) \in expected[m] /\ r.status = "success"

Accepts(m, r) == r.dispatch = dispatch[m] /\ ReadBack(r) \in expected[m]

Collecting(m) == mpc[m] = "collecting" /\ collected[m] # expected[m]

\* A result of this dispatch and level.
Collect(m) ==
  LET r == Head(resultQueue)
      t == ReadBack(r) IN
  /\ Collecting(m) /\ linked[m]
  /\ resultQueue # << >>
  /\ Accepts(m, r)
  /\ resultQueue' = Tail(resultQueue)
  /\ collected' = [collected EXCEPT ![m] = @ \cup {t}]
  /\ results' = [results EXCEPT ![m] = WithStatus(@, {t}, r.status)]
  /\ context' = [context EXCEPT ![m] =
                   IF r.status = "success" /\ r.value THEN @ \cup {r.name} ELSE @]
  /\ UNCHANGED <<brokerUp, taskQueue, abandoned, session, progress, mpc, lvl, todo,
                 expected, seen, late>>

\* Any other result is dropped, whoever waits for it.
Discard(m) ==
  /\ Collecting(m) /\ linked[m]
  /\ resultQueue # << >>
  /\ ~ Accepts(m, Head(resultQueue))
  /\ resultQueue' = Tail(resultQueue)
  /\ UNCHANGED <<brokerUp, taskQueue, abandoned, faults, masterVars>>

\* Mutant: the clock starts with the first result.
TimeIsUpAfterFirst(m) ==
  Collecting(m) /\ collected[m] # {} /\ dispatch[m] \in TimesOut

\* The collection loop ends: everything is there, or time is up.
Collected(m) == mpc[m] = "collecting" /\ collected[m] = expected[m]
TimeIsUp(m)  == Collecting(m) /\ dispatch[m] \in TimesOut

\* What has not arrived when the collection loop ends.
Missing(m) == expected[m] \ collected[m]

Failed(m) == {t \in collected[m] : results[m][t] = "failed"}

\* Mutant: a single failure is let pass.
GivesUpLater(m) == Cardinality(Failed(m)) > 1 /\ ~ ContinueOnFailure[m]

GivesUp(m) == Failed(m) # {} /\ ~ ContinueOnFailure[m]

LevelDone(m) ==
  /\ Collected(m) \/ TimeIsUp(m)
  /\ ~ GivesUp(m)
  /\ NextLevel(m)
  /\ late' = [late EXCEPT ![m] = @ \cup Missing(m)]
  /\ UNCHANGED <<queueVars, session, progress, results, context, seen>>

\* A failure: everything that has no result is CANCELLED.
GiveUp(m) ==
  /\ Collected(m) \/ TimeIsUp(m)
  /\ GivesUp(m)
  /\ results' = [results EXCEPT ![m] = WithStatus(@, Nodes(m) \ DOMAIN @, "cancelled")]
  /\ mpc' = [mpc EXCEPT ![m] = "returned"]
  /\ late' = [late EXCEPT ![m] = @ \cup Missing(m)]
  /\ UNCHANGED <<queueVars, session, progress, lvl, todo, expected, collected, context, seen>>

\* enqueue or dequeue raises, out of submit_graph: the connection is lost, or a
\* payload too long makes the broker close it.
Raise(m) ==
  /\ \/ \E t \in Tasks : Due(m, t) /\ ~ (linked[m] /\ Fits(m))
     \/ Collecting(m) /\ ~ linked[m]
  /\ mpc' = [mpc EXCEPT ![m] = "raised"]
  /\ linked' = [linked EXCEPT ![m] = FALSE]
  /\ UNCHANGED <<queueVars, faults, submission>>

-----------------------------------------------------------------------------
(* connect() and shutdown(), and the end of the process *)

\* connect() makes a new _queue, and raises when there is no broker.
Connect(m) ==
  /\ mpc[m] \in Outside /\ ~ linked[m] /\ brokerUp
  /\ linked' = [linked EXCEPT ![m] = TRUE]
  /\ UNCHANGED <<queueVars, faults, mpc, submission>>

Shutdown(m) ==
  /\ mpc[m] \in Outside /\ linked[m]
  /\ Fault
  /\ linked' = [linked EXCEPT ![m] = FALSE]
  /\ UNCHANGED <<queueVars, mpc, submission>>

\* The process dies during submit_graph; another one may take its place.
MasterCrash(m) ==
  /\ mpc[m] \notin Outside
  /\ Fault
  /\ mpc' = [mpc EXCEPT ![m] = "raised"]
  /\ linked' = [linked EXCEPT ![m] = FALSE]
  /\ abandoned' = IF Collecting(m) /\ linked[m]
                  THEN [abandoned EXCEPT !.results = @ + 1] ELSE abandoned
  /\ UNCHANGED <<brokerUp, taskQueue, resultQueue, submission>>

-----------------------------------------------------------------------------

\* What is done to the master.
MasterCall(m) ==
  \/ \E g \in Graphs[m] : Submit(m, g)
  \/ Connect(m) \/ Shutdown(m) \/ MasterCrash(m)

\* What it does by itself.
MasterStep(m) ==
  \/ \E t \in Tasks : Enqueue(m, t) \/ Skip(m, t)
  \/ Await(m) \/ NothingToAwait(m) \/ Collect(m) \/ Discard(m)
  \/ LevelDone(m) \/ GiveUp(m) \/ Raise(m)

Statuses == {"success", "failed", "skipped", "cancelled"}

Results == UNION {[S -> Statuses] : S \in SUBSET Tasks}

MasterTypeOK ==
  /\ dispatches \in Nat
  /\ linked \in [Masters -> BOOLEAN]
  /\ mpc \in [Masters -> Outside \cup {"dispatching", "collecting"}]
  /\ dispatch \in [Masters -> Nat]
  /\ lvl \in [Masters -> Nat]
  /\ todo \in [Masters -> SUBSET Tasks]
  /\ expected \in [Masters -> SUBSET Tasks]
  /\ collected \in [Masters -> SUBSET Tasks]
  /\ DOMAIN graph = Masters
  /\ \A m \in Masters : graph[m] \in Graphs[m] \cup {NoGraph}
  /\ results \in [Masters -> Results]
  /\ context \in [Masters -> SUBSET Names]
  /\ seen \in [Masters -> Bitmaps]
  /\ late \in [Masters -> SUBSET Tasks]
=============================================================================

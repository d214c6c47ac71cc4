# TLA+ models of the async task engine

This directory holds TLA+ specifications of `src/async_task_engine`, the TLC
configurations that check them, and proofs checked by TLAPS. Paths below are
relative to `src/async_task_engine`.

## 1. The system

| Part | State | Operations | What is hard about it |
|---|---|---|---|
| `TaskGraph` (`domain/entities.py`), `TopologicalSorter` (`application/algorithms.py`) | nodes, dependencies; in-degrees, queue, result, levels | `add_node`, `add_dependency`, `sort`, `get_execution_levels` | counts that decide when a task is released; a dict that grows while it is iterated over |
| `BloomFilter` (`application/algorithms.py`) | bitmap, count | `add`, `in` | bytes and bits, false positives |
| `AsyncTaskEngine` (`application/engine.py`) | states, semaphore, cancel event, filter | `run`, `_execute_node`, `cancel` | children interleave; retries; a semaphore and a filter that outlive a run; two kinds of cancellation |
| `Master`, `Worker` (`application/distributed.py`) | dispatch, level, collected results, context; the message in hand | `submit_graph`; `start`, `stop`, `execute_task` | competing workers, crashes, level timeouts, late results, several masters |
| `TCPBrokerServer`, `TCPMessageQueue` (`infrastructure/message_queue.py`) | named FIFO queues, key-value store; a connection and a lock | ENQUEUE, DEQUEUE, SIZE, CLEAR, SET, GET, PING, CLOSE, `start`, `stop` | blocking dequeues whose client goes away; requests cancelled half-way; requests that are too long |
| `NodeRegistry`, `NodeMeta` (`application/metaclass.py`) | classes, instances | class creation, `get_node`, calling a class | a class that is refused ends the import of all the others |
| `InMemoryStorage` (`infrastructure/storage.py`) | entries with a time | save, load, expiry | nothing in the program uses it |
| `main.py`, `cli/` | the launcher with a broker of its own, the processes it spawns, the port | spawn, connect, submit, terminate; signals, Ctrl-C | processes that fail to start, lose the broker or ignore signals; exceptions before the workers are terminated |
| `benchmark.py` | - | measures the engine | - |
| `interface/`, `infrastructure/logger.py` | - | typing protocols, log format | - |

How they interact. A client builds a `TaskGraph`. The local engine and the
master both ask `TopologicalSorter` for its levels and run one level after the
other. The engine runs the tasks of a level as asyncio children under a
semaphore; the master puts them into the broker's queue `tasks`, workers take
them out, execute them and put results into the queue `results`, from which the
master collects. The engine keeps one Bloom filter for its lifetime, the master
one for each dispatch. Node classes come from the registry of the process, which
the imports of a worker fill before it connects. The demo is one launcher, which runs the
broker and the master, and a process for each worker: when the launcher goes, its
broker, the queues and all connections go with it.

## 2. Modules

```
BloomFilter ──► BloomFilterSpec ──► BloomFilterProofs (with BloomFilterLemmas)
     │
     ├──► AsyncTaskEngine ──► AsyncTaskEngineProofs
     │       │    └─────────► MCAsyncTaskEngine ──► AsyncTaskEngineClaims
     │       └ implements DagExecution
     └──► Master ─┐         ┌─► DistributedProofs
Queues ──► Worker ┴► Distributed ──► MCDistributed ──► DistributedClaims
QueueService ◄── BrokerService ──► MCBroker      (refinement)
Broker ──► BrokerProofs │ └─► BrokerServiceProofs
  └─────────────────────┘
NodeRegistry ──► Processes ──► MCProcesses
                     └─► ProcessesProofs
TopologicalSorter ──► TopologicalSorterProofs
```

Definitions keep the names of the code where TLA+ lets them. Every module
starts with what it models; the variables name the attribute they stand for.
Definitions whose comment says "Mutant" are seeded faults. No specification
uses them; each one, put in place of the definition that follows it, makes TLC
refute one property, which shows that the property depends on that code.

### TopologicalSorter

`AddNode` and `AddDependency` build the graph; `StartSort`, `ScanEntry`,
`StartKahn`, `Pop`, `FinishKahn`, `AssignLevel` and `FinishLevels` are the
iterations of the loops of `sort` and `get_execution_levels`. A task is its rank
in the order of `str(task)`, the only thing the sorting looks at. The order in
which the code iterates over dicts and sets is left open, so the results hold for
every order. `scanned` is the position in the loop over the dependencies.

`Init` is a graph built by the methods. `InitDirect` is one given through the
fields of the dataclass, for which the scan has a branch of its own.

### BloomFilter, BloomFilterSpec

Operators on a bitmap: bytes with their set bits, the positions of an item by
double hashing, `Added` for `add`, `MayContain` for `in`. The digests are
constants. `BloomFilterSpec` is the life of one filter. The number of bits and
of hash functions are constants, where the code computes them from the expected
number of items with logarithms.

### AsyncTaskEngine

`rpc` is where `run` is, `phase[t]` where the child of task `t` is:

| `phase` | in `_execute_node` |
|---|---|
| `waiting` | not begun, or waiting at `async with self._semaphore` |
| `executing` | in `await asyncio.wait_for(instance.execute(...))` |
| `backoff` | in `await asyncio.sleep(backoff)` |
| `ended`, `error` | returned, raised |

Everything between two awaits is one action, as in asyncio. `run` holds the
event loop while `rpc = "level"`, so nothing else happens between `GatherDone`
and the next `gather`. Two kinds of cancellation are modelled. `Cancel` is the
method `cancel()`, which sets the event. `AbortRun` is `Task.cancel()` on the
task that awaits `run`: `gather` passes it on (`interrupted`), and each child meets
it where it is. A child in `execute` takes it for a failed attempt, because of
`except BaseException`; a child in the semaphore or in the backoff raises.
`succeeded` is a history variable. `continueOnFailure` is the
field of the configuration, chosen once for each behaviour. Timeouts are `ExecFailRetry` and
`ExecFailFinal`: `asyncio.TimeoutError` is handled like any other exception.

Left out: the context (a copy per attempt, in which nothing is stored), times and durations,
the check at line 162, which no step can reach with the event set (there is no
await since the one at line 151), and graphs with undeclared dependencies.

### DagExecution

What is left of a run when levels, children, semaphore, retries, filter and
cancellation are taken away: `Run` a graph, `Begin` a task whose dependencies are done
when there is room, let it `Succeed` or `Fail`, `Settle` tasks that are not executed. In the
mapping (`ImplementsDag`) a task is `active` while its child holds a permit,
retries and backoffs included, and `done` when it has succeeded in any run.
A run may return while no task is active only, so the next `Run` cannot meet a
child of the last one.

### Queues, Worker, Master, Distributed

`Queues` is the broker as its clients see it: two sequences. An enqueue is
atomic, and so is a dequeue that returns a message; one that times out changes
nothing. What a client that disappears during a dequeue leaves behind, a coroutine in
the broker that still waits for a message, is `abandoned`. The broker's process may end
(`QueuesEnd`), with the queues, and another may start at the same address. The messages are
those of `to_dict`: that of a result has no version, which is why `ReadBack` makes
up `"1.0.0"`.

`Worker` is the loop of `start` with `execute_task`; `held` is the message in
hand. A node class that raises when it is instantiated makes `start` log the exception and
`Forget` the message. `Report` sends the result, unless the connection is closed; a result
that is longer than the broker's limit (`Oversized`) closes it. Without a connection
`Spin` is all that is left: `dequeue` raises before its first await that suspends,
`start` logs that and calls it again, and the event loop of the process never runs
anything else, `stop()` included. `Stop` clears `_running`; `Disconnect` is the rest of
`stop()`, which waits for the lock of a dequeue but not for the task in execution.
`Crash` is the end of the process or the cancellation of the task of `start`. `Start` is a
new process.

`Master` is `submit_graph`: `Enqueue` and `Skip` are iterations of the dispatch
loop, in any order (the code goes by name); `Collect` and `Discard` are iterations
of the collection loop, `LevelDone` and `GiveUp` what follows it. `Raise` is the
`ConnectionError` of any of its calls to the queue, among them a payload whose context is
longer than the broker's limit (`MaxContext` keys). `Connect`, `Shutdown` and
`MasterCrash` are the rest of its life. `late` is a history variable: the tasks of the dispatch that were
awaited, and had no result, when the time of their level was up. The code does not
know them again afterwards; the properties need them to say who may miss what. `DistributedEngine` passes its calls on to
the master (`MasterCall`). `dispatch` is the dispatch id, a number no other dispatch has.
A context is the set of its keys.

`Distributed` composes them. Masters and workers share nothing but the queues; `BrokerEnds` takes the connections of all of them.

### Broker, QueueService, BrokerService

`Broker` has what `Queues` leaves out: connections, requests, answers and the
server's coroutine for each connection. `Send`, `Receive`, `CallFails`, `CancelCall` and
`Drop` are the client's end, one call at a time under `_lock`; `Handle...`, `Deliver`,
`GetTimeout` and `HandlerEnds` are `_handle_client`. Everything between two awaits is
one action: only a DEQUEUE waits. Answers are not numbered, so a cancelled call
leaves its answer to the next one (`skewed`); the field `to` is history. SIZE and
PING are one request, `Query`. Which of several waiting coroutines a
message goes to is left open: asyncio's queue wakes them in order, but a newcomer may
overtake. `stored` is the key-value store, for one key, with the history variables `assigned` (the
values in the order of SET) and `since` (how many there were when a GET was sent). `Stop` closes the
listening socket and leaves the open connections to their coroutines; `Halt` is the end of the
process.

`QueueService` is the abstract queue: handed out in order, lost only with the
client or to one that left while it waited. `BrokerService` maps the broker to it, for the
queue `Name`: a message is on its way when it is in an answer not yet read, and the answers
are read in order; a ghost is a DEQUEUE whose client is gone. These are the assumptions `Queues` makes: `Take` in `Worker`
is the moment of `Deliver`, a crash while `polling` leaves a ghost (`abandoned`), and a crash
while the answer is on its way is a crash with the message in hand.

### NodeRegistry, Processes

`NodeRegistry` is what a process learns by importing its node modules: `Register` is one class
statement, validated by `NodeMeta` and entered under its identifier; one that is
invalid, or whose identifier is taken, raises out of the import (`ImportFails`).

`Processes` is `run_demo` (`lpc`) with `run_worker` and `run_broker` in processes of
their own (`pc`), and `port`, which only one broker can hold. The worker's states are
those that tell apart how it can end: `importing` (no handler installed, a signal kills
it), `starting`, `serving`, `stuck` (its `start()` has raised in a task that is awaited only
after a signal), and `spinning` (see `Spin` above). The four last ones are `Deaf`:
`_handle_signal(sig, frame)` is called without arguments, raises `TypeError`, and the event it should
set stays clear, so the lines behind `await stop_event.wait()` (49-57 of
`cli/worker.py`) are never reached. `Terminate`, `Reap` and `Kill` are `terminate()`,
`communicate(timeout=3)` and `kill()`, one worker at a time. `Interrupt` is Ctrl-C as `asyncio.run`
handles it from Python 3.11 on: the first one cancels the task, the second one raises
`KeyboardInterrupt`. The loop that terminates the workers awaits nothing, so a
cancellation is noticed behind it. `Raise` is each way in which `run_demo` ends by an exception, and the broker with
it.

## 3. What is checked

| Run | Instance | Shows |
|---|---|---|
| `sorter_api` | 3 tasks, every graph | an order or a report of a cycle for every graph, tight levels, termination |
| `sorter_direct` | 2 tasks, every pair of fields | **violated**: see 5 |
| `bloom_filter` | 10 bits, 2 hash functions, 12 pairs of digests, 4 additions | no false negatives; positives are covered |
| `engine` | 5 tasks in 4 graphs (a diamond, a pair, a cycle, one with a class that cannot be instantiated and an unknown task), 3 runs, 2 permits, two retries at most, `continue_on_failure` on or off | the engine's safety and action properties, among them that what a run returns is final, but for a task whose class cannot be instantiated; termination; that it implements `DagExecution` |
| `engine_final_states`, `engine_errors` | 1 run | **violated**: see 5 |
| `dispatch` | 1 master, 2 workers, 2 dispatches, no faults, timeouts at any moment of the first dispatch | no task exists twice or is lost, contexts are complete; only late tasks lack a status, are missed by their dependents, or are cancelled and may be executed; the second dispatch ends without its timeout |
| `dispatch_faults` | 2 masters (one continues on failure, the other has a single task), 1 worker, 2 dispatches, timeouts, results and contexts that are too long, a class that cannot be instantiated, 1 fault: a crash, `stop()`, `shutdown()` or the end of the broker | results in the wrong hands and late results: each is credited to its dispatch and to its name; every dispatch returns or raises; a stopped worker ends |
| `dispatch_versions` | 1 master, 1 worker, two versions of a task | **violated**: see 5 |
| `broker` | 2 connections that both take from a queue, 2 queues, every command, 1 payload too long, cancelled calls, dropped connections, `stop()`, the end of the process, 3 requests | a message has one place; answers reach their callers; every call returns; the queue `tasks` implements `QueueService` |
| `processes` | 2 workers, 3 programs (good, with a duplicate, with an invalid class), another broker, signals, Ctrl-C | a demo that ends normally leaves no worker behind; the launcher ends in any case; a worker that polls knows its nodes |
| `signals` | 1 worker | **violated**: see 5 |

The properties are stated, with what they mean for the code, at the end of each
module.

Bounds. `MaxRuns`, `MaxDispatches` and `MaxFaults` bound how often something
happens; two runs, and two dispatches, are what it takes for one to meet what
the other left in the filter, the semaphore or the queues, and a third run meets
what two different graphs left. `MaxFaults` counts crashes, `stop()`, `shutdown()` and ends of the
broker; one of them, at any point, together with timeouts and oversized messages
already loses every kind of message. In `dispatch` the second dispatch is what meets the payloads
and results that a level of the first one left behind, and two workers let one of them
execute a late task while the other takes a payload of the next level. `MaxAdds` bounds the
additions to a filter, `MaxCalls` the requests to the broker: three let two
messages enter and one be taken, two values be stored and one be read, or a call follow one
that was cancelled before a message arrived. Three tasks are enough for a cycle that is not a loop of
two, for a tie and for levels that skip one. The diamond of four has a task with two
dependencies and one two levels away from a failure. The engine's filter has a task
whose positions are covered by those of two others, so that false positives occur; in
`dispatch` no two tasks share a position, in `dispatch_faults` two versions do. Two
workers in `processes` are enough for one to be terminated while the other is in any of
its states.

Deadlock is not checked: sorts, runs, dispatches and demos come to an end, and nobody has
to start another.

Fairness. `TopologicalSorter`: one synchronous call that goes on to its end.
`AsyncTaskEngine`: the event loop resumes whatever is ready, and an attempt ends
because `wait_for` bounds it (for nodes that do not suppress cancellation or block
the loop). `Distributed`: a worker's attempt is bounded by 30 s, a dequeue by its
timeout, a level by `level_timeout`. `Broker`: the event loops at both ends go on, and
a get ends by its timeout. `TimesOut` has the dispatches during which a deadline may be reached. In
`dispatch` that is the first one alone, so that the second one shows that the results arrive without the
timeout, whatever the first one has left in the queues; that every dispatch ends when all may time out
is checked by `dispatch_faults`. `Processes`:
processes run, `submit_graph` ends (which is what `SubmitReturns` shows) and so does
`communicate`, by its timeout. No run assumes
that anybody submits, cancels, stops, restarts or sends a signal.

## 4. What is proved

`BloomFilterProofs`: `NoFalseNegatives` and `TypeCorrect`, for every size, number of
hash functions and pair of digests. The argument, in `BloomFilterLemmas`, is that
every position has a byte in the bitmap (`PositionHasByte`), that `add` sets the
item's bits (`AddedContains`) and clears none (`AddedKeeps`). `PositivesAreCovered` is the
converse: what is reported has all its positions among those of added items, because
every set bit comes from a position of an added item and no two positions share a bit.

`AsyncTaskEngineProofs`: every safety and action property that the run `engine` checks, for every set of tasks and graphs, every filter, concurrency limit and retry
limit, any number of runs, cancellations and aborts, with `continue_on_failure` on and off. The assumptions are
`BloomAssumption` and `EngineAssumption`: there are finitely many tasks, and
in a graph that is accepted a dependency has a lower level than its dependents. The
latter is what `LevelsAreRight` proves of the sorter.

None of the properties is inductive alone. That dependencies stay satisfied, for
example, needs to know that no child of theirs is left, that is, which
children exist at all. The proofs go in layers, each using the ones before:

1. `TypeCorrect`.
2. `StructureHolds`: `GraphAccepted`, `ChildrenInLevel` (unfinished children belong to
   the level that `gather` waits for, and where a child is tells the status of
   its task), `LaterLevelsUntouched`, and `AbortReachesAll` (after an abort every
   waiting child is marked). `ChildEffect` and `RunEffect` sum up what a step of a
   child, and any other step within a run, may change.
3. From these, one at a time: `LevelsAreBarriers`; `DependenciesFirst`
   (dependencies are on lower levels, so their children are done and their status
   fixed); `SuccessIsFinal` (with `SucceededInFilter`, and the two lemmas on `add`);
   `PermitsConserved` (the cardinality of the holders follows the permits);
   `FailureIsExhausted` (with `RetriesBounded`); `SkipsAreJustified` (with
   `FilterHasCauses`: every set bit is one of a task that has succeeded);
   `ExceptionEndsRun` (with `ErrorsStop`); `ReturnsComplete` (with
   `NothingLeftOut`); and the action properties `FinalStatusStays`,
   `CancelStopsAttempts` and `AbortStopsTasks`.

The invariants named here and not in a property are defined before the properties of
`AsyncTaskEngine`, `FilterHasCauses` where it is proved.

`TypeCorrect` and `FinalStatusStays` state properties that no run checks; the others are checked by
`engine` too.

The same module has `EngineImplementsDag`, under the same assumptions. The initial
states map to initial states, and every action of the engine maps to a step of `DagExecution`
or leaves its variables unchanged. The steps need the invariants above: that a
child that begins has not succeeded before (`SuccessIsNeverRepeated`), that there is room for it
(`SemaphoreConserved`), that no child is left when `run` goes on to the next level
or returns, and that what `run` marks is pending (`Structure`). That its
dependencies are settled is what the child itself has just read.

`TopologicalSorterProofs`: `TypeCorrect`, `OrderIsRight`, `CyclesAreReported` and
`LevelsAreRight`, for every finite set of tasks and every graph `add_node` and
`add_dependency` can build. The invariant is `CountsAreRight` (in Kahn's loop `in_degree`
counts the dependencies that are not placed), with `ReadyIsRight` (the queue has exactly the
tasks that could be placed), `PlacedIsCounted` (the length of the result is the number of
tasks placed, which is what `sort` compares) and `LevelsSoFar`. Two lemmas have the mathematics:
a graph whose tasks can be ordered has no cycle (its earliest member in the order would
have an earlier one, `OrderedIsAcyclic`), and where nothing is ready some tasks that are left form a cycle (`StuckIsCyclic`).
The graphs of `InitDirect` are not covered: for them the result is false (see 5).

`DistributedProofs`: every invariant that `dispatch` and `dispatch_faults` check, for every
number of masters, workers, dispatches and faults: `TypeCorrect`, `CreditsWhatRan`,
`ContextsAreComplete`, `DependenciesFirst`, `CancelledNeverRan`, `EveryTaskReturned`, `OneCopy`,
`NothingLost`. The assumptions are those of `Queues`, `Worker` and `Master`: a task is its name
and version; there are finitely many masters; the levels of a graph that is accepted are tight,
again what `LevelsAreRight` proves. One inductive invariant serves all:

- `DispatchIds`: ids are given out once, so that a message of another dispatch is recognised.
- `MasterShape`: what the loops of `submit_graph` know. A task of the level is in `todo`, skipped, or
  `expected`; the tasks of levels below are settled or `late`; levels above are untouched.
- `SentOnly`: a payload or an execution is of a task that its dispatch has sent. A task that
  gets the status CANCELLED was never sent or is late; that is all `CancelledNeverRan` says, for of the
  late ones some are executed after all.
- `Origins`: a waiting result, and one a worker is about to send, has an execution it comes from.
  `CreditsWhatRan` is not inductive without it. It gives the dispatch and the name of what was executed; the
  version is lost on the way (see 5).
- `PayloadsDiffer`, `AnswersDiffer`: two payloads, two results, or a payload and a result, are never for
  the same task of a dispatch. From these `OneCopy`, by counting.
- `Undisturbed`, `AwaitedIsSomewhere`: without faults nobody loses its connection, and what is awaited is
  in a queue, in hand, or reported. From these `NothingLost`.

What these theorems do not say, because it is not so: that the result credited to a task is one of the same
version (`CreditsWhatRan`); that a task in two versions has one copy or its result in the context (`OneCopy`,
`ContextsAreComplete`); that what is awaited exists if it has another version than 1.0.0, cannot be instantiated or has a
result that is too long (`NothingLost`); that late tasks are returned (`EveryTaskReturned`), waited for by their dependents
(`DependenciesFirst`) or not executed when they are CANCELLED (`CancelledNeverRan`).

`BrokerProofs`: the broker's invariants, for every number of connections and queues, every choice of
requests, and any number of calls: `TypeCorrect`, `EachMessageOnce`, `OwnAnswers`, `CurrentReads`. The
assumptions are those of the configuration (`BrokerAssumption`: which queue a payload goes to, what
clients may ask for, and that a message is not taken for a value of the store). The
inductive invariant has four parts:

- `ConnShape`: how the two ends of a connection fit. A call waits on an open connection only; the
  handler waits in a get only for a DEQUEUE; the answers of a client that left are gone.
- `Lockstep`: without a cancelled call, request and answers together are at most one, and they are
  those of the call that waits. This is `OwnAnswers`, and it is why `dequeue` gets the message it asked for.
- `StoredIsLast`, with `ReadsAreCurrent` itself, which no run checks: SET and GET never wait, so the
  store is as good as atomic.
- `Positions`, `Apart`, `Conserved`: a message is at one position at most of the queues, of the answers,
  and of what clients received; in one of these or cleared; and in one at least if no fault has happened.
  `PendingAreNew` keeps a message from entering twice, `MessagesAnswerDequeues` keeps one from reaching a
  call that has no use for it. A step is one of six movements (`Movement`), for which `Apart` and
  `Conserved` follow by set algebra.

`BrokerServiceProofs`: `BrokerImplementsQueue`, for every queue. Every step of the broker maps to a step
of `QueueService` or leaves its variables unchanged. What is on the way to a client is defined
by the ascending enumeration of the answers that carry a message of the queue; that there is exactly one is proved
by well-founded minimality (`SomeOrder`, `OneOrder`), and that writing and reading an answer append to it and
take from its front by constructing the new one (`CarriedGrows`, `CarriedRead`). The steps need `ConnShape` (only
a client that is gone leaves a ghost) and `InOwnQueue` (a queue has only the payloads meant for it), and
hold for connections with cancelled calls too.

`ProcessesProofs`: `TypeCorrect`, `DemoLeavesNoWorker` and `WorkersServeEveryNode`, for every number of workers
and every program. The first needs `ReapedHaveEnded`: who was taken off the list of workers has ended, and stays
so. The other needs that what a process has executed of its class statements is registered,
each under an identifier of its own.

What is model-checked only:

- Liveness: `SortEnds`, `RunEnds`, `SubmitReturns`, `StopEndsWorker`, `CallsReturn`, `LauncherEnds`. Fairness and
  ENABLED are outside of TLAPS.
- That `Queues` is what `BrokerService` provides is an argument in words (see 2), not a theorem: the two
  are not composed.
- The violations of 5, which are counterexamples.

## 5. Where the code departs from its documentation

- `sorter_direct`. `TaskGraph(nodes, dependencies)` accepts dependencies that are
  not nodes. `sort` adds them when it meets them and resets their in-degree, also
  when it has already counted some: the order is wrong and cycles are missed.
- `engine_final_states`. After a cancellation only one level is marked
  CANCELLED; later ones are returned PENDING, although `run` returns "final states".
- `engine_errors`. SKIPPED counts as success for dependents, so a failure stops
  its direct dependents and not the tasks behind them.
- `dispatch_versions`. `TaskResultPayload.to_dict` leaves the version out and `submit_graph` puts 1.0.0 in its
  place, so with two versions of a task in a graph, 1.0.0 is credited with the result of 2.0.0 while no
  worker has executed it. The class `Master` "collects results from distributed workers" and returns them by
  task and version.
- `signals`. README.md promises "SIGINT/SIGTERM handling" and `cli/broker.py` a
  "graceful shutdown on SIGINT/SIGTERM"; the handler's signature does not fit
  `add_signal_handler`, and a worker or a broker goes on after the signal.

Without a run, for it is plain from line 226 of `application/distributed.py`: README.md (179) promises "cross-dispatch
deduplication", but the filter is a local variable of `submit_graph`, and a task is executed again by the next dispatch.

The model also has these, which no sentence of the repository contradicts:
`cancel()` before the first step of `run` is lost; the CancelledError of an aborted
run is retried like a failure; a message taken by a worker that stops or dies is
lost; after a level timeout dependents are dispatched without their dependencies' results, and with a
failure in the same level late tasks are reported CANCELLED though they may be queued or executing; a call
cancelled on a connection shifts all later answers by one; a request beyond the limit
of `readline` (64 KiB) makes the server close the connection, and the client does not
notice until it is called again. A worker that has lost the broker never reconnects: it spins, and only
SIGKILL ends it. A node class that raises when it is instantiated loses the task without a
report. An exception in `run_demo` before the workers are terminated, or Ctrl-C, leaves them
behind. A worker that finds no broker, and a broker that finds its port taken, wait for
ever; in the launcher the `OSError` of the latter comes out of the last await. `NodeMeta`
says that it enforces the immutability of identifiers, and does not.

## 6. Plan

1. Done: sorter, filter, engine, master and workers, broker with its key-value store, node
   registry, launcher and processes, their runs.
2. Done: proofs of every invariant and action property that a run checks, and of both
   refinements: the engine implements `DagExecution`, the broker `QueueService`.
3. Next: `Queues` as a specification of its own that `Broker` implements for both queues at once,
   so that the step from the one to the other is checked; action properties of the master and the
   workers (a status that was collected stays; a dispatch does not touch another's results).

## 7. Not modelled

- `InMemoryStorage`: nothing uses it, and its methods await nothing, so that on an event
  loop each is atomic; a dictionary with expiry is left.
- `benchmark.py`, the typing protocols, log output, printing, argument parsing, the bodies of
  the demo's nodes.
- The counters of the broker and of the workers, which are only printed or not read at all.
- The cache of instances and `NodeRegistry.clear`, which only tests call;
  `_TaskGroupCompat`, which no code uses.
- The values in a context, and fields of an answer that no property needs.
- Two concurrent runs of one engine: no code and no test has them.
- Windows, where `add_signal_handler` does not exist.
- Wall-clock times: a timeout is a choice that may come at any moment.
- The choice of the filter's size by floating-point logarithms.

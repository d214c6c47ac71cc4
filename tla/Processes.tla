------------------------------ MODULE Processes ------------------------------
(***************************************************************************)
(* The processes of the distributed demo, on Unix: the launcher (main.py), *)
(* which has a broker of its own, the workers it spawns (cli/worker.py),   *)
(* and a broker somebody else starts at the same port (cli/broker.py).     *)
(*                                                                         *)
(* run_worker and run_broker wait for an event that only _handle_signal    *)
(* sets.  Its parameters are (sig, frame), but add_signal_handler calls it *)
(* without arguments: TypeError, and the event is never set.               *)
(***************************************************************************)
EXTENDS NodeRegistry, FiniteSets

CONSTANT BrokerCli

ASSUME ProcessesAssumption == IsFiniteSet(Workers) /\ BrokerCli \notin Workers

Procs == Workers \cup {BrokerCli}

VARIABLES
  lpc,       \* where run_demo is
  cancelled, \* Ctrl-C has cancelled the task of run_demo
  left,      \* the workers that it has not terminated
  waiting,   \* the one whose end it awaits in communicate(), if any
  port,      \* who listens
  pc,        \* where each other process is
  signalled  \* history: the processes that got a signal

launcherVars == <<lpc, cancelled, left, waiting>>
vars == <<launcherVars, port, pc, signalled, registryVars>>

Over == {"ended", "raised"}

\* Alive and deaf: with its event never set, a process ends by SIGKILL only.
\* A "stuck" one could not start, and waits; a "spinning" one has lost the broker.
Deaf == {"starting", "serving", "stuck", "spinning"}

Init ==
  /\ lpc = "starting"
  /\ cancelled = FALSE
  /\ left = {}
  /\ waiting = {}
  /\ port = "free"
  /\ pc = [p \in Procs |-> "none"]
  /\ signalled = {}
  /\ RegistryInit

-----------------------------------------------------------------------------
(* run_worker and run_broker *)

\* A class statement of cli/worker.py's imports; no handler is installed yet.
Define(p) ==
  /\ p \in Workers /\ pc[p] = "importing"
  /\ Register(p)
  /\ UNCHANGED <<launcherVars, port, pc, signalled>>

Imported(p) ==
  /\ pc[p] = "importing"
  /\ p \in Workers => AllDefined(p)
  /\ pc' = [pc EXCEPT ![p] = "starting"]
  /\ UNCHANGED <<launcherVars, port, signalled, registryVars>>

\* The next class is refused, or its module cannot be imported.
ImportFails(p) ==
  /\ p \in Workers /\ pc[p] = "importing"
  /\ ~ AllDefined(p)
  /\ pc' = [pc EXCEPT ![p] = "ended"]
  /\ UNCHANGED <<launcherVars, port, signalled, registryVars>>

\* start() raises in a task nobody awaits when there is no broker ...
WorkerStarts(w) ==
  /\ w \in Workers /\ pc[w] = "starting"
  /\ pc' = [pc EXCEPT ![w] = IF port = "free" THEN "stuck" ELSE "serving"]
  /\ UNCHANGED <<launcherVars, port, signalled, registryVars>>

\* ... or, in a broker, when the port is taken.
BrokerStarts ==
  /\ pc[BrokerCli] = "starting"
  /\ pc' = [pc EXCEPT ![BrokerCli] = IF port = "free" THEN "serving" ELSE "stuck"]
  /\ port' = IF port = "free" THEN "cli" ELSE port
  /\ UNCHANGED <<launcherVars, signalled, registryVars>>

\* The workers lose the broker when its process ends: see Spin in module Worker.
Disconnected(p) == [w \in Procs |->
  IF w \in Workers /\ p[w] = "serving" THEN "spinning" ELSE p[w]]

\* SIGTERM or SIGINT.
AfterSignal(p) == IF pc[p] = "importing" THEN "ended" ELSE pc[p]

-----------------------------------------------------------------------------
(* run_demo *)

\* broker.start(), in a task of its own: when the port is taken, OSError is found
\* by the last await only.
StartBroker ==
  /\ lpc = "starting"
  /\ lpc' = "sleeping"
  /\ port' = IF port = "free" THEN "launcher" ELSE port
  /\ UNCHANGED <<cancelled, left, waiting, pc, signalled, registryVars>>

Spawn ==
  /\ lpc = "sleeping" /\ ~ cancelled
  /\ lpc' = "connecting"
  /\ pc' = [p \in Procs |-> IF p \in Workers THEN "importing" ELSE pc[p]]
  /\ UNCHANGED <<cancelled, left, waiting, port, signalled, registryVars>>

Connect ==
  /\ lpc = "connecting" /\ ~ cancelled /\ port # "free"
  /\ lpc' = "submitting"
  /\ UNCHANGED <<cancelled, left, waiting, port, pc, signalled, registryVars>>

SubmitReturns ==
  /\ lpc = "submitting" /\ ~ cancelled
  /\ lpc' = "terminating"
  /\ left' = Workers
  /\ UNCHANGED <<cancelled, waiting, port, pc, signalled, registryVars>>

\* terminate(): without effect on a process that has installed its handlers.
Terminate(w) ==
  /\ lpc = "terminating" /\ w \in left /\ waiting = {}
  /\ waiting' = {w}
  /\ pc' = [pc EXCEPT ![w] = AfterSignal(w)]
  /\ signalled' = signalled \cup {w}
  /\ UNCHANGED <<lpc, cancelled, left, port, registryVars>>

\* Mutant: the process is still awaited.
ReapStale(w) ==
  /\ lpc = "terminating" /\ waiting = {w} /\ pc[w] = "ended"
  /\ left' = left \ {w}
  /\ UNCHANGED <<lpc, cancelled, waiting, port, pc, signalled, registryVars>>

\* communicate() returns.
Reap(w) ==
  /\ lpc = "terminating" /\ waiting = {w} /\ pc[w] = "ended"
  /\ left' = left \ {w}
  /\ waiting' = {}
  /\ UNCHANGED <<lpc, cancelled, port, pc, signalled, registryVars>>

\* Mutants: the timeout is passed over; there is no timeout.
KillNot(w) ==
  /\ lpc = "terminating" /\ waiting = {w} /\ pc[w] # "ended"
  /\ left' = left \ {w}
  /\ waiting' = {}
  /\ UNCHANGED <<lpc, cancelled, port, pc, signalled, registryVars>>
KillNever(w) == FALSE /\ UNCHANGED vars

\* TimeoutExpired: kill() and wait().
Kill(w) ==
  /\ lpc = "terminating" /\ waiting = {w} /\ pc[w] # "ended"
  /\ left' = left \ {w}
  /\ waiting' = {}
  /\ pc' = [pc EXCEPT ![w] = "ended"]
  /\ UNCHANGED <<lpc, cancelled, port, signalled, registryVars>>

\* The launcher's process ends, and its broker with it.
Exit(how) ==
  /\ lpc' = how
  /\ port' = IF port = "launcher" THEN "free" ELSE port
  /\ pc' = IF port = "launcher" THEN Disconnected(pc) ELSE pc
  /\ UNCHANGED <<cancelled, left, waiting, signalled, registryVars>>

\* shutdown(), stop(), and the await of the broker's task.
CleanUp ==
  /\ lpc = "terminating" /\ left = {} /\ ~ cancelled
  /\ Exit(IF port = "launcher" THEN "ended" ELSE "raised")

\* An exception ends run_demo: there is no handler and no finally.  connect() is
\* refused; the connection is lost; or the task was cancelled, which it learns at
\* its next await: the loop that terminates the workers has none.
Raise ==
  /\ \/ lpc = "connecting" /\ port = "free"
     \/ lpc = "submitting"
     \/ cancelled /\ lpc \in {"sleeping", "connecting"}
     \/ cancelled /\ lpc = "terminating" /\ left = {}
  /\ Exit("raised")

-----------------------------------------------------------------------------
(* The user *)

StartBrokerCli ==
  /\ pc[BrokerCli] = "none"
  /\ pc' = [pc EXCEPT ![BrokerCli] = "importing"]
  /\ UNCHANGED <<launcherVars, port, signalled, registryVars>>

Signal(p) ==
  /\ pc[p] \in Deaf \cup {"importing"}
  /\ pc' = [pc EXCEPT ![p] = AfterSignal(p)]
  /\ signalled' = signalled \cup {p}
  /\ UNCHANGED <<launcherVars, port, registryVars>>

\* SIGKILL.
KillProcess(p) ==
  /\ pc[p] \in Deaf
  /\ LET after == [pc EXCEPT ![p] = "ended"]
         owner == p = BrokerCli /\ pc[p] = "serving" IN
     /\ pc' = IF owner THEN Disconnected(after) ELSE after
     /\ port' = IF owner THEN "free" ELSE port
  /\ UNCHANGED <<launcherVars, signalled, registryVars>>

\* asyncio.run cancels the task at the first Ctrl-C ...
Interrupt ==
  /\ lpc \notin Over /\ ~ cancelled
  /\ cancelled' = TRUE
  /\ UNCHANGED <<lpc, left, waiting, port, pc, signalled, registryVars>>

\* ... and raises KeyboardInterrupt at the second.
InterruptAgain ==
  /\ lpc \notin Over /\ cancelled
  /\ Exit("raised")

-----------------------------------------------------------------------------

ProcStep(p) ==
  \/ Define(p) \/ Imported(p) \/ ImportFails(p)
  \/ WorkerStarts(p) \/ (p = BrokerCli /\ BrokerStarts)

LauncherStep ==
  \/ StartBroker \/ Spawn \/ Connect \/ SubmitReturns
  \/ \E w \in Workers : Terminate(w) \/ Reap(w) \/ Kill(w)
  \/ CleanUp \/ Raise

UserStep ==
  \/ StartBrokerCli \/ Interrupt \/ InterruptAgain
  \/ \E p \in Procs : Signal(p) \/ KillProcess(p)

Next == LauncherStep \/ UserStep \/ \E p \in Procs : ProcStep(p)

Spec == Init /\ [][Next]_vars

\* Processes run: submit_graph ends (SubmitReturns of module Distributed), and so
\* does communicate(), by its timeout.  The user need not do anything.
FairSpec == Spec /\ WF_vars(LauncherStep) /\ \A p \in Procs : WF_vars(ProcStep(p))

-----------------------------------------------------------------------------
(* Properties *)

TypeOK ==
  /\ lpc \in {"starting", "sleeping", "connecting", "submitting", "terminating"} \cup Over
  /\ cancelled \in BOOLEAN
  /\ left \in SUBSET Workers /\ waiting \in SUBSET left
  /\ port \in {"free", "launcher", "cli"}
  /\ pc \in [Procs -> Deaf \cup {"none", "importing", "ended"}]
  /\ signalled \in SUBSET Procs
  /\ RegistryTypeOK

\* When the demo reports "All worker processes terminated", none of them is
\* there: not one that still imported its modules, never connected, or spins.
NoWorkerOutlivesDemo == lpc = "ended" => \A w \in Workers : pc[w] = "ended"

\* A worker that polls for tasks knows every node its modules define, each by the
\* class that declares the identifier; two classes never share one.
ServesEveryNode ==
  \A w \in Workers : pc[w] \in Deaf =>
    \A i \in DOMAIN program :
      /\ IdentifierOf[program[i]] \in DOMAIN nodes[w]
      /\ nodes[w][IdentifierOf[program[i]]] = program[i]

\* The launcher comes to an end, whatever state its workers are in and whoever
\* holds the port.
LauncherEnds == <>(lpc \in Over)

\* README.md:183, "Graceful Cancellation: SIGINT/SIGTERM handling", and the comment
\* in cli/broker.py:23: a process that gets a signal ends.
SignalStopsProcess == \A p \in Procs : p \in signalled ~> pc[p] = "ended"
=============================================================================

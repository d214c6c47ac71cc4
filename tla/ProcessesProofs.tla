---------------------------- MODULE ProcessesProofs ----------------------------
(* Safety of the demo's processes, for every set of workers and every          *)
(* sequence of classes their modules define.                                  *)
EXTENDS Processes, TLAPS

-----------------------------------------------------------------------------
(* Types *)

LEMMA InitTyped == Init => TypeOK
<1> SUFFICES ASSUME Init PROVE TypeOK
  OBVIOUS
<1>1. << >> \in Registries
  <2>1. << >> \in [{} -> Classes]
    OBVIOUS
  <2> QED
    BY <2>1 DEF Registries
<1>2. RegistryTypeOK
  BY <1>1, RegistryAssumption DEF Init, RegistryInit, RegistryTypeOK
<1> QED
  BY <1>2 DEF Init, TypeOK

\* A class statement enters its class, and takes no identifier from another.
LEMMA RegisterEffect ==
  ASSUME RegistryTypeOK, NEW w \in Workers, Register(w)
  PROVE  /\ RegistryTypeOK'
         /\ defined'[w] = defined[w] + 1
         /\ \A v \in Workers \ {w} : nodes'[v] = nodes[v] /\ defined'[v] = defined[v]
         /\ IdentifierOf[program[defined'[w]]] \in DOMAIN nodes'[w]
         /\ nodes'[w][IdentifierOf[program[defined'[w]]]] = program[defined'[w]]
         /\ \A id \in DOMAIN nodes[w] :
              id \in DOMAIN nodes'[w] /\ nodes'[w][id] = nodes[w][id]
<1> DEFINE c == NextClass(w)
           id == IdentifierOf[c]
           new == [i \in DOMAIN nodes[w] \cup {id} |-> IF i = id THEN c ELSE nodes[w][i]]
<1>1. program \in Seq(Classes) /\ defined[w] \in 0 .. Len(program) /\ defined[w] # Len(program)
  BY RegistryAssumption DEF RegistryTypeOK, Register, AllDefined
<1>2. c \in Classes /\ id \in Identifiers
  BY <1>1 DEF NextClass, Identifiers
<1>3. PICK ids \in SUBSET Identifiers : nodes[w] \in [ids -> Classes]
  BY DEF RegistryTypeOK, Registries
<1>4. ids \cup {id} \in SUBSET Identifiers /\ new \in [ids \cup {id} -> Classes]
  BY <1>2, <1>3
<1>5. id \notin DOMAIN nodes[w]
  BY DEF Register, Accepts
<1>6. nodes' = [nodes EXCEPT ![w] = new] /\ defined' = [defined EXCEPT ![w] = @ + 1]
      /\ UNCHANGED program
  BY DEF Register
<1>7. nodes'[w] = new /\ defined'[w] = defined[w] + 1
  BY <1>6 DEF RegistryTypeOK
<1>8. new \in Registries
  BY <1>4 DEF Registries
<1>9. RegistryTypeOK'
  <2> HIDE DEF new, c, id
  <2>1. nodes' \in [Workers -> Registries]
    BY <1>6, <1>8 DEF RegistryTypeOK
  <2>2. defined' \in [Workers -> 0 .. Len(program)]
    BY <1>1, <1>6 DEF RegistryTypeOK
  <2> QED
    BY <1>6, <2>1, <2>2 DEF RegistryTypeOK
<1>10. \A v \in Workers \ {w} : nodes'[v] = nodes[v] /\ defined'[v] = defined[v]
  BY <1>6 DEF RegistryTypeOK
<1> QED
  BY <1>5, <1>7, <1>9, <1>10 DEF NextClass

LEMMA LauncherTyped == TypeOK /\ LauncherStep => TypeOK'
<1> SUFFICES ASSUME TypeOK, LauncherStep PROVE TypeOK'
  OBVIOUS
<1> USE DEF TypeOK, RegistryTypeOK, registryVars, Over, Deaf, Procs, AfterSignal, Disconnected, Exit
<1>1. CASE StartBroker
  BY <1>1 DEF StartBroker
<1>2. CASE Spawn
  BY <1>2 DEF Spawn
<1>3. CASE Connect
  BY <1>3 DEF Connect
<1>4. CASE SubmitReturns
  BY <1>4 DEF SubmitReturns
<1>5. ASSUME NEW w \in Workers, Terminate(w) PROVE TypeOK'
  BY <1>5 DEF Terminate
<1>6. ASSUME NEW w \in Workers, Reap(w) PROVE TypeOK'
  BY <1>6 DEF Reap
<1>7. ASSUME NEW w \in Workers, Kill(w) PROVE TypeOK'
  BY <1>7 DEF Kill
<1>8. CASE CleanUp
  BY <1>8 DEF CleanUp
<1>9. CASE Raise
  BY <1>9 DEF Raise
<1> QED
  BY <1>1, <1>2, <1>3, <1>4, <1>5, <1>6, <1>7, <1>8, <1>9 DEF LauncherStep

LEMMA ProcessTyped == ASSUME TypeOK, NEW p \in Procs, ProcStep(p) PROVE TypeOK'
<1> USE DEF TypeOK, Over, Deaf, Procs, launcherVars
<1>1. CASE Define(p)
  BY <1>1, RegisterEffect DEF Define
<1>2. CASE Imported(p)
  BY <1>2 DEF Imported, RegistryTypeOK, registryVars
<1>3. CASE ImportFails(p)
  BY <1>3 DEF ImportFails, RegistryTypeOK, registryVars
<1>4. CASE WorkerStarts(p)
  BY <1>4 DEF WorkerStarts, RegistryTypeOK, registryVars
<1>5. CASE p = BrokerCli /\ BrokerStarts
  BY <1>5 DEF BrokerStarts, RegistryTypeOK, registryVars
<1> QED
  BY <1>1, <1>2, <1>3, <1>4, <1>5 DEF ProcStep

LEMMA UserTyped == TypeOK /\ UserStep => TypeOK'
<1> SUFFICES ASSUME TypeOK, UserStep PROVE TypeOK'
  OBVIOUS
<1> USE DEF TypeOK, RegistryTypeOK, registryVars, launcherVars, Over, Deaf, Procs, AfterSignal,
            Disconnected, Exit
<1>1. CASE StartBrokerCli
  BY <1>1 DEF StartBrokerCli
<1>2. CASE Interrupt
  BY <1>2 DEF Interrupt
<1>3. CASE InterruptAgain
  BY <1>3 DEF InterruptAgain
<1>4. ASSUME NEW p \in Procs, Signal(p) PROVE TypeOK'
  BY <1>4 DEF Signal
<1>5. ASSUME NEW p \in Procs, KillProcess(p) PROVE TypeOK'
  BY <1>5 DEF KillProcess
<1> QED
  BY <1>1, <1>2, <1>3, <1>4, <1>5 DEF UserStep

LEMMA NextTyped == TypeOK /\ [Next]_vars => TypeOK'
<1>1. ASSUME TypeOK, UNCHANGED vars PROVE TypeOK'
  BY <1>1 DEF vars, launcherVars, registryVars, TypeOK, RegistryTypeOK
<1> QED
  BY <1>1, LauncherTyped, ProcessTyped, UserTyped DEF Next

\* The types of what the processes keep.
THEOREM TypeCorrect == Spec => []TypeOK
  BY InitTyped, NextTyped, PTL DEF Spec

-----------------------------------------------------------------------------
(* The end of the demo *)

\* The workers the launcher is done with have ended; when it is through, these
\* are all of them.
ReapedHaveEnded ==
  /\ lpc \in {"terminating", "ended"} => \A w \in Workers \ left : pc[w] = "ended"
  /\ lpc = "ended" => left = {}

\* Who has ended stays so, except that run_demo spawns the workers.
LEMMA EndedStays ==
  ASSUME TypeOK, [Next]_vars, ~ Spawn, NEW w \in Workers, pc[w] = "ended"
  PROVE  pc'[w] = "ended"
<1> USE ProcessesAssumption DEF TypeOK, Deaf, Procs, AfterSignal, Disconnected, Exit
<1>1. CASE LauncherStep
  BY <1>1 DEF LauncherStep, StartBroker, Connect, SubmitReturns, Terminate, Reap, Kill, CleanUp,
              Raise
<1>2. ASSUME NEW p \in Procs, ProcStep(p) PROVE pc'[w] = "ended"
  BY <1>2 DEF ProcStep, Define, Imported, ImportFails, WorkerStarts, BrokerStarts
<1>3. CASE UserStep
  BY <1>3 DEF UserStep, StartBrokerCli, Interrupt, InterruptAgain, Signal, KillProcess, launcherVars
<1>4. CASE UNCHANGED vars
  BY <1>4 DEF vars
<1> QED
  BY <1>1, <1>2, <1>3, <1>4 DEF Next

LEMMA ReapedStep == TypeOK /\ ReapedHaveEnded /\ [Next]_vars => ReapedHaveEnded'
<1> SUFFICES ASSUME TypeOK, ReapedHaveEnded, [Next]_vars PROVE ReapedHaveEnded'
  OBVIOUS
<1> USE DEF ReapedHaveEnded
\* Steps that leave run_demo where it is, and its list of workers alone.
<1>1. ASSUME UNCHANGED <<lpc, left>>, ~ Spawn PROVE ReapedHaveEnded'
  BY <1>1, EndedStays
\* Steps that end it by an exception, or in another state than the last two.
<1>2. ASSUME lpc' \notin {"terminating", "ended"} PROVE ReapedHaveEnded'
  BY <1>2
<1>3. CASE LauncherStep
  <2>1. CASE StartBroker \/ Spawn \/ Connect \/ Raise
    BY <1>2, <2>1 DEF StartBroker, Spawn, Connect, Raise, Exit
  <2>2. CASE SubmitReturns
    BY <2>2 DEF SubmitReturns
  <2>3. ASSUME NEW w \in Workers, Terminate(w) PROVE ReapedHaveEnded'
    BY <1>1, <2>3 DEF Terminate, Spawn
  <2>4. ASSUME NEW w \in Workers, Reap(w) PROVE ReapedHaveEnded'
    BY <2>4 DEF Reap
  <2>5. ASSUME NEW w \in Workers, Kill(w) PROVE ReapedHaveEnded'
    BY <2>5 DEF Kill, TypeOK, Procs
  <2>6. CASE CleanUp
    BY <2>6, EndedStays DEF CleanUp, Exit, Spawn
  <2> QED
    BY <1>3, <2>1, <2>2, <2>3, <2>4, <2>5, <2>6 DEF LauncherStep
<1>4. ASSUME NEW p \in Procs, ProcStep(p) PROVE ReapedHaveEnded'
  BY <1>1, <1>4 DEF ProcStep, Define, Imported, ImportFails, WorkerStarts, BrokerStarts,
                    launcherVars, Spawn
<1>5. CASE UserStep
  BY <1>1, <1>2, <1>5 DEF UserStep, StartBrokerCli, Interrupt, InterruptAgain, Signal, KillProcess,
                          launcherVars, Exit, Spawn
<1>6. CASE UNCHANGED vars
  BY <1>6 DEF vars, launcherVars
<1> QED
  BY <1>3, <1>4, <1>5, <1>6 DEF Next

\* When the demo ends normally, none of the workers it has spawned is there:
\* terminate(), or kill() after it, has ended each (main.py, the loop over
\* worker_processes).
THEOREM DemoLeavesNoWorker == Spec => []NoWorkerOutlivesDemo
<1>1. Init => ReapedHaveEnded
  BY DEF Init, ReapedHaveEnded
<1>2. ReapedHaveEnded => NoWorkerOutlivesDemo
  BY DEF ReapedHaveEnded, NoWorkerOutlivesDemo
<1> QED
  BY <1>1, <1>2, ReapedStep, TypeCorrect, PTL DEF Spec

-----------------------------------------------------------------------------
(* The registries *)

\* What a process has executed of its class statements is registered, each
\* identifier for the class that declares it.
DefinedAreRegistered ==
  \A w \in Workers : \A i \in 1 .. defined[w] :
    /\ IdentifierOf[program[i]] \in DOMAIN nodes[w]
    /\ nodes[w][IdentifierOf[program[i]]] = program[i]

\* Nobody goes on before the imports are complete.
ImportsComplete == \A w \in Workers : pc[w] \in Deaf => AllDefined(w)

LEMMA RegistryStep ==
  ASSUME TypeOK, DefinedAreRegistered, ImportsComplete, [Next]_vars
  PROVE  DefinedAreRegistered' /\ ImportsComplete'
<1> USE ProcessesAssumption DEF Deaf, Procs
\* A step that registers nothing and completes nobody's imports.
<1>1. ASSUME UNCHANGED registryVars,
             \A w \in Workers : pc'[w] \in Deaf => pc[w] \in Deaf \/ AllDefined(w)
      PROVE  DefinedAreRegistered' /\ ImportsComplete'
  BY <1>1 DEF DefinedAreRegistered, ImportsComplete, AllDefined, registryVars
<1>2. ASSUME NEW w \in Workers, Define(w)
      PROVE  DefinedAreRegistered' /\ ImportsComplete'
  <2>1. Register(w) /\ pc[w] = "importing" /\ UNCHANGED <<pc, program>> /\ RegistryTypeOK
    BY <1>2 DEF Define, Register, TypeOK
  <2>2. defined \in [Workers -> Nat] /\ defined'[w] = defined[w] + 1
    BY <2>1, RegisterEffect DEF RegistryTypeOK
  <2>3. DefinedAreRegistered'
    <3> SUFFICES ASSUME NEW v \in Workers, NEW i \in 1 .. defined'[v]
                 PROVE  /\ IdentifierOf[program[i]] \in DOMAIN nodes'[v]
                        /\ nodes'[v][IdentifierOf[program[i]]] = program[i]
      BY <2>1 DEF DefinedAreRegistered
    <3>1. CASE v # w
      BY <2>1, <3>1, RegisterEffect DEF DefinedAreRegistered
    <3>2. CASE v = w /\ i = defined'[w]
      BY <2>1, <3>2, RegisterEffect
    <3>3. CASE v = w /\ i # defined'[w]
      <4>1. i \in 1 .. defined[w]
        BY <2>2, <3>3
      <4> QED
        BY <2>1, <3>3, <4>1, RegisterEffect DEF DefinedAreRegistered
    <3> QED
      BY <3>1, <3>2, <3>3
  <2>4. ImportsComplete'
    BY <2>1, RegisterEffect DEF ImportsComplete, AllDefined
  <2> QED
    BY <2>3, <2>4
<1>3. CASE LauncherStep
  BY <1>1, <1>3 DEF LauncherStep, StartBroker, Spawn, Connect, SubmitReturns, Terminate, Reap, Kill,
                    CleanUp, Raise, Exit, AfterSignal, Disconnected, TypeOK
<1>4. ASSUME NEW p \in Procs, ProcStep(p), ~ Define(p)
      PROVE  DefinedAreRegistered' /\ ImportsComplete'
  BY <1>1, <1>4 DEF ProcStep, Imported, ImportFails, WorkerStarts, BrokerStarts, TypeOK
<1>5. CASE UserStep
  BY <1>1, <1>5 DEF UserStep, StartBrokerCli, Interrupt, InterruptAgain, Signal, KillProcess,
                    Exit, AfterSignal, Disconnected, TypeOK
<1>6. CASE UNCHANGED vars
  BY <1>1, <1>6 DEF vars
<1> QED
  BY <1>2, <1>3, <1>4, <1>5, <1>6 DEF Next, ProcStep, Define

\* A worker that polls for tasks has a registry with every class of its modules:
\* none was passed over, and none has taken another's place (metaclass.py,
\* register(), and the imports of cli/worker.py).
THEOREM WorkersServeEveryNode == Spec => []ServesEveryNode
<1>1. Init => DefinedAreRegistered /\ ImportsComplete
  BY DEF Init, RegistryInit, DefinedAreRegistered, ImportsComplete, Procs, Deaf
<1>2. TypeOK /\ DefinedAreRegistered /\ ImportsComplete => ServesEveryNode
  <2> SUFFICES ASSUME TypeOK, DefinedAreRegistered, ImportsComplete,
                      NEW w \in Workers, pc[w] \in Deaf, NEW i \in DOMAIN program
               PROVE  /\ IdentifierOf[program[i]] \in DOMAIN nodes[w]
                      /\ nodes[w][IdentifierOf[program[i]]] = program[i]
    BY DEF ServesEveryNode
  <2>1. i \in 1 .. defined[w]
    BY RegistryAssumption DEF ImportsComplete, AllDefined, TypeOK, RegistryTypeOK
  <2> QED
    BY <2>1 DEF DefinedAreRegistered
<1> QED
  BY <1>1, <1>2, RegistryStep, TypeCorrect, PTL DEF Spec
=============================================================================

----------------------------- MODULE NodeRegistry -----------------------------
(***************************************************************************)
(* application/metaclass.py: NodeMeta and NodeRegistry.  A process learns  *)
(* its task nodes by importing modules: each class statement that derives  *)
(* from BaseTaskNode is validated and registered under its identifier, in  *)
(* the order of the imports.  One that raises ends the import.             *)
(***************************************************************************)
EXTENDS Integers, Sequences

CONSTANTS
  Workers,      \* the processes that import nodes
  Programs,     \* what they may be given to import: sequences of classes
  Classes,
  IdentifierOf, \* class -> its identifier
  Invalid       \* the classes without identifier, or with other attributes of a wrong type

ASSUME RegistryAssumption ==
  /\ Programs \subseteq Seq(Classes)
  /\ Classes \subseteq DOMAIN IdentifierOf
  /\ Invalid \subseteq Classes

VARIABLES
  program, \* the class statements of the modules, the same for all
  defined, \* how many of them a process has executed
  nodes    \* NodeRegistry._nodes of a process: identifier -> class

registryVars == <<program, defined, nodes>>

Identifiers == {IdentifierOf[c] : c \in Classes}

Registries == UNION {[ids -> Classes] : ids \in SUBSET Identifiers}

RegistryInit ==
  /\ program \in Programs
  /\ defined = [p \in Workers |-> 0]
  /\ nodes = [p \in Workers |-> << >>]

AllDefined(p) == defined[p] = Len(program)

NextClass(p) == program[defined[p] + 1]

\* Mutant: the later class takes the identifier over.
AcceptsDuplicates(p) == NextClass(p) \notin Invalid

\* Otherwise NodeMeta.__new__ or register() raises out of the class statement.
Accepts(p) ==
  NextClass(p) \notin Invalid /\ IdentifierOf[NextClass(p)] \notin DOMAIN nodes[p]

Register(p) ==
  LET c == NextClass(p)
      id == IdentifierOf[c] IN
  /\ ~ AllDefined(p) /\ Accepts(p)
  /\ nodes' = [nodes EXCEPT ![p] =
       [i \in DOMAIN @ \cup {id} |-> IF i = id THEN c ELSE @[i]]]
  /\ defined' = [defined EXCEPT ![p] = @ + 1]
  /\ UNCHANGED program

RegistryTypeOK ==
  /\ program \in Programs
  /\ defined \in [Workers -> 0 .. Len(program)]
  /\ nodes \in [Workers -> Registries]
=============================================================================

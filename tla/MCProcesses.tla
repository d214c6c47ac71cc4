----------------------------- MODULE MCProcesses -----------------------------
EXTENDS Processes

CONSTANTS c1, c2, copy, bad

\* Modules that import, with two classes of one identifier, and with an invalid one.
MCPrograms == {<<c1, c2>>, <<c1, copy>>, <<bad>>}
MCIdentifierOf == [c \in {c1, c2, copy, bad} |-> IF c = c2 THEN "fetch" ELSE "report"]
=============================================================================

--------------------------- MODULE DistributedClaims ---------------------------
(* What the documentation says of distributed execution and the code does not *)
(* do: the definition is refuted by a run.                                    *)
EXTENDS MCDistributed

=============================================================================

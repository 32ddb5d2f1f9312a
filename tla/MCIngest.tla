------------------------------ MODULE MCIngest -------------------------------
(* Small instances of IngestionWorkers for TLC. *)
EXTENDS IngestionWorkers
CONSTANTS w1, w2

\* Symmetry reduction that is sound for liveness: the survivor is w2.
MCSurvivor == gone \subseteq {w1}
=============================================================================

------------------------------ MODULE MCSession ------------------------------
(* Small instances of SessionState for TLC. *)
EXTENDS SessionState, TLC
CONSTANTS w1, w2

SessionSymmetry == Permutations(Worker)

\* The stores go wrong in at most one way.
MCOneFault == Cardinality(faults) <= 1
=============================================================================

-------------------------------- MODULE MCRun --------------------------------
(* Small instances of CompactionRun for TLC. *)
EXTENDS CompactionRun, TLC
CONSTANTS w1, w2, o1, o2, o3

MCRunSymmetry == Permutations(Worker) \cup Permutations(OpId)

\* Symmetry reduction that is sound for liveness: o1 is used before o2,
\* and the process that survives is w2.
MCInOrder ==
  /\ opStatus[o2] # "unused" => opStatus[o1] # "unused"
  /\ crashed \subseteq {w1}

\* Turns are tagged, and episodes run, once the other process has died,
\* wherever it died, at the start as well.
MCSurvivorIngests ==
  /\ MCInOrder
  /\ work \/ epStatus[1] # "none" => w1 \in crashed
=============================================================================

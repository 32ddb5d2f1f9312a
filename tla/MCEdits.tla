------------------------------ MODULE MCEdits ------------------------------
(* Small instances of RecordEdits for TLC. *)
EXTENDS RecordEdits, TLC
CONSTANTS m1, m2, r1, r2, a, b

\* A set of texts is a placeholder if each was edited into one.
MCStubs == {S \in (SUBSET Text) \ {{}} : \A t \in S : t[2] = MaxVersion}

MCEditSymmetry == Permutations(Msg) \cup Permutations(Ref) \cup Permutations(Topic)
=============================================================================

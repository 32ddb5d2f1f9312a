------------------------------ MODULE MCAlias ------------------------------
(* AliasResolution on small instances. *)
EXTENDS AliasResolution, TLC

CONSTANTS c1, c2, c3, c4, c5, c6, w1, w2

AliasSymmetry == Permutations(Conv) \cup Permutations(Worker)
=============================================================================

----------------------------- MODULE MCLifecycle -----------------------------
(* Small instances of ConversationLifecycle for TLC. *)
EXTENDS ConversationLifecycle, TLC
CONSTANTS w1, w2, o1, o2, o3, s1

MCSymmetry == Permutations(Worker) \cup Permutations(OpId)
=============================================================================

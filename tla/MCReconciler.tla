---------------------------- MODULE MCReconciler ----------------------------
(* The host's history is 1..MaxHistory, users odd.  Other payloads carry a  *)
(* regenerated reply, a different first message, two messages where one was *)
(* stored, or a turn three times.                                           *)
EXTENDS IngestReconciler, TLC

CONSTANTS MaxHistory, MinLen, Extra, Pairs

ActorSymmetry == Permutations(Actor)

MCMessage  == 1..MaxHistory + 4
MCUser     == {m \in MCMessage : m % 2 = 1}
MCHistory  == [i \in 1..MaxHistory |-> i]
Windows    == {SubSeq(MCHistory, i, j) : i, j \in 1..MaxHistory}
Others     == <<<<1, 2, 3, MaxHistory + 2>>, <<1, 2, 3, MaxHistory + 4>>,
                <<MaxHistory + 1, 2, 3, 4>>,
                <<1, 2, 3, MaxHistory + 2, MaxHistory + 1>>,
                <<1, 2, 1, 2, 1, 2>>>>
MCPayload  == {p \in Windows \ {<<>>} : Len(p) >= MinLen}
                \cup {Others[k] : k \in Extra}
MCPair     == {<<i, i + 1>> : i \in Pairs}
=============================================================================

-------------------------- MODULE CompactionLedger ---------------------------
(***************************************************************************)
(* What the compaction_operation table promises to everything built on it, *)
(* without owners, leases, phases or workers: a ledger in which an         *)
(* operation is opened once, in one life of the conversation, at a time    *)
(* when no other operation of that life is open; it is closed once; and a  *)
(* takeover replaces an open operation by its successor in one step, so    *)
(* that nobody sees the life without an open operation in between.         *)
(***************************************************************************)
EXTENDS Naturals

CONSTANTS
  OpId,    \* operation ids
  Life     \* the lives of the conversation, positive numbers

VARIABLES
  ledger,  \* operation -> "unused", "open" or "closed"
  life     \* operation -> lifecycle epoch it was opened in; 0 = unused

ledgerVars == <<ledger, life>>

Init ==
  /\ ledger = [o \in OpId |-> "unused"]
  /\ life = [o \in OpId |-> 0]

OpenIn(o, l) == ledger[o] = "open" /\ life[o] = l

Open(o, l) ==
  /\ ledger[o] = "unused"
  /\ \A p \in OpId : ~OpenIn(p, l)
  /\ ledger' = [ledger EXCEPT ![o] = "open"]
  /\ life' = [life EXCEPT ![o] = l]

\* Several operations, of several lives, may be closed at once.
Close(S) ==
  /\ \A o \in S : ledger[o] = "open"
  /\ ledger' = [o \in OpId |-> IF o \in S THEN "closed" ELSE ledger[o]]
  /\ UNCHANGED life

HandOver(old, new) ==
  /\ ledger[old] = "open" /\ ledger[new] = "unused"
  /\ \A p \in OpId \ {old} : ~OpenIn(p, life[old])
  /\ ledger' = [ledger EXCEPT ![old] = "closed", ![new] = "open"]
  /\ life' = [life EXCEPT ![new] = life[old]]

Next ==
  \/ \E o \in OpId, l \in Life : Open(o, l)
  \/ \E S \in SUBSET OpId : Close(S)
  \/ \E old, new \in OpId : HandOver(old, new)

Spec == Init /\ [][Next]_ledgerVars
=============================================================================

--------------------------- MODULE AliasResolution ---------------------------
(***************************************************************************)
(* The redirects between conversation ids (conversation_aliases): how      *)
(* VCATTACH, link_predecessor and VCMERGE write them, how a chain of them  *)
(* is walked when an engine is built for an id, and how the engines that   *)
(* workers keep bound to an id are evicted when the id is redirected.      *)
(*                                                                         *)
(* An attach is several steps: the alias of the target is cleared, the new *)
(* alias is committed, the other workers are told, the engines of this     *)
(* worker are evicted.  A worker may die between any two.  Building an     *)
(* engine is two steps under the registry's lock: the chain is resolved    *)
(* in one transaction, the engine is published later.                      *)
(***************************************************************************)
EXTENDS Naturals, FiniteSets

CONSTANTS
  Conv,     \* conversation ids
  NoConv,   \* no alias row
  Worker,   \* proxy processes
  MaxHops,  \* max_hops of the walk
  MaxFanOut, \* MAX_REVERSE_DEPENDENT_FAN_OUT
  Leases,   \* TRUE: callers hold the lifecycle leases of both ids
  MayFail,  \* TRUE: a clear, a lookup or a publication may fail
  MaxWrite  \* bound on attaches, links, merges and deletions

ASSUME AliasAssumption ==
  /\ NoConv \notin Conv /\ MaxHops \in Nat \ {0} /\ MaxFanOut \in Nat \ {0}
  /\ Leases \in BOOLEAN /\ MayFail \in BOOLEAN /\ MaxWrite \in Nat

VARIABLES
  alias,     \* conversation_aliases: target_id by alias_id
  live,      \* conversations that are neither deleted nor merged
  task,      \* the attach a worker executes
  building,  \* the id an engine under construction is bound to
  cache,     \* SessionRegistry._conversations: ids with an engine
  inbox,     \* ids named by the events a worker has still to apply
  missed,    \* <<worker, id>> whose eviction was given up
  torn,      \* a target kept its own alias when an alias to it was written
  writes     \* attaches, links, merges and deletions so far

vars == <<alias, live, task, building, cache, inbox, missed, torn, writes>>
workers == <<building, cache, inbox>>

NoTask == [step |-> "none", kind |-> "none", old |-> NoConv, target |-> NoConv]
Task   == {NoTask} \cup
          [step : {"clear", "save", "publish", "evict"}, kind : {"attach", "link"},
           old : Conv, target : Conv]

-----------------------------------------------------------------------------
(* Chains.                                                                 *)

\* The ids a walk of n hops visits from c; NoConv after the terminal.
Chain(c, n) ==
  LET p[i \in 0..n] == IF i = 0 THEN c
                       ELSE IF p[i - 1] = NoConv THEN NoConv
                       ELSE alias[p[i - 1]]
  IN  p

\* walk_conversation_alias_chain: the terminal, or NoConv for a cycle and for a
\* chain whose terminal is not seen within MaxHops lookups.
walk_conversation_alias_chain(c) ==
  LET p    == Chain(c, MaxHops)
      ends == {i \in 0..MaxHops - 1 : p[i] # NoConv /\ p[i + 1] = NoConv}
  IN  IF ends = {} THEN NoConv ELSE p[CHOOSE i \in ends : TRUE]

\* The sources the search from t lists for the id n: only t can be seen already.
Sources(n, t) == {x \in Conv \ {t} : alias[x] = n}

\* More ids redirect straight to n than the search keeps of one id.
Hot(n, t) == Cardinality(Sources(n, t)) > MaxFanOut

\* The sources a search from t may keep: all of an id's, or the first MaxFanOut
\* in sort order, whichever those are.
Keeps(t) ==
  {K \in SUBSET (Conv \ {t}) : \A n \in Conv :
     IF Hot(n, t) THEN Cardinality(K \cap Sources(n, t)) = MaxFanOut
                  ELSE Sources(n, t) \subseteq K}

\* Breadth first against the edges, MaxHops levels, keeping only ids of K.
Search(t, K) ==
  LET seen[i \in 0..MaxHops] ==
        IF i = 0 THEN {t}
        ELSE seen[i - 1] \cup {x \in K : alias[x] \in seen[i - 1]}
  IN  seen[MaxHops] \ {t}

\* Mutant of compute_reverse_dependents: kept is not reset for the next id.
compute_reverse_dependents_OneCount(t) ==
  LET All == Search(t, Conv \ {t})
  IN  IF Cardinality(All) <= MaxFanOut THEN {All}
      ELSE {K \in SUBSET All : Cardinality(K) = MaxFanOut /\ Search(t, K) = K}

\* compute_reverse_dependents: the results the search from t may have.
compute_reverse_dependents(t) == {Search(t, K) : K \in Keeps(t)}

\* Mutant of EventIds: a walk that failed is not caught.
EventIds_Raw(c, t) == {{c, t, walk_conversation_alias_chain(t)}}

\* The ids an AliasDeletedEvent of t and an AliasCreatedEvent of c -> t may name.
EventIds(c, t) ==
  {{c, t} \cup dc \cup dt \cup ({walk_conversation_alias_chain(t)} \ {NoConv}) :
     dc \in compute_reverse_dependents(c), dt \in compute_reverse_dependents(t)}

-----------------------------------------------------------------------------
(* VCATTACH and link_predecessor.                                          *)

Held(w) == {task[w].old, task[w].target} \ {NoConv}

\* The leases of ids, taken in sorted order: both or neither.
Free(w, ids) == Leases => \A v \in Worker \ {w} : Held(v) \cap ids = {}

Count == writes < MaxWrite /\ writes' = writes + 1

Start(w, kind, c, t) ==
  /\ task[w] = NoTask /\ Count
  /\ Free(w, {c, t})
  /\ task' = [task EXCEPT ![w] = [step |-> "clear", kind |-> kind,
                                  old |-> c, target |-> t]]
  /\ UNCHANGED <<alias, live, workers, missed, torn>>

\* resolve_target: another id, attachable unless the lookup fails open.
attach(w, c, t) ==
  /\ c # t
  /\ t \in live \/ MayFail
  /\ Start(w, "attach", c, t)

\* Both sides are their own terminals; which one is the source depends on the
\* side that holds turns.
link_predecessor(w, c, t) ==
  /\ c # t
  /\ walk_conversation_alias_chain(c) = c
  /\ walk_conversation_alias_chain(t) = t
  /\ Start(w, "link", c, t)

To(w, step) == task' = [task EXCEPT ![w].step = step]

\* Mutant of clear_alias: the clear is forgotten.
clear_alias_Skip(w) ==
  /\ task[w].step = "clear"
  /\ To(w, "save")
  /\ UNCHANGED <<alias, live, workers, missed, torn, writes>>

\* T0a: the target's own alias goes; a failure is logged and swallowed.
clear_alias(w) ==
  /\ task[w].step = "clear"
  /\ \/ /\ alias' = [alias EXCEPT ![task[w].target] = NoConv]
        /\ torn' = torn
     \/ /\ MayFail /\ alias[task[w].target] # NoConv
        /\ alias' = alias
        /\ torn' = TRUE
  /\ To(w, "save")
  /\ UNCHANGED <<live, workers, missed, writes>>

\* T0b: the upsert, last write wins.
save_alias(w) ==
  /\ task[w].step = "save"
  /\ alias' = [alias EXCEPT ![task[w].old] = task[w].target]
  /\ To(w, "publish")
  /\ UNCHANGED <<live, workers, missed, torn, writes>>

\* T1: the events reach the other workers; or the callback fails, which is
\* logged; or it raises InvalidationFailedError, and nothing is evicted here.
publish(w) ==
  LET c == task[w].old
      Others == Worker \ {w}
  IN  /\ task[w].step = "publish"
      /\ \/ /\ \E ids \in EventIds(c, task[w].target) :
                 inbox' = [v \in Worker |-> IF v = w THEN inbox[v]
                                                     ELSE inbox[v] \cup ids]
            /\ missed' = missed \ (Others \X {c})
            /\ To(w, "evict")
         \/ /\ MayFail
            /\ missed' = missed \cup (Others \X {c})
            /\ To(w, "evict")
            /\ inbox' = inbox
         \/ /\ MayFail
            /\ missed' = missed \cup (Worker \X {c})
            /\ task' = [task EXCEPT ![w] = NoTask]
            /\ inbox' = inbox
      /\ UNCHANGED <<alias, live, building, cache, torn, writes>>

\* Mutant of evict: remove_conversation does not take the registry's lock.
evict_NoLock(w) ==
  /\ task[w].step = "evict"
  /\ cache' = [cache EXCEPT ![w] = @ \ Held(w)]
  /\ missed' = missed \ {<<w, task[w].old>>}
  /\ task' = [task EXCEPT ![w] = NoTask]
  /\ UNCHANGED <<alias, live, building, inbox, torn, writes>>

\* T1.5: remove_conversation of both ids waits for an engine under construction.
evict(w) ==
  /\ task[w].step = "evict"
  /\ building[w] = NoConv
  /\ cache' = [cache EXCEPT ![w] = @ \ Held(w)]
  /\ missed' = missed \ {<<w, task[w].old>>}
  /\ task' = [task EXCEPT ![w] = NoTask]
  /\ UNCHANGED <<alias, live, building, inbox, torn, writes>>

-----------------------------------------------------------------------------
(* Engines.                                                                *)

\* get_or_create: one redirect, then the engine resolves the rest; a redirected
\* engine needs an attachable terminal.
Build(w, c) ==
  LET r == IF alias[c] # NoConv THEN alias[c] ELSE c
      t == walk_conversation_alias_chain(r)
  IN  /\ building[w] = NoConv
      /\ r \notin cache[w]
      /\ t # NoConv /\ (t # r => t \in live)
      /\ building' = [building EXCEPT ![w] = t]
      /\ UNCHANGED <<alias, live, task, cache, inbox, missed, torn, writes>>

\* The engine enters the registry and the lock is released.
EnterRegistry(w) ==
  /\ building[w] # NoConv
  /\ cache' = [cache EXCEPT ![w] = @ \cup {building[w]}]
  /\ building' = [building EXCEPT ![w] = NoConv]
  /\ UNCHANGED <<alias, live, task, inbox, missed, torn, writes>>

\* A subscriber evicts what the events name.
Deliver(w) ==
  /\ inbox[w] # {} /\ building[w] = NoConv
  /\ cache' = [cache EXCEPT ![w] = @ \ inbox[w]]
  /\ missed' = missed \ ({w} \X inbox[w])
  /\ inbox' = [inbox EXCEPT ![w] = {}]
  /\ UNCHANGED <<alias, live, task, building, torn, writes>>

\* The dashboard deletes a conversation; aliases to it stay.
delete_conversation(w, c) ==
  /\ c \in live /\ building[w] = NoConv /\ Count
  /\ live' = live \ {c}
  /\ cache' = [cache EXCEPT ![w] = @ \ {c}]
  /\ UNCHANGED <<alias, task, building, inbox, missed, torn>>

\* merge_conversation_data, one transaction; its events go out after the commit
\* and a failure is only logged.  An alias of the target stays.
merge_conversation_data(w, c, t) ==
  /\ c # t /\ c \in live /\ t \in live
  /\ task[w] = NoTask /\ Free(w, {c, t}) /\ Count
  /\ torn' = (torn \/ alias[t] # NoConv)
  /\ alias' = [alias EXCEPT ![c] = t]
  /\ live' = live \ {c}
  /\ \/ /\ \E ids \in EventIds(c, t) :
             inbox' = [v \in Worker |-> inbox[v] \cup ids]
        /\ missed' = missed
     \/ /\ MayFail
        /\ missed' = missed \cup (Worker \X {c})
        /\ inbox' = inbox
  /\ UNCHANGED <<task, building, cache>>

\* A worker dies; what it still had to publish is lost.
Crash(w) ==
  /\ missed' = IF task[w].step = "publish"
               THEN missed \cup (Worker \X {task[w].old}) ELSE missed
  /\ task' = [task EXCEPT ![w] = NoTask]
  /\ building' = [building EXCEPT ![w] = NoConv]
  /\ cache' = [cache EXCEPT ![w] = {}]
  /\ inbox' = [inbox EXCEPT ![w] = {}]
  /\ UNCHANGED <<alias, live, torn, writes>>

Init ==
  /\ alias = [c \in Conv |-> NoConv] /\ live = Conv
  /\ task = [w \in Worker |-> NoTask] /\ building = [w \in Worker |-> NoConv]
  /\ cache = [w \in Worker |-> {}] /\ inbox = [w \in Worker |-> {}]
  /\ missed = {} /\ torn = FALSE /\ writes = 0

Step(w) ==
  \/ clear_alias(w) \/ save_alias(w) \/ publish(w) \/ evict(w)
  \/ EnterRegistry(w) \/ Deliver(w) \/ Crash(w)

Next ==
  \E w \in Worker :
    \/ Step(w)
    \/ \E c \in Conv : Build(w, c) \/ delete_conversation(w, c)
    \/ \E c, t \in Conv : \/ attach(w, c, t) \/ link_predecessor(w, c, t)
                          \/ merge_conversation_data(w, c, t)

Spec == Init /\ [][Next]_vars

-----------------------------------------------------------------------------
(* Properties.                                                             *)

\* The types of the alias table, the attaches and the registries.
AliasTypeOK ==
  /\ alias \in [Conv -> Conv \cup {NoConv}]
  /\ live \subseteq Conv
  /\ task \in [Worker -> Task]
  /\ building \in [Worker -> Conv \cup {NoConv}]
  /\ cache \in [Worker -> SUBSET Conv]
  /\ inbox \in [Worker -> SUBSET Conv]
  /\ missed \subseteq Worker \X Conv
  /\ torn \in BOOLEAN /\ writes \in 0..MaxWrite

\* Attaches, links and merges of any number of workers never make the aliases
\* cyclic, however often a chat goes back and forth, unless a target kept an
\* alias of its own: every set of ids has one whose alias leads out of it.
NoAliasCycle ==
  torn \/ \A S \in SUBSET Conv :
             S # {} => \E c \in S : alias[c] \notin S

\* A worker that still serves an id which now redirects elsewhere is about to
\* evict it: the attach has not published yet, or its event or its own eviction
\* is under way.  The exceptions are the failures that the callers report.
NoStaleBinding ==
  \A w \in Worker : \A b \in cache[w] :
    alias[b] # NoConv =>
      \/ <<w, b>> \in missed
      \/ b \in inbox[w]
      \/ \E v \in Worker : /\ task[v].old = b
                           /\ \/ task[v].step = "publish"
                              \/ v = w /\ task[v].step = "evict"

\* The eviction list of an event against the walks, in any alias graph, a cyclic
\* one included: every id on it has a walk that passes the aliased one, and every
\* id whose walk does is on it, unless the walk up to there goes through an id
\* with more sources than the search keeps.
ReverseDependentsFollowWalks ==
  \A t \in Conv : \A D \in compute_reverse_dependents(t) :
    /\ \A x \in D : x # t /\ \E i \in 1..MaxHops : Chain(x, MaxHops)[i] = t
    /\ \A x \in Conv \ {t} : \A i \in 1..MaxHops :
         Chain(x, MaxHops)[i] = t =>
           x \in D \/ \E k \in 1..i : Hot(Chain(x, MaxHops)[k], t)

\* "capped at max_hops levels of depth and MAX_REVERSE_DEPENDENT_FAN_OUT
\* per-level fan-out": no more than MaxFanOut ids first reach t in i hops.
FanOutPerLevel ==
  \A t \in Conv : \A D \in compute_reverse_dependents(t) : \A i \in 1..MaxHops :
    Cardinality({x \in D : /\ Chain(x, MaxHops)[i] = t
                           /\ \A k \in 1..i - 1 : Chain(x, MaxHops)[k] # t})
      <= MaxFanOut

\* "Stale conversation markers embedded in old assistant responses keep
\* resolving because they follow the alias chain": no id is beyond the walk.
MarkersKeepResolving ==
  \A c \in Conv : walk_conversation_alias_chain(c) # NoConv

=============================================================================

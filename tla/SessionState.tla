---------------------------- MODULE SessionState ----------------------------
(***************************************************************************)
(* The session state of one conversation in provider mode                  *)
(* (proxy/session_state.py): a checkpoint in Redis, which is authoritative, *)
(* its best-effort backup in the engine_state table, the durable lifecycle  *)
(* row that fences deletions, and the engines that workers keep in memory.  *)
(*                                                                         *)
(* A checkpoint's content is the set of requests it contains, each tagged  *)
(* with the generation of the conversation it was served in.  A request is *)
(* load, serve, save, backup, flag; deletion, recreation and marker repair *)
(* take the lifecycle lease, and everything else interleaves with them.    *)
(***************************************************************************)
EXTENDS Naturals, FiniteSets

CONSTANTS Worker,        \* processes that serve the conversation
          Repairer,      \* the process that repairs markers
          Nothing,       \* no key, no row, no engine
          MaxGeneration, \* bound on the durable generation
          MaxRequest,    \* bound on served requests
          MaxRepair,     \* bound on marker repairs
          MayFail,       \* Redis and Postgres calls may fail
          MayLose        \* Redis may lose its keys

ASSUME SessionAssumption ==
  /\ Repairer \notin Worker
  /\ MaxGeneration \in Nat /\ MaxRequest \in Nat /\ MaxRepair \in Nat
  /\ MayFail \in BOOLEAN /\ MayLose \in BOOLEAN

VARIABLES redis,      \* the vc session key: a checkpoint, a tombstone or Nothing
          stale,      \* the vc:store_stale key
          generation, \* conversation_lifecycle.generation
          deleted,    \* conversation_lifecycle.deleted
          backup,     \* content of the engine_state row, or Nothing
          engine,     \* per worker: what its engine holds, or Nothing
          step,       \* where each actor is in its request
          hand,       \* what it carries to its next step
          lease,      \* the lifecycle operation in progress
          served,     \* number of requests served
          repairs,    \* number of repairs committed
          faults      \* history: what has gone wrong with the stores

stores == <<redis, stale, generation, deleted, backup>>
actors == <<engine, step, hand>>
bounds == <<served, repairs>>
vars == <<redis, stale, generation, deleted, backup, engine, step, hand,
          lease, served, repairs, faults>>

Actor == Worker \cup {Repairer}
Content == SUBSET ((0 .. MaxGeneration) \X (1 .. MaxRequest))
MaxVersion == MaxRequest + MaxRepair + 1
State ==
  [generation : 0 .. MaxGeneration, version : 0 .. MaxVersion,
   deleted : BOOLEAN, content : Content]

\* A key that is missing is no blob.
ASSUME NothingAssumption == Nothing \notin State

Checkpoint(g, v, c) ==
  [generation |-> g, version |-> v, deleted |-> FALSE, content |-> c]

\* Higher than any version a save writes.
Tombstone ==
  [generation |-> 0, version |-> MaxVersion, deleted |-> TRUE, content |-> {}]

Live(blob) == blob # Nothing /\ ~blob.deleted

Init ==
  /\ redis = Nothing /\ stale = FALSE
  /\ generation = 0 /\ deleted = FALSE /\ backup = Nothing
  /\ engine = [w \in Worker |-> Nothing]
  /\ step = [a \in Actor |-> "idle"]
  /\ hand = [a \in Actor |-> Nothing]
  /\ lease = "free"
  /\ served = 0 /\ repairs = 0 /\ faults = {}

Goto(a, s, h) ==
  /\ step' = [step EXCEPT ![a] = s]
  /\ hand' = [hand EXCEPT ![a] = h]

(***************************************************************************)
(* A worker's request.                                                     *)
(***************************************************************************)

\* Engine construction activates the conversation, which a deleted one
\* refuses, and starts with an empty checkpoint of version 0.
Build(w) ==
  /\ step[w] = "idle"
  /\ ~deleted
  /\ engine' = [engine EXCEPT ![w] = Checkpoint(generation, 0, {})]
  /\ UNCHANGED <<stores, step, hand, lease, bounds, faults>>

\* An engine keeps what it holds when the version offered is one it already
\* loaded or wrote; a state of version 0, as the backup's are, always replaces.
Hydrated(own, incoming) ==
  IF incoming.version > 0 /\ incoming.version <= own.version
  THEN own ELSE incoming

\* Mutant of Receive: a tombstone is hydrated like any other state.
Receive_Tombstone(w, state) ==
  /\ engine' = [engine EXCEPT ![w] = Hydrated(@, state)]
  /\ Goto(w, "serve", Nothing)

\* A tombstone makes the caller drop the engine.
Receive(w, state) ==
  /\ engine' = [engine EXCEPT ![w] =
                  IF state.deleted THEN Nothing ELSE Hydrated(@, state)]
  /\ Goto(w, IF state.deleted THEN "idle" ELSE "serve", Nothing)

load(w) ==
  /\ step[w] = "idle" /\ engine[w] # Nothing /\ served < MaxRequest
  /\ \/ redis # Nothing /\ Receive(w, redis)
     \/ /\ redis = Nothing \/ MayFail
        /\ Goto(w, "fallback", Nothing) /\ UNCHANGED engine
  /\ UNCHANGED <<stores, lease, bounds, faults>>

\* The fallback refuses a deleted conversation and a backup known to be stale;
\* a check that fails also refuses.
FallbackCheck(w) ==
  /\ step[w] = "fallback"
  /\ \/ deleted /\ Receive(w, Tombstone)
     \/ /\ ~deleted /\ ~stale
        /\ Goto(w, "read", Nothing) /\ UNCHANGED engine
     \/ /\ ~deleted /\ (stale \/ MayFail)
        /\ Goto(w, "serve", Nothing) /\ UNCHANGED engine
  /\ UNCHANGED <<stores, lease, bounds, faults>>

\* The row is selected first ...
FallbackRead(w) ==
  /\ step[w] = "read"
  /\ IF backup = Nothing
     THEN Goto(w, "serve", Nothing)
     ELSE Goto(w, "label", Checkpoint(generation, 0, backup))
  /\ UNCHANGED <<engine, stores, lease, bounds, faults>>

\* ... and labelled with the generation of a second query.
FallbackLabel(w) ==
  /\ step[w] = "label"
  /\ Receive(w, [hand[w] EXCEPT !.generation = generation])
  /\ faults' = IF hand[w].generation = generation
               THEN faults ELSE faults \cup {"straddled"}
  /\ UNCHANGED <<stores, lease, bounds>>

\* The request itself adds to what the engine holds.
Serve(w) ==
  /\ step[w] = "serve" /\ served < MaxRequest
  /\ served' = served + 1
  /\ engine' = [engine EXCEPT
       ![w].content = @ \cup {<<engine[w].generation, served + 1>>}]
  /\ Goto(w, "save", Nothing)
  /\ UNCHANGED <<stores, lease, repairs, faults>>

\* Mutant of Accepts: the generation is not compared.
Accepts_AnyGeneration(state) ==
  redis # Nothing => ~redis.deleted /\ redis.version <= state.version

\* Mutant of Accepts: the version is not compared.
Accepts_AnyVersion(state) ==
  redis # Nothing => ~redis.deleted /\ redis.generation = state.generation

\* What the WATCH/GET part of save lets through.
Accepts(state) ==
  redis # Nothing => /\ ~redis.deleted
                     /\ redis.generation = state.generation
                     /\ redis.version <= state.version

Bumped(state) == [state EXCEPT !.version = @ + 1]

\* Mutant of save: the backup is taken whether or not Redis took the save.
save_BackupAlways(w) ==
  /\ step[w] = "save"
  /\ \/ Accepts(engine[w]) /\ redis' = Bumped(engine[w])
     \/ ~Accepts(engine[w]) /\ UNCHANGED redis
  /\ Goto(w, "backup", Bumped(engine[w]))
  /\ UNCHANGED <<stale, generation, deleted, backup, engine, lease, bounds,
                 faults>>

\* A save is rejected, committed, or fails; a failed one may have been
\* committed with its reply lost, and then no backup is taken.
save(w) ==
  /\ step[w] = "save"
  /\ LET state == engine[w] IN
     \/ /\ Accepts(state)
        /\ redis' = Bumped(state)
        /\ \/ Goto(w, "backup", Bumped(state))
           \/ MayFail /\ Goto(w, "idle", Nothing)
     \/ /\ ~Accepts(state) \/ MayFail
        /\ Goto(w, "idle", Nothing) /\ UNCHANGED redis
  /\ UNCHANGED <<stale, generation, deleted, backup, engine, lease, bounds,
                 faults>>

\* Mutant of _save_to_store: the upsert does not check the lifecycle row.
_save_to_store_Unfenced(a) ==
  /\ step[a] = "backup"
  /\ backup' = hand[a].content
  /\ Goto(a, "clear", hand[a])
  /\ UNCHANGED <<redis, stale, generation, deleted, engine, lease, bounds,
                 faults>>

\* The backup upsert, refused for a deleted conversation or another generation.
_save_to_store(a) ==
  /\ step[a] = "backup"
  /\ LET state == hand[a]
         current == ~deleted /\ state.generation = generation
     IN \/ /\ current
           /\ backup' = state.content
           /\ Goto(a, "clear", state)
        \/ /\ ~current \/ MayFail
           /\ UNCHANGED backup
           /\ Goto(a, "mark", state)
  /\ UNCHANGED <<redis, stale, generation, deleted, engine, lease, bounds,
                 faults>>

\* The stale flag follows the backup's outcome; then the engine notes the
\* version its save wrote and the repair gives the lease back.
Flag(a) ==
  /\ step[a] \in {"clear", "mark"}
  /\ \/ stale' = (step[a] = "mark")
     \/ MayFail /\ UNCHANGED stale
  /\ engine' = IF a \in Worker
               THEN [engine EXCEPT ![a].version = hand[a].version]
               ELSE engine
  /\ lease' = IF a = Repairer THEN "free" ELSE lease
  /\ Goto(a, "idle", Nothing)
  /\ UNCHANGED <<redis, generation, deleted, backup, bounds, faults>>

\* A worker dies with its engine, wherever it is.
Crash(w) ==
  /\ step[w] # "idle"
  /\ engine' = [engine EXCEPT ![w] = Nothing]
  /\ Goto(w, "idle", Nothing)
  /\ UNCHANGED <<stores, lease, bounds, faults>>

(***************************************************************************)
(* Marker repair: an exact-preimage compare-and-swap under the lease.      *)
(***************************************************************************)

\* The caller reads the durable generation and the Redis preimage.
RepairRead ==
  /\ step[Repairer] = "idle" /\ repairs < MaxRepair
  /\ ~deleted
  /\ redis # Nothing => ~redis.deleted /\ redis.generation <= generation
  /\ Goto(Repairer, "repair", [preimage |-> redis, generation |-> generation])
  /\ UNCHANGED <<stores, engine, lease, bounds, faults>>

repair_session_state_markers ==
  /\ step[Repairer] = "repair" /\ lease = "free"
  /\ LET seen == hand[Repairer].preimage
         g == hand[Repairer].generation
         base == IF seen = Nothing THEN Checkpoint(g, 0, {}) ELSE seen
     IN IF /\ ~deleted /\ generation = g
           /\ redis = seen /\ base.generation = g
        THEN /\ redis' = Bumped(base)
             /\ repairs' = repairs + 1
             /\ lease' = "repair"
             /\ Goto(Repairer, "backup", Bumped(base))
        ELSE /\ Goto(Repairer, "idle", Nothing)
             /\ UNCHANGED <<redis, repairs, lease>>
  /\ UNCHANGED <<stale, generation, deleted, backup, engine, served, faults>>

(***************************************************************************)
(* Deletion and recreation, under the lifecycle lease.                     *)
(***************************************************************************)

\* A failing tombstone does not stop the durable half of the deletion.
publish_tombstone ==
  /\ lease = "free" /\ generation < MaxGeneration
  /\ lease' = "tombstoned"
  /\ \/ redis' = Tombstone /\ UNCHANGED faults
     \/ /\ MayFail
        /\ redis' \in {redis, Tombstone}
        /\ faults' = faults \cup {"half_deleted"}
  /\ UNCHANGED <<stale, generation, deleted, backup, actors, bounds>>

begin_conversation_deletion ==
  /\ lease = "tombstoned"
  /\ generation' = generation + 1
  /\ deleted' = TRUE
  /\ lease' = "fenced"
  /\ UNCHANGED <<redis, stale, backup, actors, bounds, faults>>

\* The purge removes the engine_state row with every other row.
delete_conversation ==
  /\ lease = "fenced"
  /\ backup' = Nothing
  /\ lease' = "free"
  /\ faults' = IF redis = Tombstone THEN faults \ {"half_deleted"} ELSE faults
  /\ UNCHANGED <<redis, stale, generation, deleted, actors, bounds>>

\* Either durable call fails, or the process dies: the deletion raises.
DeleteFails ==
  /\ MayFail /\ lease \in {"tombstoned", "fenced"}
  /\ lease' = "free"
  /\ faults' = faults \cup {"half_deleted"}
  /\ UNCHANGED <<stores, actors, bounds>>

\* A deleted conversation is used again.
activate_conversation ==
  /\ lease = "free"
  /\ deleted \/ redis = Tombstone
  /\ deleted => generation < MaxGeneration
  /\ generation' = IF deleted THEN generation + 1 ELSE generation
  /\ deleted' = FALSE
  /\ lease' = "activated"
  /\ UNCHANGED <<redis, stale, backup, actors, bounds, faults>>

\* undelete reads the key ...
UndeleteRead ==
  /\ lease = "activated"
  /\ lease' = IF Live(redis) THEN "free" ELSE "marking"
  /\ UNCHANGED <<stores, actors, bounds, faults>>

\* ... and then sets the marker of the new generation; its failures are only
\* logged, so the tombstone may stay.
UndeleteWrite ==
  /\ lease = "marking"
  /\ \/ redis' = Checkpoint(generation, 0, {})
     \/ MayFail /\ UNCHANGED redis
  /\ lease' = "free"
  /\ UNCHANGED <<stale, generation, deleted, backup, actors, bounds, faults>>

(***************************************************************************)
(* Redis.                                                                  *)
(***************************************************************************)

\* The stale flag lives for five minutes.
StaleExpires ==
  /\ stale
  /\ stale' = FALSE
  /\ UNCHANGED <<redis, generation, deleted, backup, actors, lease, bounds,
                 faults>>

\* Redis loses its keys: a flush, an eviction, a failover, or the day after
\* which a tombstone expires.
Lose ==
  /\ MayLose /\ redis # Nothing
  /\ redis' = Nothing /\ stale' = FALSE
  /\ faults' = faults \cup {"lost"}
  /\ UNCHANGED <<generation, deleted, backup, actors, lease, bounds>>

Next ==
  \/ \E w \in Worker : \/ Build(w) \/ load(w)
                       \/ FallbackCheck(w) \/ FallbackRead(w)
                       \/ FallbackLabel(w)
                       \/ Serve(w) \/ save(w) \/ Crash(w)
  \/ \E a \in Actor : _save_to_store(a) \/ Flag(a)
  \/ RepairRead \/ repair_session_state_markers
  \/ publish_tombstone \/ begin_conversation_deletion
  \/ delete_conversation \/ DeleteFails
  \/ activate_conversation \/ UndeleteRead \/ UndeleteWrite
  \/ StaleExpires \/ Lose

SessionSpec == Init /\ [][Next]_vars

(***************************************************************************)
(* Properties.                                                             *)
(***************************************************************************)

\* Type invariant: in particular no version a save or a repair writes reaches
\* that of the tombstone.
SessionTypeOK ==
  /\ \/ redis \in {Nothing, Tombstone}
     \/ redis \in State /\ redis.version < MaxVersion /\ ~redis.deleted
  /\ stale \in BOOLEAN /\ deleted \in BOOLEAN
  /\ generation \in 0 .. MaxGeneration
  /\ backup = Nothing \/ backup \in Content
  /\ \A w \in Worker :
       \/ engine[w] = Nothing
       \/ engine[w] \in State /\ ~engine[w].deleted
  /\ served \in 0 .. MaxRequest /\ repairs \in 0 .. MaxRepair
  /\ lease \in {"free", "tombstoned", "fenced", "activated", "marking",
                "repair"}
  /\ faults \subseteq {"lost", "straddled", "half_deleted"}

OfGeneration(content, g) == \A x \in content : x[1] = g

\* A recreated conversation never shows what was served before its deletion:
\* whatever workers had in flight when it was deleted and recreated, the
\* checkpoint in Redis contains only requests of the current generation.
\* Excepted are a deletion that raised and was not completed, a Redis that
\* lost its keys and a fallback whose two queries straddled a recreation.
CheckpointOfThisLife ==
  (faults = {} /\ ~deleted /\ Live(redis) /\ lease = "free")
    => redis.generation = generation /\ OfGeneration(redis.content, generation)

\* The same for the durable backup, and there even after Redis has lost its
\* tombstone: save_engine_state checks the lifecycle row in its transaction.
BackupOfThisLife ==
  (faults \subseteq {"lost"} /\ ~deleted /\ backup # Nothing)
    => OfGeneration(backup, generation)

\* The backup never contains a request that the Redis checkpoint of its
\* generation lacks: it is taken only after Redis has accepted the save.
BackupNotAhead ==
  (faults = {} /\ ~deleted /\ Live(redis) /\ backup # Nothing
     /\ lease \in {"free", "repair"})
    => backup \subseteq redis.content

\* A stale worker overwrites neither a newer checkpoint nor a tombstone:
\* within a generation the content of the Redis checkpoint only grows, and a
\* tombstone gives way only to the marker of a recreation.
NewerCheckpointKept ==
  [][ (faults' = {} /\ redis # Nothing /\ redis' # redis /\ Live(redis'))
        => IF redis.deleted
           THEN lease = "marking" /\ redis'.generation = generation
           ELSE /\ redis'.generation = redis.generation
                /\ redis.content \subseteq redis'.content ]_vars

\* An engine that has loaded the live checkpoint holds that checkpoint's
\* generation: "what it holds is at least as new".
EngineOfLoadedGeneration ==
  [][ \A w \in Worker :
        (step[w] = "idle" /\ step'[w] = "serve")
          => engine'[w].generation = redis.generation ]_vars
=============================================================================

------------------------- MODULE SessionStateProofs -------------------------
(***************************************************************************)
(* Theorems about SessionState, for any workers, generations and requests: *)
(* a recreated conversation shows nothing of its earlier life, neither in  *)
(* Redis nor in the backup, the backup is never ahead of Redis, and a      *)
(* stale worker overwrites neither a newer checkpoint nor a tombstone.     *)
(***************************************************************************)
EXTENDS SessionState, Integers, FiniteSetTheorems, TLAPS

\* The steps at which an actor carries a state that Redis has accepted.
Saved == {"backup", "clear", "mark"}

\* The states that actors hold or carry: an engine's, one read from the
\* backup, one whose backup and flag are still to come.
Carries(a) == step[a] \in Saved \cup {"label"}

\* What an actor may have in hand: a state, or the repair's reading.
Hands ==
  State \cup {Nothing}
    \cup [preimage : State \cup {Nothing}, generation : 0 .. MaxGeneration]

\* Shapes: who is where with what in hand.
Shape ==
  /\ SessionTypeOK
  /\ engine \in [Worker -> State \cup {Nothing}]
  /\ step \in [Actor -> {"idle", "fallback", "read", "label", "serve", "save",
                         "repair"} \cup Saved]
  /\ hand \in [Actor -> Hands]
  /\ \A w \in Worker : /\ step[w] # "repair"
                       /\ step[w] # "idle" => engine[w] \in State
  /\ step[Repairer] \in {"idle", "repair"} \cup Saved
  /\ lease = "repair" <=> step[Repairer] \in Saved
  /\ lease = "fenced" => deleted
  /\ lease \in {"activated", "marking"} => ~deleted
  /\ lease = "tombstoned" => generation < MaxGeneration
  /\ \A a \in Actor : Carries(a) => hand[a] \in State /\ ~hand[a].deleted
  /\ \A w \in Worker : step[w] = "label" => hand[w].version = 0
  /\ step[Repairer] = "repair" =>
       /\ repairs < MaxRepair
       /\ hand[Repairer] \in [preimage : State \cup {Nothing},
                              generation : 0 .. MaxGeneration]
       /\ hand[Repairer].preimage # Nothing => ~hand[Repairer].preimage.deleted
  /\ \A w \in Worker : step[w] \in Saved =>
       /\ hand[w].content = engine[w].content
       /\ hand[w].generation = engine[w].generation

\* The workers between serving and saving: each may raise a version by one.
Saving == {w \in Worker : step[w] = "save"}

\* No version is above the requests served and repaired, less those that are
\* still to be saved.
VersionCap == served + repairs - Cardinality(Saving)

Versions ==
  /\ IsFiniteSet(Saving)
  /\ 0 <= VersionCap
  /\ Live(redis) => redis.version <= VersionCap
  /\ \A w \in Worker : engine[w] # Nothing => engine[w].version <= VersionCap
  /\ \A a \in Actor : Carries(a) => hand[a].version <= VersionCap

\* Nobody holds a generation that has not begun.
Generations ==
  /\ Live(redis) => redis.generation <= generation
  /\ \A w \in Worker : engine[w] # Nothing => engine[w].generation <= generation
  /\ \A a \in Actor : Carries(a) => hand[a].generation <= generation

\* A deletion that did not fail has removed the backup, and none is written
\* while the conversation is deleted.
Purged ==
  ("half_deleted" \notin faults /\ deleted /\ lease # "fenced") => backup = Nothing

\* What carries the generation of the current life holds requests of that life
\* only, unless a deletion was left half done or a fallback straddled one.
Contents ==
  (faults \subseteq {"lost"} /\ ~deleted) =>
    /\ backup # Nothing => OfGeneration(backup, generation)
    /\ Live(redis) /\ redis.generation = generation
         => OfGeneration(redis.content, generation)
    /\ \A w \in Worker : engine[w] # Nothing /\ engine[w].generation = generation
         => OfGeneration(engine[w].content, generation)
    /\ \A a \in Actor : Carries(a) /\ hand[a].generation = generation
         => OfGeneration(hand[a].content, generation)

\* Nothing of the current generation has reached Redis.
Fresh ==
  /\ \A w \in Worker : engine[w] # Nothing /\ engine[w].generation = generation
       => engine[w].version = 0
  /\ \A a \in Actor : step[a] \in Saved => hand[a].generation < generation

\* A Redis that never lost its keys and has none: nothing was ever saved.
Virgin ==
  ("lost" \notin faults /\ redis = Nothing) =>
    /\ backup = Nothing
    /\ \A w \in Worker : engine[w] # Nothing => engine[w].version = 0
    /\ \A a \in Actor : ~Carries(a)
    /\ deleted => \A w \in Worker :
         engine[w] # Nothing => engine[w].generation < generation

\* The generation of a deletion is nobody's: Redis does not have it, and what
\* a fallback labelled with it was never saved.
DeletedIsFresh ==
  ("lost" \notin faults /\ deleted) =>
    Fresh /\ (Live(redis) => redis.generation < generation)

\* Versions order contents: who holds the checkpoint's version holds what the
\* checkpoint contains, nobody holds a later one, and what was saved is there.
Ordered ==
  /\ redis.version = 0 => redis.content = {}
  /\ \A w \in Worker : engine[w] # Nothing /\ engine[w].generation = generation =>
       /\ engine[w].version <= redis.version
       /\ engine[w].version = redis.version => redis.content \subseteq engine[w].content
  /\ \A a \in Actor : step[a] \in Saved /\ hand[a].generation = generation =>
       /\ hand[a].version <= redis.version
       /\ hand[a].content \subseteq redis.content
       /\ hand[a].version = redis.version => redis.content \subseteq hand[a].content
  /\ backup # Nothing => backup \subseteq redis.content

\* With stores that have not failed the key is absent, a tombstone or the
\* checkpoint of the current life.
Faultless ==
  faults = {} =>
    \/ redis = Nothing /\ generation = 0 /\ ~deleted /\ lease = "free"
    \/ /\ redis = Tombstone /\ lease # "repair"
       /\ lease # "tombstoned" => Fresh
       /\ lease \notin {"tombstoned", "fenced"} => backup = Nothing
    \/ /\ Live(redis) /\ redis.generation = generation
       /\ ~deleted /\ lease \in {"free", "repair"}
       /\ Ordered

\* The inductive invariant of the session state.
SessionInv ==
  /\ Shape /\ Versions /\ Generations /\ Purged /\ Contents
  /\ Virgin /\ DeletedIsFresh /\ Faultless

-----------------------------------------------------------------------------
(* States and moves.                                                       *)

LEMMA TombstoneIs ==
  /\ Tombstone \in State /\ Tombstone # Nothing
  /\ Tombstone.deleted /\ Tombstone.content = {}
<1>1. Tombstone \in State
  <2>1. {} \in Content
    BY DEF Content
  <2> QED BY <2>1, SessionAssumption DEF Tombstone, State, MaxVersion
<1>2. Tombstone.deleted /\ Tombstone.content = {}
  BY DEF Tombstone
<1> QED BY <1>1, <1>2, NothingAssumption

LEMMA CheckpointIs ==
  ASSUME NEW g \in 0 .. MaxGeneration, NEW c \in Content
  PROVE  LET x == Checkpoint(g, 0, c)
         IN  /\ x \in State /\ x # Nothing /\ ~x.deleted
             /\ x.generation = g /\ x.version = 0 /\ x.content = c
<1>1. Checkpoint(g, 0, c) \in State
  BY SessionAssumption DEF Checkpoint, State, MaxVersion
<1>2. Checkpoint(g, 0, c) # Nothing
  BY <1>1, NothingAssumption
<1> QED BY <1>1, <1>2 DEF Checkpoint

LEMMA BumpedIs ==
  ASSUME NEW x \in State, x.version < MaxVersion
  PROVE  /\ Bumped(x) \in State /\ Bumped(x) # Nothing
         /\ Bumped(x).deleted = x.deleted /\ Bumped(x).generation = x.generation
         /\ Bumped(x).version = x.version + 1 /\ Bumped(x).content = x.content
BY SessionAssumption, NothingAssumption DEF Bumped, State, MaxVersion

\* What a state's fields are.
LEMMA StateFields ==
  ASSUME NEW x \in State
  PROVE  /\ x.generation \in 0 .. MaxGeneration /\ x.version \in Nat
         /\ x.version <= MaxVersion /\ x.deleted \in BOOLEAN
         /\ x.content \in Content /\ x # Nothing
BY SessionAssumption, NothingAssumption DEF State, MaxVersion

\* Goto moves one actor.
LEMMA GotoIs ==
  ASSUME Shape, NEW a \in Actor, NEW s, NEW h, Goto(a, s, h)
  PROVE  /\ step'[a] = s /\ hand'[a] = h
         /\ \A b \in Actor \ {a} : step'[b] = step[b] /\ hand'[b] = hand[b]
BY DEF Goto, Shape

\* Receive drops the engine on a tombstone; otherwise the engine keeps what it
\* holds or takes what it is offered.
LEMMA ReceiveIs ==
  ASSUME Shape, NEW w \in Worker, NEW x \in State, Receive(w, x),
         engine[w] \in State
  PROVE  /\ engine' \in [Worker -> State \cup {Nothing}]
         /\ \A v \in Worker \ {w} : engine'[v] = engine[v]
         /\ \/ /\ x.deleted /\ engine'[w] = Nothing /\ Goto(w, "idle", Nothing)
            \/ /\ ~x.deleted /\ Goto(w, "serve", Nothing)
               /\ engine'[w] \in {engine[w], x}
               /\ engine'[w] # x => x.version > 0 /\ x.version <= engine[w].version
<1>1. engine \in [Worker -> State \cup {Nothing}]
  BY DEF Shape
<1>2. CASE x.deleted
  BY <1>1, <1>2 DEF Receive
<1>3. CASE ~x.deleted
  BY <1>1, <1>3, StateFields DEF Receive, Hydrated
<1> QED BY <1>2, <1>3

-----------------------------------------------------------------------------
(* Shape.                                                                  *)

\* The parts of SessionTypeOK about the stores and the counters.
StoresOK ==
  /\ \/ redis \in {Nothing, Tombstone}
     \/ redis \in State /\ redis.version < MaxVersion /\ ~redis.deleted
  /\ stale \in BOOLEAN /\ deleted \in BOOLEAN
  /\ generation \in 0 .. MaxGeneration
  /\ backup = Nothing \/ backup \in Content
  /\ served \in 0 .. MaxRequest /\ repairs \in 0 .. MaxRepair
  /\ lease \in {"free", "tombstoned", "fenced", "activated", "marking",
                "repair"}
  /\ faults \subseteq {"lost", "straddled", "half_deleted"}

LEMMA ShapeStores == Shape => StoresOK
BY DEF Shape, SessionTypeOK, StoresOK

\* One worker moves; its engine and what it carries have their shapes.
LEMMA WorkerMoves ==
  ASSUME Shape, StoresOK', NEW w \in Worker,
         NEW s \in {"idle", "fallback", "read", "label", "serve", "save"} \cup Saved,
         NEW h \in Hands, Goto(w, s, h),
         UNCHANGED <<lease, generation, deleted, repairs>>,
         engine' \in [Worker -> State \cup {Nothing}],
         \A v \in Worker \ {w} : engine'[v] = engine[v],
         engine'[w] \in State => ~engine'[w].deleted,
         s # "idle" => engine'[w] \in State,
         s \in Saved \cup {"label"} => h \in State /\ ~h.deleted,
         s = "label" => h.version = 0,
         s \in Saved => /\ h.content = engine'[w].content
                        /\ h.generation = engine'[w].generation
  PROVE  Shape'
<1>0. Repairer \in Actor /\ w \in Actor /\ Repairer # w /\ Worker \subseteq Actor
  BY SessionAssumption DEF Actor
<1>1. /\ step'[w] = s /\ hand'[w] = h
      /\ \A b \in Actor \ {w} : step'[b] = step[b] /\ hand'[b] = hand[b]
  BY <1>0, GotoIs
<1>2. step' \in [Actor -> {"idle", "fallback", "read", "label", "serve", "save",
                         "repair"} \cup Saved]
  BY DEF Goto, Shape
<1>3. hand' \in [Actor -> Hands]
  BY DEF Goto, Shape
<1>4. \A v \in Worker : engine'[v] = Nothing \/ (engine'[v] \in State /\ ~engine'[v].deleted)
  BY DEF Shape, SessionTypeOK
<1>5. SessionTypeOK'
  BY <1>4 DEF SessionTypeOK, StoresOK
<1>6. /\ \A v \in Worker : /\ step'[v] # "repair"
                           /\ step'[v] # "idle" => engine'[v] \in State
      /\ \A v \in Worker : step'[v] \in Saved =>
            /\ hand'[v].content = engine'[v].content
            /\ hand'[v].generation = engine'[v].generation
  BY <1>0, <1>1 DEF Shape, Saved
<1>7. \A a \in Actor : Carries(a)' => hand'[a] \in State /\ ~hand'[a].deleted
  BY <1>1 DEF Shape, Carries
<1>8. step'[Repairer] = step[Repairer] /\ hand'[Repairer] = hand[Repairer]
  BY <1>0, <1>1
<1>9. \A v \in Worker : step'[v] = "label" => hand'[v].version = 0
  BY <1>0, <1>1 DEF Shape
<1> QED BY <1>2, <1>3, <1>5, <1>6, <1>7, <1>8, <1>9 DEF Shape

LEMMA ReceiveKeepsShape ==
  ASSUME Shape, StoresOK', NEW w \in Worker, NEW x \in State, Receive(w, x),
         engine[w] \in State, UNCHANGED <<lease, generation, deleted, repairs>>
  PROVE  Shape'
<1>1. /\ engine' \in [Worker -> State \cup {Nothing}]
      /\ \A v \in Worker \ {w} : engine'[v] = engine[v]
  BY ReceiveIs
<1>2. Nothing \in Hands /\ ~engine[w].deleted
  BY NothingAssumption DEF Hands, Shape, SessionTypeOK
<1>3. CASE engine'[w] = Nothing /\ Goto(w, "idle", Nothing)
  BY <1>1, <1>2, <1>3, NothingAssumption, WorkerMoves DEF bounds, Saved
<1>4. CASE ~x.deleted /\ Goto(w, "serve", Nothing) /\ engine'[w] \in {engine[w], x}
  BY <1>1, <1>2, <1>4, WorkerMoves DEF bounds, Saved
<1> QED BY <1>3, <1>4, ReceiveIs

\* The repairer moves.
LEMMA RepairerMoves ==
  ASSUME Shape, StoresOK', NEW s \in {"idle", "repair"} \cup Saved,
         NEW h \in Hands, Goto(Repairer, s, h),
         UNCHANGED <<engine, generation, deleted>>,
         s \in Saved => h \in State /\ ~h.deleted,
         s = "repair" =>
           /\ repairs' < MaxRepair
           /\ h \in [preimage : State \cup {Nothing}, generation : 0 .. MaxGeneration]
           /\ h.preimage # Nothing => ~h.preimage.deleted,
         lease' = "repair" <=> s \in Saved,
         lease' \in {"free", "repair"} \/ lease' = lease
  PROVE  Shape'
<1>0. Repairer \in Actor /\ Repairer \notin Worker /\ Worker \subseteq Actor
  BY SessionAssumption DEF Actor
<1>1. /\ step'[Repairer] = s /\ hand'[Repairer] = h
      /\ \A b \in Actor \ {Repairer} : step'[b] = step[b] /\ hand'[b] = hand[b]
  BY <1>0, GotoIs
<1>2. step' \in [Actor -> {"idle", "fallback", "read", "label", "serve", "save",
                         "repair"} \cup Saved]
  BY DEF Goto, Shape
<1>3. hand' \in [Actor -> Hands]
  BY DEF Goto, Shape
<1>4. \A v \in Worker : engine'[v] = Nothing \/ (engine'[v] \in State /\ ~engine'[v].deleted)
  BY DEF Shape, SessionTypeOK
<1>5. SessionTypeOK'
  BY <1>4 DEF SessionTypeOK, StoresOK
<1>6. /\ \A v \in Worker : /\ step'[v] # "repair"
                           /\ step'[v] # "idle" => engine'[v] \in State
      /\ \A v \in Worker : step'[v] \in Saved =>
            /\ hand'[v].content = engine'[v].content
            /\ hand'[v].generation = engine'[v].generation
  BY <1>0, <1>1 DEF Shape
<1>7. \A a \in Actor : Carries(a)' => hand'[a] \in State /\ ~hand'[a].deleted
  BY <1>1 DEF Shape, Carries, Saved
<1>8. /\ lease' = "fenced" => deleted'
      /\ lease' \in {"activated", "marking"} => ~deleted'
      /\ lease' = "tombstoned" => generation' < MaxGeneration
  BY DEF Shape
<1>9. /\ engine' \in [Worker -> State \cup {Nothing}]
      /\ \A v \in Worker : step'[v] = "label" => hand'[v].version = 0
  BY <1>0, <1>1 DEF Shape
<1> QED BY <1>1, <1>2, <1>3, <1>5, <1>6, <1>7, <1>8, <1>9 DEF Shape

\* A step of the stores alone.
LEMMA StoresMove ==
  ASSUME Shape, StoresOK', UNCHANGED <<engine, step, hand, repairs>>,
         lease' = "repair" <=> lease = "repair",
         lease' = "fenced" => deleted',
         lease' \in {"activated", "marking"} => ~deleted',
         lease' = "tombstoned" => generation' < MaxGeneration
  PROVE  Shape'
<1>1. SessionTypeOK'
  BY DEF Shape, SessionTypeOK, StoresOK
<1>2. \A a \in Actor : Carries(a)' => hand'[a] \in State /\ ~hand'[a].deleted
  BY DEF Shape, Carries
<1> QED BY <1>1, <1>2 DEF Shape

\* With the versions bounded, a save or a repair stays below the tombstone.
LEMMA VersionsBelowTombstone ==
  ASSUME Shape, Versions, NEW v \in Nat, v <= VersionCap
  PROVE  /\ v < MaxVersion
         /\ (repairs < MaxRepair \/ Saving # {}) => v + 1 < MaxVersion
<1>1. IsFiniteSet(Saving)
  BY DEF Versions
<1>2. Cardinality(Saving) \in Nat /\ (Saving # {} => Cardinality(Saving) # 0)
  BY <1>1, FS_CardinalityType, FS_EmptySet
<1>3. served \in Nat /\ repairs \in Nat /\ served <= MaxRequest /\ repairs <= MaxRepair
  BY SessionAssumption DEF Shape, SessionTypeOK
<1> QED BY <1>2, <1>3, SessionAssumption DEF VersionCap, MaxVersion

LEMMA ShapeStep ==
  ASSUME Shape, Versions, Next
  PROVE  Shape'
<1>0. StoresOK /\ Repairer \in Actor /\ Worker \subseteq Actor /\ Repairer \notin Worker
  BY ShapeStores, SessionAssumption DEF Actor
<1>h. Nothing \in Hands /\ State \subseteq Hands
  BY DEF Hands
<1>e. /\ engine \in [Worker -> State \cup {Nothing}]
      /\ \A w \in Worker : engine[w] \in State => ~engine[w].deleted
      /\ \A w \in Worker : step[w] # "idle" => engine[w] \in State
  <2>1. \A w \in Worker : engine[w] \in State => ~engine[w].deleted
    BY NothingAssumption DEF Shape, SessionTypeOK
  <2>2. \A w \in Worker : step[w] # "idle" => engine[w] \in State
    BY DEF Shape
  <2>3. engine \in [Worker -> State \cup {Nothing}]
    BY DEF Shape
  <2> QED BY <2>1, <2>2, <2>3
<1>r. redis # Nothing => redis \in State
  BY <1>0, TombstoneIs DEF StoresOK
<1>1. ASSUME NEW w \in Worker, Build(w) PROVE Shape'
  <2> DEFINE x == Checkpoint(generation, 0, {})
  <2>1. x \in State /\ ~x.deleted
    <3>1. {} \in Content
      BY DEF Content
    <3> QED BY <1>0, <3>1, CheckpointIs DEF StoresOK
  <2> HIDE DEF x
  <2>2. engine' = [engine EXCEPT ![w] = x]
    BY <1>1 DEF Build, x
  <2>3. engine' \in [Worker -> State \cup {Nothing}]
    BY <1>e, <2>1, <2>2
  <2>4. /\ engine'[w] = x
        /\ \A v \in Worker \ {w} : engine'[v] = engine[v]
    BY <1>e, <2>2
  <2>5. UNCHANGED <<stores, step, hand, lease, bounds, faults>> /\ step[w] = "idle"
    BY <1>1 DEF Build
  <2>6. SessionTypeOK'
    BY <1>e, <2>1, <2>4, <2>5 DEF Shape, SessionTypeOK, stores, bounds
  <2>7. \A a \in Actor : Carries(a)' => hand'[a] \in State /\ ~hand'[a].deleted
    BY <2>5 DEF Shape, Carries
  <2>8. \A v \in Worker : /\ step'[v] # "repair"
                          /\ step'[v] # "idle" => engine'[v] \in State
    <3>1. step' = step /\ step'[w] = "idle"
      BY <2>5
    <3> QED BY <1>e, <2>4, <3>1 DEF Shape
  <2>9. \A v \in Worker : step'[v] \in Saved =>
          /\ hand'[v].content = engine'[v].content
          /\ hand'[v].generation = engine'[v].generation
    BY <2>4, <2>5 DEF Shape, Saved
  <2> QED BY <2>3, <2>5, <2>6, <2>7, <2>8, <2>9 DEF Shape, stores, bounds
<1>2. ASSUME NEW w \in Worker, load(w) PROVE Shape'
  <2>1. UNCHANGED <<stores, lease, bounds, faults>> /\ engine[w] \in State
    BY <1>2, <1>e DEF load
  <2>2. StoresOK'
    BY <1>0, <2>1 DEF StoresOK, stores, bounds
  <2>3. CASE redis # Nothing /\ Receive(w, redis)
    BY <1>r, <2>1, <2>2, <2>3, ReceiveKeepsShape DEF stores, bounds
  <2>4. CASE Goto(w, "fallback", Nothing) /\ UNCHANGED engine
    BY <1>e, <1>h, <2>1, <2>2, <2>4, WorkerMoves DEF stores, bounds, Saved
  <2> QED BY <1>2, <2>3, <2>4 DEF load
<1>3. ASSUME NEW w \in Worker, FallbackCheck(w) PROVE Shape'
  <2>1. UNCHANGED <<stores, lease, bounds, faults>> /\ engine[w] \in State
    BY <1>3, <1>e DEF FallbackCheck
  <2>2. StoresOK'
    BY <1>0, <2>1 DEF StoresOK, stores, bounds
  <2>3. CASE Receive(w, Tombstone)
    BY <2>1, <2>2, <2>3, TombstoneIs, ReceiveKeepsShape DEF stores, bounds
  <2>4. CASE Goto(w, "read", Nothing) /\ UNCHANGED engine
    BY <1>e, <1>h, <2>1, <2>2, <2>4, WorkerMoves DEF stores, bounds, Saved
  <2>5. CASE Goto(w, "serve", Nothing) /\ UNCHANGED engine
    BY <1>e, <1>h, <2>1, <2>2, <2>5, WorkerMoves DEF stores, bounds, Saved
  <2> QED BY <1>3, <2>3, <2>4, <2>5 DEF FallbackCheck
<1>4. ASSUME NEW w \in Worker, FallbackRead(w) PROVE Shape'
  <2>1. UNCHANGED <<engine, stores, lease, bounds, faults>> /\ engine[w] \in State
    BY <1>4, <1>e DEF FallbackRead
  <2>2. StoresOK'
    BY <1>0, <2>1 DEF StoresOK, stores, bounds
  <2>3. CASE Goto(w, "serve", Nothing)
    BY <1>e, <1>h, <2>1, <2>2, <2>3, WorkerMoves DEF stores, bounds, Saved
  <2>4. CASE backup # Nothing /\ Goto(w, "label", Checkpoint(generation, 0, backup))
    <3> DEFINE x == Checkpoint(generation, 0, backup)
    <3>1. x \in State /\ ~x.deleted /\ x.version = 0
      BY <1>0, <2>4, CheckpointIs DEF StoresOK
    <3> HIDE DEF x
    <3>2. Goto(w, "label", x)
      BY <2>4 DEF x
    <3> QED BY <1>e, <1>h, <2>1, <2>2, <3>1, <3>2, WorkerMoves DEF stores, bounds, Saved
  <2> QED BY <1>4, <2>3, <2>4 DEF FallbackRead
<1>5. ASSUME NEW w \in Worker, FallbackLabel(w) PROVE Shape'
  <2> DEFINE x == [hand[w] EXCEPT !.generation = generation]
  <2>1. UNCHANGED <<stores, lease, bounds>> /\ engine[w] \in State
    BY <1>5, <1>e DEF FallbackLabel
  <2>2. StoresOK'
    BY <1>0, <1>5, <2>1 DEF FallbackLabel, StoresOK, stores, bounds
  <2>3. x \in State /\ ~x.deleted
    BY <1>0, <1>5 DEF FallbackLabel, Shape, Carries, State, StoresOK
  <2>4. Receive(w, x)
    BY <1>5 DEF FallbackLabel
  <2> HIDE DEF x
  <2> QED BY <2>1, <2>2, <2>3, <2>4, ReceiveKeepsShape DEF stores, bounds
<1>6. ASSUME NEW w \in Worker, Serve(w) PROVE Shape'
  <2>1. UNCHANGED <<stores, lease, repairs, faults>> /\ engine[w] \in State
    BY <1>6, <1>e DEF Serve
  <2>2. StoresOK'
    BY <1>0, <1>6, <2>1, SessionAssumption DEF Serve, StoresOK, stores
  <2> DEFINE c == engine[w].content \cup {<<engine[w].generation, served + 1>>}
             x == [engine[w] EXCEPT !.content = c]
  <2>3. c \in Content
    BY <1>0, <1>6, <2>1, StateFields, SessionAssumption DEF Content, Serve, StoresOK
  <2>4. x \in State /\ x.deleted = engine[w].deleted
    <3> HIDE DEF c
    <3> QED BY <2>1, <2>3 DEF State
  <2>5. engine' = [engine EXCEPT ![w] = x]
    BY <1>6 DEF Serve
  <2> HIDE DEF x
  <2>6. /\ engine' \in [Worker -> State \cup {Nothing}] /\ engine'[w] = x
        /\ \A v \in Worker \ {w} : engine'[v] = engine[v]
    BY <1>e, <2>4, <2>5
  <2>7. Goto(w, "save", Nothing)
    BY <1>6 DEF Serve
  <2> QED BY <1>e, <1>h, <2>1, <2>2, <2>4, <2>6, <2>7, WorkerMoves
             DEF stores, Saved
<1>7. ASSUME NEW w \in Worker, save(w) PROVE Shape'
  <2>1. /\ UNCHANGED <<stale, generation, deleted, backup, engine, lease, bounds, faults>>
        /\ engine[w] \in State
    BY <1>7, <1>e DEF save
  <2> DEFINE x == Bumped(engine[w])
  <2>2. x \in State /\ ~x.deleted /\ x.version < MaxVersion
        /\ x.content = engine[w].content /\ x.generation = engine[w].generation
    <3>1. engine[w].version \in Nat /\ engine[w].version <= VersionCap
      BY <2>1, StateFields DEF Versions
    <3>2. w \in Saving
      BY <1>7 DEF save, Saving
    <3> QED BY <1>e, <2>1, <3>1, <3>2, VersionsBelowTombstone, BumpedIs
  <2> HIDE DEF x
  <2>3. CASE redis' = x /\ Goto(w, "backup", x)
    <3>1. StoresOK'
      BY <1>0, <2>1, <2>2, <2>3 DEF StoresOK, bounds
    <3> QED BY <1>e, <1>h, <2>1, <2>2, <2>3, <3>1, WorkerMoves DEF bounds, Saved
  <2>4. CASE redis' \in {redis, x} /\ Goto(w, "idle", Nothing)
    <3>1. StoresOK'
      BY <1>0, <2>1, <2>2, <2>4 DEF StoresOK, bounds
    <3> QED BY <1>e, <1>h, <2>1, <2>4, <3>1, WorkerMoves DEF bounds, Saved
  <2> QED BY <1>7, <2>3, <2>4 DEF save, x
<1>8. ASSUME NEW w \in Worker, Crash(w) PROVE Shape'
  <2>1. UNCHANGED <<stores, lease, bounds, faults>>
    BY <1>8 DEF Crash
  <2>2. StoresOK'
    BY <1>0, <2>1 DEF StoresOK, stores, bounds
  <2>3. /\ engine' \in [Worker -> State \cup {Nothing}] /\ engine'[w] = Nothing
        /\ \A v \in Worker \ {w} : engine'[v] = engine[v]
    BY <1>8, <1>e DEF Crash
  <2> QED BY <1>8, <1>e, <1>h, <2>1, <2>2, <2>3, NothingAssumption, WorkerMoves
             DEF stores, bounds, Saved, Crash
<1>9. ASSUME NEW a \in Actor, _save_to_store(a) PROVE Shape'
  <2>1. /\ UNCHANGED <<redis, stale, generation, deleted, engine, lease, bounds, faults>>
        /\ hand[a] \in State /\ ~hand[a].deleted
    BY <1>9 DEF _save_to_store, Shape, Carries, Saved
  <2>2. StoresOK'
    BY <1>0, <1>9, <2>1, StateFields DEF _save_to_store, StoresOK, bounds
  <2>3. PICK s \in {"clear", "mark"} : Goto(a, s, hand[a])
    BY <1>9 DEF _save_to_store
  <2>4. CASE a = Repairer
    <3>1. lease = "repair"
      BY <1>9, <2>4 DEF _save_to_store, Shape, Saved
    <3> QED BY <1>h, <2>1, <2>2, <2>3, <2>4, <3>1, RepairerMoves DEF Saved
  <2>5. CASE a \in Worker
    <3>1. /\ hand[a].content = engine[a].content
          /\ hand[a].generation = engine[a].generation /\ engine[a] \in State
      BY <1>9, <1>e, <2>5 DEF _save_to_store, Shape, Saved
    <3> QED BY <1>e, <1>h, <2>1, <2>2, <2>3, <2>5, <3>1, WorkerMoves DEF bounds, Saved
  <2> QED BY <2>4, <2>5 DEF Actor
<1>10. ASSUME NEW a \in Actor, Flag(a) PROVE Shape'
  <2>1. /\ UNCHANGED <<redis, generation, deleted, backup, bounds, faults>>
        /\ hand[a] \in State /\ step[a] \in {"clear", "mark"} /\ Goto(a, "idle", Nothing)
    BY <1>10 DEF Flag, Shape, Carries, Saved
  <2>2. stale' \in BOOLEAN
    BY <1>0, <1>10 DEF Flag, StoresOK
  <2>3. CASE a = Repairer
    <3>1. engine' = engine /\ lease' = "free"
      BY <1>0, <1>10, <2>3 DEF Flag
    <3>2. StoresOK'
      BY <1>0, <2>1, <2>2, <3>1 DEF StoresOK, bounds
    <3> QED BY <1>h, <2>1, <2>3, <3>1, <3>2, RepairerMoves DEF Saved
  <2>4. CASE a \in Worker
    <3>1. engine[a] \in State /\ lease' = lease
      BY <1>0, <1>10, <1>e, <2>1, <2>4 DEF Flag
    <3>2. StoresOK'
      BY <1>0, <2>1, <2>2, <3>1 DEF StoresOK, bounds
    <3> DEFINE x == [engine[a] EXCEPT !.version = hand[a].version]
    <3>3. x \in State /\ x.deleted = engine[a].deleted
      BY <2>1, <3>1 DEF State
    <3>4. engine' = [engine EXCEPT ![a] = x]
      BY <1>10, <2>4 DEF Flag
    <3> HIDE DEF x
    <3>5. /\ engine' \in [Worker -> State \cup {Nothing}] /\ engine'[a] = x
          /\ \A v \in Worker \ {a} : engine'[v] = engine[v]
      BY <1>e, <2>4, <3>3, <3>4
    <3> QED BY <1>e, <1>h, <2>1, <2>4, <3>1, <3>2, <3>3, <3>5, WorkerMoves DEF bounds, Saved
  <2> QED BY <2>3, <2>4 DEF Actor
<1>11. CASE RepairRead
  <2> DEFINE h == [preimage |-> redis, generation |-> generation]
  <2>1. /\ h \in [preimage : State \cup {Nothing}, generation : 0 .. MaxGeneration]
        /\ h.preimage # Nothing => ~h.preimage.deleted
        /\ repairs < MaxRepair
    BY <1>0, <1>11, <1>r DEF RepairRead, StoresOK
  <2>2. Goto(Repairer, "repair", h)
    BY <1>11 DEF RepairRead
  <2> HIDE DEF h
  <2>3. UNCHANGED <<stores, engine, lease, bounds, faults>> /\ step[Repairer] = "idle"
    BY <1>11 DEF RepairRead
  <2>4. StoresOK'
    BY <1>0, <2>3 DEF StoresOK, stores, bounds
  <2>5. h \in Hands /\ lease' # "repair"
    BY <2>1, <2>3 DEF Hands, Shape, Saved
  <2> QED BY <2>1, <2>2, <2>3, <2>4, <2>5, RepairerMoves DEF stores, bounds, Saved
<1>12. CASE repair_session_state_markers
  <2> DEFINE seen == hand[Repairer].preimage
             g == hand[Repairer].generation
             base == IF seen = Nothing THEN Checkpoint(g, 0, {}) ELSE seen
  <2>0. /\ hand[Repairer] \in [preimage : State \cup {Nothing},
                               generation : 0 .. MaxGeneration]
        /\ seen # Nothing => ~seen.deleted
        /\ UNCHANGED <<stale, generation, deleted, backup, engine, served, faults>>
        /\ lease = "free"
    BY <1>12 DEF repair_session_state_markers, Shape
  <2>1. CASE /\ redis = seen /\ redis' = Bumped(base)
             /\ repairs' = repairs + 1 /\ lease' = "repair"
             /\ Goto(Repairer, "backup", Bumped(base))
    <3>1. base \in State /\ ~base.deleted /\ base.version <= VersionCap
      <4>1. CASE seen = Nothing
        <5>1. {} \in Content
          BY DEF Content
        <5> QED BY <2>0, <4>1, <5>1, CheckpointIs DEF Versions
      <4>2. CASE seen # Nothing
        <5>1. Live(redis)
          BY <2>0, <2>1, <4>2 DEF Live
        <5> QED BY <1>r, <2>0, <2>1, <4>2, <5>1 DEF Versions
      <4> QED BY <4>1, <4>2
    <3> HIDE DEF base
    <3>2. repairs < MaxRepair => base.version + 1 < MaxVersion
      BY <3>1, StateFields, VersionsBelowTombstone
    <3>3. repairs < MaxRepair
      \* the reading of the repairer was taken below the bound, and only it repairs
      BY <1>12 DEF repair_session_state_markers, Shape
    <3>4. Bumped(base) \in State /\ ~Bumped(base).deleted /\ Bumped(base).version < MaxVersion
      <4>1. base.version < MaxVersion
        BY <3>1, StateFields, VersionsBelowTombstone
      <4> QED BY <3>1, <3>2, <3>3, <4>1, BumpedIs
    <3>5. StoresOK'
      BY <1>0, <2>0, <2>1, <3>3, <3>4, SessionAssumption DEF StoresOK
    <3> QED BY <1>h, <2>0, <2>1, <3>4, <3>5, RepairerMoves DEF Saved
  <2>2. CASE Goto(Repairer, "idle", Nothing) /\ UNCHANGED <<redis, repairs, lease>>
    <3>1. StoresOK'
      BY <1>0, <2>0, <2>2 DEF StoresOK
    <3> QED BY <1>h, <2>0, <2>2, <3>1, RepairerMoves DEF Saved
  <2> QED BY <1>12, <2>1, <2>2 DEF repair_session_state_markers
<1>13. CASE publish_tombstone \/ begin_conversation_deletion
            \/ delete_conversation \/ DeleteFails
  <2>1. UNCHANGED actors /\ (lease' = "repair" <=> lease = "repair")
        /\ lease' \in {"tombstoned", "fenced", "free"} /\ (lease' = "fenced" => deleted')
        /\ (lease' = "tombstoned" => generation' < MaxGeneration) /\ repairs' = repairs
    BY <1>13 DEF publish_tombstone, begin_conversation_deletion,
                 delete_conversation, DeleteFails, bounds
  <2>2. StoresOK'
    <3>1. CASE publish_tombstone
      BY <1>0, <3>1 DEF publish_tombstone, StoresOK, bounds
    <3>2. CASE begin_conversation_deletion
      \* the deletion began below the bound on generations
      BY <1>0, <3>2, SessionAssumption DEF begin_conversation_deletion, StoresOK, bounds, Shape
    <3>3. CASE delete_conversation \/ DeleteFails
      BY <1>0, <3>3 DEF delete_conversation, DeleteFails, StoresOK, bounds, stores
    <3> QED BY <1>13, <3>1, <3>2, <3>3
  <2> QED BY <2>1, <2>2, StoresMove DEF actors
<1>14. CASE activate_conversation
  <2>1. StoresOK'
    <3>1. generation' \in 0 .. MaxGeneration
      BY <1>0, <1>14, SessionAssumption DEF activate_conversation, StoresOK
    <3> QED BY <1>0, <1>14, <3>1 DEF activate_conversation, StoresOK, bounds
  <2> QED BY <1>14, <2>1, StoresMove DEF activate_conversation, actors, bounds
<1>15. CASE UndeleteRead \/ UndeleteWrite
  <2>0. {} \in Content
    BY DEF Content
  <2>1. StoresOK'
    <3>1. CASE UndeleteRead
      BY <1>0, <3>1 DEF UndeleteRead, StoresOK, bounds, stores
    <3>2. CASE UndeleteWrite
      <4>1. Checkpoint(generation, 0, {}) \in State /\ ~Checkpoint(generation, 0, {}).deleted
            /\ Checkpoint(generation, 0, {}).version = 0
        BY <1>0, <2>0, CheckpointIs DEF StoresOK
      <4> QED BY <1>0, <3>2, <4>1, SessionAssumption
                 DEF UndeleteWrite, StoresOK, bounds, MaxVersion
    <3> QED BY <1>15, <3>1, <3>2
  <2> QED BY <1>15, <2>1, StoresMove
             DEF UndeleteRead, UndeleteWrite, actors, stores, bounds, Shape
<1>16. CASE StaleExpires \/ Lose
  <2>1. StoresOK'
    BY <1>0, <1>16 DEF StaleExpires, Lose, StoresOK, bounds
  <2> QED BY <1>16, <2>1, StoresMove DEF StaleExpires, Lose, actors, bounds, Shape
<1> QED
  BY <1>1, <1>2, <1>3, <1>4, <1>5, <1>6, <1>7, <1>8, <1>9, <1>10, <1>11, <1>12,
     <1>13, <1>14, <1>15, <1>16 DEF Next

-----------------------------------------------------------------------------
(* The kinds of steps, by what they do to the states that are held.        *)

\* Only actor a moves, and only its engine may change.
Only(a) ==
  /\ \A b \in Actor \ {a} : step'[b] = step[b] /\ hand'[b] = hand[b]
  /\ \A v \in Worker \ {a} : engine'[v] = engine[v]

SameStores == UNCHANGED <<redis, generation, deleted, backup>>

\* Nothing new is held: engines are kept or dropped, what is carried is kept
\* or put down.
Quiet ==
  /\ SameStores /\ UNCHANGED bounds /\ faults \subseteq faults'
  /\ \A w \in Worker : engine'[w] \in {engine[w], Nothing}
  /\ \A a \in Actor :
       \/ step'[a] = step[a] /\ hand'[a] = hand[a]
       \/ step[a] \in Saved /\ step'[a] \in Saved /\ hand'[a] = hand[a]
       \/ step'[a] \notin Saved \cup {"label", "save"}
  /\ \/ lease' = lease
     \/ lease = "repair" /\ lease' = "free"
     \/ lease \in {"activated", "marking"} /\ lease' \in {"free", "marking"}

\* An engine is built, loads the checkpoint, or loads the backup.
Takes(w) ==
  /\ SameStores /\ UNCHANGED <<bounds, lease>> /\ faults \subseteq faults'
  /\ Only(w) /\ step'[w] \notin Saved \cup {"label", "save"}
  /\ engine'[w] \in State
  /\ \/ /\ ~deleted /\ engine'[w].version = 0
        /\ engine'[w].generation = generation /\ engine'[w].content = {}
     \/ Live(redis) /\ engine'[w] = redis
     \/ /\ step[w] = "label" /\ engine'[w].version = 0
        /\ engine'[w].generation = generation
        /\ engine'[w].content = hand[w].content
        /\ hand[w].generation # generation => "straddled" \in faults'

\* The backup is selected.
Reads(w) ==
  /\ SameStores /\ UNCHANGED <<bounds, lease, faults, engine>>
  /\ Only(w) /\ step'[w] = "label"
  /\ backup # Nothing /\ hand'[w] \in State /\ hand'[w].content = backup
  /\ hand'[w].generation = generation /\ hand'[w].version = 0

\* A request is served.
Serves(w) ==
  /\ SameStores /\ UNCHANGED <<repairs, lease, faults>>
  /\ Only(w) /\ step[w] = "serve" /\ step'[w] = "save"
  /\ served' = served + 1 /\ engine[w] \in State /\ engine'[w] \in State
  /\ engine'[w].generation = engine[w].generation
  /\ engine'[w].version = engine[w].version
  /\ engine'[w].content = engine[w].content
                            \cup {<<engine[w].generation, served + 1>>}

\* Redis takes a save.
Saves(w) ==
  /\ UNCHANGED <<generation, deleted, backup, bounds, lease, faults, engine>>
  /\ Only(w) /\ step[w] = "save" /\ engine[w] \in State /\ Accepts(engine[w])
  /\ redis' \in State /\ Live(redis')
  /\ redis'.generation = engine[w].generation
  /\ redis'.version = engine[w].version + 1
  /\ redis'.content = engine[w].content
  /\ \/ step'[w] = "backup" /\ hand'[w] = redis'
     \/ step'[w] = "idle"

\* The upsert of the backup.
BacksUp(a) ==
  /\ UNCHANGED <<redis, generation, deleted, bounds, lease, faults, engine>>
  /\ Only(a) /\ step[a] \in Saved /\ step'[a] \in Saved /\ hand'[a] = hand[a]
  /\ ~deleted /\ hand[a].generation = generation
  /\ backup' = hand[a].content

\* An engine notes the version its save wrote.
Notes(w) ==
  /\ SameStores /\ UNCHANGED <<bounds, lease, faults>>
  /\ Only(w) /\ step[w] \in Saved /\ step'[w] = "idle"
  /\ engine[w] \in State /\ engine'[w] \in State
  /\ engine'[w].generation = engine[w].generation
  /\ engine'[w].version = hand[w].version
  /\ engine'[w].content = engine[w].content

\* A repair is committed.
Repairs ==
  /\ UNCHANGED <<generation, deleted, backup, served, faults, engine>>
  /\ Only(Repairer) /\ step'[Repairer] = "backup" /\ hand'[Repairer] = redis'
  /\ lease = "free" /\ lease' = "repair" /\ repairs' = repairs + 1 /\ ~deleted
  /\ redis' \in State /\ Live(redis') /\ redis'.generation = generation
  /\ \/ redis = Nothing /\ redis'.version = 1 /\ redis'.content = {}
     \/ /\ Live(redis) /\ redis.generation = generation
        /\ redis'.version = redis.version + 1 /\ redis'.content = redis.content

\* undelete sets the marker of the new generation.
Marks ==
  /\ lease = "marking" /\ lease' = "free"
  /\ UNCHANGED <<stale, generation, deleted, backup, actors, bounds, faults>>
  /\ redis' \in State /\ Live(redis') /\ redis'.generation = generation
  /\ redis'.version = 0 /\ redis'.content = {}

\* A received state is kept out or taken.
LEMMA ReceiveKinds ==
  ASSUME Shape, NEW w \in Worker, NEW x \in State, Receive(w, x),
         engine[w] \in State
  PROVE  /\ Only(w) /\ step'[w] \in {"idle", "serve"}
         /\ \/ engine'[w] \in {engine[w], Nothing}
            \/ ~x.deleted /\ engine'[w] = x
<1>0. w \in Actor
  BY DEF Actor
<1>1. /\ engine' \in [Worker -> State \cup {Nothing}]
      /\ \A v \in Worker \ {w} : engine'[v] = engine[v]
  BY ReceiveIs
<1>2. CASE engine'[w] = Nothing /\ Goto(w, "idle", Nothing)
  BY <1>0, <1>1, <1>2, GotoIs DEF Only
<1>3. CASE ~x.deleted /\ Goto(w, "serve", Nothing) /\ engine'[w] \in {engine[w], x}
  BY <1>0, <1>1, <1>3, GotoIs DEF Only
<1> QED BY <1>2, <1>3, ReceiveIs

\* A move of one actor that keeps or drops its engine and carries nothing new.
LEMMA QuietMove ==
  ASSUME Shape, NEW a \in Actor, Only(a),
         SameStores, UNCHANGED bounds, faults \subseteq faults',
         a \in Worker => engine'[a] \in {engine[a], Nothing},
         \/ step'[a] \notin Saved \cup {"label", "save"}
         \/ step[a] \in Saved /\ step'[a] \in Saved /\ hand'[a] = hand[a],
         lease' = lease \/ (lease = "repair" /\ lease' = "free")
  PROVE  Quiet
BY DEF Quiet, Only

LEMMA StepKinds ==
  ASSUME Shape, Versions, Next
  PROVE  \/ Quiet
         \/ \E w \in Worker : Takes(w) \/ Reads(w) \/ Serves(w) \/ Saves(w) \/ Notes(w)
         \/ \E a \in Actor : BacksUp(a)
         \/ Repairs \/ Marks
         \/ publish_tombstone \/ begin_conversation_deletion
         \/ delete_conversation \/ DeleteFails
         \/ activate_conversation \/ Lose
<1> DEFINE Goal ==
         \/ Quiet
         \/ \E w \in Worker : Takes(w) \/ Reads(w) \/ Serves(w) \/ Saves(w) \/ Notes(w)
         \/ \E a \in Actor : BacksUp(a)
         \/ Repairs \/ Marks
         \/ publish_tombstone \/ begin_conversation_deletion
         \/ delete_conversation \/ DeleteFails
         \/ activate_conversation \/ Lose
<1>0. StoresOK /\ Repairer \in Actor /\ Worker \subseteq Actor /\ Repairer \notin Worker
  BY ShapeStores, SessionAssumption DEF Actor
<1>e. /\ engine \in [Worker -> State \cup {Nothing}]
      /\ \A w \in Worker : engine[w] \in State => ~engine[w].deleted
      /\ \A w \in Worker : step[w] # "idle" => engine[w] \in State
  <2>1. \A w \in Worker : engine[w] \in State => ~engine[w].deleted
    BY NothingAssumption DEF Shape, SessionTypeOK
  <2> QED BY <2>1 DEF Shape
<1>r. redis # Nothing => redis \in State
  BY <1>0, TombstoneIs DEF StoresOK
<1>c. {} \in Content
  BY DEF Content
<1>1. ASSUME NEW w \in Worker, Build(w) PROVE Takes(w)
  <2> DEFINE x == Checkpoint(generation, 0, {})
  <2>1. /\ x \in State /\ x.version = 0 /\ x.generation = generation
        /\ x.content = {}
    BY <1>0, <1>c, CheckpointIs DEF StoresOK
  <2> HIDE DEF x
  <2>2. engine' = [engine EXCEPT ![w] = x]
    BY <1>1 DEF Build, x
  <2>3. engine'[w] = x /\ \A v \in Worker \ {w} : engine'[v] = engine[v]
    BY <1>e, <2>2
  <2> QED BY <1>1, <2>1, <2>3
             DEF Build, Takes, Only, SameStores, stores, bounds, Saved
<1>2. ASSUME NEW w \in Worker, load(w) PROVE Quiet \/ Takes(w)
  <2>1. /\ UNCHANGED <<stores, lease, bounds, faults>> /\ engine[w] \in State
    BY <1>2, <1>e DEF load
  <2>2. CASE redis # Nothing /\ Receive(w, redis)
    <3>1. /\ Only(w) /\ step'[w] \in {"idle", "serve"}
          /\ \/ engine'[w] \in {engine[w], Nothing}
             \/ ~redis.deleted /\ engine'[w] = redis
      BY <1>r, <2>1, <2>2, ReceiveKinds
    <3>2. CASE engine'[w] \in {engine[w], Nothing}
      BY <1>0, <2>1, <3>1, <3>2, QuietMove DEF SameStores, stores, bounds, Saved
    <3>3. CASE ~redis.deleted /\ engine'[w] = redis
      BY <1>r, <2>1, <2>2, <3>1, <3>3
         DEF Takes, SameStores, stores, bounds, Saved, Live
    <3> QED BY <3>1, <3>2, <3>3
  <2>3. CASE Goto(w, "fallback", Nothing) /\ UNCHANGED engine
    <3>1. Only(w) /\ step'[w] = "fallback"
      BY <1>0, <2>3, GotoIs DEF Only
    <3> QED BY <1>0, <2>1, <2>3, <3>1, QuietMove DEF SameStores, stores, bounds, Saved
  <2> QED BY <1>2, <2>2, <2>3 DEF load
<1>3. ASSUME NEW w \in Worker, FallbackCheck(w) PROVE Quiet
  <2>1. UNCHANGED <<stores, lease, bounds, faults>> /\ engine[w] \in State
    BY <1>3, <1>e DEF FallbackCheck
  <2>2. CASE Receive(w, Tombstone)
    <3>1. /\ Only(w) /\ step'[w] \in {"idle", "serve"}
          /\ engine'[w] \in {engine[w], Nothing}
      BY <2>1, <2>2, TombstoneIs, ReceiveKinds
    <3> QED BY <1>0, <2>1, <3>1, QuietMove DEF SameStores, stores, bounds, Saved
  <2>3. CASE (Goto(w, "read", Nothing) \/ Goto(w, "serve", Nothing)) /\ UNCHANGED engine
    <3>1. Only(w) /\ step'[w] \in {"read", "serve"}
      BY <1>0, <2>3, GotoIs DEF Only
    <3> QED BY <1>0, <2>1, <2>3, <3>1, QuietMove DEF SameStores, stores, bounds, Saved
  <2> QED BY <1>3, <2>2, <2>3 DEF FallbackCheck
<1>4. ASSUME NEW w \in Worker, FallbackRead(w) PROVE Quiet \/ Reads(w)
  <2>1. UNCHANGED <<engine, stores, lease, bounds, faults>>
    BY <1>4 DEF FallbackRead
  <2>2. CASE Goto(w, "serve", Nothing)
    <3>1. Only(w) /\ step'[w] = "serve"
      BY <1>0, <2>1, <2>2, GotoIs DEF Only
    <3> QED BY <1>0, <2>1, <3>1, QuietMove DEF SameStores, stores, bounds, Saved
  <2>3. CASE backup # Nothing /\ Goto(w, "label", Checkpoint(generation, 0, backup))
    <3> DEFINE x == Checkpoint(generation, 0, backup)
    <3>1. /\ x \in State /\ x.version = 0 /\ x.generation = generation
          /\ x.content = backup
      BY <1>0, <2>3, CheckpointIs DEF StoresOK
    <3>2. Only(w) /\ step'[w] = "label" /\ hand'[w] = x
      BY <1>0, <2>1, <2>3, GotoIs DEF Only
    <3> HIDE DEF x
    <3> QED BY <2>1, <2>3, <3>1, <3>2 DEF Reads, SameStores, stores, bounds
  <2> QED BY <1>4, <2>2, <2>3 DEF FallbackRead
<1>5. ASSUME NEW w \in Worker, FallbackLabel(w) PROVE Quiet \/ Takes(w)
  <2> DEFINE x == [hand[w] EXCEPT !.generation = generation]
  <2>0. step[w] = "label" /\ hand[w] \in State /\ engine[w] \in State
    BY <1>0, <1>5, <1>e DEF FallbackLabel, Shape, Carries
  <2>1. /\ UNCHANGED <<stores, lease, bounds>> /\ faults \subseteq faults'
        /\ hand[w].generation # generation => "straddled" \in faults'
    BY <1>5 DEF FallbackLabel
  <2>2. /\ x \in State /\ x.generation = generation /\ x.content = hand[w].content
        /\ x.version = hand[w].version
    BY <1>0, <2>0 DEF State, StoresOK
  <2>3. Receive(w, x)
    BY <1>5 DEF FallbackLabel
  <2> HIDE DEF x
  <2>4. /\ Only(w) /\ step'[w] \in {"idle", "serve"}
        /\ engine'[w] \in {engine[w], Nothing, x}
    BY <2>0, <2>2, <2>3, ReceiveKinds
  <2>5. CASE engine'[w] \in {engine[w], Nothing}
    BY <1>0, <2>1, <2>4, <2>5, QuietMove DEF SameStores, stores, bounds, Saved
  <2>6. CASE engine'[w] = x
    <3>1. hand[w].version = 0
      BY <1>0, <2>0 DEF Shape
    <3> QED BY <2>0, <2>1, <2>2, <2>4, <2>6, <3>1
               DEF Takes, SameStores, stores, bounds, Saved
  <2> QED BY <2>4, <2>5, <2>6
<1>6. ASSUME NEW w \in Worker, Serve(w) PROVE Serves(w)
  <2> DEFINE x == [engine[w] EXCEPT !.content = @ \cup {<<engine[w].generation, served + 1>>}]
  <2>0. engine[w] \in State
    BY <1>6, <1>e DEF Serve
  <2>1. /\ x.generation = engine[w].generation /\ x.version = engine[w].version
        /\ x.content = engine[w].content \cup {<<engine[w].generation, served + 1>>}
    BY <2>0 DEF State
  <2>2. engine' = [engine EXCEPT ![w] = x]
    BY <1>6 DEF Serve
  <2> HIDE DEF x
  <2>3. engine'[w] = x /\ \A v \in Worker \ {w} : engine'[v] = engine[v]
    BY <1>e, <2>2
  <2>4. step'[w] = "save" /\ \A b \in Actor \ {w} : step'[b] = step[b] /\ hand'[b] = hand[b]
    BY <1>0, <1>6, GotoIs DEF Serve
  <2>5. Shape'
    BY ShapeStep
  <2>6. engine'[w] \in State
    BY <2>4, <2>5 DEF Shape
  <2> QED BY <1>6, <2>0, <2>1, <2>3, <2>4, <2>6
             DEF Serve, Serves, Only, SameStores, stores
<1>7. ASSUME NEW w \in Worker, save(w) PROVE Quiet \/ Saves(w)
  <2> DEFINE x == Bumped(engine[w])
  <2>1. /\ UNCHANGED <<stale, generation, deleted, backup, engine, lease, bounds, faults>>
        /\ engine[w] \in State /\ step[w] = "save"
    BY <1>7, <1>e DEF save
  <2>2. /\ x \in State /\ ~x.deleted /\ x # Nothing /\ x.version = engine[w].version + 1
        /\ x.content = engine[w].content /\ x.generation = engine[w].generation
    <3>1. engine[w].version \in Nat /\ engine[w].version <= VersionCap
      BY <2>1, StateFields DEF Versions
    <3> QED BY <1>e, <2>1, <3>1, VersionsBelowTombstone, BumpedIs
  <2> HIDE DEF x
  <2>3. CASE /\ Accepts(engine[w]) /\ redis' = x
             /\ Goto(w, "backup", x) \/ Goto(w, "idle", Nothing)
    <3>1. /\ Only(w)
          /\ \/ step'[w] = "backup" /\ hand'[w] = redis'
             \/ step'[w] = "idle"
      BY <1>0, <2>1, <2>3, GotoIs DEF Only
    <3>2. Live(redis')
      BY <2>2, <2>3 DEF Live
    <3> QED BY <2>1, <2>2, <2>3, <3>1, <3>2 DEF Saves, bounds
  <2>4. CASE UNCHANGED redis /\ Goto(w, "idle", Nothing)
    <3>1. Only(w) /\ step'[w] = "idle"
      BY <1>0, <2>1, <2>4, GotoIs DEF Only
    <3> QED BY <1>0, <2>1, <2>4, <3>1, QuietMove DEF SameStores, Saved
  <2> QED BY <1>7, <2>3, <2>4 DEF save, x
<1>8. ASSUME NEW w \in Worker, Crash(w) PROVE Quiet
  <2>1. engine'[w] = Nothing /\ \A v \in Worker \ {w} : engine'[v] = engine[v]
    BY <1>8, <1>e DEF Crash
  <2>2. Only(w) /\ step'[w] = "idle"
    BY <1>0, <1>8, <2>1, GotoIs DEF Crash, Only
  <2> QED BY <1>0, <1>8, <2>1, <2>2, QuietMove
             DEF Crash, SameStores, stores, bounds, Saved
<1>9. ASSUME NEW a \in Actor, _save_to_store(a) PROVE Quiet \/ BacksUp(a)
  <2>1. /\ UNCHANGED <<redis, stale, generation, deleted, engine, lease, bounds, faults>>
        /\ step[a] = "backup"
    BY <1>9 DEF _save_to_store
  <2>2. PICK s \in {"clear", "mark"} : Goto(a, s, hand[a])
    BY <1>9 DEF _save_to_store
  <2>3. /\ Only(a) /\ step'[a] \in Saved /\ step[a] \in Saved /\ hand'[a] = hand[a]
    BY <2>1, <2>2, GotoIs DEF Only, Saved
  <2>4. CASE UNCHANGED backup
    BY <2>1, <2>3, <2>4, QuietMove DEF SameStores
  <2>5. CASE /\ ~deleted /\ hand[a].generation = generation
             /\ backup' = hand[a].content
    BY <2>1, <2>3, <2>5 DEF BacksUp
  <2> QED BY <1>9, <2>4, <2>5 DEF _save_to_store
<1>10. ASSUME NEW a \in Actor, Flag(a) PROVE Quiet \/ (a \in Worker /\ Notes(a))
  <2>1. /\ SameStores /\ UNCHANGED <<bounds, faults>>
        /\ step[a] \in Saved /\ hand[a] \in State
        /\ step'[a] = "idle"
        /\ \A b \in Actor \ {a} : step'[b] = step[b] /\ hand'[b] = hand[b]
    BY <1>10, GotoIs DEF Flag, SameStores, Saved, Shape, Carries
  <2>2. CASE a = Repairer
    <3>1. engine' = engine /\ lease' = "free" /\ lease = "repair"
      BY <1>0, <1>10, <2>1, <2>2 DEF Flag, Shape
    <3> QED BY <1>0, <2>1, <2>2, <3>1, QuietMove DEF Only, Saved
  <2>3. CASE a \in Worker
    <3> DEFINE x == [engine[a] EXCEPT !.version = hand[a].version]
    <3>0. engine[a] \in State /\ lease' = lease
      BY <1>0, <1>10, <1>e, <2>1, <2>3 DEF Flag, Saved
    <3>1. /\ x \in State /\ x.generation = engine[a].generation
          /\ x.version = hand[a].version /\ x.content = engine[a].content
      BY <2>1, <3>0 DEF State
    <3>2. engine' = [engine EXCEPT ![a] = x]
      BY <1>10, <2>3 DEF Flag
    <3> HIDE DEF x
    <3>3. engine'[a] = x /\ \A v \in Worker \ {a} : engine'[v] = engine[v]
      BY <1>e, <2>3, <3>2
    <3> QED BY <2>1, <2>3, <3>0, <3>1, <3>3 DEF Notes, Only
  <2> QED BY <2>2, <2>3 DEF Actor
<1>11. CASE RepairRead
  <2>1. Only(Repairer) /\ step'[Repairer] = "repair"
    BY <1>0, <1>11, GotoIs DEF RepairRead, Only
  <2> QED BY <1>0, <1>11, <2>1, QuietMove
             DEF RepairRead, SameStores, stores, bounds, Saved
<1>12. ASSUME repair_session_state_markers PROVE Quiet \/ Repairs
  <2> DEFINE seen == hand[Repairer].preimage
             g == hand[Repairer].generation
             base == IF seen = Nothing THEN Checkpoint(g, 0, {}) ELSE seen
  <2>0. /\ hand[Repairer] \in [preimage : State \cup {Nothing},
                               generation : 0 .. MaxGeneration]
        /\ seen # Nothing => ~seen.deleted
        /\ UNCHANGED <<stale, generation, deleted, backup, engine, served, faults>>
        /\ lease = "free"
    BY <1>12 DEF repair_session_state_markers, Shape
  <2>1. CASE /\ ~deleted /\ generation = g /\ redis = seen /\ base.generation = g
             /\ redis' = Bumped(base)
             /\ repairs' = repairs + 1 /\ lease' = "repair"
             /\ Goto(Repairer, "backup", Bumped(base))
    <3>1. /\ base \in State /\ ~base.deleted /\ base.version <= VersionCap
          /\ \/ redis = Nothing /\ base.version = 0 /\ base.content = {}
             \/ Live(redis) /\ base = redis
      <4>1. CASE seen = Nothing
        BY <1>c, <2>0, <2>1, <4>1, CheckpointIs DEF Versions
      <4>2. CASE seen # Nothing
        <5>1. Live(redis)
          BY <2>0, <2>1, <4>2 DEF Live
        <5> QED BY <1>r, <2>0, <2>1, <4>2, <5>1 DEF Versions
      <4> QED BY <4>1, <4>2
    <3>2. base.generation = generation
      BY <2>1
    <3> HIDE DEF base
    <3>3. base.version < MaxVersion
      BY <3>1, StateFields, VersionsBelowTombstone
    <3>4. /\ redis' \in State /\ Live(redis') /\ redis'.generation = generation
          /\ redis'.version = base.version + 1 /\ redis'.content = base.content
      BY <2>1, <3>1, <3>2, <3>3, BumpedIs DEF Live
    <3>5. Only(Repairer) /\ step'[Repairer] = "backup" /\ hand'[Repairer] = redis'
      BY <1>0, <2>0, <2>1, GotoIs DEF Only
    <3> QED BY <2>0, <2>1, <3>1, <3>2, <3>4, <3>5 DEF Repairs
  <2>2. CASE Goto(Repairer, "idle", Nothing) /\ UNCHANGED <<redis, repairs, lease>>
    <3>1. Only(Repairer) /\ step'[Repairer] = "idle"
      BY <1>0, <2>0, <2>2, GotoIs DEF Only
    <3> QED BY <1>0, <2>0, <2>2, <3>1, QuietMove DEF SameStores, bounds, Saved
  <2> QED BY <1>12, <2>1, <2>2 DEF repair_session_state_markers
<1>13. CASE StaleExpires \/ UndeleteRead
  BY <1>13 DEF StaleExpires, UndeleteRead, Quiet, SameStores, actors, stores, bounds
<1>14. ASSUME UndeleteWrite PROVE Quiet \/ Marks
  <2>1. CASE redis' = Checkpoint(generation, 0, {})
    <3>1. /\ redis' \in State /\ redis' # Nothing /\ ~redis'.deleted
          /\ redis'.generation = generation /\ redis'.version = 0 /\ redis'.content = {}
      BY <1>0, <1>c, <2>1, CheckpointIs DEF StoresOK
    <3> QED BY <1>14, <3>1 DEF UndeleteWrite, Marks, Live
  <2>2. CASE UNCHANGED redis
    BY <1>14, <2>2 DEF UndeleteWrite, Quiet, SameStores, actors, bounds
  <2> QED BY <1>14, <2>1, <2>2 DEF UndeleteWrite
<1> QED
  <2>1. ASSUME NEW w \in Worker,
               \/ Build(w) \/ load(w) \/ FallbackCheck(w) \/ FallbackRead(w)
               \/ FallbackLabel(w) \/ Serve(w) \/ save(w) \/ Crash(w)
        PROVE  Goal
    BY <2>1, <1>1, <1>2, <1>3, <1>4, <1>5, <1>6, <1>7, <1>8
  <2>2. ASSUME NEW a \in Actor, _save_to_store(a) \/ Flag(a) PROVE Goal
    <3>1. CASE _save_to_store(a)
      BY <1>9, <3>1
    <3>2. CASE Flag(a)
      BY <1>10, <3>2
    <3> QED BY <2>2, <3>1, <3>2
  <2>3. CASE RepairRead \/ repair_session_state_markers \/ StaleExpires
             \/ UndeleteRead \/ UndeleteWrite
    BY <2>3, <1>11, <1>12, <1>13, <1>14
  <2> QED BY <2>1, <2>2, <2>3 DEF Next

-----------------------------------------------------------------------------
(* Versions.                                                               *)

\* A step after which no more workers are about to save keeps a bound.
LEMMA BoundKept ==
  ASSUME Shape, Versions, Saving' \subseteq Saving,
         served' \in Nat, repairs' \in Nat, served' >= served, repairs' >= repairs
  PROVE  /\ IsFiniteSet(Saving')
         /\ \A v \in Nat : v <= VersionCap => v <= VersionCap'
<1>1. IsFiniteSet(Saving)
  BY DEF Versions
<1>2. /\ IsFiniteSet(Saving') /\ Cardinality(Saving') <= Cardinality(Saving)
  BY <1>1, FS_Subset
<1>3. Cardinality(Saving) \in Nat /\ Cardinality(Saving') \in Nat
  BY <1>1, <1>2, FS_CardinalityType
<1>4. served \in Nat /\ repairs \in Nat
  BY DEF Shape, SessionTypeOK
<1> QED BY <1>2, <1>3, <1>4 DEF VersionCap

\* What the versions of the held states are.
LEMMA HeldVersions ==
  ASSUME Shape
  PROVE  /\ Live(redis) => redis \in State /\ redis.version \in Nat
         /\ \A w \in Worker : engine[w] # Nothing =>
              engine[w] \in State /\ engine[w].version \in Nat
         /\ \A a \in Actor : Carries(a) => hand[a] \in State /\ hand[a].version \in Nat
<1>1. redis # Nothing => redis \in State
  BY TombstoneIs DEF Shape, SessionTypeOK
<1>2. \A w \in Worker : engine[w] # Nothing => engine[w] \in State
  BY DEF Shape, SessionTypeOK
<1>3. \A a \in Actor : Carries(a) => hand[a] \in State
  BY DEF Shape
<1> QED BY <1>1, <1>2, <1>3, StateFields DEF Live

LEMMA VersionsStep ==
  ASSUME Shape, Shape', Versions, Next
  PROVE  Versions'
<1>0. /\ served \in Nat /\ repairs \in Nat /\ served' \in Nat /\ repairs' \in Nat
      /\ Worker \subseteq Actor /\ Repairer \in Actor /\ Repairer \notin Worker
  BY SessionAssumption DEF Shape, SessionTypeOK, Actor
<1>v. /\ IsFiniteSet(Saving) /\ 0 <= VersionCap
      /\ Live(redis) => redis.version <= VersionCap
      /\ \A w \in Worker : engine[w] # Nothing => engine[w].version <= VersionCap
      /\ \A a \in Actor : Carries(a) => hand[a].version <= VersionCap
  BY DEF Versions
<1>h. /\ Live(redis) => redis \in State /\ redis.version \in Nat
      /\ \A w \in Worker : engine[w] # Nothing =>
            engine[w] \in State /\ engine[w].version \in Nat
      /\ \A a \in Actor : Carries(a) => hand[a] \in State /\ hand[a].version \in Nat
  BY HeldVersions
<1>s. ASSUME NEW a \in Actor, Only(a), step'[a] # "save"
      PROVE  Saving' \subseteq Saving
  BY <1>0, <1>s DEF Only, Saving
<1>b. ASSUME Saving' \subseteq Saving, served' >= served, repairs' >= repairs
      PROVE  /\ IsFiniteSet(Saving') /\ 0 <= VersionCap'
             /\ \A v \in Nat : v <= VersionCap => v <= VersionCap'
  BY <1>0, <1>b, <1>v, BoundKept
<1>1. CASE Quiet
  <2>1. Saving' \subseteq Saving
    BY <1>0, <1>1 DEF Quiet, Saving, Saved
  <2>2. redis' = redis /\ served' = served /\ repairs' = repairs
    BY <1>1 DEF Quiet, SameStores, bounds
  <2>3. /\ IsFiniteSet(Saving') /\ 0 <= VersionCap'
        /\ \A v \in Nat : v <= VersionCap => v <= VersionCap'
    BY <1>0, <1>b, <2>1, <2>2
  <2>4. \A w \in Worker : engine'[w] # Nothing => engine'[w].version <= VersionCap'
    BY <1>1, <1>h, <1>v, <2>3 DEF Quiet
  <2>5. \A a \in Actor : Carries(a)' => Carries(a) /\ hand'[a] = hand[a]
    BY <1>1 DEF Quiet, Carries
  <2>6. \A a \in Actor : Carries(a)' => hand'[a].version <= VersionCap'
    BY <1>h, <1>v, <2>3, <2>5
  <2>7. Live(redis') => redis'.version <= VersionCap'
    BY <1>h, <1>v, <2>2, <2>3 DEF Live
  <2> QED BY <2>3, <2>4, <2>6, <2>7 DEF Versions, Live
<1>2. ASSUME NEW w \in Worker, Takes(w) \/ Reads(w) \/ Notes(w) PROVE Versions'
  <2>1. Only(w) /\ step'[w] # "save"
    BY <1>2 DEF Takes, Reads, Notes
  <2>2. redis' = redis /\ served' = served /\ repairs' = repairs
    BY <1>2 DEF Takes, Reads, Notes, SameStores, bounds
  <2>3. /\ IsFiniteSet(Saving') /\ 0 <= VersionCap'
        /\ \A v \in Nat : v <= VersionCap => v <= VersionCap'
    BY <1>0, <1>b, <1>s, <2>1, <2>2
  <2>4. engine'[w] # Nothing => engine'[w].version <= VersionCap'
    <3>1. CASE Takes(w)
      BY <1>h, <1>v, <2>3, <3>1 DEF Takes
    <3>2. CASE Reads(w)
      BY <1>h, <1>v, <2>3, <3>2 DEF Reads
    <3>3. CASE Notes(w)
      <4>1. Carries(w) /\ engine'[w].version = hand[w].version
        BY <3>3 DEF Notes, Carries
      <4> QED BY <1>0, <1>h, <1>v, <2>3, <4>1
    <3> QED BY <1>2, <3>1, <3>2, <3>3
  <2>5. \A v \in Worker : engine'[v] # Nothing => engine'[v].version <= VersionCap'
    BY <1>h, <1>v, <2>1, <2>3, <2>4 DEF Only
  <2>6. Carries(w)' => hand'[w].version = 0
    BY <1>2 DEF Takes, Reads, Notes, Carries, Saved
  <2>7. \A a \in Actor \ {w} : Carries(a)' => Carries(a) /\ hand'[a] = hand[a]
    BY <2>1 DEF Only, Carries
  <2>8. \A a \in Actor : Carries(a)' => hand'[a].version <= VersionCap'
    BY <1>h, <1>v, <2>3, <2>6, <2>7
  <2>9. Live(redis') => redis'.version <= VersionCap'
    BY <1>h, <1>v, <2>2, <2>3 DEF Live
  <2> QED BY <2>3, <2>5, <2>8, <2>9 DEF Versions, Live
<1>3. ASSUME NEW w \in Worker, Serves(w) PROVE Versions'
  <2>1. /\ Only(w) /\ step[w] = "serve" /\ step'[w] = "save"
        /\ served' = served + 1 /\ repairs' = repairs /\ redis' = redis
        /\ engine[w] \in State /\ engine'[w].version = engine[w].version
    BY <1>3 DEF Serves, SameStores
  <2>2. Saving' = Saving \cup {w} /\ w \notin Saving
    BY <1>0, <2>1 DEF Only, Saving
  <2>3. IsFiniteSet(Saving') /\ Cardinality(Saving') = Cardinality(Saving) + 1
    BY <1>v, <2>2, FS_AddElement
  <2>4. Cardinality(Saving) \in Nat
    BY <1>v, FS_CardinalityType
  <2>5. \A v \in Nat : v <= VersionCap => v <= VersionCap'
    BY <1>0, <2>1, <2>3, <2>4 DEF VersionCap
  <2>6. \A v \in Worker : engine'[v] # Nothing => engine'[v].version <= VersionCap'
    <3>1. engine[w] # Nothing
      BY <2>1, NothingAssumption
    <3> QED BY <1>h, <1>v, <2>1, <2>5, <3>1 DEF Only
  <2>7. \A a \in Actor : Carries(a)' => Carries(a) /\ hand'[a] = hand[a]
    BY <2>1 DEF Only, Carries, Saved
  <2>8. \A a \in Actor : Carries(a)' => hand'[a].version <= VersionCap'
    BY <1>h, <1>v, <2>5, <2>7
  <2>9. Live(redis') => redis'.version <= VersionCap'
    BY <1>h, <1>v, <2>1, <2>5 DEF Live
  <2> QED BY <1>v, <2>3, <2>5, <2>6, <2>8, <2>9 DEF Versions, Live
<1>4. ASSUME NEW w \in Worker, Saves(w) PROVE Versions'
  <2>1. /\ Only(w) /\ step[w] = "save" /\ step'[w] \in {"backup", "idle"}
        /\ served' = served /\ repairs' = repairs /\ engine' = engine
        /\ engine[w] \in State /\ redis'.version = engine[w].version + 1
        /\ step'[w] = "backup" => hand'[w] = redis'
    BY <1>4 DEF Saves, bounds
  <2>2. Saving' = Saving \ {w} /\ w \in Saving
    BY <1>0, <2>1 DEF Only, Saving
  <2>3. /\ IsFiniteSet(Saving') /\ Cardinality(Saving') = Cardinality(Saving) - 1
        /\ Cardinality(Saving) \in Nat
    BY <1>v, <2>2, FS_RemoveElement, FS_CardinalityType
  <2>4. \A v \in Nat : v <= VersionCap => v <= VersionCap' /\ v + 1 <= VersionCap'
    BY <1>0, <2>1, <2>3 DEF VersionCap
  <2>5. redis'.version <= VersionCap'
    <3>1. engine[w] # Nothing
      BY <2>1, NothingAssumption
    <3> QED BY <1>h, <1>v, <2>1, <2>4, <3>1
  <2>6. \A v \in Worker : engine'[v] # Nothing => engine'[v].version <= VersionCap'
    BY <1>h, <1>v, <2>1, <2>4
  <2>7. \A a \in Actor \ {w} : Carries(a)' => Carries(a) /\ hand'[a] = hand[a]
    BY <2>1 DEF Only, Carries
  <2>8. Carries(w)' => hand'[w] = redis'
    BY <2>1 DEF Carries, Saved
  <2>9. \A a \in Actor : Carries(a)' => hand'[a].version <= VersionCap'
    BY <1>h, <1>v, <2>4, <2>5, <2>7, <2>8
  <2> QED BY <1>v, <2>3, <2>4, <2>5, <2>6, <2>9 DEF Versions, Live
<1>5. ASSUME NEW a \in Actor, BacksUp(a) PROVE Versions'
  <2>1. /\ Only(a) /\ step'[a] \in Saved /\ step[a] \in Saved /\ hand'[a] = hand[a]
        /\ redis' = redis /\ served' = served /\ repairs' = repairs /\ engine' = engine
    BY <1>5 DEF BacksUp, bounds
  <2>2. /\ IsFiniteSet(Saving') /\ 0 <= VersionCap'
        /\ \A v \in Nat : v <= VersionCap => v <= VersionCap'
    BY <1>0, <1>b, <1>s, <2>1 DEF Saved
  <2>3. \A b \in Actor : Carries(b)' => Carries(b) /\ hand'[b] = hand[b]
    BY <2>1 DEF Only, Carries
  <2>4. \A b \in Actor : Carries(b)' => hand'[b].version <= VersionCap'
    BY <1>h, <1>v, <2>2, <2>3
  <2>5. \A v \in Worker : engine'[v] # Nothing => engine'[v].version <= VersionCap'
    BY <1>h, <1>v, <2>1, <2>2
  <2>6. Live(redis') => redis'.version <= VersionCap'
    BY <1>h, <1>v, <2>1, <2>2 DEF Live
  <2> QED BY <2>2, <2>4, <2>5, <2>6 DEF Versions, Live
<1>6. CASE Repairs
  <2>1. /\ Only(Repairer) /\ step'[Repairer] = "backup" /\ hand'[Repairer] = redis'
        /\ served' = served /\ repairs' = repairs + 1 /\ engine' = engine
        /\ \/ redis'.version = 1
           \/ Live(redis) /\ redis'.version = redis.version + 1
    BY <1>6 DEF Repairs
  <2>2. Saving' = Saving
    BY <1>0, <2>1 DEF Only, Saving
  <2>3. IsFiniteSet(Saving') /\ Cardinality(Saving') \in Nat
    BY <1>v, <2>2, FS_CardinalityType
  <2>4. \A v \in Nat : v <= VersionCap => v <= VersionCap' /\ v + 1 <= VersionCap'
    BY <1>0, <2>1, <2>2, <2>3 DEF VersionCap
  <2>5. redis'.version <= VersionCap'
    <3>1. 0 + 1 <= VersionCap'
      BY <1>v, <2>4
    <3>2. 1 <= VersionCap'
      BY <3>1
    <3> QED BY <1>h, <1>v, <2>1, <2>4, <3>2
  <2>6. \A v \in Worker : engine'[v] # Nothing => engine'[v].version <= VersionCap'
    BY <1>h, <1>v, <2>1, <2>4
  <2>7. \A a \in Actor \ {Repairer} : Carries(a)' => Carries(a) /\ hand'[a] = hand[a]
    BY <2>1 DEF Only, Carries
  <2>8. \A a \in Actor : Carries(a)' => hand'[a].version <= VersionCap'
    BY <1>h, <1>v, <2>1, <2>4, <2>5, <2>7
  <2> QED BY <1>v, <2>3, <2>4, <2>5, <2>6, <2>8 DEF Versions, Live
<1>7. ASSUME UNCHANGED <<actors, bounds>>,
             Live(redis') => redis' = redis \/ redis'.version = 0
      PROVE  Versions'
  <2>1. Saving' = Saving /\ engine' = engine /\ step' = step /\ hand' = hand
        /\ served' = served /\ repairs' = repairs
    BY <1>7 DEF Saving, actors, bounds
  <2>2. VersionCap' = VersionCap
    BY <2>1 DEF VersionCap
  <2>3. Live(redis') => redis'.version <= VersionCap'
    BY <1>7, <1>v, <2>2 DEF Live
  <2> QED BY <1>v, <2>1, <2>2, <2>3 DEF Versions, Live, Carries
<1>8. CASE Marks \/ publish_tombstone \/ begin_conversation_deletion
           \/ delete_conversation \/ DeleteFails \/ activate_conversation \/ Lose
  <2>1. UNCHANGED <<actors, bounds>>
    BY <1>8 DEF Marks, publish_tombstone, begin_conversation_deletion,
       delete_conversation, DeleteFails, activate_conversation, Lose
  <2>2. Live(redis') => redis' = redis \/ redis'.version = 0
    BY <1>8, TombstoneIs
       DEF Marks, publish_tombstone, begin_conversation_deletion, stores,
       delete_conversation, DeleteFails, activate_conversation, Lose, Live
  <2> QED BY <1>7, <2>1, <2>2
<1> QED
  BY <1>1, <1>2, <1>3, <1>4, <1>5, <1>6, <1>8, StepKinds

-----------------------------------------------------------------------------
(* Generations and contents.                                               *)

LEMMA GenerationsStep ==
  ASSUME Shape, Shape', Versions, Generations, Next
  PROVE  Generations'
<1>0. /\ generation \in Nat /\ Worker \subseteq Actor /\ Repairer \in Actor
      /\ Repairer \notin Worker
  BY SessionAssumption DEF Shape, SessionTypeOK, Actor
<1>g. /\ Live(redis) => redis.generation <= generation
      /\ \A w \in Worker : engine[w] # Nothing => engine[w].generation <= generation
      /\ \A a \in Actor : Carries(a) => hand[a].generation <= generation
  BY DEF Generations
<1>h. /\ Live(redis) => redis.generation \in Nat
      /\ \A w \in Worker : engine[w] # Nothing => engine[w].generation \in Nat
      /\ \A a \in Actor : Carries(a) => hand[a].generation \in Nat
  BY HeldVersions, StateFields
<1>1. CASE Quiet
  <2>1. \A a \in Actor : Carries(a)' => Carries(a) /\ hand'[a] = hand[a]
    BY <1>1 DEF Quiet, Carries
  <2> QED BY <1>1, <1>g, <2>1 DEF Quiet, SameStores, Generations, Live
<1>2. ASSUME NEW w \in Worker, Takes(w) \/ Reads(w) \/ Serves(w) \/ Notes(w)
      PROVE  Generations'
  <2>1. Only(w) /\ redis' = redis /\ generation' = generation
    BY <1>2 DEF Takes, Reads, Serves, Notes, SameStores
  <2>2. engine'[w] # Nothing => engine'[w].generation <= generation
    BY <1>0, <1>2, <1>g, NothingAssumption DEF Takes, Reads, Serves, Notes
  <2>3. Carries(w)' => hand'[w].generation <= generation
    BY <1>0, <1>2 DEF Takes, Reads, Serves, Notes, Carries, Saved
  <2>4. \A a \in Actor \ {w} : Carries(a)' => Carries(a) /\ hand'[a] = hand[a]
    BY <2>1 DEF Only, Carries
  <2>5. \A v \in Worker \ {w} : engine'[v] = engine[v]
    BY <2>1 DEF Only
  <2> QED BY <1>g, <2>1, <2>2, <2>3, <2>4, <2>5 DEF Generations, Live
<1>3. ASSUME NEW w \in Worker, Saves(w) PROVE Generations'
  <2>1. /\ Only(w) /\ engine' = engine /\ generation' = generation
        /\ redis'.generation = engine[w].generation /\ engine[w] # Nothing
        /\ Carries(w)' => hand'[w] = redis'
    BY <1>3, NothingAssumption DEF Saves, Carries, Saved
  <2>2. \A a \in Actor \ {w} : Carries(a)' => Carries(a) /\ hand'[a] = hand[a]
    BY <2>1 DEF Only, Carries
  <2> QED BY <1>g, <2>1, <2>2 DEF Generations, Live
<1>4. ASSUME NEW a \in Actor, BacksUp(a) PROVE Generations'
  <2>1. \A b \in Actor : Carries(b)' => Carries(b) /\ hand'[b] = hand[b]
    BY <1>4 DEF BacksUp, Only, Carries
  <2> QED BY <1>4, <1>g, <2>1 DEF BacksUp, Generations, Live
<1>5. CASE Repairs
  <2>1. \A b \in Actor \ {Repairer} : Carries(b)' => Carries(b) /\ hand'[b] = hand[b]
    BY <1>5 DEF Repairs, Only, Carries
  <2> QED BY <1>0, <1>5, <1>g, <2>1 DEF Repairs, Generations, Live
<1>6. ASSUME UNCHANGED actors, generation' \in {generation, generation + 1},
             Live(redis') => redis' = redis \/ redis'.generation = generation'
      PROVE  Generations'
  <2>1. engine' = engine /\ step' = step /\ hand' = hand
    BY <1>6 DEF actors
  <2>2. Live(redis') => redis'.generation <= generation'
    BY <1>0, <1>6, <1>g, <1>h DEF Live
  <2>3. \A w \in Worker : engine'[w] # Nothing => engine'[w].generation <= generation'
    BY <1>0, <1>6, <1>g, <1>h, <2>1
  <2>4. \A a \in Actor : Carries(a)' => hand'[a].generation <= generation'
    BY <1>0, <1>6, <1>g, <1>h, <2>1 DEF Carries
  <2> QED BY <2>2, <2>3, <2>4 DEF Generations, Live
<1>7. CASE Marks \/ publish_tombstone \/ begin_conversation_deletion
           \/ delete_conversation \/ DeleteFails \/ activate_conversation \/ Lose
  <2>1. UNCHANGED actors /\ generation' \in {generation, generation + 1}
    BY <1>7 DEF Marks, publish_tombstone, begin_conversation_deletion, stores,
       delete_conversation, DeleteFails, activate_conversation, Lose
  <2>2. Live(redis') => redis' = redis \/ redis'.generation = generation'
    BY <1>7, TombstoneIs
       DEF Marks, publish_tombstone, begin_conversation_deletion, stores,
       delete_conversation, DeleteFails, activate_conversation, Lose, Live
  <2> QED BY <1>6, <2>1, <2>2
<1> QED BY <1>1, <1>2, <1>3, <1>4, <1>5, <1>7, StepKinds

LEMMA PurgedStep ==
  ASSUME Shape, Shape', Versions, Purged, Next
  PROVE  Purged'
<1>1. CASE Quiet
  BY <1>1 DEF Quiet, SameStores, Purged, Shape
<1>2. CASE \E w \in Worker : Takes(w) \/ Reads(w) \/ Serves(w) \/ Saves(w) \/ Notes(w)
  BY <1>2 DEF Takes, Reads, Serves, Saves, Notes, SameStores, Purged
<1>3. CASE (\E a \in Actor : BacksUp(a)) \/ Repairs \/ Marks
  BY <1>3 DEF BacksUp, Repairs, Marks, Purged, Shape
<1>4. CASE publish_tombstone \/ begin_conversation_deletion \/ DeleteFails
  BY <1>4 DEF publish_tombstone, begin_conversation_deletion, DeleteFails, stores, Purged
<1>5. CASE delete_conversation \/ activate_conversation \/ Lose
  BY <1>5 DEF delete_conversation, activate_conversation, Lose, Purged
<1> QED BY <1>1, <1>2, <1>3, <1>4, <1>5, StepKinds

LEMMA ContentsStep ==
  ASSUME Shape, Shape', Versions, Generations, Purged, Contents, Next
  PROVE  Contents'
<1>0. /\ generation \in Nat /\ Worker \subseteq Actor /\ Repairer \in Actor
      /\ Repairer \notin Worker
  BY SessionAssumption DEF Shape, SessionTypeOK, Actor
<1>h. /\ Live(redis) => redis.generation \in Nat /\ redis.generation <= generation
      /\ \A w \in Worker : engine[w] # Nothing =>
            engine[w].generation \in Nat /\ engine[w].generation <= generation
      /\ \A a \in Actor : Carries(a) =>
            hand[a].generation \in Nat /\ hand[a].generation <= generation
  BY HeldVersions, StateFields DEF Generations
<1> DEFINE Goal ==
        /\ backup' # Nothing => OfGeneration(backup', generation')
        /\ Live(redis') /\ redis'.generation = generation'
             => OfGeneration(redis'.content, generation')
        /\ \A w \in Worker : engine'[w] # Nothing /\ engine'[w].generation = generation'
             => OfGeneration(engine'[w].content, generation')
        /\ \A a \in Actor : Carries(a)' /\ hand'[a].generation = generation'
             => OfGeneration(hand'[a].content, generation')
<1> SUFFICES ASSUME faults' \subseteq {"lost"}, ~deleted'
             PROVE  Goal
  BY DEF Contents, OfGeneration, Live
<1>c. ASSUME faults \subseteq {"lost"}, ~deleted
      PROVE  /\ backup # Nothing => OfGeneration(backup, generation)
             /\ Live(redis) /\ redis.generation = generation
                  => OfGeneration(redis.content, generation)
             /\ \A w \in Worker : engine[w] # Nothing /\ engine[w].generation = generation
                  => OfGeneration(engine[w].content, generation)
             /\ \A a \in Actor : Carries(a) /\ hand[a].generation = generation
                  => OfGeneration(hand[a].content, generation)
  BY <1>c DEF Contents
<1>1. CASE Quiet
  <2>1. \A a \in Actor : Carries(a)' => Carries(a) /\ hand'[a] = hand[a]
    BY <1>1 DEF Quiet, Carries
  <2>2. faults \subseteq {"lost"} /\ ~deleted
    BY <1>1 DEF Quiet, SameStores
  <2> QED BY <1>1, <1>c, <2>1, <2>2 DEF Quiet, SameStores
<1>2. ASSUME NEW w \in Worker, Takes(w) \/ Reads(w) \/ Serves(w) \/ Notes(w)
      PROVE  Goal
  <2>1. /\ Only(w) /\ SameStores /\ faults \subseteq {"lost"} /\ ~deleted
    <3>1. Only(w) /\ SameStores /\ faults \subseteq faults'
      BY <1>2 DEF Takes, Reads, Serves, Notes
    <3> QED BY <3>1 DEF SameStores
  <2>2. engine'[w] # Nothing /\ engine'[w].generation = generation
          => OfGeneration(engine'[w].content, generation)
    <3>1. CASE Takes(w)
      <4>1. CASE engine'[w].content = {}
        BY <4>1 DEF OfGeneration
      <4>2. CASE Live(redis) /\ engine'[w] = redis
        BY <1>c, <2>1, <4>2
      <4>3. CASE /\ step[w] = "label" /\ engine'[w].content = hand[w].content
                 /\ hand[w].generation # generation => "straddled" \in faults'
        <5>1. hand[w].generation = generation /\ Carries(w)
          BY <4>3 DEF Carries
        <5> QED BY <1>0, <1>c, <2>1, <4>3, <5>1
      <4> QED BY <3>1, <4>1, <4>2, <4>3 DEF Takes
    <3>2. CASE Reads(w)
      <4>1. engine' = engine
        BY <3>2 DEF Reads
      <4> QED BY <1>c, <2>1, <4>1
    <3>3. CASE Serves(w)
      <4>1. /\ engine[w] # Nothing /\ engine'[w].generation = engine[w].generation
            /\ engine'[w].content = engine[w].content
                  \cup {<<engine[w].generation, served + 1>>}
        BY <3>3, NothingAssumption DEF Serves
      <4>2. engine[w].generation = generation => OfGeneration(engine[w].content, generation)
        BY <1>c, <2>1, <4>1
      <4>3. <<engine[w].generation, served + 1>>[1] = engine[w].generation
        OBVIOUS
      <4> QED BY <4>1, <4>2, <4>3 DEF OfGeneration
    <3>4. CASE Notes(w)
      BY <1>c, <2>1, <3>4, NothingAssumption DEF Notes
    <3> QED BY <1>2, <3>1, <3>2, <3>3, <3>4
  <2>3. Carries(w)' => hand'[w].content = backup /\ backup # Nothing
    BY <1>2 DEF Takes, Reads, Serves, Notes, Carries, Saved
  <2>4. \A a \in Actor \ {w} : Carries(a)' => Carries(a) /\ hand'[a] = hand[a]
    BY <2>1 DEF Only, Carries
  <2>5. \A v \in Worker \ {w} : engine'[v] = engine[v]
    BY <2>1 DEF Only
  <2>6. generation' = generation /\ redis' = redis /\ backup' = backup
    BY <2>1 DEF SameStores
  <2>7. /\ backup # Nothing => OfGeneration(backup, generation)
        /\ Live(redis) /\ redis.generation = generation
             => OfGeneration(redis.content, generation)
        /\ \A v \in Worker : engine[v] # Nothing /\ engine[v].generation = generation
             => OfGeneration(engine[v].content, generation)
        /\ \A a \in Actor : Carries(a) /\ hand[a].generation = generation
             => OfGeneration(hand[a].content, generation)
    BY <1>c, <2>1
  <2>8. /\ \A v \in Worker : engine'[v] # Nothing /\ engine'[v].generation = generation'
             => OfGeneration(engine'[v].content, generation')
        /\ \A a \in Actor : Carries(a)' /\ hand'[a].generation = generation'
             => OfGeneration(hand'[a].content, generation')
    BY <2>2, <2>3, <2>4, <2>5, <2>6, <2>7
  <2> QED BY <2>6, <2>7, <2>8 DEF Live
<1>3. ASSUME NEW w \in Worker, Saves(w) PROVE Goal
  <2>1. /\ Only(w) /\ engine' = engine /\ generation' = generation /\ backup' = backup
        /\ redis'.generation = engine[w].generation /\ engine[w] # Nothing
        /\ redis'.content = engine[w].content
        /\ Carries(w)' => hand'[w] = redis'
        /\ faults \subseteq {"lost"} /\ ~deleted
    BY <1>3, NothingAssumption DEF Saves, Carries, Saved
  <2>2. \A a \in Actor \ {w} : Carries(a)' => Carries(a) /\ hand'[a] = hand[a]
    BY <2>1 DEF Only, Carries
  <2>3. redis'.generation = generation => OfGeneration(redis'.content, generation)
    BY <1>c, <2>1
  <2>4. \A a \in Actor : Carries(a)' /\ hand'[a].generation = generation'
          => OfGeneration(hand'[a].content, generation')
    BY <1>c, <2>1, <2>2, <2>3
  <2> QED BY <1>c, <2>1, <2>3, <2>4 DEF Live
<1>4. ASSUME NEW a \in Actor, BacksUp(a) PROVE Goal
  <2>1. /\ \A b \in Actor : Carries(b)' => Carries(b) /\ hand'[b] = hand[b]
        /\ Carries(a)
    BY <1>4 DEF BacksUp, Only, Carries
  <2>2. /\ engine' = engine /\ redis' = redis /\ generation' = generation
        /\ hand[a].generation = generation /\ backup' = hand[a].content
        /\ faults \subseteq {"lost"} /\ ~deleted
    BY <1>4 DEF BacksUp
  <2>3. OfGeneration(backup', generation)
    BY <1>c, <2>1, <2>2
  <2>4. \A b \in Actor : Carries(b)' /\ hand'[b].generation = generation'
          => OfGeneration(hand'[b].content, generation')
    BY <1>c, <2>1, <2>2
  <2> QED BY <1>c, <2>2, <2>3, <2>4 DEF Live
<1>5. ASSUME Repairs PROVE Goal
  <2>1. /\ Only(Repairer) /\ hand'[Repairer] = redis' /\ engine' = engine
        /\ backup' = backup /\ generation' = generation
        /\ faults \subseteq {"lost"} /\ ~deleted
    BY <1>5 DEF Repairs
  <2>2. \A b \in Actor \ {Repairer} : Carries(b)' => Carries(b) /\ hand'[b] = hand[b]
    BY <2>1 DEF Only, Carries
  <2>3. OfGeneration(redis'.content, generation)
    <3>1. CASE redis'.content = {}
      BY <3>1 DEF OfGeneration
    <3>2. CASE /\ Live(redis) /\ redis.generation = generation
               /\ redis'.content = redis.content
      BY <1>c, <2>1, <3>2
    <3> QED BY <1>5, <3>1, <3>2 DEF Repairs
  <2>4. \A b \in Actor : Carries(b)' /\ hand'[b].generation = generation'
          => OfGeneration(hand'[b].content, generation')
    BY <1>c, <2>1, <2>2, <2>3
  <2> QED BY <1>c, <2>1, <2>3, <2>4 DEF Live
<1>6. ASSUME UNCHANGED <<actors, generation>>, faults \subseteq faults', ~deleted,
             backup' \in {backup, Nothing},
             Live(redis') => redis' = redis \/ redis'.content = {}
      PROVE  Goal
  <2>1. engine' = engine /\ step' = step /\ hand' = hand /\ generation' = generation
    BY <1>6 DEF actors
  <2>2. faults \subseteq {"lost"}
    BY <1>6
  <2>3. Live(redis') /\ redis'.generation = generation
          => OfGeneration(redis'.content, generation)
    BY <1>6, <1>c, <2>2 DEF OfGeneration, Live
  <2>4. \A b \in Actor : Carries(b)' /\ hand'[b].generation = generation'
          => OfGeneration(hand'[b].content, generation')
    BY <1>6, <1>c, <2>1, <2>2 DEF Carries
  <2> QED BY <1>6, <1>c, <2>1, <2>2, <2>3, <2>4 DEF Live
<1>7. ASSUME Marks \/ publish_tombstone \/ DeleteFails \/ Lose PROVE Goal
  <2>1. /\ UNCHANGED <<actors, generation, backup>> /\ faults \subseteq faults' /\ ~deleted
    BY <1>7 DEF Marks, publish_tombstone, DeleteFails, Lose, stores
  <2>2. Live(redis') => redis' = redis \/ redis'.content = {}
    BY <1>7, TombstoneIs DEF Marks, publish_tombstone, DeleteFails, Lose, Live, stores
  <2> QED BY <1>6, <2>1, <2>2
<1>8. CASE begin_conversation_deletion
  BY <1>8 DEF begin_conversation_deletion
<1>9. CASE delete_conversation
  BY <1>9 DEF delete_conversation, Shape
<1>10. ASSUME activate_conversation PROVE Goal
  <2>1. CASE ~deleted
    BY <1>6, <1>10, <2>1 DEF activate_conversation
  <2>2. CASE deleted
    <3>1. /\ UNCHANGED actors /\ generation' = generation + 1
          /\ redis' = redis /\ backup' = backup
      BY <1>10, <2>2 DEF activate_conversation
    <3>2. backup = Nothing
      BY <1>10, <2>2 DEF Purged, activate_conversation
    <3>3. engine' = engine /\ step' = step /\ hand' = hand
      BY <3>1 DEF actors
    <3> QED BY <1>0, <1>h, <3>1, <3>2, <3>3 DEF Carries, Live
  <2> QED BY <2>1, <2>2
<1> QED
  BY <1>1, <1>2, <1>3, <1>4, <1>5, <1>7, <1>8, <1>9, <1>10, StepKinds

-----------------------------------------------------------------------------
(* What Redis never had, and what a deletion leaves behind.                *)

LEMMA VirginStep ==
  ASSUME Shape, Shape', Versions, Generations, Virgin, Next
  PROVE  Virgin'
<1>0. /\ generation \in Nat /\ Worker \subseteq Actor /\ Repairer \in Actor
      /\ \A w \in Worker : engine[w] # Nothing =>
            engine[w].generation \in Nat /\ engine[w].generation <= generation
  BY SessionAssumption, HeldVersions, StateFields
     DEF Shape, SessionTypeOK, Actor, Generations
<1> DEFINE Goal ==
        /\ backup' = Nothing
        /\ \A w \in Worker : engine'[w] # Nothing => engine'[w].version = 0
        /\ \A a \in Actor : ~Carries(a)'
        /\ deleted' => \A w \in Worker :
             engine'[w] # Nothing => engine'[w].generation < generation'
<1> SUFFICES ASSUME "lost" \notin faults', redis' = Nothing
             PROVE  Goal
  BY DEF Virgin, Carries
<1>v. ASSUME "lost" \notin faults, redis = Nothing
      PROVE  /\ backup = Nothing
             /\ \A w \in Worker : engine[w] # Nothing => engine[w].version = 0
             /\ \A a \in Actor : ~Carries(a)
             /\ deleted => \A w \in Worker :
                  engine[w] # Nothing => engine[w].generation < generation
  BY <1>v DEF Virgin
<1>1. CASE Quiet
  <2>1. \A a \in Actor : Carries(a)' => Carries(a)
    BY <1>1 DEF Quiet, Carries
  <2>2. "lost" \notin faults /\ redis = Nothing
    BY <1>1 DEF Quiet, SameStores
  <2> QED BY <1>1, <1>v, <2>1, <2>2 DEF Quiet, SameStores
<1>2. ASSUME NEW w \in Worker, Takes(w) \/ Serves(w) PROVE Goal
  <2>1. "lost" \notin faults /\ redis = Nothing
    BY <1>2 DEF Takes, Serves, SameStores
  <2>2. /\ Only(w) /\ UNCHANGED <<generation, deleted, backup>>
        /\ step'[w] \notin Saved \cup {"label"}
    BY <1>2 DEF Takes, Serves, SameStores, Saved
  <2>3. ~Carries(w) /\ ~Live(redis)
    BY <1>0, <1>v, <2>1 DEF Live
  <2>4. engine'[w] # Nothing => /\ engine'[w].version = 0
                                /\ deleted => engine'[w].generation < generation
    <3>1. CASE Takes(w)
      BY <2>3, <3>1 DEF Takes, Carries
    <3>2. CASE Serves(w)
      BY <1>v, <2>1, <3>2, NothingAssumption DEF Serves
    <3> QED BY <1>2, <3>1, <3>2
  <2>5. \A a \in Actor : ~Carries(a)'
    BY <1>v, <2>1, <2>2 DEF Only, Carries
  <2> QED BY <1>v, <2>1, <2>2, <2>4, <2>5 DEF Only
<1>3. ASSUME NEW w \in Worker, Reads(w) \/ Notes(w) PROVE FALSE
  <2>1. "lost" \notin faults /\ redis = Nothing
    BY <1>3 DEF Reads, Notes, SameStores
  <2> QED BY <1>0, <1>3, <1>v, <2>1 DEF Reads, Notes, Carries
<1>4. ASSUME NEW a \in Actor, BacksUp(a) PROVE FALSE
  <2>1. "lost" \notin faults /\ redis = Nothing
    BY <1>4 DEF BacksUp
  <2> QED BY <1>4, <1>v, <2>1 DEF BacksUp, Carries
<1>5. CASE (\E w \in Worker : Saves(w)) \/ Repairs \/ Marks
  BY <1>5 DEF Saves, Repairs, Marks, Live
<1>6. CASE Lose
  BY <1>6 DEF Lose
<1>7. ASSUME publish_tombstone \/ DeleteFails \/ delete_conversation PROVE Goal
  <2>1. "lost" \notin faults /\ redis = Nothing
    BY <1>7, TombstoneIs DEF publish_tombstone, DeleteFails, delete_conversation, stores
  <2>2. /\ UNCHANGED <<generation, deleted, engine, step>>
        /\ backup' \in {backup, Nothing}
    BY <1>7 DEF publish_tombstone, DeleteFails, delete_conversation, stores, actors
  <2> QED BY <1>v, <2>1, <2>2 DEF Carries
<1>8. ASSUME begin_conversation_deletion \/ activate_conversation PROVE Goal
  <2>1. "lost" \notin faults /\ redis = Nothing
    BY <1>8 DEF begin_conversation_deletion, activate_conversation
  <2>2. /\ UNCHANGED <<engine, step, backup>>
        /\ deleted' => generation' = generation + 1
    BY <1>8 DEF begin_conversation_deletion, activate_conversation, actors
  <2> QED BY <1>0, <1>v, <2>1, <2>2 DEF Carries
<1> QED
  BY <1>1, <1>2, <1>3, <1>4, <1>5, <1>6, <1>7, <1>8, StepKinds

LEMMA DeletedIsFreshStep ==
  ASSUME Shape, Shape', Versions, Generations, Virgin, DeletedIsFresh, Next
  PROVE  DeletedIsFresh'
<1>0. /\ generation \in Nat /\ Worker \subseteq Actor /\ Repairer \in Actor
  BY SessionAssumption DEF Shape, SessionTypeOK, Actor
<1>h. /\ Live(redis) => redis.generation \in Nat /\ redis.generation <= generation
      /\ \A w \in Worker : engine[w] # Nothing =>
            engine[w].generation \in Nat /\ engine[w].generation <= generation
      /\ \A a \in Actor : step[a] \in Saved =>
            hand[a].generation \in Nat /\ hand[a].generation <= generation
  BY HeldVersions, StateFields DEF Generations, Carries
<1> DEFINE Goal ==
        /\ \A w \in Worker : engine'[w] # Nothing /\ engine'[w].generation = generation'
             => engine'[w].version = 0
        /\ \A a \in Actor : step'[a] \in Saved => hand'[a].generation < generation'
        /\ Live(redis') => redis'.generation < generation'
<1> SUFFICES ASSUME "lost" \notin faults', deleted'
             PROVE  Goal
  BY DEF DeletedIsFresh, Fresh, Live
<1>d. ASSUME "lost" \notin faults, deleted
      PROVE  /\ \A w \in Worker : engine[w] # Nothing /\ engine[w].generation = generation
                  => engine[w].version = 0
             /\ \A a \in Actor : step[a] \in Saved => hand[a].generation < generation
             /\ Live(redis) => redis.generation < generation
  BY <1>d DEF DeletedIsFresh, Fresh
<1>1. CASE Quiet
  <2>1. \A a \in Actor : step'[a] \in Saved => step[a] \in Saved /\ hand'[a] = hand[a]
    BY <1>1 DEF Quiet
  <2>2. "lost" \notin faults /\ deleted
    BY <1>1 DEF Quiet, SameStores
  <2> QED BY <1>1, <1>d, <2>1, <2>2 DEF Quiet, SameStores
<1>2. ASSUME NEW w \in Worker, Takes(w) \/ Reads(w) \/ Serves(w) \/ Notes(w)
      PROVE  Goal
  <2>1. "lost" \notin faults /\ deleted
    BY <1>2 DEF Takes, Reads, Serves, Notes, SameStores
  <2>2. /\ Only(w) /\ redis' = redis /\ generation' = generation
        /\ step'[w] \notin Saved
    BY <1>2 DEF Takes, Reads, Serves, Notes, SameStores, Saved
  <2>3. engine'[w] # Nothing /\ engine'[w].generation = generation
          => engine'[w].version = 0
    <3>1. CASE Takes(w)
      BY <1>0, <1>d, <2>1, <3>1, <1>h DEF Takes
    <3>2. CASE Reads(w) \/ Serves(w)
      BY <1>d, <2>1, <3>2, NothingAssumption DEF Reads, Serves
    <3>3. CASE Notes(w)
      <4>1. /\ step[w] \in Saved /\ engine'[w].generation = engine[w].generation
            /\ hand[w].generation = engine[w].generation
        BY <3>3 DEF Notes, Shape
      <4> QED BY <1>0, <1>d, <1>h, <2>1, <4>1
    <3> QED BY <1>2, <3>1, <3>2, <3>3
  <2> QED BY <1>d, <2>1, <2>2, <2>3 DEF Only, Live
<1>3. ASSUME NEW w \in Worker, Saves(w) PROVE Goal
  <2>1. /\ "lost" \notin faults /\ deleted /\ Only(w) /\ engine' = engine
        /\ generation' = generation /\ engine[w] # Nothing /\ Accepts(engine[w])
        /\ redis'.generation = engine[w].generation
        /\ step'[w] \in Saved => hand'[w] = redis'
    BY <1>3, NothingAssumption DEF Saves, Saved
  <2>2. engine[w].generation < generation
    <3>1. CASE redis = Nothing
      BY <2>1, <3>1 DEF Virgin
    <3>2. CASE redis # Nothing
      <4>1. Live(redis) /\ redis.generation = engine[w].generation
        BY <2>1, <3>2 DEF Accepts, Live
      <4> QED BY <1>d, <2>1, <4>1
    <3> QED BY <3>1, <3>2
  <2>3. \A a \in Actor : step'[a] \in Saved => hand'[a].generation < generation'
    BY <1>d, <2>1, <2>2 DEF Only
  <2> QED BY <1>d, <2>1, <2>2, <2>3
<1>4. CASE (\E a \in Actor : BacksUp(a)) \/ Repairs \/ Marks \/ Lose
  BY <1>4 DEF BacksUp, Repairs, Marks, Lose, Shape
<1>5. ASSUME publish_tombstone \/ DeleteFails \/ delete_conversation PROVE Goal
  <2>1. /\ "lost" \notin faults /\ deleted
        /\ UNCHANGED <<generation, engine, step, hand>>
    BY <1>5 DEF publish_tombstone, DeleteFails, delete_conversation, stores, actors
  <2>2. Live(redis') => redis' = redis
    BY <1>5, TombstoneIs
       DEF publish_tombstone, DeleteFails, delete_conversation, stores, Live
  <2> QED BY <1>d, <2>1, <2>2 DEF Live
<1>6. ASSUME begin_conversation_deletion PROVE Goal
  <2>1. UNCHANGED <<redis, engine, step, hand>> /\ generation' = generation + 1
    BY <1>6 DEF begin_conversation_deletion, actors
  <2> QED BY <1>0, <1>h, <2>1 DEF Live
<1>7. CASE activate_conversation
  BY <1>7 DEF activate_conversation
<1> QED
  BY <1>1, <1>2, <1>3, <1>4, <1>5, <1>6, <1>7, StepKinds

-----------------------------------------------------------------------------
(* Stores that have not failed.                                            *)

\* What Ordered and Fresh say of one held state.
LEMMA OrderedSave ==
  ASSUME Shape, Ordered, Live(redis), redis.generation = generation,
         NEW w \in Worker, Saves(w)
  PROVE  redis'.generation = generation /\ Ordered'
<1>0. Worker \subseteq Actor
  BY DEF Actor
<1>1. /\ Only(w) /\ engine' = engine /\ generation' = generation /\ backup' = backup
      /\ engine[w] # Nothing /\ Accepts(engine[w])
      /\ redis'.generation = engine[w].generation
      /\ redis'.version = engine[w].version + 1
      /\ redis'.content = engine[w].content
      /\ step'[w] \in Saved => hand'[w] = redis'
  BY NothingAssumption DEF Saves, Saved
<1>2. /\ redis.generation = engine[w].generation
      /\ redis.version <= engine[w].version
  BY <1>1 DEF Accepts, Live
<1>h. /\ redis.version \in Nat
      /\ \A v \in Worker : engine[v] # Nothing => engine[v].version \in Nat
      /\ \A a \in Actor : step[a] \in Saved => hand[a].version \in Nat
  BY HeldVersions DEF Carries
<1>3. engine[w].version = redis.version /\ redis.content \subseteq engine[w].content
  BY <1>1, <1>2, <1>h DEF Ordered
<1>4. redis'.version = redis.version + 1 /\ redis.content \subseteq redis'.content
  BY <1>1, <1>3
<1>5. \A v \in Worker : engine'[v] # Nothing /\ engine'[v].generation = generation' =>
        engine'[v].version < redis'.version
  BY <1>1, <1>4, <1>h DEF Ordered
<1>6. \A a \in Actor : step'[a] \in Saved /\ hand'[a].generation = generation' =>
       /\ hand'[a].version <= redis'.version
       /\ hand'[a].content \subseteq redis'.content
       /\ hand'[a].version = redis'.version => redis'.content \subseteq hand'[a].content
  <2> SUFFICES ASSUME NEW a \in Actor, step'[a] \in Saved,
                      hand'[a].generation = generation'
               PROVE  /\ hand'[a].version <= redis'.version
                      /\ hand'[a].content \subseteq redis'.content
                      /\ hand'[a].version = redis'.version
                           => redis'.content \subseteq hand'[a].content
    OBVIOUS
  <2>1. CASE a = w
    BY <1>1, <1>4, <1>h, <2>1
  <2>2. CASE a # w
    <3>1. step[a] \in Saved /\ hand'[a] = hand[a]
      BY <1>1, <2>2 DEF Only
    <3>2. hand[a].version <= redis.version /\ hand[a].content \subseteq redis.content
      BY <1>1, <3>1 DEF Ordered
    <3>3. hand[a].version < redis'.version
      BY <1>4, <1>h, <3>1, <3>2
    <3> QED BY <1>4, <1>h, <3>1, <3>2, <3>3
  <2> QED BY <2>1, <2>2
<1>7. backup' # Nothing => backup' \subseteq redis'.content
  BY <1>1, <1>4 DEF Ordered
<1>8. redis'.version # 0
  BY <1>4, <1>h
<1>9. \A v \in Worker : engine'[v] # Nothing => engine'[v].version \in Nat
  BY <1>1, <1>h
<1>10. \A v \in Worker : engine'[v] # Nothing /\ engine'[v].generation = generation' =>
         /\ engine'[v].version <= redis'.version
         /\ engine'[v].version = redis'.version => redis'.content \subseteq engine'[v].content
  BY <1>4, <1>5, <1>9, <1>h
<1> QED BY <1>1, <1>2, <1>6, <1>7, <1>8, <1>10 DEF Ordered

\* A repair rewrites the checkpoint with the next version.
LEMMA OrderedRepair ==
  ASSUME Shape, Ordered, Live(redis), redis.generation = generation, Repairs
  PROVE  Ordered'
<1>1. /\ Only(Repairer) /\ hand'[Repairer] = redis' /\ engine' = engine
      /\ generation' = generation /\ backup' = backup
      /\ redis'.version = redis.version + 1 /\ redis'.content = redis.content
  BY DEF Repairs, Live
<1>h. /\ redis.version \in Nat
      /\ \A v \in Worker : engine[v] # Nothing => engine[v].version \in Nat
      /\ \A a \in Actor : step[a] \in Saved => hand[a].version \in Nat
  BY HeldVersions DEF Carries
<1>2. \A v \in Worker : engine'[v] # Nothing /\ engine'[v].generation = generation' =>
        /\ engine'[v].version <= redis'.version
        /\ engine'[v].version # redis'.version
  BY <1>1, <1>h DEF Ordered
<1>3. \A a \in Actor : step'[a] \in Saved /\ hand'[a].generation = generation' =>
       /\ hand'[a].version <= redis'.version
       /\ hand'[a].content \subseteq redis'.content
       /\ hand'[a].version = redis'.version => redis'.content \subseteq hand'[a].content
  <2> SUFFICES ASSUME NEW a \in Actor, step'[a] \in Saved,
                      hand'[a].generation = generation'
               PROVE  /\ hand'[a].version <= redis'.version
                      /\ hand'[a].content \subseteq redis'.content
                      /\ hand'[a].version = redis'.version
                           => redis'.content \subseteq hand'[a].content
    OBVIOUS
  <2>1. CASE a = Repairer
    BY <1>1, <1>h, <2>1
  <2>2. CASE a # Repairer
    <3>1. step[a] \in Saved /\ hand'[a] = hand[a]
      BY <1>1, <2>2 DEF Only
    <3>2. hand[a].version <= redis.version /\ hand[a].content \subseteq redis.content
      BY <1>1, <3>1 DEF Ordered
    <3> QED BY <1>1, <1>h, <3>1, <3>2
  <2> QED BY <2>1, <2>2
<1>4. backup' # Nothing => backup' \subseteq redis'.content
  BY <1>1 DEF Ordered
<1>5. redis'.version # 0
  BY <1>1, <1>h
<1> QED BY <1>2, <1>3, <1>4, <1>5 DEF Ordered

\* The first save and the first repair find nothing of theirs in the way.
LEMMA OrderedFirst ==
  ASSUME Shape, Shape', Virgin, "lost" \notin faults, redis = Nothing,
         NEW a \in Actor, Only(a), step'[a] \in Saved => hand'[a] = redis',
         UNCHANGED <<engine, backup>>, redis'.version = 1
  PROVE  Ordered'
<1>1. /\ backup' = Nothing
      /\ \A w \in Worker : engine'[w] # Nothing => engine'[w].version = 0
      /\ \A b \in Actor \ {a} : step'[b] \notin Saved
  BY DEF Virgin, Only, Carries
<1> QED BY <1>1 DEF Ordered

LEMMA FaultlessStep ==
  ASSUME Shape, Shape', Versions, Generations, Virgin, DeletedIsFresh, Faultless, Next
  PROVE  Faultless'
<1>0. /\ generation \in Nat /\ Worker \subseteq Actor /\ Repairer \in Actor
      /\ Repairer \notin Worker
  BY SessionAssumption DEF Shape, SessionTypeOK, Actor
<1>h. /\ Live(redis) => redis.generation \in Nat /\ redis.version \in Nat
      /\ \A w \in Worker : engine[w] # Nothing =>
           /\ engine[w].generation \in Nat /\ engine[w].generation <= generation
           /\ engine[w].version \in Nat
      /\ \A a \in Actor : step[a] \in Saved =>
           /\ hand[a].generation \in Nat /\ hand[a].generation <= generation
           /\ hand[a].version \in Nat
  BY HeldVersions, StateFields DEF Generations, Carries
<1>t. ~Live(Tombstone) /\ ~Live(Nothing) /\ Tombstone # Nothing
  BY TombstoneIs DEF Live
<1> DEFINE Absent == redis = Nothing /\ generation = 0 /\ ~deleted /\ lease = "free"
           Gone == /\ redis = Tombstone /\ lease # "repair"
                   /\ lease # "tombstoned" => Fresh
                   /\ lease \notin {"tombstoned", "fenced"} => backup = Nothing
           Current == /\ Live(redis) /\ redis.generation = generation
                      /\ ~deleted /\ lease \in {"free", "repair"}
                      /\ Ordered
           Goal == Absent' \/ Gone' \/ Current'
<1> SUFFICES ASSUME faults' = {} PROVE Goal
  BY DEF Faultless
<1>f. ASSUME faults = {} PROVE Absent \/ Gone \/ Current
  BY <1>f DEF Faultless
<1>v. faults = {} => "lost" \notin faults
  OBVIOUS
<1>1. ASSUME Quiet PROVE Goal
  <2>0. faults = {}
    BY <1>1 DEF Quiet
  <2>1. /\ redis' = redis /\ generation' = generation /\ deleted' = deleted
        /\ backup' = backup
        /\ \/ lease' = lease
           \/ lease = "repair" /\ lease' = "free"
           \/ lease \in {"activated", "marking"} /\ lease' \in {"free", "marking"}
        /\ \A w \in Worker : engine'[w] \in {engine[w], Nothing}
    BY <1>1 DEF Quiet, SameStores
  <2>2. \A a \in Actor : step'[a] \in Saved => step[a] \in Saved /\ hand'[a] = hand[a]
    BY <1>1 DEF Quiet
  <2>3. Fresh => Fresh'
    BY <2>1, <2>2 DEF Fresh
  <2>4. Ordered => Ordered'
    BY <2>1, <2>2 DEF Ordered
  <2>5. CASE Absent
    BY <2>1, <2>5
  <2>6. CASE Gone
    BY <2>1, <2>3, <2>6
  <2>7. CASE Current
    BY <2>1, <2>4, <2>7 DEF Live
  <2> QED BY <1>f, <2>0, <2>5, <2>6, <2>7
<1>2. ASSUME NEW w \in Worker, Takes(w) \/ Reads(w) \/ Serves(w) \/ Notes(w)
      PROVE  Goal
  <2>0. faults = {}
    BY <1>2 DEF Takes, Reads, Serves, Notes
  <2>1. /\ redis' = redis /\ generation' = generation /\ deleted' = deleted
        /\ backup' = backup /\ lease' = lease /\ Only(w) /\ step'[w] \notin Saved
    BY <1>2 DEF Takes, Reads, Serves, Notes, SameStores, Saved
  <2>2. \A a \in Actor : step'[a] \in Saved => step[a] \in Saved /\ hand'[a] = hand[a]
    BY <2>1 DEF Only
  <2>n. ASSUME Notes(w)
        PROVE  /\ step[w] \in Saved /\ engine[w] # Nothing
               /\ engine'[w].generation = engine[w].generation
               /\ hand[w].generation = engine[w].generation
               /\ hand[w].content = engine[w].content
               /\ engine'[w].version = hand[w].version
               /\ engine'[w].content = engine[w].content
    BY <2>n, NothingAssumption DEF Notes, Shape
  <2>3. CASE Absent
    BY <2>1, <2>3
  <2>4. CASE Gone
    <3>1. ASSUME Fresh PROVE Fresh'
      <4>1. engine'[w] # Nothing /\ engine'[w].generation = generation
              => engine'[w].version = 0
        <5>1. CASE Takes(w)
          BY <1>t, <2>4, <5>1 DEF Takes
        <5>2. CASE Reads(w) \/ Serves(w)
          BY <3>1, <5>2, NothingAssumption DEF Reads, Serves, Fresh
        <5>3. CASE Notes(w)
          BY <1>0, <1>h, <2>n, <3>1, <5>3 DEF Fresh
        <5> QED BY <1>2, <5>1, <5>2, <5>3
      <4> QED BY <2>1, <2>2, <3>1, <4>1 DEF Fresh, Only
    <3> QED BY <2>1, <2>4, <3>1
  <2>5. CASE Current
    <3>1. engine'[w] # Nothing /\ engine'[w].generation = generation =>
            /\ engine'[w].version <= redis.version
            /\ engine'[w].version = redis.version
                 => redis.content \subseteq engine'[w].content
      <4>1. CASE Takes(w)
        BY <1>h, <2>5, <4>1 DEF Takes, Ordered
      <4>2. CASE Reads(w)
        BY <2>5, <4>2 DEF Reads, Ordered
      <4>3. CASE Serves(w)
        BY <2>5, <4>3, NothingAssumption DEF Serves, Ordered
      <4>4. CASE Notes(w)
        BY <1>0, <2>5, <2>n, <4>4 DEF Ordered
      <4> QED BY <1>2, <4>1, <4>2, <4>3, <4>4
    <3>2. \A v \in Worker : engine'[v] # Nothing /\ engine'[v].generation = generation' =>
            /\ engine'[v].version <= redis'.version
            /\ engine'[v].version = redis'.version
                 => redis'.content \subseteq engine'[v].content
      BY <2>1, <2>5, <3>1 DEF Only, Ordered
    <3>3. Ordered'
      BY <2>1, <2>2, <2>5, <3>2 DEF Ordered
    <3> QED BY <2>1, <2>5, <3>3 DEF Live
  <2> QED BY <1>f, <2>0, <2>3, <2>4, <2>5
<1>3. ASSUME NEW w \in Worker, Saves(w) PROVE Goal
  <2>1. /\ UNCHANGED <<generation, deleted, backup, lease, faults, engine>>
        /\ Only(w) /\ engine[w] # Nothing /\ Live(redis') /\ Accepts(engine[w])
        /\ redis'.generation = engine[w].generation
        /\ redis'.version = engine[w].version + 1
        /\ step'[w] \in Saved => hand'[w] = redis'
    BY <1>3, NothingAssumption DEF Saves, Saved
  <2>2. CASE Absent
    <3>1. engine[w].version = 0 /\ engine[w].generation = generation
      BY <1>0, <1>h, <2>1, <2>2 DEF Virgin
    <3>2. Ordered'
      BY <1>0, <2>1, <2>2, <3>1, OrderedFirst
    <3> QED BY <2>1, <2>2, <3>1, <3>2 DEF Live
  <2>3. CASE Gone
    BY <1>t, <2>1, <2>3, TombstoneIs DEF Accepts
  <2>4. CASE Current
    <3>1. redis'.generation = generation /\ Ordered'
      BY <1>3, <2>4, OrderedSave
    <3> QED BY <2>1, <2>4, <3>1 DEF Live
  <2> QED BY <1>f, <2>1, <2>2, <2>3, <2>4
<1>4. ASSUME NEW a \in Actor, BacksUp(a) PROVE Goal
  <2>1. /\ UNCHANGED <<redis, generation, deleted, lease, faults, engine>>
        /\ step[a] \in Saved /\ hand[a].generation = generation
        /\ backup' = hand[a].content
        /\ \A b \in Actor : step'[b] \in Saved => step[b] \in Saved /\ hand'[b] = hand[b]
    BY <1>4 DEF BacksUp, Only
  <2>2. CASE Absent
    BY <2>1, <2>2 DEF Virgin, Carries
  <2>3. CASE Gone
    <3>1. ~Fresh
      BY <1>0, <1>h, <2>1 DEF Fresh
    <3> QED BY <2>1, <2>3, <3>1
  <2>4. CASE Current
    <3>1. backup' \subseteq redis.content
      BY <2>1, <2>4 DEF Ordered
    <3>2. Ordered'
      BY <2>1, <2>4, <3>1 DEF Ordered
    <3> QED BY <2>1, <2>4, <3>2 DEF Live
  <2> QED BY <1>f, <2>1, <2>2, <2>3, <2>4
<1>5. ASSUME Repairs PROVE Goal
  <2>1. /\ UNCHANGED <<generation, deleted, backup, faults, engine>>
        /\ Only(Repairer) /\ hand'[Repairer] = redis' /\ lease' = "repair" /\ ~deleted
        /\ Live(redis') /\ redis'.generation = generation
        /\ redis = Nothing => redis'.version = 1
        /\ redis = Nothing \/ Live(redis)
    BY <1>5 DEF Repairs, Live
  <2>2. Ordered'
    <3>1. CASE Absent
      BY <1>0, <2>1, <3>1, OrderedFirst
    <3>2. CASE Gone
      BY <1>t, <2>1, <3>2
    <3>3. CASE Current
      BY <1>5, <3>3, OrderedRepair
    <3> QED BY <1>f, <2>1, <3>1, <3>2, <3>3
  <2> QED BY <2>1, <2>2 DEF Live
<1>6. ASSUME Marks PROVE Goal
  <2>1. /\ UNCHANGED <<generation, deleted, backup, faults, engine, step, hand>>
        /\ lease = "marking" /\ lease' = "free"
        /\ Live(redis') /\ redis'.generation = generation
        /\ redis'.version = 0 /\ redis'.content = {}
    BY <1>6 DEF Marks, actors
  <2>2. Fresh /\ backup = Nothing
    BY <1>f, <2>1
  <2>3. ~deleted
    BY <2>1 DEF Shape
  <2>4. Ordered'
    BY <1>0, <1>h, <2>1, <2>2 DEF Ordered, Fresh
  <2> QED BY <2>1, <2>3, <2>4 DEF Live
<1>7. CASE publish_tombstone
  BY <1>7 DEF publish_tombstone
<1>8. ASSUME NEW g, g = generation + 1, UNCHANGED <<engine, step, hand>>, generation' = g
      PROVE  Fresh'
  BY <1>0, <1>8, <1>h DEF Fresh
<1>9. ASSUME begin_conversation_deletion PROVE Goal
  <2>1. /\ UNCHANGED <<redis, backup, faults, engine, step, hand>>
        /\ lease = "tombstoned" /\ lease' = "fenced" /\ generation' = generation + 1
    BY <1>9 DEF begin_conversation_deletion, actors
  <2> QED BY <1>8, <1>f, <2>1
<1>10. ASSUME delete_conversation PROVE Goal
  <2>1. /\ UNCHANGED <<redis, generation, engine, step, hand>>
        /\ lease = "fenced" /\ lease' = "free" /\ backup' = Nothing
        /\ faults = {} \/ (redis = Tombstone /\ "lost" \notin faults)
    BY <1>10 DEF delete_conversation, actors
  <2>2. redis = Tombstone /\ "lost" \notin faults
    BY <1>f, <2>1
  <2>3. Fresh
    BY <2>1, <2>2 DEF Shape, DeletedIsFresh
  <2>4. Fresh'
    BY <2>1, <2>3 DEF Fresh
  <2> QED BY <2>1, <2>2, <2>4
<1>11. ASSUME activate_conversation PROVE Goal
  <2>1. /\ UNCHANGED <<redis, backup, faults, engine, step, hand>>
        /\ lease = "free" /\ lease' = "activated" /\ (deleted \/ redis = Tombstone)
        /\ generation' = generation \/ generation' = generation + 1
    BY <1>11 DEF activate_conversation, actors
  <2>2. Gone
    BY <1>f, <1>t, <2>1
  <2>3. Fresh'
    <3>1. CASE generation' = generation
      BY <2>1, <2>2, <3>1 DEF Fresh
    <3> QED BY <1>8, <2>1, <3>1
  <2> QED BY <2>1, <2>2, <2>3
<1>12. CASE DeleteFails \/ Lose
  BY <1>12 DEF DeleteFails, Lose
<1> QED
  BY <1>1, <1>2, <1>3, <1>4, <1>5, <1>6, <1>7, <1>9, <1>10, <1>11, <1>12, StepKinds

-----------------------------------------------------------------------------
(* The theorems.                                                           *)

LEMMA InitEstablishes == Init => SessionInv
<1> SUFFICES ASSUME Init PROVE SessionInv
  OBVIOUS
<1>0. /\ MaxGeneration \in Nat /\ MaxRequest \in Nat /\ MaxRepair \in Nat
      /\ Repairer \in Actor /\ Worker \subseteq Actor
  BY SessionAssumption DEF Actor
<1>1. /\ engine = [w \in Worker |-> Nothing] /\ step = [a \in Actor |-> "idle"]
      /\ hand = [a \in Actor |-> Nothing]
      /\ redis = Nothing /\ backup = Nothing /\ ~deleted /\ generation = 0
      /\ stale = FALSE /\ deleted = FALSE /\ lease = "free"
      /\ served = 0 /\ repairs = 0 /\ faults = {}
  BY DEF Init
<1>2. \A a \in Actor : step[a] = "idle" /\ hand[a] = Nothing
  BY <1>1
<1>3. \A w \in Worker : engine[w] = Nothing /\ step[w] = "idle"
  BY <1>0, <1>1
<1>4. SessionTypeOK
  <2>1. stale \in BOOLEAN /\ deleted \in BOOLEAN
    BY <1>1, Zenon
  <2>2. faults \subseteq {"lost", "straddled", "half_deleted"}
    BY <1>1
  <2>3. /\ generation \in 0 .. MaxGeneration
        /\ served \in 0 .. MaxRequest /\ repairs \in 0 .. MaxRepair
    BY <1>0, <1>1
  <2> QED BY <1>1, <1>3, <2>1, <2>2, <2>3 DEF SessionTypeOK
<1>5. /\ engine \in [Worker -> State \cup {Nothing}]
      /\ step \in [Actor -> {"idle", "fallback", "read", "label", "serve", "save",
                             "repair"} \cup Saved]
      /\ hand \in [Actor -> Hands]
  BY <1>1 DEF Hands
<1>6. Shape
  BY <1>0, <1>1, <1>2, <1>3, <1>4, <1>5 DEF Shape, Carries, Saved
<1>7. Versions
  <2>1. Saving = {}
    BY <1>3 DEF Saving
  <2>2. IsFiniteSet(Saving) /\ Cardinality(Saving) = 0
    BY <2>1, FS_EmptySet
  <2>3. VersionCap = 0
    BY <1>1, <2>2 DEF VersionCap
  <2> QED BY <1>1, <1>2, <1>3, <2>2, <2>3 DEF Versions, Carries, Live, Saved
<1>8. Generations /\ Contents /\ Virgin
  BY <1>1, <1>2, <1>3 DEF Generations, Contents, Virgin, Carries, Live, Saved
<1> QED BY <1>1, <1>6, <1>7, <1>8 DEF SessionInv, Purged, DeletedIsFresh, Faultless

LEMMA InvStep == SessionInv /\ [Next]_vars => SessionInv'
<1> SUFFICES ASSUME SessionInv, [Next]_vars PROVE SessionInv'
  OBVIOUS
<1>0. /\ Shape /\ Versions /\ Generations /\ Purged /\ Contents
      /\ Virgin /\ DeletedIsFresh /\ Faultless
  BY DEF SessionInv
<1>1. CASE Next
  <2>1. Shape'
    BY <1>0, <1>1, ShapeStep
  <2>2. Versions' /\ Generations' /\ Purged' /\ Contents'
    BY <1>0, <1>1, <2>1, VersionsStep, GenerationsStep, PurgedStep, ContentsStep
  <2>3. Virgin' /\ DeletedIsFresh' /\ Faultless'
    BY <1>0, <1>1, <2>1, VirginStep, DeletedIsFreshStep, FaultlessStep
  <2> QED BY <2>1, <2>2, <2>3 DEF SessionInv
<1>2. CASE UNCHANGED vars
  <2>1. /\ redis' = redis /\ stale' = stale /\ generation' = generation
        /\ deleted' = deleted /\ backup' = backup /\ engine' = engine
        /\ step' = step /\ hand' = hand /\ lease' = lease /\ served' = served
        /\ repairs' = repairs /\ faults' = faults
    BY <1>2 DEF vars
  <2>2. Shape'
    BY <1>0, <2>1 DEF Shape, SessionTypeOK, Carries
  <2>3. Saving' = Saving
    BY <2>1 DEF Saving
  <2>4. Versions'
    BY <1>0, <2>1, <2>3 DEF Versions, VersionCap, Carries, Live
  <2>5. Generations' /\ Purged' /\ Contents'
    BY <1>0, <2>1 DEF Generations, Purged, Contents, Carries, Live
  <2>6. Fresh' = Fresh /\ Ordered' = Ordered
    BY <2>1 DEF Fresh, Ordered
  <2>7. Virgin' /\ DeletedIsFresh'
    BY <1>0, <2>1, <2>6 DEF Virgin, DeletedIsFresh, Carries, Live
  <2>8. Faultless'
    BY <1>0, <2>1, <2>6 DEF Faultless, Live
  <2> QED BY <2>2, <2>4, <2>5, <2>7, <2>8 DEF SessionInv
<1> QED BY <1>1, <1>2

\* Every step of a run of the session state keeps SessionInv.
THEOREM SessionInvariant == SessionSpec => []SessionInv
BY InitEstablishes, InvStep, PTL DEF SessionSpec

\* The stores and the engines keep their types, and no version that a save or
\* a repair writes reaches the tombstone's: a tombstone outranks every save.
THEOREM SessionTypesAlways == SessionSpec => []SessionTypeOK
<1>1. SessionInv => SessionTypeOK
  BY DEF SessionInv, Shape
<1> QED BY <1>1, SessionInvariant, PTL

\* A recreated conversation never shows what was served before its deletion,
\* however many workers had it loaded, read or half saved.
THEOREM CheckpointIsOfThisLife == SessionSpec => []CheckpointOfThisLife
<1>1. SessionInv => CheckpointOfThisLife
  <2> SUFFICES ASSUME SessionInv, faults = {}, ~deleted, Live(redis)
               PROVE  /\ redis.generation = generation
                      /\ OfGeneration(redis.content, generation)
    BY DEF CheckpointOfThisLife
  <2>1. redis.generation = generation
    BY TombstoneIs DEF SessionInv, Faultless, Live
  <2> QED BY <2>1 DEF SessionInv, Contents
<1> QED BY <1>1, SessionInvariant, PTL

\* The durable backup of a recreated conversation holds nothing of its earlier
\* life, even when Redis has lost the tombstone.
THEOREM BackupIsOfThisLife == SessionSpec => []BackupOfThisLife
<1>1. SessionInv => BackupOfThisLife
  BY DEF SessionInv, Contents, BackupOfThisLife
<1> QED BY <1>1, SessionInvariant, PTL

\* The backup contains no request that the Redis checkpoint lacks.
THEOREM BackupIsNotAhead == SessionSpec => []BackupNotAhead
<1>1. SessionInv => BackupNotAhead
  BY TombstoneIs DEF SessionInv, Faultless, Ordered, BackupNotAhead, Live
<1> QED BY <1>1, SessionInvariant, PTL

\* A stale worker overwrites neither a newer checkpoint nor a tombstone.
THEOREM NewerCheckpointIsKept == SessionSpec => NewerCheckpointKept
<1> DEFINE Keeps ==
      (faults' = {} /\ redis # Nothing /\ redis' # redis /\ Live(redis'))
        => IF redis.deleted
           THEN lease = "marking" /\ redis'.generation = generation
           ELSE /\ redis'.generation = redis.generation
                /\ redis.content \subseteq redis'.content
<1>1. SessionInv /\ Next => Keeps
  <2> SUFFICES ASSUME SessionInv, Next, faults' = {}, redis # Nothing,
                      redis' # redis, Live(redis')
               PROVE  IF redis.deleted
                      THEN lease = "marking" /\ redis'.generation = generation
                      ELSE /\ redis'.generation = redis.generation
                           /\ redis.content \subseteq redis'.content
    OBVIOUS
  <2>0. Shape /\ Versions /\ Faultless
    BY DEF SessionInv
  <2>1. (\E w \in Worker : Saves(w)) \/ Repairs \/ Marks
    <3>1. ~Live(Tombstone) /\ ~Live(Nothing)
      BY TombstoneIs DEF Live
    <3>2. ~(Quiet \/ \E w \in Worker : Takes(w) \/ Reads(w) \/ Serves(w) \/ Notes(w))
      BY DEF Quiet, Takes, Reads, Serves, Notes, SameStores
    <3>3. ~(\E a \in Actor : BacksUp(a))
      BY DEF BacksUp
    <3>4. ~(publish_tombstone \/ begin_conversation_deletion \/ delete_conversation
            \/ DeleteFails \/ activate_conversation \/ Lose)
      BY <3>1 DEF publish_tombstone, begin_conversation_deletion, delete_conversation,
         DeleteFails, activate_conversation, Lose, stores
    <3> QED BY <2>0, <3>2, <3>3, <3>4, StepKinds
  <2>2. ASSUME NEW w \in Worker, Saves(w)
        PROVE  /\ ~redis.deleted /\ redis'.generation = redis.generation
               /\ redis.content \subseteq redis'.content
    <3>1. /\ faults = {} /\ Accepts(engine[w]) /\ engine[w] # Nothing
          /\ redis'.generation = engine[w].generation
          /\ redis'.content = engine[w].content
      BY <2>2, NothingAssumption DEF Saves
    <3>2. /\ ~redis.deleted /\ redis.generation = engine[w].generation
          /\ redis.version <= engine[w].version
      BY <3>1 DEF Accepts
    <3>3. redis.generation = generation /\ Ordered
      BY <2>0, <3>1, <3>2, TombstoneIs DEF Faultless
    <3>4. redis.version \in Nat /\ engine[w].version \in Nat
      BY <2>0, <3>1, <3>2, HeldVersions DEF Live
    <3>5. /\ engine[w].version <= redis.version
          /\ engine[w].version = redis.version
               => redis.content \subseteq engine[w].content
      <4>1. engine[w].generation = generation
        BY <3>2, <3>3
      <4> QED BY <3>1, <3>3, <4>1 DEF Ordered
    <3>6. engine[w].version = redis.version
      BY <3>2, <3>4, <3>5
    <3> QED BY <3>1, <3>2, <3>5, <3>6
  <2>3. ASSUME Repairs
        PROVE  /\ ~redis.deleted /\ redis'.generation = redis.generation
               /\ redis.content \subseteq redis'.content
    BY <2>3 DEF Repairs, Live
  <2>4. ASSUME Marks
        PROVE  redis.deleted /\ lease = "marking" /\ redis'.generation = generation
    BY <2>0, <2>4, TombstoneIs DEF Marks, Faultless
  <2> QED BY <2>1, <2>2, <2>3, <2>4
<1>2. SessionInv /\ [Next]_vars => [Keeps]_vars
  BY <1>1
<1> QED BY <1>2, SessionInvariant, PTL DEF SessionSpec, NewerCheckpointKept

=============================================================================

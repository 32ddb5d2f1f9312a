------------------------ MODULE IngestionWorkersProofs ------------------------
(***************************************************************************)
(* Theorems about IngestionWorkers, for any processes and any number of    *)
(* turn groups: its steps are the store's, and a conversation in phase     *)
(* 'ingesting' has an open episode or a process about to move the phase    *)
(* on, as long as no process has died.                                     *)
(***************************************************************************)
EXTENDS IngestionWorkers, ConversationLifecycleProofs

\* The types and the count of groups: no group is untagged that did not arrive.
IngestShape ==
  /\ IngestTypeOK
  /\ toCome + untagged + Terminated <= MaxTurnGroups

LEMMA ThisLifeIsCurrent == TypeOK => ThisLife \in Epoch /\ ThisLife <= epoch
BY LifecycleAssumption DEF TypeOK, Epoch, ThisLife

LEMMA IngestCallIsStoreStep ==
  ASSUME TypeOK, NEW w \in Worker, IngestionCall(w, ThisLife)
  PROVE  Next
BY ThisLifeIsCurrent DEF Next, EpochCall

LEMMA PhaseWriteIsStoreStep == TypeOK /\ set_phase(ThisLife) => Next
BY ThisLifeIsCurrent DEF Next, EpochCall

LEMMA CountIsStoreStep == ASSUME NEW n, SetUntagged(n) PROVE [Next]_vars
BY DEF SetUntagged, Next, Environment

LEMMA IngestNextIsStoreStep ==
  ASSUME TypeOK, [IngestNext]_ingestVars
  PROVE  [Next]_vars
<1>1. CASE HalfArrives \/ ReplyArrives \/ GroupCompletes
  BY <1>1, CountIsStoreStep DEF HalfArrives, ReplyArrives, GroupCompletes
<1>2. ASSUME NEW w \in Worker, Prepare(w) PROVE [Next]_vars
  <2>1. CASE PrepareClaims(w)
    BY <2>1, IngestCallIsStoreStep DEF PrepareClaims, IngestionCall
  <2>2. CASE PrepareDecides(w) \/ HealStarts(w) \/ ActivateInit(w)
    BY <2>2 DEF PrepareDecides, HealStarts, ActivateInit
  <2>3. CASE HealTakesLease(w) \/ HealCompletes(w)
    BY <2>3, IngestCallIsStoreStep DEF HealTakesLease, HealCompletes, IngestionCall
  <2>4. CASE RequestFlips(w)
    BY <2>4, PhaseWriteIsStoreStep DEF RequestFlips
  <2> QED
    BY <1>2, <2>1, <2>2, <2>3, <2>4 DEF Prepare
<1>3. ASSUME NEW w \in Worker,
             _run_tag_turn(w) \/ TaggerStep(w) \/ TagFails(w)
               \/ IngestionHeartbeat(w) \/ WorkerDies(w)
      PROVE  [Next]_vars
  <2>1. CASE _run_tag_turn(w) \/ TagGroup(w)
    BY <2>1, CountIsStoreStep DEF _run_tag_turn, TagGroup
  <2>2. CASE TagFails(w) \/ WorkerDies(w)
    BY <2>2 DEF TagFails, WorkerDies
  <2>3. CASE TaggerCompletes(w) \/ IngestionHeartbeat(w)
    BY <2>3, IngestCallIsStoreStep
       DEF TaggerCompletes, IngestionHeartbeat, IngestionCall
  <2>4. CASE TaggerFlips(w)
    BY <2>4, PhaseWriteIsStoreStep DEF TaggerFlips
  <2> QED
    BY <1>3, <2>1, <2>2, <2>3, <2>4 DEF TaggerStep
<1>4. CASE LeaseAges
  BY <1>4, ThisLifeIsCurrent DEF LeaseAges, Next, Environment
<1>5. CASE UNCHANGED ingestVars
  BY <1>5 DEF ingestVars
<1> QED
  BY <1>1, <1>2, <1>3, <1>4, <1>5 DEF IngestNext

\* `work' follows the count.
LEMMA CountType ==
  ASSUME TypeOK, IngestShape, NEW n \in 0..MaxTurnGroups, SetUntagged(n)
  PROVE  untagged' \in 0..MaxTurnGroups /\ untagged' = n /\ work' = (untagged' > 0)
<1>1. CASE work = (n > 0)
  BY <1>1 DEF SetUntagged, vars
<1>2. CASE work # (n > 0)
  <2>1. work' = ~work /\ untagged' = n /\ work \in BOOLEAN
    BY <1>2 DEF SetUntagged, WorkChanges, TypeOK
  <2> QED
    BY <1>2, <2>1
<1> QED
  BY <1>1, <1>2

\* The parts of IngestShape after a step.
LEMMA ShapeNext ==
  ASSUME toCome' \in 0..MaxTurnGroups, untagged' \in 0..MaxTurnGroups,
         half' \in BOOLEAN,
         tagger' \in [Worker -> {"idle", "sweep", "flip"}],
         request' \in [Worker -> {"idle", "heal", "lease", "complete", "activate",
                                  "flip"}],
         gone' \subseteq Worker, work' = (untagged' > 0),
         toCome' + untagged' + Terminated' <= MaxTurnGroups
  PROVE  IngestShape'
BY Zenon DEF IngestShape, IngestTypeOK

LEMMA ShapeKept ==
  ASSUME IngestShape, UNCHANGED <<work, groupVars, tagger, request, gone>>
  PROVE  IngestShape'
<1>1. UNCHANGED <<work, toCome, half, untagged, tagger, request, gone>>
  BY DEF groupVars
<1>2. Terminated' = Terminated
  BY <1>1 DEF Terminated
<1> QED
  BY <1>1, <1>2, Zenon DEF IngestShape, IngestTypeOK

LEMMA GroupStepShape ==
  ASSUME TypeOK, IngestShape, HalfArrives \/ ReplyArrives \/ GroupCompletes
  PROVE  IngestShape'
<1> USE IngestionAssumption DEF IngestShape, IngestTypeOK, Terminated
<1>1. CASE HalfArrives
  BY <1>1, CountType DEF HalfArrives
<1>2. CASE ReplyArrives
  <2>1. half /\ half' = FALSE /\ SetUntagged(untagged + 1)
        /\ UNCHANGED <<toCome, tagger, request, gone>>
    BY <1>2 DEF ReplyArrives
  <2>2. untagged + 1 \in 0..MaxTurnGroups /\ toCome + untagged + 1 <= MaxTurnGroups
    BY <2>1
  <2>3. /\ untagged' \in 0..MaxTurnGroups /\ untagged' = untagged + 1
        /\ work' = (untagged' > 0)
    BY <2>1, <2>2, CountType
  <2>4. half' \in BOOLEAN /\ Terminated' = 0
    BY <2>1
  <2>5. /\ toCome' \in 0..MaxTurnGroups
        /\ toCome' + untagged' + Terminated' <= MaxTurnGroups
    BY <2>1, <2>2, <2>3, <2>4
  <2> QED
    BY <2>1, <2>3, <2>4, <2>5, ShapeNext
<1>3. CASE GroupCompletes
  <2>1. /\ toCome > 0 /\ toCome' = toCome - 1 /\ half' = FALSE
        /\ SetUntagged(untagged + Terminated + 1)
        /\ UNCHANGED <<tagger, request, gone>>
    BY <1>3 DEF GroupCompletes
  <2>2. /\ untagged + Terminated + 1 \in 0..MaxTurnGroups
        /\ toCome - 1 + untagged + Terminated + 1 <= MaxTurnGroups
    BY <2>1
  <2>3. /\ untagged' \in 0..MaxTurnGroups /\ untagged' = untagged + Terminated + 1
        /\ work' = (untagged' > 0)
    BY <2>1, <2>2, CountType
  <2>4. half' \in BOOLEAN /\ Terminated' = 0
    BY <2>1
  <2>5. /\ toCome' \in 0..MaxTurnGroups
        /\ toCome' + untagged' + Terminated' <= MaxTurnGroups
    BY <2>1, <2>2, <2>3, <2>4
  <2> QED
    BY <2>1, <2>3, <2>4, <2>5, ShapeNext
<1> QED
  BY <1>1, <1>2, <1>3

LEMMA WorkerStepShape ==
  ASSUME TypeOK, IngestShape, NEW w \in Worker,
         \/ Prepare(w) \/ _run_tag_turn(w) \/ TaggerStep(w) \/ TagFails(w)
         \/ IngestionHeartbeat(w) \/ WorkerDies(w)
  PROVE  IngestShape'
<1> USE IngestionAssumption DEF IngestShape, IngestTypeOK, Terminated, TaggerGoto,
        RequestGoto, groupVars
<1>1. CASE PrepareClaims(w)
  BY <1>1 DEF PrepareClaims, claim_ingestion_for_complete_group
<1>2. CASE PrepareDecides(w) \/ HealStarts(w) \/ ActivateInit(w)
  BY <1>2 DEF PrepareDecides, HealStarts, ActivateInit, vars
<1>3. CASE HealTakesLease(w)
  BY <1>3 DEF HealTakesLease, claim_ingestion_lease, vars
<1>4. CASE HealCompletes(w)
  BY <1>4 DEF HealCompletes, complete_ingestion_episode, vars
<1>5. CASE RequestFlips(w) \/ TaggerFlips(w)
  BY <1>5 DEF RequestFlips, TaggerFlips, set_phase
<1>6. CASE _run_tag_turn(w) \/ TagGroup(w)
  BY <1>6, CountType DEF _run_tag_turn, TagGroup
<1>7. CASE TagFails(w) \/ WorkerDies(w)
  BY <1>7 DEF TagFails, WorkerDies, vars
<1>8. CASE TaggerCompletes(w)
  BY <1>8 DEF TaggerCompletes, complete_ingestion_episode, vars
<1>9. CASE IngestionHeartbeat(w)
  BY <1>9 DEF IngestionHeartbeat, refresh_ingestion_heartbeat
<1> QED
  BY <1>1, <1>2, <1>3, <1>4, <1>5, <1>6, <1>7, <1>8, <1>9 DEF Prepare, TaggerStep

\* The counts and the states of the threads keep their types.
THEOREM IngestShapeAlways == IngestSpec => [](TypeOK /\ IngestShape)
<1>1. IngestInit => TypeOK /\ IngestShape
  <2> SUFFICES ASSUME IngestInit PROVE TypeOK /\ IngestShape
    OBVIOUS
  <2>1. 1 \in Epoch
    BY LifecycleAssumption DEF Epoch
  <2>2. TypeOK
    BY <2>1 DEF IngestInit, Init, TypeOK, Phase, OpStatus, EpStatus
  <2>3. work = FALSE /\ untagged = 0 /\ half = FALSE /\ toCome = MaxTurnGroups
    BY DEF IngestInit, Init
  <2>4. work = (untagged > 0)
    <3>1. ~(untagged > 0) /\ ~work
      BY <2>3
    <3>2. work \in BOOLEAN
      BY <2>2 DEF TypeOK
    <3> QED
      BY <3>1, <3>2
  <2>5. toCome + untagged + Terminated <= MaxTurnGroups
    BY <2>3, IngestionAssumption DEF Terminated
  <2>6. /\ toCome \in 0..MaxTurnGroups /\ untagged \in 0..MaxTurnGroups
        /\ half \in BOOLEAN
    <3>1. half \in BOOLEAN
      BY <2>3
    <3>2. MaxTurnGroups \in 0..MaxTurnGroups /\ 0 \in 0..MaxTurnGroups
      BY IngestionAssumption
    <3> QED
      BY <2>3, <3>1, <3>2, Zenon
  <2>7. /\ tagger \in [Worker -> {"idle", "sweep", "flip"}]
        /\ request \in [Worker -> {"idle", "heal", "lease", "complete",
                                   "activate", "flip"}]
        /\ gone \subseteq Worker
    BY DEF IngestInit
  <2>8. IngestShape
    BY <2>4, <2>5, <2>6, <2>7, Zenon DEF IngestShape, IngestTypeOK
  <2> QED
    BY <2>2, <2>8
<1>2. TypeOK /\ IngestShape /\ [IngestNext]_ingestVars => (TypeOK /\ IngestShape)'
  <2> SUFFICES ASSUME TypeOK, IngestShape, [IngestNext]_ingestVars
               PROVE  TypeOK' /\ IngestShape'
    OBVIOUS
  <2>1. TypeOK'
    BY IngestNextIsStoreStep, NextType
  <2>2. CASE LeaseAges
    <3>1. UNCHANGED <<work, groupVars, tagger, request, gone>>
      BY <2>2 DEF LeaseAges, EpisodeLeaseExpires
    <3> QED
      BY <2>1, <3>1, ShapeKept
  <2>3. CASE UNCHANGED ingestVars
    <3>1. UNCHANGED <<work, groupVars, tagger, request, gone>>
      BY <2>3 DEF ingestVars, vars
    <3> QED
      BY <2>1, <3>1, ShapeKept
  <2> QED
    BY <2>1, <2>2, <2>3, GroupStepShape, WorkerStepShape DEF IngestNext
<1> QED
  BY <1>1, <1>2, PTL DEF IngestSpec

\* Taggers, requests and the completion lane change the episode and the phase
\* only as the store's methods do.
THEOREM IngestImplementsStore == IngestSpec => ImplementsStore
<1>1. IngestInit => Init
  BY DEF IngestInit
<1>2. TypeOK /\ [IngestNext]_ingestVars => [Next]_vars
  BY IngestNextIsStoreStep
<1> QED
  BY <1>1, <1>2, IngestShapeAlways, PTL DEF IngestSpec, Spec, ImplementsStore

-----------------------------------------------------------------------------
(* Phase 'ingesting' is somebody's.                                        *)

\* A step in which nothing but the groups changes, or which moves a thread that
\* was not about to move the phase.
LEMMA OwnedKept ==
  ASSUME IngestingIsOwned, UNCHANGED <<epStatus, phase>>, gone \subseteq gone',
         \A w \in Worker : /\ tagger[w] = "flip" => tagger'[w] = "flip"
                           /\ request[w] = "flip" => request'[w] = "flip"
  PROVE  IngestingIsOwned'
BY DEF IngestingIsOwned

LEMMA OwnedStep ==
  ASSUME TypeOK, IngestShape, IngestingIsOwned, [IngestNext]_ingestVars
  PROVE  IngestingIsOwned'
<1> USE DEF TaggerGoto, RequestGoto
<1>t. /\ tagger \in [Worker -> {"idle", "sweep", "flip"}]
      /\ request \in [Worker -> {"idle", "heal", "lease", "complete", "activate",
                                 "flip"}]
  BY DEF IngestShape, IngestTypeOK
<1>c. ASSUME NEW n, SetUntagged(n) PROVE UNCHANGED <<epStatus, phase>>
  BY <1>c DEF SetUntagged, WorkChanges, vars, epVars
<1>1. CASE HalfArrives \/ ReplyArrives \/ GroupCompletes
  BY <1>1, <1>c, OwnedKept DEF HalfArrives, ReplyArrives, GroupCompletes
<1>2. ASSUME NEW w \in Worker, PrepareClaims(w) PROVE IngestingIsOwned'
  <2>1. epStatus'[ThisLife] = "running"
    BY <1>2, ThisLifeIsCurrent
       DEF PrepareClaims, claim_ingestion_for_complete_group, InsertEpisode,
           TakeEpisodeLease, epVars, TypeOK
  <2> QED
    BY <2>1 DEF IngestingIsOwned
<1>3. ASSUME NEW w \in Worker,
             PrepareDecides(w) \/ HealStarts(w) \/ ActivateInit(w) \/ TagFails(w)
      PROVE  IngestingIsOwned'
  BY <1>3, <1>t, OwnedKept
     DEF PrepareDecides, HealStarts, ActivateInit, TagFails, vars, epVars
<1>4. ASSUME NEW w \in Worker, HealTakesLease(w) PROVE IngestingIsOwned'
  BY <1>4, <1>t, OwnedKept
     DEF HealTakesLease, claim_ingestion_lease, TakeEpisodeLease, vars, epVars
<1>5. ASSUME NEW w \in Worker, HealCompletes(w) PROVE IngestingIsOwned'
  <2>1. CASE CanComplete(w)
    <3>1. request'[w] = "flip"
      BY <1>5, <1>t, <2>1 DEF HealCompletes
    <3> QED
      BY <3>1 DEF IngestingIsOwned
  <2>2. CASE ~CanComplete(w)
    BY <1>5, <1>t, <2>2, OwnedKept DEF HealCompletes, vars, epVars
  <2> QED
    BY <2>1, <2>2
<1>6. ASSUME NEW w \in Worker, TaggerCompletes(w) PROVE IngestingIsOwned'
  <2>1. CASE CanComplete(w)
    <3>1. tagger'[w] = "flip"
      BY <1>6, <1>t, <2>1 DEF TaggerCompletes
    <3> QED
      BY <3>1 DEF IngestingIsOwned
  <2>2. CASE ~CanComplete(w)
    BY <1>6, <1>t, <2>2, OwnedKept DEF TaggerCompletes, vars, epVars
  <2> QED
    BY <2>1, <2>2
<1>7. ASSUME NEW w \in Worker, RequestFlips(w) \/ TaggerFlips(w)
      PROVE  IngestingIsOwned'
  BY <1>7 DEF RequestFlips, TaggerFlips, set_phase, IngestingIsOwned
<1>8. ASSUME NEW w \in Worker, _run_tag_turn(w) \/ TagGroup(w)
      PROVE  IngestingIsOwned'
  BY <1>8, <1>t, <1>c, OwnedKept DEF _run_tag_turn, TagGroup
<1>9. ASSUME NEW w \in Worker, WorkerDies(w) PROVE IngestingIsOwned'
  BY <1>9 DEF WorkerDies, IngestingIsOwned
<1>10. ASSUME LeaseAges \/ \E w \in Worker : IngestionHeartbeat(w)
       PROVE  IngestingIsOwned'
  BY <1>10, OwnedKept DEF LeaseAges, EpisodeLeaseExpires, IngestionHeartbeat,
                          refresh_ingestion_heartbeat
<1>11. CASE UNCHANGED ingestVars
  BY <1>11, OwnedKept DEF ingestVars, vars, epVars
<1> QED
  BY <1>1, <1>2, <1>3, <1>4, <1>5, <1>6, <1>7, <1>8, <1>9, <1>10, <1>11
     DEF IngestNext, Prepare, TaggerStep

\* While no process has died, a conversation in phase 'ingesting' has an open
\* episode, or a thread or request is about to move the phase on.
THEOREM IngestingIsOwnedAlways == IngestSpec => []IngestingIsOwned
<1>1. IngestInit => IngestingIsOwned
  BY DEF IngestInit, Init, IngestingIsOwned
<1>2. TypeOK /\ IngestShape /\ IngestingIsOwned /\ [IngestNext]_ingestVars
        => IngestingIsOwned'
  BY OwnedStep
<1> QED
  BY <1>1, <1>2, IngestShapeAlways, PTL DEF IngestSpec
=============================================================================

--------------------------- MODULE IngestionWorkers ---------------------------
(***************************************************************************)
(* Ingestion of one conversation by several worker processes: user halves  *)
(* stored by prepare requests and replies that come late or never, prepare *)
(* requests that claim the ingestion episode when a complete turn group is *)
(* untagged, the tagger thread that drains the groups, the completion lane *)
(* that tags a turn without any episode, the two-step finalization         *)
(* (episode, then phase), and the self-heal of an episode whose owner went *)
(* away.                                                                   *)
(*                                                                         *)
(* The episode row and the phase are those of ConversationLifecycle; every *)
(* step that touches them is one of its actions.  Neither deletion nor     *)
(* compaction happens here: those are CompactionRun's and the base         *)
(* module's subject.                                                       *)
(***************************************************************************)
EXTENDS ConversationLifecycle

CONSTANT MaxTurnGroups   \* bound on the turn groups that arrive

ASSUME IngestionAssumption == MaxTurnGroups \in Nat

VARIABLES
  toCome,    \* groups that have not arrived yet
  half,      \* the newest group is one-sided and untagged
  untagged,  \* taggable groups: complete, or one-sided with a later row
  tagger,    \* process -> where its ingestion thread stands
  request,   \* process -> where the phase repair of its request stands
  gone       \* processes that died

groupVars  == <<toCome, half, untagged>>
ingestVars == <<vars, groupVars, tagger, request, gone>>

ThisLife == 1     \* the conversation's only epoch here

\* The types, and what `work' of the base module means here.
IngestTypeOK ==
  /\ toCome \in 0..MaxTurnGroups /\ untagged \in 0..MaxTurnGroups
  /\ half \in BOOLEAN
  /\ tagger \in [Worker -> {"idle", "sweep", "flip"}]
  /\ request \in [Worker -> {"idle", "heal", "lease", "complete", "activate",
                           "flip"}]
  /\ gone \subseteq Worker
  /\ work = (untagged > 0)

IngestInit ==
  /\ Init
  /\ toCome = MaxTurnGroups /\ half = FALSE /\ untagged = 0
  /\ tagger = [w \in Worker |-> "idle"]
  /\ request = [w \in Worker |-> "idle"]
  /\ gone = {}

Up(w) == w \notin gone
TaggerGoto(w, pc) == tagger' = [tagger EXCEPT ![w] = pc]
RequestGoto(w, pc) == request' = [request EXCEPT ![w] = pc]

-----------------------------------------------------------------------------
(* Turn groups.                                                            *)

\* The number of untagged groups changes; `work' follows it.
SetUntagged(n) ==
  /\ untagged' = n
  /\ IF work = (n > 0) THEN UNCHANGED vars ELSE WorkChanges

\* An open half that a later row follows is terminal and can be tagged alone.
Terminated == IF half THEN 1 ELSE 0

\* A prepare request stores the user half of a turn.
HalfArrives ==
  /\ toCome > 0
  /\ toCome' = toCome - 1 /\ half' = TRUE
  /\ SetUntagged(untagged + Terminated)
  /\ UNCHANGED <<tagger, request, gone>>

\* The assistant half arrives, late or never.
ReplyArrives ==
  /\ half
  /\ half' = FALSE
  /\ SetUntagged(untagged + 1)
  /\ UNCHANGED <<toCome, tagger, request, gone>>

\* A payload brings both halves.
GroupCompletes ==
  /\ toCome > 0
  /\ toCome' = toCome - 1 /\ half' = FALSE
  /\ SetUntagged(untagged + Terminated + 1)
  /\ UNCHANGED <<tagger, request, gone>>

\* total_ingestible = done_ingestible, and done_ingestible > 0.
NothingUntagged == untagged = 0 /\ ~half
SomethingTagged == toCome + untagged + Terminated < MaxTurnGroups

-----------------------------------------------------------------------------
(* handle_prepare_payload outside 'compacting' and 'deleted', and the end  *)
(* of the completion lane.                                                 *)

\* Claim of the episode; a claimed result starts the thread if none runs.
PrepareClaims(w) ==
  /\ Up(w)
  /\ claim_ingestion_for_complete_group(w, ThisLife)
  /\ IF epOwner'[ThisLife] = w /\ tagger[w] = "idle"
       THEN TaggerGoto(w, "sweep") ELSE UNCHANGED tagger
  /\ UNCHANGED <<groupVars, request, gone>>

\* An 'init' conversation with nothing untagged, or with something tagged, is
\* about to be 'active'; one 'ingesting' with nothing untagged is healed.
PrepareDecides(w) ==
  /\ Up(w) /\ request[w] = "idle"
  /\ \/ /\ phase = "init" /\ (NothingUntagged \/ SomethingTagged)
        /\ RequestGoto(w, "flip")
     \/ /\ phase = "ingesting" /\ NothingUntagged
        /\ RequestGoto(w, "heal")
  /\ UNCHANGED <<vars, groupVars, tagger, gone>>

\* The completion lane tags its turn without a lease and then tries both
\* repairs of the phase.
_run_tag_turn(w) ==
  /\ Up(w) /\ request[w] = "idle" /\ untagged > 0
  /\ SetUntagged(untagged - 1)
  /\ RequestGoto(w, "heal")
  /\ UNCHANGED <<toCome, half, tagger, gone>>

\* _finalize_ingestion_if_complete, one store call at a time.
HealStarts(w) ==
  /\ Up(w) /\ request[w] = "heal"
  /\ RequestGoto(w, IF phase = "ingesting" /\ NothingUntagged THEN "lease"
                    ELSE "activate")
  /\ UNCHANGED <<vars, groupVars, tagger, gone>>

\* Variant: a lease that is never taken over.
LeaseOfOwnerOnly(w) == epStatus[ThisLife] = "running" /\ epOwner[ThisLife] = w

CanTakeLease(w) ==
  epStatus[ThisLife] = "running" /\ (epOwner[ThisLife] = w \/ epStale[ThisLife])

HealTakesLease(w) ==
  /\ Up(w) /\ request[w] = "lease"
  /\ IF CanTakeLease(w)
       THEN claim_ingestion_lease(w, ThisLife) /\ RequestGoto(w, "complete")
       ELSE UNCHANGED vars /\ RequestGoto(w, "activate")
  /\ UNCHANGED <<groupVars, tagger, gone>>

CanComplete(w) ==
  epStatus[ThisLife] = "running" /\ epOwner[ThisLife] = w /\ ~work

HealCompletes(w) ==
  /\ Up(w) /\ request[w] = "complete"
  /\ IF CanComplete(w)
       THEN complete_ingestion_episode(w, ThisLife) /\ RequestGoto(w, "flip")
       ELSE UNCHANGED vars /\ RequestGoto(w, "activate")
  /\ UNCHANGED <<groupVars, tagger, gone>>

\* The check of _activate_init_phase_if_tagged.
ActivateInit(w) ==
  /\ Up(w) /\ request[w] = "activate"
  /\ RequestGoto(w, IF phase = "init" /\ SomethingTagged THEN "flip" ELSE "idle")
  /\ UNCHANGED <<vars, groupVars, tagger, gone>>

\* The phase write that ends each of these paths: it checks the epoch only.
RequestFlips(w) ==
  /\ Up(w) /\ request[w] = "flip"
  /\ set_phase(ThisLife)
  /\ RequestGoto(w, "idle")
  /\ UNCHANGED <<groupVars, tagger, gone>>

-----------------------------------------------------------------------------
(* _tagger_run on the ingestion thread.                                    *)

\* The tag CAS of one group: it does not look at the lease.
TagGroup(w) ==
  /\ Up(w) /\ tagger[w] = "sweep" /\ untagged > 0
  /\ SetUntagged(untagged - 1)
  /\ UNCHANGED <<toCome, half, tagger, request, gone>>

\* The model call fails, the CAS is rejected, or the sidecar was refused and
\* cancelled the thread: it ends, the group stays untagged.
TagFails(w) ==
  /\ Up(w) /\ tagger[w] = "sweep" /\ untagged > 0
  /\ TaggerGoto(w, "idle")
  /\ UNCHANGED <<vars, groupVars, request, gone>>

\* Variant: the completion that does not check again for a late group.
TaggerCompletesOverLateGroup(w) ==
  /\ Up(w) /\ tagger[w] = "sweep" /\ untagged <= 1
  /\ epStatus[ThisLife] = "running" /\ epOwner[ThisLife] = w
  /\ epStatus' = [epStatus EXCEPT ![ThisLife] = "completed"]
  /\ epStale' = [epStale EXCEPT ![ThisLife] = FALSE]
  /\ TaggerGoto(w, "flip")
  /\ UNCHANGED <<phase, epoch, deletedAt, opVars, epOwner, work, handle,
                 stmtVars, groupVars, request, gone>>

\* The batch was empty: complete the episode.  A refusal with no group left
\* means the episode is someone else's; with a group left the loop goes on.
TaggerCompletes(w) ==
  /\ Up(w) /\ tagger[w] = "sweep" /\ untagged = 0
  /\ IF CanComplete(w)
       THEN complete_ingestion_episode(w, ThisLife) /\ TaggerGoto(w, "flip")
       ELSE UNCHANGED vars /\ TaggerGoto(w, "idle")
  /\ UNCHANGED <<groupVars, request, gone>>

TaggerFlips(w) ==
  /\ Up(w) /\ tagger[w] = "flip"
  /\ set_phase(ThisLife)
  /\ TaggerGoto(w, "idle")
  /\ UNCHANGED <<groupVars, request, gone>>

\* The sidecar, and the refresh after each group.
IngestionHeartbeat(w) ==
  /\ Up(w) /\ tagger[w] # "idle" /\ epStale[ThisLife]
  /\ refresh_ingestion_heartbeat(w, ThisLife)
  /\ UNCHANGED <<groupVars, tagger, request, gone>>

-----------------------------------------------------------------------------
LeaseAges ==
  /\ EpisodeLeaseExpires(ThisLife)
  /\ UNCHANGED <<groupVars, tagger, request, gone>>

WorkerDies(w) ==
  /\ Up(w) /\ \E v \in Worker \ {w} : Up(v)
  /\ gone' = gone \cup {w}
  /\ TaggerGoto(w, "idle") /\ RequestGoto(w, "idle")
  /\ UNCHANGED <<vars, groupVars>>

Prepare(w) ==
  \/ PrepareClaims(w) \/ PrepareDecides(w)
  \/ HealStarts(w) \/ HealTakesLease(w) \/ HealCompletes(w)
  \/ ActivateInit(w) \/ RequestFlips(w)

TaggerStep(w) == TagGroup(w) \/ TaggerCompletes(w) \/ TaggerFlips(w)

IngestNext ==
  \/ HalfArrives \/ ReplyArrives \/ GroupCompletes
  \/ \E w \in Worker :
       \/ Prepare(w) \/ _run_tag_turn(w) \/ TaggerStep(w) \/ TagFails(w)
       \/ IngestionHeartbeat(w) \/ WorkerDies(w)
  \/ LeaseAges

IngestSpec == IngestInit /\ [][IngestNext]_ingestVars

\* Requests keep coming to every live process, its threads run on, a model call
\* does not fail for ever, and a lease that no thread refreshes gets old.  A
\* lease lasts longer than the gap between two store calls: a healer does not
\* lose it there again and again.
IngestFairness ==
  /\ \A w \in Worker : /\ WF_ingestVars(Prepare(w))
                       /\ WF_ingestVars(TaggerCompletes(w) \/ TaggerFlips(w))
                       /\ SF_ingestVars(TagGroup(w))
                       /\ SF_ingestVars(CanComplete(w) /\ HealCompletes(w))
  /\ WF_ingestVars((\A w \in Worker : epOwner[ThisLife] = w => tagger[w] = "idle")
                     /\ LeaseAges)

FairIngestSpec == IngestSpec /\ IngestFairness

-----------------------------------------------------------------------------
(* Properties.                                                             *)

\* Every complete group is eventually tagged, though the tagger of one process
\* may die with the lease and another one's model call may fail.
GroupsGetTagged == untagged > 0 ~> untagged = 0

\* An episode open in phase 'ingesting' does not stay so: it is completed by its
\* tagger, or by a request that heals it once the owner's lease ran out, unless
\* the phase is moved from under it.  A half turn that is never answered can
\* hold up the heal, which waits until every row is tagged.
EpisodesHeal ==
  <>[]~half =>
    (epStatus[ThisLife] = "running" /\ phase = "ingesting"
       ~> epStatus[ThisLife] # "running" \/ phase # "ingesting")

\* A conversation whose replies are all there does not stay in 'ingesting' for
\* good: the self-heal recovers one whose tagging completed but whose
\* finalization never ran.
IngestingEnds == <>[]~half => (phase = "ingesting" ~> phase # "ingesting")

\* Somebody is answerable for untagged groups in phase 'ingesting': an episode
\* is open, or a process is about to move the phase on.  A request that finds
\* the phase and no work heals it; one that finds work reopens the episode.
IngestingIsOwned ==
  phase = "ingesting" /\ gone = {} =>
    \/ epStatus[ThisLife] = "running"
    \/ \E w \in Worker : tagger[w] = "flip" \/ request[w] = "flip"

\* Every behaviour of the workers is one of the store's specification.
ImplementsStore == Spec
=============================================================================

------------------------ MODULE ConversationLifecycle ------------------------
(***************************************************************************)
(* The durable coordination state of ONE conversation, as the relational   *)
(* stores keep it, and the store methods that change it: the row of        *)
(* `conversations' (phase, lifecycle_epoch, deleted_at), the rows of       *)
(* `compaction_operation', the ingestion episode of each epoch, and the    *)
(* speaker handles assigned to the conversation's audience.                *)
(*                                                                         *)
(* Every action is one store method, called by an arbitrary worker with    *)
(* the epoch that worker last cached: the callers' discipline is NOT       *)
(* assumed here, only what the SQL checks.  A call whose guards fail       *)
(* changes nothing and is a stuttering step.                               *)
(*                                                                         *)
(* The SQLite store runs every method in one BEGIN IMMEDIATE transaction.  *)
(* The Postgres pool is opened with autocommit, and two methods there are  *)
(* sequences of separately committed statements: mark_conversation_deleted *)
(* and increment_lifecycle_epoch_on_resurrect.  `Atomic' selects one or    *)
(* the other.                                                              *)
(***************************************************************************)
EXTENDS Naturals, FiniteSets

CONSTANTS
  Worker,      \* worker ids (ProxyState._worker_id)
  OpId,        \* compaction operation ids
  Speaker,     \* actors of the audience that can be given a handle
  NoOwner,     \* owner of a row that was never inserted
  MaxEpoch,    \* bound on lifecycle_epoch
  Atomic,      \* TRUE: SQLite transactions; FALSE: Postgres autocommit
  DirectInsert \* TRUE: the two inserts that check no epoch are called as well

ASSUME LifecycleAssumption ==
  /\ MaxEpoch \in Nat \ {0}
  /\ NoOwner \notin Worker
  /\ Atomic \in BOOLEAN
  /\ DirectInsert \in BOOLEAN

VARIABLES
  phase,        \* conversations.phase
  epoch,        \* conversations.lifecycle_epoch
  deletedAt,    \* conversations.deleted_at IS NOT NULL
  opStatus,     \* compaction_operation.status; "unused" = no such row
  opOwner,      \* compaction_operation.owner_worker_id
  opEpoch,      \* compaction_operation.lifecycle_epoch; 0 = no such row
  opStale,      \* compaction_operation.heartbeat_ts < now - lease ttl; FALSE
                \* once the row is terminal, when nobody reads it any more
  epStatus,     \* per epoch: status of its latest ingestion_episode row
  epOwner,      \* per epoch: that row's owner_worker_id
  epStale,      \* per epoch: that row's heartbeat_ts < now - lease ttl; FALSE
                \* unless it is running
  work,         \* a complete, untagged turn group exists
  handle,       \* speaker -> lifecycle_epoch of its handle row; 0 = no row
  deleting,     \* statements that running mark_conversation_deleted calls owe
  resurrecting  \* <<statement, epoch>> that running resurrect calls owe

opVars  == <<opStatus, opOwner, opEpoch, opStale>>
epVars  == <<epStatus, epOwner, epStale>>
stmtVars == <<deleting, resurrecting>>
vars == <<phase, epoch, deletedAt, opVars, epVars, work, handle, stmtVars>>

Epoch    == 1..MaxEpoch
Phase    == {"init", "active", "ingesting", "compacting", "deleted"}
Active   == {"queued", "running"}
Terminal == {"completed", "failed", "abandoned", "cancelled"}
OpStatus == Active \cup Terminal \cup {"unused"}
EpStatus == {"none", "running", "completed", "abandoned"}

\* The types of the columns.
TypeOK ==
  /\ phase \in Phase
  /\ epoch \in Epoch
  /\ deletedAt \in BOOLEAN
  /\ opStatus \in [OpId -> OpStatus]
  /\ opOwner \in [OpId -> Worker \cup {NoOwner}]
  /\ opEpoch \in [OpId -> Epoch \cup {0}]
  /\ opStale \in [OpId -> BOOLEAN]
  /\ epStatus \in [Epoch -> EpStatus]
  /\ epOwner \in [Epoch -> Worker \cup {NoOwner}]
  /\ epStale \in [Epoch -> BOOLEAN]
  /\ work \in BOOLEAN
  /\ handle \in [Speaker -> Epoch \cup {0}]
  /\ deleting \in SUBSET {"episodes", "ops", "handles"}
  /\ resurrecting \in SUBSET ({"episodes", "ops"} \X Epoch)

Init ==
  /\ phase = "init" /\ epoch = 1 /\ deletedAt = FALSE
  /\ opStatus = [o \in OpId |-> "unused"]
  /\ opOwner = [o \in OpId |-> NoOwner]
  /\ opEpoch = [o \in OpId |-> 0]
  /\ opStale = [o \in OpId |-> FALSE]
  /\ epStatus = [e \in Epoch |-> "none"]
  /\ epOwner = [e \in Epoch |-> NoOwner]
  /\ epStale = [e \in Epoch |-> FALSE]
  /\ work = FALSE
  /\ handle = [s \in Speaker |-> 0]
  /\ deleting = {} /\ resurrecting = {}

\* The rows the partial unique index idx_compaction_operation_active covers.
ActiveAt(o, e) == opStatus[o] \in Active /\ opEpoch[o] = e

\* Variant: the table without its partial unique index.
InsertOperationWithoutIndex(o, w, e, status) ==
  /\ opStatus[o] = "unused"
  /\ opStatus' = [opStatus EXCEPT ![o] = status]
  /\ opOwner' = [opOwner EXCEPT ![o] = w]
  /\ opEpoch' = [opEpoch EXCEPT ![o] = e]
  /\ opStale' = [opStale EXCEPT ![o] = FALSE]

\* INSERT of a compaction_operation row; the unique index refuses a second
\* active row of the same epoch.
InsertOperation(o, w, e, status) ==
  /\ opStatus[o] = "unused"
  /\ \A p \in OpId : ~ActiveAt(p, e)
  /\ opStatus' = [opStatus EXCEPT ![o] = status]
  /\ opOwner' = [opOwner EXCEPT ![o] = w]
  /\ opEpoch' = [opEpoch EXCEPT ![o] = e]
  /\ opStale' = [opStale EXCEPT ![o] = FALSE]

\* INSERT of a running ingestion_episode row with a fresh heartbeat.
InsertEpisode(w, e) ==
  /\ epStatus' = [epStatus EXCEPT ![e] = "running"]
  /\ epOwner' = [epOwner EXCEPT ![e] = w]
  /\ epStale' = [epStale EXCEPT ![e] = FALSE]

-----------------------------------------------------------------------------
(* Compaction operations.                                                  *)

\* Lifecycle-locked begin: phase CAS and insert of the running row.
begin_compaction_with_lock(w, e, o) ==
  /\ ~deletedAt
  /\ e = epoch
  /\ phase \in {"active", "ingesting"}
  /\ InsertOperation(o, w, e, "running")
  /\ phase' = "compacting"
  /\ UNCHANGED <<epoch, deletedAt, epVars, work, handle, stmtVars>>

\* Insert of a queued row; checks nothing but the unique index.
start_compaction_operation(w, e, o) ==
  /\ DirectInsert
  /\ InsertOperation(o, w, e, "queued")
  /\ UNCHANGED <<phase, epoch, deletedAt, epVars, work, handle, stmtVars>>

\* Variant: a lease that only its owner may renew.
ClaimableByOwner(w, e) == {o \in OpId : ActiveAt(o, e) /\ opOwner[o] = w}

\* The rows of epoch e whose lease worker w may take or renew.
Claimable(w, e) ==
  {o \in OpId : ActiveAt(o, e) /\ (opOwner[o] = w \/ opStale[o])}

claim_compaction_lease(w, e) ==
  /\ Claimable(w, e) # {}
  /\ opOwner' = [o \in OpId |-> IF o \in Claimable(w, e) THEN w ELSE opOwner[o]]
  /\ opStale' = [o \in OpId |->
                   IF o \in Claimable(w, e) THEN FALSE ELSE opStale[o]]
  /\ UNCHANGED <<phase, epoch, deletedAt, opStatus, opEpoch, epVars, work,
                 handle, stmtVars>>

\* Variant: the takeover that retires the dead operation and inserts nothing.
CleanupWithoutSuccessor(w, e, dead, new) ==
  /\ opStatus[dead] = "running" /\ opEpoch[dead] = e
  /\ opStatus[new] = "unused"
  /\ opStatus' = [opStatus EXCEPT ![dead] = "abandoned"]
  /\ opStale' = [opStale EXCEPT ![dead] = FALSE]
  /\ UNCHANGED <<phase, epoch, deletedAt, opOwner, opEpoch, epVars, work,
                 handle, stmtVars>>

\* Takeover: the dead operation is abandoned and its successor inserted in the
\* same transaction.  A dead operation that is no longer running is not
\* touched and no successor is inserted (the idempotent re-run).
cleanup_abandoned_compaction(w, e, dead, new) ==
  /\ opStatus[dead] = "running" /\ opEpoch[dead] = e
  /\ opStatus[new] = "unused"
  /\ \A p \in OpId \ {dead} : ~ActiveAt(p, e)
  /\ opStatus' = [opStatus EXCEPT ![dead] = "abandoned", ![new] = "running"]
  /\ opOwner' = [opOwner EXCEPT ![new] = w]
  /\ opEpoch' = [opEpoch EXCEPT ![new] = e]
  /\ opStale' = [opStale EXCEPT ![dead] = FALSE, ![new] = FALSE]
  /\ UNCHANGED <<phase, epoch, deletedAt, epVars, work, handle, stmtVars>>

refresh_compaction_heartbeat(w, e, o) ==
  /\ opStatus[o] = "running" /\ opEpoch[o] = e /\ opOwner[o] = w
  /\ opStale' = [opStale EXCEPT ![o] = FALSE]
  /\ UNCHANGED <<phase, epoch, deletedAt, opStatus, opOwner, opEpoch, epVars,
                 work, handle, stmtVars>>

\* The active rows that an owner-and-epoch guarded statement of w matches.
OwnedActive(w, e) == {o \in OpId : ActiveAt(o, e) /\ e = epoch /\ opOwner[o] = w}

\* UPDATE of the status of a set of rows.  advance refreshes the heartbeat; the
\* others make the row terminal.
SetStatus(rows, status) ==
  /\ opStatus' = [o \in OpId |-> IF o \in rows THEN status ELSE opStatus[o]]
  /\ opStale' = [o \in OpId |-> o \notin rows /\ opStale[o]]

SetOwnedActive(w, e, status) ==
  /\ OwnedActive(w, e) # {}
  /\ SetStatus(OwnedActive(w, e), status)
  /\ UNCHANGED <<phase, epoch, deletedAt, opOwner, opEpoch, epVars, work,
                 handle, stmtVars>>

\* Variant: the name of the phase written into the status column.
AdvanceWritesPhaseName(w, e) == SetOwnedActive(w, e, "starting")

advance_compaction_phase(w, e) == SetOwnedActive(w, e, "running")

complete_compaction_operation(w, e) == SetOwnedActive(w, e, "completed")

fail_compaction_operation(w, e) == SetOwnedActive(w, e, "failed")

fail_orphaned_compaction_operation(o, e) ==
  /\ opStatus[o] = "running" /\ opStale[o] /\ opEpoch[o] = e
  /\ e = epoch /\ phase # "compacting"
  /\ SetStatus({o}, "failed")
  /\ UNCHANGED <<phase, epoch, deletedAt, opOwner, opEpoch, epVars, work,
                 handle, stmtVars>>

\* The exit of a compaction.  The episode INSERT has no ON CONFLICT clause: if
\* an episode of the epoch is running the transaction aborts.
drain_compaction_exit(w, e, o) ==
  /\ opStatus[o] \in Terminal /\ opOwner[o] = w /\ opEpoch[o] = e
  /\ \A p \in OpId : ~ActiveAt(p, e)
  /\ e = epoch
  /\ phase = "compacting"
  /\ \/ /\ work /\ epStatus[e] # "running"
        /\ phase' = "ingesting"
        /\ InsertEpisode(w, e)
     \/ /\ ~work
        /\ phase' = "active"
        /\ UNCHANGED epVars
  /\ UNCHANGED <<epoch, deletedAt, opVars, work, handle, stmtVars>>

\* Guarded by the epoch alone.  Every call in the repository passes 'active'.
set_phase(e) ==
  /\ e = epoch
  /\ phase' = "active"
  /\ UNCHANGED <<epoch, deletedAt, opVars, epVars, work, handle, stmtVars>>

-----------------------------------------------------------------------------
(* Ingestion episodes.                                                     *)

\* Insert the episode, or leave the running one to its owner.
upsert_ingestion_episode(w, e) ==
  /\ DirectInsert
  /\ epStatus[e] # "running"
  /\ InsertEpisode(w, e)
  /\ UNCHANGED <<phase, epoch, deletedAt, opVars, work, handle, stmtVars>>

\* Variant: an episode lease that only its owner may renew.
RenewEpisodeLease(w, e) ==
  /\ epOwner[e] = w
  /\ epStale' = [epStale EXCEPT ![e] = FALSE]
  /\ UNCHANGED <<epOwner, epStatus>>

TakeEpisodeLease(w, e) ==
  /\ epOwner[e] = w \/ epStale[e]
  /\ epOwner' = [epOwner EXCEPT ![e] = w]
  /\ epStale' = [epStale EXCEPT ![e] = FALSE]
  /\ UNCHANGED epStatus

\* Variant: the claim that does not look at deleted_at.
ClaimIngestionOfDeleted(w, e) ==
  /\ e = epoch
  /\ phase \in {"init", "active", "ingesting"}
  /\ work
  /\ phase' = "ingesting"
  /\ epStatus[e] # "running" /\ InsertEpisode(w, e)
  /\ UNCHANGED <<epoch, deletedAt, opVars, work, handle, stmtVars>>

\* Variant: the phase moves but a missing episode is not opened.
ClaimIngestionWithoutEpisode(w, e) ==
  /\ ~deletedAt
  /\ e = epoch
  /\ phase \in {"init", "active", "ingesting"}
  /\ work
  /\ phase' = "ingesting"
  /\ UNCHANGED <<epoch, deletedAt, opVars, epVars, work, handle, stmtVars>>

\* Recheck of the work, phase transition, episode upsert and lease decision in
\* one transaction.  A running episode whose owner is live is left alone
\* ("busy"), but the phase is moved all the same.
claim_ingestion_for_complete_group(w, e) ==
  /\ ~deletedAt
  /\ e = epoch
  /\ phase \in {"init", "active", "ingesting"}
  /\ work
  /\ phase' = "ingesting"
  /\ \/ epStatus[e] # "running" /\ InsertEpisode(w, e)
     \/ epStatus[e] = "running" /\ TakeEpisodeLease(w, e)
     \/ /\ epStatus[e] = "running" /\ epOwner[e] # w /\ ~epStale[e]
        /\ UNCHANGED epVars
  /\ UNCHANGED <<epoch, deletedAt, opVars, work, handle, stmtVars>>

claim_ingestion_lease(w, e) ==
  /\ epStatus[e] = "running"
  /\ TakeEpisodeLease(w, e)
  /\ UNCHANGED <<phase, epoch, deletedAt, opVars, work, handle, stmtVars>>

refresh_ingestion_heartbeat(w, e) ==
  /\ epStatus[e] = "running" /\ e = epoch /\ epOwner[e] = w
  /\ epStale' = [epStale EXCEPT ![e] = FALSE]
  /\ UNCHANGED <<phase, epoch, deletedAt, opVars, epStatus, epOwner, work,
                 handle, stmtVars>>

complete_ingestion_episode(w, e) ==
  /\ epStatus[e] = "running" /\ e = epoch /\ epOwner[e] = w
  /\ ~work
  /\ epStatus' = [epStatus EXCEPT ![e] = "completed"]
  /\ epStale' = [epStale EXCEPT ![e] = FALSE]
  /\ UNCHANGED <<phase, epoch, deletedAt, opVars, epOwner, work, handle,
                 stmtVars>>

-----------------------------------------------------------------------------
(* Speaker handles.                                                        *)

\* Variant: the allocation that does not prove its epoch again.
AllocateAtCachedEpoch(e, s) ==
  /\ phase # "deleted" /\ ~deletedAt
  /\ handle[s] = 0
  /\ handle' = [handle EXCEPT ![s] = e]
  /\ UNCHANGED <<phase, epoch, deletedAt, opVars, epVars, work, stmtVars>>

\* An assignment that exists is returned unchanged whatever its epoch.
allocate_speaker_handles(e, s) ==
  /\ phase # "deleted" /\ ~deletedAt
  /\ e = epoch
  /\ handle[s] = 0
  /\ handle' = [handle EXCEPT ![s] = e]
  /\ UNCHANGED <<phase, epoch, deletedAt, opVars, epVars, work, stmtVars>>

-----------------------------------------------------------------------------
(* Deletion and resurrection.                                              *)

\* The statements of the two methods, as sets of rows or new column values.
EndEpisodes(before) ==
  LET rows == {e \in Epoch : e < before /\ epStatus[e] = "running"} IN
  /\ epStatus' = [e \in Epoch |-> IF e \in rows THEN "abandoned" ELSE epStatus[e]]
  /\ epStale' = [e \in Epoch |-> e \notin rows /\ epStale[e]]

CancelOperations(before) ==
  SetStatus({o \in OpId : opEpoch[o] < before /\ opStatus[o] \in Active},
            "cancelled")

DropHandles == handle' = [s \in Speaker |-> 0]

\* Deletion names no epoch: its statements reach the rows of every life.
AnyLife == MaxEpoch + 1

mark_conversation_deleted ==
  /\ phase' = "deleted" /\ deletedAt' = TRUE
  /\ IF Atomic
       THEN /\ EndEpisodes(AnyLife) /\ CancelOperations(AnyLife) /\ DropHandles
            /\ UNCHANGED deleting
       ELSE /\ deleting' = deleting \cup {"episodes"}
            /\ UNCHANGED <<epStatus, epStale, opStatus, opStale, handle>>
  /\ UNCHANGED <<epoch, opOwner, opEpoch, epOwner, work, resurrecting>>

\* The later statements of a Postgres delete, each committed on its own.
mark_conversation_deleted_episodes ==
  /\ "episodes" \in deleting
  /\ EndEpisodes(AnyLife)
  /\ deleting' = (deleting \ {"episodes"}) \cup {"ops"}
  /\ UNCHANGED <<phase, epoch, deletedAt, opVars, epOwner, work, handle,
                 resurrecting>>

mark_conversation_deleted_ops ==
  /\ "ops" \in deleting
  /\ CancelOperations(AnyLife)
  /\ deleting' = (deleting \ {"ops"}) \cup {"handles"}
  /\ UNCHANGED <<phase, epoch, deletedAt, opOwner, opEpoch, epVars, work,
                 handle, resurrecting>>

mark_conversation_deleted_handles ==
  /\ "handles" \in deleting
  /\ DropHandles
  /\ deleting' = deleting \ {"handles"}
  /\ UNCHANGED <<phase, epoch, deletedAt, opVars, epVars, work, resurrecting>>

increment_lifecycle_epoch_on_resurrect ==
  /\ phase = "deleted" /\ epoch < MaxEpoch
  /\ epoch' = epoch + 1
  /\ phase' = "init" /\ deletedAt' = FALSE
  /\ IF Atomic
       THEN /\ EndEpisodes(epoch + 1) /\ CancelOperations(epoch + 1)
            /\ UNCHANGED resurrecting
       ELSE /\ resurrecting' = resurrecting \cup {<<"episodes", epoch + 1>>}
            /\ UNCHANGED <<epStatus, epStale, opStatus, opStale>>
  /\ UNCHANGED <<opOwner, opEpoch, epOwner, work, handle, deleting>>

\* Variant: "<=" instead of "<" in the repeated resurrection below.
ResurrectAgainInclusive ==
  /\ Atomic /\ phase # "deleted"
  /\ EndEpisodes(epoch + 1) /\ CancelOperations(epoch + 1)
  /\ UNCHANGED <<phase, epoch, deletedAt, opOwner, opEpoch, epOwner, work,
                 handle, stmtVars>>

\* SQLite runs the two UPDATEs with the current epoch even if the conversation
\* was not deleted.
increment_lifecycle_epoch_on_resurrect_again ==
  /\ Atomic /\ phase # "deleted"
  /\ EndEpisodes(epoch) /\ CancelOperations(epoch)
  /\ UNCHANGED <<phase, epoch, deletedAt, opOwner, opEpoch, epOwner, work,
                 handle, stmtVars>>

increment_lifecycle_epoch_on_resurrect_episodes(e) ==
  /\ <<"episodes", e>> \in resurrecting
  /\ EndEpisodes(e)
  /\ resurrecting' = (resurrecting \ {<<"episodes", e>>}) \cup {<<"ops", e>>}
  /\ UNCHANGED <<phase, epoch, deletedAt, opVars, epOwner, work, handle,
                 deleting>>

increment_lifecycle_epoch_on_resurrect_ops(e) ==
  /\ <<"ops", e>> \in resurrecting
  /\ CancelOperations(e)
  /\ resurrecting' = resurrecting \ {<<"ops", e>>}
  /\ UNCHANGED <<phase, epoch, deletedAt, opOwner, opEpoch, epVars, work,
                 handle, deleting>>

\* The process running one of the two methods dies between two statements.
CallerDies ==
  /\ \/ \E s \in deleting : deleting' = deleting \ {s} /\ UNCHANGED resurrecting
     \/ \E r \in resurrecting :
          resurrecting' = resurrecting \ {r} /\ UNCHANGED deleting
  /\ UNCHANGED <<phase, epoch, deletedAt, opVars, epVars, work, handle>>

-----------------------------------------------------------------------------
(* What happens around the store: leases age, turns arrive and are tagged. *)

OperationLeaseExpires(o) ==
  /\ opStatus[o] \in Active /\ ~opStale[o]
  /\ opStale' = [opStale EXCEPT ![o] = TRUE]
  /\ UNCHANGED <<phase, epoch, deletedAt, opStatus, opOwner, opEpoch, epVars,
                 work, handle, stmtVars>>

EpisodeLeaseExpires(e) ==
  /\ epStatus[e] = "running" /\ ~epStale[e]
  /\ epStale' = [epStale EXCEPT ![e] = TRUE]
  /\ UNCHANGED <<phase, epoch, deletedAt, opVars, epStatus, epOwner, work,
                 handle, stmtVars>>

\* The ingest of a turn completes a group, or the last such group is tagged.
WorkChanges ==
  /\ work' = ~work
  /\ UNCHANGED <<phase, epoch, deletedAt, opVars, epVars, handle, stmtVars>>

-----------------------------------------------------------------------------
CompactionCall(w, e) ==
  \/ \E o \in OpId :
       \/ begin_compaction_with_lock(w, e, o)
       \/ start_compaction_operation(w, e, o)
       \/ refresh_compaction_heartbeat(w, e, o)
       \/ drain_compaction_exit(w, e, o)
       \/ \E new \in OpId : cleanup_abandoned_compaction(w, e, o, new)
  \/ claim_compaction_lease(w, e)
  \/ advance_compaction_phase(w, e)
  \/ complete_compaction_operation(w, e)
  \/ fail_compaction_operation(w, e)

IngestionCall(w, e) ==
  \/ upsert_ingestion_episode(w, e)
  \/ claim_ingestion_for_complete_group(w, e)
  \/ claim_ingestion_lease(w, e)
  \/ refresh_ingestion_heartbeat(w, e)
  \/ complete_ingestion_episode(w, e)

\* The calls that name an epoch: the caller cached it, so it is not in the
\* future.
EpochCall(e) ==
  /\ e <= epoch
  /\ \/ \E w \in Worker : CompactionCall(w, e) \/ IngestionCall(w, e)
     \/ \E o \in OpId : fail_orphaned_compaction_operation(o, e)
     \/ \E s \in Speaker : allocate_speaker_handles(e, s)
     \/ set_phase(e)

LifecycleCall ==
  \/ mark_conversation_deleted
  \/ mark_conversation_deleted_episodes
  \/ mark_conversation_deleted_ops
  \/ mark_conversation_deleted_handles
  \/ increment_lifecycle_epoch_on_resurrect
  \/ increment_lifecycle_epoch_on_resurrect_again
  \/ \E e \in Epoch : increment_lifecycle_epoch_on_resurrect_episodes(e)
  \/ \E e \in Epoch : increment_lifecycle_epoch_on_resurrect_ops(e)
  \/ CallerDies

Environment ==
  \/ \E o \in OpId : OperationLeaseExpires(o)
  \/ \E e \in Epoch : EpisodeLeaseExpires(e)
  \/ WorkChanges

Next == (\E e \in Epoch : EpochCall(e)) \/ LifecycleCall \/ Environment

Spec == Init /\ [][Next]_vars

-----------------------------------------------------------------------------
(* Properties.                                                             *)

\* The ledger this store implements: an operation is unused, open or closed.
Ledger == INSTANCE CompactionLedger WITH
  Life <- Epoch,
  ledger <- [o \in OpId |-> IF opStatus[o] = "unused" THEN "unused"
                            ELSE IF opStatus[o] \in Active THEN "open"
                            ELSE "closed"],
  life <- opEpoch

\* The store implements CompactionLedger: whatever its callers do, operations
\* open one at a time per life, are handed over without a gap, and stay closed.
ImplementsLedger == Ledger!Spec

\* At most one compaction operation of a lifecycle epoch is queued or running,
\* and no row belongs to a life that has not begun.  The takeover inserts its
\* row without ON CONFLICT, so it relies on having retired the only one.
OneActiveOperation ==
  /\ \A o, p \in OpId :
       opStatus[o] \in Active /\ opStatus[p] \in Active
         /\ opEpoch[o] = opEpoch[p] => o = p
  /\ \A o \in OpId : opEpoch[o] <= epoch
  /\ \A e \in Epoch : e > epoch => epStatus[e] = "none"

\* A life that was deleted or superseded is over: nothing of it is still queued
\* or running, so no worker of that life can pass a guard of the SQL, whatever
\* set_phase wrote over the phase in the meantime.
DeadLivesAreQuiet ==
  /\ \A o \in OpId : opStatus[o] \in Active => opEpoch[o] = epoch /\ ~deletedAt
  /\ \A e \in Epoch : epStatus[e] = "running" => e = epoch /\ ~deletedAt

\* Every speaker handle in use was assigned in the life that uses it: a deleted
\* audience's assignments are gone before the conversation can come back.
HandlesOfThisLife ==
  \A s \in Speaker : handle[s] \in {0, epoch}

\* A conversation shows phase 'compacting' only if one of its operations of this
\* life runs or was ended by its own worker: never on the strength of cancelled
\* or abandoned operations alone, which nobody would drain.
CompactingHasRunner ==
  phase = "compacting" =>
    \E o \in OpId : /\ opEpoch[o] = epoch
                    /\ opStatus[o] \in Active \cup {"completed", "failed"}

\* A terminal operation never changes again: no late heartbeat, lease claim,
\* completion or takeover revives it or rewrites its owner or outcome.
TerminalIsFinal ==
  [][\A o \in OpId : opStatus[o] \in Terminal =>
       /\ opStatus'[o] = opStatus[o]
       /\ opOwner'[o] = opOwner[o]
       /\ opEpoch'[o] = opEpoch[o]]_vars

\* A deletion cancels the operations of the life it deletes and of earlier
\* ones, never one of the life that a resurrection has begun since.
CancelsOnlyDeadLives ==
  [][\A o \in OpId :
       opStatus[o] \in Active /\ opStatus'[o] = "cancelled"
         => deletedAt' \/ opEpoch[o] < epoch']_vars
=============================================================================

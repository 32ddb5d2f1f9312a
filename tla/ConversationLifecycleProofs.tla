--------------------- MODULE ConversationLifecycleProofs ---------------------
(***************************************************************************)
(* Proofs about ConversationLifecycle, for any number of workers,          *)
(* operations, speakers and lives.                                         *)
(***************************************************************************)
EXTENDS ConversationLifecycle, TLAPS

USE LifecycleAssumption

-----------------------------------------------------------------------------
(* Type correctness.                                                       *)

\* The columns keep their types under every compaction call.
LEMMA CompactionCallType ==
  ASSUME TypeOK, NEW w \in Worker, NEW e \in Epoch, CompactionCall(w, e)
  PROVE  TypeOK'
<1> USE DEF TypeOK, Phase, Active, Terminal, OpStatus, EpStatus, opVars, epVars,
            stmtVars
<1>1. CASE \E o \in OpId : begin_compaction_with_lock(w, e, o)
  BY <1>1 DEF begin_compaction_with_lock, InsertOperation
<1>2. CASE \E o \in OpId : start_compaction_operation(w, e, o)
  BY <1>2 DEF start_compaction_operation, InsertOperation
<1>3. CASE \E o \in OpId : refresh_compaction_heartbeat(w, e, o)
  BY <1>3 DEF refresh_compaction_heartbeat
<1>4. CASE \E o \in OpId : drain_compaction_exit(w, e, o)
  <2>1. PICK o \in OpId : drain_compaction_exit(w, e, o)
    BY <1>4
  <2>2. phase' \in Phase /\ epStatus' \in [Epoch -> EpStatus]
    BY <2>1 DEF drain_compaction_exit, InsertEpisode
  <2>3. epOwner' \in [Epoch -> Worker \cup {NoOwner}]
    BY <2>1 DEF drain_compaction_exit, InsertEpisode
  <2>4. epStale' \in [Epoch -> BOOLEAN]
    BY <2>1 DEF drain_compaction_exit, InsertEpisode
  <2> QED
    BY <2>1, <2>2, <2>3, <2>4 DEF drain_compaction_exit
<1>5. CASE \E o, new \in OpId : cleanup_abandoned_compaction(w, e, o, new)
  <2>1. PICK o, new \in OpId : cleanup_abandoned_compaction(w, e, o, new)
    BY <1>5
  <2>2. opStatus' \in [OpId -> OpStatus] /\ opStale' \in [OpId -> BOOLEAN]
    BY <2>1 DEF cleanup_abandoned_compaction
  <2> QED
    BY <2>1, <2>2 DEF cleanup_abandoned_compaction
<1>6. CASE claim_compaction_lease(w, e)
  BY <1>6 DEF claim_compaction_lease
<1>7. CASE advance_compaction_phase(w, e)
  BY <1>7 DEF advance_compaction_phase, SetOwnedActive, SetStatus
<1>8. CASE complete_compaction_operation(w, e)
  BY <1>8 DEF complete_compaction_operation, SetOwnedActive, SetStatus
<1>9. CASE fail_compaction_operation(w, e)
  BY <1>9 DEF fail_compaction_operation, SetOwnedActive, SetStatus
<1> QED
  BY <1>1, <1>2, <1>3, <1>4, <1>5, <1>6, <1>7, <1>8, <1>9 DEF CompactionCall

\* The columns keep their types under every ingestion call.
LEMMA IngestionCallType ==
  ASSUME TypeOK, NEW w \in Worker, NEW e \in Epoch, IngestionCall(w, e)
  PROVE  TypeOK'
<1> USE DEF TypeOK, Phase, EpStatus, opVars, epVars, stmtVars
<1>1. CASE upsert_ingestion_episode(w, e)
  BY <1>1 DEF upsert_ingestion_episode, InsertEpisode
<1>2. CASE claim_ingestion_for_complete_group(w, e)
  <2>1. phase' \in Phase /\ epStatus' \in [Epoch -> EpStatus]
    BY <1>2 DEF claim_ingestion_for_complete_group, InsertEpisode, TakeEpisodeLease
  <2>2. epOwner' \in [Epoch -> Worker \cup {NoOwner}]
    BY <1>2 DEF claim_ingestion_for_complete_group, InsertEpisode, TakeEpisodeLease
  <2>3. epStale' \in [Epoch -> BOOLEAN]
    BY <1>2 DEF claim_ingestion_for_complete_group, InsertEpisode, TakeEpisodeLease
  <2> QED
    BY <1>2, <2>1, <2>2, <2>3 DEF claim_ingestion_for_complete_group
<1>3. CASE claim_ingestion_lease(w, e)
  BY <1>3 DEF claim_ingestion_lease, TakeEpisodeLease
<1>4. CASE refresh_ingestion_heartbeat(w, e)
  BY <1>4 DEF refresh_ingestion_heartbeat
<1>5. CASE complete_ingestion_episode(w, e)
  BY <1>5 DEF complete_ingestion_episode
<1> QED
  BY <1>1, <1>2, <1>3, <1>4, <1>5 DEF IngestionCall

\* The UPDATEs of a deletion or resurrection keep the types of their columns.
LEMMA EndEpisodesType ==
  ASSUME TypeOK, NEW before, EndEpisodes(before)
  PROVE  epStatus' \in [Epoch -> EpStatus] /\ epStale' \in [Epoch -> BOOLEAN]
BY DEF TypeOK, EndEpisodes, EpStatus

LEMMA SetStatusType ==
  ASSUME TypeOK, NEW rows, NEW status \in OpStatus, SetStatus(rows, status)
  PROVE  opStatus' \in [OpId -> OpStatus] /\ opStale' \in [OpId -> BOOLEAN]
BY DEF TypeOK, SetStatus

LEMMA CancelOperationsType ==
  ASSUME TypeOK, NEW before, CancelOperations(before)
  PROVE  opStatus' \in [OpId -> OpStatus] /\ opStale' \in [OpId -> BOOLEAN]
<1>1. "cancelled" \in OpStatus
  BY DEF OpStatus, Terminal
<1> QED
  BY <1>1, SetStatusType DEF CancelOperations

\* The columns keep their types under deletion and resurrection.
LEMMA LifecycleCallType ==
  ASSUME TypeOK, LifecycleCall
  PROVE  TypeOK'
<1> USE DEF opVars, epVars, stmtVars
<1>1. CASE mark_conversation_deleted
  <2>1. phase' \in Phase /\ deletedAt' \in BOOLEAN
    BY <1>1 DEF mark_conversation_deleted, Phase
  <2>2. CASE Atomic
    BY <1>1, <2>1, <2>2, EndEpisodesType, CancelOperationsType
       DEF mark_conversation_deleted, DropHandles, TypeOK
  <2>3. CASE ~Atomic
    BY <1>1, <2>1, <2>3 DEF mark_conversation_deleted, TypeOK
  <2> QED
    BY <2>2, <2>3
<1>2. CASE mark_conversation_deleted_episodes
  BY <1>2, EndEpisodesType DEF mark_conversation_deleted_episodes, TypeOK
<1>3. CASE mark_conversation_deleted_ops
  BY <1>3, CancelOperationsType DEF mark_conversation_deleted_ops, TypeOK
<1>4. CASE mark_conversation_deleted_handles
  BY <1>4 DEF mark_conversation_deleted_handles, DropHandles, TypeOK
<1>5. CASE increment_lifecycle_epoch_on_resurrect
  <2>1. phase' \in Phase /\ deletedAt' \in BOOLEAN
    BY <1>5 DEF increment_lifecycle_epoch_on_resurrect, Phase
  <2>2. epoch' \in Epoch /\ epoch' = epoch + 1
    BY <1>5 DEF increment_lifecycle_epoch_on_resurrect, TypeOK, Epoch
  <2>3. CASE Atomic
    BY <1>5, <2>1, <2>2, <2>3, EndEpisodesType, CancelOperationsType
       DEF increment_lifecycle_epoch_on_resurrect, TypeOK
  <2>4. CASE ~Atomic
    BY <1>5, <2>1, <2>2, <2>4 DEF increment_lifecycle_epoch_on_resurrect, TypeOK
  <2> QED
    BY <2>3, <2>4
<1>6. CASE increment_lifecycle_epoch_on_resurrect_again
  BY <1>6, EndEpisodesType, CancelOperationsType
     DEF increment_lifecycle_epoch_on_resurrect_again, TypeOK
<1>7. CASE \E e \in Epoch : increment_lifecycle_epoch_on_resurrect_episodes(e)
  BY <1>7, EndEpisodesType
     DEF increment_lifecycle_epoch_on_resurrect_episodes, TypeOK
<1>8. CASE \E e \in Epoch : increment_lifecycle_epoch_on_resurrect_ops(e)
  BY <1>8, CancelOperationsType
     DEF increment_lifecycle_epoch_on_resurrect_ops, TypeOK
<1>9. CASE CallerDies
  BY <1>9 DEF CallerDies, TypeOK
<1> QED
  BY <1>1, <1>2, <1>3, <1>4, <1>5, <1>6, <1>7, <1>8, <1>9 DEF LifecycleCall

\* Every step of the store keeps the types of the columns.
LEMMA NextType == TypeOK /\ [Next]_vars => TypeOK'
<1> SUFFICES ASSUME TypeOK, [Next]_vars PROVE TypeOK'
  OBVIOUS
<1>1. CASE \E e \in Epoch : EpochCall(e)
  <2> PICK e \in Epoch : EpochCall(e)
    BY <1>1
  <2>1. CASE \E w \in Worker : CompactionCall(w, e) \/ IngestionCall(w, e)
    BY <2>1, CompactionCallType, IngestionCallType
  <2>2. CASE \E o \in OpId : fail_orphaned_compaction_operation(o, e)
    BY <2>2 DEF TypeOK, fail_orphaned_compaction_operation, SetStatus, OpStatus,
                Terminal, epVars, stmtVars
  <2>3. CASE \E s \in Speaker : allocate_speaker_handles(e, s)
    BY <2>3 DEF TypeOK, allocate_speaker_handles, opVars, epVars, stmtVars
  <2>4. CASE set_phase(e)
    BY <2>4 DEF TypeOK, set_phase, Phase, opVars, epVars, stmtVars
  <2> QED
    BY <2>1, <2>2, <2>3, <2>4 DEF EpochCall
<1>2. CASE LifecycleCall
  BY <1>2, LifecycleCallType
<1>3. CASE Environment
  <2>1. CASE \E o \in OpId : OperationLeaseExpires(o)
    BY <2>1 DEF OperationLeaseExpires, TypeOK, epVars, stmtVars
  <2>2. CASE \E e \in Epoch : EpisodeLeaseExpires(e)
    BY <2>2 DEF EpisodeLeaseExpires, TypeOK, opVars, stmtVars
  <2>3. CASE WorkChanges
    BY <2>3 DEF WorkChanges, TypeOK, opVars, epVars, stmtVars
  <2> QED
    BY <1>3, <2>1, <2>2, <2>3 DEF Environment
<1>4. CASE UNCHANGED vars
  BY <1>4 DEF vars, TypeOK, opVars, epVars, stmtVars
<1> QED
  BY <1>1, <1>2, <1>3, <1>4 DEF Next

\* The rows of the store always have their types.
THEOREM TypeCorrect == Spec => []TypeOK
<1>1. Init => TypeOK
  <2>1. 1 \in Epoch
    BY DEF Epoch
  <2> QED
    BY <2>1 DEF Init, TypeOK, Phase, OpStatus, EpStatus
<1> QED
  BY <1>1, NextType, PTL DEF Spec

-----------------------------------------------------------------------------
(* What a step can do to the compaction_operation table.                   *)

OperationsKept ==
  /\ opStatus' = opStatus /\ opEpoch' = opEpoch
  /\ \A o \in OpId : opStatus[o] \in Terminal => opOwner'[o] = opOwner[o]

OperationInserted ==
  \E o \in OpId, w \in Worker, e \in Epoch, status \in Active :
    e <= epoch /\ InsertOperation(o, w, e, status)

OperationReplaced ==
  \E w \in Worker, e \in Epoch, dead, new \in OpId :
    e <= epoch /\ cleanup_abandoned_compaction(w, e, dead, new)

OperationsUpdated ==
  \E rows \in SUBSET OpId, status \in {"running"} \cup Terminal :
    /\ \A o \in rows : opStatus[o] \in Active
    /\ SetStatus(rows, status)
    /\ UNCHANGED <<opOwner, opEpoch>>

OperationStep ==
  OperationsKept \/ OperationInserted \/ OperationReplaced \/ OperationsUpdated

\* Owner-and-epoch guarded status writes only reach active rows.
LEMMA SetOwnedActiveStep ==
  ASSUME NEW w \in Worker, NEW e \in Epoch,
         NEW status \in {"running"} \cup Terminal, SetOwnedActive(w, e, status)
  PROVE  OperationsUpdated
<1> DEFINE rows == OwnedActive(w, e)
<1>1. rows \in SUBSET OpId /\ \A o \in rows : opStatus[o] \in Active
  BY DEF OwnedActive, ActiveAt
<1>2. SetStatus(rows, status) /\ UNCHANGED <<opOwner, opEpoch>>
  BY DEF SetOwnedActive
<1> QED
  BY <1>1, <1>2 DEF OperationsUpdated

\* So do the cancellations of a deletion or resurrection.
LEMMA CancelOperationsStep ==
  ASSUME NEW before, CancelOperations(before), UNCHANGED <<opOwner, opEpoch>>
  PROVE  OperationsUpdated
<1> DEFINE rows == {o \in OpId : opEpoch[o] < before /\ opStatus[o] \in Active}
<1>1. rows \in SUBSET OpId /\ \A o \in rows : opStatus[o] \in Active
  OBVIOUS
<1>2. "cancelled" \in {"running"} \cup Terminal
  BY DEF Terminal
<1>3. SetStatus(rows, "cancelled")
  BY DEF CancelOperations
<1> QED
  BY <1>1, <1>2, <1>3 DEF OperationsUpdated

\* A lease claim rewrites the owner of active rows only.
LEMMA ClaimLeaseStep ==
  ASSUME TypeOK, NEW w \in Worker, NEW e \in Epoch, claim_compaction_lease(w, e)
  PROVE  OperationsKept
<1>1. ASSUME NEW o \in OpId, opStatus[o] \in Terminal
      PROVE  opOwner'[o] = opOwner[o]
  <2>1. o \notin Claimable(w, e)
    BY <1>1 DEF Claimable, ActiveAt, Active, Terminal
  <2> QED
    BY <2>1 DEF claim_compaction_lease, TypeOK
<1> QED
  BY <1>1 DEF OperationsKept, claim_compaction_lease

\* Every step of the store treats the table in one of the four ways.
LEMMA NextOperationStep == TypeOK /\ [Next]_vars => OperationStep
<1> SUFFICES ASSUME TypeOK, [Next]_vars PROVE OperationStep
  OBVIOUS
<1> USE DEF OperationStep
<1>1. ASSUME NEW e \in Epoch, e <= epoch, NEW w \in Worker, CompactionCall(w, e)
      PROVE  OperationStep
  <2>1. CASE \E o \in OpId : begin_compaction_with_lock(w, e, o)
    BY <1>1, <2>1 DEF begin_compaction_with_lock, OperationInserted, Active
  <2>2. CASE \E o \in OpId : start_compaction_operation(w, e, o)
    BY <1>1, <2>2 DEF start_compaction_operation, OperationInserted, Active
  <2>3. CASE \E o \in OpId : \/ refresh_compaction_heartbeat(w, e, o)
                              \/ drain_compaction_exit(w, e, o)
    BY <2>3 DEF refresh_compaction_heartbeat, drain_compaction_exit,
                OperationsKept, opVars
  <2>4. CASE \E o, new \in OpId : cleanup_abandoned_compaction(w, e, o, new)
    BY <1>1, <2>4 DEF OperationReplaced
  <2>5. CASE claim_compaction_lease(w, e)
    BY <2>5, ClaimLeaseStep
  <2>6. CASE \/ advance_compaction_phase(w, e)
             \/ complete_compaction_operation(w, e)
             \/ fail_compaction_operation(w, e)
    BY <2>6, SetOwnedActiveStep
       DEF advance_compaction_phase, complete_compaction_operation,
           fail_compaction_operation, Terminal
  <2> QED
    BY <1>1, <2>1, <2>2, <2>3, <2>4, <2>5, <2>6 DEF CompactionCall
<1>2. ASSUME NEW e \in Epoch, NEW w \in Worker, IngestionCall(w, e)
      PROVE  OperationStep
  BY <1>2 DEF IngestionCall, upsert_ingestion_episode,
       claim_ingestion_for_complete_group, claim_ingestion_lease,
       refresh_ingestion_heartbeat, complete_ingestion_episode, OperationsKept,
       opVars
<1>3. ASSUME NEW e \in Epoch, NEW o \in OpId,
             fail_orphaned_compaction_operation(o, e)
      PROVE  OperationStep
  <2>1. {o} \in SUBSET OpId /\ \A p \in {o} : opStatus[p] \in Active
    BY <1>3 DEF fail_orphaned_compaction_operation, Active
  <2>2. "failed" \in {"running"} \cup Terminal
    BY DEF Terminal
  <2> QED
    BY <1>3, <2>1, <2>2 DEF fail_orphaned_compaction_operation, OperationsUpdated
<1>4. ASSUME NEW e \in Epoch, \/ \E s \in Speaker : allocate_speaker_handles(e, s)
                              \/ set_phase(e)
      PROVE  OperationStep
  BY <1>4 DEF allocate_speaker_handles, set_phase, OperationsKept, opVars
<1>5. ASSUME LifecycleCall PROVE OperationStep
  <2>1. CASE mark_conversation_deleted
    BY <2>1, CancelOperationsStep DEF mark_conversation_deleted, OperationsKept
  <2>2. CASE mark_conversation_deleted_episodes
    BY <2>2 DEF mark_conversation_deleted_episodes, OperationsKept, opVars
  <2>3. CASE mark_conversation_deleted_ops
    BY <2>3, CancelOperationsStep DEF mark_conversation_deleted_ops
  <2>4. CASE mark_conversation_deleted_handles
    BY <2>4 DEF mark_conversation_deleted_handles, OperationsKept, opVars
  <2>5. CASE increment_lifecycle_epoch_on_resurrect
    BY <2>5, CancelOperationsStep
       DEF increment_lifecycle_epoch_on_resurrect, OperationsKept
  <2>6. CASE increment_lifecycle_epoch_on_resurrect_again
    BY <2>6, CancelOperationsStep DEF increment_lifecycle_epoch_on_resurrect_again
  <2>7. CASE \E e \in Epoch : increment_lifecycle_epoch_on_resurrect_episodes(e)
    BY <2>7 DEF increment_lifecycle_epoch_on_resurrect_episodes, OperationsKept,
                opVars
  <2>8. CASE \E e \in Epoch : increment_lifecycle_epoch_on_resurrect_ops(e)
    BY <2>8, CancelOperationsStep DEF increment_lifecycle_epoch_on_resurrect_ops
  <2>9. CASE CallerDies
    BY <2>9 DEF CallerDies, OperationsKept, opVars
  <2> QED
    BY <1>5, <2>1, <2>2, <2>3, <2>4, <2>5, <2>6, <2>7, <2>8, <2>9
       DEF LifecycleCall
<1>6. ASSUME Environment \/ UNCHANGED vars PROVE OperationStep
  BY <1>6 DEF Environment, OperationLeaseExpires, EpisodeLeaseExpires,
              WorkChanges, vars, OperationsKept, opVars
<1> QED
  BY <1>1, <1>2, <1>3, <1>4, <1>5, <1>6 DEF Next, EpochCall

-----------------------------------------------------------------------------
(* The table itself: one active operation per life, and final outcomes.    *)

\* The first two parts of OneActiveOperation, which the table keeps by itself.
OneActiveRow ==
  /\ \A o, p \in OpId :
       opStatus[o] \in Active /\ opStatus[p] \in Active
         /\ opEpoch[o] = opEpoch[p] => o = p
  /\ \A o \in OpId : opEpoch[o] <= epoch

\* No step lowers the epoch.
LEMMA EpochGrows == TypeOK /\ [Next]_vars => epoch' >= epoch
<1> SUFFICES ASSUME TypeOK, [Next]_vars PROVE epoch' >= epoch
  OBVIOUS
<1>1. epoch \in Nat
  BY DEF TypeOK, Epoch
<1>2. ASSUME NEW e \in Epoch, EpochCall(e) PROVE epoch' = epoch
  <2>1. ASSUME NEW w \in Worker, CompactionCall(w, e) PROVE epoch' = epoch
    BY <2>1 DEF CompactionCall, begin_compaction_with_lock,
       start_compaction_operation, refresh_compaction_heartbeat,
       drain_compaction_exit, cleanup_abandoned_compaction,
       claim_compaction_lease, advance_compaction_phase,
       complete_compaction_operation, fail_compaction_operation, SetOwnedActive
  <2>2. ASSUME NEW w \in Worker, IngestionCall(w, e) PROVE epoch' = epoch
    BY <2>2 DEF IngestionCall, upsert_ingestion_episode,
       claim_ingestion_for_complete_group, claim_ingestion_lease,
       refresh_ingestion_heartbeat, complete_ingestion_episode
  <2> QED
    BY <1>2, <2>1, <2>2 DEF EpochCall, fail_orphaned_compaction_operation,
       allocate_speaker_handles, set_phase
<1>3. ASSUME LifecycleCall PROVE epoch' = epoch \/ epoch' = epoch + 1
  BY <1>3 DEF LifecycleCall,
     mark_conversation_deleted, mark_conversation_deleted_episodes,
     mark_conversation_deleted_ops, mark_conversation_deleted_handles,
     increment_lifecycle_epoch_on_resurrect,
     increment_lifecycle_epoch_on_resurrect_again,
     increment_lifecycle_epoch_on_resurrect_episodes,
     increment_lifecycle_epoch_on_resurrect_ops, CallerDies
<1>4. ASSUME Environment \/ UNCHANGED vars PROVE epoch' = epoch
  BY <1>4 DEF Environment, OperationLeaseExpires, EpisodeLeaseExpires,
     WorkChanges, vars
<1> QED
  BY <1>1, <1>2, <1>3, <1>4 DEF Next

\* Each of the four ways to treat the table keeps one active row per life.
LEMMA OneActiveRowStep ==
  ASSUME TypeOK, OneActiveRow, OperationStep, epoch' \in Nat, epoch' >= epoch
  PROVE  OneActiveRow'
<1> USE DEF OneActiveRow, TypeOK
<1>0. /\ epoch \in Nat /\ \A o \in OpId : opEpoch[o] \in Nat
      /\ \A e \in Epoch : e \in Nat
  BY DEF Epoch
<1>1. CASE OperationsKept
  BY <1>0, <1>1 DEF OperationsKept
<1>2. CASE OperationInserted
  BY <1>0, <1>2 DEF OperationInserted, InsertOperation, ActiveAt
<1>3. CASE OperationReplaced
  <2>1. PICK w \in Worker, e \in Epoch, dead \in OpId, new \in OpId :
          e <= epoch /\ cleanup_abandoned_compaction(w, e, dead, new)
    BY <1>3 DEF OperationReplaced
  <2>2. dead # new
    BY <2>1 DEF cleanup_abandoned_compaction
  <2>3. /\ opStatus' = [opStatus EXCEPT ![dead] = "abandoned", ![new] = "running"]
        /\ opEpoch' = [opEpoch EXCEPT ![new] = e]
        /\ \A p \in OpId \ {dead} : ~ActiveAt(p, e)
    BY <2>1 DEF cleanup_abandoned_compaction
  <2>4. \A o \in OpId : opStatus'[o] \in Active =>
          \/ o = new /\ opEpoch'[o] = e
          \/ /\ o # new /\ o # dead
             /\ opStatus[o] \in Active /\ opEpoch'[o] = opEpoch[o]
    BY <2>2, <2>3 DEF Active
  <2>5. \A o \in OpId : opEpoch'[o] <= epoch'
    BY <1>0, <2>1, <2>3
  <2>6. ASSUME NEW o \in OpId, NEW p \in OpId, opStatus'[o] \in Active,
               opStatus'[p] \in Active, opEpoch'[o] = opEpoch'[p]
        PROVE  o = p
    BY <2>3, <2>4, <2>6 DEF ActiveAt
  <2> QED
    BY <2>5, <2>6
<1>4. CASE OperationsUpdated
  <2>1. \A o \in OpId : opStatus'[o] \in Active => opStatus[o] \in Active
    BY <1>4 DEF OperationsUpdated, SetStatus
  <2>2. opEpoch' = opEpoch
    BY <1>4 DEF OperationsUpdated
  <2> QED
    BY <1>0, <2>1, <2>2
<1> QED
  BY <1>1, <1>2, <1>3, <1>4 DEF OperationStep

\* The compaction_operation table never holds two queued or running rows of one
\* life, nor a row of a life that has not begun: the unique index, the takeover
\* that inserts without ON CONFLICT and the epoch guards together suffice.
THEOREM OneActiveRowAlways == Spec => []OneActiveRow
<1>1. Init => OneActiveRow
  BY DEF Init, OneActiveRow, Active
<1>2. TypeOK /\ TypeOK' /\ OneActiveRow /\ [Next]_vars => OneActiveRow'
  <2> SUFFICES ASSUME TypeOK, TypeOK', OneActiveRow, [Next]_vars
               PROVE  OneActiveRow'
    OBVIOUS
  <2>1. epoch' \in Nat /\ epoch' >= epoch
    BY EpochGrows DEF TypeOK, Epoch
  <2> QED
    BY <2>1, NextOperationStep, OneActiveRowStep
<1> QED
  BY <1>1, <1>2, TypeCorrect, PTL DEF Spec

\* An operation that reached a terminal status keeps its status, owner and epoch
\* for ever, whatever calls arrive late.
THEOREM TerminalFinal == Spec => TerminalIsFinal
<1> DEFINE Kept == \A o \in OpId : opStatus[o] \in Terminal =>
                     /\ opStatus'[o] = opStatus[o]
                     /\ opOwner'[o] = opOwner[o]
                     /\ opEpoch'[o] = opEpoch[o]
<1>1. TypeOK /\ [Next]_vars => [Kept]_vars
  <2> SUFFICES ASSUME TypeOK, [Next]_vars PROVE Kept
    OBVIOUS
  <2> SUFFICES ASSUME NEW o \in OpId, opStatus[o] \in Terminal
               PROVE  /\ opStatus'[o] = opStatus[o]
                      /\ opOwner'[o] = opOwner[o]
                      /\ opEpoch'[o] = opEpoch[o]
    OBVIOUS
  <2>1. opStatus[o] \notin Active /\ opStatus[o] # "unused"
    BY DEF Terminal, Active
  <2>2. CASE OperationsKept
    BY <2>2 DEF OperationsKept
  <2>3. CASE OperationInserted
    BY <2>1, <2>3 DEF OperationInserted, InsertOperation, TypeOK
  <2>4. CASE OperationReplaced
    BY <2>1, <2>4 DEF OperationReplaced, cleanup_abandoned_compaction, TypeOK,
                      Active
  <2>5. CASE OperationsUpdated
    BY <2>1, <2>5 DEF OperationsUpdated, SetStatus, TypeOK
  <2> QED
    BY <2>2, <2>3, <2>4, <2>5, NextOperationStep DEF OperationStep
<1> QED
  BY <1>1, TypeCorrect, PTL DEF Spec, TerminalIsFinal

-----------------------------------------------------------------------------
(* Ingestion episodes.                                                     *)

\* The third part of OneActiveOperation.
NoFutureEpisode == \A e \in Epoch : e > epoch => epStatus[e] = "none"

EpisodeStep ==
  \/ epStatus' = epStatus
  \/ \E e \in Epoch, status \in EpStatus :
       e <= epoch /\ epStatus' = [epStatus EXCEPT ![e] = status]
  \/ \E before : EndEpisodes(before)

\* A step changes the episode of a life that has begun, or ends running ones.
LEMMA NextEpisodeStep == TypeOK /\ [Next]_vars => EpisodeStep
<1> SUFFICES ASSUME TypeOK, [Next]_vars PROVE EpisodeStep
  OBVIOUS
<1> USE DEF EpisodeStep, epVars
<1>1. ASSUME NEW e \in Epoch, EpochCall(e) PROVE EpisodeStep
  <2>0. e <= epoch
    BY <1>1 DEF EpochCall
  <2>1. ASSUME NEW w \in Worker, CompactionCall(w, e) PROVE EpisodeStep
    <3>1. CASE \E o \in OpId : drain_compaction_exit(w, e, o)
      BY <2>0, <3>1 DEF drain_compaction_exit, InsertEpisode, EpStatus
    <3>2. CASE ~\E o \in OpId : drain_compaction_exit(w, e, o)
      BY <2>1, <3>2 DEF CompactionCall, begin_compaction_with_lock,
         start_compaction_operation, refresh_compaction_heartbeat,
         cleanup_abandoned_compaction, claim_compaction_lease,
         advance_compaction_phase, complete_compaction_operation,
         fail_compaction_operation, SetOwnedActive
    <3> QED
      BY <3>1, <3>2
  <2>2. ASSUME NEW w \in Worker, IngestionCall(w, e) PROVE EpisodeStep
    BY <2>0, <2>2 DEF IngestionCall, upsert_ingestion_episode, InsertEpisode,
       claim_ingestion_for_complete_group, claim_ingestion_lease,
       TakeEpisodeLease, refresh_ingestion_heartbeat,
       complete_ingestion_episode, EpStatus
  <2> QED
    BY <1>1, <2>1, <2>2 DEF EpochCall, fail_orphaned_compaction_operation,
       allocate_speaker_handles, set_phase
<1>2. ASSUME LifecycleCall PROVE EpisodeStep
  <2>1. CASE mark_conversation_deleted
    BY <2>1 DEF mark_conversation_deleted
  <2>2. CASE increment_lifecycle_epoch_on_resurrect
    BY <2>2 DEF increment_lifecycle_epoch_on_resurrect
  <2> QED
    BY <1>2, <2>1, <2>2 DEF LifecycleCall, mark_conversation_deleted_episodes,
       mark_conversation_deleted_ops, mark_conversation_deleted_handles,
       increment_lifecycle_epoch_on_resurrect_again,
       increment_lifecycle_epoch_on_resurrect_episodes,
       increment_lifecycle_epoch_on_resurrect_ops, CallerDies
<1>3. ASSUME Environment \/ UNCHANGED vars PROVE EpisodeStep
  BY <1>3 DEF Environment, OperationLeaseExpires, EpisodeLeaseExpires,
     WorkChanges, vars
<1> QED
  BY <1>1, <1>2, <1>3 DEF Next

\* At most one operation of a life is queued or running, and no operation or
\* episode belongs to a life that has not begun, on either store.
THEOREM OneActiveOperationAlways == Spec => []OneActiveOperation
<1>1. Init => NoFutureEpisode
  BY DEF Init, NoFutureEpisode
<1>2. TypeOK /\ TypeOK' /\ NoFutureEpisode /\ [Next]_vars => NoFutureEpisode'
  <2> SUFFICES ASSUME TypeOK, TypeOK', NoFutureEpisode, [Next]_vars,
                      NEW e \in Epoch, e > epoch'
               PROVE  epStatus'[e] = "none"
    BY DEF NoFutureEpisode
  <2>1. e > epoch /\ epStatus[e] = "none"
    <3>1. e \in Nat /\ epoch \in Nat /\ epoch' \in Nat /\ epoch' >= epoch
      BY EpochGrows DEF TypeOK, Epoch
    <3> QED
      BY <3>1 DEF NoFutureEpisode
  <2>2. CASE epStatus' = epStatus
    BY <2>1, <2>2
  <2>3. CASE \E d \in Epoch, status \in EpStatus :
               d <= epoch /\ epStatus' = [epStatus EXCEPT ![d] = status]
    <3>1. \A d \in Epoch : d <= epoch => d # e
      BY <2>1 DEF TypeOK, Epoch
    <3> QED
      BY <2>1, <2>3, <3>1 DEF TypeOK
  <2>4. CASE \E before : EndEpisodes(before)
    BY <2>1, <2>4 DEF EndEpisodes
  <2> QED
    BY <2>2, <2>3, <2>4, NextEpisodeStep DEF EpisodeStep
<1>3. OneActiveRow /\ NoFutureEpisode => OneActiveOperation
  BY DEF OneActiveRow, NoFutureEpisode, OneActiveOperation
<1> QED
  BY <1>1, <1>2, <1>3, TypeCorrect, OneActiveRowAlways, PTL DEF Spec

-----------------------------------------------------------------------------
(* The store implements the ledger.                                        *)

\* The compaction_operation table, seen without owners, leases and phases, is
\* the ledger of CompactionLedger: every step of the store opens one operation,
\* hands one over, closes some, or leaves the ledger as it is.
THEOREM ImplementsLedgerAlways == Spec => ImplementsLedger
<1> DEFINE L == [o \in OpId |-> IF opStatus[o] = "unused" THEN "unused"
                               ELSE IF opStatus[o] \in Active THEN "open"
                               ELSE "closed"]
<1>1. Init => Ledger!Init
  BY DEF Init, Ledger!Init
<1>2. TypeOK /\ OneActiveRow /\ [Next]_vars => [Ledger!Next]_(Ledger!ledgerVars)
  <2> SUFFICES ASSUME TypeOK, OneActiveRow, [Next]_vars
               PROVE  Ledger!Next \/ (L' = L /\ opEpoch' = opEpoch)
    BY DEF Ledger!ledgerVars
  <2>1. CASE OperationsKept
    BY <2>1 DEF OperationsKept
  <2>2. CASE OperationInserted
    <3>1. PICK o \in OpId, w \in Worker, e \in Epoch, status \in Active :
            InsertOperation(o, w, e, status)
      BY <2>2 DEF OperationInserted
    <3>2. Ledger!Open(o, e)
      <4>1. L[o] = "unused" /\ \A p \in OpId : ~(L[p] = "open" /\ opEpoch[p] = e)
        BY <3>1 DEF InsertOperation, ActiveAt
      <4>2. L' = [L EXCEPT ![o] = "open"]
        BY <3>1 DEF InsertOperation, TypeOK, Active
      <4>3. opEpoch' = [opEpoch EXCEPT ![o] = e]
        BY <3>1 DEF InsertOperation
      <4> QED
        BY <4>1, <4>2, <4>3 DEF Ledger!Open, Ledger!OpenIn
    <3> QED
      BY <3>2 DEF Ledger!Next
  <2>3. CASE OperationReplaced
    <3>1. PICK w \in Worker, e \in Epoch, dead \in OpId, new \in OpId :
            cleanup_abandoned_compaction(w, e, dead, new)
      BY <2>3 DEF OperationReplaced
    <3>2. Ledger!HandOver(dead, new)
      <4>1. /\ L[dead] = "open" /\ L[new] = "unused" /\ opEpoch[dead] = e
            /\ \A p \in OpId \ {dead} : ~(L[p] = "open" /\ opEpoch[p] = e)
        BY <3>1 DEF cleanup_abandoned_compaction, ActiveAt, Active
      <4>2. L' = [L EXCEPT ![dead] = "closed", ![new] = "open"]
        BY <3>1 DEF cleanup_abandoned_compaction, TypeOK, Active
      <4>3. opEpoch' = [opEpoch EXCEPT ![new] = e]
        BY <3>1 DEF cleanup_abandoned_compaction
      <4> QED
        BY <4>1, <4>2, <4>3 DEF Ledger!HandOver, Ledger!OpenIn
    <3> QED
      BY <3>2 DEF Ledger!Next
  <2>4. CASE OperationsUpdated
    <3>1. PICK rows \in SUBSET OpId, status \in {"running"} \cup Terminal :
            /\ \A o \in rows : opStatus[o] \in Active
            /\ SetStatus(rows, status)
            /\ UNCHANGED <<opOwner, opEpoch>>
      BY <2>4 DEF OperationsUpdated
    <3>2. CASE status = "running"
      BY <3>1, <3>2 DEF SetStatus, TypeOK, Active
    <3>3. CASE status \in Terminal
      <4>1. L' = [o \in OpId |-> IF o \in rows THEN "closed" ELSE L[o]]
        BY <3>1, <3>3 DEF SetStatus, TypeOK, Active, Terminal
      <4>2. \A o \in rows : L[o] = "open"
        BY <3>1 DEF Active
      <4>3. Ledger!Close(rows)
        BY <3>1, <4>1, <4>2 DEF Ledger!Close
      <4> QED
        BY <4>3 DEF Ledger!Next
    <3> QED
      BY <3>1, <3>2, <3>3
  <2> QED
    BY <2>1, <2>2, <2>3, <2>4, NextOperationStep DEF OperationStep
<1> QED
  BY <1>1, <1>2, TypeCorrect, OneActiveRowAlways, PTL
     DEF Spec, ImplementsLedger, Ledger!Spec

-----------------------------------------------------------------------------
(* Deletion and resurrection in one transaction each.                      *)

\* The inductive invariant behind DeadLivesAreQuiet, HandlesOfThisLife and
\* CompactingHasRunner.  deleted_at, not the phase, is what marks a deleted
\* conversation, because set_phase can write over the phase; a phase that is
\* still 'deleted' is trustworthy, and set_phase only ever writes 'active'.
LifeInv ==
  /\ deleting = {} /\ resurrecting = {}
  /\ phase = "deleted" => deletedAt
  /\ deletedAt => phase \in {"deleted", "active"}
  /\ DeadLivesAreQuiet
  /\ \A s \in Speaker : handle[s] # 0 => handle[s] = epoch /\ ~deletedAt
  /\ CompactingHasRunner

\* With transactions, no step of a worker disturbs the invariant.
LEMMA EpochCallLife ==
  ASSUME Atomic, ~DirectInsert, TypeOK, LifeInv, NEW e \in Epoch, EpochCall(e)
  PROVE  LifeInv'
<1> USE DEF LifeInv, DeadLivesAreQuiet, CompactingHasRunner, TypeOK, opVars,
            epVars, stmtVars
<1>1. ASSUME NEW w \in Worker, NEW o \in OpId, begin_compaction_with_lock(w, e, o)
      PROVE  LifeInv'
  BY <1>1 DEF begin_compaction_with_lock, InsertOperation, Active
<1>2. ASSUME NEW w \in Worker, NEW o \in OpId, refresh_compaction_heartbeat(w, e, o)
      PROVE  LifeInv'
  BY <1>2 DEF refresh_compaction_heartbeat
<1>3. ASSUME NEW w \in Worker, NEW o \in OpId, drain_compaction_exit(w, e, o)
      PROVE  LifeInv'
  BY <1>3 DEF drain_compaction_exit, InsertEpisode
<1>4. ASSUME NEW w \in Worker, NEW o \in OpId, NEW new \in OpId,
             cleanup_abandoned_compaction(w, e, o, new)
      PROVE  LifeInv'
  BY <1>4 DEF cleanup_abandoned_compaction, Active
<1>5. ASSUME NEW w \in Worker, claim_compaction_lease(w, e)
      PROVE  LifeInv'
  BY <1>5 DEF claim_compaction_lease
<1>6. ASSUME NEW w \in Worker, NEW status \in {"running", "completed", "failed"},
             SetOwnedActive(w, e, status)
      PROVE  LifeInv'
  BY <1>6 DEF SetOwnedActive, SetStatus, OwnedActive, ActiveAt, Active
<1>7. ASSUME NEW w \in Worker, IngestionCall(w, e)
      PROVE  LifeInv'
  BY <1>7 DEF IngestionCall, upsert_ingestion_episode, InsertEpisode,
     claim_ingestion_for_complete_group, claim_ingestion_lease,
     TakeEpisodeLease, refresh_ingestion_heartbeat, complete_ingestion_episode
<1>8. ASSUME NEW o \in OpId, fail_orphaned_compaction_operation(o, e)
      PROVE  LifeInv'
  BY <1>8 DEF fail_orphaned_compaction_operation, SetStatus, Active
<1>9. ASSUME NEW s \in Speaker, allocate_speaker_handles(e, s)
      PROVE  LifeInv'
  BY <1>9 DEF allocate_speaker_handles
<1>10. ASSUME set_phase(e)
       PROVE  LifeInv'
  BY <1>10 DEF set_phase
<1> QED
  BY <1>1, <1>2, <1>3, <1>4, <1>5, <1>6, <1>7, <1>8, <1>9, <1>10
     DEF EpochCall, CompactionCall, start_compaction_operation,
         advance_compaction_phase, complete_compaction_operation,
         fail_compaction_operation

\* Nor does a deletion or a resurrection.
LEMMA LifecycleCallLife ==
  ASSUME Atomic, TypeOK, LifeInv, LifecycleCall
  PROVE  LifeInv'
<1> USE DEF LifeInv, DeadLivesAreQuiet, CompactingHasRunner, TypeOK, opVars,
            epVars
<1>0. \A e \in Epoch \cup {0} : e < AnyLife
  BY DEF Epoch, AnyLife
<1>1. CASE mark_conversation_deleted
  <2>1. \A o \in OpId : opStatus'[o] \notin Active
    BY <1>0, <1>1 DEF mark_conversation_deleted, CancelOperations, SetStatus, Active
  <2>2. \A e \in Epoch : epStatus'[e] # "running"
    BY <1>0, <1>1 DEF mark_conversation_deleted, EndEpisodes
  <2>3. \A s \in Speaker : handle'[s] = 0
    BY <1>1 DEF mark_conversation_deleted, DropHandles
  <2> QED
    BY <1>1, <2>1, <2>2, <2>3 DEF mark_conversation_deleted
<1>2. CASE increment_lifecycle_epoch_on_resurrect
  <2>1. \A o \in OpId : opStatus'[o] \notin Active
    BY <1>2 DEF increment_lifecycle_epoch_on_resurrect, CancelOperations,
                SetStatus, Active
  <2>2. \A e \in Epoch : epStatus'[e] # "running"
    BY <1>2 DEF increment_lifecycle_epoch_on_resurrect, EndEpisodes
  <2>3. \A s \in Speaker : handle'[s] = 0
    BY <1>2 DEF increment_lifecycle_epoch_on_resurrect
  <2> QED
    BY <1>2, <2>1, <2>2, <2>3 DEF increment_lifecycle_epoch_on_resurrect
<1>3. CASE increment_lifecycle_epoch_on_resurrect_again
  <2>1. epoch \in Nat
    BY DEF Epoch
  <2>2. opStatus' = opStatus
    BY <1>3, <2>1 DEF increment_lifecycle_epoch_on_resurrect_again,
                      CancelOperations, SetStatus
  <2>3. epStatus' = epStatus
    BY <1>3, <2>1 DEF increment_lifecycle_epoch_on_resurrect_again, EndEpisodes
  <2> QED
    BY <1>3, <2>2, <2>3 DEF increment_lifecycle_epoch_on_resurrect_again, stmtVars
<1>4. ASSUME \/ mark_conversation_deleted_episodes
             \/ mark_conversation_deleted_ops
             \/ mark_conversation_deleted_handles
             \/ \E e \in Epoch : increment_lifecycle_epoch_on_resurrect_episodes(e)
             \/ \E e \in Epoch : increment_lifecycle_epoch_on_resurrect_ops(e)
             \/ CallerDies
      PROVE  FALSE
  BY <1>4 DEF mark_conversation_deleted_episodes, mark_conversation_deleted_ops,
     mark_conversation_deleted_handles, CallerDies,
     increment_lifecycle_epoch_on_resurrect_episodes,
     increment_lifecycle_epoch_on_resurrect_ops
<1> QED
  BY <1>1, <1>2, <1>3, <1>4 DEF LifecycleCall

\* The invariant holds in every state of a store whose methods are transactions
\* and whose unguarded inserts nobody calls.
THEOREM LifeInvAlways ==
  ASSUME Atomic, ~DirectInsert
  PROVE  Spec => []LifeInv
<1>1. Init => LifeInv
  BY DEF Init, LifeInv, DeadLivesAreQuiet, CompactingHasRunner, Active
<1>2. TypeOK /\ LifeInv /\ [Next]_vars => LifeInv'
  <2> SUFFICES ASSUME TypeOK, LifeInv, [Next]_vars PROVE LifeInv'
    OBVIOUS
  <2>1. ASSUME Environment \/ UNCHANGED vars PROVE LifeInv'
    BY <2>1 DEF Environment, OperationLeaseExpires, EpisodeLeaseExpires,
       WorkChanges, vars, opVars, epVars, stmtVars, LifeInv,
       DeadLivesAreQuiet, CompactingHasRunner
  <2> QED
    BY <2>1, EpochCallLife, LifecycleCallLife DEF Next
<1> QED
  BY <1>1, <1>2, TypeCorrect, PTL DEF Spec

\* Nothing of a deleted or superseded life is still queued or running.
THEOREM DeadLivesAreQuietAlways ==
  ASSUME Atomic, ~DirectInsert
  PROVE  Spec => []DeadLivesAreQuiet
<1>1. LifeInv => DeadLivesAreQuiet
  BY DEF LifeInv
<1> QED
  BY <1>1, LifeInvAlways, PTL

\* A conversation is never left 'compacting' by cancelled or abandoned operations
\* alone, which nobody would drain.
THEOREM CompactingHasRunnerAlways ==
  ASSUME Atomic, ~DirectInsert
  PROVE  Spec => []CompactingHasRunner
<1>1. LifeInv => CompactingHasRunner
  BY DEF LifeInv
<1> QED
  BY <1>1, LifeInvAlways, PTL

\* No speaker handle outlives the life that assigned it.
THEOREM HandlesOfThisLifeAlways ==
  ASSUME Atomic, ~DirectInsert
  PROVE  Spec => []HandlesOfThisLife
<1>1. TypeOK /\ LifeInv => HandlesOfThisLife
  BY DEF LifeInv, HandlesOfThisLife, TypeOK
<1> QED
  BY <1>1, LifeInvAlways, TypeCorrect, PTL

\* No worker's call cancels an operation.
LEMMA EpochCallCancelsNothing ==
  ASSUME TypeOK, NEW e \in Epoch, EpochCall(e), NEW o \in OpId,
         opStatus'[o] = "cancelled"
  PROVE  opStatus[o] = "cancelled"
<1> USE DEF TypeOK, opVars
<1>1. ASSUME NEW w \in Worker, CompactionCall(w, e)
      PROVE  opStatus[o] = "cancelled"
  <2>1. CASE \E p \in OpId : \/ begin_compaction_with_lock(w, e, p)
                             \/ start_compaction_operation(w, e, p)
    BY <2>1 DEF begin_compaction_with_lock, start_compaction_operation,
                InsertOperation
  <2>2. CASE \E p \in OpId : \/ refresh_compaction_heartbeat(w, e, p)
                             \/ drain_compaction_exit(w, e, p)
    BY <2>2 DEF refresh_compaction_heartbeat, drain_compaction_exit
  <2>3. CASE \E p, new \in OpId : cleanup_abandoned_compaction(w, e, p, new)
    BY <2>3 DEF cleanup_abandoned_compaction
  <2>4. CASE claim_compaction_lease(w, e)
    BY <2>4 DEF claim_compaction_lease
  <2>5. CASE \E status \in {"running", "completed", "failed"} :
               SetOwnedActive(w, e, status)
    BY <2>5 DEF SetOwnedActive, SetStatus
  <2> QED
    BY <1>1, <2>1, <2>2, <2>3, <2>4, <2>5
       DEF CompactionCall, advance_compaction_phase,
           complete_compaction_operation, fail_compaction_operation
<1>2. ASSUME NEW w \in Worker, IngestionCall(w, e)
      PROVE  opStatus[o] = "cancelled"
  BY <1>2 DEF IngestionCall, upsert_ingestion_episode,
     claim_ingestion_for_complete_group, claim_ingestion_lease,
     refresh_ingestion_heartbeat, complete_ingestion_episode
<1>3. CASE \E p \in OpId : fail_orphaned_compaction_operation(p, e)
  BY <1>3 DEF fail_orphaned_compaction_operation, SetStatus
<1>4. CASE set_phase(e) \/ \E s \in Speaker : allocate_speaker_handles(e, s)
  BY <1>4 DEF set_phase, allocate_speaker_handles
<1> QED
  BY <1>1, <1>2, <1>3, <1>4 DEF EpochCall

\* An operation is cancelled only because its own life was deleted or superseded.
THEOREM CancelsOnlyDeadLivesAlways ==
  ASSUME Atomic, ~DirectInsert
  PROVE  Spec => CancelsOnlyDeadLives
<1> DEFINE Dead == \A o \in OpId :
                     opStatus[o] \in Active /\ opStatus'[o] = "cancelled"
                       => deletedAt' \/ opEpoch[o] < epoch'
<1>1. TypeOK /\ LifeInv /\ [Next]_vars => [Dead]_vars
  <2> SUFFICES ASSUME TypeOK, LifeInv, [Next]_vars PROVE Dead
    OBVIOUS
  <2>1. CASE \E e \in Epoch : EpochCall(e)
    BY <2>1, EpochCallCancelsNothing DEF Active
  <2>2. CASE LifecycleCall
    <3>1. CASE mark_conversation_deleted
      BY <3>1 DEF mark_conversation_deleted
    <3>2. CASE increment_lifecycle_epoch_on_resurrect
      BY <3>2 DEF increment_lifecycle_epoch_on_resurrect, CancelOperations,
                  SetStatus, Active, TypeOK
    <3>3. CASE increment_lifecycle_epoch_on_resurrect_again
      BY <3>3 DEF increment_lifecycle_epoch_on_resurrect_again,
                  CancelOperations, SetStatus, Active, TypeOK
    <3> QED
      BY <2>2, <3>1, <3>2, <3>3 DEF LifecycleCall, LifeInv, CallerDies,
         mark_conversation_deleted_episodes, mark_conversation_deleted_ops,
         mark_conversation_deleted_handles,
         increment_lifecycle_epoch_on_resurrect_episodes,
         increment_lifecycle_epoch_on_resurrect_ops
  <2>3. CASE Environment \/ UNCHANGED vars
    BY <2>3 DEF Environment, OperationLeaseExpires, EpisodeLeaseExpires,
                WorkChanges, vars, opVars, Active
  <2> QED
    BY <2>1, <2>2, <2>3 DEF Next
<1> QED
  BY <1>1, LifeInvAlways, TypeCorrect, PTL DEF Spec, CancelsOnlyDeadLives
=============================================================================

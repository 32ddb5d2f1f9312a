------------------------- MODULE CompactionRunProofs -------------------------
(***************************************************************************)
(* Theorems about CompactionRun, for any processes, operations and turn    *)
(* groups.  Every step of a run is a step of the store (ImplementsStore),  *)
(* so what ConversationLifecycleProofs proves of the store holds of the    *)
(* runs.  With the active fence and guards that hold until the write       *)
(* commits, a lost lease writes nothing, an abandoned operation leaves     *)
(* nothing, and, without merges, no compacted turn is lost.  With guards   *)
(* read before the write commits, one late write at most is left.          *)
(***************************************************************************)
EXTENDS CompactionRun, ConversationLifecycleProofs, FiniteSetTheorems

\* What links the run variables to the operation rows: an executed run has a
\* process, a drain has the operation its snapshot found, a run or a takeover
\* is of an operation that was inserted.
RunShape ==
  /\ RunTypeOK
  /\ \A o \in OpId : run[o] # "none" => runner[o] \in Worker
  /\ \A o \in OpId : run[o] = "drain" => seen[o] \in OpId
  /\ \A o \in OpId : opStatus[o] = "unused" => run[o] = "none"
  /\ \A w \in Worker : post[w] \in OpId => opStatus[post[w]] # "unused"

LEMMA LifeIsCurrent == TypeOK => Life \in Epoch /\ Life <= epoch
BY LifecycleAssumption DEF TypeOK, Epoch, Life

\* A store call of the conversation's only life is a step of the store.
LEMMA CallIsStoreStep == TypeOK /\ EpochCall(Life) => Next
BY LifeIsCurrent DEF Next

LEMMA WorkerCallIsStoreStep ==
  ASSUME TypeOK, NEW w \in Worker,
         CompactionCall(w, Life) \/ IngestionCall(w, Life)
  PROVE  Next
BY LifeIsCurrent, CallIsStoreStep DEF EpochCall

\* The steps of a run's own thread, the sidecar and the sweeper.
LEMMA RunStepIsStoreStep ==
  ASSUME TypeOK, RunShape, NEW o \in OpId,
         RunStep(o) \/ Cancelled(o) \/ Heartbeat(o) \/ Sweep(o) \/ LeaseExpires(o)
  PROVE  [Next]_vars
<1> USE DEF lifeVars
<1>w. run[o] # "none" => runner[o] \in Worker
  BY DEF RunShape
<1>1. CASE _run_compact_takeover(o)
  BY <1>1 DEF _run_compact_takeover
<1>2. CASE _load_compactable_rows(o) \/ PlanSegment(o) \/ ReadGuard(o)
  BY <1>2 DEF _load_compactable_rows, PlanSegment, ReadGuard
<1>3. CASE store_segment(o) \/ store_chunk_embeddings(o)
             \/ replace_facts_for_segment(o)
  BY <1>3 DEF store_segment, store_chunk_embeddings, replace_facts_for_segment,
              _enforce_or_observe_mismatch
<1>4. CASE mark_canonical_turns_compacted(o) \/ save_tag_summary(o)
  BY <1>4 DEF mark_canonical_turns_compacted, save_tag_summary,
              _enforce_or_observe_mismatch
<1>5. CASE ExitSnapshot(o)
  BY <1>5 DEF ExitSnapshot
<1>6. CASE ExitTerminal(o)
  BY <1>6, <1>w, WorkerCallIsStoreStep DEF ExitTerminal, CompactionCall
<1>7. CASE ExitDrain(o)
  BY <1>7, <1>w, WorkerCallIsStoreStep DEF ExitDrain, RunShape, CompactionCall
<1>8. CASE Cancelled(o)
  BY <1>8 DEF Cancelled
<1>9. CASE Heartbeat(o)
  BY <1>9, <1>w, WorkerCallIsStoreStep
     DEF Heartbeat, CompactionCall, Working, Writing, Exiting
<1>10. CASE Sweep(o)
  BY <1>10, LifeIsCurrent, CallIsStoreStep DEF Sweep, EpochCall
<1>11. CASE LeaseExpires(o)
  BY <1>11 DEF LeaseExpires, Next, Environment
<1> QED
  BY <1>1, <1>2, <1>3, <1>4, <1>5, <1>6, <1>7, <1>8, <1>9, <1>10, <1>11
     DEF RunStep

\* The steps of a process: requests, the tagger, the yielding thread, death.
LEMMA ProcessStepIsStoreStep ==
  ASSUME TypeOK, RunShape, NEW w \in Worker,
         \/ \E o \in OpId : enter_compaction(w, o)
         \/ PostStep(w) \/ Yield(w) \/ Crash(w)
         \/ _tagger_run(w) \/ Ingestion(w)
  PROVE  [Next]_vars
<1> USE DEF lifeVars
<1>1. CASE \E o \in OpId : enter_compaction(w, o)
  BY <1>1, WorkerCallIsStoreStep DEF enter_compaction, CompactionCall
<1>2. CASE PostPhaseGate(w)
  BY <1>2 DEF PostPhaseGate
<1>3. CASE PostRepair(w)
  BY <1>3, LifeIsCurrent, CallIsStoreStep DEF PostRepair, EpochCall
<1>4. CASE PostClaim(w)
  BY <1>4, WorkerCallIsStoreStep DEF PostClaim, CompactionCall
<1>5. CASE PostTakeover(w)
  <2>1. CASE UNCHANGED vars
    BY <2>1
  <2>2. CASE \E d, new \in OpId : cleanup_abandoned_compaction(w, Life, d, new)
    BY <2>2, WorkerCallIsStoreStep DEF CompactionCall
  <2> QED
    BY <1>5, <2>1, <2>2 DEF PostTakeover
<1>6. CASE Yield(w) \/ Crash(w)
  BY <1>6 DEF Yield, Crash
<1>7. CASE _tagger_run(w)
  BY <1>7, LifeIsCurrent, CallIsStoreStep, WorkerCallIsStoreStep
     DEF _tagger_run, EpochCall, IngestionCall
<1>8. CASE Ingestion(w)
  BY <1>8, LifeIsCurrent, WorkerCallIsStoreStep
     DEF Ingestion, IngestionCall, Next, Environment
<1> QED
  BY <1>1, <1>2, <1>3, <1>4, <1>5, <1>6, <1>7, <1>8 DEF PostStep

LEMMA RunNextIsStoreStep ==
  ASSUME TypeOK, RunShape, [RunNext]_runVars
  PROVE  [Next]_vars
<1>1. CASE FirstRequest
  BY <1>1, LifeIsCurrent, CallIsStoreStep DEF FirstRequest, EpochCall
<1>2. CASE GroupArrives
  BY <1>2 DEF GroupArrives, lifeVars
<1>3. CASE UNCHANGED runVars
  BY <1>3 DEF runVars, lifeVars
<1> QED
  BY <1>1, <1>2, <1>3, RunStepIsStoreStep, ProcessStepIsStoreStep DEF RunNext

-----------------------------------------------------------------------------
(* RunShape is inductive.                                                  *)

\* A row that was inserted is never removed.
LEMMA InsertedForGood ==
  ASSUME TypeOK, [Next]_vars, NEW o \in OpId, opStatus'[o] = "unused"
  PROVE  opStatus[o] = "unused"
<1>1. OperationStep
  BY NextOperationStep
<1>2. CASE OperationsKept
  BY <1>2 DEF OperationsKept
<1>3. CASE OperationInserted
  BY <1>3 DEF OperationInserted, InsertOperation, TypeOK, Active
<1>4. CASE OperationReplaced
  BY <1>4 DEF OperationReplaced, cleanup_abandoned_compaction, TypeOK
<1>5. CASE OperationsUpdated
  BY <1>5 DEF OperationsUpdated, SetStatus, TypeOK, Terminal
<1> QED
  BY <1>1, <1>2, <1>3, <1>4, <1>5 DEF OperationStep

\* A step that gives no process a new takeover and starts no run keeps the
\* links to the operation rows.
LEMMA LinksKept ==
  ASSUME TypeOK, RunShape, [Next]_vars,
         run' \in [OpId -> RunState],
         \A o \in OpId : run'[o] # "none" => run[o] # "none",
         \A w \in Worker : post'[w] = post[w] \/ post'[w] \notin OpId
  PROVE  /\ \A o \in OpId : opStatus'[o] = "unused" => run'[o] = "none"
         /\ \A w \in Worker : post'[w] \in OpId => opStatus'[post'[w]] # "unused"
BY InsertedForGood DEF RunShape

\* The part of RunShape about the rows that runs write, and the other part.
RowsShape ==
  /\ segTurns \in [OpId -> SUBSET Group]
  /\ segStamp \in [OpId -> OpOrNone]
  /\ rowBy \in [Table \X OpId -> OpOrNone]
  /\ rowStamp \in [Table \X OpId -> OpOrNone]
  /\ tagBy \in OpOrNone
  /\ compactedBy \in [Group -> OpOrNone]

ControlShape ==
  /\ run \in [OpId -> RunState]
  /\ runner \in [OpId -> Worker \cup {NoOwner}]
  /\ active \in [Worker -> OpOrNone]
  /\ post \in [Worker -> {"idle", "repair", "claim"} \cup OpId]
  /\ crashed \subseteq Worker /\ finalizing \subseteq Worker
  /\ seen \in [OpId -> OpOrNone] /\ target \in [OpId -> OpOrNone]
  /\ input \in [OpId -> SUBSET Group] /\ base \in [OpId -> SUBSET Group]
  /\ guarded \in [OpId -> BOOLEAN]
  /\ arrived \in 0..MaxGroup
  /\ \A o \in OpId : run[o] # "none" => runner[o] \in Worker
  /\ \A o \in OpId : run[o] = "drain" => seen[o] \in OpId
  /\ \A o \in OpId : opStatus[o] = "unused" => run[o] = "none"
  /\ \A w \in Worker : post[w] \in OpId => opStatus[post[w]] # "unused"

LEMMA ShapeParts == RunShape <=> RowsShape /\ ControlShape
BY DEF RunShape, RunTypeOK, RowsShape, ControlShape

LEMMA ShapePartsNext == RunShape' <=> RowsShape' /\ ControlShape'
BY DEF RunShape, RunTypeOK, RowsShape, ControlShape

\* A guarded write moves its run on, or to the exit, and changes only rows.
LEMMA WriteControl ==
  ASSUME TypeOK, RunShape, [Next]_vars, NEW o \in OpId, run[o] \in Writing,
         NEW next \in Writing \cup {"finish"},
         _enforce_or_observe_mismatch(o, next)
  PROVE  ControlShape'
<1>1. PICK pc \in Writing \cup {"finish", "abort"} : run' = [run EXCEPT ![o] = pc]
  BY DEF _enforce_or_observe_mismatch, Goto
<1>2. /\ guarded' = [guarded EXCEPT ![o] = FALSE]
      /\ UNCHANGED <<seen, input, target, base, runner, active, post, crashed,
                     arrived, finalizing>>
  BY DEF _enforce_or_observe_mismatch
<1>3. run' \in [OpId -> RunState] /\ run[o] # "none" /\ run'[o] # "drain"
  BY <1>1 DEF RunShape, RunTypeOK, RunState, Working, Writing, Exiting
<1>4. /\ \A p \in OpId : opStatus'[p] = "unused" => run'[p] = "none"
      /\ \A w \in Worker : post'[w] \in OpId => opStatus'[post'[w]] # "unused"
  BY <1>1, <1>2, <1>3, LinksKept DEF RunShape, RunTypeOK
<1> QED
  BY <1>1, <1>2, <1>3, <1>4 DEF RunShape, RunTypeOK, ControlShape

\* What a write leaves in the rows has their types.
LEMMA SegmentRows ==
  ASSUME RunShape, NEW o \in OpId, store_segment(o)
  PROVE  RowsShape'
<1>1. /\ RowsShape
      /\ base[o] \cup input[o] \in SUBSET Group /\ o \in OpOrNone
  BY ShapeParts DEF RunShape, RunTypeOK, OpOrNone
<1>2. UNCHANGED <<rowBy, rowStamp, tagBy, compactedBy>>
  BY DEF store_segment
<1>3. segTurns' \in [OpId -> SUBSET Group] /\ segStamp' \in [OpId -> OpOrNone]
  BY <1>1 DEF store_segment, RowsShape
<1> QED
  BY <1>1, <1>2, <1>3 DEF RowsShape

LEMMA ReplacedRows ==
  ASSUME RunShape, NEW o \in OpId, NEW t \in Table, ReplaceRows(o, t),
         UNCHANGED <<segTurns, segStamp, tagBy, compactedBy>>
  PROVE  RowsShape'
<1>1. RowsShape /\ o \in OpOrNone /\ NoOp \in OpOrNone
  BY ShapeParts DEF OpOrNone
<1>2. PICK x \in OpOrNone, y \in OpOrNone :
        \/ UNCHANGED <<rowBy, rowStamp>>
        \/ /\ rowBy' = [rowBy EXCEPT ![<<t, target[o]>>] = x]
           /\ rowStamp' = [rowStamp EXCEPT ![<<t, target[o]>>] = y]
  BY <1>1 DEF ReplaceRows
<1>3. /\ rowBy' \in [Table \X OpId -> OpOrNone]
      /\ rowStamp' \in [Table \X OpId -> OpOrNone]
  BY <1>1, <1>2 DEF RowsShape
<1> QED
  BY <1>1, <1>3 DEF RowsShape

LEMMA RunStepShape ==
  ASSUME TypeOK, RunShape, [Next]_vars, NEW o \in OpId,
         RunStep(o) \/ Cancelled(o) \/ Heartbeat(o) \/ Sweep(o) \/ LeaseExpires(o)
  PROVE  RunShape'
<1> USE DEF RunShape, RunTypeOK, RunState, Working, Writing, Exiting, Table,
            OpOrNone, Goto, localVars, artifacts, procVars
<1>1. CASE _run_compact_takeover(o)
  <2>1. PICK pc \in {"load", "over"} : run' = [run EXCEPT ![o] = pc]
    BY <1>1 DEF _run_compact_takeover
  <2>2. PICK x \in OpOrNone : active' = [active EXCEPT ![runner[o]] = x]
    BY <1>1 DEF _run_compact_takeover
  <2>3. UNCHANGED <<localVars, artifacts, runner, post, crashed, arrived,
                    finalizing>>
    BY <1>1 DEF _run_compact_takeover
  <2>4. run' \in [OpId -> RunState] /\ run[o] # "none"
    BY <1>1, <2>1 DEF _run_compact_takeover
  <2> QED
    BY <2>1, <2>2, <2>3, <2>4, LinksKept
<1>2. CASE _load_compactable_rows(o)
  BY <1>2, LinksKept DEF _load_compactable_rows, Compactable
<1>3. CASE PlanSegment(o)
  BY <1>3, LinksKept DEF PlanSegment
<1>4. CASE ReadGuard(o)
  BY <1>4, LinksKept DEF ReadGuard
<1>5. CASE store_segment(o)
  <2>1. ControlShape'
    BY <1>5, WriteControl DEF store_segment
  <2>2. RowsShape'
    BY <1>5, SegmentRows
  <2> QED
    BY <2>1, <2>2, ShapePartsNext
<1>6. CASE store_chunk_embeddings(o)
  <2>1. ControlShape'
    BY <1>6, WriteControl DEF store_chunk_embeddings
  <2>2. RowsShape'
    BY <1>6, ReplacedRows DEF store_chunk_embeddings
  <2> QED
    BY <2>1, <2>2, ShapePartsNext
<1>7. CASE replace_facts_for_segment(o)
  <2>1. ControlShape'
    BY <1>7, WriteControl DEF replace_facts_for_segment
  <2>2. RowsShape'
    BY <1>7, ReplacedRows DEF replace_facts_for_segment
  <2> QED
    BY <2>1, <2>2, ShapePartsNext
<1>8. CASE mark_canonical_turns_compacted(o)
  <2>1. ControlShape'
    BY <1>8, WriteControl DEF mark_canonical_turns_compacted
  <2>2. RowsShape'
    BY <1>8 DEF mark_canonical_turns_compacted, Mark, RowsShape
  <2> QED
    BY <2>1, <2>2, ShapePartsNext
<1>9. CASE save_tag_summary(o)
  <2>1. CASE ~Merge /\ tagBy # NoOp
    <3>1. /\ run' = [run EXCEPT ![o] = "finish"]
          /\ guarded' = [guarded EXCEPT ![o] = FALSE]
          /\ UNCHANGED <<seen, input, target, base, runner, active, post, crashed,
                         arrived, finalizing>>
      BY <1>9, <2>1 DEF save_tag_summary
    <3>2. run' \in [OpId -> RunState] /\ run[o] # "none"
      BY <1>9, <3>1 DEF save_tag_summary
    <3>3. /\ \A p \in OpId : opStatus'[p] = "unused" => run'[p] = "none"
          /\ \A w \in Worker : post'[w] \in OpId => opStatus'[post'[w]] # "unused"
      BY <3>1, <3>2, LinksKept
    <3>4. ControlShape'
      BY <3>1, <3>2, <3>3 DEF ControlShape
    <3>5. RowsShape'
      BY <1>9, <2>1 DEF save_tag_summary, RowsShape
    <3> QED
      BY <3>4, <3>5, ShapePartsNext
  <2>2. CASE ~(~Merge /\ tagBy # NoOp)
    <3>1. ControlShape'
      BY <1>9, <2>2, WriteControl DEF save_tag_summary
    <3>2. RowsShape'
      BY <1>9, <2>2 DEF save_tag_summary, RowsShape
    <3> QED
      BY <3>1, <3>2, ShapePartsNext
  <2> QED
    BY <2>1, <2>2
<1>10. CASE ExitSnapshot(o)
  BY <1>10, LinksKept DEF ExitSnapshot
<1>11. CASE ExitTerminal(o)
  <2>1. run[o] # "none" /\ UNCHANGED <<artifacts, runner, post, crashed, arrived,
                                       finalizing>>
    BY <1>11 DEF ExitTerminal
  <2>2. CASE seen[o] = NoOp
    <3>1. RunOver(o)
      BY <1>11, <2>2 DEF ExitTerminal
    <3> QED
      BY <2>1, <3>1, LinksKept DEF RunOver, DropLocals
  <2>3. CASE seen[o] # NoOp
    <3>1. run' = [run EXCEPT ![o] = "drain"] /\ UNCHANGED <<localVars, active>>
      BY <1>11, <2>3 DEF ExitTerminal
    <3> QED
      BY <2>1, <2>3, <3>1, LinksKept
  <2> QED
    BY <2>2, <2>3
<1>12. CASE ExitDrain(o)
  BY <1>12, LinksKept DEF ExitDrain, RunOver, DropLocals
<1>13. CASE Cancelled(o)
  BY <1>13, LinksKept DEF Cancelled
<1>14. CASE Heartbeat(o) \/ Sweep(o) \/ LeaseExpires(o)
  BY <1>14, LinksKept DEF Heartbeat, Sweep, LeaseExpires
<1> QED
  BY <1>1, <1>2, <1>3, <1>4, <1>5, <1>6, <1>7, <1>8, <1>9, <1>10, <1>11, <1>12,
     <1>13, <1>14 DEF RunStep

LEMMA ProcessStepShape ==
  ASSUME TypeOK, RunShape, [Next]_vars, NEW w \in Worker,
         \/ \E o \in OpId : enter_compaction(w, o)
         \/ PostStep(w) \/ Yield(w) \/ Crash(w)
         \/ _tagger_run(w) \/ Ingestion(w)
  PROVE  RunShape'
<1> USE RunAssumption DEF RunShape, RunTypeOK, RunState, Working, Writing,
        Exiting, Table, OpOrNone, Goto, PostGoto, localVars, artifacts, procVars
<1>1. ASSUME NEW o \in OpId, enter_compaction(w, o) PROVE RunShape'
  <2>1. opStatus' = [opStatus EXCEPT ![o] = "running"]
    BY <1>1 DEF enter_compaction, begin_compaction_with_lock, InsertOperation
  <2> QED
    BY <1>1, <2>1 DEF enter_compaction, TypeOK
<1>2. CASE PostPhaseGate(w)
  BY <1>2, LinksKept DEF PostPhaseGate
<1>3. CASE PostRepair(w)
  BY <1>3, LinksKept DEF PostRepair
<1>4. CASE PostClaim(w)
  <2>1. PICK p \in {"idle"} \cup Claimable(w, Life) :
          post' = [post EXCEPT ![w] = p]
    BY <1>4 DEF PostClaim
  <2>2. /\ UNCHANGED <<localVars, artifacts, run, runner, active, crashed,
                       arrived, finalizing>>
        /\ opStatus' = opStatus
    BY <1>4 DEF PostClaim, claim_compaction_lease, lifeVars, vars, opVars
  <2>3. p \in OpId => opStatus[p] # "unused"
    BY <2>1 DEF Claimable, ActiveAt, Active
  <2>4. p \in {"idle"} \cup OpId
    BY DEF Claimable
  <2> QED
    BY <2>1, <2>2, <2>3, <2>4
<1>5. CASE PostTakeover(w)
  <2>1. /\ post' = [post EXCEPT ![w] = "idle"]
        /\ UNCHANGED <<localVars, crashed, arrived, finalizing>>
    BY <1>5 DEF PostTakeover
  <2>2. RowsShape'
    BY <1>5 DEF PostTakeover, Erase, RowsShape
  <2>3. CASE UNCHANGED <<run, runner, active>>
    <3>1. ControlShape'
      BY <2>1, <2>3, LinksKept DEF ControlShape
    <3> QED
      BY <2>2, <3>1, ShapePartsNext
  <2>4. ASSUME NEW new \in OpId,
               cleanup_abandoned_compaction(w, Life, post[w], new),
               run' = [run EXCEPT ![new] = "waiting"],
               runner' = [runner EXCEPT ![new] = w],
               active' = [active EXCEPT ![w] = new]
        PROVE  RunShape'
    <3>1. opStatus'[new] # "unused"
      BY <2>4 DEF cleanup_abandoned_compaction, TypeOK
    <3>2. \A p \in OpId : opStatus'[p] = "unused" => opStatus[p] = "unused"
      BY InsertedForGood
    <3>3. ControlShape'
      BY <2>1, <2>4, <3>1, <3>2 DEF ControlShape
    <3> QED
      BY <2>2, <3>3, ShapePartsNext
  <2> QED
    BY <1>5, <2>3, <2>4 DEF PostTakeover
<1>6. CASE Yield(w)
  BY <1>6, LinksKept DEF Yield
<1>7. CASE Crash(w)
  BY <1>7, LinksKept DEF Crash, DropLocals
<1>8. CASE _tagger_run(w) \/ Ingestion(w)
  BY <1>8, LinksKept DEF _tagger_run, Ingestion
<1> QED
  BY <1>1, <1>2, <1>3, <1>4, <1>5, <1>6, <1>7, <1>8 DEF PostStep

\* A group arrives, a first request, or nothing happens.
LEMMA OtherStepShape ==
  ASSUME TypeOK, RunShape, [Next]_vars,
         FirstRequest \/ GroupArrives \/ UNCHANGED runVars
  PROVE  RunShape'
<1> USE RunAssumption DEF RunShape, RunTypeOK, localVars, artifacts, procVars
<1>1. CASE FirstRequest
  BY <1>1, LinksKept DEF FirstRequest
<1>2. CASE GroupArrives
  BY <1>2, LinksKept DEF GroupArrives
<1>3. CASE UNCHANGED runVars
  BY <1>3, LinksKept DEF runVars
<1> QED
  BY <1>1, <1>2, <1>3

LEMMA RunNextShape ==
  ASSUME TypeOK, RunShape, [RunNext]_runVars
  PROVE  TypeOK' /\ RunShape'
<1>1. [Next]_vars
  BY RunNextIsStoreStep
<1>2. TypeOK'
  BY <1>1, NextType
<1>3. CASE FirstRequest \/ GroupArrives \/ UNCHANGED runVars
  BY <1>1, <1>2, <1>3, OtherStepShape
<1> QED
  BY <1>1, <1>2, <1>3, RunStepShape, ProcessStepShape DEF RunNext

LEMMA RunInitShape == RunInit => TypeOK /\ RunShape
<1> SUFFICES ASSUME RunInit PROVE TypeOK /\ RunShape
  OBVIOUS
<1>1. TypeOK
  <2>1. 1 \in Epoch
    BY LifecycleAssumption DEF Epoch
  <2> QED
    BY <2>1 DEF RunInit, Init, TypeOK, Phase, OpStatus, EpStatus
<1>2. RunShape
  BY RunAssumption DEF RunInit, RunShape, RunTypeOK, RunState, OpOrNone
<1> QED
  BY <1>1, <1>2

\* The variables of the runs keep their types, and a run, a drain or a pending
\* takeover always is of an operation that was inserted.
THEOREM RunShapeAlways == RunSpec => [](TypeOK /\ RunShape)
<1>1. TypeOK /\ RunShape /\ [RunNext]_runVars => (TypeOK /\ RunShape)'
  BY RunNextShape
<1> QED
  BY <1>1, RunInitShape, PTL DEF RunSpec

\* The rows, the request state and the locals of the runs keep their types.
THEOREM RunTypeCorrect == RunSpec => []RunTypeOK
<1>1. RunShape => RunTypeOK
  BY DEF RunShape
<1> QED
  BY <1>1, RunShapeAlways, PTL

\* Whatever the processes do, crash and take over included, they change the
\* operation rows, the episodes and the phase only as the store's methods do.
THEOREM ImplementsStore == RunSpec => ImplementsLifecycle
<1>1. RunInit => Init
  BY DEF RunInit
<1>2. TypeOK /\ RunShape /\ [RunNext]_runVars => [Next]_vars
  BY RunNextIsStoreStep
<1> QED
  BY <1>1, <1>2, RunShapeAlways, PTL DEF RunSpec, Spec, ImplementsLifecycle

\* So one operation of the conversation runs at a time, whichever processes
\* race for it: the store's theorem holds of the runs.
THEOREM OneRunAtATime == RunSpec => []OneActiveOperation
<1> QED
  BY ImplementsStore, OneActiveOperationAlways, PTL DEF ImplementsLifecycle

-----------------------------------------------------------------------------
(* What a step can do to the rows that runs write.                         *)

\* Nobody enters a run or takes one over: a row's status stays, or an exit or
\* the sweeper ends it.
StatusesEnd ==
  \A p \in OpId : opStatus'[p] = opStatus[p] \/ opStatus'[p] \in {"completed", "failed"}

\* The states of a run whose segment is stored and its turns not yet marked, and
\* all states before the mark.
Stored == {"chunks", "facts", "mark"}
NotMarked == {"none", "waiting", "load", "plan", "store"} \cup Stored

\* Between two writes a run stays where it is, leaves for its exit, or has just
\* chosen its segment.
Advances(p) ==
  /\ run'[p] \in Stored => run[p] \in Stored /\ input'[p] = input[p]
  /\ run'[p] \in NotMarked => run[p] \in NotMarked
  /\ run'[p] \in Writing =>
       \/ run[p] \in Writing /\ target'[p] = target[p]
       \/ ~Merge => target'[p] = p

\* A step that writes no rows.
QuietStep ==
  UNCHANGED artifacts /\ StatusesEnd /\ \A p \in OpId : Advances(p)

WriteStep(o) ==
  \/ store_segment(o) \/ store_chunk_embeddings(o)
  \/ replace_facts_for_segment(o)
  \/ mark_canonical_turns_compacted(o) \/ save_tag_summary(o)

LEMMA SetOwnedEnds ==
  ASSUME TypeOK, NEW w, NEW status \in {"completed", "failed"},
         SetOwnedActive(w, Life, status)
  PROVE  StatusesEnd
BY DEF SetOwnedActive, SetStatus, StatusesEnd, TypeOK

\* Each step is quiet, a write, the entry of a run or a takeover.
LEMMA RunStepKinds ==
  ASSUME TypeOK, RunShape, [RunNext]_runVars
  PROVE  \/ QuietStep
         \/ \E o \in OpId : WriteStep(o)
         \/ \E w \in Worker, o \in OpId : enter_compaction(w, o)
         \/ \E w \in Worker : PostTakeover(w)
<1> USE DEF QuietStep
<1>s. UNCHANGED lifeVars => StatusesEnd
  BY DEF lifeVars, vars, opVars, StatusesEnd
<1>a. UNCHANGED <<run, input, target>> => \A p \in OpId : Advances(p)
  BY DEF Advances
<1>1. ASSUME NEW o \in OpId,
             RunStep(o) \/ Cancelled(o) \/ Heartbeat(o) \/ Sweep(o)
               \/ LeaseExpires(o),
             ~WriteStep(o)
      PROVE  QuietStep
  <2> DEFINE Adv == \A p \in OpId : Advances(p)
  <2>r. ASSUME NEW pc, Goto(o, pc), pc \notin Writing,
               pc \in NotMarked => run[o] \in NotMarked,
               \A p \in OpId \ {o} : input'[p] = input[p] /\ target'[p] = target[p]
        PROVE  Adv
    BY <2>r DEF Goto, Advances, Stored, Writing, RunShape, RunTypeOK
  <2>1. CASE _run_compact_takeover(o)
    <3>1. Adv
      BY <2>1, <2>r DEF _run_compact_takeover, localVars, NotMarked, Writing
    <3> QED
      BY <2>1, <3>1, <1>s DEF _run_compact_takeover
  <2>2. CASE _load_compactable_rows(o)
    <3>1. Adv
      BY <2>2, <2>r DEF _load_compactable_rows, NotMarked, Writing, RunShape,
                        RunTypeOK
    <3> QED
      BY <2>2, <3>1, <1>s DEF _load_compactable_rows
  <2>3. CASE PlanSegment(o)
    <3>1. Adv
      BY <2>3 DEF PlanSegment, Goto, Advances, NotMarked, Stored, Writing,
                  RunShape, RunTypeOK
    <3> QED
      BY <2>3, <3>1, <1>s DEF PlanSegment
  <2>4. CASE ReadGuard(o)
    BY <2>4, <1>s, <1>a DEF ReadGuard, procVars
  <2>5. CASE ExitSnapshot(o) \/ Cancelled(o)
    <3>1. Adv
      BY <2>5, <2>r DEF ExitSnapshot, Cancelled, NotMarked, Stored, Writing
    <3> QED
      BY <2>5, <3>1, <1>s DEF ExitSnapshot, Cancelled
  <2>6. CASE ExitTerminal(o)
    <3>1. Adv
      BY <2>6, <2>r DEF ExitTerminal, RunOver, DropLocals, localVars, NotMarked,
                        Stored, Writing
    <3>2. StatusesEnd
      BY <2>6, <1>s, SetOwnedEnds DEF ExitTerminal,
         complete_compaction_operation, fail_compaction_operation
    <3> QED
      BY <2>6, <3>1, <3>2 DEF ExitTerminal
  <2>7. CASE ExitDrain(o)
    <3>1. Adv
      BY <2>7, <2>r DEF ExitDrain, RunOver, DropLocals, NotMarked, Stored, Writing
    <3>2. StatusesEnd
      BY <2>7, <1>s DEF ExitDrain, drain_compaction_exit, StatusesEnd, opVars
    <3> QED
      BY <2>7, <3>1, <3>2 DEF ExitDrain
  <2>8. CASE Heartbeat(o) \/ LeaseExpires(o)
    BY <2>8, <1>a DEF Heartbeat, LeaseExpires, refresh_compaction_heartbeat,
                      OperationLeaseExpires, StatusesEnd, localVars, procVars
  <2>9. CASE Sweep(o)
    BY <2>9, <1>a DEF Sweep, fail_orphaned_compaction_operation, SetStatus,
                      StatusesEnd, localVars, procVars
  <2> QED
    BY <1>1, <2>1, <2>2, <2>3, <2>4, <2>5, <2>6, <2>7, <2>8, <2>9
       DEF RunStep, WriteStep
<1>2. ASSUME NEW w \in Worker,
             \/ PostPhaseGate(w) \/ PostRepair(w) \/ PostClaim(w)
             \/ Yield(w) \/ Crash(w) \/ _tagger_run(w) \/ Ingestion(w)
      PROVE  QuietStep
  <2> USE DEF localVars, procVars
  <2>1. CASE PostPhaseGate(w) \/ Yield(w)
    BY <2>1, <1>s, <1>a DEF PostPhaseGate, Yield
  <2>2. CASE Crash(w)
    <3>1. \A p \in OpId :
            \/ run'[p] = "dead"
            \/ run'[p] = run[p] /\ input'[p] = input[p] /\ target'[p] = target[p]
      BY <2>2 DEF Crash, DropLocals
    <3>2. \A p \in OpId : Advances(p)
      BY <3>1 DEF Advances, NotMarked, Stored, Writing
    <3> QED
      BY <2>2, <3>2, <1>s DEF Crash
  <2>3. CASE PostRepair(w)
    BY <2>3, <1>a DEF PostRepair, set_phase, StatusesEnd, opVars
  <2>4. CASE PostClaim(w)
    BY <2>4, <1>s, <1>a DEF PostClaim, claim_compaction_lease, StatusesEnd
  <2>5. CASE _tagger_run(w)
    BY <2>5, <1>a DEF _tagger_run, complete_ingestion_episode, set_phase,
                      StatusesEnd, opVars
  <2>6. CASE Ingestion(w)
    BY <2>6, <1>a DEF Ingestion, claim_ingestion_for_complete_group, WorkChanges,
                      EpisodeLeaseExpires, StatusesEnd, opVars
  <2> QED
    BY <1>2, <2>1, <2>2, <2>3, <2>4, <2>5, <2>6
<1>3. ASSUME FirstRequest \/ GroupArrives \/ UNCHANGED runVars
      PROVE  QuietStep
  BY <1>3, <1>s, <1>a DEF FirstRequest, set_phase, GroupArrives, runVars,
                          StatusesEnd, opVars, localVars, procVars
<1> QED
  BY <1>1, <1>2, <1>3 DEF RunNext, PostStep

\* The active fence, with guards that hold until the write commits.
Fenced == Enforces /\ ~Window

\* The rows that are the work of operation p: none, or none that were not before.
NewRowsOf(p) ==
  \/ \E r \in OpId : segStamp'[r] = p /\ segStamp[r] # p
  \/ \E r \in Table \X OpId : rowBy'[r] = p /\ rowBy[r] # p
  \/ \E g \in Group : compactedBy'[g] = p /\ compactedBy[g] # p
  \/ tagBy' = p /\ tagBy # p

\* Under the fence a write adds rows for its own run only, and only while the
\* run's process holds the lease.
LEMMA FencedWrite ==
  ASSUME Fenced, TypeOK, RunShape, NEW o \in OpId, WriteStep(o),
         NEW p \in OpId, NewRowsOf(p)
  PROVE  p = o /\ Owns(o)
<1> USE DEF Fenced, NewRowsOf, RunShape, RunTypeOK, Passes, GuardHolds
<1>1. CASE store_segment(o)
  BY <1>1 DEF store_segment
<1>2. CASE store_chunk_embeddings(o)
  BY <1>2 DEF store_chunk_embeddings, ReplaceRows
<1>3. CASE replace_facts_for_segment(o)
  BY <1>3 DEF replace_facts_for_segment, ReplaceRows
<1>4. CASE mark_canonical_turns_compacted(o)
  BY <1>4 DEF mark_canonical_turns_compacted, Mark
<1>5. CASE save_tag_summary(o)
  BY <1>5 DEF save_tag_summary
<1> QED
  BY <1>1, <1>2, <1>3, <1>4, <1>5 DEF WriteStep

\* A takeover adds no rows.
LEMMA TakeoverAddsNothing ==
  ASSUME RunShape, NEW w \in Worker, PostTakeover(w), NEW p \in OpId, NewRowsOf(p)
  PROVE  FALSE
BY RunAssumption DEF PostTakeover, Erase, NewRowsOf, RunShape, RunTypeOK

\* A worker that lost its lease has every later write rejected.
THEOREM LostLeaseTheorem ==
  ASSUME Fenced
  PROVE  RunSpec => LostLeaseWritesNothing
<1> DEFINE Rejects == \A o \in OpId : ~Owns(o) =>
             /\ \A r \in OpId : segStamp'[r] = o => segStamp[r] = o
             /\ \A r \in Table \X OpId : rowBy'[r] = o => rowBy[r] = o
             /\ \A g \in Group : compactedBy'[g] = o => compactedBy[g] = o
             /\ tagBy' = o => tagBy = o
<1>1. TypeOK /\ RunShape /\ [RunNext]_runVars => [Rejects]_runVars
  <2> SUFFICES ASSUME TypeOK, RunShape, [RunNext]_runVars PROVE Rejects
    OBVIOUS
  <2>1. CASE QuietStep
    BY <2>1 DEF QuietStep, artifacts
  <2>2. ASSUME NEW w \in Worker, NEW o \in OpId, enter_compaction(w, o)
        PROVE  Rejects
    BY <2>2 DEF enter_compaction, artifacts
  <2>3. ASSUME \A p \in OpId : NewRowsOf(p) => Owns(p) PROVE Rejects
    BY <2>3 DEF NewRowsOf
  <2> QED
    BY <2>1, <2>2, <2>3, RunStepKinds, FencedWrite, TakeoverAddsNothing
<1> QED
  BY <1>1, RunShapeAlways, PTL DEF RunSpec, LostLeaseWritesNothing

-----------------------------------------------------------------------------
(* A takeover removes all its predecessor wrote.                           *)

\* The inductive invariant: the deletes go by stamp, so every row must bear the
\* stamp of the run that wrote it.
StampedInv == rowStamp = rowBy /\ AbandonedLeavesNothing

LEMMA StampedWrite ==
  ASSUME Fenced, RunShape, NEW o \in OpId, WriteStep(o), rowStamp = rowBy
  PROVE  rowStamp' = rowBy' /\ UNCHANGED lifeVars
<1> USE DEF Fenced, WriteStep, _enforce_or_observe_mismatch
<1>1. UNCHANGED lifeVars
  BY DEF store_segment, store_chunk_embeddings, replace_facts_for_segment,
         mark_canonical_turns_compacted, save_tag_summary
<1>2. rowStamp' = rowBy'
  BY DEF store_segment, store_chunk_embeddings, replace_facts_for_segment,
         mark_canonical_turns_compacted, save_tag_summary, ReplaceRows
<1> QED
  BY <1>1, <1>2

LEMMA StampedStep ==
  ASSUME Fenced, TypeOK, RunShape, StampedInv, [RunNext]_runVars
  PROVE  StampedInv'
<1> USE DEF StampedInv, AbandonedLeavesNothing
<1>1. CASE QuietStep
  BY <1>1 DEF QuietStep, StatusesEnd, artifacts
<1>2. ASSUME NEW o \in OpId, WriteStep(o) PROVE StampedInv'
  <2>1. rowStamp' = rowBy' /\ opStatus' = opStatus
    BY <1>2, StampedWrite DEF lifeVars, vars, opVars
  <2>2. ASSUME NEW d \in OpId, opStatus[d] = "abandoned" PROVE ~NewRowsOf(d)
    BY <1>2, <2>2, FencedWrite DEF Owns
  <2> QED
    BY <2>1, <2>2 DEF NewRowsOf
<1>3. ASSUME NEW w \in Worker, NEW o \in OpId, enter_compaction(w, o)
      PROVE  StampedInv'
  BY <1>3 DEF enter_compaction, begin_compaction_with_lock, InsertOperation,
              artifacts, TypeOK
<1>4. ASSUME NEW w \in Worker, PostTakeover(w) PROVE StampedInv'
  <2>1. rowStamp' = rowBy'
    BY <1>4 DEF PostTakeover, Erase
  <2>2. ASSUME NEW d \in OpId, opStatus'[d] = "abandoned"
        PROVE  d = post[w] \/ opStatus[d] = "abandoned"
    BY <1>4, <2>2 DEF PostTakeover, cleanup_abandoned_compaction, TypeOK,
                      lifeVars, vars, opVars
  <2>3. ASSUME NEW d \in OpId, opStatus[d] = "abandoned" PROVE ~NewRowsOf(d)
    BY <1>4, TakeoverAddsNothing
  <2>4. /\ \A r \in OpId : segStamp'[r] # post[w]
        /\ \A r \in Table \X OpId : rowBy'[r] # post[w]
        /\ \A g \in Group : compactedBy'[g] # post[w]
        /\ tagBy' # post[w]
    BY <1>4, RunAssumption DEF PostTakeover, Erase, RunShape, RunTypeOK
  <2> QED
    BY <2>1, <2>2, <2>3, <2>4 DEF NewRowsOf
<1> QED
  BY <1>1, <1>2, <1>3, <1>4, RunStepKinds

\* Nothing that an abandoned operation wrote is left, and nothing of it comes
\* later, merges included.
THEOREM AbandonedTheorem ==
  ASSUME Fenced
  PROVE  RunSpec => []AbandonedLeavesNothing
<1>1. RunInit => StampedInv
  BY DEF RunInit, Init, StampedInv, AbandonedLeavesNothing
<1>2. TypeOK /\ RunShape /\ StampedInv /\ [RunNext]_runVars => StampedInv'
  BY StampedStep
<1>3. StampedInv => AbandonedLeavesNothing
  BY DEF StampedInv
<1> QED
  BY <1>1, <1>2, <1>3, RunShapeAlways, PTL DEF RunSpec

-----------------------------------------------------------------------------
(* No compacted turn is lost.                                              *)

\* The inductive invariant.  A turn compacted by an operation is in the segment
\* of that operation, under its stamp: then a takeover that deletes the segment
\* releases the turn.  A run between its segment and its mark, not taken over,
\* still has its input in the segment; it has marked nothing yet.
CoveredInv ==
  /\ \A o \in OpId, g \in Group :
       compactedBy[g] = o => g \in segTurns[o] /\ segStamp[o] = o
  /\ \A o \in OpId : run[o] \in Writing => target[o] = o
  /\ \A o \in OpId : opStatus[o] = "running" /\ run[o] \in Stored =>
       input[o] \subseteq segTurns[o] /\ segStamp[o] = o
  /\ \A o \in OpId, g \in Group : run[o] \in NotMarked => compactedBy[g] # o

LEMMA CoveredWrite ==
  ASSUME Fenced, ~Merge, TypeOK, RunShape, CoveredInv, NEW o \in OpId, WriteStep(o)
  PROVE  CoveredInv'
<1> USE DEF Fenced, CoveredInv, Stored, NotMarked, Writing, RunShape, RunTypeOK,
            Goto, Passes, Rejected, GuardHolds
<1>0. opStatus' = opStatus
  BY DEF WriteStep, store_segment, store_chunk_embeddings,
         replace_facts_for_segment, mark_canonical_turns_compacted,
         save_tag_summary, _enforce_or_observe_mismatch, lifeVars, vars, opVars
<1>1. CASE store_segment(o)
  <2>1. CASE Owns(o)
    <3>1. /\ segTurns' = [segTurns EXCEPT ![o] = base[o] \cup input[o]]
          /\ segStamp' = [segStamp EXCEPT ![o] = o]
          /\ run' = [run EXCEPT ![o] = "chunks"]
          /\ UNCHANGED <<input, target, compactedBy>>
      BY <1>1, <2>1 DEF store_segment, _enforce_or_observe_mismatch
    <3> QED
      BY <1>0, <1>1, <3>1 DEF store_segment
  <2>2. CASE ~Owns(o)
    <3>1. /\ run' = [run EXCEPT ![o] = "abort"]
          /\ UNCHANGED <<input, target, compactedBy, segTurns, segStamp>>
      BY <1>1, <2>2 DEF store_segment, _enforce_or_observe_mismatch
    <3> QED
      BY <1>0, <3>1
  <2> QED
    BY <2>1, <2>2
<1>2. CASE store_chunk_embeddings(o) \/ replace_facts_for_segment(o)
  <2>1. PICK pc \in {"facts", "mark", "abort"} : run' = [run EXCEPT ![o] = pc]
    BY <1>2 DEF store_chunk_embeddings, replace_facts_for_segment,
                _enforce_or_observe_mismatch
  <2>2. /\ run[o] \in Stored
        /\ UNCHANGED <<input, target, compactedBy, segTurns, segStamp>>
    BY <1>2 DEF store_chunk_embeddings, replace_facts_for_segment,
                _enforce_or_observe_mismatch
  <2> QED
    BY <1>0, <2>1, <2>2
<1>3. CASE mark_canonical_turns_compacted(o)
  <2>1. PICK pc \in {"tags", "abort"} : run' = [run EXCEPT ![o] = pc]
    BY <1>3 DEF mark_canonical_turns_compacted, _enforce_or_observe_mismatch
  <2>2. run[o] = "mark" /\ UNCHANGED <<input, target, segTurns, segStamp>>
    BY <1>3 DEF mark_canonical_turns_compacted, _enforce_or_observe_mismatch
  <2>3. CASE Owns(o)
    <3>1. Mark(o, o)
      BY <1>3, <2>3 DEF mark_canonical_turns_compacted
    <3>2. input[o] \subseteq segTurns[o] /\ segStamp[o] = o
      BY <2>2, <2>3 DEF Owns
    <3> QED
      BY <1>0, <2>1, <2>2, <3>1, <3>2 DEF Mark
  <2>4. CASE ~Owns(o)
    <3>1. UNCHANGED compactedBy
      BY <1>3, <2>4 DEF mark_canonical_turns_compacted
    <3> QED
      BY <1>0, <2>1, <2>2, <3>1
  <2> QED
    BY <2>3, <2>4
<1>4. CASE save_tag_summary(o)
  <2>1. PICK pc \in {"finish", "abort"} : run' = [run EXCEPT ![o] = pc]
    BY <1>4 DEF save_tag_summary, _enforce_or_observe_mismatch
  <2>2. UNCHANGED <<input, target, compactedBy, segTurns, segStamp>>
    BY <1>4 DEF save_tag_summary, _enforce_or_observe_mismatch
  <2> QED
    BY <1>0, <2>1, <2>2
<1> QED
  BY <1>1, <1>2, <1>3, <1>4 DEF WriteStep

LEMMA CoveredTakeover ==
  ASSUME TypeOK, RunShape, CoveredInv, NEW w \in Worker, PostTakeover(w)
  PROVE  CoveredInv'
<1> USE DEF CoveredInv, Stored, NotMarked, Writing, RunShape, RunTypeOK
<1>1. PICK d \in OpId : d = post[w] /\ Erase(d)
  BY DEF PostTakeover
<1>2. /\ \A o \in OpId \ {d}, g \in Group :
           /\ compactedBy'[g] = o <=> compactedBy[g] = o
           /\ segStamp[o] = o => segStamp'[o] = o /\ segTurns'[o] = segTurns[o]
      /\ \A g \in Group : compactedBy'[g] # d
  BY <1>1, RunAssumption DEF Erase
<1>3. UNCHANGED <<input, target>>
  BY DEF PostTakeover, localVars
<1>4. opStatus'[d] # "running"
  BY <1>1 DEF PostTakeover, cleanup_abandoned_compaction, TypeOK, lifeVars, vars,
              opVars
<1>5. CASE UNCHANGED run /\ opStatus' = opStatus
  BY <1>1, <1>2, <1>3, <1>4, <1>5 DEF Erase
<1>6. ASSUME NEW new \in OpId, cleanup_abandoned_compaction(w, Life, d, new),
             run' = [run EXCEPT ![new] = "waiting"]
      PROVE  CoveredInv'
  <2>1. run[new] = "none" /\ new # d
    BY <1>6 DEF cleanup_abandoned_compaction
  <2>2. \A o \in OpId \ {new} : run'[o] = run[o]
          /\ (opStatus'[o] = "running" => opStatus[o] = "running")
    BY <1>6 DEF cleanup_abandoned_compaction, TypeOK
  <2> QED
    BY <1>1, <1>2, <1>3, <1>4, <1>6, <2>1, <2>2 DEF Erase
<1> QED
  BY <1>1, <1>5, <1>6 DEF PostTakeover, Goto, lifeVars, vars, opVars

LEMMA CoveredStep ==
  ASSUME Fenced, ~Merge, TypeOK, RunShape, CoveredInv, [RunNext]_runVars
  PROVE  CoveredInv'
<1>1. CASE QuietStep
  BY <1>1 DEF QuietStep, StatusesEnd, Advances, artifacts, CoveredInv
<1>2. ASSUME NEW w \in Worker, NEW o \in OpId, enter_compaction(w, o)
      PROVE  CoveredInv'
  <2>1. /\ opStatus[o] = "unused" /\ opStatus' = [opStatus EXCEPT ![o] = "running"]
        /\ run' = [run EXCEPT ![o] = "load"]
        /\ UNCHANGED <<input, target, artifacts>>
    BY <1>2 DEF enter_compaction, begin_compaction_with_lock, InsertOperation,
                Goto, localVars
  <2>2. run[o] = "none"
    BY <2>1 DEF RunShape
  <2> QED
    BY <2>1, <2>2 DEF CoveredInv, Stored, NotMarked, Writing, artifacts, TypeOK,
                      RunShape, RunTypeOK
<1> QED
  BY <1>1, <1>2, CoveredWrite, CoveredTakeover, RunStepKinds

\* A turn marked compacted is covered by a stored segment, whoever crashes,
\* resumes late or takes over: for runs that do not merge.
THEOREM CoveredTheorem ==
  ASSUME Fenced, ~Merge
  PROVE  RunSpec => []CompactedCovered
<1>1. RunInit => CoveredInv
  BY RunAssumption
     DEF RunInit, Init, CoveredInv, Stored, Writing
<1>2. TypeOK /\ RunShape /\ CoveredInv /\ [RunNext]_runVars => CoveredInv'
  BY CoveredStep
<1>3. RunShape /\ CoveredInv => CompactedCovered
  BY DEF CoveredInv, CompactedCovered, RunShape, RunTypeOK, OpOrNone
<1> QED
  BY <1>1, <1>2, <1>3, RunShapeAlways, PTL DEF RunSpec

-----------------------------------------------------------------------------
(* Guards read before the write commits.                                   *)

\* The tables that hold rows of operation d.
Left(d) ==
  {t \in Table : \E r \in OpId : rowBy[<<t, r>>] = d}
    \cup {t \in {"segments"} : \E r \in OpId : segStamp[r] = d}
    \cup {t \in {"canonical_turns"} : \E g \in Group : compactedBy[g] = d}
    \cup {t \in {"tag_summaries"} : tagBy = d}

\* The inductive invariant: an abandoned run has left nothing while a guard it
\* read is unused, and reads none afterwards.
LateInv ==
  /\ rowStamp = rowBy
  /\ \A d \in OpId : opStatus[d] = "abandoned" =>
       /\ \E t : Left(d) \subseteq {t}
       /\ guarded[d] => Left(d) = {}

\* A guard is read only by a run that holds its lease.
LEMMA GuardsRead ==
  ASSUME RunShape, [RunNext]_runVars, NEW d \in OpId, guarded'[d]
  PROVE  guarded[d] \/ Owns(d)
<1> USE DEF RunShape, RunTypeOK
<1>1. ASSUME NEW o \in OpId, RunStep(o) \/ Cancelled(o) PROVE guarded[d] \/ Owns(d)
  <2>1. CASE ReadGuard(o)
    BY <2>1 DEF ReadGuard, GuardHolds
  <2>2. ASSUME NEW next, _enforce_or_observe_mismatch(o, next) PROVE guarded[d]
    BY <2>2 DEF _enforce_or_observe_mismatch
  <2>3. CASE store_segment(o) \/ store_chunk_embeddings(o)
               \/ replace_facts_for_segment(o) \/ mark_canonical_turns_compacted(o)
    BY <2>2, <2>3 DEF store_segment, store_chunk_embeddings, replace_facts_for_segment,
       mark_canonical_turns_compacted
  <2>4. CASE save_tag_summary(o)
    BY <2>2, <2>4 DEF save_tag_summary
  <2>5. CASE Cancelled(o)
    BY <2>5 DEF Cancelled
  <2>6. CASE _run_compact_takeover(o) \/ _load_compactable_rows(o) \/ PlanSegment(o)
               \/ ExitSnapshot(o)
    BY <2>6 DEF _run_compact_takeover, _load_compactable_rows, PlanSegment, ExitSnapshot,
       localVars
  <2>7. CASE ExitTerminal(o) \/ ExitDrain(o)
    BY <2>7 DEF ExitTerminal, ExitDrain, RunOver, DropLocals, localVars
  <2> QED
    BY <1>1, <2>1, <2>3, <2>4, <2>5, <2>6, <2>7 DEF RunStep
<1>2. ASSUME NEW w \in Worker, Crash(w) PROVE guarded[d]
  BY <1>2 DEF Crash, DropLocals
<1>3. ASSUME \/ \E o \in OpId : Heartbeat(o) \/ Sweep(o) \/ LeaseExpires(o)
             \/ \E w \in Worker : \/ \E o \in OpId : enter_compaction(w, o)
                                  \/ PostStep(w) \/ Yield(w)
                                  \/ _tagger_run(w) \/ Ingestion(w)
             \/ FirstRequest \/ GroupArrives \/ UNCHANGED runVars
      PROVE  guarded[d]
  BY <1>3 DEF Heartbeat, Sweep, LeaseExpires, enter_compaction, PostStep, PostPhaseGate,
     PostRepair, PostClaim, PostTakeover, Yield, _tagger_run, Ingestion, FirstRequest,
     GroupArrives, runVars, localVars
<1> QED
  BY <1>1, <1>2, <1>3 DEF RunNext

\* A write uses up its guard and adds rows of its run to one table at most.
LEMMA WriteLeaves ==
  ASSUME Enforces, RunShape, NEW o \in OpId, WriteStep(o), rowStamp = rowBy
  PROVE  /\ ~guarded'[o] /\ rowStamp' = rowBy' /\ opStatus' = opStatus
         /\ \A p \in OpId \ {o} : Left(p)' \subseteq Left(p)
         /\ Left(o)' \subseteq Left(o) \/ (Passes(o) /\ \E t : Left(o)' \subseteq Left(o) \cup {t})
<1> USE DEF RunShape, RunTypeOK
<1>m. ASSUME NEW next, _enforce_or_observe_mismatch(o, next)
      PROVE  ~guarded'[o] /\ opStatus' = opStatus
  BY <1>m DEF _enforce_or_observe_mismatch, lifeVars, vars, opVars
<1>1. CASE store_segment(o)
  <2>1. ~guarded'[o] /\ opStatus' = opStatus /\ UNCHANGED <<rowBy, rowStamp, tagBy, compactedBy>>
    BY <1>1, <1>m DEF store_segment
  <2>2. \A p \in OpId \ {o}, r \in OpId : segStamp'[r] = p => segStamp[r] = p
    BY <1>1 DEF store_segment
  <2>3. Passes(o) \/ segStamp' = segStamp
    BY <1>1 DEF store_segment
  <2>4. \A p \in OpId \ {o} : Left(p)' \subseteq Left(p)
    BY <2>1, <2>2 DEF Left
  <2>5. Left(o)' \subseteq Left(o) \cup {"segments"} /\ (segStamp' = segStamp => Left(o)' \subseteq Left(o))
    BY <2>1 DEF Left
  <2> QED BY <2>1, <2>3, <2>4, <2>5
<1>2. ASSUME NEW tb \in Table, NEW next, _enforce_or_observe_mismatch(o, next),
             ReplaceRows(o, tb), UNCHANGED <<segStamp, tagBy, compactedBy>>
      PROVE  /\ ~guarded'[o] /\ rowStamp' = rowBy' /\ opStatus' = opStatus
             /\ \A p \in OpId \ {o} : Left(p)' \subseteq Left(p)
             /\ Left(o)' \subseteq Left(o) \/ (Passes(o) /\ \E t : Left(o)' \subseteq Left(o) \cup {t})
  <2>1. ~guarded'[o] /\ opStatus' = opStatus
    BY <1>2, <1>m
  <2>2. rowStamp' = rowBy'
    BY <1>2 DEF ReplaceRows
  <2>3. rowBy' = rowBy \/ (Passes(o) /\ rowBy' = [rowBy EXCEPT ![<<tb, target[o]>>] = o])
    BY <1>2 DEF ReplaceRows
  <2>4. \A t \in Table, r \in OpId :
          /\ rowBy'[<<t, r>>] = rowBy[<<t, r>>] \/ (t = tb /\ rowBy'[<<t, r>>] = o)
    BY <2>3
  <2>5. \A p \in OpId \ {o} : Left(p)' \subseteq Left(p)
    <3> TAKE p \in OpId \ {o}
    <3>1. \A t \in Table, r \in OpId : rowBy'[<<t, r>>] = p => rowBy[<<t, r>>] = p
      BY <2>4
    <3> QED BY <1>2, <3>1 DEF Left
  <2>6. Left(o)' \subseteq Left(o) \cup {tb} /\ (rowBy' = rowBy => Left(o)' \subseteq Left(o))
    BY <1>2, <2>4 DEF Left
  <2> QED BY <2>1, <2>2, <2>3, <2>5, <2>6
<1>3. CASE store_chunk_embeddings(o)
  BY <1>2, <1>3 DEF store_chunk_embeddings, Table
<1>4. CASE replace_facts_for_segment(o)
  BY <1>2, <1>4 DEF replace_facts_for_segment, Table
<1>5. CASE mark_canonical_turns_compacted(o)
  <2>1. ~guarded'[o] /\ opStatus' = opStatus /\ UNCHANGED <<rowBy, rowStamp, tagBy, segStamp>>
    BY <1>5, <1>m DEF mark_canonical_turns_compacted
  <2>2. \A p \in OpId \ {o}, g \in Group : compactedBy'[g] = p => compactedBy[g] = p
    BY <1>5 DEF mark_canonical_turns_compacted, Mark
  <2>3. Passes(o) \/ compactedBy' = compactedBy
    BY <1>5 DEF mark_canonical_turns_compacted
  <2>4. \A p \in OpId \ {o} : Left(p)' \subseteq Left(p)
    BY <2>1, <2>2 DEF Left
  <2>5. /\ Left(o)' \subseteq Left(o) \cup {"canonical_turns"}
        /\ compactedBy' = compactedBy => Left(o)' \subseteq Left(o)
    BY <2>1 DEF Left
  <2> QED BY <2>1, <2>3, <2>4, <2>5
<1>6. CASE save_tag_summary(o)
  <2>1. ~guarded'[o] /\ opStatus' = opStatus /\ UNCHANGED <<rowBy, rowStamp, compactedBy, segStamp>>
    BY <1>6, <1>m DEF save_tag_summary, lifeVars, vars, opVars
  <2>2. \A p \in OpId \ {o} : tagBy' = p => tagBy = p
    BY <1>6 DEF save_tag_summary
  <2>3. Passes(o) \/ tagBy' = tagBy
    BY <1>6 DEF save_tag_summary
  <2>4. \A p \in OpId \ {o} : Left(p)' \subseteq Left(p)
    BY <2>1, <2>2 DEF Left
  <2>5. /\ Left(o)' \subseteq Left(o) \cup {"tag_summaries"}
        /\ tagBy' = tagBy => Left(o)' \subseteq Left(o)
    BY <2>1 DEF Left
  <2> QED BY <2>1, <2>3, <2>4, <2>5
<1> QED
  BY <1>1, <1>3, <1>4, <1>5, <1>6 DEF WriteStep

LEMMA LateStep ==
  ASSUME Enforces, TypeOK, RunShape, LateInv, [RunNext]_runVars
  PROVE  LateInv'
<1>g. \A d \in OpId : guarded'[d] => guarded[d] \/ opStatus[d] = "running"
  BY GuardsRead DEF Owns
<1>q. ASSUME UNCHANGED <<segStamp, rowBy, tagBy, compactedBy, rowStamp>>,
             \A d \in OpId : opStatus'[d] = "abandoned" => opStatus[d] = "abandoned"
      PROVE  LateInv'
  <2>1. \A d \in OpId : Left(d)' = Left(d)
    BY <1>q DEF Left
  <2> QED BY <1>g, <1>q, <2>1 DEF LateInv
<1>1. CASE QuietStep
  BY <1>1, <1>q DEF QuietStep, StatusesEnd, artifacts
<1>2. ASSUME NEW o \in OpId, WriteStep(o) PROVE LateInv'
  <2>1. /\ ~guarded'[o] /\ rowStamp' = rowBy' /\ opStatus' = opStatus
        /\ \A p \in OpId \ {o} : Left(p)' \subseteq Left(p)
        /\ Left(o)' \subseteq Left(o) \/ (Passes(o) /\ \E t : Left(o)' \subseteq Left(o) \cup {t})
    BY <1>2, WriteLeaves DEF LateInv
  <2>2. ASSUME NEW d \in OpId, opStatus[d] = "abandoned"
        PROVE  (\E t : Left(d)' \subseteq {t}) /\ (guarded'[d] => Left(d)' = {})
    <3>0. (\E t : Left(d) \subseteq {t}) /\ (guarded[d] => Left(d) = {})
      BY <2>2 DEF LateInv
    <3>1. CASE d # o
      BY <1>g, <2>1, <2>2, <3>0, <3>1
    <3>2. CASE d = o /\ Left(o)' \subseteq Left(o)
      BY <2>1, <3>0, <3>2
    <3>3. CASE d = o /\ Passes(o) /\ \E t : Left(o)' \subseteq Left(o) \cup {t}
      <4>1. guarded[o]
        BY <2>2, <3>3 DEF Passes, GuardHolds, Owns
      <4> QED BY <2>1, <3>0, <3>3, <4>1
    <3> QED BY <2>1, <3>1, <3>2, <3>3
  <2> QED BY <2>1, <2>2 DEF LateInv
<1>3. ASSUME NEW w \in Worker, NEW o \in OpId, enter_compaction(w, o)
      PROVE  LateInv'
  BY <1>3, <1>q DEF enter_compaction, begin_compaction_with_lock, InsertOperation,
                    artifacts, TypeOK
<1>4. ASSUME NEW w \in Worker, PostTakeover(w) PROVE LateInv'
  <2>0. PICK x \in OpId : x = post[w]
    BY <1>4 DEF PostTakeover
  <2>1. rowStamp' = rowBy'
    BY <1>4 DEF PostTakeover, Erase, LateInv
  <2>2. ASSUME NEW d \in OpId, opStatus'[d] = "abandoned"
        PROVE  d = x \/ opStatus[d] = "abandoned"
    BY <1>4, <2>0, <2>2 DEF PostTakeover, cleanup_abandoned_compaction, TypeOK,
                      lifeVars, vars, opVars
  <2>3. ASSUME NEW d \in OpId PROVE Left(d)' \subseteq Left(d)
    <3>1. ~NewRowsOf(d)
      BY <1>4, TakeoverAddsNothing
    <3>2. \A t \in Table, r \in OpId : rowBy'[<<t, r>>] = d => rowBy[<<t, r>>] = d
      BY <3>1 DEF NewRowsOf
    <3> QED BY <3>1, <3>2 DEF NewRowsOf, Left
  <2>4. Left(x)' = {}
    <3>1. /\ \A r \in OpId : segStamp'[r] # x
          /\ \A r \in Table \X OpId : rowBy'[r] # x
          /\ \A g \in Group : compactedBy'[g] # x
          /\ tagBy' # x
      BY <1>4, <2>0, RunAssumption DEF PostTakeover, Erase, RunShape, RunTypeOK, LateInv
    <3>2. \A t \in Table, r \in OpId : rowBy'[<<t, r>>] # x
      BY <3>1
    <3> QED BY <3>1, <3>2 DEF Left
  <2> QED
    BY <1>g, <2>1, <2>2, <2>3, <2>4 DEF LateInv
<1> QED
  BY <1>1, <1>2, <1>3, <1>4, RunStepKinds

\* Under the active fence, at the isolation level of PostgreSQL as at SQLite's,
\* what an abandoned operation leaves behind is all in one table: the one
\* statement whose guard was read before the takeover committed.
THEOREM OneLateWriteTheorem ==
  ASSUME Enforces
  PROVE  RunSpec => []AtMostOneLateWrite
<1>1. RunInit => LateInv
  BY DEF RunInit, Init, LateInv
<1>2. TypeOK /\ RunShape /\ LateInv /\ [RunNext]_runVars => LateInv'
  BY LateStep
<1>3. ASSUME LateInv PROVE AtMostOneLateWrite
  <2> SUFFICES ASSUME NEW d \in OpId, opStatus[d] = "abandoned"
               PROVE  Cardinality(Left(d)) <= 1
    BY DEF AtMostOneLateWrite, Left
  <2>1. PICK t : Left(d) \subseteq {t}
    BY <1>3 DEF LateInv
  <2>2. IsFiniteSet({t}) /\ Cardinality({t}) = 1
    BY FS_Singleton
  <2> QED BY <2>1, <2>2, FS_Subset
<1> QED
  BY <1>1, <1>2, <1>3, RunShapeAlways, PTL DEF RunSpec

=============================================================================

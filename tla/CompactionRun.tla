---------------------------- MODULE CompactionRun ----------------------------
(***************************************************************************)
(* Compaction runs of several worker processes over one conversation:      *)
(* what a run loads, the artifacts it writes under the operation fence     *)
(* (segments, chunk embeddings, facts, compaction marks, tag summaries),   *)
(* its exit, and the takeover of a run whose lease expired by a POST on    *)
(* another, or on the same, process.                                       *)
(*                                                                         *)
(* The operation rows and the phase are those of ConversationLifecycle:    *)
(* every step that touches them is one of its actions, so each behaviour   *)
(* of RunSpec is a behaviour of that module's Spec.  The conversation is   *)
(* not deleted here: all calls are of one lifecycle epoch.                 *)
(*                                                                         *)
(* A run is named by its operation; the segment a run creates is named by  *)
(* the operation too.  A run compacts its groups into one segment.         *)
(***************************************************************************)
EXTENDS ConversationLifecycle

CONSTANTS
  NoOp,            \* no operation, or no stamp
  MaxGroup,        \* bound on the turn groups that arrive
  ProtectedRecent, \* monitor.protected_recent_turns
  FenceMode,       \* VC_COMPACTION_FENCE_MODE: "off", "observe" or "active"
  Merge,           \* TRUE: a run may merge into an existing segment; FALSE:
                   \* disable_replacement_passes
  Window,          \* TRUE: the ownership guard of a write is read before the
                   \* write commits (READ COMMITTED); FALSE: SQLite
  MayFail,         \* TRUE: a run may fail (model call, embedding) by itself
  Ingest           \* TRUE: turns are tagged and episodes run meanwhile

ASSUME RunAssumption ==
  /\ NoOp \notin OpId /\ OpId \cap {"idle", "repair", "claim"} = {}
  /\ MaxGroup \in Nat /\ ProtectedRecent \in Nat
  /\ FenceMode \in {"off", "observe", "active"}
  /\ Merge \in BOOLEAN /\ Window \in BOOLEAN
  /\ MayFail \in BOOLEAN /\ Ingest \in BOOLEAN

VARIABLES
  run,          \* operation -> where its run stands
  runner,       \* operation -> process that executes the run
  active,       \* process -> ProxyState._active_compaction_op
  post,         \* process -> where its prepare request stands
  crashed,      \* processes that died
  seen,         \* run -> operation that the exit's snapshot found active
  input,        \* run -> groups it loaded
  target,       \* run -> segment it writes
  base,         \* run -> groups of the target as read before the merge
  guarded,      \* run -> its pending write has read the guard (Window)
  segTurns,     \* segment -> groups it covers; {} = no row
  segStamp,     \* segment -> segments.operation_id
  rowBy,        \* table, segment -> run that wrote its rows; NoOp = none
  rowStamp,     \* table, segment -> operation_id of those rows
  tagBy,        \* tag_summaries.operation_id; NoOp = no row
  compactedBy,  \* group -> compaction_operation_id; NoOp = not compacted
  arrived,      \* groups 1..arrived are stored
  finalizing    \* processes between complete_ingestion_episode and set_phase

lifeVars == vars
localVars == <<seen, input, target, base, guarded>>
artifacts == <<segTurns, segStamp, rowBy, rowStamp, tagBy, compactedBy>>
procVars == <<run, runner, active, post, crashed>>
runVars == <<lifeVars, localVars, artifacts, procVars, arrived, finalizing>>

Life    == 1                       \* the conversation's only epoch here
Group   == 1..MaxGroup
Table   == {"chunks", "facts"}
OpOrNone == OpId \cup {NoOp}
Writing == {"store", "chunks", "facts", "mark", "tags"}
Exiting == {"finish", "abort", "complete", "fail", "drain"}
Working == {"load", "plan"} \cup Writing \cup Exiting
RunState == Working \cup {"none", "waiting", "over", "dead"}

\* The types of the rows, the request state and the run's locals.
RunTypeOK ==
  /\ run \in [OpId -> RunState]
  /\ runner \in [OpId -> Worker \cup {NoOwner}]
  /\ active \in [Worker -> OpOrNone]
  /\ post \in [Worker -> {"idle", "repair", "claim"} \cup OpId]
  /\ crashed \subseteq Worker /\ finalizing \subseteq Worker
  /\ seen \in [OpId -> OpOrNone] /\ target \in [OpId -> OpOrNone]
  /\ input \in [OpId -> SUBSET Group] /\ base \in [OpId -> SUBSET Group]
  /\ guarded \in [OpId -> BOOLEAN]
  /\ segTurns \in [OpId -> SUBSET Group]
  /\ segStamp \in [OpId -> OpOrNone]
  /\ rowBy \in [Table \X OpId -> OpOrNone]
  /\ rowStamp \in [Table \X OpId -> OpOrNone]
  /\ tagBy \in OpOrNone
  /\ compactedBy \in [Group -> OpOrNone]
  /\ arrived \in 0..MaxGroup

RunInit ==
  /\ Init
  /\ run = [o \in OpId |-> "none"]
  /\ runner = [o \in OpId |-> NoOwner]
  /\ active = [w \in Worker |-> NoOp]
  /\ post = [w \in Worker |-> "idle"]
  /\ crashed = {} /\ finalizing = {}
  /\ seen = [o \in OpId |-> NoOp]
  /\ input = [o \in OpId |-> {}]
  /\ target = [o \in OpId |-> NoOp]
  /\ base = [o \in OpId |-> {}]
  /\ guarded = [o \in OpId |-> FALSE]
  /\ segTurns = [o \in OpId |-> {}]
  /\ segStamp = [o \in OpId |-> NoOp]
  /\ rowBy = [r \in Table \X OpId |-> NoOp]
  /\ rowStamp = [r \in Table \X OpId |-> NoOp]
  /\ tagBy = NoOp
  /\ compactedBy = [g \in Group |-> NoOp]
  /\ arrived = 0

Alive(w) == w \notin crashed
Enforces == FenceMode = "active"

\* _compaction_lock: at most one run of a process works at a time.
Locked(w) == \E o \in OpId : runner[o] = w /\ run[o] \in Working

Goto(o, pc) == run' = [run EXCEPT ![o] = pc]

-----------------------------------------------------------------------------
(* Entering a run.                                                         *)

\* _run_compact without a preexisting operation: enter_compaction.
enter_compaction(w, o) ==
  /\ Alive(w) /\ ~Locked(w)
  /\ begin_compaction_with_lock(w, Life, o)
  /\ Goto(o, "load")
  /\ runner' = [runner EXCEPT ![o] = w]
  /\ active' = [active EXCEPT ![w] = o]
  /\ UNCHANGED <<localVars, artifacts, post, crashed, arrived, finalizing>>

\* A second thread of the process calls _run_compact while a run holds the lock,
\* or is refused by the store: its finally block clears the shared field.
Yield(w) ==
  /\ Alive(w) /\ active[w] # NoOp
  /\ Locked(w) \/ phase = "compacting"
  /\ active' = [active EXCEPT ![w] = NoOp]
  /\ UNCHANGED <<lifeVars, localVars, artifacts, run, runner, post, crashed,
                 arrived, finalizing>>

\* A takeover run leaves the pool's queue: it works if the lock is free, and is
\* skipped, its row left running, if the ingestion thread holds it.
_run_compact_takeover(o) ==
  LET w == runner[o] IN
  /\ run[o] = "waiting" /\ Alive(w)
  /\ \/ /\ ~Locked(w)
        /\ Goto(o, "load")
        /\ active' = [active EXCEPT ![w] = o]
     \/ /\ Locked(w)
        /\ Goto(o, "over")
        /\ active' = [active EXCEPT ![w] = NoOp]
  /\ UNCHANGED <<lifeVars, localVars, artifacts, runner, post, crashed, arrived,
                 finalizing>>

\* The sidecar keeps the lease of a working run fresh.
Heartbeat(o) ==
  /\ run[o] \in Working
  /\ opStale[o]
  /\ refresh_compaction_heartbeat(runner[o], Life, o)
  /\ UNCHANGED <<localVars, artifacts, procVars, arrived, finalizing>>

-----------------------------------------------------------------------------
(* The body of a run.                                                      *)

Compactable ==
  {g \in Group : g + ProtectedRecent <= arrived /\ compactedBy[g] = NoOp}

_load_compactable_rows(o) ==
  /\ run[o] = "load"
  /\ input' = [input EXCEPT ![o] = Compactable]
  /\ Goto(o, IF Compactable = {} THEN "finish" ELSE "plan")
  /\ UNCHANGED <<lifeVars, seen, target, base, guarded, artifacts, runner,
                 active, post, crashed, arrived, finalizing>>

\* Pass 1 of _compact_and_store: a new segment, or a merge candidate whose
\* content is read now and written back, extended, after the model calls.
PlanSegment(o) ==
  /\ run[o] = "plan"
  /\ \E r \in {o} \cup {q \in OpId : Merge /\ segTurns[q] # {}} :
       /\ target' = [target EXCEPT ![o] = r]
       /\ base' = [base EXCEPT ![o] = segTurns[r]]
  /\ Goto(o, "store")
  /\ UNCHANGED <<lifeVars, seen, input, guarded, artifacts, runner, active, post,
                 crashed, arrived, finalizing>>

\* Variant: the guard that checks the owner and not the status.
OwnsInAnyStatus(o) == opOwner[o] = runner[o]

\* The EXISTS of every guarded write: the operation runs and is the caller's.
Owns(o) == opStatus[o] = "running" /\ opOwner[o] = runner[o] /\ opEpoch[o] = Life

\* Variant: the guard that checks the status and not the owner.
GuardWithoutOwner(o) ==
  opStatus[o] = "running" /\ (run[o] = "chunks" => segTurns[target[o]] # {})

\* The probe of store_chunk_embeddings also joins the segment.
GuardHolds(o) ==
  Owns(o) /\ (Enforces /\ run[o] = "chunks" => segTurns[target[o]] # {})

\* Under READ COMMITTED the guard belongs to the statement's snapshot.
ReadGuard(o) ==
  /\ Window /\ run[o] \in Writing /\ ~guarded[o] /\ GuardHolds(o)
  /\ guarded' = [guarded EXCEPT ![o] = TRUE]
  /\ UNCHANGED <<lifeVars, seen, input, target, base, artifacts, procVars,
                 arrived, finalizing>>

Passes(o) == IF Window THEN guarded[o] ELSE GuardHolds(o)
Rejected(o) == ~Passes(o) /\ ~GuardHolds(o)

\* A write of run o is over: it landed, or was refused and, below ACTIVE, the
\* refusal was only logged; at ACTIVE it raised CompactionLeaseLost.
_enforce_or_observe_mismatch(o, next) ==
  /\ \/ Passes(o) /\ Goto(o, next)
     \/ Rejected(o) /\ Goto(o, IF Enforces THEN "abort" ELSE next)
  /\ guarded' = [guarded EXCEPT ![o] = FALSE]
  /\ UNCHANGED <<lifeVars, seen, input, target, base, runner, active, post,
                 crashed, arrived, finalizing>>

\* Upsert by ref: a merge stamps the row with the merging operation.
store_segment(o) ==
  /\ run[o] = "store"
  /\ _enforce_or_observe_mismatch(o, "chunks")
  /\ IF Passes(o)
       THEN /\ segTurns' = [segTurns EXCEPT ![target[o]] = base[o] \cup input[o]]
            /\ segStamp' = [segStamp EXCEPT ![target[o]] = o]
       ELSE UNCHANGED <<segTurns, segStamp>>
  /\ UNCHANGED <<rowBy, rowStamp, tagBy, compactedBy>>

\* Replace the rows of table t under the target segment.  Below ACTIVE these
\* writes take the legacy path: no guard and no stamp.
ReplaceRows(o, t) ==
  LET r == <<t, target[o]>> IN
  IF Enforces /\ ~Passes(o)
    THEN UNCHANGED <<rowBy, rowStamp>>
    ELSE /\ rowBy' = [rowBy EXCEPT ![r] = o]
         /\ rowStamp' = [rowStamp EXCEPT ![r] = IF Enforces THEN o ELSE NoOp]

store_chunk_embeddings(o) ==
  /\ run[o] = "chunks"
  /\ _enforce_or_observe_mismatch(o, "facts")
  /\ ReplaceRows(o, "chunks")
  /\ UNCHANGED <<segTurns, segStamp, tagBy, compactedBy>>

replace_facts_for_segment(o) ==
  /\ run[o] = "facts"
  /\ _enforce_or_observe_mismatch(o, "mark")
  /\ ReplaceRows(o, "facts")
  /\ UNCHANGED <<segTurns, segStamp, tagBy, compactedBy>>

\* Variant: every stored turn is marked, the protected and late ones too.
MarkArrived(o, stamp) ==
  compactedBy' = [g \in Group |-> IF g <= arrived THEN stamp ELSE compactedBy[g]]

Mark(o, stamp) ==
  compactedBy' = [g \in Group |-> IF g \in input[o] THEN stamp ELSE compactedBy[g]]

mark_canonical_turns_compacted(o) ==
  /\ run[o] = "mark"
  /\ _enforce_or_observe_mismatch(o, "tags")
  /\ IF Passes(o) THEN Mark(o, o) ELSE UNCHANGED compactedBy
  /\ UNCHANGED <<segTurns, segStamp, rowBy, rowStamp, tagBy>>

\* Upsert of the conversation's tag summary; skipped under
\* disable_replacement_passes when the row exists.
save_tag_summary(o) ==
  /\ run[o] = "tags"
  /\ IF ~Merge /\ tagBy # NoOp
       THEN /\ Goto(o, "finish")
            /\ guarded' = [guarded EXCEPT ![o] = FALSE]
            /\ UNCHANGED <<tagBy, lifeVars, seen, input, target, base, runner,
                           active, post, crashed, arrived, finalizing>>
       ELSE /\ _enforce_or_observe_mismatch(o, "finish")
            /\ tagBy' = IF Passes(o) THEN o ELSE tagBy
  /\ UNCHANGED <<segTurns, segStamp, rowBy, rowStamp, compactedBy>>

\* A progress callback finds the cancel flag that the sidecar set after a failed
\* refresh, or the run fails by itself, between two writes.
Cancelled(o) ==
  /\ run[o] \in {"plan", "store", "facts"} \/ (MayFail /\ run[o] = "tags")
  /\ MayFail \/ ~Owns(o)
  /\ Goto(o, "abort")
  /\ guarded' = [guarded EXCEPT ![o] = FALSE]
  /\ UNCHANGED <<lifeVars, seen, input, target, base, artifacts, runner, active,
                 post, crashed, arrived, finalizing>>

-----------------------------------------------------------------------------
(* exit_compaction: snapshot, terminal status by owner, drain.             *)

ExitSnapshot(o) ==
  /\ run[o] \in {"finish", "abort"}
  /\ \/ \E p \in OpId : ActiveAt(p, Life) /\ seen' = [seen EXCEPT ![o] = p]
     \/ /\ \A p \in OpId : ~ActiveAt(p, Life)
        /\ seen' = [seen EXCEPT ![o] = NoOp]
  /\ Goto(o, IF run[o] = "finish" THEN "complete" ELSE "fail")
  /\ UNCHANGED <<lifeVars, input, target, base, guarded, artifacts, runner,
                 active, post, crashed, arrived, finalizing>>

\* The locals of a run that is over or dead are gone.
DropLocals(runs) ==
  /\ seen' = [o \in OpId |-> IF o \in runs THEN NoOp ELSE seen[o]]
  /\ input' = [o \in OpId |-> IF o \in runs THEN {} ELSE input[o]]
  /\ target' = [o \in OpId |-> IF o \in runs THEN NoOp ELSE target[o]]
  /\ base' = [o \in OpId |-> IF o \in runs THEN {} ELSE base[o]]
  /\ guarded' = [o \in OpId |-> o \notin runs /\ guarded[o]]

\* Over: the finally blocks clear the shared field.
RunOver(o) ==
  /\ Goto(o, "over")
  /\ active' = [active EXCEPT ![runner[o]] = NoOp]
  /\ DropLocals({o})

\* Variant: the terminal write by operation id, whoever owns the row by now.
EndByOperationId(o) ==
  /\ run[o] \in {"complete", "fail"}
  /\ opStatus' = [opStatus EXCEPT ![o] = IF run[o] = "complete" THEN "completed"
                                         ELSE "failed"]
  /\ opStale' = [opStale EXCEPT ![o] = FALSE]
  /\ UNCHANGED <<phase, epoch, deletedAt, opOwner, opEpoch, epVars, work, handle,
                 stmtVars>>
  /\ IF seen[o] = NoOp
       THEN RunOver(o)
       ELSE Goto(o, "drain") /\ UNCHANGED <<localVars, active>>
  /\ UNCHANGED <<artifacts, runner, post, crashed, arrived, finalizing>>

\* The terminal write is by owner and epoch: it ends whatever operation the
\* process owns by now, and nothing if it owns none.
ExitTerminal(o) ==
  LET w == runner[o] IN
  /\ run[o] \in {"complete", "fail"}
  /\ IF OwnedActive(w, Life) = {}
       THEN UNCHANGED lifeVars
       ELSE IF run[o] = "complete" THEN complete_compaction_operation(w, Life)
            ELSE fail_compaction_operation(w, Life)
  /\ IF seen[o] = NoOp
       THEN RunOver(o)
       ELSE Goto(o, "drain") /\ UNCHANGED <<localVars, active>>
  /\ UNCHANGED <<artifacts, runner, post, crashed, arrived, finalizing>>

\* The guards of drain_compaction_exit before it looks at the remaining work.
Drainable(w, p) ==
  /\ opStatus[p] \in Terminal /\ opOwner[p] = w /\ opEpoch[p] = Life
  /\ \A q \in OpId : ~ActiveAt(q, Life)
  /\ phase = "compacting"

\* The seed of an episode conflicts with the one that is running.
DrainAborts == work /\ epStatus[Life] = "running"

ExitDrain(o) ==
  /\ run[o] = "drain"
  /\ IF Drainable(runner[o], seen[o]) /\ ~DrainAborts
       THEN drain_compaction_exit(runner[o], Life, seen[o])
       ELSE UNCHANGED lifeVars
  /\ RunOver(o)
  /\ UNCHANGED <<artifacts, runner, post, crashed, arrived, finalizing>>

-----------------------------------------------------------------------------
(* handle_prepare_payload on a conversation in phase 'compacting'.         *)

PostGoto(w, p) == post' = [post EXCEPT ![w] = p]

\* Variant: the gate that takes a missing operation for another worker's.
PhaseGateWithoutRepair(w) ==
  /\ Alive(w) /\ post[w] = "idle" /\ phase = "compacting"
  /\ PostGoto(w, "claim")
  /\ UNCHANGED <<lifeVars, localVars, artifacts, run, runner, active, crashed,
                 arrived, finalizing>>

\* Phase gate: repair if no operation is active, else try to take the lease.
PostPhaseGate(w) ==
  /\ Alive(w) /\ post[w] = "idle" /\ phase = "compacting"
  /\ PostGoto(w, IF \A p \in OpId : ~ActiveAt(p, Life) THEN "repair" ELSE "claim")
  /\ UNCHANGED <<lifeVars, localVars, artifacts, run, runner, active, crashed,
                 arrived, finalizing>>

PostRepair(w) ==
  /\ Alive(w) /\ post[w] = "repair"
  /\ set_phase(Life)
  /\ PostGoto(w, "idle")
  /\ UNCHANGED <<localVars, artifacts, run, runner, active, crashed, arrived,
                 finalizing>>

\* The row is another live worker's, or our own live run's, or it is dead.
PostClaim(w) ==
  /\ Alive(w) /\ post[w] = "claim"
  /\ IF Claimable(w, Life) = {}
       THEN PostGoto(w, "idle") /\ UNCHANGED lifeVars
       ELSE /\ claim_compaction_lease(w, Life)
            /\ PostGoto(w, IF active[w] \in Claimable(w, Life) THEN "idle"
                           ELSE CHOOSE o \in Claimable(w, Life) : TRUE)
  /\ UNCHANGED <<localVars, artifacts, run, runner, active, crashed, arrived,
                 finalizing>>

\* Variant: the takeover that does not release the dead operation's turns.
EraseWithoutRelease(d) ==
  /\ segTurns' = [r \in OpId |-> IF segStamp[r] = d THEN {} ELSE segTurns[r]]
  /\ segStamp' = [r \in OpId |-> IF segStamp[r] = d THEN NoOp ELSE segStamp[r]]
  /\ rowBy' = [r \in Table \X OpId |-> IF rowStamp[r] = d THEN NoOp ELSE rowBy[r]]
  /\ rowStamp' = [r \in Table \X OpId |-> IF rowStamp[r] = d THEN NoOp
                                          ELSE rowStamp[r]]
  /\ tagBy' = IF tagBy = d THEN NoOp ELSE tagBy
  /\ UNCHANGED compactedBy

\* DELETE the rows stamped by the dead operation and release its turns.
Erase(d) ==
  /\ segTurns' = [r \in OpId |-> IF segStamp[r] = d THEN {} ELSE segTurns[r]]
  /\ segStamp' = [r \in OpId |-> IF segStamp[r] = d THEN NoOp ELSE segStamp[r]]
  /\ rowBy' = [r \in Table \X OpId |-> IF rowStamp[r] = d THEN NoOp ELSE rowBy[r]]
  /\ rowStamp' = [r \in Table \X OpId |-> IF rowStamp[r] = d THEN NoOp
                                          ELSE rowStamp[r]]
  /\ tagBy' = IF tagBy = d THEN NoOp ELSE tagBy
  /\ compactedBy' = [g \in Group |-> IF compactedBy[g] = d THEN NoOp
                                     ELSE compactedBy[g]]

\* Takeover of operation d, claimed by an earlier step.  If it still runs the
\* successor is inserted and its run submitted to the pool.
PostTakeover(w) ==
  LET d == post[w] IN
  /\ Alive(w) /\ d \in OpId
  /\ Erase(d)
  /\ IF opStatus[d] = "running"
       THEN \E new \in OpId :
              /\ cleanup_abandoned_compaction(w, Life, d, new)
              /\ Goto(new, "waiting")
              /\ runner' = [runner EXCEPT ![new] = w]
              /\ active' = [active EXCEPT ![w] = new]
       ELSE UNCHANGED <<lifeVars, run, runner, active>>
  /\ PostGoto(w, "idle")
  /\ UNCHANGED <<localVars, crashed, arrived, finalizing>>

-----------------------------------------------------------------------------
(* The rest of the system.                                                 *)

\* A process dies; another one stays to serve the conversation.
Crash(w) ==
  LET lost == {o \in OpId : runner[o] = w /\ run[o] \in Working \cup {"waiting"}} IN
  /\ Alive(w) /\ \E v \in Worker \ {w} : Alive(v)
  /\ crashed' = crashed \cup {w}
  /\ run' = [o \in OpId |-> IF o \in lost THEN "dead" ELSE run[o]]
  /\ DropLocals(lost)
  /\ active' = [active EXCEPT ![w] = NoOp]
  /\ post' = [post EXCEPT ![w] = "idle"]
  /\ finalizing' = finalizing \ {w}
  /\ UNCHANGED <<lifeVars, artifacts, runner, arrived>>

\* An empty conversation's first request moves it from 'init' to 'active'.
FirstRequest ==
  /\ phase = "init"
  /\ set_phase(Life)
  /\ UNCHANGED <<localVars, artifacts, procVars, arrived, finalizing>>

\* A tagged group is stored.
GroupArrives ==
  /\ arrived < MaxGroup
  /\ arrived' = arrived + 1
  /\ UNCHANGED <<lifeVars, localVars, artifacts, procVars, finalizing>>

\* The external sweeper over orphaned operations.
Sweep(o) ==
  /\ fail_orphaned_compaction_operation(o, Life)
  /\ UNCHANGED <<localVars, artifacts, procVars, arrived, finalizing>>

LeaseExpires(o) ==
  /\ OperationLeaseExpires(o)
  /\ UNCHANGED <<localVars, artifacts, procVars, arrived, finalizing>>

\* The tagger of a process ends the episode and, in a second statement, sets
\* the phase.
_tagger_run(w) ==
  /\ Ingest /\ Alive(w)
  /\ \/ /\ w \notin finalizing
        /\ complete_ingestion_episode(w, Life)
        /\ finalizing' = finalizing \cup {w}
     \/ /\ w \in finalizing
        /\ set_phase(Life)
        /\ finalizing' = finalizing \ {w}
  /\ UNCHANGED <<localVars, artifacts, procVars, arrived>>

\* A request opens or joins the episode; groups come and are tagged.
Ingestion(w) ==
  /\ Ingest
  /\ \/ Alive(w) /\ claim_ingestion_for_complete_group(w, Life)
     \/ WorkChanges
     \/ EpisodeLeaseExpires(Life)
  /\ UNCHANGED <<localVars, artifacts, procVars, arrived, finalizing>>

-----------------------------------------------------------------------------
RunStep(o) ==
  \/ _run_compact_takeover(o)
  \/ _load_compactable_rows(o) \/ PlanSegment(o)
  \/ ReadGuard(o)
  \/ store_segment(o) \/ store_chunk_embeddings(o)
  \/ replace_facts_for_segment(o)
  \/ mark_canonical_turns_compacted(o) \/ save_tag_summary(o)
  \/ ExitSnapshot(o) \/ ExitTerminal(o) \/ ExitDrain(o)

PostStep(w) ==
  PostPhaseGate(w) \/ PostRepair(w) \/ PostClaim(w) \/ PostTakeover(w)

RunNext ==
  \/ \E o \in OpId :
       \/ RunStep(o) \/ Cancelled(o) \/ Heartbeat(o)
       \/ Sweep(o) \/ LeaseExpires(o)
  \/ \E w \in Worker :
       \/ \E o \in OpId : enter_compaction(w, o)
       \/ PostStep(w) \/ Yield(w) \/ Crash(w)
       \/ _tagger_run(w) \/ Ingestion(w)
  \/ FirstRequest \/ GroupArrives

RunSpec == RunInit /\ [][RunNext]_runVars

\* What the scheduler owes: threads of a live process run on, requests keep
\* coming to every live process, a lease nobody refreshes gets old, and the
\* sweeper comes round.
RunFairness ==
  /\ \A o \in OpId : WF_runVars(RunStep(o))
  /\ \A w \in Worker : WF_runVars(PostStep(w))
  /\ \A o \in OpId : WF_runVars(run[o] \notin Working /\ LeaseExpires(o))
  /\ \A o \in OpId : WF_runVars(Sweep(o))

FairRunSpec == RunSpec /\ RunFairness

-----------------------------------------------------------------------------
(* Properties.                                                             *)

\* Nothing that an abandoned operation wrote is left: no segment, chunk, fact
\* or tag summary of it, and no turn still marked compacted by it.  A worker
\* that lost its lease has every later write rejected, so the takeover's
\* deletes are final.
AbandonedLeavesNothing ==
  \A d \in OpId : opStatus[d] = "abandoned" =>
    /\ \A r \in OpId : segStamp[r] # d
    /\ \A r \in Table \X OpId : rowBy[r] # d
    /\ \A g \in Group : compactedBy[g] # d
    /\ tagBy # d

\* A turn group marked compacted is covered by a stored segment: compaction
\* never loses a turn, whoever crashes or takes over in between.
CompactedCovered ==
  \A g \in Group : compactedBy[g] # NoOp => \E r \in OpId : g \in segTurns[r]

\* Where the guard is read before the write commits, a takeover can be followed
\* by one write of the run it ended, the statement in flight, and no more: the
\* rows an abandoned operation leaves behind are all in one table.
AtMostOneLateWrite ==
  \A d \in OpId : opStatus[d] = "abandoned" =>
    Cardinality({t \in Table : \E r \in OpId : rowBy[<<t, r>>] = d}
      \cup {t \in {"segments"} : \E r \in OpId : segStamp[r] = d}
      \cup {t \in {"canonical_turns"} : \E g \in Group : compactedBy[g] = d}
      \cup {t \in {"tag_summaries"} : tagBy = d}) <= 1

\* A worker that lost its lease has every later write rejected: no row becomes
\* the work of an operation that does not run under its worker's lease.
LostLeaseWritesNothing ==
  [][\A o \in OpId : ~Owns(o) =>
       /\ \A r \in OpId : segStamp'[r] = o => segStamp[r] = o
       /\ \A r \in Table \X OpId : rowBy'[r] = o => rowBy[r] = o
       /\ \A g \in Group : compactedBy'[g] = o => compactedBy[g] = o
       /\ tagBy' = o => tagBy = o]_runVars

\* The bound on operations is spent: a takeover waits for one more id.
OutOfOperations ==
  /\ \A o \in OpId : opStatus[o] # "unused"
  /\ \E w \in Worker : post[w] \in OpId

\* A conversation does not stay in 'compacting' for good: whichever process
\* died, and wherever, later requests repair it or take its operation over.
Recovers == phase = "compacting" ~> phase # "compacting" \/ OutOfOperations

\* No operation runs for good and blocks every later compaction: its own run
\* ends it, a request takes it over, or the sweeper fails it.
OperationsEnd ==
  \A o \in OpId :
    opStatus[o] = "running" ~> opStatus[o] # "running" \/ OutOfOperations

\* Every behaviour of the runs is one of the store's specification.
ImplementsLifecycle == Spec
=============================================================================

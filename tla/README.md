# Virtual Context: a TLA+ verification project

Virtual Context keeps the history of long conversations outside the model's
window: turns are stored, tagged, compacted into segments and facts, and found
again when a request needs them. Several proxy or REST workers serve the same
conversation against one relational store. This project models that
coordination: who may change a conversation, when, and what survives a worker
that stalls, dies or comes back late; and the stores whose content must come
through it: the transcript, the aliases, the session checkpoint and what derives
from an edited record.

## 1. The system and its parts

| Part | State | Operations | What is hard |
|---|---|---|---|
| Conversation lifecycle (`storage/postgres.py`, `storage/sqlite.py`) | `conversations` (phase, lifecycle_epoch, deleted_at), `compaction_operation`, `ingestion_episode`, `speaker_handles` | begin, claim, heartbeat, advance, complete, fail, drain; claim/complete episode; set_phase; delete; resurrect; allocate handles | callers with a stale epoch; leases; statements committed one by one on Postgres |
| Compaction run (`core/compaction_pipeline.py`, `proxy/state.py`) | segments, chunks, facts, tag summaries, `compacted_at`, the process's lock and `_active_compaction_op` | enter, load, plan, guarded writes, exit, takeover | a stalled run that resumes; two runs of one process; a takeover in the middle of a write |
| Compaction fence (`core/compaction_fence.py`) | mode off / observe / active | guard of each write | which writes are guarded and stamped in which mode |
| Ingestion workers (`proxy/state.py`) | episode lease, tagger thread, phase | claim, tag, complete, flip, self-heal | two-step finalization; death in between; replies that never come |
| Ingest reconciler (`core/ingest_reconciler.py`) | canonical turns, sort keys, anchors, turn groups | align, insert, rebalance, regroup, complete a pair, roll back | redelivery, gap exhaustion, a resurrection or a death between two row writes |
| Aliases and merge (`core/alias_resolution.py`, `proxy/vcattach.py`, `proxy/registry.py`, stores) | alias table, engines bound to an id, pending events, merge audit | resolve, attach, link, merge, build, evict | cycles; an engine built from the old alias; lost events; merge against live writers |
| Session state (`proxy/session_state.py`, `engine.py`) | Redis checkpoint, tombstone, `engine_state` backup, generation | load, hydrate, save, back up, delete, recreate, repair markers | saves of a deleted generation; late backups; a Redis that loses its keys |
| Record editing (`storage/record_edits.py`, `core/record_editing.py`) | `turn_edits`, `record_edit_operations`, segments, facts | edit, remove, forget, retag, rebuild, replay | edits racing compaction and replay; half-finished rebuilds |
| Facts, actor cards | facts, links, verdicts, cards | admit, supersede, reject, rebuild | decided by model calls |
| Backlog sweeper (`core/sweeper_backlog.py`) | none of its own | query, claim, queue | stale candidates |
| Tool loop, segmenter, protected window, tag index, monitor, paging | in-memory | pure or nearly pure algorithms | boundaries |
| Retrieval, assembly, model calls, wire formats, CLI/TUI | - | text and numbers | not state |

The parts meet in the store. A *prepare* request (`handle_prepare_payload`)
reads the phase: in `compacting` it repairs, renews or takes over the
operation; otherwise it activates, heals or claims the ingestion episode and a
thread of the process tags the groups. A completed ingestion, or a completed
turn, starts a compaction run, which holds a process-wide lock, a row of
`compaction_operation` with a lease, and a sidecar thread that renews it. The
run's last act, the drain, moves the phase on and may seed an episode.

Properties that make the parts correct: one active operation per life of a
conversation; dead lives stay dead; an operation's outcome is final; a takeover
removes all its predecessor wrote and nothing else; a turn marked compacted is
in a segment; every operation, every episode and every stay in `compacting` or
`ingesting` ends; a payload is stored once, as delivered, however often it comes;
aliases never close a cycle and no engine outlives its redirect; no checkpoint of
an earlier generation comes back; nothing served rests on text that was edited
away. `PROJECT.json` lists the hazards line by line.

## 2. Modules

**`CompactionLedger`** - the abstract specification: operations are unused, open
or closed; one is open per life; a takeover hands over in one step.

**`ConversationLifecycle`** - the store. One variable per column of interest; one
action per store method, called by any worker with any epoch up to the current
one, so the callers' discipline is not assumed. `Atomic` chooses SQLite
(`BEGIN IMMEDIATE` around each method) or Postgres, where the pool autocommits
and `mark_conversation_deleted` and `increment_lifecycle_epoch_on_resurrect` are
sequences of statements: `deleting` and `resurrecting` hold the statements that
are still owed, and `CallerDies` drops one. `DirectInsert` adds the two methods
that insert without looking at the conversation
(`start_compaction_operation`, `upsert_ingestion_episode`). Time is a Boolean per
lease: `opStale` and `epStale`. Abstracted: payload counters, phase names and
indexes, error messages, timestamps, the tenant. `merged` is not among the
phases: no method modelled here writes it; `set_phase_and_drain_pending_raw` is left
out.

**`CompactionRun`** - extends the store's module with runs. A run is named by its
operation and compacts what it loads into one segment, where the code may make
several. `run[o]` is its program counter (`load`, `plan`, `store`, `chunks`, `facts`, `mark`, `tags`, then the
three transactions of the exit). `rowBy` is who wrote the rows of a table under a
segment, a history variable; `rowStamp` is the `operation_id` column, which the
legacy path below the active mode leaves empty. `Window` splits a guarded write
in two (guard in the statement's snapshot, then commit) for READ COMMITTED;
`Merge` lets a run write into an existing segment; `FenceMode` is
`VC_COMPACTION_FENCE_MODE`. `post[w]` is a prepare request between its store
calls: phase gate, repair or claim, takeover. `Yield` is the thread that loses
the lock or is refused and clears the shared `_active_compaction_op` in its
`finally`. `Crash` kills a process with all its threads; one process survives.
Segment chunks stand for the tables with operation-scoped deletes
(`segment_tool_outputs`, `fact_links`), facts for the guarded replace.
`advance_compaction_phase` changes nothing here that the heartbeat does not, as
operations are inserted `running`.

**`IngestionWorkers`** - extends the store's module with the tagger threads, the
completion lane and the repairs of the phase, one store call per step, and with
user halves whose replies come late or never.

**`IngestReconciler`** - the transcript of one conversation under the reconcile
lock. A call loads rows and anchors, aligns its payload (`_find_alignment`), plans
its operations and executes them one by one (`Execute`), then regroups, refreshes
the anchors and looks at the epoch a last time (`Finish`, which rolls a raced batch
back). With `Transactional` the call is one SQLite transaction; without it every
write commits, and `Crash`, `Resurrect` and `Tag` come between any two. A message is
its hash. Sort keys are integers: `Spacing` stands for the 1000.0 between appended
rows and 1 for `_MIN_SORT_KEY_STEP`, so that a gap is exhausted after few inserts.
`Sound` is a guard for anchors that name more rows than are stored (after a raced
rollback whose refresh failed): the call then raises and writes nothing. `raced`,
`last` and `inOrder` are history variables. Left out: attested sources (lines
635-1078, 1573-1798), channels, reply edges and the other enrichment columns, which
follow the actor's rule.

**`AliasResolution`** - the alias table and everything bound through it. An attach is
clear, save, publish, evict, and its worker may die after each; an engine is built in
two steps; events wait in an inbox. `missed` records evictions that were given up
(a failed publication, a dead worker), `torn` that a swallowed failure of the clear,
or a merge, left the target with an alias of its own. `Leases` is the hosting
service's lifecycle lease on both ids; it is `TRUE` in the runs. The search for
reverse dependents keeps at most `MaxFanOut` (the code's 256) sources of each id it comes
to, the first ones in sort order; which ids those are is left open, so
`compute_reverse_dependents` is a set of results and an event may name any of them. The
call of `provider.undelete` in VCATTACH's `_invalidate` is left out.

**`SessionState`** - one conversation in provider mode. A checkpoint's content is the
set of requests it contains, each with its generation; a request is load, serve,
save, backup, flag, every one its own step with its own failure. Deletion, recreation
and marker repair take the lifecycle lease: of the first two only the docstring at
`proxy/session_state.py:729` says so, since `delete` and `undelete` take none themselves
and rely on the host. `faults` records what the stores did
wrong (`lost`, `straddled`, `half_deleted`); the invariants say which of these they
exempt. Left out: generation promotion by an administrator, the token and tag
caches, the tool counter.

**`RecordEdits`** - edits, removals and forgotten topics, one transaction each; the
rebuild of the segments they queue, step by step; the compaction that writes the same
segments; and a replay between its two reads. Text is a message and a version, so
that chains of edits, undo and redo happen. One `job` at a time holds the compaction
lease, or is an operator's command without it that is started while nothing runs;
a lease lost by a live run is `CompactionRun`'s subject. A run writes its segment, then
replaces the segment's facts (`replace_facts_for_segment`), then, if there are any, sets
their trust state (`refresh_fact_trust`), each a transaction of its own between which
edits come. `Serial` is SQLite, where a write transaction excludes the others; on Postgres
the trust refresh takes another advisory lock than the edits, so its SELECT
(`refresh_fact_trust`) and its UPDATE by id (`UpdateTrust`) are two steps. A text list in
`Stubs` is a placeholder (`_is_stub_content`): it is stored by the passthrough, which
leaves the facts as they are. Not modelled are the other callers of the
trust refresh (`verify_facts`, the fact backfill in `engine.py:4293`), which have the same
race. The backlog sweeper's compaction, which never merges and replaces no facts, is that
of a fresh segment. `tainted` is a history variable: the segments and facts that a run
wrote from text an edit had replaced meanwhile, the old facts of a segment that a rebuild
took turns out of, the withheld facts that `UpdateTrust` has served again, and (`kept`)
the segments whose withheld facts a placeholder's rebuild left.

`ConversationLifecycleProofs`, `CompactionRunProofs`, `IngestionWorkersProofs`,
`IngestReconcilerProofs`, `AliasResolutionProofs`, `SessionStateProofs` and
`RecordEditsProofs` hold the theorems about the modules they are named after, and
`IterationTheorems` the induction they share (section 4).
`IngestReconcilerInvariants` has the definitions and inductive invariants that the
reconciler's proofs speak in.

`MCLifecycle`, `MCRun`, `MCIngest`, `MCReconciler`, `MCAlias`, `MCSession` and `MCEdits`
give TLC its model values, payloads, symmetry sets and constraints. Definitions
called *Variant* or *Mutant* are plausible bugs of the definition they precede; they
show that the properties notice them.

## 3. Runs

| Run | Bounds | Result |
|---|---|---|
| `LifecycleSQLite` | 2 workers, 3 operations, 2 lives, 1 speaker | uniqueness, quiet dead lives, handles, runner, cancels and the ledger hold |
| `LifecyclePostgres` | 1 worker, 2 operations, 2 lives, direct inserts | the ledger is implemented (so one operation is open, and an outcome is final) |
| `RunFenceActive` | 2 processes, 2 operations, 2 groups of which 1 protected, failures, crashes, self-takeovers | nothing abandoned survives, no turn is lost, a lost lease writes nothing; every step is one of the store's |
| `RunPostgresFence` | 2 processes, 2 operations, guard window, merges | at most one late write |
| `RunRecovery` | 2 processes, 2 operations, one death, ingestion beside the survivor, fairness | `compacting` ends, operations end |
| `IngestLive` | 2 processes, 3 groups, one death, fairness | groups are tagged, episodes healed, every step is one of the store's |
| `ReconcileSQLite` | a history of 6 messages, all its windows and 4 deviating payloads, late pairs, 3 calls, deaths | payloads are stored as delivered and found again; the transcript is a window of the history; groups are pairs |
| `ReconcilePostgres` | windows of 4 and 3 deviating payloads, 2 actors, 2 calls, tagger, resurrection, deaths, failing refreshes | keys stay apart; a raced batch goes; earlier rows keep content, order, actor and tags |
| `AliasLeased` | 3 ids, 2 workers, 2 writes, walk of 2 hops, fan-out of 1, failures, deaths | no cycle, no stale binding, event lists that follow the walks |
| `Session` | 2 workers, 2 generations, 2 requests, 1 repair, one kind of store fault | checkpoint and backup are of this life; the backup is not ahead; a newer checkpoint stays |
| `Edits` | Postgres; 1 message in 2 versions, 2 topics, 2 rows, 2 segments, 2 edits, merges, placeholders, 1 fault | served facts are supported; derived content follows the record; a replay restores nothing |
| `EditsTrustRace` | Postgres; 1 edit, no faults | violated: the trust refresh serves facts an edit has withheld |

Why the bounds suffice: two processes give every race between an owner and a taker; a
third operation lets a takeover be taken over; two lives are the least that has a stale
epoch; two groups, one protected, separate what a run loaded from what arrived later;
three turn groups let a group arrive while the previous episode is being closed and
another after it. Three reconcile calls with `Spacing` 2 exhaust a gap and rebalance;
one call fewer with actors, tagging and a resurrection keeps the Postgres run small
(three calls with one actor also held). Three ids are the least that has a chain of two
and a cycle through a third party. In the session run the second generation, the second
request and the repair each give a late writer something newer to overwrite (three
requests without a repair also held). Two versions, two edits and two rows give edit
chains, an undo, a repeat of edited text and a merge. The run is that of Postgres, whose
two-step trust refresh has SQLite's single one among its behaviours. Symmetry is used
for safety only. The liveness runs use constraints instead: `o1` is used before `o2`,
only `w1` dies, and in `RunRecovery` turns are tagged and episodes run once `w1` has
died (at the start, or anywhere in a run). They cut no step that fairness asks for. With
a fan-out of 1 two sources of one id are already too many, so that events leave ids out.
The placeholders are the lists of last versions, so that an edit can make a segment one
and another unmake it.

`CHECK_DEADLOCK FALSE` where the bounded supply of operations, groups, calls or edits is used up
and the system may rest.

### Fairness

`RunFairness`: threads of a live process run on (weak fairness of each run's own
steps), requests keep coming to every live process (weak fairness of the prepare
path: the recovery in this code *is* the next request), a lease that no run renews
gets old, and the hosting service's sweeper comes round. Nothing is assumed of
crashes, failures, new runs or arrivals. `OutOfOperations` exempts the states in
which the bound on operations, and not the code, stops a takeover.

`IngestFairness`: the same for requests and threads. Tagging a group has strong
fairness: a model call may fail, and the next request starts again, but not for
ever. Completing under a lease just taken has strong fairness because a lease is
longer than the gap between two store calls. Replies need not arrive.

### Known disagreements

What follows was found while modelling, with the line the code contradicts. The first
is the run that ends in a violation; the properties named with the others are not in any
run, and fail under the constants given.

* *The trust refresh can undo an edit's withholding.* `refresh_fact_trust` selects the
  facts that are not retracted, then updates them by id (`storage/fact_mutations.py:222`).
  Its advisory lock is `vc-fact-trust`, an edit's `vc-record-edit`, and on Postgres both
  run READ COMMITTED (`storage/relational.py:30`): an edit that commits in between has its
  'retracted' overwritten with 'verified', against `storage/fact_mutations.py:193` "A
  retracted fact is left retracted: only the rebuild that replaces it clears it". Facts of
  the replaced text are then served until the rebuild. Run `EditsTrustRace`. With
  `Serial = TRUE`, that is on SQLite, `RetractedStaysRetracted` holds under the constants
  of `Edits` and is proved.
* *A rebuild to a placeholder replaces no facts.* If the turns left in a segment are a
  placeholder, the passthrough stores them and goes on (`core/compaction_pipeline.py:1537`),
  against line 735 "The summary, facts, chunk embeddings and tags are regenerated by the
  same path compaction uses": the facts the edit withheld stay in the store, withheld, when
  the edit is completed. `RebuiltFactsReplaced` under the constants of `EditsTrustRace` with
  `Stubs <- MCStubs`.
* *The fan-out limit is per id, not per level* (`core/alias_resolution.py:142`), against
  line 107 "capped at max_hops levels of depth and MAX_REVERSE_DEPENDENT_FAN_OUT per-level
  fan-out" and line 22 "Bounds the worst-case event payload size". `FanOutPerLevel`
  with 6 ids, 1 worker, `MaxHops = 2`, `MaxFanOut = 2`, `MaxWrite = 5`, no failures.
* *A deletion cancels the next life's operation.* On Postgres a deletion is four
  transactions and its cancel names no epoch (`storage/postgres.py:5054`), against
  `docs/architecture.md:92` "Writes carry the epoch they were started under and are
  rejected if the conversation was reset". `CancelsOnlyDeadLives` with `Atomic = FALSE`,
  1 worker, 2 operations, 1 speaker, 2 lives; `HandlesOfThisLife` fails as well.
* *The fence is off by default* and then guards neither chunks nor facts
  (`storage/postgres.py:8916`), against `docs/architecture.md:91` "a worker that loses
  its lease has every subsequent write rejected". `LostLeaseWritesNothing` with
  `FenceMode = "off"`, `MaxGroup = 1`.
* *The guard locks no operation row* (`storage/postgres.py:13258`): a takeover commits
  between guard and write. One statement is late; if it is the mark, a turn is
  compacted and not stored. `CompactedCovered` with `Window` and `MayFail` `TRUE`,
  `MaxGroup = 1`.
* *A merge restamps the segment it extends* (`storage/postgres.py:3895`), so a
  takeover deletes an earlier operation's turns, against `storage/postgres.py:7497`
  "DELETE scoped partial writes". `CompactedCovered` with `Merge = TRUE`, 1 worker, 3
  operations, `MaxGroup = 2`, no failures.
* *Episode completion and phase change are two transactions* (`proxy/state.py:917`); a
  death in between leaves phase `ingesting` for ever, against line 660 "Self-heal an
  ingestion episode whose tagging completed but whose finalization never ran".
  `IngestingEnds` under the constants of `IngestLive`. A late `set_phase` over a newer
  episode and an unanswered user half have similar effects, hence the provisos of
  `EpisodesHeal`.
* *A killed reconcile is not retried cleanly.* Row writes commit one by one
  (`core/ingest_reconciler.py:2217`), and the redelivered payload aligns with the part
  that is stored and can store a message twice, against `storage/postgres.py:1476` "the
  idempotent reconcile can retry cleanly". `RetriesCleanly` under the constants of
  `ReconcileSQLite` with `Transactional = FALSE`, `Extra` and `Pairs` empty and
  `MinLen = 3`.
* *A resend of a pair clears `tagged_at`* (`storage/postgres.py:10340`), against
  `core/ingest_reconciler.py:2602` "IngestReconciler never sets ``tagged_at``".
  `TagsOnlyByTagger` under the constants of `ReconcilePostgres`.
* *`ingest_single` has no check of the epoch at its commit* (`docs/architecture.md:92`
  again): `RacedBatchGone` speaks of batches only. A late completion outside the
  window of 5 rows or 10 minutes is appended again, which is why `inOrder` excludes it.
* *A merge leaves the target's own alias* (`storage/postgres.py:7010`), so markers of
  the source stop resolving, against `docs/architecture.md:100` "Stale conversation
  markers embedded in old assistant responses keep resolving because they follow the
  alias chain". `MarkersKeepResolving` with 2 ids, 1 worker, `MaxWrite = 2`, no
  failures. A chain of exactly `max_hops` aliases raises, although the docstring says
  "exceeds". `link_predecessor` is called without a lease in `engine.py:746`, and
  aliases to deleted conversations stay.
* *Hydration ignores a checkpoint of a newer generation whose version is lower*
  (`engine.py:1822`): versions restart at 0. `EngineOfLoadedGeneration` without failures
  or loss. After a loss of Redis the fallback also restarts at 0, so a stale worker
  with a higher version wins (docstring at `proxy/session_state.py:934`); row and
  generation are read by two queries and can straddle a delete and recreate (line
  1531); a delayed backup of an older save overwrites a newer one and clears the
  stale flag.
* *Undo and redo unretire the original.* After the edits v0 to v1, v1 to v0, v0 to v1
  the walk of `get_retired_turns` comes back to its start, and a replay appends the
  original text beside its edit, against `core/ingest_reconciler.py:1879` "replay
  neither restores a removed turn nor appends the original text beside its edit"
  (`ReplayRestoresNothing` without its proviso `Undone`). The rows are read before the
  edits (lines 1829-1830), so an edit in between is appended a second time.
* *A compaction that read a turn before an edit stores the old text* as served segment
  and facts; a merge into a segment that waits for its rebuild is lost, because
  `rebuild_segment` uses the turn ids recorded at the edit (`core/compaction_pipeline.py:735`
  "from the turns it still has"); a takeover deletes a rebuilt segment that is already
  marked done; a takeover of a merging run leaves facts without a segment. An
  operation that is run again after a failure rebuilds from the turns it recorded at
  its edit (`core/record_editing.py`, `process`): if a compaction has merged a second
  turn into the segment and a later edit has rebuilt it with both, the rerun stores the
  smaller segment, and if it fails before it replaces the facts, the facts of the turn
  it dropped stay served, where no removal of that turn finds them. These are
  the writes that `tainted` exempts, and the reason why no run claims that every
  compacted turn is in a segment once edits are possible. The command line rebuilds
  without the lease, although `proxy/state.py:2823` says "the rebuild cannot interleave
  with compaction on any worker", and `resume` has no caller.

The comments at `core/ingest_reconciler.py:193` and `storage/sqlite.py:1291`, by which the
epoch check of a reconcile ends its SQLite transaction, are older than the code:
`get_lifecycle_epoch` (`storage/sqlite.py:5059`) reads without the context manager that
commits. `Transactional` follows the code.

Two more things the model shows and the code tolerates: every orderly exit passes
through `compacting` without an active operation, which the prepare path may see
and repair to `active` before the drain; and the drain aborts when an episode is
already running, leaving the phase to that repair. `Recovers` holds with both.

## 4. Proofs

`ConversationLifecycleProofs` proves, for any finite or infinite sets of workers,
operations and speakers and any number of lives, under `LifecycleAssumption` only:

* `TypeCorrect`: `Spec => []TypeOK`.
* `OneActiveOperationAlways`. Every step of the store is an *operation step*
  (rows kept, one inserted, one replaced, or some rows updated to terminal): the
  lemma `NextOperationStep` reduces some thirty actions to four cases, and uniqueness
  (`OneActiveRow`) is inductive over those. The epochs of rows need
  `NoFutureEpisode` beside it.
* `TerminalFinal`: the action property, from the same four cases.
* `ImplementsLedgerAlways`: each of the four cases is a step of `CompactionLedger`
  or a stutter; the one-active invariant supplies the ledger's guard in a
  takeover.
* `DeadLivesAreQuietAlways`, `CompactingHasRunnerAlways`, `HandlesOfThisLifeAlways`
  and `CancelsOnlyDeadLivesAlways`, for the transactional store without the
  unchecked inserts. The invariants are not inductive alone: `LifeInv` adds that
  phase `deleted` comes with `deleted_at`, that statements are never owed, and that
  an operation in phase `compacting` is of the current life. Without `Atomic` the
  last one is false (section 3, first disagreement).

`CompactionRunProofs` proves, for any processes, operations and turn groups, under
`LifecycleAssumption` and `RunAssumption`:

* `ImplementsStore`: `RunSpec => Spec`. It needs `RunShape` (a run that started has
  a process, a drain has the operation its snapshot found, a run or a pending
  takeover is of an inserted operation), proved together with the types
  (`RunTypeCorrect`). `OneRunAtATime` follows from it and the store's theorem.
* `LostLeaseTheorem`, `AbandonedTheorem` and `CoveredTheorem`, for the active fence
  with guards that hold until the commit (`Fenced`), the last one without merges;
  the next three disagreements of section 3 show that each of these assumptions is
  needed. `RunStepKinds` reduces the steps to four kinds: quiet, a write,
  the entry of a run, a takeover. `AbandonedLeavesNothing` needs that each row bears
  the stamp of the run that wrote it (`StampedInv`), because the takeover deletes by
  stamp. `CompactedCovered` needs `CoveredInv`: a compacted turn is in the segment of
  the operation that marked it, under that operation's stamp, so whoever deletes the
  segment releases the turn; a run between its segment and its mark, whose operation
  still runs, has its input in its segment; and it has marked nothing before.

* `OneLateWriteTheorem`, for the active fence with guards that lock nothing, merges
  and failures included. `Left` is the set of tables in which an operation has left
  something; `LateInv` says that an abandoned operation has left something in at most
  one table, and nothing as long as a guard it read waits for its write. `GuardsRead` supplies
  that an abandoned operation reads no new guard, `WriteLeaves` that a write uses up
  the one it has.

`IngestionWorkersProofs` proves, for any processes and number of groups,
`IngestImplementsStore` (`IngestSpec => Spec`) and `IngestingIsOwnedAlways`, from
`IngestShape`: no more groups are untagged than have arrived.

`IngestReconcilerProofs` proves, for any messages, payloads, pairs, histories, actors
and number of calls, under `ReconcilerAssumption` (whose anchor sizes of at least 3 are
the code's 3, 4 and 5):

* `KeysAreUnique`. The invariant `KeyInv` has to say that the plan a call still has
  to carry out fits the rows as they are now, after any number of its steps:
  `Runs(K, ops, L)` says that the plan's writes and shifts, carried out from the keys
  `K`, meet no taken key. That the plans of an insert, a merge and an append run is the
  bulk of the proof: the keys `_allocate_bounded_sort_keys` gives lie strictly between
  their neighbours (`AllocateFits`), the shift that opens a full gap moves every key
  above it past every key below (`GapDelta`), and each overlap that `_find_alignment`
  returns lies within the stored rows (`FindOverlap`), for which the window sizes
  matter. `UndoOrdered` carries the same through a SQLite rollback.
* `RacedBatchesAreGone`, from `RaceInv`: a raced batch is the one under way, of an
  earlier life than the present, so `Finish` sees the difference and rolls it back.
* `GroupsStayPairs`, under `~MayMiss` (the failure of `recompute_groups` is swallowed)
  and `Transactional` or `~MayCrash` (a death on Postgres keeps the rows without their
  groups). An induction over the scan shows that the groups it hands out partition
  any rows into a user row with the reply after it or single rows (`RecomputePairs`,
  `PairsPartition`); `GroupInv` says when the stored numbers are those of a scan.
* `EarlierRowsAreKept`, the action property, on both stores and with every failure.
  `KeepInv`: ids are known and unique; what the plan under way still writes has an id
  no stored row has, or is a stored row again with its content, its actor and its stamp
  (`Careful`); what a transaction would restore is what its rows came from (`Succeeds`).
  That rows keep their order is shown of the sequence itself: a shift and a write
  between two keys leave the old rows a subsequence (`Kept`, `Holds`).
* `PayloadsAreStored`, under `Transactional` and `~MayMiss`. The stored transcript is
  taken as a set of pairs of key and hash: `Gives` says what the rest of a plan makes
  of it, whatever ids, groups and actors the rows bear, and `Laid` that a payload lies
  in it side by side. `StoreInv` says that the plan under way will lay its payload
  (`WillLay`), and needs `Anchored`: the anchors a call aligns with are those of the
  rows it has loaded, otherwise an overlap is looked for in rows that are gone. Both
  assumptions are needed: TLC violates `PayloadStored` in the `ReconcileSQLite` run with
  `MayMiss = TRUE` (a swallowed anchor refresh leaves anchors of other rows) and with
  `Transactional = FALSE` (a dead call leaves its rows with the old anchors).
* `ResendsWriteNothing`, under the same and `3 \in WindowSizes` (the code's
  `_ANCHOR_WINDOW_SIZES = (3, 4, 5)`, `core/ingest_reconciler.py:159`): `FindsAll` shows
  of each of the three searches that whichever answers first finds all of a payload that
  is stored, even if the payload also lies elsewhere in part.
* `TranscriptStaysWindow`, under the same and `Distinct`: no message twice in the host's
  history. `HostInv`: while the host delivers in order, what is stored, what the plan
  makes of it and what a rollback restores are one window (`Told`). Two windows of such
  a history meet on one diagonal only (`Diagonal`), so an overlap cannot be at the wrong
  place and nothing is left out on either side of it (`Full`), and an overlap that
  `InOrderBatch` promises is found (`FindSome`). `Distinct` is about the host: for a
  history with repetitions, such as 1, 2, 3, 4, 1, 2, TLC finds an in-order delivery
  that is aligned with the wrong occurrence, which a reconciler that sees only hashes
  cannot tell apart.

`AliasResolutionProofs` proves, for any ids, workers, hop and fan-out limits, under
`AliasAssumption`:

* `SearchFollowsWalks`: whichever sources the search keeps, the ids it names have a walk
  that meets the target (`SearchPassesTarget`), and an id whose walk does is named unless
  the walk goes through an id with more sources than are kept (`SearchFindsWalks`); both
  by induction on the hops.
* `AliasesStayAcyclic`, with `Leases`. `CycleInv`: attaches and links hold disjoint
  pairs of two different ids, and, unless `torn`, the table is acyclic and a target
  about to be saved under has no alias. A redirect to an id without alias closes no
  cycle (`RedirectToTerminal`).
* `StaleBindingsEnd`, with or without leases, from `BindingInv`: an engine bound to a
  redirected id has an eviction pending (an attach at its publish step, or at its own worker's
  evict step, or an event in the inbox) or reported as `missed`. An engine under
  construction counts as bound, for the registry's lock keeps evictions waiting for it.

`SessionStateProofs` proves the type invariant, `CheckpointIsOfThisLife`,
`BackupIsOfThisLife`, `BackupIsNotAhead` and the action property
`NewerCheckpointIsKept`, for any workers, generations, requests and repairs, under
`SessionAssumption` and `NothingAssumption` (no checkpoint is the absent one). All rest
on one invariant, `SessionInv`, because they support each other: a save is refused by
generation or version (`Generations`, `Ordered`), versions restart at 0 so the order
holds within a life only (`Fresh`, `DeletedIsFresh`), and a backup is as good as the
checkpoint it was taken from (`Contents`, `Purged`, `Virgin`). Which parts survive a
fault is part of the invariant: `Contents` outlives the loss of Redis, `Faultless` does
not.

`RecordEditsProofs` proves `EditTypesAlways`, `ServedFactsAreSupported`,
`DerivedFollowsTheRecord` and the action properties `RetractedFactsStayRetracted` and
`ReplayBringsNothingBack`, for any messages, versions, placeholders, rows, segments, edits
and faults, with and without merges, under `EditAssumption`.
`RetractedFactsStayRetracted` assumes `Serial`, that is SQLite: `EditsTrustRace` shows
that it needs it. The others hold on both backends; of what `ServedFactsAreSupported`
exempts, the facts that `UpdateTrust` serves again occur on Postgres only. The first four
rest on `EditInv`: what an operation has neither done nor failed it has still to do
(`Operations`, `Rebuilds`), what the run under way has
read is what its turns say unless it is `stale` (`Run`), the segment it writes next has
only turns it has read (`Target`), and served facts rest on turns of their own segment
(`Supported`, stronger than the property: it is what a removal, which withholds the
facts of the segments that hold the turn, needs). That the trust refresh of a single
transaction serves nothing that was not served already is `RefreshIs`. The last one follows from
`WalkEndsAtLatest`: the walk along the edits, bounded by their number, ends at a text
that no edit replaced, unless the chain returns to where it has been.

Induction over data: the library's induction theorems take an operator, which the
provers cannot instantiate, so `IterationTheorems` states induction over sets of
numbers (`LeastNumber`, `InductionUpTo`), and that a function iterated from a start
exists (`IteratesExist`); recursive functions, scans and searches are reasoned about
through them.

Every invariant and action property of the passing runs is proved. Only model-checked is
liveness (`Recovers`, `OperationsEnd`, `GroupsGetTagged`, `EpisodesHeal`), because the
prover knows neither fairness nor ENABLED.

## 5. Not modelled

Retrieval, assembly, summarising and tagging are calls of language models or
numeric scoring: their outcome is a nondeterministic success or failure here. Wire
formats, dashboards and command lines hold no coordination state. The graph and
filesystem stores have neither leases nor epochs. Of the modelled parts, each
module's paragraph in section 2 names what is left out; of record editing that is
the fact verdicts and their trust refresh, the topic summaries and the in-memory turn index, of the merge
everything but its effect on aliases and liveness of the ids. The pure algorithms
(segmenter, protected window, monitor, paging, tag index), the tool loop and the
actor cards are sequential within one process and covered by unit tests; they have
no module.

## 6. Plan

What the safety runs check is proved. Next would be models of the row moves of
`merge_conversation_data`, of the verdicts and supersession of facts, and of the pure
algorithms against reference definitions.

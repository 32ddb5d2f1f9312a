---------------------------- MODULE RecordEdits ----------------------------
(***************************************************************************)
(* Edits of a conversation's record and the rebuild of what derives from   *)
(* it (storage/record_edits.py, core/record_editing.py), beside the        *)
(* compaction that writes the same segments and the host that replays its  *)
(* history.  The record is the canonical turns; segments and facts derive  *)
(* from it.  An edit is one transaction: it changes turns, writes the      *)
(* audit, withholds the facts of the segments that hold them and queues    *)
(* those segments.  The rebuild comes later, step by step, under the       *)
(* compaction lease (run_record_edit) or without it (the command line).    *)
(* An exchange is one turn; its text is <<message, version>>, version 0    *)
(* being what the host sent, so that texts are equal iff their hashes are. *)
(***************************************************************************)
EXTENDS Naturals, Sequences, FiniteSets, SequencesExt

CONSTANTS
  Msg,         \* messages the host holds
  MaxVersion,  \* an admin chooses among the texts 0..MaxVersion of a message
  Topic,       \* tags
  Ref,         \* segment refs
  MaxRow,      \* canonical turns ever stored
  MaxEdit,     \* record edits
  Merge,       \* compaction may merge into a stored segment
  MaxFault,    \* failed calls of a rebuild and dying processes, together
  Gone,        \* no text: a turn that is not stored, a removal in the audit
  Stubs,       \* texts that joined are a placeholder (_is_stub_content)
  Serial       \* TRUE: SQLite, write transactions exclude each other; FALSE:
               \* Postgres, READ COMMITTED under a lock of the caller's scope

Version == 0..MaxVersion
Text == Msg \X Version
RowId == 1..MaxRow
OpId == 1..MaxEdit
Original(m) == <<m, 0>>

ASSUME EditAssumption ==
  /\ MaxVersion \in Nat /\ MaxRow \in Nat /\ MaxEdit \in Nat
  /\ MaxFault \in Nat /\ Merge \in BOOLEAN
  /\ Gone \notin Text /\ Stubs \subseteq SUBSET Text /\ Serial \in BOOLEAN

VARIABLES
  text,      \* canonical_turns: the text of each row, or Gone
  tags,      \* canonical_turns.tags_json
  packed,    \* rows with compacted_at
  used,      \* row ids given out so far
  edits,     \* turn_edits, oldest first: before and after text
  seg,       \* segments: turn ids, the texts summarised, the tags
  fact,      \* facts of a segment: trust state and the texts behind them
  op,        \* record_edit_operations
  job,       \* the rebuild or compaction under way
  stamp,     \* segments and facts that bear the lease's operation id
  dead,      \* the lease holder died and nobody has taken over yet
  faults,    \* faults so far
  replay,    \* a reconcile call between its two reads
  tainted    \* history: segments and facts overtaken by an edit or a rebuild,
             \* withheld facts that UpdateTrust serves again, and segments
             \* whose withheld facts a placeholder's rebuild kept

recordVars == <<text, tags, packed, used, edits>>
derived == <<seg, fact, stamp, tainted>>
vars == <<text, tags, packed, used, edits, seg, fact, op, job, stamp, dead,
          faults, replay, tainted>>

NoSeg == [ids |-> {}, texts |-> {}, tags |-> {}]
NoFact == [state |-> "none", texts |-> {}]
None == [segs |-> {}, facts |-> {}]
Untainted == [segs |-> {}, facts |-> {}, kept |-> {}]
NoEdit == [status |-> "unused", queue |-> [r \in Ref |-> {}], done |-> {},
           failed |-> {}, retag |-> {}, forgotten |-> {}]
Completed == [NoEdit EXCEPT !.status = "completed"]  \* the rest is not read again
Idle == [by |-> "none", pc |-> "idle", op |-> 0, ref |-> {}, ids |-> {}, mine |-> {},
         texts |-> {}, tags |-> {}, todo |-> {}, stale |-> FALSE]
NoReplay == [msg |-> {}, existing |-> {}]

Without(refs) == [f \in DOMAIN tainted |-> tainted[f] \ refs]

Live == {i \in RowId : text[i] # Gone}
Queue(o) == {r \in Ref : op[o].queue[r] # {}}
Active(o) == op[o].status \in {"pending", "running"}

\* Segments that still wait for a rebuild.
Waiting == UNION {Queue(o) \ op[o].done : o \in {x \in OpId : op[x].status # "completed"}}

\* What messages(ids) gives a summary: the texts and the tags of stored rows.
TextsOf(ids) == {text[i] : i \in ids}
TagsOf(ids) == UNION {tags[i] : i \in ids}

-----------------------------------------------------------------------------
(* The edits: one transaction each.                                        *)

\* _segments_holding
_segments_holding(ids, topics) ==
  {r \in Ref : seg[r].ids \cap ids # {} \/ seg[r].tags \cap topics # {}}

\* _record_edit_lock refuses while another edit is being processed.
_record_edit_lock == \A o \in OpId : ~Active(o)

\* A compaction that has read a turn before the edit writes what it read, and
\* one whose segment the edit queues writes into a segment that waits.
Overtaken(ids, held) ==
  [job EXCEPT !.stale = @ \/ /\ job.pc \in {"stub", "seg", "facts"}
                             /\ job.ids \cap ids # {} \/ job.ref \cap held # {}]

\* Mutant of _open_record_edit: the facts stay as they are until the rebuild.
_open_record_edit_KeepsFacts(held, gone, retag, topics) ==
  /\ fact' = [r \in Ref |-> IF r \in gone THEN NoFact ELSE fact[r]]
  /\ \E o \in OpId :
       /\ op[o].status = "unused" /\ \A p \in 1..(o - 1) : op[p].status # "unused"
       /\ op' = [op EXCEPT ![o] =
            IF held = {} /\ retag = {} THEN Completed
            ELSE [NoEdit EXCEPT
                    !.status = "pending", !.retag = retag, !.forgotten = topics,
                    !.queue = [r \in Ref |-> IF r \in held THEN seg[r].ids ELSE {}]]]

\* _open_record_edit: held are the segments to rebuild, gone those whose rows
\* the edit itself deletes.
_open_record_edit(held, gone, retag, topics) ==
  /\ fact' = [r \in Ref |->
       IF r \in gone THEN NoFact
       ELSE IF r \in held /\ fact[r].state = "served"
            THEN [fact[r] EXCEPT !.state = "retracted"] ELSE fact[r]]
  /\ \E o \in OpId :
       /\ op[o].status = "unused" /\ \A p \in 1..(o - 1) : op[p].status # "unused"
       /\ op' = [op EXCEPT ![o] =
            IF held = {} /\ retag = {} THEN Completed
            ELSE [NoEdit EXCEPT
                    !.status = "pending", !.retag = retag, !.forgotten = topics,
                    !.queue = [r \in Ref |-> IF r \in held THEN seg[r].ids ELSE {}]]]

Audit(before, after) == [before |-> before, after |-> after]

edit_canonical_turn(i, v) ==
  /\ _record_edit_lock /\ i \in Live /\ v # text[i][2]
  /\ text' = [text EXCEPT ![i] = <<@[1], v>>]
  /\ edits' = Append(edits, Audit(text[i], <<text[i][1], v>>))
  /\ _open_record_edit(_segments_holding({i}, {}), {}, {i}, {})
  /\ job' = Overtaken({i}, _segments_holding({i}, {}))
  /\ UNCHANGED <<tags, packed, used, seg, stamp, dead, faults, replay, tainted>>

remove_canonical_turn(i) ==
  /\ _record_edit_lock /\ i \in Live
  /\ text' = [text EXCEPT ![i] = Gone]
  /\ tags' = [tags EXCEPT ![i] = {}] /\ packed' = packed \ {i}
  /\ edits' = Append(edits, Audit(text[i], Gone))
  /\ _open_record_edit(_segments_holding({i}, {}), {}, {}, {})
  /\ job' = Overtaken({i}, _segments_holding({i}, {}))
  /\ UNCHANGED <<used, seg, stamp, dead, faults, replay, tainted>>

\* forget_topic and forget_topic_records: resolve_topic finds the topic among
\* the tags of the segments.  Segments whose primary tag is the topic go now;
\* which tag is primary is not kept, except that a segment with one tag has it.
forget_topic_records(t) ==
  LET touched == {i \in Live : t \in tags[i]}
      removed == {i \in touched : tags[i] = {t}}
      held == _segments_holding(touched, {t})
  IN  /\ _record_edit_lock /\ \E r \in Ref : t \in seg[r].tags
      /\ \E gone \in SUBSET {r \in held : t \in seg[r].tags} :
           /\ \A r \in held : seg[r].tags = {t} => r \in gone
           /\ seg' = [r \in Ref |->
                IF r \in gone THEN NoSeg
                ELSE [seg[r] EXCEPT !.tags = @ \ {t}]]
           /\ _open_record_edit(held, gone, {}, {t})
           /\ tainted' = Without(gone)
      /\ text' = [i \in RowId |-> IF i \in removed THEN Gone ELSE text[i]]
      /\ tags' = [i \in RowId |-> tags[i] \ {t}]
      /\ packed' = packed \ removed
      /\ edits' = edits \o [k \in 1..Cardinality(removed) |->
                              Audit(text[SetToSeq(removed)[k]], Gone)]
      /\ job' = Overtaken(touched, held)
      /\ UNCHANGED <<used, stamp, dead, faults, replay>>

-----------------------------------------------------------------------------
(* The rebuild.  A run by "worker" holds the compaction lease, one by      *)
(* "cli" does not: an operator starts it while no run is under way or      *)
(* abandoned.                                                              *)

Fault == faults < MaxFault /\ faults' = faults + 1

\* The steps of a run at a segment.
AtSegment == {"stub", "seg", "facts", "trust", "verify", "done"}

\* _compact_and_store takes a placeholder to the passthrough.
FirstWrite(texts) == IF texts \in Stubs THEN "stub" ELSE "seg"

\* RecordEditor.process reads the operation and sets it running.  The pool
\* runs a pending edit; the command line also finishes an interrupted or a
\* failed one.  One process at a time works on an edit.
process(a, o) ==
  /\ job = Idle /\ ~dead
  /\ op[o].status \in (IF a = "worker" THEN {"pending"}
                       ELSE {"pending", "running", "failed"})
  /\ op' = [op EXCEPT ![o].status = "running"]
  /\ job' = [Idle EXCEPT !.by = a, !.pc = "retag", !.op = o,
                         !.todo = Queue(o) \ op[o].done]
  /\ UNCHANGED <<recordVars, derived, dead, faults, replay>>

\* retag_canonical_turns: new tags for an edited turn, or the old ones if the
\* generator falls back.
Retag ==
  LET o == job.op  ids == op[o].retag \cap Live
  IN  /\ job.pc = "retag"
      /\ \E new \in SUBSET Topic :
           /\ new # {} \/ ids = {}
           /\ \/ tags' = [i \in RowId |-> IF i \in ids THEN new ELSE tags[i]]
              \/ tags' = tags
      /\ op' = [op EXCEPT ![o].retag = {}]
      /\ job' = [job EXCEPT !.pc = "next"]
      /\ UNCHANGED <<text, packed, used, edits, derived, dead, faults, replay>>

\* rebuild_segment: the turns that were in the segment at the edit and are
\* still stored.  None left: the segment and its facts are deleted.
rebuild_segment(r) ==
  LET o == job.op  ids == op[o].queue[r] \cap Live
  IN  /\ job.pc = "next" /\ r \in job.todo
      /\ IF ids = {}
         THEN /\ seg' = [seg EXCEPT ![r] = NoSeg] /\ fact' = [fact EXCEPT ![r] = NoFact]
              /\ tainted' = Without({r})
              /\ job' = [job EXCEPT !.ref = {r}, !.pc = "done"]
         ELSE /\ job' = [job EXCEPT !.ref = {r}, !.pc = FirstWrite(TextsOf(ids)), !.ids = ids,
                                    !.texts = TextsOf(ids),
                                    !.tags = TagsOf(ids) \ op[o].forgotten]
              /\ UNCHANGED <<seg, fact, tainted>>
      /\ UNCHANGED <<recordVars, op, stamp, dead, faults, replay>>

\* Each segment is its own try: a failure is recorded and the loop goes on.
SegmentFails ==
  LET o == job.op
  IN  /\ Fault /\ job.op # 0 /\ job.pc \in AtSegment
      /\ op' = [op EXCEPT ![o].failed = @ \cup job.ref]
      /\ job' = [job EXCEPT !.pc = "next", !.todo = @ \ job.ref,
                            !.ref = {}, !.ids = {}, !.texts = {}, !.tags = {}]
      /\ UNCHANGED <<recordVars, derived, dead, replay>>

SegmentDone ==
  LET o == job.op
  IN  /\ job.pc = "done" /\ job.op # 0
      /\ op' = [op EXCEPT ![o].done = @ \cup job.ref, ![o].failed = @ \ job.ref]
      /\ job' = [job EXCEPT !.pc = "next", !.todo = @ \ job.ref,
                            !.ref = {}, !.ids = {}, !.texts = {}, !.tags = {}]
      /\ UNCHANGED <<recordVars, derived, dead, faults, replay>>

Release == IF job.by = "worker" THEN None ELSE stamp

\* Mutant of Finish: the status does not look at the failures recorded.
Finish_IgnoresFailed ==
  LET o == job.op
  IN  /\ job.pc \in {"retag", "next"} /\ job.op # 0
      /\ \/ /\ job.pc = "next" /\ job.todo = {}
            /\ op' = [op EXCEPT ![o] = Completed]
            /\ faults' = faults
         \/ /\ Fault
            /\ op' = [op EXCEPT ![o].status = "failed"]
      /\ job' = Idle
      /\ stamp' = Release
      /\ UNCHANGED <<recordVars, seg, fact, tainted, dead, replay>>

\* The end of process; an exception outside a segment's own try ends it too.
Finish ==
  LET o == job.op
  IN  /\ job.pc \in {"retag", "next"} /\ job.op # 0
      /\ \/ /\ job.pc = "next" /\ job.todo = {}
            /\ op' = [op EXCEPT ![o] =
                        IF op[o].failed # {} THEN [@ EXCEPT !.status = "failed"] ELSE Completed]
            /\ faults' = faults
         \/ /\ Fault
            /\ op' = [op EXCEPT ![o].status = "failed"]
      /\ job' = Idle
      /\ stamp' = Release
      /\ UNCHANGED <<recordVars, seg, fact, tainted, dead, replay>>

-----------------------------------------------------------------------------
(* Compaction under the lease, and the writes it shares with the rebuild.  *)

FreshRef(r) == seg[r] = NoSeg /\ fact[r] = NoFact /\ \A o \in OpId : r \notin Queue(o)

\* A stored segment qualifies for a merge if all its turns are still there
\* and it shares a tag.
MergeTarget(r, ids) ==
  Merge /\ seg[r].ids # {} /\ seg[r].ids \subseteq Live
    /\ seg[r].tags \cap TagsOf(ids) # {}

\* compact: some uncompacted turns, into a new segment or, unless they are a
\* placeholder, merged into another.
CompactLoad(new, r) ==
  LET ids == new \cup seg[r].ids
  IN  /\ job = Idle /\ ~dead
      /\ new # {} /\ new \subseteq Live \ packed
      /\ FreshRef(r) \/ (MergeTarget(r, new) /\ TextsOf(new) \notin Stubs)
      /\ job' = [Idle EXCEPT !.by = "worker", !.pc = FirstWrite(TextsOf(new)), !.ref = {r}, !.ids = ids,
              !.mine = new, !.texts = TextsOf(ids), !.tags = TagsOf(ids) \cup seg[r].tags,
              !.stale = r \in Waiting]
      /\ UNCHANGED <<recordVars, derived, op, dead, faults, replay>>

\* The ref of the segment the run is at.
ThisRef == CHOOSE x \in job.ref : TRUE

\* store_segment / update_segment; the unguarded form leaves operation_id alone.
\* A rebuild works from the turn list its edit recorded, so it can take turns
\* out that a compaction merged in since: facts of those are overtaken.
StoreSegment(r) ==
  /\ seg' = [seg EXCEPT ![r] = [ids |-> job.ids, texts |-> job.texts, tags |-> job.tags]]
  /\ stamp' = IF job.by = "worker" THEN [stamp EXCEPT !.segs = @ \cup {r}] ELSE stamp

Overtakes(r) ==
  [tainted EXCEPT !.segs = IF job.stale THEN @ \cup {r} ELSE @ \ {r},
                  !.facts = IF seg[r].ids \cap Live \subseteq job.ids THEN @ ELSE @ \cup {r}]

store_segment ==
  /\ job.pc = "seg"
  /\ StoreSegment(ThisRef)
  /\ tainted' = Overtakes(ThisRef)
  /\ job' = [job EXCEPT !.pc = "facts"]
  /\ UNCHANGED <<recordVars, fact, op, dead, faults, replay>>

\* The run leaves the segment.
Left(pc) == [job EXCEPT !.pc = pc, !.ids = {}, !.texts = {}, !.tags = {}, !.stale = FALSE]

\* The stub passthrough: the placeholder is stored as its own summary, and no
\* facts are replaced, whether the segment has any or not.
passthrough_stub ==
  /\ job.pc = "stub"
  /\ StoreSegment(ThisRef)
  /\ tainted' = [Overtakes(ThisRef) EXCEPT
                   !.kept = IF fact[ThisRef].state = "retracted"
                            THEN @ \cup {ThisRef} ELSE @ \ {ThisRef}]
  /\ job' = Left("done")
  /\ UNCHANGED <<recordVars, fact, op, dead, faults, replay>>

\* replace_facts_for_segment: the facts of the summary, or none.
replace_facts_for_segment ==
  LET r == ThisRef
  IN  /\ job.pc = "facts"
      /\ \E inserted \in BOOLEAN :
           /\ fact' = [fact EXCEPT ![r] =
                IF inserted THEN [state |-> "served", texts |-> job.texts] ELSE NoFact]
           /\ stamp' = [stamp EXCEPT !.facts =
                IF inserted /\ job.by = "worker" THEN @ \cup {r} ELSE @ \ {r}]
           /\ job' = Left(IF inserted THEN "trust" ELSE "done")
      /\ tainted' = [tainted EXCEPT !.facts = IF job.stale THEN @ \cup {r} ELSE @ \ {r},
                                    !.kept = @ \ {r}]
      /\ UNCHANGED <<recordVars, seg, op, dead, faults, replay>>

\* The UPDATE of refresh_fact_trust is by id and looks at no state.
Trusted(r) == [fact EXCEPT ![r].state = IF @ = "none" THEN @ ELSE "served"]

\* An UPDATE is due: the facts' source turns are there and prove them.
Provable(r) == seg[r].ids # {} /\ seg[r].ids \subseteq Live

\* refresh_fact_trust, a transaction of its own: it selects the facts that are
\* not retracted and updates those whose state their sources change.  On Postgres
\* an edit can commit between the two.
refresh_fact_trust ==
  /\ job.pc = "trust"
  /\ \/ fact' = fact /\ job' = [job EXCEPT !.pc = "done"]
     \/ /\ fact[ThisRef].state = "served" /\ Provable(ThisRef)
        /\ IF Serial THEN fact' = Trusted(ThisRef) /\ job' = [job EXCEPT !.pc = "done"]
                     ELSE fact' = fact /\ job' = [job EXCEPT !.pc = "verify"]
  /\ UNCHANGED <<recordVars, seg, stamp, tainted, op, dead, faults, replay>>

\* Facts that an edit has withheld since they were selected are served again.
UpdateTrust ==
  /\ job.pc = "verify"
  /\ fact' = Trusted(ThisRef)
  /\ tainted' = [tainted EXCEPT !.facts =
       IF fact[ThisRef].state = "retracted" THEN @ \cup {ThisRef} ELSE @]
  /\ job' = [job EXCEPT !.pc = "done"]
  /\ UNCHANGED <<recordVars, seg, stamp, op, dead, faults, replay>>

\* Mutant of CompactEnd: turns removed meanwhile are marked as well.
CompactEnd_MarksRemoved ==
  /\ job.pc = "done" /\ job.op = 0
  /\ packed' = packed \cup job.mine
  /\ job' = Idle
  /\ stamp' = None
  /\ UNCHANGED <<text, tags, used, edits, seg, fact, tainted, op, dead, faults, replay>>

\* mark_canonical_turns_compacted and the exit.
CompactEnd ==
  /\ job.pc = "done" /\ job.op = 0
  /\ packed' = packed \cup (job.mine \cap Live)
  /\ job' = Idle
  /\ stamp' = None
  /\ UNCHANGED <<text, tags, used, edits, seg, fact, tainted, op, dead, faults, replay>>

\* compact raises: the run ends with what it has written and marks nothing.
CompactFails ==
  /\ Fault /\ job.op = 0 /\ job.pc \in AtSegment
  /\ job' = Idle
  /\ stamp' = None
  /\ UNCHANGED <<recordVars, seg, fact, tainted, op, dead, replay>>

\* A process dies; the lease holder's operation row stays running.
Die ==
  /\ Fault /\ job # Idle
  /\ job' = Idle
  /\ dead' = (dead \/ job.by = "worker")
  /\ UNCHANGED <<recordVars, derived, op, replay>>

\* cleanup_abandoned_compaction deletes by operation id.
cleanup_abandoned_compaction ==
  /\ dead /\ dead' = FALSE
  /\ seg' = [r \in Ref |-> IF r \in stamp.segs THEN NoSeg ELSE seg[r]]
  /\ fact' = [r \in Ref |-> IF r \in stamp.facts THEN NoFact ELSE fact[r]]
  /\ stamp' = None
  /\ tainted' = [tainted EXCEPT !.facts = @ \cup (stamp.segs \ stamp.facts)]
  /\ UNCHANGED <<recordVars, op, job, faults, replay>>

-----------------------------------------------------------------------------
(* The host: live messages and replayed history.                           *)

NewRow(t) ==
  /\ used < MaxRow /\ used' = used + 1
  /\ text' = [text EXCEPT ![used'] = t]
  /\ \E new \in SUBSET Topic \ {{}} : tags' = [tags EXCEPT ![used'] = new]

\* ingest_single: a live message that repeats removed text is recorded; one
\* that repeats a stored text is left to IngestReconciler.
ingest_single(m) ==
  /\ replay = NoReplay /\ Original(m) \notin TextsOf(Live)
  /\ NewRow(Original(m))
  /\ UNCHANGED <<packed, edits, derived, op, job, dead, faults, replay>>

\* get_retired_turns: the latest edit away from a text, then the chain of
\* edits to its end; a chain that comes back to its start retires nothing.
retired ==
  [t \in {edits[k].before : k \in DOMAIN edits} |->
     LET last == CHOOSE k \in DOMAIN edits :
                   /\ edits[k].before = t
                   /\ \A j \in DOMAIN edits : edits[j].before = t => j <= k
     IN  edits[last].after]

\* Mutant of get_retired_turns: only the first edit is followed.
get_retired_turns_OneHop(t) == IF t \in DOMAIN retired THEN retired[t] ELSE t

get_retired_turns(t) ==
  IF t \notin DOMAIN retired THEN t
  ELSE LET walk[n \in 0..Len(edits)] ==
             IF n = 0 THEN [seen |-> {t}, new |-> retired[t]]
             ELSE LET w == walk[n - 1]
                  IN  IF w.new \in DOMAIN retired /\ w.new \notin w.seen
                      THEN [seen |-> w.seen \cup {w.new}, new |-> retired[w.new]]
                      ELSE w
       IN  walk[Len(edits)].new

\* ingest_prepared_turns reads the stored rows, then, in _apply_record_edits,
\* the edits; the merge lock keeps other calls out, not the edits.
ReplayLoad(m) ==
  /\ replay = NoReplay
  /\ replay' = [msg |-> {m}, existing |-> TextsOf(Live)]
  /\ UNCHANGED <<recordVars, derived, op, job, dead, faults>>

_apply_record_edits ==
  /\ replay # NoReplay
  /\ \E m \in replay.msg :
       LET t == get_retired_turns(Original(m))
       IN  IF t = Gone \/ t \in replay.existing
           THEN UNCHANGED <<text, tags, used>>
           ELSE NewRow(t)
  /\ replay' = NoReplay
  /\ UNCHANGED <<packed, edits, derived, op, job, dead, faults>>

-----------------------------------------------------------------------------
Init ==
  /\ text = [i \in RowId |-> Gone] /\ tags = [i \in RowId |-> {}]
  /\ packed = {} /\ used = 0 /\ edits = <<>>
  /\ seg = [r \in Ref |-> NoSeg] /\ fact = [r \in Ref |-> NoFact]
  /\ op = [o \in OpId |-> NoEdit]
  /\ job = Idle /\ stamp = None /\ dead = FALSE /\ faults = 0 /\ replay = NoReplay
  /\ tainted = Untainted

Admin ==
  \/ \E i \in RowId : remove_canonical_turn(i)
  \/ \E i \in RowId, v \in Version : edit_canonical_turn(i, v)
  \/ \E t \in Topic : forget_topic_records(t)

Rebuild ==
  \/ \E a \in {"worker", "cli"}, o \in OpId : process(a, o)
  \/ Retag \/ SegmentFails \/ SegmentDone \/ Finish
  \/ \E r \in Ref : rebuild_segment(r)
  \/ store_segment \/ passthrough_stub \/ replace_facts_for_segment
  \/ refresh_fact_trust \/ UpdateTrust \/ Die

Next ==
  \/ Admin
  \/ Rebuild
  \/ \E new \in SUBSET RowId, r \in Ref : CompactLoad(new, r)
  \/ CompactEnd \/ CompactFails \/ cleanup_abandoned_compaction
  \/ \E m \in Msg : ingest_single(m) \/ ReplayLoad(m)
  \/ _apply_record_edits

Spec == Init /\ [][Next]_vars

-----------------------------------------------------------------------------
(* Properties.                                                             *)

\* The types of the record, of what derives from it and of the runs.
EditTypeOK ==
  /\ text \in [RowId -> Text \cup {Gone}] /\ tags \in [RowId -> SUBSET Topic]
  /\ packed \subseteq Live /\ used \in 0..MaxRow
  /\ edits \in Seq([before : Text, after : Text \cup {Gone}])
  /\ seg \in [Ref -> [ids : SUBSET RowId, texts : SUBSET Text, tags : SUBSET Topic]]
  /\ fact \in [Ref -> [state : {"none", "served", "retracted"}, texts : SUBSET Text]]
  /\ \A o \in OpId : op[o].failed \subseteq Queue(o) /\ op[o].done \subseteq Queue(o)
  /\ tainted \in [segs : SUBSET Ref, facts : SUBSET Ref, kept : SUBSET Ref] /\ dead \in BOOLEAN

\* An edit brought back a text that an earlier one had replaced.
Undone == \E j, k \in DOMAIN edits : j < k /\ edits[k].after = edits[j].before

\* A host that replays its history brings back neither a removed turn nor the
\* text before an edit, however long the chain of edits and whatever edits
\* come between the reads of the replay ("replay neither restores a removed
\* turn nor appends the original text beside its edit").  Undo exempts: a
\* redo after it is not seen by the walk.
ReplayRestoresNothing ==
  [][ replay # NoReplay /\ used' # used /\ ~Undone
        => \A k \in DOMAIN edits : edits[k].before # text'[used'] ]_vars

\* No fact is served that rests on a text the record no longer has: facts are
\* withheld from the edit to the rebuild, whoever dies or fails in between.
\* tainted exempts what a compaction writes that had read the turn before, the
\* old facts of a segment that a rebuild has taken turns out of and, without
\* Serial, what UpdateTrust has served again (RetractedStaysRetracted is about
\* those).
ServedFactsSupported ==
  \A r \in Ref \ tainted.facts :
    seg[r] # NoSeg /\ fact[r].state = "served" => fact[r].texts \subseteq TextsOf(Live)

\* "A retracted fact is left retracted: only the rebuild that replaces it clears
\* it": whatever is under way, withheld facts are served again only by the step
\* that replaces the facts of their segment.  With Serial this holds, without it
\* UpdateTrust breaks it.
RetractedStaysRetracted ==
  [][ \A r \in Ref : fact[r].state = "retracted" /\ fact'[r].state = "served"
                       => job.pc = "facts" /\ r \in job.ref ]_vars

\* Once no edit waits for it a segment is what its turns give: their present
\* texts, and facts that are not withheld, unless it was rebuilt as a placeholder.
DerivedFollowsRecord ==
  \A r \in Ref \ Waiting :
    seg[r] # NoSeg =>
      /\ r \notin tainted.segs =>
           /\ seg[r].ids \subseteq Live
           /\ seg[r].texts = TextsOf(seg[r].ids)
      /\ fact[r].state = "retracted" => r \in tainted.kept

\* "The summary, facts, chunk embeddings and tags are regenerated by the same
\* path compaction uses": a segment no edit waits for has no withheld facts left.
RebuiltFactsReplaced ==
  \A r \in Ref \ Waiting : seg[r] # NoSeg => fact[r].state # "retracted"
=============================================================================

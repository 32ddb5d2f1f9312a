-------------------------- MODULE IngestReconciler --------------------------
(***************************************************************************)
(* How redelivered, overlapping and late payloads are merged into the      *)
(* stored transcript (canonical_turns) of one conversation: alignment by   *)
(* content hash over a persisted anchor index, sort keys between           *)
(* neighbours and the rebalancing of an exhausted gap, turn groups, the    *)
(* completion of a pair whose user half is stored, and the rollback of a   *)
(* batch that a resurrection overtook.                                     *)
(*                                                                         *)
(* The reconcile lock admits one call at a time.  Under it SQLite keeps    *)
(* one transaction; Postgres commits each write on a pooled connection, so *)
(* what a dying worker wrote stays.  A message stands for its content: two *)
(* messages are equal iff their turn hashes are.  Keys are integers, with  *)
(* Spacing for 1000.0 and 1 for _MIN_SORT_KEY_STEP.                        *)
(***************************************************************************)
EXTENDS Integers, Sequences, FiniteSets, FiniteSetsExt

CONSTANTS
  Message,        \* contents of one physical row
  UserMessage,    \* those of role user; the others are the assistant's
  Actor,          \* sender_actor_id values
  NoActor,        \* the empty sender_actor_id
  Payload,        \* batches a host may deliver
  Pair,           \* completed <<user, assistant>> turns
  History,        \* the transcript as the host holds it
  WindowSizes,    \* _ANCHOR_WINDOW_SIZES
  Spacing,        \* distance of appended keys
  RecentRows,     \* rows the resend check of ingest_single looks at
  Transactional,  \* TRUE: SQLite; FALSE: Postgres
  MayCrash,       \* TRUE: a call may die
  MayMiss,        \* TRUE: the refresh of groups or anchors may fail
  Tagging,        \* TRUE: the tagger runs meanwhile
  MaxTurn,        \* bound on the rows ever written
  MaxBatch,       \* bound on the calls
  MaxEpoch        \* bound on resurrections

ASSUME ReconcilerAssumption ==
  /\ UserMessage \subseteq Message /\ NoActor \notin Actor
  /\ Payload \subseteq Seq(Message) /\ History \in Seq(Message)
  /\ Pair \subseteq UserMessage \X (Message \ UserMessage)
  /\ WindowSizes \subseteq Nat \ 0..2 /\ WindowSizes # {}
  /\ Spacing \in Nat \ {0} /\ RecentRows \in Nat
  /\ Transactional \in BOOLEAN /\ MayCrash \in BOOLEAN /\ MayMiss \in BOOLEAN
  /\ Tagging \in BOOLEAN
  /\ MaxTurn \in Nat /\ MaxBatch \in Nat /\ MaxEpoch \in Nat \ {0}

VARIABLES
  rows,     \* canonical_turns of the conversation, by sort_key
  anchors,  \* canonical_turn_anchors
  epoch,    \* conversations.lifecycle_epoch
  pc,       \* where the call that holds the reconcile lock stands
  job,      \* its locals
  turns,    \* ids used so far
  batches,  \* calls so far
  raced,    \* batches that a resurrection overtook, unless their worker died
  last,     \* the payload of the last call that ended well
  inOrder   \* the host has delivered what InOrderBatch and InOrderPair allow

jobVars == <<pc, job>>
ghosts  == <<raced, last, inOrder>>
vars    == <<rows, anchors, epoch, jobVars, turns, batches, ghosts>>

Hashes(s)     == [i \in DOMAIN s |-> s[i].hash]
Window(s, i, n) == SubSeq(s, i, i + n - 1)
Ids(s)        == {s[i].id : i \in DOMAIN s}

\* The rows of s at the positions in keep, in their order.
Nth(keep, k)  == CHOOSE i \in keep : Cardinality({j \in keep : j <= i}) = k
Select(s, keep) == [k \in 1..Cardinality(keep) |-> s[Nth(keep, k)]]

NoJob == [kind |-> "none", payload |-> <<>>, batch |-> 0, life |-> 0,
          todo |-> <<>>, wrote |-> FALSE, undo |-> <<>>]

-----------------------------------------------------------------------------
(* Alignment of a payload with the stored rows.                            *)

NoAlignment == [stored |-> 0, incoming |-> 0, len |-> 0,
                mode |-> "no_overlap_append"]

_alignment_mode(e, i, n, inc) ==
  CASE n = Len(inc)                           -> "exact_resend"
    [] n # Len(inc) /\ e = 1 /\ i = 1         -> "tail_append"
    [] e = 1 /\ i > 1 /\ i + n - 1 = Len(inc) -> "prefix_widening"
    [] OTHER                                  -> "interior_overlap"

Aligned(e, i, n, inc) ==
  [stored |-> e, incoming |-> i, len |-> n,
   mode |-> _alignment_mode(e, i, n, inc)]

\* The stored transcript is a prefix or a suffix of the payload.
Whole(ex, inc) ==
  IF Len(ex) > Len(inc) THEN NoAlignment
  ELSE IF Window(inc, 1, Len(ex)) = ex THEN Aligned(1, 1, Len(ex), inc)
  ELSE LET i == Len(inc) - Len(ex) + 1
       IN  IF Window(inc, i, Len(ex)) = ex THEN Aligned(1, i, Len(ex), inc)
           ELSE NoAlignment

\* Longest overlap first, then the earliest in the payload, then in the store.
Short(ex, inc) ==
  LET Hit(n) == {p \in (1..Len(ex) - n + 1) \X (1..Len(inc) - n + 1) :
                   Window(ex, p[1], n) = Window(inc, p[2], n)}
      lens   == {n \in 1..Min({Len(ex), Len(inc)}) : Hit(n) # {}}
      n      == Max(lens)
      i      == Min({p[2] : p \in Hit(n)})
      e      == Min({p[1] : p \in {q \in Hit(n) : q[2] = i}})
  IN  IF lens = {} THEN NoAlignment ELSE Aligned(e, i, n, inc)

\* get_canonical_turn_anchor_positions: stored anchors joined with the ordinals
\* of their rows; build_anchor_index when none is stored for the size.
AnchorPositions(w, s, anc) ==
  LET stored == {<<a.digest, i>> : a \in {b \in anc : b.size = w}, i \in DOMAIN s}
      joined == {p \in stored : \E a \in anc :
                   a.size = w /\ a.digest = p[1] /\ a.start = s[p[2]].id}
      built  == {<<Window(Hashes(s), i, w), i>> : i \in 1..Len(s) - w + 1}
  IN  IF joined # {} THEN joined ELSE built

\* An anchor hit widened to both sides.  The window itself is not compared.
Widen(e, i, w, ex, inc) ==
  LET Eq(k)  == /\ i + k \in DOMAIN inc /\ e + k \in DOMAIN ex
                /\ inc[i + k] = ex[e + k]
      left   == Max({l \in 0..i - 1 : \A k \in 1..l : Eq(-k)})
      right  == Max({r \in w..w + Len(inc) : \A k \in w..r - 1 : Eq(k)})
  IN  [stored |-> e - left, incoming |-> i - left, len |-> left + right]

\* Windows of the payload met at an anchor: <<incoming, stored, digest>>.
AnchorHits(w, s, anc, inc) ==
  {p \in {<<i, q[2], q[1]>> : i \in 1..Len(inc) - w + 1,
                              q \in AnchorPositions(w, s, anc)} :
     p[3] = Window(inc, p[1], w)}

\* Digests in the order of their first position in the payload, then incoming
\* and stored positions ascending; only a longer overlap replaces the best.
ByWindow(w, s, anc, inc) ==
  LET hits   == AnchorHits(w, s, anc, inc)
      First(p) == Min({i \in 1..p[1] : Window(inc, i, w) = p[3]})
      Before(p, q) == \/ First(p) < First(q)
                      \/ First(p) = First(q) /\ p[1] < q[1]
                      \/ p[1] = q[1] /\ p[2] < q[2]
      At(p)  == Widen(p[2], p[1], w, Hashes(s), inc)
      best   == CHOOSE p \in hits : \A q \in hits \ {p} :
                   \/ At(p).len > At(q).len
                   \/ At(p).len = At(q).len /\ Before(p, q)
  IN  IF hits = {} THEN NoAlignment
      ELSE Aligned(At(best).stored, At(best).incoming, At(best).len, inc)

_find_alignment(s, anc, inc, allowShort) ==
  LET ex    == Hashes(s)
      short == IF allowShort /\ Min({Len(ex), Len(inc)}) < 3
               THEN Short(ex, inc) ELSE NoAlignment
      hit   == {w \in WindowSizes : ByWindow(w, s, anc, inc).len > 0}
  IN  IF ex = <<>> \/ inc = <<>> THEN NoAlignment
      ELSE IF Whole(ex, inc).len > 0 THEN Whole(ex, inc)
      ELSE IF short.len > 0 THEN short
      ELSE IF hit = {} THEN NoAlignment
      ELSE ByWindow(Max(hit), s, anc, inc)

-----------------------------------------------------------------------------
(* Sort keys.  A place is named by its left neighbour l: 0 is before the   *)
(* first row, Len(s) after the last.                                       *)

\* _allocate_sort_keys with one bound, and between two.
KeysBelow(right, n) == [k \in 1..n |-> right - Spacing * n + Spacing * (k - 1)]
KeysAbove(left, n)  == [k \in 1..n |-> left + Spacing * k]
GapStep(left, right, n) == (right - left) \div (n + 1)
KeysBetween(left, right, n) ==
  [k \in 1..n |-> left + GapStep(left, right, n) * k]
\* Mutant of Fits: the step of a full gap is clamped instead of refused.
Fits_Clamped(left, right, n) == right > left

Fits(left, right, n) == GapStep(left, right, n) >= 1

\* shift_canonical_turn_sort_keys, and its mirror on the rows in memory.
shift_canonical_turn_sort_keys(s, from, delta) ==
  [i \in DOMAIN s |-> IF s[i].key >= from
                      THEN [s[i] EXCEPT !.key = @ + delta] ELSE s[i]]

\* _open_sort_key_gap: more than the spread of the keys that move.
GapDelta(s, right, n) == (s[Len(s)].key - right) + Spacing * (n + 1)

\* _allocate_bounded_sort_keys: the shift it makes first (0: none) and the keys.
_allocate_bounded_sort_keys(s, l, n) ==
  IF l = 0 THEN [delta |-> 0, keys |-> KeysBelow(s[1].key, n)]
  ELSE IF l = Len(s) THEN [delta |-> 0, keys |-> KeysAbove(s[l].key, n)]
  ELSE LET left == s[l].key  right == s[l + 1].key
           d    == IF Fits(left, right, n) THEN 0 ELSE GapDelta(s, right, n)
       IN  [delta |-> d, keys |-> KeysBetween(left, right + d, n)]

-----------------------------------------------------------------------------
(* The writes of a call, in their order.                                   *)

\* _prepare_message_row: a human actor only on the user half.
Prepared(m, actor, key, batch, id) ==
  [id |-> id, hash |-> m, key |-> key, batch |-> batch, group |-> -1,
   actor |-> IF m \in UserMessage THEN actor ELSE NoActor, tagged |-> FALSE]

WriteOps(msgs, keys, actor, batch, from) ==
  [k \in DOMAIN msgs |->
     [op |-> "write",
      row |-> Prepared(msgs[k], actor, keys[k], batch, from + k)]]

ShiftOp(from, delta) ==
  IF delta = 0 THEN <<>> ELSE <<[op |-> "shift", from |-> from, delta |-> delta]>>

\* New rows after the l-th row of s.
InsertOps(s, l, msgs, actor, batch, from) ==
  LET a == _allocate_bounded_sort_keys(s, l, Len(msgs))
  IN  IF msgs = <<>> THEN <<>>
      ELSE ShiftOp(IF l < Len(s) THEN s[l + 1].key ELSE 0, a.delta)
             \o WriteOps(msgs, a.keys, actor, batch, from)

\* The rows in memory after the shift of the prefix.
AfterPrefix(s, l, n) ==
  LET d == IF n = 0 THEN 0 ELSE _allocate_bounded_sort_keys(s, l, n).delta
  IN  IF d = 0 THEN s ELSE shift_canonical_turn_sort_keys(s, s[l + 1].key, d)

\* _upgrade_empty_actors of the overlap's user rows, a compare-and-set.
UpgradeOp(s, idx, actor, life) ==
  LET ids == {s[i].id : i \in {j \in idx : /\ s[j].actor = NoActor
                                           /\ s[j].hash \in UserMessage}}
  IN  IF actor = NoActor \/ ids = {} THEN <<>>
      ELSE <<[op |-> "actor", ids |-> ids, actor |-> actor, life |-> life]>>

\* Mutant of MergeOps: the suffix goes one row too far.
MergeOps_OffByOne(s, a, inc, actor, batch, life, from) ==
  LET prefix == SubSeq(inc, 1, a.incoming - 1)
      suffix == SubSeq(inc, a.incoming + a.len, Len(inc))
  IN  InsertOps(s, a.stored - 1, prefix, actor, batch, from)
        \o InsertOps(s, Min({a.stored + a.len, Len(s)}), suffix, actor, batch,
                     from + Len(prefix))

\* _ingest_prepared_turns_locked with an alignment: upgrades, prefix, suffix.
MergeOps(s, a, inc, actor, batch, life, from) ==
  LET prefix == SubSeq(inc, 1, a.incoming - 1)
      suffix == SubSeq(inc, a.incoming + a.len, Len(inc))
      s2     == AfterPrefix(s, a.stored - 1, Len(prefix))
  IN  UpgradeOp(s, a.stored..a.stored + a.len - 1, actor, life)
        \o InsertOps(s, a.stored - 1, prefix, actor, batch, from)
        \o InsertOps(s2, a.stored + a.len - 1, suffix, actor, batch,
                     from + Len(prefix))

\* Without one: append, unless the payload is a fragment of a stored talk.
Fragment(s, inc) ==
  s # <<>> /\ ~( /\ \E i \in DOMAIN inc : inc[i] \in UserMessage
                 /\ \E i \in DOMAIN inc : inc[i] \notin UserMessage )

AppendOps(s, inc, actor, batch, from) ==
  WriteOps(inc, KeysAbove(IF s = <<>> THEN 0 ELSE s[Len(s)].key, Len(inc)),
           actor, batch, from)

PreparedOps(s, inc, actor, batch, life, from, allowShort) ==
  LET a == _find_alignment(s, anchors, inc, allowShort)
  IN  IF a.len > 0 THEN MergeOps(s, a, inc, actor, batch, life, from)
      ELSE IF Fragment(s, inc) THEN <<>>
      ELSE AppendOps(s, inc, actor, batch, from)

\* _preserve_existing_enrichment on the row an exact resend rewrites: group and
\* actor survive; tagged_at and source_batch_id are those of the prepared row.
Rewritten(r, actor) ==
  [r EXCEPT !.batch = 0, !.tagged = FALSE,
            !.actor = IF @ # NoActor \/ r.hash \notin UserMessage THEN @ ELSE actor]

-----------------------------------------------------------------------------
(* The store.                                                              *)

\* save_canonical_turn: an upsert by id; the row takes its place by key.
save_canonical_turn(s, r) ==
  LET t == Select(s, {i \in DOMAIN s : s[i].id # r.id})
      n == Cardinality({i \in DOMAIN t : t[i].key < r.key})
  IN  SubSeq(t, 1, n) \o <<r>> \o SubSeq(t, n + 1, Len(t))

Collides(s, r) == \E i \in DOMAIN s : s[i].key = r.key /\ s[i].id # r.id

\* Mutant of recompute_canonical_turn_groups: the pending user row is not closed.
recompute_canonical_turn_groups_Open(s) ==
  [i \in DOMAIN s |-> [s[i] EXCEPT !.group =
     Cardinality({j \in 1..i : s[j].hash \in UserMessage})]]

\* recompute_canonical_turn_groups.
recompute_canonical_turn_groups(s) ==
  LET g[i \in 0..Len(s)] ==
        IF i = 0 THEN [current |-> -1, pending |-> -1]
        ELSE LET c == g[i - 1].current  p == g[i - 1].pending
             IN  IF s[i].hash \in UserMessage
                 THEN [current |-> c + 1, pending |-> c + 1]
                 ELSE IF p >= 0 THEN [current |-> c, pending |-> -1]
                 ELSE [current |-> c + 1, pending |-> -1]
      Group(i) == IF s[i].hash \notin UserMessage /\ g[i - 1].pending >= 0
                  THEN g[i - 1].pending ELSE g[i].current
  IN  [i \in DOMAIN s |-> [s[i] EXCEPT !.group = Group(i)]]

\* partition_canonical_rows_into_logical_turns: a user row and the assistant row
\* that follows it directly, unless their group numbers differ; others alone.
partition_canonical_rows_into_logical_turns(s) ==
  LET Joins(i) == /\ i \in 2..Len(s)
                  /\ s[i].hash \notin UserMessage /\ s[i - 1].hash \in UserMessage
                  /\ \/ s[i].group < 0 \/ s[i - 1].group < 0
                     \/ s[i].group = s[i - 1].group
  IN  {{j \in {i, i + 1} : j = i \/ Joins(j)} : i \in {k \in DOMAIN s : ~Joins(k)}}

\* _backfill_groups_if_legacy, when the rows are loaded.
Loaded(s) == IF \A i \in DOMAIN s : s[i].group < 0
             THEN recompute_canonical_turn_groups(s) ELSE s

\* Mutant of _build_anchor_rows: the last window is left out.
_build_anchor_rows_Short(s) ==
  UNION {{[size |-> w, digest |-> Window(Hashes(s), i, w), start |-> s[i].id]
            : i \in 1..Len(s) - w} : w \in WindowSizes}

_build_anchor_rows(s) ==
  UNION {{[size |-> w, digest |-> Window(Hashes(s), i, w), start |-> s[i].id]
            : i \in 1..Len(s) - w + 1} : w \in WindowSizes}

-----------------------------------------------------------------------------
(* Calls.                                                                  *)

\* In what the host delivers in order, a batch is a window of its history that
\* shares a full anchor window with the stored rows, and a completion belongs
\* to the last stored turn or the next one, or repeats a recent pair.
Recent(s) == SubSeq(s, Len(s) - Min({RecentRows, Len(s)}) + 1, Len(s))
IsWindow(p) == \E i, j \in DOMAIN History : p = SubSeq(History, i, j)
Occurs(p, s) == \E i \in 1..Len(s) - Len(p) + 1 : Window(s, i, Len(p)) = p

Shared(p, s) == Cardinality({p[i] : i \in DOMAIN p}
                              \cap {s[i].hash : i \in DOMAIN s})
InOrderBatch(p, s) ==
  IsWindow(p) /\ Shared(p, s) >= Min({Min(WindowSizes), Len(p), Len(s)})
InOrderPair(p, s) ==
  \/ Occurs(p, Hashes(Recent(s)))
  \/ IsWindow(p) /\ s = <<>>
  \/ s # <<>> /\ IsWindow(<<s[Len(s)].hash>> \o p)
  \/ s # <<>> /\ s[Len(s)].hash = p[1] /\ IsWindow(p)

\* The call takes the reconcile lock, verifies the epoch, loads the rows and
\* plans its writes from them.
Begin(kind, p, s, ops, next) ==
  /\ batches < MaxBatch
  /\ \A k \in DOMAIN ops : ops[k].op = "write" => ops[k].row.id <= MaxTurn
  /\ rows' = s
  /\ batches' = batches + 1
  /\ turns' = turns + Cardinality({k \in DOMAIN ops :
                       ops[k].op = "write" /\ ops[k].row.id > turns})
  /\ job' = [kind |-> kind, payload |-> p, batch |-> batches + 1, life |-> epoch,
             todo |-> ops, wrote |-> \E k \in DOMAIN ops : ops[k].op = "write",
             undo |-> IF Transactional THEN <<rows, anchors>> ELSE <<>>]
  /\ pc' = next
  /\ UNCHANGED <<anchors, epoch, raced, last>>

Writes(ops) == IF ops = <<>> THEN "check" ELSE "write"

\* A stale anchor can name more rows than are stored: the call raises.
Sound(s, p) == LET a == _find_alignment(s, anchors, p, TRUE)
               IN  a.stored + a.len - 1 <= Len(s)

ingest_batch(p, actor) ==
  /\ pc = "idle"
  /\ LET s   == Loaded(rows)
         ops == PreparedOps(s, p, actor, batches + 1, epoch, turns, TRUE)
     IN  /\ Sound(s, p)
         /\ Begin("batch", p, s, ops, Writes(ops))
         /\ inOrder' = (inOrder /\ InOrderBatch(p, s))

\* The pair is among the recent rows, each seen in the last ten minutes: both
\* rows are written again, and the groups are left alone.
ResendPair(p, actor) ==
  /\ pc = "idle"
  /\ LET s == Loaded(rows)
         m == Len(s) - Len(Recent(s))
         at == {i \in m + 1..Len(s) - 1 : Window(Hashes(s), i, 2) = p}
     IN  /\ at # {}
         /\ Begin("resend", p, s,
                  [k \in 1..2 |-> [op |-> "write",
                     row |-> Rewritten(s[Min(at) + k - 1], actor)]], "write")
         /\ inOrder' = (inOrder /\ InOrderPair(p, s))

\* Mutant of ingest_single: the last row is not recognised as the user half.
ingest_single_NoTail(p, actor) ==
  /\ pc = "idle"
  /\ LET s == Loaded(rows)
         ops == PreparedOps(s, p, actor, batches + 1, 0, turns, FALSE)
     IN  /\ Begin("single", p, s, ops, Writes(ops))
         /\ inOrder' = (inOrder /\ ~Occurs(p, Hashes(Recent(s)))
                         /\ InOrderPair(p, s))

\* No recent copy, or one last seen earlier.  A pair whose user half is the
\* last row completes it; another is merged without short overlaps.
ingest_single(p, actor) ==
  /\ pc = "idle"
  /\ LET s == Loaded(rows)
         tail == s[Len(s)]
         recent == Occurs(p, Hashes(Recent(s)))
         ops == IF s # <<>> /\ tail.hash = p[1]
                THEN UpgradeOp(s, {Len(s)}, actor, epoch)
                       \o WriteOps(<<p[2]>>, KeysAbove(tail.key, 1), actor,
                                   batches + 1, turns)
                ELSE PreparedOps(s, p, actor, batches + 1, 0, turns, FALSE)
     IN  /\ Begin("single", p, s, ops, Writes(ops))
         /\ inOrder' = (inOrder /\ ~recent /\ InOrderPair(p, s))

Advance(next) == pc' = next /\ UNCHANGED <<job, turns, batches>>

\* One committed write: a shift, a compare-and-set of actors, or a row.  The
\* UNIQUE constraint would refuse a taken key: KeysNeverCollide.
Execute ==
  /\ pc = "write"
  /\ LET o    == Head(job.todo)
         rest == Tail(job.todo)
     IN  /\ o.op = "write" => ~Collides(rows, o.row)
         /\ rows' = CASE o.op = "shift" ->
                            shift_canonical_turn_sort_keys(rows, o.from, o.delta)
                      [] o.op = "actor" ->
                            [i \in DOMAIN rows |->
                               IF /\ rows[i].id \in o.ids
                                  /\ rows[i].actor = NoActor
                                  /\ o.life \in {0, epoch}
                               THEN [rows[i] EXCEPT !.actor = o.actor]
                               ELSE rows[i]]
                      [] o.op = "write" -> save_canonical_turn(rows, o.row)
         /\ job' = [job EXCEPT !.todo = rest]
         /\ pc' = IF rest # <<>> THEN "write"
                  ELSE IF ~job.wrote THEN "check"
                  ELSE IF job.kind = "resend" THEN "anchors" ELSE "groups"
  /\ UNCHANGED <<anchors, epoch, turns, batches, ghosts>>

\* recompute_groups; its failure is logged and swallowed.
Regroup ==
  /\ pc = "groups"
  /\ \/ rows' = recompute_canonical_turn_groups(rows)
     \/ MayMiss /\ rows' = rows
  /\ Advance("anchors")
  /\ UNCHANGED <<anchors, epoch, ghosts>>

\* _refresh_persisted_anchors: the rebuild and the delta store the same set.
_refresh_persisted_anchors ==
  /\ pc = "anchors"
  /\ \/ anchors' = _build_anchor_rows(rows)
     \/ MayMiss /\ job.kind = "batch" /\ anchors' = anchors
  /\ Advance("check")
  /\ UNCHANGED <<rows, epoch, ghosts>>

\* Mutants of Finish: no second look at the epoch; a rollback of every row.
Finish_NoCheck ==
  /\ pc = "check"
  /\ pc' = "idle" /\ job' = NoJob /\ last' = job.payload
  /\ UNCHANGED <<rows, anchors, epoch, turns, batches, raced, inOrder>>
Finish_DropAll ==
  /\ pc = "check"
  /\ pc' = "idle" /\ job' = NoJob /\ last' = job.payload
  /\ rows' = IF job.kind = "batch" /\ job.life # epoch THEN <<>> ELSE rows
  /\ UNCHANGED <<anchors, epoch, turns, batches, raced, inOrder>>

\* A batch compares the epoch again and deletes its own rows if it moved.
Finish ==
  /\ pc = "check"
  /\ LET stale == job.kind = "batch" /\ job.life # epoch
     IN  /\ rows' = IF stale
                    THEN Select(rows, {i \in DOMAIN rows : rows[i].batch # job.batch})
                    ELSE rows
         /\ last' = IF stale THEN <<>> ELSE job.payload
  /\ pc' = "idle" /\ job' = NoJob
  /\ UNCHANGED <<anchors, epoch, turns, batches, raced, inOrder>>

\* The worker dies: the lock goes with its connection.  SQLite undoes the call.
Crash ==
  /\ MayCrash /\ pc # "idle"
  /\ pc' = "idle" /\ job' = NoJob /\ last' = <<>> /\ raced' = raced \ {job.batch}
  /\ IF Transactional THEN rows' = job.undo[1] /\ anchors' = job.undo[2]
     ELSE UNCHANGED <<rows, anchors>>
  /\ UNCHANGED <<epoch, turns, batches, inOrder>>

\* increment_lifecycle_epoch_on_resurrect does not wait for the reconcile lock;
\* on SQLite it waits for the transaction.
Resurrect ==
  /\ epoch < MaxEpoch
  /\ Transactional => pc = "idle"
  /\ epoch' = epoch + 1
  /\ raced' = IF job.kind = "batch" THEN raced \cup {job.batch} ELSE raced
  /\ UNCHANGED <<rows, anchors, jobVars, turns, batches, last, inOrder>>

\* The tagger stamps what it finds untagged; it takes no reconcile lock.
Tag ==
  /\ Tagging /\ \E i \in DOMAIN rows : ~rows[i].tagged
  /\ Transactional => pc = "idle"
  /\ rows' = [i \in DOMAIN rows |-> [rows[i] EXCEPT !.tagged = TRUE]]
  /\ UNCHANGED <<anchors, epoch, jobVars, turns, batches, ghosts>>

Init ==
  /\ rows = <<>> /\ anchors = {} /\ epoch = 1
  /\ pc = "idle" /\ job = NoJob /\ turns = 0 /\ batches = 0
  /\ raced = {} /\ last = <<>> /\ inOrder = TRUE

Next ==
  \/ \E p \in Payload, a \in Actor \cup {NoActor} : ingest_batch(p, a)
  \/ \E p \in Pair, a \in Actor \cup {NoActor} :
        ResendPair(p, a) \/ ingest_single(p, a)
  \/ Execute \/ Regroup \/ _refresh_persisted_anchors \/ Finish
  \/ Crash \/ Resurrect \/ Tag

Spec == Init /\ [][Next]_vars

-----------------------------------------------------------------------------
(* Properties.                                                             *)

\* However often rows are inserted between the same neighbours, and whatever a
\* rebalance moves, keys stay strictly increasing and the next write is not
\* refused by UNIQUE (conversation_id, sort_key).
KeysNeverCollide ==
  /\ \A i, j \in DOMAIN rows : i < j => rows[i].key < rows[j].key
  /\ pc = "write" /\ Head(job.todo).op = "write"
       => ~Collides(rows, Head(job.todo).row)

\* A merged payload is stored as it was delivered: its messages are consecutive
\* rows, in their order, whatever was overlapped, inserted or moved for them.
PayloadStored ==
  pc = "idle" /\ ~Fragment(rows, last) => Occurs(last, Hashes(rows))

\* The same payload delivered again finds all of itself and writes nothing.
ResendWritesNothing ==
  pc = "idle" /\ last # <<>> /\ ~Fragment(rows, last)
    => LET a == _find_alignment(rows, anchors, last, TRUE)
       IN  a.len = Len(last) /\ a.stored + a.len - 1 <= Len(rows)

\* A host that delivers windows of its history in order, any of them again and
\* again, gets a stored transcript that is one window of that history: nothing
\* twice, nothing out of order, no hole.
TranscriptIsWindow ==
  inOrder /\ pc = "idle" /\ rows # <<>> => IsWindow(Hashes(rows))

\* What other connections see.
Committed == IF Transactional /\ pc # "idle" THEN job.undo[1] ELSE rows

\* The ids in keep and their contents, in the order of s.
Contents(s, keep) == LET t == Select(s, {i \in DOMAIN s : s[i].id \in keep})
                     IN  [i \in DOMAIN t |-> <<t[i].id, t[i].hash>>]

\* A redelivery disturbs nothing that is stored.  A row keeps its content and
\* its order relative to every other row, and only the rollback of its own
\* batch, or of the transaction, removes it; a stored actor is never replaced
\* or blanked, nor put on an assistant row; a batch never takes the tagger's
\* stamp off a row it finds again.
EarlierRowsKept ==
  [][ LET both == Ids(Committed) \cap Ids(Committed')
      IN  /\ Contents(Committed, both) = Contents(Committed', both)
          /\ \A i \in DOMAIN Committed : Committed[i].id \notin both
               => Committed[i].batch = job.batch /\ pc' = "idle"
          /\ \A k \in DOMAIN Committed' :
               /\ Committed'[k].actor # NoActor => Committed'[k].hash \in UserMessage
               /\ \A i \in DOMAIN Committed : Committed[i].id = Committed'[k].id =>
                    /\ Committed[i].actor # NoActor => Committed'[k].actor = Committed[i].actor
                    /\ Committed[i].tagged /\ job.kind = "batch" => Committed'[k].tagged ]_vars

\* No row of a batch that a resurrection overtook outlives a call that returns.
RacedBatchGone ==
  pc = "idle" => \A i \in DOMAIN rows : rows[i].batch \notin raced

\* The stored group numbers give the logical turns that
\* partition_canonical_rows_into_logical_turns finds in the rows themselves.
GroupsArePairs ==
  pc = "idle" => partition_canonical_rows_into_logical_turns(rows)
                   = {{i \in DOMAIN rows : rows[i].group = rows[j].group}
                        : j \in DOMAIN rows}

\* After a worker died between two writes and the host delivered again, no
\* message is stored twice: "the idempotent reconcile can retry cleanly".
RetriesCleanly ==
  inOrder /\ pc = "idle" /\ last # <<>>
    => \A i, j \in DOMAIN rows : rows[i].hash = rows[j].hash => i = j

\* "IngestReconciler never sets tagged_at -- the tagger owns that write."
TagsOnlyByTagger ==
  [][ \A i \in DOMAIN Committed, k \in DOMAIN Committed' :
        Committed[i].id = Committed'[k].id /\ Committed[i].tagged => Committed'[k].tagged ]_vars

=============================================================================

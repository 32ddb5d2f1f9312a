--------------------- MODULE IngestReconcilerInvariants ---------------------
(***************************************************************************)
(* The words in which IngestReconcilerProofs reasons about the reconciler: *)
(* rows in order, what a plan of writes makes of where they stand and of   *)
(* what they say, overlaps of a payload with the rows, and the inductive   *)
(* invariants (KeyInv, RaceInv, GroupInv, KeepInv, StoreInv, HostInv).     *)
(***************************************************************************)
EXTENDS IngestReconciler

\* A stored canonical turn.
Row ==
  [id : Nat, hash : Message, key : Int, batch : Nat, group : Int,
   actor : Actor \cup {NoActor}, tagged : BOOLEAN]

\* Rows in the order of their keys.
Ordered(s) ==
  s \in Seq(Row) /\ \A i, j \in DOMAIN s : i < j => s[i].key < s[j].key

-----------------------------------------------------------------------------
(* The store.                                                              *)

\* u is t with r put after the first n.
Spliced(u, t, r, n) ==
  /\ Len(u) = Len(t) + 1 /\ \A k \in 1..n : u[k] = t[k]
  /\ u[n + 1] = r /\ \A k \in (n + 2)..(Len(t) + 1) : u[k] = t[k - 1]

\* The first n of the rows t are below the key x, the others above it.
Divided(t, x, n) ==
  \A i \in DOMAIN t : IF i <= n THEN t[i].key < x ELSE x < t[i].key

-----------------------------------------------------------------------------
(* Plans: what a list of writes does to the places of the rows.            *)

\* A write of a plan.
Op ==
  [op : {"write"}, row : Row] \cup [op : {"shift"}, from : Int, delta : Nat]
    \cup [op : {"actor"}, ids : SUBSET Nat, actor : Actor \cup {NoActor}, life : Nat]

\* Where rows stand: ids and keys.
Places(s) == {<<s[i].id, s[i].key>> : i \in DOMAIN s}

Moved(p, from, delta) == <<p[1], IF p[2] >= from THEN p[2] + delta ELSE p[2]>>

\* The write o is not refused where the rows stand at K, and then they stand
\* at L, a set that may hold more.
Allows(o, K, L) ==
  /\ o.op = "write" => /\ \A p \in K : p[2] = o.row.key => p[1] = o.row.id
                       /\ K \subseteq L /\ <<o.row.id, o.row.key>> \in L
  /\ o.op = "shift" => \A p \in K : Moved(p, o.from, o.delta) \in L
  /\ o.op = "actor" => K \subseteq L

\* The writes ops, one after the other, lead from K to L and none is refused.
Runs(K, ops, L) ==
  \E f : /\ K \subseteq f[1] /\ f[Len(ops) + 1] \subseteq L
         /\ \A k \in 1..Len(ops) : Allows(ops[k], f[k], f[k + 1])

-----------------------------------------------------------------------------
(* Sort keys.                                                              *)

\* n increasing keys.
Rising(keys, n) ==
  /\ \A k \in 1..n : keys[k] \in Int
  /\ \A j, k \in 1..n : j < k => keys[j] < keys[k]

\* What a place in the rows s needs of the keys given out for it: they rise,
\* and lie between the neighbours once those on the right have moved by delta.
FitsPlace(a, s, l, n) ==
  /\ a.delta \in Nat /\ Rising(a.keys, n)
  /\ a.delta # 0 => l \in 1..(Len(s) - 1)
  /\ l >= 1 => \A k \in 1..n : s[l].key < a.keys[k]
  /\ l < Len(s) => \A k \in 1..n : a.keys[k] < s[l + 1].key + a.delta

-----------------------------------------------------------------------------
(* The plan of one insertion.                                              *)

\* What a call with batch number b may plan.
Planned(b) == {o \in Op : o.op = "write" => o.row.batch \in {0, b}}

\* Where new rows from + 1, from + 2, ... stand.
NewPlaces(keys, n, from) == {<<from + k, keys[k]>> : k \in 1..n}

Free(K, keys, n) == \A p \in K, k \in 1..n : p[2] # keys[k]

\* No place of K lies inside the gap after the l-th row of s.
Gap(K, s, l) ==
  \A p \in K : \/ l >= 1 /\ p[2] <= s[l].key
               \/ l < Len(s) /\ s[l + 1].key <= p[2]

\* By how much an insertion of n rows after the l-th moves those behind it.
InsertDelta(s, l, n) == IF n = 0 THEN 0 ELSE _allocate_bounded_sort_keys(s, l, n).delta

\* The places L after the insertion: those of K, moved, and new ones that come
\* before the right neighbour.
Grown(K, L, s, l, d) ==
  \A p \in L : \/ \E q \in K : p[2] = Moved(q, s[l + 1].key, d)[2]
               \/ p[2] \in Int /\ (l < Len(s) => p[2] < s[l + 1].key + d)

-----------------------------------------------------------------------------
(* The plan of a merge: actors, rows before the overlap, rows after it.    *)

\* t is s with the keys from a given one on moved up.
ShiftedBy(t, s, from, delta) ==
  /\ Len(t) = Len(s)
  /\ \A i \in DOMAIN s : /\ t[i].key = IF s[i].key >= from THEN s[i].key + delta ELSE s[i].key
                         /\ t[i].id = s[i].id /\ t[i].batch = s[i].batch
                         /\ t[i].hash = s[i].hash /\ t[i].group = s[i].group
                         /\ t[i].actor = s[i].actor /\ t[i].tagged = s[i].tagged

\* An overlap inside the stored rows.
Overlap(a, s, inc) ==
  /\ a.stored \in Nat \ {0} /\ a.len \in Nat \ {0} /\ a.stored + a.len - 1 <= Len(s)
  /\ a.incoming \in 1..Len(inc)

-----------------------------------------------------------------------------
(* The alignment that a plan starts from.                                  *)

\* The alignment a begins inside the payload and the store and is not empty.
Begins(a, inc) ==
  a.stored \in Nat \ {0} /\ a.len \in Nat \ {0} /\ a.incoming \in 1..Len(inc)

\* The hit p gives the alignment, and no other widens to more.
Best(p, w, s, anc, inc) ==
  LET At(q) == Widen(q[2], q[1], w, Hashes(s), inc)
  IN  /\ p \in AnchorHits(w, s, anc, inc)
      /\ ByWindow(w, s, anc, inc) = Aligned(At(p).stored, At(p).incoming, At(p).len, inc)
      /\ \A q \in AnchorHits(w, s, anc, inc) : At(q).len <= At(p).len

\* A plan the rows s can carry out from where they stand.
Plannable(ops, s, b) ==
  ops \in Seq(Planned(b)) /\ \E L : Runs(Places(s), ops, L)

-----------------------------------------------------------------------------
(* Turn groups.                                                            *)

Scan == [current : Int, pending : Int]
NoScan == [current |-> -1, pending |-> -1]

\* What recompute_canonical_turn_groups knows after one more row.
NextScan(s, i, x) ==
  IF s[i].hash \in UserMessage
  THEN [current |-> x.current + 1, pending |-> x.current + 1]
  ELSE IF x.pending >= 0 THEN [current |-> x.current, pending |-> -1]
  ELSE [current |-> x.current + 1, pending |-> -1]

GroupAt(s, i, g) ==
  IF s[i].hash \notin UserMessage /\ g[i - 1].pending >= 0
  THEN g[i - 1].pending ELSE g[i].current

Scans(s, g, m) ==
  g[0] = NoScan /\ \A i \in 1..m : g[i] = NextScan(s, i, g[i - 1])

\* The rows of t have the actors and tags of those of s.
SameStamps(t, s) == \A i \in DOMAIN s : t[i].actor = s[i].actor /\ t[i].tagged = s[i].tagged

\* t has the rows of s, where they stand, with other groups, actors or tags.
Alike(t, s) ==
  /\ Len(t) = Len(s) /\ DOMAIN t = DOMAIN s
  /\ \A i \in DOMAIN s : t[i].id = s[i].id /\ t[i].key = s[i].key /\ t[i].batch = s[i].batch
                         /\ t[i].hash = s[i].hash

-----------------------------------------------------------------------------
(* The inductive invariant.                                                *)

\* Rows are in order, and the job has the fields and the writes of a call.
Shape ==
  /\ Ordered(rows) /\ batches \in Nat /\ turns \in Nat /\ epoch \in Nat
  /\ pc \in {"idle", "write", "groups", "anchors", "check"}
  /\ job = [kind |-> job.kind, payload |-> job.payload, batch |-> job.batch,
            life |-> job.life, todo |-> job.todo, wrote |-> job.wrote, undo |-> job.undo]
  /\ job.batch \in Nat /\ job.todo \in Seq(Planned(job.batch))

\* What is left of the plan can be carried out from where the rows stand now.
PlanRuns == pc = "write" => job.todo # <<>> /\ \E L : Runs(Places(rows), job.todo, L)

UndoOrdered == Transactional /\ pc # "idle" => Ordered(job.undo[1])

KeyInv == Shape /\ PlanRuns /\ UndoOrdered

-----------------------------------------------------------------------------
(* Batches that a resurrection overtook.                                   *)

\* A raced batch is the one under way, of an earlier life than the present.
RaceInv ==
  /\ raced \subseteq 1..batches /\ (Transactional => raced = {})
  /\ pc = "idle" => job.kind = "none"
  /\ pc # "idle" => /\ job.batch = batches /\ batches # 0
                     /\ job.life \in Nat /\ job.life <= epoch
  /\ pc # "idle" /\ job.batch \in raced => job.kind = "batch" /\ job.life < epoch
  /\ \A i \in DOMAIN rows : rows[i].batch \in raced
                              => pc # "idle" /\ rows[i].batch = job.batch

\* The batches of some rows are among those of others.
Among(t, s) == \A k \in DOMAIN t : \E i \in DOMAIN s : t[k].batch = s[i].batch

-----------------------------------------------------------------------------
(* Groups are pairs.                                                       *)

\* Only a user row and the assistant row directly after it share a group.
Paired(s) ==
  /\ \A i \in DOMAIN s : s[i].group \in Nat
  /\ \A i, j \in DOMAIN s : i < j /\ s[i].group = s[j].group =>
       j = i + 1 /\ s[i].hash \in UserMessage /\ s[j].hash \notin UserMessage

\* What the scan knows of the row it has just passed.
ScanOk(s, x, i) ==
  /\ x.current \in Int /\ x.current >= -1 /\ x.pending \in {-1, x.current}
  /\ i >= 1 => x.current >= 0
  /\ x.pending >= 0 <=> i >= 1 /\ s[i].hash \in UserMessage

\* A row of s has the key, the group and the content of r.
From(r, s) ==
  \E m \in DOMAIN s : s[m].key = r.key /\ s[m].group = r.group /\ s[m].hash = r.hash

Drawn(t, s) == \A k \in DOMAIN t : From(t[k], s)

\* The rows a resend has not yet written, and those in the store, are drawn
\* from the rows it found.
Steady ==
  \E s : /\ Ordered(s) /\ Paired(s) /\ Drawn(rows, s)
         /\ \A k \in DOMAIN job.todo : job.todo[k].op = "write" /\ From(job.todo[k].row, s)

\* When the stored group numbers are those of a scan over all rows.
GroupInv ==
  /\ pc \in {"idle", "anchors", "check"} => Paired(rows)
  /\ Transactional /\ pc # "idle" => Paired(job.undo[1])
  /\ pc = "write" /\ ~job.wrote =>
       Paired(rows) /\ \A k \in DOMAIN job.todo : job.todo[k].op # "write"
  /\ pc = "write" /\ job.kind = "resend" => job.wrote /\ Steady

-----------------------------------------------------------------------------
(* What a step keeps of the rows it finds.                                 *)

\* No id is stored twice, and none is above t.
Unique(s) == \A i, j \in DOMAIN s : s[i].id = s[j].id => i = j
Known(s, t) == Unique(s) /\ \A i \in DOMAIN s : s[i].id <= t

\* The rows of s that are in t have kept their content, their order, their
\* actors and, if b, their tags.
Kept(s, t, b) ==
  /\ \A i \in DOMAIN s, k \in DOMAIN t : t[k].id = s[i].id =>
       /\ t[k].hash = s[i].hash
       /\ s[i].actor # NoActor => t[k].actor = s[i].actor
       /\ b /\ s[i].tagged => t[k].tagged
  /\ \A i, j \in DOMAIN s, k, l \in DOMAIN t :
       t[k].id = s[i].id /\ t[l].id = s[j].id /\ i < j => k < l

\* None of them is missing.
Holds(s, t) == \A i \in DOMAIN s : \E k \in DOMAIN t : t[k].id = s[i].id

\* A human actor is only on a user row.
Human(r) == r.actor # NoActor => r.hash \in UserMessage

\* The row r may be written over the rows s: one of the same id is the same
\* message at the same place.
Follows(r, s, b) ==
  \A i \in DOMAIN s : s[i].id = r.id =>
    /\ s[i].key = r.key /\ s[i].hash = r.hash
    /\ s[i].actor # NoActor => r.actor = s[i].actor
    /\ b /\ s[i].tagged => r.tagged

-----------------------------------------------------------------------------
(* The ids a plan writes.                                                  *)

\* Each id of ids is that of a user row.
Users(ids, s) == \A x \in ids : \E i \in DOMAIN s : s[i].id = x /\ s[i].hash \in UserMessage

Write(o, x) == o.op = "write" /\ o.row.id = x

\* The rows the plan writes have the ids t + 1, ..., t + n, each once, and actors
\* go to user rows only: new ones, or stored ones of s.
Fresh(ops, s, t, n) ==
  /\ \A k \in DOMAIN ops : ops[k].op = "write" => ops[k].row.id \in (t + 1)..(t + n)
                                                  /\ Human(ops[k].row)
  /\ \A k \in DOMAIN ops : ops[k].op = "actor" => Users(ops[k].ids, s)
  /\ \A x \in (t + 1)..(t + n), k, l \in DOMAIN ops : Write(ops[k], x) /\ Write(ops[l], x) => k = l
  /\ \A x \in (t + 1)..(t + n) : \E k \in DOMAIN ops : Write(ops[k], x)

-----------------------------------------------------------------------------
(* Plans that disturb nothing.                                             *)

\* What the plan still writes is new, or repeats a stored row of s.
Careful(ops, s, t, new) ==
  /\ \A k \in DOMAIN ops : ops[k].op = "write" =>
       /\ Human(ops[k].row) /\ ops[k].row.id <= t
       /\ IF new THEN \A i \in DOMAIN s : s[i].id # ops[k].row.id ELSE Follows(ops[k].row, s, FALSE)
  /\ \A k \in DOMAIN ops : new \/ ops[k].op = "write"
  /\ \A k \in DOMAIN ops : ops[k].op = "actor" => Users(ops[k].ids, s)
  /\ \A x, k, l : k \in DOMAIN ops /\ l \in DOMAIN ops /\ Write(ops[k], x) /\ Write(ops[l], x) => k = l

-----------------------------------------------------------------------------
(* Every step keeps the rows it finds.                                     *)

\* Ids are known and human actors are on user rows.
Settled(s, t) == Known(s, t) /\ \A i \in DOMAIN s : Human(s[i])

\* The rows t come from s without loss.
Succeeds(t, s, u, b) == Kept(s, t, b) /\ Holds(s, t) /\ Settled(t, u)

\* What is written next harms no row, and what a rollback restores is what the
\* rows came from.
KeepInv ==
  /\ Settled(rows, turns)
  /\ pc = "write" => Careful(job.todo, rows, turns, job.kind # "resend")
  /\ Transactional /\ pc # "idle" =>
       /\ Settled(job.undo[1], turns) /\ job.life = epoch
       /\ Succeeds(rows, job.undo[1], turns, job.kind = "batch")

\* The rows t are what a step leaves of s: a row that is gone was of the batch x.
Leaves(s, t, b, x, ended) ==
  /\ Ordered(s) /\ Ordered(t) /\ Unique(s) /\ Unique(t) /\ Kept(s, t, b)
  /\ \A k \in DOMAIN t : Human(t[k])
  /\ \A i \in DOMAIN s : (\A k \in DOMAIN t : t[k].id # s[i].id) => s[i].batch = x /\ ended

\* What a step leaves of what the other connections see.
Leaving == Leaves(Committed, Committed', job.kind = "batch", job.batch, pc' = "idle")

-----------------------------------------------------------------------------
(* Plans: what a list of writes makes of the stored contents.              *)

\* What is stored where: keys and hashes.
Content(s) == {<<s[i].key, s[i].hash>> : i \in DOMAIN s}

Slid(c, from, delta) == <<IF c[1] >= from THEN c[1] + delta ELSE c[1], c[2]>>

\* The write o makes D of the contents C.
Does(o, C, D) ==
  /\ o.op = "write" => D = C \cup {<<o.row.key, o.row.hash>>}
  /\ o.op = "shift" => D = {Slid(c, o.from, o.delta) : c \in C}
  /\ o.op = "actor" => D = C

Gives(C, ops, D) ==
  \E f : /\ f[1] = C /\ f[Len(ops) + 1] = D
         /\ \A k \in 1..Len(ops) : Does(ops[k], f[k], f[k + 1])

\* n new messages.
NewContent(keys, msgs, n) == {<<keys[k], msgs[k]>> : k \in 1..n}

\* Where the rows behind the l-th move from.
ShiftFrom(s, l) == IF l < Len(s) THEN s[l + 1].key ELSE 0

\* n new keys after the l-th row of s, once those behind it have moved by d.
NewKeys(keys, s, l, n, d) ==
  /\ Rising(keys, n) /\ d \in Nat /\ (d # 0 => l < Len(s))
  /\ l >= 1 => \A k \in 1..n : s[l].key < keys[k]
  /\ l < Len(s) => \A k \in 1..n : keys[k] < s[l + 1].key + d

\* The contents C once the rows behind the l-th have moved and msgs are there.
After(C, s, l, d, keys, msgs, n) ==
  {Slid(c, ShiftFrom(s, l), d) : c \in C} \cup NewContent(keys, msgs, n)

\* The writes ops put msgs after the l-th row of s.
Inserts(C, ops, s, l, msgs, d) ==
  \E keys : /\ NewKeys(keys, s, l, Len(msgs), d)
            /\ Gives(C, ops, After(C, s, l, d, keys, msgs, Len(msgs)))

-----------------------------------------------------------------------------
(* A payload that lies in the stored contents.                             *)

\* The messages p are stored at the keys kk, with nothing in between.
Lies(D, p, kk) ==
  /\ Rising(kk, Len(p))
  /\ \A j \in 1..Len(p) : <<kk[j], p[j]>> \in D
  /\ \A x \in D : \/ \E j \in 1..Len(p) : x[1] = kk[j]
                  \/ \A j \in 1..Len(p) : x[1] < kk[j]
                  \/ \A j \in 1..Len(p) : kk[j] < x[1]

Laid(D, p) == \E kk : Lies(D, p, kk)

\* The keys T of the rows h; inc is n new keys before those of l+1..r, these, and
\* m new keys after them.
Around(T, h, N, l, r, pk, n, sk, m, inc) ==
  /\ Rising(T, N) /\ l <= r /\ r <= N /\ Len(inc) = n + (r - l) + m /\ (n # 0 => l < r)
  /\ Rising(pk, n) /\ Rising(sk, m)
  /\ \A i \in (l + 1)..r : h[i] = inc[n + (i - l)]
  /\ l >= 1 => \A k \in 1..n : T[l] < pk[k]
  /\ l < N => \A k \in 1..n : pk[k] < T[l + 1]
  /\ r >= 1 => \A k \in 1..m : T[r] < sk[k]
  /\ r < N => \A k \in 1..m : sk[k] < T[r + 1]

\* D has those rows and those messages at those keys, and no other key.
Holding(D, T, h, N, l, r, pk, n, sk, m, inc) ==
  /\ \A i \in 1..N : <<T[i], h[i]>> \in D
  /\ \A k \in 1..n : <<pk[k], inc[k]>> \in D
  /\ \A k \in 1..m : <<sk[k], inc[n + (r - l) + k]>> \in D
  /\ \A x \in D : \/ \E i \in 1..N : x[1] = T[i]
                  \/ \E k \in 1..n : x[1] = pk[k]
                  \/ \E k \in 1..m : x[1] = sk[k]

\* The overlap a is in the store ex and in the payload inc, message by message.
Matches(a, ex, inc) ==
  /\ a.stored \in Nat \ {0} /\ a.incoming \in Nat \ {0} /\ a.len \in Nat \ {0}
  /\ a.stored + a.len - 1 <= Len(ex) /\ a.incoming + a.len - 1 <= Len(inc)
  /\ \A k \in 0..(a.len - 1) : inc[a.incoming + k] = ex[a.stored + k]

\* What the insertion of a suffix after the r-th row of s makes of the contents
\* C of s and of the new keys pk before the rows l+1..r.
Suits(s, l, r, pk, n, m, d, sk, inc, pre, suf) ==
  /\ l <= r /\ r <= Len(s) /\ (n # 0 => l < r) /\ Rising(pk, n)
  /\ NewKeys(sk, s, r, m, d) /\ Len(inc) = n + (r - l) + m
  /\ \A i \in (l + 1)..r : s[i].hash = inc[n + (i - l)]
  /\ l >= 1 => \A k \in 1..n : s[l].key < pk[k]
  /\ l < Len(s) => \A k \in 1..n : pk[k] < s[l + 1].key
  /\ \A k \in 1..n : pre[k] = inc[k]
  /\ \A k \in 1..m : suf[k] = inc[n + (r - l) + k]

\* What a merge of inc at the overlap a makes of the contents of s: t is s once
\* the rows behind the prefix have moved, pre and suf are what a leaves of inc.
Merged(D, s, inc, a) ==
  \E t, pk, sk, pre, suf : \E l, r, n, m, d \in Nat :
    /\ Ordered(t) /\ Len(t) = Len(s) /\ \A i \in 1..Len(s) : t[i].hash = s[i].hash
    /\ l = a.stored - 1 /\ r = a.stored + a.len - 1 /\ n = a.incoming - 1
    /\ m = Len(inc) - (a.incoming + a.len) + 1
    /\ Suits(t, l, r, pk, n, m, d, sk, inc, pre, suf)
    /\ D = After(Content(t) \cup NewContent(pk, pre, n), t, r, d, sk, suf, m)

\* What a plan must do: lay the payload, or there is nothing to do for a fragment.
Lays(ops, s, inc) ==
  \/ \E D : Gives(Content(s), ops, D) /\ Laid(D, inc)
  \/ ops = <<>> /\ Fragment(s, inc)

-----------------------------------------------------------------------------
(* True anchors find true overlaps.                                        *)

\* Where the windows of size w of the rows s are.
Built(w, s) == {<<Window(Hashes(s), i, w), i>> : i \in 1..(Len(s) - w + 1)}

\* The store and the payload agree k places behind the hit.
Equal(ex, inc, e, i, k) ==
  i + k \in DOMAIN inc /\ e + k \in DOMAIN ex /\ inc[i + k] = ex[e + k]

\* How far an anchor hit is widened to the left and to the right.
Widens(x, left, right, ex, inc, e, i, w) ==
  /\ left \in 0..(i - 1) /\ right \in w..(w + Len(inc))
  /\ x.stored = e - left /\ x.incoming = i - left /\ x.len = left + right
  /\ \A k \in 1..left : Equal(ex, inc, e, i, -k)
  /\ \A k \in w..(right - 1) : Equal(ex, inc, e, i, k)
  /\ \A l \in 0..(i - 1) : (\A k \in 1..l : Equal(ex, inc, e, i, -k)) => l <= left
  /\ \A r \in w..(w + Len(inc)) : (\A k \in w..(r - 1) : Equal(ex, inc, e, i, k)) => r <= right

\* Anchors that name the windows of the rows: for every size.
TrueAnchors(s, anc) == \A w \in WindowSizes : AnchorPositions(w, s, anc) = Built(w, s)

-----------------------------------------------------------------------------
(* What a write makes of contents and anchors.                             *)

\* The rows of t have the ids and contents of those of s, where they stand.
SameMessages(t, s) ==
  /\ Len(t) = Len(s) /\ DOMAIN t = DOMAIN s
  /\ \A i \in DOMAIN s : t[i].id = s[i].id /\ t[i].hash = s[i].hash

-----------------------------------------------------------------------------
(* The payload is stored.                                                  *)

\* Nothing of p is missing from the rows s, or a fragment was not asked for.
Has(s, p) == Laid(Content(s), p) \/ Fragment(s, p)

\* What is left of the plan lays the payload.
WillLay(s, ops, p) == \E D : Gives(Content(s), ops, D) /\ Laid(D, p)

\* The anchors a call aligns with are those of the rows it has loaded.
Anchored ==
  /\ pc \in {"idle", "check"} \/ (pc = "write" /\ ~job.wrote) => anchors = _build_anchor_rows(rows)
  /\ pc # "idle" => job.undo[2] = _build_anchor_rows(job.undo[1])

\* The payload of the call is stored, or the rest of the plan will store it.
Stored ==
  /\ last \in Seq(Message) /\ (pc # "idle" => job.payload \in Seq(Message))
  /\ pc = "write" => WillLay(rows, job.todo, job.payload)
  /\ pc \in {"groups", "anchors", "check"} => Has(rows, job.payload)
  /\ pc = "idle" => Has(rows, last)

StoreInv == Anchored /\ Stored

\* Messages m past the rows complete the payload that the rows after l begin.
Behind(s, l, m, keys, inc, suf) ==
  /\ l <= Len(s) /\ Rising(keys, m)
  /\ Len(s) >= 1 => \A k \in 1..m : s[Len(s)].key < keys[k]
  /\ Len(inc) = (Len(s) - l) + m
  /\ \A i \in (l + 1)..Len(s) : s[i].hash = inc[i - l]
  /\ \A k \in 1..m : suf[k] = inc[(Len(s) - l) + k]

\* What the invariants say of one state.
SureInv == KeyInv /\ RaceInv /\ KeepInv /\ GroupInv /\ StoreInv

-----------------------------------------------------------------------------
(* A resend finds all of itself.                                           *)

\* The payload inc lies in the store ex from the place e on.
LiesAt(ex, inc, e) ==
  /\ e \in 1..(Len(ex) - Len(inc) + 1)
  /\ \A j \in 1..Len(inc) : ex[e + j - 1] = inc[j]

-----------------------------------------------------------------------------
(* What the host delivers in order stays one window of its history.        *)

\* The messages p are those of the history from the place c on.
TakenFrom(p, c) ==
  /\ c \in Nat \ {0} /\ c + Len(p) - 1 <= Len(History)
  /\ \A k \in 1..Len(p) : p[k] = History[c + k - 1]

\* The contents D are the messages a to b of the history, at keys that rise.
Tells(D, a, b, kk) ==
  /\ \A j \in a..b : kk[j] \in Int
  /\ \A i, j \in a..b : i < j => kk[i] < kk[j]
  /\ D = {<<kk[j], History[j]>> : j \in a..b}

TellsOf(D, a, b) ==
  /\ a \in Nat \ {0} /\ b \in Nat /\ a <= b + 1 /\ b <= Len(History)
  /\ \E kk : Tells(D, a, b, kk)

Told(D) == \E a, b : TellsOf(D, a, b)

\* The host's history has no message twice.
Distinct == \A i, j \in DOMAIN History : History[i] = History[j] => i = j

\* The rows t and the payload inc, overlapping on the rows l + 1 to r, n messages before
\* and m after it, are of one diagonal and leave nothing in between.
OneWindow(t, l, r, n, m, inc) ==
  /\ l < r
  /\ \E a, c : TakenFrom(Hashes(t), a) /\ TakenFrom(inc, c) /\ c + n = a + l
  /\ n = 0 \/ l = 0
  /\ m = 0 \/ r = Len(t)

\* Of what the store and the payload have in common nothing is left out.
Full(a, ex, inc) ==
  /\ a.stored = 1 \/ a.incoming = 1
  /\ a.stored + a.len - 1 = Len(ex) \/ a.incoming + a.len - 1 = Len(inc)

\* inc and s share k messages, for one or three.
Meets(k, inc, s) ==
  (k = 1 /\ Shared(inc, s) # 0) \/ (k = 3 /\ Shared(inc, s) >= 3)

\* The writes ops leave of the rows s a window of the history.
WillTell(s, ops) == \E D : Gives(Content(s), ops, D) /\ Told(D)

\* Where a payload from the place c0 of the history continues the rows.
Follow(s, inc, c0) ==
  \/ inc = <<>> \/ s = <<>>
  \/ \E a0 : TakenFrom(Hashes(s), a0) /\ c0 = a0 + Len(s)

\* As long as the host delivers in order, what is stored and what the plan under
\* way makes of it is a window of its history, and so is what a rollback restores.
HostInv ==
  inOrder =>
    /\ pc = "write" => WillTell(rows, job.todo)
    /\ pc # "write" => Told(Content(rows))
    /\ pc # "idle" => Told(Content(job.undo[1]))
=============================================================================

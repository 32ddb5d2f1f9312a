-------------------------- MODULE RecordEditsProofs --------------------------
(***************************************************************************)
(* Theorems about RecordEdits, for any messages, rows, edits and faults: a *)
(* segment that waits for no edit is what its turns give, no fact that is  *)
(* not marked rests on a text the record no longer has, and a replay of    *)
(* the host's history brings nothing back; on SQLite withheld facts wait   *)
(* for their replacement.                                                  *)
(***************************************************************************)
EXTENDS RecordEdits, FiniteSetTheorems, IterationTheorems, TLAPS

Status == {"unused", "pending", "running", "failed", "completed"}

Operation ==
  [status : Status, queue : [Ref -> SUBSET RowId], done : SUBSET Ref,
   failed : SUBSET Ref, retag : SUBSET RowId, forgotten : SUBSET Topic]

Job ==
  [by : {"none", "worker", "cli"},
   pc : {"idle", "retag", "next"} \cup AtSegment,
   op : 0 .. MaxEdit, ref : SUBSET Ref, ids : SUBSET RowId, mine : SUBSET RowId,
   texts : SUBSET Text, tags : SUBSET Topic, todo : SUBSET Ref, stale : BOOLEAN]

Refs == [segs : SUBSET Ref, facts : SUBSET Ref]
Taints == [segs : SUBSET Ref, facts : SUBSET Ref, kept : SUBSET Ref]

\* The types of every variable; rows are given out in order.
Types ==
  /\ text \in [RowId -> Text \cup {Gone}] /\ tags \in [RowId -> SUBSET Topic]
  /\ packed \subseteq Live /\ used \in 0 .. MaxRow
  /\ \A i \in RowId : i > used => text[i] = Gone
  /\ edits \in Seq([before : Text, after : Text \cup {Gone}])
  /\ seg \in [Ref -> [ids : SUBSET RowId, texts : SUBSET Text, tags : SUBSET Topic]]
  /\ fact \in [Ref -> [state : {"none", "served", "retracted"}, texts : SUBSET Text]]
  /\ op \in [OpId -> Operation]
  /\ job \in Job /\ stamp \in Refs /\ tainted \in Taints
  /\ dead \in BOOLEAN /\ faults \in 0 .. MaxFault
  /\ replay \in [msg : SUBSET Msg, existing : SUBSET Text]

\* An edit changes the text.
Changes == \A k \in DOMAIN edits : edits[k].before # edits[k].after

\* What an operation records: what failed or is done was queued, and an
\* operation that has not begun has queued nothing.
Operations ==
  \A o \in OpId :
    /\ op[o].failed \subseteq Queue(o) /\ op[o].done \subseteq Queue(o)
    /\ op[o].status = "unused" => Queue(o) = {}

\* A segment without turns is not stored.
Segments == \A r \in Ref : seg[r].ids = {} => seg[r] = NoSeg

Writing == job.pc \in {"stub", "seg", "facts"}

\* The run under way: the segment it works on, and what it has read unless an
\* edit has overtaken it.
Run ==
  /\ dead => job.pc = "idle"
  /\ job.pc = "idle" => job.op = 0
  /\ job.pc \in {"retag", "next"} => job.op # 0
  /\ job.pc = "verify" => ~Serial
  /\ job.pc \in AtSegment => \E r \in Ref : job.ref = {r}
  /\ Writing => job.ids # {} /\ (~job.stale => /\ job.ids \subseteq Live
                                               /\ job.texts = TextsOf(job.ids))

\* A rebuild: nobody edits while it runs, so that nothing overtakes it, and
\* what it has not done is still to do or has failed.
Rebuilds ==
  job.op # 0 =>
    /\ op[job.op].status = "running" /\ ~job.stale
    /\ job.todo \subseteq Queue(job.op) \ op[job.op].done
    /\ Queue(job.op) \ op[job.op].done \subseteq job.todo \cup op[job.op].failed
    /\ job.pc \in AtSegment => job.ref \subseteq job.todo

\* What the segment of a run is before and after the run writes it.
Target ==
  \A r \in job.ref :
    /\ job.op = 0 /\ job.pc \in {"stub", "seg"} =>
         /\ seg[r].ids \subseteq job.ids
         /\ seg[r] = NoSeg => fact[r] = NoFact
    /\ job.pc = "facts" /\ ~job.stale => seg[r].ids = job.ids /\ seg[r].texts = job.texts
    /\ job.op # 0 /\ job.pc \in {"trust", "verify", "done"} /\ seg[r] # NoSeg =>
         /\ seg[r].ids \subseteq Live /\ seg[r].texts = TextsOf(seg[r].ids)
         /\ fact[r].state = "retracted" => r \in tainted.kept

\* Facts that are served rest on turns their segment still has.
Supported ==
  \A r \in Ref \ tainted.facts :
    fact[r].state = "served" =>
      seg[r] # NoSeg /\ fact[r].texts \subseteq TextsOf(seg[r].ids \cap Live)

\* The inductive invariant of the record edits.
EditInv ==
  /\ Types /\ Changes /\ Operations /\ Segments /\ Run /\ Rebuilds /\ Target
  /\ Supported /\ DerivedFollowsRecord

-----------------------------------------------------------------------------
(* The record.                                                             *)

LEMMA RowFacts ==
  ASSUME Types
  PROVE  /\ MaxRow \in Nat /\ MaxEdit \in Nat /\ MaxFault \in Nat /\ used \in Nat
         /\ Live \subseteq RowId /\ Gone \notin Text
         /\ \A i \in Live : text[i] \in Text
         /\ \A ids \in SUBSET Live : TextsOf(ids) \subseteq Text
         /\ \A ids \in SUBSET RowId : TagsOf(ids) \subseteq Topic
BY EditAssumption DEF Types, Live, TextsOf, TagsOf

\* A text is a message and one of its versions.
LEMMA TextIs ==
  ASSUME NEW t \in Text, NEW v \in Version
  PROVE  /\ <<t[1], v>> \in Text /\ t[1] \in Msg /\ t[2] \in Version
         /\ v # t[2] => <<t[1], v>> # t
BY DEF Text

LEMMA OriginalIs == ASSUME NEW m \in Msg PROVE Original(m) \in Text
BY EditAssumption DEF Original, Text, Version

\* Appending audit entries keeps the type of the edits and what they change.
LEMMA AuditIs ==
  ASSUME NEW b \in Text, NEW a \in Text \cup {Gone}
  PROVE  /\ Audit(b, a) \in [before : Text, after : Text \cup {Gone}]
         /\ Audit(b, a).before = b /\ Audit(b, a).after = a
BY DEF Audit

LEMMA AppendAudit ==
  ASSUME Types, Changes, NEW b \in Text, NEW a \in Text \cup {Gone}, a # b,
         edits' = Append(edits, Audit(b, a))
  PROVE  /\ edits' \in Seq([before : Text, after : Text \cup {Gone}]) /\ Changes'
<1> DEFINE E == [before : Text, after : Text \cup {Gone}]
<1>1. edits \in Seq(E) /\ Audit(b, a) \in E
  BY AuditIs DEF Types
<1>2. edits' \in Seq(E)
  <2> HIDE DEF E
  <2> QED BY <1>1
<1>3. \A k \in DOMAIN edits' : edits'[k] = Audit(b, a) \/ (k \in DOMAIN edits /\ edits'[k] = edits[k])
  <2> HIDE DEF E
  <2> QED BY <1>1
<1> QED BY <1>2, <1>3, AuditIs DEF Changes

\* SetToSeq lists the elements of a finite set.
LEMMA Listed ==
  ASSUME NEW S, IsFiniteSet(S)
  PROVE  /\ Cardinality(S) \in Nat
         /\ \A k \in 1..Cardinality(S) : SetToSeq(S)[k] \in S
<1>1. PICK n \in Nat : ExistsBijection(1..n, S)
  BY FS_NatBijection
<1>2. Cardinality(S) = n
  BY <1>1, FS_CountingElements
<1>3. PICK f : f \in Bijection(1..n, S)
  BY <1>1 DEF ExistsBijection
<1>4. f \in [1..Cardinality(S) -> S] /\ IsInjective(f)
  BY <1>2, <1>3 DEF Bijection, Injection, IsInjective
<1>5. SetToSeq(S) \in [1..Cardinality(S) -> S]
  BY <1>4 DEF SetToSeq
<1> QED BY <1>2, <1>5

\* forget_topic_records audits every turn it removes.
LEMMA AuditRemoved ==
  ASSUME Types, Changes, NEW removed \in SUBSET Live,
         edits' = edits \o [k \in 1..Cardinality(removed) |->
                              Audit(text[SetToSeq(removed)[k]], Gone)]
  PROVE  edits' \in Seq([before : Text, after : Text \cup {Gone}]) /\ Changes'
<1> DEFINE E == [before : Text, after : Text \cup {Gone}]
           more == [k \in 1..Cardinality(removed) |->
                      Audit(text[SetToSeq(removed)[k]], Gone)]
<1>1. IsFiniteSet(removed)
  <2>1. IsFiniteSet(1..MaxRow)
    BY EditAssumption, FS_Interval
  <2> QED BY <2>1, FS_Subset, RowFacts DEF RowId
<1>2. /\ Cardinality(removed) \in Nat
      /\ \A k \in 1..Cardinality(removed) : text[SetToSeq(removed)[k]] \in Text
  BY <1>1, Listed, RowFacts
<1>3. \A k \in 1..Cardinality(removed) : more[k] \in E /\ more[k].before # more[k].after
  <2> TAKE k \in 1..Cardinality(removed)
  <2>1. more[k] = Audit(text[SetToSeq(removed)[k]], Gone)
    OBVIOUS
  <2>2. text[SetToSeq(removed)[k]] # Gone
    BY <1>2, EditAssumption
  <2> QED BY <1>2, <2>1, <2>2, AuditIs
<1>4. more \in Seq(E) /\ Len(more) = Cardinality(removed) /\ edits \in Seq(E)
  <2>1. more \in [1..Cardinality(removed) -> E]
    BY <1>3
  <2> HIDE DEF more, E
  <2>2. edits \in Seq(E)
    BY DEF Types, E
  <2> QED BY <1>2, <2>1, <2>2
<1>5. edits' \in Seq(E)
  <2> HIDE DEF more, E
  <2> QED BY <1>4 DEF more
<1>6. \A k \in DOMAIN edits' : edits'[k].before # edits'[k].after
  <2> TAKE k \in DOMAIN edits'
  <2> HIDE DEF more, E
  <2>0. edits' = edits \o more
    BY DEF more
  <2>1. k \in Nat /\ k \in 1..(Len(edits) + Len(more)) /\ Len(edits) \in Nat
    BY <1>4, <2>0
  <2>2. CASE k <= Len(edits)
    <3>1. k \in DOMAIN edits /\ edits'[k] = edits[k]
      BY <1>4, <2>0, <2>1, <2>2
    <3> QED BY <3>1 DEF Changes
  <2>3. CASE k > Len(edits)
    <3>1. edits'[k] = more[k - Len(edits)] /\ k - Len(edits) \in 1..Cardinality(removed)
      BY <1>2, <1>4, <2>0, <2>1, <2>3
    <3> QED BY <1>3, <3>1
  <2>4. k <= Len(edits) \/ k > Len(edits)
    BY <2>1
  <2> QED BY <2>2, <2>3, <2>4, Zenon
<1> QED BY <1>5, <1>6 DEF Changes

-----------------------------------------------------------------------------
(* The walk along the edits.                                               *)

\* The latest edit away from a text.
LastEdit(t, k) ==
  /\ k \in DOMAIN edits /\ edits[k].before = t
  /\ \A j \in DOMAIN edits : edits[j].before = t => j <= k

\* What a text has become.
LEMMA RetiredIs ==
  ASSUME edits \in Seq([before : Text, after : Text \cup {Gone}])
  PROVE  /\ DOMAIN retired = {edits[k].before : k \in DOMAIN edits}
         /\ DOMAIN retired \subseteq Text
         /\ \A t \in DOMAIN retired :
              \E k \in DOMAIN edits : LastEdit(t, k) /\ retired[t] = edits[k].after
         /\ \A t \in DOMAIN retired : retired[t] \in Text \cup {Gone}
<1>1. DOMAIN retired = {edits[k].before : k \in DOMAIN edits}
  BY DEF retired
<1>2. /\ Len(edits) \in Nat /\ DOMAIN edits = 1..Len(edits)
      /\ \A k \in DOMAIN edits : edits[k].before \in Text /\ edits[k].after \in Text \cup {Gone}
  <2> DEFINE E == [before : Text, after : Text \cup {Gone}]
  <2>1. \A e \in E : e.before \in Text /\ e.after \in Text \cup {Gone}
    OBVIOUS
  <2>2. /\ Len(edits) \in Nat /\ DOMAIN edits = 1..Len(edits)
        /\ \A k \in DOMAIN edits : edits[k] \in E
    <3> HIDE DEF E
    <3>1. edits \in Seq(E)
      BY DEF E
    <3> QED BY <3>1
  <2> QED BY <2>1, <2>2
<1>3. ASSUME NEW t \in DOMAIN retired
      PROVE  \E k \in DOMAIN edits : LastEdit(t, k) /\ retired[t] = edits[k].after
  <2> DEFINE S == {k \in DOMAIN edits : edits[k].before = t}
             U == {Len(edits) - k : k \in S}
  <2>1. S # {} /\ S \subseteq 1..Len(edits)
    BY <1>1, <1>2, <1>3
  <2>2. U # {} /\ U \subseteq Nat
    <3> HIDE DEF S
    <3>1. \A k \in S : Len(edits) - k \in Nat
      BY <1>2, <2>1
    <3>2. PICK k \in S : TRUE
      BY <2>1
    <3>3. Len(edits) - k \in U
      BY <3>2
    <3> QED BY <3>1, <3>3
  <2>3. PICK u \in U : \A y \in U : u <= y
    <3> HIDE DEF U
    <3> QED BY <2>2, LeastNumber
  <2>4. PICK m \in S : u = Len(edits) - m
    <3> HIDE DEF S
    <3> QED BY <2>3
  <2>5. \A j \in S : j <= m
    <3> TAKE j \in S
    <3>1. Len(edits) - j \in U
      OBVIOUS
    <3>2. u <= Len(edits) - j
      BY <2>3, <3>1
    <3> HIDE DEF S, U
    <3> QED BY <1>2, <2>1, <2>4, <3>2
  <2>6. LastEdit(t, m)
    BY <2>4, <2>5 DEF LastEdit
  <2>7. retired[t] = edits[CHOOSE k \in DOMAIN edits :
                    /\ edits[k].before = t
                    /\ \A j \in DOMAIN edits : edits[j].before = t => j <= k].after
    BY <1>1, <1>3 DEF retired
  <2> DEFINE c == CHOOSE k \in DOMAIN edits :
                    /\ edits[k].before = t
                    /\ \A j \in DOMAIN edits : edits[j].before = t => j <= k
  <2>8. c \in DOMAIN edits /\ LastEdit(t, c)
    BY <2>6 DEF LastEdit
  <2> QED BY <2>7, <2>8
<1>4. DOMAIN retired \subseteq Text
  BY <1>1, <1>2
<1>5. \A t \in DOMAIN retired : retired[t] \in Text \cup {Gone}
  BY <1>2, <1>3
<1> QED BY <1>1, <1>3, <1>4, <1>5

\* A point of the walk of get_retired_turns, and its next one.
Walk == [seen : SUBSET (Text \cup {Gone}), new : Text \cup {Gone}]

Follow(w) ==
  IF w.new \in DOMAIN retired /\ w.new \notin w.seen
  THEN [seen |-> w.seen \cup {w.new}, new |-> retired[w.new]]
  ELSE w

Start(t) == [seen |-> {t}, new |-> retired[t]]

LEMMA FollowIs ==
  ASSUME edits \in Seq([before : Text, after : Text \cup {Gone}])
  PROVE  /\ \A w \in Walk : Follow(w) \in Walk
         /\ \A t \in DOMAIN retired : Start(t) \in Walk
BY RetiredIs DEF Follow, Start, Walk

\* The walk takes one step per audit entry.
LEMMA WalkSteps ==
  ASSUME edits \in Seq([before : Text, after : Text \cup {Gone}]),
         NEW t \in DOMAIN retired
  PROVE  \E p \in [0..Len(edits) -> Walk] :
           /\ p[0] = Start(t)
           /\ \A i \in 1..Len(edits) : p[i] = Follow(p[i - 1])
           /\ get_retired_turns(t) = p[Len(edits)].new
<1> DEFINE n == Len(edits)
           g == [w \in Walk |-> Follow(w)]
           Solves(p) == p = [i \in 0..n |->
             IF i = 0 THEN [seen |-> {t}, new |-> retired[t]]
             ELSE LET w == p[i - 1]
                  IN  IF w.new \in DOMAIN retired /\ w.new \notin w.seen
                      THEN [seen |-> w.seen \cup {w.new}, new |-> retired[w.new]]
                      ELSE w]
<1>0. n \in Nat
  <2> DEFINE E == [before : Text, after : Text \cup {Gone}]
  <2>1. edits \in Seq(E)
    OBVIOUS
  <2> HIDE DEF E
  <2> QED BY <2>1
<1>1. g \in [Walk -> Walk] /\ Start(t) \in Walk
  BY FollowIs
<1>2. PICK q \in [0..n -> Walk] :
         q[0] = Start(t) /\ \A i \in 1..n : q[i] = g[q[i - 1]]
  <2> HIDE DEF g, n
  <2>1. Iterable(Walk)
    BY IteratesExist
  <2> QED BY <1>0, <1>1, <2>1 DEF Iterable
<1>3. \A i \in 1..n : q[i - 1] \in Walk /\ g[q[i - 1]] = Follow(q[i - 1])
  <2>1. \A i \in 1..n : q[i - 1] \in Walk
    BY <1>0
  <2> QED BY <2>1
<1>4. Solves(q)
  <2>1. \A i \in 0..n : q[i] = IF i = 0 THEN Start(t) ELSE Follow(q[i - 1])
    <3> HIDE DEF g, n
    <3> QED BY <1>0, <1>2, <1>3
  <2>2. \A i \in 0..n : q[i] = IF i = 0 THEN [seen |-> {t}, new |-> retired[t]]
             ELSE LET w == q[i - 1]
                  IN  IF w.new \in DOMAIN retired /\ w.new \notin w.seen
                      THEN [seen |-> w.seen \cup {w.new}, new |-> retired[w.new]]
                      ELSE w
    BY <2>1 DEF Follow, Start
  <2> HIDE DEF n
  <2> QED BY <2>2
<1> DEFINE p == CHOOSE f : Solves(f)
<1>5. get_retired_turns(t) = p[n].new
  BY DEF get_retired_turns
<1>6. Solves(p)
  <2> HIDE DEF Solves
  <2> QED BY <1>4
<1> HIDE DEF p
<1>7. /\ p = [i \in 0..n |-> p[i]] /\ p[0] = Start(t)
      /\ \A i \in 1..n : p[i] = Follow(p[i - 1])
  <2> HIDE DEF n
  <2>1. p = [i \in 0..n |->
             IF i = 0 THEN [seen |-> {t}, new |-> retired[t]]
             ELSE LET w == p[i - 1]
                  IN  IF w.new \in DOMAIN retired /\ w.new \notin w.seen
                      THEN [seen |-> w.seen \cup {w.new}, new |-> retired[w.new]]
                      ELSE w]
    BY <1>6
  <2>2. p = [i \in 0..n |-> IF i = 0 THEN Start(t) ELSE Follow(p[i - 1])]
    BY <2>1, Zenon DEF Follow, Start
  <2>3. DOMAIN p = 0..n /\ \A i \in 0..n : p[i] = IF i = 0 THEN Start(t) ELSE Follow(p[i - 1])
    BY <2>2
  <2>4. p[0] = Start(t) /\ \A i \in 1..n : p[i] = Follow(p[i - 1])
    BY <1>0, <2>3
  <2>5. p = [i \in 0..n |-> p[i]]
    BY <2>2
  <2> QED BY <2>4, <2>5
<1>8. \A i \in 0..n : p[i] \in Walk
  <2> DEFINE T == {i \in 0..n : p[i] \in Walk}
  <2> HIDE DEF n
  <2>1. 0 \in T
    BY <1>0, <1>1, <1>7
  <2>2. ASSUME NEW i \in 0..n, i < n, i \in T
        PROVE  i + 1 \in T
    <3>1. i + 1 \in 1..n /\ (i + 1) - 1 = i
      BY <1>0, <2>2
    <3>2. p[i + 1] = Follow(p[i])
      BY <1>7, <3>1
    <3>3. p[i + 1] \in Walk
      BY <2>2, <3>2, FollowIs
    <3> QED BY <3>1, <3>3
  <2>3. 0..n \subseteq T
    <3> HIDE DEF T
    <3> QED BY <1>0, <2>1, <2>2, InductionUpTo
  <2> QED BY <2>3
<1>9. p \in [0..n -> Walk]
  <2> HIDE DEF n
  <2> QED BY <1>7, <1>8
<1> QED BY <1>5, <1>7, <1>9

\* What get_retired_turns returns is a text or a removal.
LEMMA RetiredType ==
  ASSUME edits \in Seq([before : Text, after : Text \cup {Gone}]), NEW t \in Text
  PROVE  get_retired_turns(t) \in Text \cup {Gone}
<1>1. CASE t \notin DOMAIN retired
  BY <1>1 DEF get_retired_turns
<1>2. CASE t \in DOMAIN retired
  <2>1. PICK p \in [0..Len(edits) -> Walk] : get_retired_turns(t) = p[Len(edits)].new
    BY <1>2, WalkSteps
  <2>2. Len(edits) \in Nat
    <3> DEFINE E == [before : Text, after : Text \cup {Gone}]
    <3>1. edits \in Seq(E)
      OBVIOUS
    <3> HIDE DEF E
    <3> QED BY <3>1
  <2>3. p[Len(edits)] \in Walk
    BY <2>1, <2>2
  <2> QED BY <2>1, <2>3 DEF Walk
<1> QED BY <1>1, <1>2

\* Unless an edit was undone, the walk ends at a text that no edit replaced:
\* each step goes to a later edit, and there are as many steps as edits.
LEMMA WalkEndsAtLatest ==
  ASSUME edits \in Seq([before : Text, after : Text \cup {Gone}]), Changes, ~Undone,
         NEW t \in Text
  PROVE  \A k \in DOMAIN edits : edits[k].before # get_retired_turns(t)
<1>0. Len(edits) \in Nat /\ DOMAIN edits = 1..Len(edits)
  <2> DEFINE E == [before : Text, after : Text \cup {Gone}]
  <2>1. edits \in Seq(E)
    OBVIOUS
  <2> HIDE DEF E
  <2> QED BY <2>1
<1>r. /\ DOMAIN retired = {edits[k].before : k \in DOMAIN edits}
      /\ \A x \in DOMAIN retired :
           \E k \in DOMAIN edits : LastEdit(x, k) /\ retired[x] = edits[k].after
  BY RetiredIs
<1>1. CASE t \notin DOMAIN retired
  BY <1>1, <1>r DEF get_retired_turns
<1>2. ASSUME NEW k \in DOMAIN edits, edits[k].after \in DOMAIN retired
      PROVE  \E j \in DOMAIN edits : LastEdit(edits[k].after, j) /\ j > k
  <2>1. PICK j \in DOMAIN edits : LastEdit(edits[k].after, j)
    BY <1>2, <1>r
  <2>2. edits[j].before = edits[k].after
    BY <2>1 DEF LastEdit
  <2>3. j # k
    BY <2>2 DEF Changes
  <2>4. ~(j < k)
    BY <2>2 DEF Undone
  <2> QED BY <1>0, <2>1, <2>3, <2>4
<1>3. ASSUME t \in DOMAIN retired PROVE get_retired_turns(t) \notin DOMAIN retired
  <2>1. PICK p \in [0..Len(edits) -> Walk] :
           /\ p[0] = Start(t)
           /\ \A i \in 1..Len(edits) : p[i] = Follow(p[i - 1])
           /\ get_retired_turns(t) = p[Len(edits)].new
    BY <1>3, WalkSteps
  <2> DEFINE Later(i) == p[i].new \in DOMAIN retired =>
               \E k \in DOMAIN edits :
                 /\ LastEdit(p[i].new, k) /\ k >= i + 2
                 /\ \A s \in p[i].seen : \E j \in DOMAIN edits : LastEdit(s, j) /\ j < k
             T == {i \in 0..Len(edits) : Later(i)}
  <2>2. 0 \in T
    <3>1. p[0].new = retired[t] /\ p[0].seen = {t}
      BY <2>1 DEF Start
    <3>2. PICK k \in DOMAIN edits : LastEdit(t, k) /\ retired[t] = edits[k].after
      BY <1>3, <1>r
    <3>3. ASSUME p[0].new \in DOMAIN retired
          PROVE  \E j \in DOMAIN edits : LastEdit(p[0].new, j) /\ j > k
      BY <1>2, <3>1, <3>2, <3>3
    <3>4. Later(0)
      BY <1>0, <3>1, <3>2, <3>3
    <3> HIDE DEF Later
    <3> QED BY <1>0, <3>4
  <2>3. ASSUME NEW i \in 0..Len(edits), i < Len(edits), i \in T
        PROVE  i + 1 \in T
    <3>0. i + 1 \in 1..Len(edits) /\ (i + 1) - 1 = i /\ Later(i)
      BY <1>0, <2>3
    <3>1. p[i + 1] = Follow(p[i])
      BY <2>1, <3>0
    <3>2. CASE p[i].new \notin DOMAIN retired
      <4>1. p[i + 1] = p[i]
        BY <3>1, <3>2 DEF Follow
      <4>2. Later(i + 1)
        BY <3>2, <4>1
      <4> HIDE DEF Later
      <4> QED BY <3>0, <4>2
    <3>3. CASE p[i].new \in DOMAIN retired
      <4>1. PICK k \in DOMAIN edits :
              /\ LastEdit(p[i].new, k) /\ k >= i + 2
              /\ \A s \in p[i].seen : \E j \in DOMAIN edits : LastEdit(s, j) /\ j < k
        BY <3>0, <3>3
      <4>2. p[i].new \notin p[i].seen
        <5> SUFFICES ASSUME p[i].new \in p[i].seen PROVE FALSE
          OBVIOUS
        <5>1. PICK j \in DOMAIN edits : LastEdit(p[i].new, j) /\ j < k
          BY <4>1
        <5>2. k <= j
          BY <4>1, <5>1 DEF LastEdit
        <5> QED BY <1>0, <5>1, <5>2
      <4>3. p[i + 1].seen = p[i].seen \cup {p[i].new} /\ p[i + 1].new = retired[p[i].new]
        BY <3>1, <3>3, <4>2 DEF Follow
      <4>4. retired[p[i].new] = edits[k].after
        <5>1. PICK l \in DOMAIN edits : LastEdit(p[i].new, l) /\ retired[p[i].new] = edits[l].after
          BY <1>r, <3>3
        <5>2. l <= k /\ k <= l
          BY <4>1, <5>1 DEF LastEdit
        <5> QED BY <1>0, <5>1, <5>2
      <4>5. ASSUME p[i + 1].new \in DOMAIN retired
            PROVE  \E j \in DOMAIN edits :
                     /\ LastEdit(p[i + 1].new, j) /\ j >= (i + 1) + 2
                     /\ \A s \in p[i + 1].seen : \E l \in DOMAIN edits : LastEdit(s, l) /\ l < j
        <5>1. PICK j \in DOMAIN edits : LastEdit(p[i + 1].new, j) /\ j > k
          BY <1>2, <4>3, <4>4, <4>5
        <5>2. \A s \in p[i].seen : \E l \in DOMAIN edits : LastEdit(s, l) /\ l < j
          BY <1>0, <4>1, <5>1
        <5>3. \A s \in p[i + 1].seen : \E l \in DOMAIN edits : LastEdit(s, l) /\ l < j
          BY <4>1, <4>3, <5>1, <5>2
        <5>4. j >= (i + 1) + 2
          BY <1>0, <4>1, <5>1
        <5> QED BY <5>1, <5>3, <5>4
      <4>6. Later(i + 1)
        BY <4>5
      <4> HIDE DEF Later
      <4> QED BY <3>0, <4>6
    <3> QED BY <3>2, <3>3
  <2>4. 0..Len(edits) \subseteq T
    <3> HIDE DEF T
    <3> QED BY <1>0, <2>2, <2>3, InductionUpTo
  <2>5. Later(Len(edits))
    <3> HIDE DEF Later
    <3> QED BY <1>0, <2>4
  <2> QED BY <1>0, <2>1, <2>5
<1> QED BY <1>1, <1>3, <1>r

-----------------------------------------------------------------------------
(* The edits.                                                              *)

\* What the three edits have in common: they change the text of ids, queue
\* the segments held, which are all that contain one of ids, withhold their
\* facts, and delete the segments gone.
Edited(ids, held, gone) ==
  /\ _record_edit_lock /\ ids \subseteq RowId
  /\ held \subseteq Ref /\ gone \subseteq held
  /\ Live' \subseteq Live /\ \A i \in Live \ ids : text'[i] = text[i]
  /\ \A r \in Ref : seg[r].ids \cap ids # {} => r \in held
  /\ \A r \in held : seg[r] # NoSeg
  /\ \A r \in gone : seg'[r] = NoSeg /\ fact'[r] = NoFact
  /\ \A r \in Ref \ gone :
       /\ seg'[r].ids = seg[r].ids /\ seg'[r].texts = seg[r].texts
       /\ seg[r] = NoSeg => seg'[r] = NoSeg
       /\ r \in tainted'.segs <=> r \in tainted.segs
       /\ r \in tainted'.facts <=> r \in tainted.facts
       /\ r \in tainted'.kept <=> r \in tainted.kept
  /\ \A r \in held : fact'[r].state # "served"
  /\ \A r \in Ref \ held : fact'[r] = fact[r]
  /\ \E o \in OpId :
       /\ op[o].status = "unused" /\ \A p \in OpId \ {o} : op'[p] = op[p]
       /\ op'[o].failed = {} /\ op'[o].done = {}
       /\ op'[o].status = "pending" \/ (op'[o].status = "completed" /\ held = {})
       /\ \A r \in Ref : op'[o].queue[r] = IF r \in held THEN seg[r].ids ELSE {}
  /\ job' = Overtaken(ids, held)
  /\ UNCHANGED <<used, stamp, dead, faults, replay>>

\* What opening an edit does to the facts and the operations.
Opened(held, gone) ==
  /\ fact' \in [Ref -> [state : {"none", "served", "retracted"}, texts : SUBSET Text]]
  /\ op' \in [OpId -> Operation]
  /\ \A r \in gone : fact'[r] = NoFact
  /\ \A r \in held : fact'[r].state # "served"
  /\ \A r \in Ref \ held : fact'[r] = fact[r]
  /\ \E o \in OpId :
       /\ op[o].status = "unused" /\ \A p \in OpId \ {o} : op'[p] = op[p]
       /\ op'[o].failed = {} /\ op'[o].done = {}
       /\ op'[o].status = "pending" \/ (op'[o].status = "completed" /\ held = {})
       /\ \A r \in Ref : op'[o].queue[r] = IF r \in held THEN seg[r].ids ELSE {}

LEMMA OpenIs ==
  ASSUME Types, NEW held \in SUBSET Ref, NEW gone \in SUBSET held,
         NEW retag \in SUBSET RowId, NEW topics \in SUBSET Topic,
         _open_record_edit(held, gone, retag, topics)
  PROVE  Opened(held, gone)
<1> DEFINE F == [state : {"none", "served", "retracted"}, texts : SUBSET Text]
<1>1. fact \in [Ref -> F] /\ op \in [OpId -> Operation]
  BY DEF Types
<1>2. \A r \in Ref : seg[r].ids \in SUBSET RowId
  BY DEF Types
<1>3. NoFact \in F /\ NoFact.state = "none"
  BY DEF NoFact
<1>4. \A r \in Ref : [fact[r] EXCEPT !.state = "retracted"] \in F
                     /\ [fact[r] EXCEPT !.state = "retracted"].state = "retracted"
  BY <1>1
<1>5. fact' = [r \in Ref |->
       IF r \in gone THEN NoFact
       ELSE IF r \in held /\ fact[r].state = "served"
            THEN [fact[r] EXCEPT !.state = "retracted"] ELSE fact[r]]
  BY DEF _open_record_edit
<1>6. fact' \in [Ref -> F]
  <2> HIDE DEF F
  <2> QED BY <1>1, <1>3, <1>4, <1>5
<1>7. /\ \A r \in gone : fact'[r] = NoFact
      /\ \A r \in held : fact'[r].state # "served"
      /\ \A r \in Ref \ held : fact'[r] = fact[r]
  BY <1>3, <1>4, <1>5
<1> DEFINE new == IF held = {} /\ retag = {} THEN Completed
            ELSE [NoEdit EXCEPT
                    !.status = "pending", !.retag = retag, !.forgotten = topics,
                    !.queue = [r \in Ref |-> IF r \in held THEN seg[r].ids ELSE {}]]
<1>8. PICK o \in OpId : op[o].status = "unused" /\ op' = [op EXCEPT ![o] = new]
  BY DEF _open_record_edit
<1>9. /\ new \in Operation /\ new.failed = {} /\ new.done = {}
      /\ new.status = "pending" \/ (new.status = "completed" /\ held = {})
      /\ \A r \in Ref : new.queue[r] = IF r \in held THEN seg[r].ids ELSE {}
  <2>1. CASE held = {} /\ retag = {}
    <3>1. new = [status |-> "completed", queue |-> [r \in Ref |-> {}], done |-> {},
                 failed |-> {}, retag |-> {}, forgotten |-> {}]
      BY <2>1 DEF NoEdit, Completed
    <3> HIDE DEF new
    <3> QED BY <2>1, <3>1 DEF Operation, Status
  <2>2. CASE ~(held = {} /\ retag = {})
    <3> DEFINE q == [r \in Ref |-> IF r \in held THEN seg[r].ids ELSE {}]
    <3>1. new = [status |-> "pending", queue |-> q, done |-> {},
                 failed |-> {}, retag |-> retag, forgotten |-> topics]
      BY <2>2 DEF NoEdit
    <3>2. q \in [Ref -> SUBSET RowId]
      BY <1>2
    <3>3. \A r \in Ref : q[r] = IF r \in held THEN seg[r].ids ELSE {}
      OBVIOUS
    <3> HIDE DEF new, q
    <3> QED BY <3>1, <3>2, <3>3 DEF Operation, Status
  <2> QED BY <2>1, <2>2
<1> HIDE DEF new
<1>10. op' \in [OpId -> Operation] /\ op'[o] = new /\ \A p \in OpId \ {o} : op'[p] = op[p]
  BY <1>1, <1>8, <1>9
<1> QED BY <1>6, <1>7, <1>8, <1>9, <1>10 DEF Opened

\* Being overtaken changes nothing else of a run.
LEMMA OvertakenIs ==
  ASSUME Types, NEW ids, NEW held, job' = Overtaken(ids, held)
  PROVE  /\ job' \in Job
         /\ job'.by = job.by /\ job'.pc = job.pc /\ job'.op = job.op /\ job'.ref = job.ref
         /\ job'.ids = job.ids /\ job'.mine = job.mine /\ job'.texts = job.texts
         /\ job'.tags = job.tags /\ job'.todo = job.todo
         /\ ~job'.stale => /\ ~job.stale
                           /\ Writing => job.ids \cap ids = {} /\ job.ref \cap held = {}
         /\ ~Writing => job'.stale = job.stale
<1>1. job \in Job
  BY DEF Types
<1> DEFINE s == job.stale \/ /\ job.pc \in {"stub", "seg", "facts"}
                             /\ job.ids \cap ids # {} \/ job.ref \cap held # {}
<1>2. job' = [job EXCEPT !.stale = s]
  BY DEF Overtaken
<1>3. s \in BOOLEAN
  BY <1>1 DEF Job
<1>4. /\ ~s => /\ ~job.stale
               /\ Writing => job.ids \cap ids = {} /\ job.ref \cap held = {}
      /\ ~Writing => s = job.stale
  BY <1>1 DEF Writing, Job
<1> HIDE DEF s
<1> QED BY <1>1, <1>2, <1>3, <1>4 DEF Job

\* Which segments an edit holds are stored.
LEMMA HoldingIs ==
  ASSUME NEW ids, NEW topics
  PROVE  /\ _segments_holding(ids, topics) \subseteq Ref
         /\ \A r \in Ref : seg[r].ids \cap ids # {} => r \in _segments_holding(ids, topics)
         /\ \A r \in _segments_holding(ids, topics) : seg[r] # NoSeg
BY DEF _segments_holding, NoSeg

LEMMA EditIsEdited ==
  ASSUME Types, Changes, NEW i \in RowId, NEW v \in Version, edit_canonical_turn(i, v)
  PROVE  Types' /\ Changes' /\ \E ids, held, gone : Edited(ids, held, gone)
<1> DEFINE held == _segments_holding({i}, {})
<1>0. /\ held \subseteq Ref /\ \A r \in Ref : seg[r].ids \cap {i} # {} => r \in held
      /\ \A r \in held : seg[r] # NoSeg
  BY HoldingIs
<1>1. /\ i \in Live /\ text[i] \in Text /\ <<text[i][1], v>> \in Text
      /\ <<text[i][1], v>> # text[i]
  BY RowFacts, TextIs DEF edit_canonical_turn
<1>2. text' = [text EXCEPT ![i] = <<text[i][1], v>>]
  BY DEF edit_canonical_turn
<1>3. _open_record_edit(held, {}, {i}, {}) /\ job' = Overtaken({i}, held)
  BY DEF edit_canonical_turn
<1>u. /\ UNCHANGED <<tags, packed, used, seg, stamp, dead, faults, replay, tainted>>
      /\ _record_edit_lock
      /\ edits' = Append(edits, Audit(text[i], <<text[i][1], v>>))
  BY DEF edit_canonical_turn
<1> HIDE DEF held
<1>4. /\ text' \in [RowId -> Text \cup {Gone}]
      /\ \A j \in RowId \ {i} : text'[j] = text[j]
      /\ text'[i] \in Text /\ text'[i] # Gone
  BY <1>1, <1>2, RowFacts DEF Types
<1>5. Live' = Live
  BY <1>1, <1>4 DEF Live
<1>6. Opened(held, {})
  <2>1. {i} \in SUBSET RowId /\ {} \in SUBSET Topic /\ held \in SUBSET Ref /\ {} \in SUBSET held
    BY <1>0
  <2> QED BY <1>3, <2>1, OpenIs, Zenon
<1>7. job' \in Job
  BY <1>3, OvertakenIs
<1>8. edits' \in Seq([before : Text, after : Text \cup {Gone}]) /\ Changes'
  BY <1>1, <1>u, AppendAudit
<1>9. \A j \in RowId : j > used => text'[j] = Gone
  BY <1>1, <1>4 DEF Types, Live
<1>10. Types'
  BY <1>4, <1>5, <1>6, <1>7, <1>8, <1>9, <1>u DEF Types, Opened
<1>11. Edited({i}, held, {})
  BY <1>0, <1>3, <1>4, <1>5, <1>6, <1>u, RowFacts DEF Edited, Opened
<1> QED BY <1>8, <1>10, <1>11

LEMMA RemoveIsEdited ==
  ASSUME Types, Changes, NEW i \in RowId, remove_canonical_turn(i)
  PROVE  Types' /\ Changes' /\ \E ids, held, gone : Edited(ids, held, gone)
<1> DEFINE held == _segments_holding({i}, {})
<1>0. /\ held \subseteq Ref /\ \A r \in Ref : seg[r].ids \cap {i} # {} => r \in held
      /\ \A r \in held : seg[r] # NoSeg
  BY HoldingIs
<1>1. i \in Live /\ text[i] \in Text /\ text[i] # Gone
  BY RowFacts DEF remove_canonical_turn
<1>2. /\ text' = [text EXCEPT ![i] = Gone] /\ tags' = [tags EXCEPT ![i] = {}]
      /\ packed' = packed \ {i}
  BY DEF remove_canonical_turn
<1>3. _open_record_edit(held, {}, {}, {}) /\ job' = Overtaken({i}, held)
  BY DEF remove_canonical_turn
<1>u. /\ UNCHANGED <<used, seg, stamp, dead, faults, replay, tainted>>
      /\ _record_edit_lock
      /\ edits' = Append(edits, Audit(text[i], Gone))
  BY DEF remove_canonical_turn
<1> HIDE DEF held
<1>4. /\ text' \in [RowId -> Text \cup {Gone}] /\ tags' \in [RowId -> SUBSET Topic]
      /\ \A j \in RowId \ {i} : text'[j] = text[j]
      /\ text'[i] = Gone
  BY <1>2 DEF Types
<1>5. Live' = Live \ {i}
  BY <1>1, <1>4 DEF Live
<1>6. Opened(held, {})
  <2>1. {} \in SUBSET RowId /\ {} \in SUBSET Topic /\ held \in SUBSET Ref /\ {} \in SUBSET held
    BY <1>0
  <2> QED BY <1>3, <2>1, OpenIs, Zenon
<1>7. job' \in Job
  BY <1>3, OvertakenIs
<1>8. edits' \in Seq([before : Text, after : Text \cup {Gone}]) /\ Changes'
  BY <1>1, <1>u, AppendAudit
<1>9. \A j \in RowId : j > used => text'[j] = Gone
  BY <1>1, <1>4 DEF Types
<1>10. packed' \subseteq Live'
  BY <1>2, <1>5 DEF Types
<1>11. Types'
  BY <1>4, <1>6, <1>7, <1>8, <1>9, <1>10, <1>u DEF Types, Opened
<1>12. Edited({i}, held, {})
  BY <1>0, <1>3, <1>4, <1>5, <1>6, <1>u, RowFacts DEF Edited, Opened
<1> QED BY <1>8, <1>11, <1>12

\* What forgetting does to the histories.
LEMMA WithoutIs ==
  ASSUME Types, NEW refs
  PROVE  /\ Without(refs) \in Taints
         /\ Without(refs).segs = tainted.segs \ refs
         /\ Without(refs).facts = tainted.facts \ refs
         /\ Without(refs).kept = tainted.kept \ refs
<1>1. tainted \in Taints
  BY DEF Types
<1>2. DOMAIN tainted = {"segs", "facts", "kept"}
  BY <1>1 DEF Taints
<1>3. Without(refs) = [f \in {"segs", "facts", "kept"} |-> tainted[f] \ refs]
  BY <1>2 DEF Without
<1>4. /\ Without(refs)["segs"] = tainted.segs \ refs
      /\ Without(refs)["facts"] = tainted.facts \ refs
      /\ Without(refs)["kept"] = tainted.kept \ refs
  BY <1>3
<1>5. Without(refs) = [segs |-> tainted.segs \ refs, facts |-> tainted.facts \ refs,
                       kept |-> tainted.kept \ refs]
  BY <1>3, <1>4
<1> QED BY <1>1, <1>5 DEF Taints

LEMMA ForgetIsEdited ==
  ASSUME Types, Changes, NEW t \in Topic, forget_topic_records(t)
  PROVE  Types' /\ Changes' /\ \E ids, held, gone : Edited(ids, held, gone)
<1> DEFINE touched == {i \in Live : t \in tags[i]}
           removed == {i \in touched : tags[i] = {t}}
           held == _segments_holding(touched, {t})
<1>0. /\ held \subseteq Ref /\ \A r \in Ref : seg[r].ids \cap touched # {} => r \in held
      /\ \A r \in held : seg[r] # NoSeg
  BY HoldingIs
<1>1. /\ removed \subseteq touched /\ touched \subseteq Live /\ Live \subseteq RowId
  BY RowFacts
<1>2. /\ text' = [i \in RowId |-> IF i \in removed THEN Gone ELSE text[i]]
      /\ tags' = [i \in RowId |-> tags[i] \ {t}]
      /\ packed' = packed \ removed
      /\ edits' = edits \o [k \in 1..Cardinality(removed) |->
                              Audit(text[SetToSeq(removed)[k]], Gone)]
      /\ job' = Overtaken(touched, held)
      /\ UNCHANGED <<used, stamp, dead, faults, replay>> /\ _record_edit_lock
  BY DEF forget_topic_records
<1>3. PICK gone \in SUBSET held :
           /\ seg' = [r \in Ref |->
                IF r \in gone THEN NoSeg
                ELSE [seg[r] EXCEPT !.tags = @ \ {t}]]
           /\ _open_record_edit(held, gone, {}, {t})
           /\ tainted' = Without(gone)
  BY DEF forget_topic_records
<1> HIDE DEF held, removed, touched
<1>4. /\ text' \in [RowId -> Text \cup {Gone}] /\ tags' \in [RowId -> SUBSET Topic]
      /\ \A i \in RowId \ removed : text'[i] = text[i]
      /\ \A i \in removed : text'[i] = Gone
  BY <1>1, <1>2 DEF Types
<1>5. Live' = Live \ removed
  BY <1>1, <1>4 DEF Live
<1>6. Opened(held, gone)
  <2>1. {} \in SUBSET RowId /\ {t} \in SUBSET Topic /\ held \in SUBSET Ref /\ gone \in SUBSET held
    BY <1>0
  <2> QED BY <1>3, <2>1, OpenIs, Zenon
<1>7. job' \in Job
  BY <1>2, OvertakenIs
<1>8. edits' \in Seq([before : Text, after : Text \cup {Gone}]) /\ Changes'
  <2>1. removed \in SUBSET Live
    BY <1>1
  <2> QED BY <1>2, <2>1, AuditRemoved
<1>9. \A j \in RowId : j > used => text'[j] = Gone
  BY <1>4 DEF Types
<1>10. packed' \subseteq Live'
  BY <1>2, <1>5 DEF Types
<1> DEFINE S == [ids : SUBSET RowId, texts : SUBSET Text, tags : SUBSET Topic]
<1>11. seg \in [Ref -> S] /\ NoSeg \in S
  BY DEF Types, NoSeg
<1>12. \A r \in Ref : LET x == [seg[r] EXCEPT !.tags = @ \ {t}]
                      IN  /\ x \in S /\ x.ids = seg[r].ids /\ x.texts = seg[r].texts
                          /\ seg[r] = NoSeg => x = NoSeg
  <2> TAKE r \in Ref
  <2>1. seg[r] \in S
    BY <1>11
  <2> DEFINE x == [seg[r] EXCEPT !.tags = @ \ {t}]
  <2>2. x \in S /\ x.ids = seg[r].ids /\ x.texts = seg[r].texts /\ x.tags = seg[r].tags \ {t}
    BY <2>1
  <2>3. ASSUME seg[r] = NoSeg PROVE x = NoSeg
    BY <2>3 DEF NoSeg
  <2> QED BY <2>2, <2>3
<1>13. /\ seg' \in [Ref -> S] /\ \A r \in gone : seg'[r] = NoSeg
       /\ \A r \in Ref \ gone : /\ seg'[r].ids = seg[r].ids /\ seg'[r].texts = seg[r].texts
                                /\ seg[r] = NoSeg => seg'[r] = NoSeg
  <2> HIDE DEF S
  <2>1. gone \subseteq Ref
    BY <1>0, <1>3
  <2> QED BY <1>3, <1>11, <1>12, <2>1
<1>14. /\ tainted' \in Taints /\ tainted'.segs = tainted.segs \ gone
       /\ tainted'.facts = tainted.facts \ gone /\ tainted'.kept = tainted.kept \ gone
  BY <1>3, WithoutIs
<1>15. Types'
  BY <1>2, <1>4, <1>6, <1>7, <1>8, <1>9, <1>10, <1>13, <1>14 DEF Types, Opened
<1>16. touched \subseteq RowId /\ Live' \subseteq Live /\ gone \subseteq held
       /\ \A i \in Live \ touched : text'[i] = text[i]
  BY <1>1, <1>3, <1>4, <1>5
<1>17. Edited(touched, held, gone)
  BY <1>0, <1>2, <1>6, <1>13, <1>14, <1>16 DEF Edited, Opened
<1> QED BY <1>8, <1>15, <1>17

\* What waits for a rebuild, segment by segment.
LEMMA WaitingIs ==
  \A r \in Ref : r \in Waiting <=>
    \E o \in OpId : op[o].status # "completed" /\ op[o].queue[r] # {} /\ r \notin op[o].done
BY DEF Waiting, Queue

\* An edit keeps what the invariant says of the derived state and the run.
LEMMA EditedKeeps ==
  ASSUME Types, Types', Operations, Segments, Run, Rebuilds, Target, Supported,
         DerivedFollowsRecord, NEW ids, NEW held, NEW gone, Edited(ids, held, gone)
  PROVE  /\ Operations' /\ Segments' /\ Run' /\ Rebuilds' /\ Target'
         /\ Supported' /\ DerivedFollowsRecord'
<1>e. /\ _record_edit_lock /\ ids \subseteq RowId
      /\ held \subseteq Ref /\ gone \subseteq held
      /\ Live' \subseteq Live /\ \A i \in Live \ ids : text'[i] = text[i]
      /\ \A r \in Ref : seg[r].ids \cap ids # {} => r \in held
      /\ \A r \in held : seg[r] # NoSeg
      /\ \A r \in gone : seg'[r] = NoSeg /\ fact'[r] = NoFact
      /\ \A r \in Ref \ gone :
           /\ seg'[r].ids = seg[r].ids /\ seg'[r].texts = seg[r].texts
           /\ seg[r] = NoSeg => seg'[r] = NoSeg
           /\ r \in tainted'.segs <=> r \in tainted.segs
           /\ r \in tainted'.facts <=> r \in tainted.facts
           /\ r \in tainted'.kept <=> r \in tainted.kept
      /\ \A r \in held : fact'[r].state # "served"
      /\ \A r \in Ref \ held : fact'[r] = fact[r]
      /\ dead' = dead
  BY DEF Edited
<1>j. /\ job'.by = job.by /\ job'.pc = job.pc /\ job'.op = job.op /\ job'.ref = job.ref
      /\ job'.ids = job.ids /\ job'.texts = job.texts
      /\ ~job'.stale => /\ ~job.stale
                        /\ Writing => job.ids \cap ids = {} /\ job.ref \cap held = {}
  BY OvertakenIs DEF Edited
<1>t. \A S \in SUBSET Live : S \cap ids = {} =>
        S \subseteq Live' /\ {text'[i] : i \in S} = {text[i] : i \in S}
  <2> TAKE S \in SUBSET Live
  <2> HAVE S \cap ids = {}
  <2>1. \A i \in S : text'[i] = text[i] /\ i \in RowId /\ text[i] # Gone
    BY <1>e DEF Live
  <2> QED BY <2>1 DEF Live
<1>n. NoSeg.ids = {} /\ NoFact.state = "none"
  BY DEF NoSeg, NoFact
<1>s. \A r \in Ref : seg'[r] # NoSeg <=> r \notin gone /\ seg[r] # NoSeg
  BY <1>e, <1>n DEF Segments
<1>o. PICK o \in OpId :
       /\ op[o].status = "unused" /\ \A p \in OpId \ {o} : op'[p] = op[p]
       /\ op'[o].failed = {} /\ op'[o].done = {}
       /\ op'[o].status = "pending" \/ (op'[o].status = "completed" /\ held = {})
       /\ \A r \in Ref : op'[o].queue[r] = IF r \in held THEN seg[r].ids ELSE {}
  BY DEF Edited
<1>0. job.op = 0
  <2>1. job.op # 0 => job.op \in OpId /\ op[job.op].status = "running"
    BY RowFacts DEF Rebuilds, Types, Job, OpId
  <2> QED BY <1>e, <2>1 DEF _record_edit_lock, Active
<1>w. \A r \in Ref \ Waiting' : r \notin Waiting /\ r \notin held
  <2> SUFFICES ASSUME NEW r \in Ref, r \notin Waiting' PROVE r \notin Waiting /\ r \notin held
    OBVIOUS
  <2>1. \A p \in OpId : ~(op'[p].status # "completed" /\ op'[p].queue[r] # {}
                          /\ r \notin op'[p].done)
    BY DEF Waiting, Queue
  <2>2. r \notin held
    <3> SUFFICES ASSUME r \in held PROVE FALSE
      OBVIOUS
    <3>1. seg[r].ids # {}
      BY <1>e DEF Segments
    <3> QED BY <1>o, <2>1, <3>1
  <2>3. op[o].queue[r] = {}
    BY <1>o DEF Operations, Queue
  <2>4. \A p \in OpId : ~(op[p].status # "completed" /\ op[p].queue[r] # {}
                          /\ r \notin op[p].done)
    BY <1>o, <2>1, <2>3
  <2> QED BY <2>2, <2>4, WaitingIs
<1>1. Operations'
  <2>1. \A p \in OpId \ {o} : Queue(p)' = Queue(p)
    BY <1>o DEF Queue
  <2> QED BY <1>o, <2>1 DEF Operations
<1>2. Segments'
  BY <1>e, <1>n DEF Segments
<1>3. Run'
  <2>1. Writing' => /\ job'.ids # {}
                    /\ ~job'.stale => /\ job'.ids \subseteq Live'
                                      /\ job'.texts = {text'[i] : i \in job'.ids}
    <3>1. Writing' = Writing
      BY <1>j DEF Writing
    <3>2. ASSUME Writing, ~job'.stale
          PROVE  job'.ids \subseteq Live' /\ job'.texts = {text'[i] : i \in job'.ids}
      <4>1. job.ids \in SUBSET Live /\ job.texts = {text[i] : i \in job.ids} /\ job.ids \cap ids = {}
        BY <1>j, <3>2 DEF Run, TextsOf
      <4> QED BY <1>j, <1>t, <4>1
    <3> QED BY <1>j, <3>1, <3>2 DEF Run
  <2> QED BY <1>e, <1>j, <2>1 DEF Run, TextsOf
<1>4. Rebuilds'
  BY <1>0, <1>j DEF Rebuilds
<1>5. Target'
  <2> SUFFICES ASSUME NEW r \in job.ref
               PROVE  /\ job.pc \in {"stub", "seg"} =>
                           /\ seg'[r].ids \subseteq job.ids
                           /\ seg'[r] = NoSeg => fact'[r] = NoFact
                      /\ job.pc = "facts" /\ ~job'.stale =>
                           seg'[r].ids = job.ids /\ seg'[r].texts = job.texts
    BY <1>0, <1>j DEF Target
  <2>0. r \in Ref
    BY DEF Types, Job
  <2>1. ASSUME job.pc \in {"stub", "seg"}
        PROVE  seg'[r].ids \subseteq job.ids /\ (seg'[r] = NoSeg => fact'[r] = NoFact)
    <3>1. seg[r].ids \subseteq job.ids /\ (seg[r] = NoSeg => fact[r] = NoFact)
      BY <1>0, <2>1 DEF Target
    <3>2. CASE r \in gone
      BY <1>e, <1>n, <3>2
    <3>3. CASE r \notin gone
      BY <1>e, <1>s, <2>0, <3>1, <3>3
    <3> QED BY <3>2, <3>3
  <2>2. ASSUME job.pc = "facts", ~job'.stale
        PROVE  seg'[r].ids = job.ids /\ seg'[r].texts = job.texts
    <3>1. r \notin held /\ ~job.stale
      BY <1>j, <2>2 DEF Writing
    <3> QED BY <1>e, <2>0, <2>2, <3>1 DEF Target
  <2> QED BY <2>1, <2>2
<1>6. Supported'
  <2> SUFFICES ASSUME NEW r \in Ref, r \notin tainted'.facts,
                      fact'[r].state = "served"
               PROVE  /\ seg'[r] # NoSeg
                      /\ fact'[r].texts \subseteq {text'[i] : i \in seg'[r].ids \cap Live'}
    BY DEF Supported, TextsOf
  <2>1. r \notin held /\ r \notin gone /\ fact'[r] = fact[r] /\ r \notin tainted.facts
    BY <1>e
  <2>2. seg[r] # NoSeg /\ fact[r].texts \subseteq {text[i] : i \in seg[r].ids \cap Live}
    BY <2>1 DEF Supported, TextsOf
  <2>3. (seg[r].ids \cap Live) \cap ids = {}
    BY <1>e, <2>1
  <2>4. /\ seg[r].ids \cap Live \subseteq Live'
        /\ {text'[i] : i \in seg[r].ids \cap Live} = {text[i] : i \in seg[r].ids \cap Live}
    BY <1>t, <2>3
  <2>5. seg[r].ids \cap Live' = seg[r].ids \cap Live /\ seg'[r].ids = seg[r].ids
    BY <1>e, <2>1, <2>4
  <2> QED BY <1>s, <2>1, <2>2, <2>4, <2>5
<1>7. DerivedFollowsRecord'
  <2> SUFFICES ASSUME NEW r \in Ref \ Waiting', seg'[r] # NoSeg
               PROVE  /\ r \notin tainted'.segs =>
                           /\ seg'[r].ids \subseteq Live'
                           /\ seg'[r].texts = {text'[i] : i \in seg'[r].ids}
                      /\ fact'[r].state = "retracted" => r \in tainted'.kept
    BY DEF DerivedFollowsRecord, TextsOf
  <2>1. /\ r \notin held /\ r \notin gone /\ r \in Ref \ Waiting /\ seg[r] # NoSeg
        /\ fact'[r] = fact[r] /\ seg'[r].ids = seg[r].ids /\ seg'[r].texts = seg[r].texts
        /\ r \in tainted'.segs <=> r \in tainted.segs
        /\ r \in tainted'.kept <=> r \in tainted.kept
    BY <1>e, <1>s, <1>w
  <2>2. /\ r \notin tainted.segs => /\ seg[r].ids \subseteq Live
                                    /\ seg[r].texts = {text[i] : i \in seg[r].ids}
        /\ fact[r].state = "retracted" => r \in tainted.kept
    BY <2>1 DEF DerivedFollowsRecord, TextsOf
  <2>3. seg[r].ids \cap ids = {}
    BY <1>e, <2>1
  <2> QED BY <1>t, <2>1, <2>2, <2>3
<1> QED BY <1>1, <1>2, <1>3, <1>4, <1>5, <1>6, <1>7

-----------------------------------------------------------------------------
(* The host.                                                               *)

\* The record only gains rows.
Gains == /\ Live \subseteq Live' /\ \A i \in Live : text'[i] = text[i]

LEMMA GainsTexts ==
  ASSUME Gains
  PROVE  \A S : S \subseteq Live =>
           S \subseteq Live' /\ {text'[i] : i \in S} = {text[i] : i \in S}
<1> SUFFICES ASSUME NEW S, S \subseteq Live
             PROVE  S \subseteq Live' /\ {text'[i] : i \in S} = {text[i] : i \in S}
  OBVIOUS
<1>1. \A i \in S : text'[i] = text[i]
  BY DEF Gains
<1> QED BY <1>1 DEF Gains

\* What the invariant says of a derived state that stays as it is.
LEMMA GainsKeeps ==
  ASSUME Types, Types', Operations, Segments, Run, Rebuilds, Target, Supported,
         DerivedFollowsRecord, Gains, UNCHANGED <<seg, fact, op, job, dead, tainted>>
  PROVE  /\ Operations' /\ Segments' /\ Run' /\ Rebuilds' /\ Target'
         /\ Supported' /\ DerivedFollowsRecord'
<1>t. \A S : S \subseteq Live =>
           S \subseteq Live' /\ {text'[i] : i \in S} = {text[i] : i \in S}
  BY GainsTexts
<1>q. Waiting' = Waiting /\ \A o \in OpId : Queue(o)' = Queue(o)
  BY DEF Waiting, Queue
<1>1. Operations' /\ Segments'
  BY <1>q DEF Operations, Segments
<1>2. Run'
  <2>1. Writing' /\ ~job.stale => job.ids \subseteq Live'
                                  /\ job.texts = {text'[i] : i \in job.ids}
    BY <1>t DEF Writing, Run, TextsOf
  <2> QED BY <2>1 DEF Run, Writing, TextsOf
<1>3. Rebuilds'
  BY <1>q DEF Rebuilds, Queue
<1>4. Target'
  <2>1. \A r \in job.ref : job.op # 0 /\ job.pc \in {"trust", "verify", "done"}
                             /\ seg[r] # NoSeg =>
          /\ seg[r].ids \subseteq Live' /\ seg[r].texts = {text'[i] : i \in seg[r].ids}
    BY <1>t DEF Target, TextsOf
  <2> QED BY <2>1 DEF Target, TextsOf
<1>5. Supported'
  <2>1. \A r \in Ref : seg[r].ids \cap Live \subseteq seg[r].ids \cap Live'
                       /\ {text[i] : i \in seg[r].ids \cap Live}
                            \subseteq {text'[i] : i \in seg[r].ids \cap Live'}
    <3> TAKE r \in Ref
    <3>1. /\ seg[r].ids \cap Live \subseteq Live'
          /\ {text'[i] : i \in seg[r].ids \cap Live} = {text[i] : i \in seg[r].ids \cap Live}
      BY <1>t
    <3> QED BY <3>1
  <2> QED BY <2>1 DEF Supported, TextsOf
<1>6. DerivedFollowsRecord'
  BY <1>q, <1>t DEF DerivedFollowsRecord, TextsOf
<1> QED BY <1>1, <1>2, <1>3, <1>4, <1>5, <1>6

\* A new row takes an id that was never given out.
LEMMA NewRowGains ==
  ASSUME Types, NEW t \in Text, NewRow(t)
  PROVE  /\ text' \in [RowId -> Text \cup {Gone}] /\ tags' \in [RowId -> SUBSET Topic]
         /\ used' \in 0 .. MaxRow /\ \A i \in RowId : i > used' => text'[i] = Gone
         /\ Gains /\ used' = used + 1 /\ text'[used'] = t
<1>1. used \in Nat /\ used < MaxRow /\ used' = used + 1 /\ used' \in RowId /\ MaxRow \in Nat
  BY RowFacts DEF NewRow, RowId
<1>2. text' = [text EXCEPT ![used'] = t]
  BY DEF NewRow
<1>3. PICK new \in SUBSET Topic : tags' = [tags EXCEPT ![used'] = new]
  BY DEF NewRow
<1>4. text[used'] = Gone
  BY <1>1 DEF Types
<1>5. /\ text' \in [RowId -> Text \cup {Gone}] /\ text'[used'] = t
      /\ \A i \in RowId \ {used'} : text'[i] = text[i]
  BY <1>1, <1>2 DEF Types
<1>6. tags' \in [RowId -> SUBSET Topic]
  BY <1>3 DEF Types
<1>7. Gains
  <2>1. used' \notin Live /\ Live \subseteq RowId
    BY <1>4 DEF Live
  <2>2. \A i \in Live : text'[i] = text[i] /\ i \in Live'
    BY <1>5, <2>1 DEF Live
  <2> QED BY <2>2 DEF Gains
<1>8. \A i \in RowId : i > used' => text'[i] = Gone
  <2>1. RowId \subseteq Nat
    BY DEF RowId
  <2> QED BY <1>1, <1>5, <2>1 DEF Types
<1>9. used' \in 0 .. MaxRow
  BY <1>1
<1> QED BY <1>1, <1>5, <1>6, <1>7, <1>8, <1>9

LEMMA HostKeeps ==
  ASSUME Types, Changes, Operations, Segments, Run, Rebuilds, Target, Supported,
         DerivedFollowsRecord,
         (\E m \in Msg : ingest_single(m) \/ ReplayLoad(m)) \/ _apply_record_edits
  PROVE  EditInv'
<1>1. UNCHANGED <<packed, edits, seg, fact, op, job, stamp, dead, faults, tainted>>
  BY DEF ingest_single, ReplayLoad, _apply_record_edits, recordVars, derived
<1>2. replay' \in [msg : SUBSET Msg, existing : SUBSET Text]
  <2>1. NoReplay \in [msg : SUBSET Msg, existing : SUBSET Text]
    BY DEF NoReplay
  <2>2. \A m \in Msg : [msg |-> {m}, existing |-> TextsOf(Live)]
                         \in [msg : SUBSET Msg, existing : SUBSET Text]
    BY RowFacts
  <2>3. replay \in [msg : SUBSET Msg, existing : SUBSET Text]
    BY DEF Types
  <2> QED BY <2>1, <2>2, <2>3 DEF ingest_single, ReplayLoad, _apply_record_edits
<1>3. UNCHANGED <<text, tags, used>> \/ \E t \in Text : NewRow(t)
  <2>1. ASSUME NEW m \in Msg, ingest_single(m) PROVE \E t \in Text : NewRow(t)
    BY <2>1, OriginalIs DEF ingest_single
  <2>2. ASSUME NEW m \in Msg, ReplayLoad(m) PROVE UNCHANGED <<text, tags, used>>
    BY <2>2 DEF ReplayLoad, recordVars
  <2>3. ASSUME _apply_record_edits
        PROVE  UNCHANGED <<text, tags, used>> \/ \E t \in Text : NewRow(t)
    <3>1. PICK m \in replay.msg :
            LET t == get_retired_turns(Original(m))
            IN  IF t = Gone \/ t \in replay.existing
                THEN UNCHANGED <<text, tags, used>>
                ELSE NewRow(t)
      BY <2>3 DEF _apply_record_edits
    <3>2. m \in Msg
      BY DEF Types
    <3>3. get_retired_turns(Original(m)) \in Text \cup {Gone}
      BY <3>2, OriginalIs, RetiredType DEF Types
    <3> QED BY <3>1, <3>3
  <2> QED BY <2>1, <2>2, <2>3
<1>4. /\ text' \in [RowId -> Text \cup {Gone}] /\ tags' \in [RowId -> SUBSET Topic]
      /\ used' \in 0 .. MaxRow /\ \A i \in RowId : i > used' => text'[i] = Gone
      /\ Gains
  <2>1. CASE UNCHANGED <<text, tags, used>>
    BY <2>1 DEF Types, Gains, Live
  <2>2. CASE \E t \in Text : NewRow(t)
    BY <2>2, NewRowGains
  <2> QED BY <1>3, <2>1, <2>2
<1>5. packed' \subseteq Live'
  BY <1>1, <1>4 DEF Types, Gains
<1>6. Types' /\ Changes'
  BY <1>1, <1>2, <1>4, <1>5 DEF Types, Changes
<1> QED BY <1>1, <1>4, <1>6, GainsKeeps DEF EditInv

-----------------------------------------------------------------------------
(* The rebuild.                                                            *)

\* The derived state stays as it is and nothing leaves the queues.
LEMMA DerivedKept ==
  ASSUME Segments, Supported, DerivedFollowsRecord,
         UNCHANGED <<text, seg, fact, tainted>>,
         \A r \in Ref : r \in Waiting => r \in Waiting'
  PROVE  Segments' /\ Supported' /\ DerivedFollowsRecord'
<1>1. Live' = Live
  BY DEF Live
<1> QED BY <1>1 DEF Segments, Supported, DerivedFollowsRecord, TextsOf

\* Types of a step that leaves the record alone.
LEMMA RecordAlone ==
  ASSUME Types, Changes, UNCHANGED <<text, used, edits, replay>>,
         tags' \in [RowId -> SUBSET Topic], packed' \subseteq Live,
         seg' \in [Ref -> [ids : SUBSET RowId, texts : SUBSET Text, tags : SUBSET Topic]],
         fact' \in [Ref -> [state : {"none", "served", "retracted"}, texts : SUBSET Text]],
         op' \in [OpId -> Operation], job' \in Job, stamp' \in Refs, tainted' \in Taints,
         dead' \in BOOLEAN, faults' \in 0 .. MaxFault
  PROVE  Types' /\ Changes' /\ Live' = Live
<1>1. Live' = Live
  BY DEF Live
<1> QED BY <1>1 DEF Types, Changes

\* One operation is updated; its queue stays.
LEMMA OperationUpdated ==
  ASSUME Types, Operations, NEW o \in OpId, op' \in [OpId -> Operation],
         \A p \in OpId \ {o} : op'[p] = op[p], op'[o].queue = op[o].queue,
         op'[o].failed \subseteq Queue(o), op'[o].done \subseteq Queue(o),
         op'[o].status # "unused"
  PROVE  /\ Operations' /\ \A p \in OpId : Queue(p)' = Queue(p)
         /\ (op[o].status = "completed" \/ op'[o].status # "completed") =>
              \A r \in Ref : r \in Waiting /\ (r \in op'[o].done => r \in op[o].done)
                               => r \in Waiting'
<1>1. \A p \in OpId : Queue(p)' = Queue(p)
  BY DEF Queue
<1>2. Operations'
  BY <1>1 DEF Operations
<1>3. ASSUME op[o].status = "completed" \/ op'[o].status # "completed",
             NEW r \in Ref, r \in Waiting, r \in op'[o].done => r \in op[o].done
      PROVE  r \in Waiting'
  <2>1. PICK p \in OpId : op[p].status # "completed" /\ op[p].queue[r] # {} /\ r \notin op[p].done
    BY <1>3, WaitingIs
  <2>2. op'[p].status # "completed" /\ op'[p].queue[r] # {} /\ r \notin op'[p].done
    BY <1>3, <2>1
  <2> QED BY <2>2 DEF Waiting, Queue
<1> QED BY <1>1, <1>2, <1>3

LEMMA ProcessKeeps ==
  ASSUME EditInv, NEW a \in {"worker", "cli"}, NEW o \in OpId, process(a, o)
  PROVE  EditInv'
<1>i. /\ Types /\ Changes /\ Operations /\ Segments /\ Run /\ Rebuilds /\ Target
      /\ Supported /\ DerivedFollowsRecord
  BY DEF EditInv
<1>1. /\ UNCHANGED <<text, tags, packed, used, edits, seg, fact, stamp, tainted, dead,
                     faults, replay>>
      /\ ~dead /\ op[o].status \in {"pending", "running", "failed"}
  BY DEF process, recordVars, derived
<1>2. /\ job'.by = a /\ job'.pc = "retag" /\ job'.op = o /\ job'.ref = {}
      /\ job'.todo = Queue(o) \ op[o].done /\ ~job'.stale /\ job' \in Job
  <2>1. job' = [by |-> a, pc |-> "retag", op |-> o, ref |-> {}, ids |-> {}, mine |-> {},
                texts |-> {}, tags |-> {}, todo |-> Queue(o) \ op[o].done, stale |-> FALSE]
    BY DEF process, Idle
  <2>2. o \in 0 .. MaxEdit /\ Queue(o) \ op[o].done \in SUBSET Ref
    BY EditAssumption DEF OpId, Queue
  <2>3. job' \in Job
    BY <2>1, <2>2, Zenon DEF Job
  <2> QED BY <2>1, <2>3
<1>3. /\ op' \in [OpId -> Operation] /\ \A p \in OpId \ {o} : op'[p] = op[p]
      /\ op'[o].queue = op[o].queue /\ op'[o].status = "running"
      /\ op'[o].failed = op[o].failed /\ op'[o].done = op[o].done
  BY <1>i DEF process, Types, Operation, Status
<1>4. Operations' /\ \A p \in OpId : Queue(p)' = Queue(p)
  BY <1>i, <1>3, OperationUpdated DEF Operations
<1>5. \A r \in Ref : r \in Waiting => r \in Waiting'
  BY <1>i, <1>3, OperationUpdated DEF Operations
<1>6. Types' /\ Changes'
  BY <1>1, <1>2, <1>3, <1>i, RecordAlone DEF Types
<1>7. Segments' /\ Supported' /\ DerivedFollowsRecord'
  BY <1>1, <1>5, <1>i, DerivedKept
<1>8. Run' /\ Target'
  <2>1. o # 0
    BY EditAssumption DEF OpId
  <2> QED BY <1>1, <1>2, <2>1 DEF Run, Target, Writing, AtSegment
<1>9. Rebuilds'
  BY <1>2, <1>3, <1>4 DEF Rebuilds
<1> QED BY <1>4, <1>6, <1>7, <1>8, <1>9 DEF EditInv

\* What a rebuild under way knows of its operation.
LEMMA RebuildIs ==
  ASSUME Types, Run, Rebuilds, job.op # 0
  PROVE  /\ job.op \in OpId /\ op[job.op] \in Operation
         /\ op[job.op].status = "running" /\ ~job.stale /\ ~dead
         /\ job.todo \subseteq Queue(job.op) \ op[job.op].done
         /\ Queue(job.op) \ op[job.op].done \subseteq job.todo \cup op[job.op].failed
         /\ job.pc \in AtSegment => job.ref \subseteq job.todo
<1>1. job.op \in OpId
  BY EditAssumption DEF Types, Job, OpId
<1> QED BY <1>1 DEF Types, Run, Rebuilds

LEMMA RetagKeeps ==
  ASSUME EditInv, Retag
  PROVE  EditInv'
<1>i. /\ Types /\ Changes /\ Operations /\ Segments /\ Run /\ Rebuilds /\ Target
      /\ Supported /\ DerivedFollowsRecord
  BY DEF EditInv
<1> DEFINE o == job.op
<1>1. /\ UNCHANGED <<text, packed, used, edits, seg, fact, stamp, tainted, dead, faults, replay>>
      /\ job.pc = "retag" /\ job.op # 0
  BY <1>i DEF Retag, derived, Run
<1>2. /\ o \in OpId /\ op[o] \in Operation /\ op[o].status = "running" /\ ~job.stale /\ ~dead
      /\ job.todo \subseteq Queue(o) \ op[o].done
      /\ Queue(o) \ op[o].done \subseteq job.todo \cup op[o].failed
  BY <1>1, <1>i, RebuildIs
<1>3. tags' \in [RowId -> SUBSET Topic]
  <2>1. PICK new \in SUBSET Topic :
          \/ tags' = [i \in RowId |-> IF i \in op[o].retag \cap Live THEN new ELSE tags[i]]
          \/ tags' = tags
    BY DEF Retag
  <2> QED BY <1>i, <2>1 DEF Types
<1>4. /\ job' \in Job /\ job'.pc = "next" /\ job'.op = o /\ job'.todo = job.todo
      /\ job'.stale = job.stale
  BY <1>i DEF Retag, Types, Job
<1>5. op' = [op EXCEPT ![o].retag = {}]
  BY DEF Retag
<1> HIDE DEF o
<1>6. /\ op' \in [OpId -> Operation] /\ \A p \in OpId \ {o} : op'[p] = op[p]
      /\ op'[o].queue = op[o].queue /\ op'[o].status = "running"
      /\ op'[o].failed = op[o].failed /\ op'[o].done = op[o].done
  BY <1>2, <1>5, <1>i DEF Types, Operation
<1>7. Operations' /\ (\A p \in OpId : Queue(p)' = Queue(p))
      /\ \A r \in Ref : r \in Waiting => r \in Waiting'
  BY <1>2, <1>6, <1>i, OperationUpdated DEF Operations
<1>8. Types' /\ Changes'
  BY <1>1, <1>3, <1>4, <1>6, <1>i, RecordAlone DEF Types
<1>9. Segments' /\ Supported' /\ DerivedFollowsRecord'
  BY <1>1, <1>7, <1>i, DerivedKept
<1>10. Run' /\ Target'
  BY <1>1, <1>2, <1>4 DEF Run, Target, Writing, o, AtSegment
<1>11. Rebuilds'
  BY <1>2, <1>4, <1>6, <1>7 DEF Rebuilds, AtSegment
<1> QED BY <1>7, <1>8, <1>9, <1>10, <1>11 DEF EditInv

\* A step that changes one segment at most.
LEMMA OneSegment ==
  ASSUME Segments, Supported, DerivedFollowsRecord, text' = text, NEW r \in Ref,
         \A q \in Ref \ {r} :
           /\ seg'[q] = seg[q] /\ fact'[q] = fact[q]
           /\ q \in Waiting => q \in Waiting'
           /\ q \in tainted'.segs <=> q \in tainted.segs
           /\ q \in tainted'.facts <=> q \in tainted.facts
           /\ q \in tainted'.kept <=> q \in tainted.kept,
         seg'[r].ids = {} => seg'[r] = NoSeg,
         r \notin tainted'.facts /\ fact'[r].state = "served" =>
           seg'[r] # NoSeg /\ fact'[r].texts \subseteq {text[i] : i \in seg'[r].ids \cap Live},
         r \notin Waiting' /\ seg'[r] # NoSeg =>
           /\ r \notin tainted'.segs =>
                seg'[r].ids \subseteq Live /\ seg'[r].texts = {text[i] : i \in seg'[r].ids}
           /\ fact'[r].state = "retracted" => r \in tainted'.kept
  PROVE  Segments' /\ Supported' /\ DerivedFollowsRecord'
<1>1. Live' = Live
  BY DEF Live
<1>2. Segments'
  BY DEF Segments
<1>3. Supported'
  <2> SUFFICES ASSUME NEW q \in Ref, q \notin tainted'.facts,
                      fact'[q].state = "served"
               PROVE  seg'[q] # NoSeg
                        /\ fact'[q].texts \subseteq {text[i] : i \in seg'[q].ids \cap Live}
    BY <1>1 DEF Supported, TextsOf
  <2>1. CASE q = r
    BY <2>1
  <2>2. CASE q # r
    BY <2>2 DEF Supported, TextsOf
  <2> QED BY <2>1, <2>2
<1>4. DerivedFollowsRecord'
  <2> SUFFICES ASSUME NEW q \in Ref, q \notin Waiting', seg'[q] # NoSeg
               PROVE  /\ q \notin tainted'.segs =>
                           /\ seg'[q].ids \subseteq Live
                           /\ seg'[q].texts = {text[i] : i \in seg'[q].ids}
                      /\ fact'[q].state = "retracted" => q \in tainted'.kept
    BY <1>1 DEF DerivedFollowsRecord, TextsOf
  <2>1. CASE q = r
    BY <2>1
  <2>2. CASE q # r
    BY <2>2 DEF DerivedFollowsRecord, TextsOf
  <2> QED BY <2>1, <2>2
<1> QED BY <1>2, <1>3, <1>4

\* A step that leaves the operations alone leaves their queues alone.
LEMMA OperationsAlone ==
  ASSUME Operations, op' = op
  PROVE  /\ Operations' /\ \A o \in OpId : Queue(o)' = Queue(o)
         /\ Waiting' = Waiting
BY DEF Operations, Queue, Waiting

LEMMA RebuildSegmentKeeps ==
  ASSUME EditInv, NEW r \in Ref, rebuild_segment(r)
  PROVE  EditInv'
<1>i. /\ Types /\ Changes /\ Operations /\ Segments /\ Run /\ Rebuilds /\ Target
      /\ Supported /\ DerivedFollowsRecord
  BY DEF EditInv
<1> DEFINE o == job.op  ids == op[o].queue[r] \cap Live
<1>1. /\ UNCHANGED <<text, tags, packed, used, edits, op, stamp, dead, faults, replay>>
      /\ job.pc = "next" /\ job.op # 0 /\ r \in job.todo
  BY <1>i DEF rebuild_segment, recordVars, Run
<1>2. /\ o \in OpId /\ op[o] \in Operation /\ op[o].status = "running" /\ ~job.stale /\ ~dead
      /\ job.todo \subseteq Queue(o) \ op[o].done
      /\ Queue(o) \ op[o].done \subseteq job.todo \cup op[o].failed
  BY <1>1, <1>i, RebuildIs
<1>3. Operations' /\ (\A p \in OpId : Queue(p)' = Queue(p)) /\ Waiting' = Waiting
  BY <1>1, <1>i, OperationsAlone
<1>4. CASE ids = {}
  <2>1. /\ seg' = [seg EXCEPT ![r] = NoSeg] /\ fact' = [fact EXCEPT ![r] = NoFact]
        /\ tainted' = Without({r})
        /\ job' = [job EXCEPT !.ref = {r}, !.pc = "done"]
    BY <1>4 DEF rebuild_segment
  <2>2. /\ job' \in Job /\ job'.ref = {r} /\ job'.pc = "done" /\ job'.op = o
        /\ job'.todo = job.todo /\ job'.stale = job.stale
    BY <1>i, <2>1 DEF Types, Job, AtSegment
  <2>3. /\ tainted' \in Taints /\ tainted'.segs = tainted.segs \ {r}
        /\ tainted'.facts = tainted.facts \ {r} /\ tainted'.kept = tainted.kept \ {r}
    BY <1>i, <2>1, WithoutIs
  <2>4. /\ NoSeg \in [ids : SUBSET RowId, texts : SUBSET Text, tags : SUBSET Topic]
        /\ NoFact \in [state : {"none", "served", "retracted"}, texts : SUBSET Text]
        /\ NoFact.state = "none"
    BY DEF NoSeg, NoFact
  <2>5. /\ seg' \in [Ref -> [ids : SUBSET RowId, texts : SUBSET Text, tags : SUBSET Topic]]
        /\ fact' \in [Ref -> [state : {"none", "served", "retracted"}, texts : SUBSET Text]]
        /\ seg'[r] = NoSeg /\ fact'[r] = NoFact
        /\ \A q \in Ref \ {r} : seg'[q] = seg[q] /\ fact'[q] = fact[q]
    BY <1>i, <2>1, <2>4 DEF Types
  <2>6. Types' /\ Changes'
    BY <1>1, <1>i, <2>2, <2>3, <2>5, RecordAlone DEF Types
  <2>7. Segments' /\ Supported' /\ DerivedFollowsRecord'
    BY <1>1, <1>3, <1>i, <2>3, <2>4, <2>5, OneSegment
  <2>8. Run' /\ Target'
    BY <1>1, <1>2, <2>2, <2>5 DEF Run, Target, Writing, o
  <2>9. Rebuilds'
    BY <1>1, <1>2, <1>3, <2>2 DEF Rebuilds
  <2> QED BY <1>3, <2>6, <2>7, <2>8, <2>9 DEF EditInv
<1>5. CASE ids # {}
  <2>1. /\ UNCHANGED <<seg, fact, tainted>>
        /\ job' = [job EXCEPT !.ref = {r}, !.pc = FirstWrite(TextsOf(ids)), !.ids = ids,
                              !.texts = TextsOf(ids), !.tags = TagsOf(ids) \ op[o].forgotten]
    BY <1>5 DEF rebuild_segment
  <2>2. /\ ids \subseteq Live /\ ids \in SUBSET RowId /\ TextsOf(ids) \in SUBSET Text
        /\ TagsOf(ids) \ op[o].forgotten \in SUBSET Topic
    BY <1>i, RowFacts
  <2>3. /\ job' \in Job /\ job'.ref = {r} /\ job'.pc \in {"stub", "seg"} /\ job'.op = o
        /\ job'.todo = job.todo /\ job'.stale = job.stale /\ job'.ids = ids
        /\ job'.texts = TextsOf(ids)
    <3> HIDE DEF ids
    <3>1. FirstWrite(TextsOf(ids)) \in {"stub", "seg"}
      BY DEF FirstWrite
    <3> QED BY <1>i, <2>1, <2>2, <3>1 DEF Types, Job, AtSegment
  <2> HIDE DEF ids
  <2>4. Types' /\ Changes' /\ Live' = Live
    BY <1>1, <1>i, <2>1, <2>3, RecordAlone DEF Types
  <2>5. Segments' /\ Supported' /\ DerivedFollowsRecord'
    BY <1>1, <1>3, <1>i, <2>1, DerivedKept
  <2>6. Run' /\ Target'
    BY <1>1, <1>2, <1>5, <2>2, <2>3, <2>4 DEF Run, Target, Writing, TextsOf, o
  <2>7. Rebuilds'
    BY <1>1, <1>2, <1>3, <2>3 DEF Rebuilds
  <2> QED BY <1>3, <2>4, <2>5, <2>6, <2>7 DEF EditInv
<1> QED BY <1>4, <1>5

LEMMA FaultIs ==
  ASSUME Types, Fault
  PROVE  faults' \in 0 .. MaxFault
BY EditAssumption DEF Types, Fault

LEMMA SegmentFailsKeeps ==
  ASSUME EditInv, SegmentFails
  PROVE  EditInv'
<1>i. /\ Types /\ Changes /\ Operations /\ Segments /\ Run /\ Rebuilds /\ Target
      /\ Supported /\ DerivedFollowsRecord
  BY DEF EditInv
<1> DEFINE o == job.op
<1>1. /\ UNCHANGED <<text, tags, packed, used, edits, seg, fact, stamp, tainted, dead, replay>>
      /\ job.pc \in AtSegment /\ job.op # 0 /\ faults' \in 0 .. MaxFault
  BY <1>i, FaultIs DEF SegmentFails, recordVars, derived
<1>2. /\ o \in OpId /\ op[o] \in Operation /\ op[o].status = "running" /\ ~job.stale /\ ~dead
      /\ job.todo \subseteq Queue(o) \ op[o].done /\ job.ref \subseteq job.todo
      /\ Queue(o) \ op[o].done \subseteq job.todo \cup op[o].failed
  BY <1>1, <1>i, RebuildIs
<1>4. /\ job' \in Job /\ job'.pc = "next" /\ job'.op = o /\ job'.todo = job.todo \ job.ref
      /\ job'.stale = job.stale
  <2>1. job' = [job EXCEPT !.pc = "next", !.todo = @ \ job.ref,
                           !.ref = {}, !.ids = {}, !.texts = {}, !.tags = {}]
    BY DEF SegmentFails
  <2> QED BY <1>i, <2>1 DEF Types, Job
<1>5. op' = [op EXCEPT ![o].failed = @ \cup job.ref]
  BY DEF SegmentFails
<1>r. job.ref \in SUBSET Ref
  BY <1>i DEF Types, Job
<1> HIDE DEF o
<1>6. /\ op' \in [OpId -> Operation] /\ \A p \in OpId \ {o} : op'[p] = op[p]
      /\ op'[o].queue = op[o].queue /\ op'[o].status = "running"
      /\ op'[o].failed = op[o].failed \cup job.ref /\ op'[o].done = op[o].done
  BY <1>2, <1>5, <1>i, <1>r DEF Types, Operation
<1>7. Operations' /\ (\A p \in OpId : Queue(p)' = Queue(p))
      /\ \A r \in Ref : r \in Waiting => r \in Waiting'
  BY <1>2, <1>6, <1>i, OperationUpdated DEF Operations
<1>8. Types' /\ Changes'
  BY <1>1, <1>4, <1>6, <1>i, RecordAlone DEF Types
<1>9. Segments' /\ Supported' /\ DerivedFollowsRecord'
  BY <1>1, <1>7, <1>i, DerivedKept
<1>10. Run' /\ Target'
  BY <1>1, <1>2, <1>4 DEF Run, Target, Writing, o, AtSegment
<1>11. Rebuilds'
  BY <1>2, <1>4, <1>6, <1>7 DEF Rebuilds, AtSegment
<1> QED BY <1>7, <1>8, <1>9, <1>10, <1>11 DEF EditInv

\* A segment leaves its queue once it is what its turns give.
LEMMA SegmentDoneKeeps ==
  ASSUME EditInv, SegmentDone
  PROVE  EditInv'
<1>i. /\ Types /\ Changes /\ Operations /\ Segments /\ Run /\ Rebuilds /\ Target
      /\ Supported /\ DerivedFollowsRecord
  BY DEF EditInv
<1> DEFINE o == job.op
<1>1. /\ UNCHANGED <<text, tags, packed, used, edits, seg, fact, stamp, tainted, dead,
                     faults, replay>>
      /\ job.pc = "done" /\ job.op # 0
  BY DEF SegmentDone, recordVars, derived
<1>2. /\ o \in OpId /\ op[o] \in Operation /\ op[o].status = "running" /\ ~job.stale /\ ~dead
      /\ job.todo \subseteq Queue(o) \ op[o].done /\ job.ref \subseteq job.todo
      /\ Queue(o) \ op[o].done \subseteq job.todo \cup op[o].failed
  BY <1>1, <1>i, RebuildIs DEF AtSegment
<1>3. PICK r \in Ref : job.ref = {r}
  BY <1>1, <1>i DEF Run, AtSegment
<1>4. /\ job' \in Job /\ job'.pc = "next" /\ job'.op = o /\ job'.todo = job.todo \ {r}
      /\ job'.stale = job.stale
  <2>1. job' = [job EXCEPT !.pc = "next", !.todo = @ \ job.ref,
                           !.ref = {}, !.ids = {}, !.texts = {}, !.tags = {}]
    BY DEF SegmentDone
  <2> QED BY <1>3, <1>i, <2>1 DEF Types, Job
<1>5. op' = [op EXCEPT ![o].done = @ \cup {r}, ![o].failed = @ \ {r}]
  BY <1>3 DEF SegmentDone
<1>t. seg[r] # NoSeg =>
        /\ seg[r].ids \subseteq Live /\ seg[r].texts = {text[i] : i \in seg[r].ids}
        /\ fact[r].state = "retracted" => r \in tainted.kept
  BY <1>1, <1>3, <1>i DEF Target, TextsOf
<1>d. job.todo \ {r} \subseteq Queue(o) \ (op[o].done \cup {r}) /\ r \in Queue(o)
  BY <1>2, <1>3
<1> HIDE DEF o
<1>6. /\ op' \in [OpId -> Operation] /\ \A p \in OpId \ {o} : op'[p] = op[p]
      /\ op'[o].queue = op[o].queue /\ op'[o].status = "running"
      /\ op'[o].failed = op[o].failed \ {r} /\ op'[o].done = op[o].done \cup {r}
  BY <1>2, <1>5, <1>i DEF Types, Operation
<1>7. Operations' /\ (\A p \in OpId : Queue(p)' = Queue(p))
      /\ \A q \in Ref \ {r} : q \in Waiting => q \in Waiting'
  <2>1. /\ op'[o].failed \subseteq Queue(o) /\ op'[o].done \subseteq Queue(o)
        /\ op'[o].status # "unused"
    BY <1>2, <1>6, <1>d, <1>i DEF Operations
  <2> QED BY <1>2, <1>6, <1>i, <2>1, OperationUpdated
<1>8. Types' /\ Changes'
  BY <1>1, <1>4, <1>6, <1>i, RecordAlone DEF Types
<1>9. Segments' /\ Supported' /\ DerivedFollowsRecord'
  <2>1. /\ seg[r].ids = {} => seg[r] = NoSeg
        /\ r \notin tainted.facts /\ fact[r].state = "served" =>
             seg[r] # NoSeg /\ fact[r].texts \subseteq {text[i] : i \in seg[r].ids \cap Live}
    BY <1>i DEF Segments, Supported, TextsOf
  <2> QED BY <1>1, <1>7, <1>i, <1>t, <2>1, OneSegment
<1>10. Run' /\ Target'
  BY <1>1, <1>2, <1>4 DEF Run, Target, Writing, o, AtSegment
<1>11. Rebuilds'
  BY <1>2, <1>4, <1>6, <1>7, <1>d DEF Rebuilds, AtSegment
<1> QED BY <1>7, <1>8, <1>9, <1>10, <1>11 DEF EditInv

\* After a run has ended nothing is said of it.
LEMMA IdleIs ==
  ASSUME job' = Idle
  PROVE  job' \in Job /\ Run' /\ Rebuilds' /\ Target'
<1>1. Idle \in Job
  <2>1. 0 \in 0 .. MaxEdit
    BY EditAssumption
  <2> QED BY <2>1 DEF Idle, Job
<1>2. job'.pc = "idle" /\ job'.op = 0 /\ job'.ref = {}
  BY DEF Idle
<1> QED BY <1>1, <1>2 DEF Run, Rebuilds, Target, Writing, AtSegment

\* An operation is completed only when all its segments are done.
LEMMA FinishKeeps ==
  ASSUME EditInv, Finish
  PROVE  EditInv'
<1>i. /\ Types /\ Changes /\ Operations /\ Segments /\ Run /\ Rebuilds /\ Target
      /\ Supported /\ DerivedFollowsRecord
  BY DEF EditInv
<1> DEFINE o == job.op
<1>1. /\ UNCHANGED <<text, tags, packed, used, edits, seg, fact, tainted, dead, replay>>
      /\ job.op # 0 /\ job' = Idle /\ stamp' = Release
  BY DEF Finish, recordVars
<1>2. /\ o \in OpId /\ op[o] \in Operation /\ op[o].status = "running"
      /\ Queue(o) \ op[o].done \subseteq job.todo \cup op[o].failed
  BY <1>1, <1>i, RebuildIs
<1>3. faults' \in 0 .. MaxFault
  BY <1>i, FaultIs DEF Finish, Types
<1>4. stamp' \in Refs
  BY <1>1, <1>i DEF Release, None, Refs, Types
<1>5. \/ op' = [op EXCEPT ![o].status = "failed"]
      \/ job.todo = {} /\ op[o].failed = {} /\ op' = [op EXCEPT ![o] = Completed]
  BY DEF Finish
<1> HIDE DEF o
<1>6. /\ op' \in [OpId -> Operation] /\ Operations'
      /\ \A r \in Ref : r \in Waiting => r \in Waiting'
  <2>1. CASE op' = [op EXCEPT ![o].status = "failed"]
    <3>1. /\ op' \in [OpId -> Operation] /\ \A p \in OpId \ {o} : op'[p] = op[p]
          /\ op'[o].queue = op[o].queue /\ op'[o].status = "failed"
          /\ op'[o].failed = op[o].failed /\ op'[o].done = op[o].done
      BY <1>2, <1>i, <2>1 DEF Types, Operation, Status
    <3> QED BY <1>2, <1>i, <3>1, OperationUpdated DEF Operations
  <2>2. CASE /\ job.todo = {} /\ op[o].failed = {}
             /\ op' = [op EXCEPT ![o] = Completed]
    <3>1. /\ Completed \in Operation /\ Completed.status = "completed"
          /\ Completed.failed = {} /\ Completed.done = {}
          /\ \A r \in Ref : Completed.queue[r] = {}
      BY DEF Completed, NoEdit, Operation, Status
    <3>2. /\ op' \in [OpId -> Operation] /\ \A p \in OpId \ {o} : op'[p] = op[p]
          /\ op'[o] = Completed
      BY <1>2, <1>i, <2>2, <3>1 DEF Types
    <3>3. \A p \in OpId \ {o} : Queue(p)' = Queue(p)
      BY <3>2 DEF Queue
    <3>4. Operations'
      BY <1>i, <3>1, <3>2, <3>3 DEF Operations
    <3>5. ASSUME NEW r \in Ref, r \in Waiting PROVE r \in Waiting'
      <4>1. PICK p \in OpId :
              op[p].status # "completed" /\ op[p].queue[r] # {} /\ r \notin op[p].done
        BY <3>5, WaitingIs
      <4>2. p # o
        BY <1>2, <2>2, <4>1 DEF Queue
      <4>3. op'[p].status # "completed" /\ op'[p].queue[r] # {} /\ r \notin op'[p].done
        BY <3>2, <4>1, <4>2
      <4> QED BY <4>3 DEF Waiting, Queue
    <3> QED BY <3>2, <3>4, <3>5
  <2> QED BY <1>5, <2>1, <2>2
<1>7. job' \in Job /\ Run' /\ Rebuilds' /\ Target'
  BY <1>1, IdleIs
<1>8. Types' /\ Changes'
  BY <1>1, <1>3, <1>4, <1>6, <1>7, <1>i, RecordAlone DEF Types
<1>9. Segments' /\ Supported' /\ DerivedFollowsRecord'
  BY <1>1, <1>6, <1>i, DerivedKept
<1> QED BY <1>6, <1>7, <1>8, <1>9 DEF EditInv

-----------------------------------------------------------------------------
(* The writes of a run.                                                    *)

\* A run is at one segment.
LEMMA AtRef ==
  ASSUME Types, Run, job.pc \in AtSegment
  PROVE  \E r \in Ref : job.ref = {r} /\ ThisRef = r
<1>1. PICK r \in Ref : job.ref = {r}
  BY DEF Run
<1> QED BY <1>1 DEF ThisRef

\* What a write of a segment says of the segments overtaken.
LEMMA OvertakesIs ==
  ASSUME Types, NEW r \in Ref
  PROVE  /\ Overtakes(r) \in Taints /\ Overtakes(r).kept = tainted.kept
         /\ Overtakes(r).segs = IF job.stale THEN tainted.segs \cup {r} ELSE tainted.segs \ {r}
         /\ Overtakes(r).facts = IF seg[r].ids \cap Live \subseteq job.ids
                                 THEN tainted.facts ELSE tainted.facts \cup {r}
BY DEF Types, Taints, Overtakes

\* A run's segment is written with what the run has read.
LEMMA Stored ==
  ASSUME EditInv, NEW r \in Ref, job.ref = {r}, job.pc \in {"stub", "seg"}, StoreSegment(r),
         UNCHANGED <<text, tags, packed, used, edits, fact, op, dead, faults, replay>>,
         job' \in Job, tainted' \in Taints,
         tainted'.segs = Overtakes(r).segs, tainted'.facts = Overtakes(r).facts,
         \A q \in Ref \ {r} : q \in tainted'.kept <=> q \in tainted.kept,
         r \notin Waiting /\ fact[r].state = "retracted" => r \in tainted'.kept
  PROVE  /\ Types' /\ Changes' /\ Operations' /\ Segments' /\ Supported'
         /\ DerivedFollowsRecord' /\ Live' = Live /\ \A p \in OpId : Queue(p)' = Queue(p)
         /\ seg'[r].ids = job.ids /\ seg'[r].texts = job.texts
<1>i. /\ Types /\ Changes /\ Operations /\ Segments /\ Run /\ Rebuilds /\ Target
      /\ Supported /\ DerivedFollowsRecord
  BY DEF EditInv
<1> DEFINE new == [ids |-> job.ids, texts |-> job.texts, tags |-> job.tags]
<1>4. /\ seg' = [seg EXCEPT ![r] = new]
      /\ stamp' = IF job.by = "worker" THEN [stamp EXCEPT !.segs = @ \cup {r}] ELSE stamp
  BY DEF StoreSegment
<1>5. job.ids # {} /\ (~job.stale => job.ids \subseteq Live /\ job.texts = {text[i] : i \in job.ids})
  BY <1>i DEF Run, Writing, TextsOf
<1>6. new \in [ids : SUBSET RowId, texts : SUBSET Text, tags : SUBSET Topic] /\ new # NoSeg
  <2>1. new \in [ids : SUBSET RowId, texts : SUBSET Text, tags : SUBSET Topic]
    BY <1>i DEF Types, Job
  <2>2. new.ids # NoSeg.ids
    BY <1>5 DEF NoSeg
  <2> QED BY <2>1, <2>2
<1>7. /\ seg' \in [Ref -> [ids : SUBSET RowId, texts : SUBSET Text, tags : SUBSET Topic]]
      /\ seg'[r] = new /\ \A q \in Ref \ {r} : seg'[q] = seg[q]
  <2> HIDE DEF new
  <2> QED BY <1>4, <1>6, <1>i DEF Types
<1>8. /\ stamp' \in Refs
      /\ tainted'.segs = IF job.stale THEN tainted.segs \cup {r} ELSE tainted.segs \ {r}
      /\ tainted'.facts = IF seg[r].ids \cap Live \subseteq job.ids
                          THEN tainted.facts ELSE tainted.facts \cup {r}
  BY <1>4, <1>i, OvertakesIs DEF Types, Refs
<1>10. new.ids = job.ids /\ new.texts = job.texts
  OBVIOUS
<1> HIDE DEF new
<1>11. Operations' /\ (\A p \in OpId : Queue(p)' = Queue(p)) /\ Waiting' = Waiting
  BY <1>i, OperationsAlone
<1>12. Types' /\ Changes' /\ Live' = Live
  BY <1>7, <1>8, <1>i, RecordAlone DEF Types
<1>14. Segments' /\ Supported' /\ DerivedFollowsRecord'
  <2>1. ASSUME r \notin tainted'.facts, fact[r].state = "served"
        PROVE  fact[r].texts \subseteq {text[i] : i \in job.ids \cap Live}
    <3>1. seg[r].ids \cap Live \subseteq job.ids \cap Live /\ r \notin tainted.facts
      BY <1>8, <2>1
    <3>2. fact[r].texts \subseteq {text[i] : i \in seg[r].ids \cap Live}
      BY <1>i, <2>1, <3>1 DEF Supported, TextsOf
    <3> QED BY <3>1, <3>2
  <2>3. r \notin tainted'.segs => ~job.stale
    BY <1>8
  <2>4. \A q \in Ref \ {r} : /\ q \in tainted'.segs <=> q \in tainted.segs
                             /\ q \in tainted'.facts <=> q \in tainted.facts
    BY <1>8
  <2> QED BY <1>5, <1>6, <1>7, <1>10, <1>11, <1>i, <2>1, <2>3, <2>4, OneSegment
<1> QED BY <1>7, <1>10, <1>11, <1>12, <1>14

LEMMA StoreKeeps ==
  ASSUME EditInv, store_segment
  PROVE  EditInv'
<1>i. /\ Types /\ Changes /\ Operations /\ Segments /\ Run /\ Rebuilds /\ Target
      /\ Supported /\ DerivedFollowsRecord
  BY DEF EditInv
<1>1. /\ UNCHANGED <<text, tags, packed, used, edits, fact, op, dead, faults, replay>>
      /\ job.pc = "seg" /\ job.pc \in AtSegment
  BY DEF store_segment, recordVars, AtSegment
<1>2. PICK r \in Ref : job.ref = {r} /\ ThisRef = r
  BY <1>1, <1>i, AtRef
<1>4. /\ StoreSegment(r) /\ tainted' = Overtakes(r)
      /\ job' = [job EXCEPT !.pc = "facts"]
  BY <1>2 DEF store_segment
<1>9. /\ job' \in Job /\ job'.pc = "facts" /\ job'.op = job.op /\ job'.ref = {r}
      /\ job'.ids = job.ids /\ job'.texts = job.texts /\ job'.stale = job.stale
      /\ job'.todo = job.todo
  BY <1>2, <1>4, <1>i DEF Types, Job, AtSegment
<1>10. tainted' \in Taints /\ tainted'.kept = tainted.kept
  BY <1>4, <1>i, OvertakesIs
<1>13. job.op # 0 => r \in Waiting /\ ~dead
  <2> SUFFICES ASSUME job.op # 0 PROVE r \in Waiting /\ ~dead
    OBVIOUS
  <2>1. /\ job.op \in OpId /\ op[job.op].status = "running" /\ ~dead
        /\ job.todo \subseteq Queue(job.op) \ op[job.op].done /\ job.ref \subseteq job.todo
    BY <1>1, <1>i, RebuildIs
  <2> QED BY <1>2, <2>1, WaitingIs DEF Queue
<1>14. ASSUME r \notin Waiting, fact[r].state = "retracted" PROVE r \in tainted'.kept
  <2>1. seg[r] = NoSeg => fact[r] = NoFact
    BY <1>1, <1>2, <1>13, <1>14, <1>i DEF Target
  <2>2. seg[r] # NoSeg => r \in tainted.kept
    BY <1>14, <1>i DEF DerivedFollowsRecord
  <2> QED BY <1>10, <1>14, <2>1, <2>2 DEF NoFact
<1>15. /\ Types' /\ Changes' /\ Operations' /\ Segments' /\ Supported'
       /\ DerivedFollowsRecord' /\ Live' = Live /\ \A p \in OpId : Queue(p)' = Queue(p)
       /\ seg'[r].ids = job.ids /\ seg'[r].texts = job.texts
  <2>1. job.pc \in {"stub", "seg"}
    BY <1>1
  <2> QED BY <1>1, <1>2, <1>4, <1>9, <1>10, <1>14, <2>1, Stored
<1>16. Run'
  <2>1. dead' = dead /\ ~dead
    BY <1>1, <1>i DEF Run, AtSegment
  <2>2. job.ids # {} /\ (~job.stale => job.ids \subseteq Live /\ job.texts = {text[i] : i \in job.ids})
    BY <1>1, <1>i DEF Run, Writing, TextsOf
  <2> QED BY <1>1, <1>9, <1>15, <2>1, <2>2 DEF Run, Writing, TextsOf
<1>17. Target'
  BY <1>9, <1>15 DEF Target
<1>18. Rebuilds'
  BY <1>1, <1>2, <1>9, <1>15, <1>i, RebuildIs DEF Rebuilds
<1> QED BY <1>15, <1>16, <1>17, <1>18 DEF EditInv

\* A run that leaves its segment.
LEMMA LeftIs ==
  ASSUME Types, NEW r \in Ref, job.ref = {r}, NEW pc \in AtSegment, job' = Left(pc)
  PROVE  /\ job' \in Job /\ job'.pc = pc /\ job'.op = job.op /\ job'.ref = {r}
         /\ ~job'.stale /\ job'.todo = job.todo
<1>1. FALSE \in BOOLEAN
  OBVIOUS
<1> QED BY <1>1 DEF Left, Types, Job

\* A placeholder is stored, and the facts it leaves are known.
LEMMA StubKeeps ==
  ASSUME EditInv, passthrough_stub
  PROVE  EditInv'
<1>i. /\ Types /\ Changes /\ Operations /\ Segments /\ Run /\ Rebuilds /\ Target
      /\ Supported /\ DerivedFollowsRecord
  BY DEF EditInv
<1>1. /\ UNCHANGED <<text, tags, packed, used, edits, fact, op, dead, faults, replay>>
      /\ job.pc = "stub" /\ job.pc \in AtSegment /\ "done" \in AtSegment
  BY DEF passthrough_stub, recordVars, AtSegment
<1>2. PICK r \in Ref : job.ref = {r} /\ ThisRef = r
  BY <1>1, <1>i, AtRef
<1> DEFINE kept == IF fact[r].state = "retracted" THEN tainted.kept \cup {r}
                                                  ELSE tainted.kept \ {r}
<1>o. /\ Overtakes(r) \in Taints /\ Overtakes(r).kept = tainted.kept
  BY <1>i, OvertakesIs
<1>4. StoreSegment(r) /\ tainted' = [Overtakes(r) EXCEPT !.kept = kept] /\ job' = Left("done")
  BY <1>2, <1>o DEF passthrough_stub
<1>9. /\ job' \in Job /\ job'.pc = "done" /\ job'.op = job.op /\ job'.ref = {r}
      /\ ~job'.stale /\ job'.todo = job.todo
  BY <1>1, <1>2, <1>4, <1>i, LeftIs
<1>10. /\ tainted' \in Taints /\ tainted'.kept = kept
       /\ tainted'.segs = Overtakes(r).segs /\ tainted'.facts = Overtakes(r).facts
  <2>1. kept \in SUBSET Ref
    BY <1>i DEF Types, Taints
  <2> HIDE DEF kept
  <2> QED BY <1>4, <1>o, <2>1 DEF Taints
<1>14. /\ \A q \in Ref \ {r} : q \in tainted'.kept <=> q \in tainted.kept
       /\ fact[r].state = "retracted" => r \in tainted'.kept
  BY <1>10
<1> HIDE DEF kept
<1>15. /\ Types' /\ Changes' /\ Operations' /\ Segments' /\ Supported'
       /\ DerivedFollowsRecord' /\ Live' = Live /\ \A p \in OpId : Queue(p)' = Queue(p)
       /\ seg'[r].ids = job.ids /\ seg'[r].texts = job.texts
  <2>1. job.pc \in {"stub", "seg"}
    BY <1>1
  <2> QED BY <1>1, <1>2, <1>4, <1>9, <1>10, <1>14, <2>1, Stored
<1>16. Run'
  <2>1. dead' = dead /\ ~dead
    BY <1>1, <1>i DEF Run, AtSegment
  <2> QED BY <1>9, <2>1 DEF Run, Writing
<1>17. Target'
  <2>1. job.op # 0 => job.ids \subseteq Live /\ job.texts = {text[i] : i \in job.ids}
    BY <1>1, <1>i DEF Rebuilds, Run, Writing, TextsOf
  <2>2. \A i \in Live : text'[i] = text[i]
    BY <1>1
  <2> QED BY <1>1, <1>9, <1>14, <1>15, <2>1, <2>2 DEF Target, TextsOf
<1>18. Rebuilds'
  BY <1>1, <1>2, <1>9, <1>15, <1>i, RebuildIs DEF Rebuilds
<1> QED BY <1>15, <1>16, <1>17, <1>18 DEF EditInv

\* The facts of a segment are replaced by what the same turns give, or by none.
LEMMA ReplaceFactsKeeps ==
  ASSUME EditInv, replace_facts_for_segment
  PROVE  EditInv'
<1>i. /\ Types /\ Changes /\ Operations /\ Segments /\ Run /\ Rebuilds /\ Target
      /\ Supported /\ DerivedFollowsRecord
  BY DEF EditInv
<1>1. /\ UNCHANGED <<text, tags, packed, used, edits, seg, op, dead, faults, replay>>
      /\ job.pc = "facts" /\ job.pc \in AtSegment
  BY DEF replace_facts_for_segment, recordVars, AtSegment
<1>2. PICK r \in Ref : job.ref = {r} /\ ThisRef = r
  BY <1>1, <1>i, AtRef
<1>3. PICK inserted \in BOOLEAN :
        /\ fact' = [fact EXCEPT ![r] =
             IF inserted THEN [state |-> "served", texts |-> job.texts] ELSE NoFact]
        /\ stamp' = [stamp EXCEPT !.facts =
             IF inserted /\ job.by = "worker" THEN @ \cup {r} ELSE @ \ {r}]
        /\ job' = Left(IF inserted THEN "trust" ELSE "done")
  BY <1>2 DEF replace_facts_for_segment
<1>4. tainted' = [tainted EXCEPT !.facts = IF job.stale THEN @ \cup {r} ELSE @ \ {r},
                                 !.kept = @ \ {r}]
  BY <1>2 DEF replace_facts_for_segment
<1>5. job.ids # {} /\ (~job.stale => job.ids \subseteq Live /\ job.texts = {text[i] : i \in job.ids})
  BY <1>1, <1>i DEF Run, Writing, TextsOf
<1>6. ~job.stale => /\ seg[r].ids = job.ids /\ seg[r].texts = job.texts /\ seg[r] # NoSeg
                    /\ seg[r].ids \subseteq Live /\ seg[r].ids \cap Live = seg[r].ids
                    /\ seg[r].texts = {text[i] : i \in seg[r].ids}
  BY <1>1, <1>2, <1>5, <1>i DEF Target, NoSeg
<1> DEFINE new == IF inserted THEN [state |-> "served", texts |-> job.texts] ELSE NoFact
<1>n. /\ new \in [state : {"none", "served", "retracted"}, texts : SUBSET Text]
      /\ new.state # "retracted" /\ (new.state = "served" => new.texts = job.texts)
  <2>1. job.texts \in SUBSET Text
    BY <1>i DEF Types, Job
  <2>2. /\ [state |-> "served", texts |-> job.texts]
             \in [state : {"none", "served", "retracted"}, texts : SUBSET Text]
        /\ NoFact \in [state : {"none", "served", "retracted"}, texts : SUBSET Text]
        /\ NoFact.state = "none"
    BY <2>1 DEF NoFact
  <2> QED BY <2>2
<1>7. /\ fact' \in [Ref -> [state : {"none", "served", "retracted"}, texts : SUBSET Text]]
      /\ fact'[r].state # "retracted" /\ (fact'[r].state = "served" => fact'[r].texts = job.texts)
      /\ \A q \in Ref \ {r} : fact'[q] = fact[q]
  <2>1. fact' = [fact EXCEPT ![r] = new]
    BY <1>3
  <2> HIDE DEF new
  <2> QED BY <1>n, <1>i, <2>1 DEF Types
<1>8. /\ tainted' \in Taints /\ stamp' \in Refs /\ tainted'.segs = tainted.segs
      /\ tainted'.facts = IF job.stale THEN tainted.facts \cup {r} ELSE tainted.facts \ {r}
      /\ tainted'.kept = tainted.kept \ {r}
  BY <1>3, <1>4, <1>i DEF Types, Refs, Taints
<1>9. /\ job' \in Job /\ job'.pc \in {"trust", "done"} /\ job'.op = job.op /\ job'.ref = {r}
      /\ ~job'.stale /\ job'.todo = job.todo
  <2>1. PICK pc \in {"trust", "done"} : job' = Left(pc)
    BY <1>3
  <2>2. pc \in AtSegment
    BY DEF AtSegment
  <2> QED BY <1>2, <1>i, <2>1, <2>2, LeftIs
<1>11. Operations' /\ (\A p \in OpId : Queue(p)' = Queue(p)) /\ Waiting' = Waiting
  BY <1>1, <1>i, OperationsAlone
<1>12. Types' /\ Changes' /\ Live' = Live
  BY <1>1, <1>7, <1>8, <1>9, <1>i, RecordAlone DEF Types
<1>14. Segments' /\ Supported' /\ DerivedFollowsRecord'
  <2>1. r \notin tainted'.facts => ~job.stale
    BY <1>8
  <2>2. \A q \in Ref \ {r} : /\ q \in tainted'.facts <=> q \in tainted.facts
                             /\ q \in tainted'.kept <=> q \in tainted.kept
    BY <1>8
  <2>3. /\ seg[r].ids = {} => seg[r] = NoSeg
        /\ r \notin Waiting /\ seg[r] # NoSeg /\ r \notin tainted.segs =>
             seg[r].ids \subseteq Live /\ seg[r].texts = {text[i] : i \in seg[r].ids}
    BY <1>i DEF Segments, DerivedFollowsRecord, TextsOf
  <2>4. /\ seg'[r].ids = {} => seg'[r] = NoSeg
        /\ r \notin tainted'.facts /\ fact'[r].state = "served" =>
             seg'[r] # NoSeg /\ fact'[r].texts \subseteq {text[i] : i \in seg'[r].ids \cap Live}
        /\ r \notin Waiting' /\ seg'[r] # NoSeg =>
             /\ r \notin tainted'.segs =>
                  seg'[r].ids \subseteq Live /\ seg'[r].texts = {text[i] : i \in seg'[r].ids}
             /\ fact'[r].state # "retracted"
    BY <1>1, <1>6, <1>7, <1>8, <1>11, <2>1, <2>3
  <2> QED BY <1>1, <1>7, <1>8, <1>11, <1>i, <2>2, <2>4, OneSegment
<1>15. Run'
  <2>1. dead' = dead /\ ~dead
    BY <1>1, <1>i DEF Run, AtSegment
  <2> QED BY <1>9, <2>1 DEF Run, Writing
<1>16. Target'
  <2>1. job.op # 0 => ~job.stale
    BY <1>i DEF Rebuilds
  <2>2. seg' = seg /\ \A i \in Live : text'[i] = text[i]
    BY <1>1
  <2> QED BY <1>6, <1>7, <1>9, <1>12, <2>1, <2>2 DEF Target, TextsOf
<1>17. Rebuilds'
  BY <1>1, <1>2, <1>9, <1>11, <1>i, RebuildIs DEF Rebuilds
<1> QED BY <1>11, <1>12, <1>14, <1>15, <1>16, <1>17 DEF EditInv

\* Facts said to be proved are served, if they were withheld.
LEMMA TrustedIs ==
  ASSUME Types, NEW r \in Ref
  PROVE  /\ Trusted(r) \in [Ref -> [state : {"none", "served", "retracted"}, texts : SUBSET Text]]
         /\ \A q \in Ref \ {r} : Trusted(r)[q] = fact[q]
         /\ Trusted(r)[r].state # "retracted"
         /\ fact[r].state # "retracted" => Trusted(r) = fact
<1> DEFINE F == [state : {"none", "served", "retracted"}, texts : SUBSET Text]
           new == [fact[r] EXCEPT !.state = IF @ = "none" THEN @ ELSE "served"]
<1>1. fact \in [Ref -> F] /\ fact[r] \in F
  BY DEF Types
<1>2. /\ new \in F
      /\ new.state # "retracted"
      /\ fact[r].state # "retracted" => new = fact[r]
  BY <1>1
<1>3. Trusted(r) = [fact EXCEPT ![r] = new]
  BY <1>1 DEF Trusted
<1> HIDE DEF new
<1>4. /\ Trusted(r) \in [Ref -> F] /\ Trusted(r)[r] = new
      /\ \A q \in Ref \ {r} : Trusted(r)[q] = fact[q]
  <2> HIDE DEF F
  <2> QED BY <1>1, <1>2, <1>3
<1>5. ASSUME fact[r].state # "retracted" PROVE Trusted(r) = fact
  <2>1. new = fact[r]
    BY <1>2, <1>5
  <2> HIDE DEF F
  <2>2. [fact EXCEPT ![r] = fact[r]] = fact
    BY <1>1
  <2> QED BY <1>3, <2>1, <2>2
<1> QED BY <1>2, <1>4, <1>5

\* What is left of the invariant when a run is done with the trust of its facts:
\* fact' has the facts of fact, and those of r that are served again are marked.
LEMMA TrustKeeps ==
  ASSUME EditInv, NEW r \in Ref, job.ref = {r}, job.pc \in {"trust", "verify"},
         UNCHANGED <<text, tags, packed, used, edits, seg, stamp, op, dead, faults, replay>>,
         fact' = fact \/ fact' = Trusted(r),
         tainted' \in Taints, tainted'.segs = tainted.segs, tainted'.kept = tainted.kept,
         tainted.facts \subseteq tainted'.facts,
         fact[r].state = "retracted" /\ fact' # fact => r \in tainted'.facts,
         NEW pc \in {"verify", "done"}, pc = "verify" => ~Serial,
         job' = [job EXCEPT !.pc = pc]
  PROVE  EditInv'
<1>i. /\ Types /\ Changes /\ Operations /\ Segments /\ Run /\ Rebuilds /\ Target
      /\ Supported /\ DerivedFollowsRecord
  BY DEF EditInv
<1>1. /\ fact' \in [Ref -> [state : {"none", "served", "retracted"}, texts : SUBSET Text]]
      /\ \A q \in Ref : fact'[q].state = "retracted" => fact[q].state = "retracted"
      /\ \A q \in Ref : q \in tainted'.facts \/ fact'[q] = fact[q]
  <2>1. CASE fact' = fact
    BY <1>i, <2>1 DEF Types
  <2>2. CASE fact' # fact
    <3>1. fact' = Trusted(r) /\ fact[r].state = "retracted"
      BY <1>i, <2>2, TrustedIs
    <3>2. /\ fact' \in [Ref -> [state : {"none", "served", "retracted"}, texts : SUBSET Text]]
          /\ (\A q \in Ref \ {r} : fact'[q] = fact[q]) /\ fact'[r].state # "retracted"
      BY <1>i, <3>1, TrustedIs
    <3> QED BY <2>2, <3>1, <3>2
  <2> QED BY <2>1, <2>2
<1>2. /\ job' \in Job /\ job'.pc = pc /\ job'.op = job.op /\ job'.ref = {r}
      /\ job'.stale = job.stale /\ job'.todo = job.todo
  BY <1>i DEF Types, Job, AtSegment
<1>3. Operations' /\ (\A p \in OpId : Queue(p)' = Queue(p)) /\ Waiting' = Waiting
  BY <1>i, OperationsAlone
<1>4. Types' /\ Changes' /\ Live' = Live
  BY <1>1, <1>2, <1>i, RecordAlone DEF Types
<1>5. Segments'
  BY <1>i DEF Segments
<1>6. Supported'
  BY <1>1, <1>4, <1>i DEF Supported, TextsOf
<1>7. DerivedFollowsRecord'
  BY <1>1, <1>3, <1>4, <1>i DEF DerivedFollowsRecord, TextsOf
<1>8. Run'
  <2>1. dead' = dead /\ ~dead
    BY <1>i DEF Run
  <2> QED BY <1>2, <2>1 DEF Run, Writing
<1>9. Target'
  BY <1>1, <1>2, <1>4, <1>i DEF Target, TextsOf
<1>10. Rebuilds'
  <2>1. job.pc \in AtSegment
    BY DEF AtSegment
  <2> QED BY <1>2, <1>3, <1>i, <2>1, RebuildIs DEF Rebuilds
<1> QED BY <1>3, <1>4, <1>5, <1>6, <1>7, <1>8, <1>9, <1>10 DEF EditInv

\* In one transaction the facts that are selected are the facts that are updated.
LEMMA RefreshIs ==
  ASSUME EditInv, refresh_fact_trust
  PROVE  /\ fact' = fact
         /\ \E pc \in {"verify", "done"} : /\ pc = "verify" => ~Serial
                                           /\ job' = [job EXCEPT !.pc = pc]
<1>1. job.pc \in AtSegment
  BY DEF refresh_fact_trust, AtSegment
<1>2. PICK r \in Ref : job.ref = {r} /\ ThisRef = r
  BY <1>1, AtRef DEF EditInv
<1>3. fact[r].state = "served" => Trusted(r) = fact
  BY TrustedIs DEF EditInv
<1>4. CASE fact' = fact /\ job' = [job EXCEPT !.pc = "done"]
  BY <1>4
<1>5. CASE /\ fact[r].state = "served"
           /\ IF Serial THEN fact' = Trusted(r) /\ job' = [job EXCEPT !.pc = "done"]
                        ELSE fact' = fact /\ job' = [job EXCEPT !.pc = "verify"]
  BY <1>3, <1>5
<1> QED BY <1>2, <1>4, <1>5 DEF refresh_fact_trust

LEMMA RefreshKeeps ==
  ASSUME EditInv, refresh_fact_trust
  PROVE  EditInv'
<1>1. /\ UNCHANGED <<text, tags, packed, used, edits, seg, stamp, tainted, op, dead, faults,
                     replay>>
      /\ job.pc \in {"trust", "verify"} /\ job.pc \in AtSegment
  BY DEF refresh_fact_trust, recordVars, AtSegment
<1>2. PICK r \in Ref : job.ref = {r}
  BY <1>1, AtRef DEF EditInv
<1>3. PICK pc \in {"verify", "done"} : /\ pc = "verify" => ~Serial
                                       /\ job' = [job EXCEPT !.pc = pc]
  BY RefreshIs
<1>4. fact' = fact
  BY RefreshIs
<1>5. tainted \in Taints
  BY DEF EditInv, Types
<1> QED BY <1>1, <1>2, <1>3, <1>4, <1>5, TrustKeeps

LEMMA UpdateTrustKeeps ==
  ASSUME EditInv, UpdateTrust
  PROVE  EditInv'
<1>1. /\ UNCHANGED <<text, tags, packed, used, edits, seg, stamp, op, dead, faults, replay>>
      /\ job.pc \in {"trust", "verify"} /\ job.pc \in AtSegment /\ job.pc = "verify"
  BY DEF UpdateTrust, recordVars, AtSegment
<1>2. PICK r \in Ref : job.ref = {r} /\ ThisRef = r
  BY <1>1, AtRef DEF EditInv
<1>3. ~Serial /\ tainted \in Taints /\ Types
  BY <1>1 DEF EditInv, Run, Types
<1>4. /\ fact' = Trusted(r) /\ job' = [job EXCEPT !.pc = "done"]
      /\ tainted' = [tainted EXCEPT !.facts =
                       IF fact[r].state = "retracted" THEN @ \cup {r} ELSE @]
  BY <1>2 DEF UpdateTrust
<1>5. "done" \in {"verify", "done"} /\ ("done" = "verify" => ~Serial)
  OBVIOUS
<1>6. /\ tainted' \in Taints /\ tainted'.segs = tainted.segs /\ tainted'.kept = tainted.kept
      /\ tainted.facts \subseteq tainted'.facts
      /\ fact[r].state = "retracted" => r \in tainted'.facts
  BY <1>3, <1>4 DEF Taints
<1> QED BY <1>1, <1>2, <1>3, <1>4, <1>5, <1>6, TrustKeeps

-----------------------------------------------------------------------------
(* Compaction.                                                             *)

\* The turns of a compaction are all stored when it reads them.
LEMMA CompactLoadKeeps ==
  ASSUME EditInv, NEW new \in SUBSET RowId, NEW r \in Ref, CompactLoad(new, r)
  PROVE  EditInv'
<1>i. /\ Types /\ Changes /\ Operations /\ Segments /\ Run /\ Rebuilds /\ Target
      /\ Supported /\ DerivedFollowsRecord
  BY DEF EditInv
<1> DEFINE ids == new \cup seg[r].ids
<1>1. /\ UNCHANGED <<text, tags, packed, used, edits, seg, fact, stamp, tainted, op, dead,
                     faults, replay>>
      /\ ~dead /\ new # {} /\ new \subseteq Live /\ (FreshRef(r) \/ MergeTarget(r, new))
      /\ FirstWrite(TextsOf(new)) \in {"stub", "seg"}
  BY DEF CompactLoad, FirstWrite, recordVars, derived
<1>2. ids \subseteq Live /\ ids # {}
  BY <1>1 DEF FreshRef, MergeTarget, NoSeg
<1>3. seg[r] = NoSeg => fact[r] = NoFact
  BY <1>1 DEF FreshRef, MergeTarget, NoSeg
<1>4. /\ ids \in SUBSET RowId /\ TextsOf(ids) \in SUBSET Text
      /\ TagsOf(ids) \cup seg[r].tags \in SUBSET Topic
  <2>1. ids \in SUBSET RowId /\ seg[r].tags \in SUBSET Topic
    BY <1>i DEF Types
  <2> HIDE DEF ids
  <2> QED BY <1>2, <1>i, <2>1, RowFacts
<1>5. /\ job' \in Job /\ job'.pc \in {"stub", "seg"} /\ job'.op = 0 /\ job'.ref = {r} /\ job'.ids = ids
      /\ job'.texts = TextsOf(ids)
  <2> DEFINE first == FirstWrite(TextsOf(new))
  <2>1. job' = [by |-> "worker", pc |-> first, op |-> 0, ref |-> {r}, ids |-> ids,
                mine |-> new, texts |-> TextsOf(ids), tags |-> TagsOf(ids) \cup seg[r].tags,
                todo |-> {}, stale |-> r \in Waiting]
    BY DEF CompactLoad, Idle
  <2>2. 0 \in 0 .. MaxEdit /\ {r} \in SUBSET Ref /\ {} \in SUBSET Ref
    BY EditAssumption
  <2>3. (r \in Waiting) \in BOOLEAN
    OBVIOUS
  <2>4. first \in {"stub", "seg"}
    BY <1>1
  <2>5. first \in {"idle", "retag", "next"} \cup AtSegment
    BY <2>4 DEF AtSegment
  <2> HIDE DEF ids, first
  <2>6. job' \in Job
    BY <1>4, <2>1, <2>2, <2>3, <2>5, Zenon DEF Job
  <2> QED BY <2>1, <2>4, <2>6
<1> HIDE DEF ids
<1>6. Operations' /\ Waiting' = Waiting
  BY <1>1, <1>i, OperationsAlone
<1>7. Types' /\ Changes' /\ Live' = Live
  BY <1>1, <1>5, <1>i, RecordAlone DEF Types
<1>8. Segments' /\ Supported' /\ DerivedFollowsRecord'
  BY <1>1, <1>6, <1>i, DerivedKept
<1>9. Run'
  BY <1>1, <1>2, <1>5, <1>7 DEF Run, Writing, TextsOf
<1>10. Target'
  <2>1. seg[r].ids \subseteq ids
    BY DEF ids
  <2> QED BY <1>1, <1>3, <1>5, <2>1 DEF Target
<1>11. Rebuilds'
  BY <1>5 DEF Rebuilds
<1> QED BY <1>6, <1>7, <1>8, <1>9, <1>10, <1>11 DEF EditInv

\* A run ends, of itself, by a failure or by the death of its process.
LEMMA RunEnds ==
  ASSUME EditInv, CompactEnd \/ CompactFails \/ Die
  PROVE  EditInv'
<1>i. /\ Types /\ Changes /\ Operations /\ Segments /\ Run /\ Rebuilds /\ Target
      /\ Supported /\ DerivedFollowsRecord
  BY DEF EditInv
<1>1. /\ UNCHANGED <<text, tags, used, edits, seg, fact, tainted, op, replay>>
      /\ job' = Idle
  BY DEF CompactEnd, CompactFails, Die, recordVars, derived
<1>2. packed' \subseteq Live
  BY <1>i DEF CompactEnd, CompactFails, Die, recordVars, Types
<1>3. stamp' \in Refs
  BY <1>i DEF CompactEnd, CompactFails, Die, derived, None, Refs, Types
<1>4. faults' \in 0 .. MaxFault
  BY <1>i, FaultIs DEF CompactEnd, CompactFails, Die, Types
<1>5. dead' \in BOOLEAN
  <2>1. dead \in BOOLEAN
    BY <1>i DEF Types
  <2>2. dead' = dead \/ dead' = (dead \/ job.by = "worker")
    BY DEF CompactEnd, CompactFails, Die
  <2> QED BY <2>1, <2>2, Zenon
<1>6. Operations' /\ Waiting' = Waiting
  BY <1>1, <1>i, OperationsAlone
<1>7. job' \in Job /\ Run' /\ Rebuilds' /\ Target'
  BY <1>1, IdleIs
<1>8. Types' /\ Changes'
  BY <1>1, <1>2, <1>3, <1>4, <1>5, <1>7, <1>i, RecordAlone DEF Types
<1>9. Segments' /\ Supported' /\ DerivedFollowsRecord'
  BY <1>1, <1>6, <1>i, DerivedKept
<1> QED BY <1>6, <1>7, <1>8, <1>9 DEF EditInv

\* The takeover deletes what bears the dead run's operation id.
LEMMA CleanupKeeps ==
  ASSUME EditInv, cleanup_abandoned_compaction
  PROVE  EditInv'
<1>i. /\ Types /\ Changes /\ Operations /\ Segments /\ Run /\ Rebuilds /\ Target
      /\ Supported /\ DerivedFollowsRecord
  BY DEF EditInv
<1>1. /\ UNCHANGED <<text, tags, packed, used, edits, op, job, faults, replay>>
      /\ dead /\ dead' = FALSE /\ stamp' = None
      /\ seg' = [r \in Ref |-> IF r \in stamp.segs THEN NoSeg ELSE seg[r]]
      /\ fact' = [r \in Ref |-> IF r \in stamp.facts THEN NoFact ELSE fact[r]]
      /\ tainted' = [tainted EXCEPT !.facts = @ \cup (stamp.segs \ stamp.facts)]
  BY DEF cleanup_abandoned_compaction, recordVars
<1>2. job.pc = "idle" /\ job.op = 0
  BY <1>1, <1>i DEF Run
<1>3. /\ NoSeg \in [ids : SUBSET RowId, texts : SUBSET Text, tags : SUBSET Topic]
      /\ NoFact \in [state : {"none", "served", "retracted"}, texts : SUBSET Text]
      /\ NoFact.state = "none"
  BY DEF NoSeg, NoFact
<1>4. /\ seg' \in [Ref -> [ids : SUBSET RowId, texts : SUBSET Text, tags : SUBSET Topic]]
      /\ fact' \in [Ref -> [state : {"none", "served", "retracted"}, texts : SUBSET Text]]
      /\ \A r \in Ref : seg'[r] = IF r \in stamp.segs THEN NoSeg ELSE seg[r]
      /\ \A r \in Ref : fact'[r] = IF r \in stamp.facts THEN NoFact ELSE fact[r]
  BY <1>1, <1>3, <1>i DEF Types
<1>5. /\ stamp' \in Refs /\ tainted' \in Taints /\ tainted'.segs = tainted.segs
      /\ tainted'.facts = tainted.facts \cup (stamp.segs \ stamp.facts)
      /\ tainted'.kept = tainted.kept
  BY <1>1, <1>i DEF Types, Refs, Taints, None
<1>6. Operations' /\ Waiting' = Waiting
  BY <1>1, <1>i, OperationsAlone
<1>7. Types' /\ Changes' /\ Live' = Live
  <2>1. dead' \in BOOLEAN
    BY <1>1
  <2> QED BY <1>1, <1>4, <1>5, <1>i, <2>1, RecordAlone DEF Types
<1>8. Segments'
  BY <1>4, <1>i DEF Segments
<1>9. Supported'
  <2> SUFFICES ASSUME NEW r \in Ref, r \notin tainted'.facts,
                      fact'[r].state = "served"
               PROVE  seg'[r] # NoSeg
                        /\ fact'[r].texts \subseteq {text[i] : i \in seg'[r].ids \cap Live}
    BY <1>1, <1>7 DEF Supported, TextsOf
  <2>1. seg'[r] = seg[r] /\ fact'[r] = fact[r] /\ r \notin tainted.facts
    BY <1>3, <1>4, <1>5
  <2> QED BY <1>i, <2>1 DEF Supported, TextsOf
<1>10. DerivedFollowsRecord'
  <2> SUFFICES ASSUME NEW r \in Ref, r \notin Waiting, seg'[r] # NoSeg
               PROVE  /\ r \notin tainted.segs =>
                           /\ seg'[r].ids \subseteq Live
                           /\ seg'[r].texts = {text[i] : i \in seg'[r].ids}
                      /\ fact'[r].state = "retracted" => r \in tainted.kept
    BY <1>1, <1>5, <1>6, <1>7 DEF DerivedFollowsRecord, TextsOf
  <2> QED BY <1>3, <1>4, <1>i DEF DerivedFollowsRecord, TextsOf
<1>11. Run' /\ Rebuilds' /\ Target'
  BY <1>1, <1>2 DEF Run, Rebuilds, Target, Writing, AtSegment
<1> QED BY <1>6, <1>7, <1>8, <1>9, <1>10, <1>11 DEF EditInv

-----------------------------------------------------------------------------
(* The theorems.                                                           *)

LEMMA EditInit == Init => EditInv
<1> SUFFICES ASSUME Init PROVE EditInv
  OBVIOUS
<1>1. Live = {} /\ Waiting = {}
  BY DEF Init, Live, Waiting, Queue, NoEdit
<1>2. text \in [RowId -> Text \cup {Gone}] /\ tags \in [RowId -> SUBSET Topic]
  BY DEF Init
<1>3. packed \subseteq Live /\ used \in 0 .. MaxRow /\ faults \in 0 .. MaxFault
  BY EditAssumption DEF Init
<1>4. edits = << >> /\ edits \in Seq([before : Text, after : Text \cup {Gone}])
  <2> DEFINE E == [before : Text, after : Text \cup {Gone}]
  <2> HIDE DEF E
  <2>1. << >> \in Seq(E)
    OBVIOUS
  <2> QED BY <2>1 DEF Init, E
<1>5. /\ NoSeg \in [ids : SUBSET RowId, texts : SUBSET Text, tags : SUBSET Topic]
      /\ NoFact \in [state : {"none", "served", "retracted"}, texts : SUBSET Text]
      /\ NoFact.state = "none"
  BY DEF NoSeg, NoFact
<1>6. /\ seg \in [Ref -> [ids : SUBSET RowId, texts : SUBSET Text, tags : SUBSET Topic]]
      /\ fact \in [Ref -> [state : {"none", "served", "retracted"}, texts : SUBSET Text]]
      /\ \A r \in Ref : seg[r] = NoSeg /\ fact[r] = NoFact
  BY <1>5 DEF Init
<1>7. NoEdit \in Operation
  BY DEF NoEdit, Operation, Status
<1>8. op \in [OpId -> Operation] /\ \A o \in OpId : op[o] = NoEdit
  BY <1>7 DEF Init
<1>9. Operations
  BY <1>8 DEF Operations, NoEdit, Queue
<1>10. job \in Job /\ job.pc = "idle" /\ job.op = 0 /\ job.ref = {}
  <2>1. 0 \in 0 .. MaxEdit
    BY EditAssumption
  <2> QED BY <2>1 DEF Init, Idle, Job
<1>11. stamp \in Refs /\ tainted \in Taints /\ dead \in BOOLEAN
  BY DEF Init, None, Untainted, Refs, Taints
<1>12. replay \in [msg : SUBSET Msg, existing : SUBSET Text]
  BY DEF Init, NoReplay
<1>13. Types
  <2>1. \A i \in RowId : i > used => text[i] = Gone
    BY DEF Init
  <2> QED BY <1>2, <1>3, <1>4, <1>6, <1>8, <1>10, <1>11, <1>12, <2>1 DEF Types
<1>14. Changes
  BY <1>4 DEF Changes
<1>15. Segments /\ Supported /\ DerivedFollowsRecord
  BY <1>5, <1>6 DEF Segments, Supported, DerivedFollowsRecord
<1>16. Run /\ Rebuilds /\ Target
  BY <1>10 DEF Run, Rebuilds, Target, Writing, AtSegment
<1> QED BY <1>9, <1>13, <1>14, <1>15, <1>16 DEF EditInv

LEMMA EditStutter ==
  ASSUME EditInv, UNCHANGED vars
  PROVE  EditInv'
<1>i. /\ Types /\ Changes /\ Operations /\ Segments /\ Run /\ Rebuilds /\ Target
      /\ Supported /\ DerivedFollowsRecord
  BY DEF EditInv
<1>1. UNCHANGED <<text, tags, packed, used, edits, seg, fact, op, job, stamp, dead, faults,
                  replay, tainted>>
  BY DEF vars
<1>2. Live' = Live /\ Gains
  BY <1>1 DEF Live, Gains
<1>3. Types' /\ Changes'
  BY <1>1, <1>2, <1>i DEF Types, Changes
<1> QED BY <1>1, <1>2, <1>3, <1>i, GainsKeeps DEF EditInv

\* Every step keeps the inductive invariant.
LEMMA EditStep == EditInv /\ [Next]_vars => EditInv'
<1> SUFFICES ASSUME EditInv, [Next]_vars PROVE EditInv'
  OBVIOUS
<1>i. /\ Types /\ Changes /\ Operations /\ Segments /\ Run /\ Rebuilds /\ Target
      /\ Supported /\ DerivedFollowsRecord
  BY DEF EditInv
<1>1. ASSUME Admin PROVE EditInv'
  <2>1. Types' /\ Changes' /\ \E ids, held, gone : Edited(ids, held, gone)
    BY <1>1, <1>i, EditIsEdited, RemoveIsEdited, ForgetIsEdited DEF Admin
  <2> QED BY <1>i, <2>1, EditedKeeps DEF EditInv
<1>2. ASSUME Rebuild PROVE EditInv'
  BY <1>2, ProcessKeeps, RetagKeeps, SegmentFailsKeeps, SegmentDoneKeeps, FinishKeeps,
     RebuildSegmentKeeps, StoreKeeps, StubKeeps, ReplaceFactsKeeps, RefreshKeeps,
     UpdateTrustKeeps, RunEnds DEF Rebuild
<1>3. ASSUME \/ \E new \in SUBSET RowId, r \in Ref : CompactLoad(new, r)
             \/ CompactEnd \/ CompactFails \/ cleanup_abandoned_compaction
      PROVE  EditInv'
  BY <1>3, CompactLoadKeeps, RunEnds, CleanupKeeps
<1>4. ASSUME (\E m \in Msg : ingest_single(m) \/ ReplayLoad(m)) \/ _apply_record_edits
      PROVE  EditInv'
  BY <1>4, <1>i, HostKeeps
<1>5. ASSUME UNCHANGED vars PROVE EditInv'
  BY <1>5, EditStutter
<1> QED BY <1>1, <1>2, <1>3, <1>4, <1>5 DEF Next

\* The inductive invariant: types, what an operation records, what the run
\* under way has read and written, and what the derived rows rest on, through
\* every interleaving of edits, rebuilds, compaction, faults and replays.
THEOREM EditInvariant == Spec => []EditInv
<1> QED BY EditInit, EditStep, PTL DEF Spec

\* The record, what derives from it and the runs keep their types.
THEOREM EditTypesAlways == Spec => []EditTypeOK
<1>1. EditInv => EditTypeOK
  BY DEF EditInv, Types, Operations, Taints, EditTypeOK
<1> QED BY <1>1, EditInvariant, PTL

\* No fact is served that rests on a text the record no longer has, whoever dies
\* or fails between the edit and the rebuild: _open_record_edit withholds the
\* facts, replace_facts_for_segment serves new ones, refresh_fact_trust no others
\* on SQLite and, on Postgres, those that UpdateTrust marks.
THEOREM ServedFactsAreSupported == Spec => []ServedFactsSupported
<1>1. ASSUME EditInv PROVE ServedFactsSupported
  <2> SUFFICES ASSUME NEW r \in Ref \ tainted.facts, fact[r].state = "served"
               PROVE  fact[r].texts \subseteq {text[i] : i \in Live}
    BY DEF ServedFactsSupported, TextsOf
  <2>1. fact[r].texts \subseteq {text[i] : i \in seg[r].ids \cap Live}
    BY <1>1 DEF EditInv, Supported, TextsOf
  <2> QED BY <2>1
<1> QED BY <1>1, EditInvariant, PTL

\* On SQLite, whatever is under way beside an edit, withheld facts are served
\* again only by the step that replaces the facts of their segment
\* (replace_facts_for_segment): refresh_fact_trust serves none that an edit
\* withheld, and no crash, failure, compaction or cleanup does.
THEOREM RetractedFactsStayRetracted ==
  ASSUME Serial = TRUE
  PROVE  Spec => RetractedStaysRetracted
<1> DEFINE A == \A r \in Ref : fact[r].state = "retracted" /\ fact'[r].state = "served"
                                 => job.pc = "facts" /\ r \in job.ref
<1>1. ASSUME EditInv, [Next]_vars PROVE A
  <2> SUFFICES ASSUME NEW r \in Ref, fact[r].state = "retracted", fact'[r].state = "served"
               PROVE  job.pc = "facts" /\ r \in job.ref
    OBVIOUS
  <2>i. Types /\ Changes /\ Run
    BY <1>1 DEF EditInv
  <2>n. NoFact.state = "none"
    BY DEF NoFact
  <2>c. fact' # fact
    OBVIOUS
  <2>1. CASE Admin
    <3>1. PICK ids, held, gone : Edited(ids, held, gone)
      BY <2>i, <2>1, EditIsEdited, RemoveIsEdited, ForgetIsEdited DEF Admin
    <3> QED BY <3>1 DEF Edited
  <2>2. CASE \E q \in Ref : rebuild_segment(q)
    <3>1. PICK q \in Ref : fact' = fact \/ fact' = [fact EXCEPT ![q] = NoFact]
      BY <2>2 DEF rebuild_segment
    <3> QED BY <2>i, <2>n, <3>1 DEF Types
  <2>3. CASE replace_facts_for_segment
    <3>1. job.pc = "facts" /\ job.pc \in AtSegment
      BY <2>3 DEF replace_facts_for_segment, AtSegment
    <3>2. PICK q \in Ref : job.ref = {q} /\ ThisRef = q
      BY <2>i, <3>1, AtRef
    <3>3. \E new : fact' = [fact EXCEPT ![q] = new]
      BY <2>3, <3>2 DEF replace_facts_for_segment
    <3>4. r = q
      BY <2>i, <3>3 DEF Types
    <3> QED BY <3>1, <3>2, <3>4
  <2>4. CASE refresh_fact_trust
    BY <1>1, <2>4, <2>c, RefreshIs
  <2>5. ~UpdateTrust
    BY <2>i DEF UpdateTrust, Run
  <2>6. CASE cleanup_abandoned_compaction
    BY <2>6, <2>n DEF cleanup_abandoned_compaction
  <2>7. CASE Rebuild /\ ~(\E q \in Ref : rebuild_segment(q)) /\ ~replace_facts_for_segment
             /\ ~refresh_fact_trust
    BY <2>5, <2>7, <2>c DEF Rebuild, process, Retag, SegmentFails, SegmentDone, Finish,
       store_segment, passthrough_stub, Die, derived
  <2>8. CASE \/ \E new \in SUBSET RowId, q \in Ref : CompactLoad(new, q)
             \/ CompactEnd \/ CompactFails
    BY <2>8, <2>c DEF CompactLoad, CompactEnd, CompactFails, derived
  <2>9. CASE (\E m \in Msg : ingest_single(m) \/ ReplayLoad(m)) \/ _apply_record_edits
    BY <2>9, <2>c DEF ingest_single, ReplayLoad, _apply_record_edits, derived
  <2>10. CASE UNCHANGED vars
    BY <2>10, <2>c DEF vars
  <2> QED BY <1>1, <2>1, <2>2, <2>3, <2>4, <2>6, <2>7, <2>8, <2>9, <2>10 DEF Next
<1> QED BY <1>1, EditInvariant, PTL DEF Spec, RetractedStaysRetracted

\* On either backend a segment that no edit waits for is what its turns give,
\* and its facts are not withheld unless it was rebuilt as a placeholder:
\* RecordEditor.process completes an edit only when every one of its segments
\* is rebuilt.
THEOREM DerivedFollowsTheRecord == Spec => []DerivedFollowsRecord
<1>1. EditInv => DerivedFollowsRecord
  BY DEF EditInv
<1> QED BY <1>1, EditInvariant, PTL

\* A replay brings back neither a removed turn nor the text before an edit:
\* get_retired_turns follows the edits to a text that none of them replaced,
\* for chains of any length.
THEOREM ReplayBringsNothingBack == Spec => ReplayRestoresNothing
<1> DEFINE A == replay # NoReplay /\ used' # used /\ ~Undone
                  => \A k \in DOMAIN edits : edits[k].before # text'[used']
<1>1. ASSUME EditInv, [Next]_vars PROVE A
  <2> SUFFICES ASSUME replay # NoReplay, used' # used, ~Undone
               PROVE  \A k \in DOMAIN edits : edits[k].before # text'[used']
    OBVIOUS
  <2>i. Types /\ Changes
    BY <1>1 DEF EditInv
  <2>1. _apply_record_edits
    <3>1. CASE Admin
      BY <3>1 DEF Admin, remove_canonical_turn, edit_canonical_turn, forget_topic_records
    <3>2. CASE Rebuild
      BY <3>2 DEF Rebuild, process, Retag, SegmentFails, SegmentDone, Finish,
         rebuild_segment, store_segment, passthrough_stub, replace_facts_for_segment,
         refresh_fact_trust, UpdateTrust, Die, recordVars
    <3>3. CASE \/ \E new \in SUBSET RowId, r \in Ref : CompactLoad(new, r)
               \/ CompactEnd \/ CompactFails \/ cleanup_abandoned_compaction
      BY <3>3 DEF CompactLoad, CompactEnd, CompactFails, cleanup_abandoned_compaction, recordVars
    <3>4. CASE \E m \in Msg : ingest_single(m) \/ ReplayLoad(m)
      BY <3>4 DEF ingest_single, ReplayLoad, recordVars
    <3>5. CASE UNCHANGED vars
      BY <3>5 DEF vars
    <3> QED BY <1>1, <3>1, <3>2, <3>3, <3>4, <3>5 DEF Next
  <2>2. PICK m \in replay.msg :
          LET t == get_retired_turns(Original(m))
          IN  IF t = Gone \/ t \in replay.existing
              THEN UNCHANGED <<text, tags, used>>
              ELSE NewRow(t)
    BY <2>1 DEF _apply_record_edits
  <2> DEFINE t == get_retired_turns(Original(m))
  <2>3. Original(m) \in Text
    BY <2>i, OriginalIs DEF Types
  <2>4. t \in Text \cup {Gone}
    BY <2>3, <2>i, RetiredType DEF Types
  <2>5. t # Gone /\ NewRow(t)
    BY <2>2
  <2>6. \A k \in DOMAIN edits : edits[k].before # t
    BY <2>3, <2>i, WalkEndsAtLatest DEF Types
  <2> HIDE DEF t
  <2>7. text'[used'] = t
    BY <2>4, <2>5, <2>i, NewRowGains
  <2> QED BY <2>6, <2>7
<1> QED BY <1>1, EditInvariant, PTL DEF Spec, ReplayRestoresNothing

=============================================================================

----------------------- MODULE IngestReconcilerProofs -----------------------
(***************************************************************************)
(* Theorems about IngestReconciler, for any messages, payloads, histories, *)
(* anchor sizes and key spacings: the sort keys of the stored rows stay    *)
(* strictly increasing, and no planned write meets a taken key; no row of  *)
(* a batch that a resurrection overtook outlives its call; the stored      *)
(* group numbers give the logical turns; earlier rows keep their content,  *)
(* order, actor and tags; a payload lies in the transcript as it was       *)
(* delivered, and the same payload again would find all of itself; and     *)
(* batches in order leave one window of the host's history stored.         *)
(* IngestReconcilerInvariants has the definitions the proofs use.          *)
(***************************************************************************)
EXTENDS IngestReconcilerInvariants, FiniteSetTheorems, SequenceTheorems, IterationTheorems,
        TLAPS

LEMMA OrderedIs ==
  ASSUME NEW s, Ordered(s)
  PROVE  /\ s \in Seq(Row) /\ Len(s) \in Nat /\ DOMAIN s = 1..Len(s)
         /\ \A i \in DOMAIN s : s[i] \in Row /\ s[i].key \in Int /\ s[i].id \in Nat
<1>1. s \in Seq(Row) /\ Len(s) \in Nat /\ DOMAIN s = 1..Len(s) /\ \A i \in DOMAIN s : s[i] \in Row
  BY DEF Ordered
<1>2. \A r \in Row : r.key \in Int /\ r.id \in Nat
  BY DEF Row
<1> QED BY <1>1, <1>2

-----------------------------------------------------------------------------
(* Rows chosen by their positions.                                         *)

\* A set of positions is numbered by an increasing function onto it.
LEMMA NthIs ==
  ASSUME NEW n \in Nat, NEW keep \in SUBSET (1..n)
  PROVE  /\ IsFiniteSet(keep) /\ Cardinality(keep) \in Nat
         /\ \A k \in 1..Cardinality(keep) : Nth(keep, k) \in keep
         /\ \A j, k \in 1..Cardinality(keep) : j < k => Nth(keep, j) < Nth(keep, k)
         /\ \A i \in keep : \E k \in 1..Cardinality(keep) : Nth(keep, k) = i
<1> DEFINE c == Cardinality(keep)
           Upto(i) == {j \in keep : j <= i}
           rank == [i \in keep |-> Cardinality(Upto(i))]
<1>1. IsFiniteSet(keep) /\ c \in Nat
  <2>1. IsFiniteSet(1..n)
    BY FS_Interval
  <2>2. IsFiniteSet(keep)
    BY <2>1, FS_Subset
  <2> QED BY <2>2, FS_CardinalityType
<1>2. \A i \in keep : IsFiniteSet(Upto(i)) /\ rank[i] \in 1..c
  <2> TAKE i \in keep
  <2>1. Upto(i) \in SUBSET keep /\ Upto(i) # {}
    BY i \in Nat
  <2> HIDE DEF Upto
  <2>2. IsFiniteSet(Upto(i)) /\ Cardinality(Upto(i)) <= c
    BY <1>1, <2>1, FS_Subset
  <2>3. Cardinality(Upto(i)) \in Nat /\ Cardinality(Upto(i)) # 0
    BY <2>1, <2>2, FS_CardinalityType, FS_EmptySet
  <2> QED BY <1>1, <2>2, <2>3
<1>3. \A i, j \in keep : i < j => rank[i] < rank[j]
  <2> SUFFICES ASSUME NEW i \in keep, NEW j \in keep, i < j PROVE rank[i] < rank[j]
    OBVIOUS
  <2>1. Upto(i) \in SUBSET Upto(j) /\ Upto(i) # Upto(j)
    <3>1. i \in Nat /\ j \in Nat /\ \A x \in keep : x \in Nat
      OBVIOUS
    <3>2. j \in Upto(j) /\ j \notin Upto(i)
      BY <3>1
    <3>3. \A x \in Upto(i) : x \in Upto(j)
      BY <3>1
    <3> HIDE DEF Upto
    <3> QED BY <3>2, <3>3
  <2>2. /\ IsFiniteSet(Upto(j)) /\ rank[i] = Cardinality(Upto(i)) /\ rank[i] \in Int
        /\ rank[j] = Cardinality(Upto(j)) /\ rank[j] \in Int
    BY <1>2
  <2> HIDE DEF Upto, rank
  <2> QED BY <2>1, <2>2, FS_Subset
<1>4. rank \in Injection(keep, 1..c)
  <2>1. rank \in [keep -> 1..c]
    BY <1>2
  <2>2. \A i, j \in keep : rank[i] = rank[j] => i = j
    <3> SUFFICES ASSUME NEW i \in keep, NEW j \in keep, i # j PROVE rank[i] # rank[j]
      OBVIOUS
    <3>1. i \in Nat /\ j \in Nat /\ rank[i] \in Int /\ rank[j] \in Int
      BY <2>1
    <3>2. rank[i] < rank[j] \/ rank[j] < rank[i]
      BY <1>3, <3>1
    <3> HIDE DEF rank
    <3> QED BY <3>1, <3>2
  <2> HIDE DEF rank
  <2> QED BY <2>1, <2>2 DEF Injection, IsInjective
<1>5. rank \in Surjection(keep, 1..c)
  <2>1. IsFiniteSet(1..c) /\ Cardinality(1..c) = c
    BY <1>1, FS_Interval
  <2> HIDE DEF rank
  <2> QED BY <1>4, <2>1, FS_Injection
<1>6. \A k \in 1..c : \E i \in keep : rank[i] = k
  <2> HIDE DEF rank
  <2> QED BY <1>5 DEF Surjection
<1>7. \A k \in 1..c : Nth(keep, k) \in keep /\ rank[Nth(keep, k)] = k
  <2> TAKE k \in 1..c
  <2>1. \E i \in keep : Cardinality({j \in keep : j <= i}) = k
    BY <1>6
  <2>2. Nth(keep, k) \in keep /\ Cardinality({j \in keep : j <= Nth(keep, k)}) = k
    BY <2>1, Zenon DEF Nth
  <2> QED BY <2>2
<1>8. \A i \in keep : Nth(keep, rank[i]) = i
  <2> TAKE i \in keep
  <2>1. rank[i] \in 1..c /\ Nth(keep, rank[i]) \in keep /\ rank[Nth(keep, rank[i])] = rank[i]
    BY <1>2, <1>7
  <2> HIDE DEF rank
  <2> QED BY <1>4, <2>1 DEF Injection, IsInjective
<1>9. ASSUME NEW j \in 1..c, NEW k \in 1..c, j < k PROVE Nth(keep, j) < Nth(keep, k)
  <2>1. /\ Nth(keep, j) \in keep /\ rank[Nth(keep, j)] = j
        /\ Nth(keep, k) \in keep /\ rank[Nth(keep, k)] = k
    BY <1>7
  <2>2. Nth(keep, j) \in Nat /\ Nth(keep, k) \in Nat /\ j \in Nat /\ k \in Nat
    <3>1. keep \subseteq Nat
      OBVIOUS
    <3>2. j \in Nat /\ k \in Nat
      BY <1>1
    <3> HIDE DEF rank
    <3> QED BY <2>1, <3>1, <3>2, Zenon
  <2> HIDE DEF rank
  <2>3. ~ (Nth(keep, k) < Nth(keep, j)) /\ Nth(keep, k) # Nth(keep, j)
    BY <1>3, <1>9, <2>1, <2>2
  <2> QED BY <2>2, <2>3
<1>10. \A i \in keep : \E k \in 1..c : Nth(keep, k) = i
  BY <1>2, <1>8
<1> QED BY <1>1, <1>7, <1>9, <1>10

\* What is chosen from ordered rows is ordered, and among them.
LEMMA SelectIs ==
  ASSUME NEW s, Ordered(s), NEW keep \in SUBSET DOMAIN s
  PROVE  /\ Ordered(Select(s, keep))
         /\ \A k \in DOMAIN Select(s, keep) : \E i \in keep : Select(s, keep)[k] = s[i]
         /\ \A i \in keep : \E k \in DOMAIN Select(s, keep) : Select(s, keep)[k] = s[i]
<1> DEFINE c == Cardinality(keep)
           t == Select(s, keep)
<1>1. Len(s) \in Nat /\ DOMAIN s = 1..Len(s) /\ \A i \in DOMAIN s : s[i] \in Row
  BY DEF Ordered
<1>2. /\ c \in Nat /\ \A k \in 1..c : Nth(keep, k) \in keep
      /\ \A j, k \in 1..c : j < k => Nth(keep, j) < Nth(keep, k)
      /\ \A i \in keep : \E k \in 1..c : Nth(keep, k) = i
  BY <1>1, NthIs
<1>3. t = [k \in 1..c |-> s[Nth(keep, k)]]
  BY DEF Select
<1> HIDE DEF c, t
<1>4. \A k \in 1..c : t[k] = s[Nth(keep, k)] /\ t[k] \in Row
  BY <1>1, <1>2, <1>3
<1>5. t \in Seq(Row) /\ DOMAIN t = 1..c
  BY <1>2, <1>3, <1>4
<1>6. \A i, j \in DOMAIN t : i < j => t[i].key < t[j].key
  <2> SUFFICES ASSUME NEW i \in 1..c, NEW j \in 1..c, i < j PROVE t[i].key < t[j].key
    BY <1>5
  <2>1. Nth(keep, i) \in DOMAIN s /\ Nth(keep, j) \in DOMAIN s /\ Nth(keep, i) < Nth(keep, j)
    BY <1>2
  <2>2. s[Nth(keep, i)].key < s[Nth(keep, j)].key
    BY <2>1 DEF Ordered
  <2> QED BY <1>4, <2>2
<1>7. Ordered(t)
  BY <1>5, <1>6 DEF Ordered
<1>8. \A k \in DOMAIN t : \E i \in keep : t[k] = s[i]
  BY <1>2, <1>4, <1>5
<1>9. \A i \in keep : \E k \in DOMAIN t : t[k] = s[i]
  BY <1>2, <1>4, <1>5
<1> QED BY <1>7, <1>8, <1>9 DEF t

-----------------------------------------------------------------------------
(* The store.                                                              *)

\* What is below a key in ordered rows is an initial part of them.
LEMMA BelowIs ==
  ASSUME NEW t, Ordered(t), NEW x \in Int
  PROVE  \E n \in 0..Len(t) : /\ {i \in DOMAIN t : t[i].key < x} = 1..n
                              /\ Cardinality({i \in DOMAIN t : t[i].key < x}) = n
<1> DEFINE low == {i \in DOMAIN t : t[i].key < x}
           high == {i \in 1..(Len(t) + 1) : i \notin low}
<1>1. Len(t) \in Nat /\ DOMAIN t = 1..Len(t) /\ \A i \in DOMAIN t : t[i].key \in Int
  BY OrderedIs
<1>2. PICK m \in high : \A y \in high : m <= y
  <2>1. high \subseteq Nat /\ high # {}
    <3>1. Len(t) + 1 \in high
      BY <1>1
    <3> QED BY <1>1, <3>1
  <2> HIDE DEF high
  <2> QED BY <2>1, LeastNumber
<1>3. m \in 1..(Len(t) + 1) /\ m - 1 \in 0..Len(t) /\ m \notin low
  BY <1>1, <1>2
<1>4. \A i \in 1..(m - 1) : i \in low
  <2> TAKE i \in 1..(m - 1)
  <2>1. i \in 1..(Len(t) + 1) /\ ~ (m <= i)
    BY <1>1, <1>3
  <2> QED BY <1>2, <2>1
<1>5. \A i \in low : i \in 1..(m - 1)
  <2> SUFFICES ASSUME NEW i \in low, ~ (i \in 1..(m - 1)) PROVE FALSE
    OBVIOUS
  <2>1. i \in 1..Len(t) /\ t[i].key < x
    BY <1>1
  <2>2. m < i
    <3>1. i # m
      BY <1>3
    <3>2. i \in Nat /\ m \in Nat /\ i >= 1
      BY <1>1, <1>3, <2>1
    <3> HIDE DEF low
    <3> QED BY <3>1, <3>2
  <2>3. m \in DOMAIN t
    BY <1>1, <1>3, <2>1, <2>2
  <2>4. t[m].key < t[i].key
    BY <1>1, <2>1, <2>2, <2>3 DEF Ordered
  <2>5. t[m].key < x
    BY <1>1, <2>1, <2>3, <2>4
  <2> QED BY <1>3, <2>3, <2>5
<1>6. low = 1..(m - 1)
  <2> HIDE DEF low
  <2> QED BY <1>4, <1>5
<1>7. Cardinality(1..(m - 1)) = m - 1
  BY <1>1, <1>3, FS_Interval
<1> HIDE DEF low, high
<1>8. \E n \in 0..Len(t) : low = 1..n /\ Cardinality(low) = n
  BY <1>3, <1>6, <1>7
<1> QED BY <1>8 DEF low

LEMMA SpliceIs ==
  ASSUME NEW S, NEW t \in Seq(S), NEW r \in S, NEW n \in 0..Len(t)
  PROVE  \E u \in Seq(S) :
           /\ u = SubSeq(t, 1, n) \o <<r>> \o SubSeq(t, n + 1, Len(t))
           /\ Spliced(u, t, r, n)
<1>0. Len(t) \in Nat /\ n \in Nat /\ n <= Len(t) /\ \A i \in 1..Len(t) : t[i] \in S
  OBVIOUS
<1>1. PICK N \in Nat : N = Len(t)
  BY <1>0
<1>2. PICK a : a = SubSeq(t, 1, n)
  OBVIOUS
<1>3. PICK b : b = SubSeq(t, n + 1, N)
  OBVIOUS
<1>4. a \in Seq(S) /\ Len(a) = n /\ \A k \in 1..n : a[k] = t[k]
  <2>1. 1 \in Int /\ n \in Int /\ \A i \in 1..n : t[i] \in S
    BY <1>0
  <2>2. /\ a \in Seq(S) /\ Len(a) = IF 1 <= n THEN n - 1 + 1 ELSE 0
        /\ \A i \in 1..(n - 1 + 1) : a[i] = t[1 + i - 1]
    BY <1>2, <2>1, SubSeqProperties
  <2> QED BY <1>0, <2>2
<1>5. b \in Seq(S) /\ Len(b) = N - n /\ \A k \in 1..(N - n) : b[k] = t[n + k]
  <2>1. n + 1 \in Int /\ N \in Int /\ \A i \in (n + 1)..N : t[i] \in S
    BY <1>0, <1>1
  <2>2. /\ b \in Seq(S) /\ Len(b) = IF n + 1 <= N THEN N - (n + 1) + 1 ELSE 0
        /\ \A i \in 1..(N - (n + 1) + 1) : b[i] = t[(n + 1) + i - 1]
    BY <1>3, <2>1, SubSeqProperties
  <2>3. /\ N - (n + 1) + 1 = N - n /\ (~ (n + 1 <= N) => N - n = 0)
    BY <1>0, <1>1
  <2>4. \A k \in 1..(N - n) : k \in 1..(N - (n + 1) + 1) /\ (n + 1) + k - 1 = n + k
    BY <1>0, <1>1
  <2>5. \A k \in 1..(N - n) : b[k] = t[n + k]
    BY <2>2, <2>4
  <2>6. Len(b) = N - n
    BY <2>2, <2>3
  <2> QED BY <2>2, <2>5, <2>6
<1>6. <<r>> \in Seq(S) /\ Len(<<r>>) = 1 /\ <<r>>[1] = r
  OBVIOUS
<1>7. PICK c : c = a \o <<r>>
  OBVIOUS
<1>8. c \in Seq(S) /\ Len(c) = n + 1 /\ c[n + 1] = r /\ \A k \in 1..n : c[k] = t[k]
  <2>1. /\ c \in Seq(S) /\ Len(c) = Len(a) + Len(<<r>>)
        /\ \A i \in 1..(Len(a) + Len(<<r>>)) :
             c[i] = IF i <= Len(a) THEN a[i] ELSE <<r>>[i - Len(a)]
    BY <1>4, <1>6, <1>7, ConcatProperties
  <2>2. \A i \in 1..(n + 1) : c[i] = IF i <= n THEN a[i] ELSE <<r>>[i - n]
    BY <1>4, <1>6, <2>1
  <2>3. n + 1 \in 1..(n + 1) /\ ~ (n + 1 <= n) /\ (n + 1) - n = 1
    BY <1>0
  <2>4. \A i \in 1..n : i \in 1..(n + 1) /\ i <= n
    BY <1>0
  <2> QED BY <1>4, <1>6, <2>1, <2>2, <2>3, <2>4
<1>9. PICK u : u = c \o b
  OBVIOUS
<1>10. /\ u \in Seq(S) /\ Len(u) = N + 1
       /\ \A i \in 1..(N + 1) : u[i] = IF i <= n + 1 THEN c[i] ELSE b[i - (n + 1)]
  <2>1. /\ u \in Seq(S) /\ Len(u) = Len(c) + Len(b)
        /\ \A i \in 1..(Len(c) + Len(b)) : u[i] = IF i <= Len(c) THEN c[i] ELSE b[i - Len(c)]
    BY <1>5, <1>8, <1>9, ConcatProperties
  <2>2. Len(c) + Len(b) = N + 1
    BY <1>0, <1>1, <1>5, <1>8
  <2> QED BY <1>8, <2>1, <2>2
<1>11. \A k \in (n + 2)..(N + 1) : u[k] = t[k - 1]
  <2> TAKE k \in (n + 2)..(N + 1)
  <2>1. k \in 1..(N + 1) /\ ~ (k <= n + 1) /\ k - (n + 1) \in 1..(N - n) /\ n + (k - (n + 1)) = k - 1
    BY <1>0, <1>1
  <2> QED BY <1>5, <1>10, <2>1
<1>12. u[n + 1] = r /\ \A k \in 1..n : u[k] = t[k]
  <2>1. n + 1 \in 1..(N + 1) /\ n + 1 <= n + 1 /\ \A k \in 1..n : k \in 1..(N + 1) /\ k <= n + 1
    BY <1>0, <1>1
  <2> QED BY <1>8, <1>10, <2>1
<1>13. Spliced(u, t, r, n)
  BY <1>1, <1>10, <1>11, <1>12 DEF Spliced
<1>14. u = SubSeq(t, 1, n) \o <<r>> \o SubSeq(t, n + 1, Len(t))
  BY <1>1, <1>2, <1>3, <1>7, <1>9, Zenon
<1> QED BY <1>10, <1>13, <1>14, Zenon

\* A row is put between the ones below and above its key.
LEMMA PutIs ==
  ASSUME NEW t, Ordered(t), NEW r \in Row, NEW n \in 0..Len(t),
         Divided(t, r.key, n), NEW u \in Seq(Row), Spliced(u, t, r, n)
  PROVE  /\ Ordered(u)
         /\ \A k \in DOMAIN u : u[k] = r \/ \E i \in DOMAIN t : u[k] = t[i]
         /\ \E k \in DOMAIN u : u[k] = r
         /\ \A i \in DOMAIN t : \E k \in DOMAIN u : u[k] = t[i]
<1>1. PICK N \in Nat : N = Len(t)
  BY OrderedIs
<1>2. n \in Nat /\ n <= N /\ DOMAIN t = 1..N /\ DOMAIN u = 1..(N + 1)
  BY <1>1, OrderedIs DEF Spliced
<1>3. \A i \in 1..N : t[i].key \in Int
  BY <1>2, OrderedIs
<1>4. \A i, j \in 1..N : i < j => t[i].key < t[j].key
  BY <1>2 DEF Ordered
<1>5. /\ \A k \in 1..n : u[k] = t[k]
      /\ u[n + 1] = r
      /\ \A k \in (n + 2)..(N + 1) : u[k] = t[k - 1]
  BY <1>1 DEF Spliced
<1>6. \A i \in 1..N : IF i <= n THEN t[i].key < r.key ELSE r.key < t[i].key
  BY <1>2 DEF Divided
<1>8. \A k \in 1..(N + 1) : k \in 1..n \/ k = n + 1 \/ (k \in (n + 2)..(N + 1) /\ k - 1 \in 1..N)
  BY <1>2
<1>9. \A k \in DOMAIN u : u[k] = r \/ \E i \in DOMAIN t : u[k] = t[i]
  <2> SUFFICES ASSUME NEW k \in 1..(N + 1)
               PROVE  u[k] = r \/ \E i \in 1..N : u[k] = t[i]
    BY <1>2
  <2>1. CASE k \in 1..n
    <3>1. k \in 1..N
      BY <1>2, <2>1
    <3> QED BY <1>5, <2>1, <3>1
  <2>2. CASE k = n + 1
    BY <1>5, <2>2
  <2>3. CASE k \in (n + 2)..(N + 1) /\ k - 1 \in 1..N
    BY <1>5, <2>3
  <2> QED BY <1>8, <2>1, <2>2, <2>3
<1>10. ASSUME NEW i \in 1..(N + 1), NEW j \in 1..(N + 1), i < j PROVE u[i].key < u[j].key
  <2>1. CASE i \in 1..n /\ j \in 1..n
    BY <1>2, <1>4, <1>5, <1>10, <2>1
  <2>2. CASE i \in 1..n /\ j = n + 1
    BY <1>2, <1>5, <1>6, <2>2
  <2>3. CASE i \in 1..n /\ j \in (n + 2)..(N + 1)
    <3>1. i \in 1..N /\ j - 1 \in 1..N /\ i < j - 1
      BY <1>2, <2>3
    <3> QED BY <1>4, <1>5, <2>3, <3>1
  <2>4. CASE i = n + 1 /\ j \in (n + 2)..(N + 1)
    <3>1. j - 1 \in 1..N /\ ~ (j - 1 <= n)
      BY <1>2, <2>4
    <3> QED BY <1>5, <1>6, <2>4, <3>1
  <2>5. CASE i \in (n + 2)..(N + 1) /\ j \in (n + 2)..(N + 1)
    <3>1. i - 1 \in 1..N /\ j - 1 \in 1..N /\ i - 1 < j - 1
      BY <1>2, <1>10, <2>5
    <3> QED BY <1>4, <1>5, <2>5, <3>1
  <2> QED BY <1>2, <1>8, <1>10, <2>1, <2>2, <2>3, <2>4, <2>5
<1>11. Ordered(u)
  BY <1>2, <1>10 DEF Ordered
<1>12. \E k \in DOMAIN u : u[k] = r
  <2>1. n + 1 \in DOMAIN u
    BY <1>2
  <2> QED BY <1>5, <2>1
<1>13. \A i \in DOMAIN t : \E k \in DOMAIN u : u[k] = t[i]
  <2> SUFFICES ASSUME NEW i \in 1..N PROVE \E k \in 1..(N + 1) : u[k] = t[i]
    BY <1>2
  <2>1. CASE i <= n
    BY <1>5, <2>1, i \in 1..n, i \in 1..(N + 1)
  <2>2. CASE ~ (i <= n)
    <3>1. i + 1 \in (n + 2)..(N + 1) /\ i + 1 \in 1..(N + 1) /\ (i + 1) - 1 = i
      BY <1>2, <2>2
    <3> QED BY <1>5, <3>1
  <2> QED BY <2>1, <2>2
<1> QED BY <1>9, <1>11, <1>12, <1>13

\* save_canonical_turn keeps the rows ordered if the key is free: it holds the
\* row, and those of other ids.
LEMMA SaveIs ==
  ASSUME NEW s, Ordered(s), NEW r \in Row, ~Collides(s, r)
  PROVE  LET u == save_canonical_turn(s, r)
         IN  /\ Ordered(u)
             /\ \A k \in DOMAIN u : \/ u[k] = r
                                    \/ \E i \in DOMAIN s : s[i].id # r.id /\ u[k] = s[i]
             /\ \E k \in DOMAIN u : u[k] = r
             /\ \A i \in DOMAIN s : s[i].id # r.id => \E k \in DOMAIN u : u[k] = s[i]
<1> DEFINE keep == {i \in DOMAIN s : s[i].id # r.id}
           t == Select(s, keep)
           low == {i \in DOMAIN t : t[i].key < r.key}
<1>1. /\ Ordered(t) /\ \A k \in DOMAIN t : \E i \in keep : t[k] = s[i]
      /\ \A i \in keep : \E k \in DOMAIN t : t[k] = s[i]
  <2>1. keep \in SUBSET DOMAIN s
    OBVIOUS
  <2> HIDE DEF keep
  <2> QED BY <2>1, SelectIs
<1>2. \A k \in DOMAIN t : t[k].key # r.key
  BY <1>1 DEF Collides
<1>3. /\ save_canonical_turn(s, r) = SubSeq(t, 1, Cardinality(low)) \o <<r>>
           \o SubSeq(t, Cardinality(low) + 1, Len(t))
  BY DEF save_canonical_turn
<1> HIDE DEF t, keep
<1>4. r.key \in Int /\ \A k \in DOMAIN t : t[k].key \in Int
  <2>1. r.key \in Int
    BY DEF Row
  <2> QED BY <1>1, <2>1, OrderedIs
<1>5. PICK n \in 0..Len(t) : low = 1..n /\ Cardinality(low) = n
  BY <1>1, <1>4, BelowIs
<1>6. Divided(t, r.key, n)
  <2> SUFFICES \A i \in DOMAIN t : IF i <= n THEN t[i].key < r.key ELSE r.key < t[i].key
    BY DEF Divided
  <2> TAKE i \in DOMAIN t
  <2>0. i \in Nat /\ i >= 1 /\ n \in Nat
    BY <1>1 DEF Ordered
  <2>1. i <= n <=> i \in low
    BY <1>5, <2>0
  <2> QED BY <1>2, <1>4, <2>1
<1> HIDE DEF low
<1>t. PICK u \in Seq(Row) :
        /\ u = SubSeq(t, 1, n) \o <<r>> \o SubSeq(t, n + 1, Len(t))
        /\ Spliced(u, t, r, n)
  <2>1. t \in Seq(Row)
    BY <1>1, OrderedIs
  <2> QED BY <2>1, SpliceIs, Zenon
<1>v. /\ Ordered(u) /\ \A k \in DOMAIN u : u[k] = r \/ \E i \in DOMAIN t : u[k] = t[i]
      /\ \E k \in DOMAIN u : u[k] = r
      /\ \A i \in DOMAIN t : \E k \in DOMAIN u : u[k] = t[i]
  <2>1. Spliced(u, t, r, n) /\ Ordered(t)
    BY <1>1, <1>t
  <2> QED BY <1>6, <2>1, PutIs
<1>w. save_canonical_turn(s, r) = u
  BY <1>3, <1>5, <1>t, Zenon
<1>7. \A k \in DOMAIN t : \E i \in DOMAIN s : s[i].id # r.id /\ t[k] = s[i]
  BY <1>1 DEF keep
<1>8. \A i \in DOMAIN s : s[i].id # r.id => \E k \in DOMAIN t : t[k] = s[i]
  BY <1>1 DEF keep
<1>9. /\ \A k \in DOMAIN u : \/ u[k] = r
                             \/ \E i \in DOMAIN s : s[i].id # r.id /\ u[k] = s[i]
      /\ \A i \in DOMAIN s : s[i].id # r.id => \E k \in DOMAIN u : u[k] = s[i]
  <2>1. ASSUME NEW k \in DOMAIN u, u[k] # r
        PROVE  \E i \in DOMAIN s : s[i].id # r.id /\ u[k] = s[i]
    <3>1. PICK j \in DOMAIN t : u[k] = t[j]
      BY <1>v, <2>1
    <3> QED BY <1>7, <3>1
  <2>2. ASSUME NEW i \in DOMAIN s, s[i].id # r.id PROVE \E k \in DOMAIN u : u[k] = s[i]
    <3>1. PICK j \in DOMAIN t : t[j] = s[i]
      BY <1>8, <2>2
    <3> QED BY <1>v, <3>1
  <2> QED BY <2>1, <2>2
<1> QED BY <1>v, <1>w, <1>9

-----------------------------------------------------------------------------
(* Plans: what a list of writes does to the places of the rows.            *)

LEMMA AllowsMonotone ==
  ASSUME NEW o, NEW K, NEW L, NEW K2, NEW L2, Allows(o, K, L), K2 \subseteq K, L \subseteq L2
  PROVE  Allows(o, K2, L2)
BY DEF Allows

LEMMA RunsNone ==
  ASSUME NEW K, NEW L, K \subseteq L
  PROVE  Runs(K, <<>>, L)
<1> DEFINE f == [k \in 1..1 |-> K]
<1>1. f[1] = K /\ Len(<<>>) + 1 = 1 /\ \A k \in 1..Len(<<>>) : FALSE
  OBVIOUS
<1> HIDE DEF f
<1> QED BY <1>1 DEF Runs

LEMMA RunsOne ==
  ASSUME NEW o, NEW K, NEW L, Allows(o, K, L)
  PROVE  Runs(K, <<o>>, L)
<1> DEFINE f == [k \in 1..2 |-> IF k = 1 THEN K ELSE L]
<1>1. f[1] = K /\ f[2] = L
  OBVIOUS
<1>2. Len(<<o>>) = 1 /\ <<o>>[1] = o /\ \A k \in 1..1 : k = 1
  OBVIOUS
<1> HIDE DEF f
<1>3. \A k \in 1..Len(<<o>>) : Allows(<<o>>[k], f[k], f[k + 1])
  BY <1>1, <1>2
<1> QED BY <1>1, <1>2, <1>3 DEF Runs

LEMMA RunsThen ==
  ASSUME NEW S, NEW a \in Seq(S), NEW b \in Seq(S), NEW K, NEW L, NEW M,
         Runs(K, a, L), Runs(L, b, M)
  PROVE  Runs(K, a \o b, M)
<1>1. PICK f : /\ K \subseteq f[1] /\ f[Len(a) + 1] \subseteq L
               /\ \A k \in 1..Len(a) : Allows(a[k], f[k], f[k + 1])
  BY DEF Runs
<1>2. PICK g : /\ L \subseteq g[1] /\ g[Len(b) + 1] \subseteq M
               /\ \A k \in 1..Len(b) : Allows(b[k], g[k], g[k + 1])
  BY DEF Runs
<1>3. PICK m \in Nat : m = Len(a)
  OBVIOUS
<1>4. PICK n \in Nat : n = Len(b)
  OBVIOUS
<1>5. PICK c : c = a \o b
  OBVIOUS
<1>6. /\ Len(c) = m + n
      /\ \A i \in 1..(m + n) : c[i] = IF i <= m THEN a[i] ELSE b[i - m]
  BY <1>3, <1>4, <1>5, ConcatProperties
<1> DEFINE h == [k \in 1..(m + n + 1) |-> IF k <= m THEN f[k] ELSE g[k - m]]
<1>7. /\ \A k \in 1..m : h[k] = f[k]
      /\ \A k \in (m + 1)..(m + n + 1) : h[k] = g[k - m]
  OBVIOUS
<1> HIDE DEF h
<1>8. K \subseteq h[1]
  <2>1. CASE m = 0
    <3>1. h[1] = g[1]
      BY <1>7, <2>1, 1 \in (m + 1)..(m + n + 1), 1 - m = 1
    <3> QED BY <1>1, <1>2, <1>3, <2>1, <3>1
  <2>2. CASE m # 0
    <3>1. h[1] = f[1]
      BY <1>7, <2>2, 1 \in 1..m
    <3> QED BY <1>1, <3>1
  <2> QED BY <2>1, <2>2
<1>9. h[Len(c) + 1] \subseteq M
  <2>1. m + n + 1 \in (m + 1)..(m + n + 1) /\ (m + n + 1) - m = n + 1
    OBVIOUS
  <2> QED BY <1>2, <1>4, <1>6, <1>7, <2>1
<1>10. ASSUME NEW k \in 1..Len(c) PROVE Allows(c[k], h[k], h[k + 1])
  <2>0. k \in 1..(m + n) /\ k \in Nat
    BY <1>6
  <2>1. CASE k < m
    <3>1. k \in 1..m /\ k + 1 \in 1..m /\ k <= m
      BY <2>0, <2>1
    <3> QED BY <1>1, <1>3, <1>6, <1>7, <2>0, <3>1
  <2>2. CASE k = m
    <3>1. k \in 1..m /\ k <= m /\ m + 1 \in (m + 1)..(m + n + 1) /\ (m + 1) - m = 1
      BY <2>0, <2>2
    <3>2. c[k] = a[m] /\ h[k] = f[m] /\ h[k + 1] = g[1]
      BY <1>6, <1>7, <2>0, <2>2, <3>1
    <3>3. Allows(a[m], f[m], f[m + 1]) /\ f[m + 1] \subseteq g[1]
      BY <1>1, <1>2, <1>3, <2>2, <3>1
    <3> QED BY <3>2, <3>3, AllowsMonotone
  <2>3. CASE k > m
    <3>1. /\ k - m \in 1..n /\ ~ (k <= m) /\ k \in (m + 1)..(m + n + 1)
          /\ k + 1 \in (m + 1)..(m + n + 1) /\ (k + 1) - m = (k - m) + 1
      BY <2>0, <2>3
    <3>2. c[k] = b[k - m] /\ h[k] = g[k - m] /\ h[k + 1] = g[(k - m) + 1]
      BY <1>6, <1>7, <2>0, <3>1
    <3> QED BY <1>2, <1>4, <3>1, <3>2
  <2> QED BY <2>0, <2>1, <2>2, <2>3
<1>11. Runs(K, c, M)
  BY <1>8, <1>9, <1>10 DEF Runs
<1> QED BY <1>5, <1>11

\* The first write of a plan, and the rest.
LEMMA RunsFirst ==
  ASSUME NEW S, NEW ops \in Seq(S), ops # <<>>, NEW K, NEW L, Runs(K, ops, L)
  PROVE  \E M : Allows(Head(ops), K, M) /\ Runs(M, Tail(ops), L)
<1>1. PICK f : /\ K \subseteq f[1] /\ f[Len(ops) + 1] \subseteq L
               /\ \A k \in 1..Len(ops) : Allows(ops[k], f[k], f[k + 1])
  BY DEF Runs
<1>2. PICK n \in Nat : n = Len(ops) /\ n # 0
  OBVIOUS
<1>3. PICK t : t = Tail(ops)
  OBVIOUS
<1>4. /\ Len(t) = n - 1 /\ \A i \in 1..(n - 1) : t[i] = ops[i + 1]
  BY <1>2, <1>3, HeadTailProperties
<1>5. Head(ops) = ops[1]
  OBVIOUS
<1>6. Allows(Head(ops), K, f[2])
  <2>1. 1 \in 1..n /\ 1 + 1 = 2
    BY <1>2
  <2>2. Allows(ops[1], f[1], f[2])
    BY <1>1, <1>2, <2>1
  <2> QED BY <1>1, <1>5, <2>2, AllowsMonotone
<1> DEFINE g == [k \in 1..n |-> f[k + 1]]
<1>7. g[1] = f[2] /\ g[n] = f[n + 1] /\ \A k \in 1..(n - 1) : g[k] = f[k + 1] /\ g[k + 1] = f[(k + 1) + 1]
  BY <1>2
<1> HIDE DEF g
<1>8. \A k \in 1..(n - 1) : Allows(t[k], g[k], g[k + 1])
  <2> TAKE k \in 1..(n - 1)
  <2>1. k + 1 \in 1..n
    BY <1>2
  <2>2. Allows(ops[k + 1], f[k + 1], f[(k + 1) + 1])
    BY <1>1, <1>2, <2>1
  <2> QED BY <1>4, <1>7, <2>2
<1>9. Len(t) + 1 = n
  BY <1>2, <1>4
<1>10. Runs(f[2], t, L)
  BY <1>1, <1>2, <1>4, <1>7, <1>8, <1>9 DEF Runs
<1> QED BY <1>3, <1>6, <1>10

-----------------------------------------------------------------------------
(* Sort keys.                                                              *)

LEMMA Multiples ==
  ASSUME NEW a \in Nat \ {0}, NEW j \in Int, NEW k \in Int
  PROVE  /\ a * j \in Int /\ a * k \in Int
         /\ j < k => a * j < a * k
         /\ a * (k - 1) = a * k - a /\ a * (k + 1) = a * k + a
<1>1. a * j \in Int /\ a * k \in Int
  OBVIOUS
<1>2. j < k => a * j < a * k
  <2> SUFFICES ASSUME j < k PROVE a * j < a * k
    OBVIOUS
  <2>1. PICK e \in Nat : k = j + 1 + e
    BY k - j - 1 \in Nat, k = j + 1 + (k - j - 1)
  <2>2. a * k = a * j + a + a * e /\ a * e >= 0
    BY <2>1
  <2> QED BY <1>1, <2>2
<1>3. a * (k - 1) = a * k - a /\ a * (k + 1) = a * k + a
  OBVIOUS
<1> QED BY <1>1, <1>2, <1>3

LEMMA Steps ==
  ASSUME NEW left \in Int, NEW right \in Int, NEW n \in Nat
  PROVE  /\ GapStep(left, right, n) \in Int
         /\ (n + 1) * GapStep(left, right, n) <= right - left
         /\ right - left >= n + 1 => GapStep(left, right, n) >= 1
<1> DEFINE w == right - left
           b == n + 1
           q == w \div b
<1>1. w \in Int /\ b \in Nat \ {0}
  OBVIOUS
<1> HIDE DEF w, b
<1>2. q \in Int /\ b * q <= w /\ w < b * q + b
  BY <1>1
<1> HIDE DEF q
<1>3. w >= b => q >= 1
  <2> SUFFICES ASSUME w >= b, q < 1 PROVE FALSE
    BY <1>2
  <2>1. b * q <= 0
    BY <1>1, <1>2, q <= 0
  <2> QED BY <1>1, <1>2, <2>1
<1>4. GapStep(left, right, n) = q /\ w = right - left /\ b = n + 1
  BY DEF GapStep, q, w, b
<1> QED BY <1>2, <1>3, <1>4

LEMMA BelowRises ==
  ASSUME NEW right \in Int, NEW n \in Nat
  PROVE  /\ Rising(KeysBelow(right, n), n)
         /\ \A k \in 1..n : KeysBelow(right, n)[k] < right
<1>0. Spacing \in Nat \ {0}
  BY ReconcilerAssumption
<1>1. PICK m \in Int : m = Spacing * n
  BY <1>0, Multiples
<1>2. \A k \in 1..n : KeysBelow(right, n)[k] = right - m + Spacing * (k - 1)
  BY <1>1 DEF KeysBelow
<1>3. \A k \in 1..n : /\ Spacing * (k - 1) \in Int /\ Spacing * (k - 1) < m
                      /\ \A j \in 1..n : j < k => Spacing * (j - 1) < Spacing * (k - 1)
  <2> TAKE k \in 1..n
  <2>1. k - 1 \in Int /\ k - 1 < n /\ n \in Int
    OBVIOUS
  <2>2. Spacing * (k - 1) \in Int /\ Spacing * (k - 1) < m
    BY <1>0, <1>1, <2>1, Multiples
  <2>3. ASSUME NEW j \in 1..n, j < k PROVE Spacing * (j - 1) < Spacing * (k - 1)
    <3>1. j - 1 \in Int /\ j - 1 < k - 1
      BY <2>3
    <3> QED BY <1>0, <2>1, <3>1, Multiples
  <2> QED BY <2>2, <2>3
<1> QED BY <1>1, <1>2, <1>3 DEF Rising

LEMMA AboveRises ==
  ASSUME NEW left \in Int, NEW n \in Nat
  PROVE  /\ Rising(KeysAbove(left, n), n)
         /\ \A k \in 1..n : left < KeysAbove(left, n)[k]
<1>0. Spacing \in Nat \ {0}
  BY ReconcilerAssumption
<1>2. \A k \in 1..n : KeysAbove(left, n)[k] = left + Spacing * k
  BY DEF KeysAbove
<1>3. \A k \in 1..n : /\ Spacing * k \in Int /\ Spacing * k > 0
                      /\ \A j \in 1..n : j < k => Spacing * j < Spacing * k
  <2> TAKE k \in 1..n
  <2>1. k \in Int /\ 0 < k /\ 0 \in Int /\ Spacing * 0 = 0
    BY <1>0
  <2>2. Spacing * k \in Int /\ Spacing * 0 < Spacing * k
    BY <1>0, <2>1, Multiples
  <2>3. ASSUME NEW j \in 1..n, j < k PROVE Spacing * j < Spacing * k
    BY <1>0, <2>1, <2>3, j \in Int, Multiples
  <2> QED BY <2>1, <2>2, <2>3
<1> QED BY <1>2, <1>3 DEF Rising

LEMMA BetweenRises ==
  ASSUME NEW left \in Int, NEW right \in Int, NEW n \in Nat, Fits(left, right, n)
  PROVE  /\ Rising(KeysBetween(left, right, n), n)
         /\ \A k \in 1..n : /\ left < KeysBetween(left, right, n)[k]
                            /\ KeysBetween(left, right, n)[k] < right
<1>0. PICK q : q = GapStep(left, right, n)
  OBVIOUS
<1>1. q \in Nat \ {0} /\ q = GapStep(left, right, n) /\ (n + 1) * q <= right - left
  <2>1. q \in Int /\ (n + 1) * q <= right - left
    BY <1>0, Steps
  <2>2. q >= 1
    BY <1>0 DEF Fits
  <2> QED BY <1>0, <2>1, <2>2
<1>2. \A k \in 1..n : KeysBetween(left, right, n)[k] = left + q * k
  BY <1>1 DEF KeysBetween
<1>3. q * (n + 1) \in Int /\ q * (n + 1) <= right - left
  BY <1>1
<1>4. \A k \in 1..n : /\ q * k \in Int /\ q * k > 0 /\ q * k < q * (n + 1)
                      /\ \A j \in 1..n : j < k => q * j < q * k
  <2> TAKE k \in 1..n
  <2>1. k \in Int /\ 0 < k /\ 0 \in Int /\ q * 0 = 0 /\ n + 1 \in Int /\ k < n + 1
    BY <1>1
  <2>2. q * k \in Int /\ q * 0 < q * k
    BY <1>1, <2>1, Multiples
  <2>3. q * k < q * (n + 1)
    BY <1>1, <2>1, Multiples
  <2>4. ASSUME NEW j \in 1..n, j < k PROVE q * j < q * k
    BY <1>1, <2>1, <2>4, j \in Int, Multiples
  <2> QED BY <2>1, <2>2, <2>3, <2>4
<1>5. \A k \in 1..n : left + q * k < right
  <2> TAKE k \in 1..n
  <2> QED BY <1>3, <1>4
<1> QED BY <1>2, <1>4, <1>5 DEF Rising

\* _allocate_bounded_sort_keys: an exhausted gap is opened far enough.
LEMMA AllocateFits ==
  ASSUME NEW s, Ordered(s), s # <<>>, NEW l \in 0..Len(s), NEW n \in Nat
  PROVE  FitsPlace(_allocate_bounded_sort_keys(s, l, n), s, l, n)
<1>1. PICK N \in Nat : N = Len(s) /\ N # 0
  BY OrderedIs
<1>2. l \in Nat /\ l <= N /\ \A i \in 1..N : s[i].key \in Int
  BY <1>1, OrderedIs
<1> DEFINE a == _allocate_bounded_sort_keys(s, l, n)
<1>3. CASE l = 0
  <2>1. a.delta = 0 /\ a.keys = KeysBelow(s[1].key, n)
    BY <1>3 DEF _allocate_bounded_sort_keys
  <2> HIDE DEF a
  <2>2. PICK x \in Int : x = s[1].key
    BY <1>1, <1>2
  <2>3. Rising(a.keys, n) /\ \A k \in 1..n : a.keys[k] < x
    BY <2>1, <2>2, BelowRises
  <2>4. \A k \in 1..n : a.keys[k] < s[l + 1].key + a.delta
    BY <1>3, <2>1, <2>2, <2>3
  <2> QED BY <1>3, <2>1, <2>3, <2>4 DEF FitsPlace, a
<1>4. CASE l = N
  <2>0. l # 0
    BY <1>1, <1>4
  <2>1. a.delta = 0 /\ a.keys = KeysAbove(s[l].key, n)
    BY <1>1, <1>4, <2>0 DEF _allocate_bounded_sort_keys
  <2> HIDE DEF a
  <2>2. PICK x \in Int : x = s[l].key
    BY <1>2, <1>4, <2>0
  <2>3. Rising(a.keys, n) /\ \A k \in 1..n : x < a.keys[k]
    BY <2>1, <2>2, AboveRises
  <2>4. \A k \in 1..n : s[l].key < a.keys[k]
    BY <2>2, <2>3
  <2>5. ~ (l < Len(s)) /\ a.delta \in Nat /\ ~ (a.delta # 0)
    BY <1>1, <1>2, <1>4, <2>1
  <2> QED BY <2>3, <2>4, <2>5 DEF FitsPlace, a
<1>5. CASE l # 0 /\ l # N
  <2>0. l \in 1..(N - 1) /\ l + 1 \in 1..N
    BY <1>1, <1>2, <1>5
  <2>1. PICK left \in Int : left = s[l].key
    BY <1>2, <2>0
  <2>2. PICK right \in Int : right = s[l + 1].key
    BY <1>2, <2>0
  <2>3. PICK top \in Int : top = s[N].key
    BY <1>1, <1>2
  <2>4. left < right /\ right <= top
    <3>1. l < l + 1 /\ l \in DOMAIN s /\ l + 1 \in DOMAIN s /\ N \in DOMAIN s
      BY <1>1, <2>0, OrderedIs
    <3>2. left < right
      BY <2>1, <2>2, <3>1 DEF Ordered
    <3>3. l + 1 = N \/ l + 1 < N
      BY <1>1, <2>0
    <3> QED BY <2>2, <2>3, <3>1, <3>2, <3>3 DEF Ordered
  <2>5. PICK d : d = IF Fits(left, right, n) THEN 0 ELSE GapDelta(s, right, n)
    OBVIOUS
  <2>6. a = [delta |-> d, keys |-> KeysBetween(left, right + d, n)]
    BY <1>1, <1>5, <2>1, <2>2, <2>5 DEF _allocate_bounded_sort_keys
  <2>7. d \in Nat /\ Fits(left, right + d, n)
    <3>1. CASE Fits(left, right, n)
      BY <2>5, <3>1, right + 0 = right
    <3>2. CASE ~Fits(left, right, n)
      <4>0. PICK sp \in Nat \ {0} : sp = Spacing
        BY ReconcilerAssumption
      <4>1. sp * (n + 1) \in Int /\ sp * (n + 1) >= n + 1
        BY <4>0
      <4>2. d = (top - right) + sp * (n + 1)
        BY <1>1, <2>3, <2>5, <3>2, <4>0 DEF GapDelta
      <4>3. d \in Nat /\ right + d \in Int /\ (right + d) - left >= n + 1
        BY <2>4, <4>1, <4>2
      <4> QED BY <4>3, Steps DEF Fits
    <3> QED BY <3>1, <3>2
  <2>8. /\ Rising(KeysBetween(left, right + d, n), n)
        /\ \A k \in 1..n : /\ left < KeysBetween(left, right + d, n)[k]
                           /\ KeysBetween(left, right + d, n)[k] < right + d
    BY <2>7, right + d \in Int, BetweenRises
  <2>9. a.delta = d /\ a.keys = KeysBetween(left, right + d, n)
    BY <2>6
  <2> HIDE DEF a
  <2> QED BY <1>1, <2>0, <2>1, <2>2, <2>7, <2>8, <2>9 DEF FitsPlace, a
<1> QED BY <1>3, <1>4, <1>5

-----------------------------------------------------------------------------
(* The plan of one insertion.                                              *)

LEMMA WritesPlanned ==
  ASSUME NEW msgs \in Seq(Message), NEW keys, Rising(keys, Len(msgs)),
         NEW actor \in Actor \cup {NoActor}, NEW b \in Nat, NEW from \in Nat
  PROVE  /\ WriteOps(msgs, keys, actor, b, from) \in Seq(Planned(b))
         /\ Len(WriteOps(msgs, keys, actor, b, from)) = Len(msgs)
         /\ \A k \in 1..Len(msgs) :
              WriteOps(msgs, keys, actor, b, from)[k]
                = [op |-> "write", row |-> Prepared(msgs[k], actor, keys[k], b, from + k)]
<1> DEFINE w == WriteOps(msgs, keys, actor, b, from)
           R(k) == Prepared(msgs[k], actor, keys[k], b, from + k)
<1>1. PICK n \in Nat : n = Len(msgs) /\ DOMAIN msgs = 1..n
  OBVIOUS
<1>2. w = [k \in 1..n |-> [op |-> "write", row |-> R(k)]]
  BY <1>1 DEF WriteOps
<1>3. \A k \in 1..n : R(k) \in Row /\ R(k).batch = b
  <2> TAKE k \in 1..n
  <2>1. msgs[k] \in Message /\ keys[k] \in Int /\ from + k \in Nat
    BY <1>1 DEF Rising
  <2>2. (IF msgs[k] \in UserMessage THEN actor ELSE NoActor) \in Actor \cup {NoActor}
    OBVIOUS
  <2> QED BY <2>1, <2>2 DEF Prepared, Row
<1> HIDE DEF w, R
<1>4. \A k \in 1..n : [op |-> "write", row |-> R(k)] \in Planned(b)
  BY <1>3 DEF Planned, Op
<1>5. w \in Seq(Planned(b)) /\ Len(w) = n /\ \A k \in 1..n : w[k] = [op |-> "write", row |-> R(k)]
  BY <1>1, <1>2, <1>4
<1> QED BY <1>1, <1>5 DEF w, R

LEMMA RunsWrites ==
  ASSUME NEW msgs \in Seq(Message), NEW keys, Rising(keys, Len(msgs)),
         NEW actor \in Actor \cup {NoActor}, NEW b \in Nat, NEW from \in Nat,
         NEW K, Free(K, keys, Len(msgs))
  PROVE  Runs(K, WriteOps(msgs, keys, actor, b, from),
              K \cup NewPlaces(keys, Len(msgs), from))
<1> DEFINE w == WriteOps(msgs, keys, actor, b, from)
           f == [k \in 1..(Len(msgs) + 1) |-> K \cup NewPlaces(keys, k - 1, from)]
<1>1. PICK n \in Nat : n = Len(msgs)
  OBVIOUS
<1>2. /\ Len(w) = n
      /\ \A k \in 1..n : w[k] = [op |-> "write", row |-> Prepared(msgs[k], actor, keys[k], b, from + k)]
  BY <1>1, WritesPlanned
<1>3. \A k \in 1..n : w[k].op = "write" /\ w[k].row.key = keys[k] /\ w[k].row.id = from + k
  BY <1>2 DEF Prepared
<1>4. \A k \in 1..(n + 1) : f[k] = K \cup NewPlaces(keys, k - 1, from)
  BY <1>1
<1> HIDE DEF w, f
<1>5. \A k \in 1..n : Allows(w[k], f[k], f[k + 1])
  <2> TAKE k \in 1..n
  <2>1. /\ f[k] = K \cup NewPlaces(keys, k - 1, from)
        /\ f[k + 1] = K \cup NewPlaces(keys, k, from)
    <3>1. k \in 1..(n + 1) /\ k + 1 \in 1..(n + 1) /\ (k + 1) - 1 = k
      BY <1>1
    <3> QED BY <1>4, <3>1
  <2>2. \A p \in f[k] : p[2] # keys[k]
    <3>1. \A p \in K : p[2] # keys[k]
      BY <1>1 DEF Free
    <3>2. \A j \in 1..(k - 1) : keys[j] # keys[k]
      <4> TAKE j \in 1..(k - 1)
      <4>1. j \in 1..n /\ j < k
        BY <1>1
      <4>2. keys[j] \in Int /\ keys[k] \in Int /\ keys[j] < keys[k]
        BY <1>1, <4>1 DEF Rising
      <4> QED BY <4>2
    <3>3. \A p \in NewPlaces(keys, k - 1, from) : p[2] # keys[k]
      BY <3>2 DEF NewPlaces
    <3> QED BY <2>1, <3>1, <3>3
  <2>3. NewPlaces(keys, k - 1, from) \subseteq NewPlaces(keys, k, from)
    BY DEF NewPlaces
  <2>4. <<from + k, keys[k]>> \in NewPlaces(keys, k, from)
    BY DEF NewPlaces
  <2>5. f[k] \subseteq f[k + 1] /\ <<from + k, keys[k]>> \in f[k + 1]
    BY <2>1, <2>3, <2>4
  <2>6. w[k].op = "write" /\ w[k].row.key = keys[k] /\ w[k].row.id = from + k
    BY <1>3
  <2> QED BY <2>2, <2>5, <2>6 DEF Allows
<1>6. K \subseteq f[1] /\ f[Len(w) + 1] \subseteq K \cup NewPlaces(keys, n, from)
  <2>1. 1 \in 1..(n + 1) /\ n + 1 \in 1..(n + 1) /\ (n + 1) - 1 = n
    OBVIOUS
  <2> QED BY <1>2, <1>4, <2>1
<1>7. Runs(K, w, K \cup NewPlaces(keys, n, from))
  BY <1>2, <1>5, <1>6 DEF Runs
<1> QED BY <1>1, <1>7 DEF w

LEMMA RunsShift ==
  ASSUME NEW from \in Int, NEW delta \in Nat, NEW K \in SUBSET (Nat \X Int), NEW b
  PROVE  /\ ShiftOp(from, delta) \in Seq(Planned(b))
         /\ Runs(K, ShiftOp(from, delta), {Moved(p, from, delta) : p \in K})
<1> DEFINE L == {Moved(p, from, delta) : p \in K}
<1>1. CASE delta = 0
  <2>1. ShiftOp(from, delta) = <<>>
    BY <1>1 DEF ShiftOp
  <2>2. \A p \in K : p = Moved(p, from, delta)
    <3> TAKE p \in K
    <3>1. p \in Nat \X Int
      OBVIOUS
    <3>2. p = <<p[1], p[2]>> /\ p[2] \in Int
      BY <3>1
    <3> QED BY <1>1, <3>2 DEF Moved
  <2>3. K \subseteq L
    BY <2>2
  <2> HIDE DEF L
  <2>4. <<>> \in Seq(Planned(b)) /\ Runs(K, <<>>, L)
    BY <2>3, RunsNone
  <2> QED BY <2>1, <2>4 DEF L
<1>2. CASE delta # 0
  <2> DEFINE o == [op |-> "shift", from |-> from, delta |-> delta]
  <2>1. ShiftOp(from, delta) = <<o>>
    BY <1>2 DEF ShiftOp
  <2>2. Allows(o, K, L)
    BY DEF Allows
  <2>3. o \in Planned(b)
    BY DEF Planned, Op
  <2> HIDE DEF L, o
  <2>4. Runs(K, <<o>>, L) /\ <<o>> \in Seq(Planned(b))
    BY <2>2, <2>3, RunsOne
  <2> QED BY <2>1, <2>4 DEF L
<1> QED BY <1>1, <1>2

LEMMA InsertRuns ==
  ASSUME NEW s, Ordered(s), s # <<>>, NEW l \in 0..Len(s), NEW msgs \in Seq(Message),
         NEW actor \in Actor \cup {NoActor}, NEW b \in Nat, NEW from \in Nat,
         NEW K \in SUBSET (Nat \X Int), Gap(K, s, l)
  PROVE  /\ InsertOps(s, l, msgs, actor, b, from) \in Seq(Planned(b))
         /\ \E L \in SUBSET (Nat \X Int) :
              /\ Runs(K, InsertOps(s, l, msgs, actor, b, from), L)
              /\ Grown(K, L, s, l, InsertDelta(s, l, Len(msgs)))
<1>1. PICK n \in Nat : n = Len(msgs) /\ (n = 0 <=> msgs = <<>>)
  OBVIOUS
<1>2. PICK N \in Nat : N = Len(s)
  BY OrderedIs
<1>3. l \in Nat /\ l <= N /\ \A i \in 1..N : s[i].key \in Int
  BY <1>2, OrderedIs
<1>4. \A p \in K : p = <<p[1], p[2]>> /\ p[1] \in Nat /\ p[2] \in Int
  OBVIOUS
<1>5. CASE msgs = <<>>
  <2>1. InsertOps(s, l, msgs, actor, b, from) = <<>> /\ InsertDelta(s, l, Len(msgs)) = 0
    BY <1>1, <1>5 DEF InsertOps, InsertDelta
  <2>2. Runs(K, <<>>, K) /\ <<>> \in Seq(Planned(b))
    BY RunsNone
  <2>3. Grown(K, K, s, l, 0)
    <3>1. \A q \in K : q[2] = Moved(q, s[l + 1].key, 0)[2]
      BY <1>4 DEF Moved
    <3> QED BY <3>1 DEF Grown
  <2> QED BY <2>1, <2>2, <2>3
<1>6. CASE msgs # <<>>
  <2> DEFINE a == _allocate_bounded_sort_keys(s, l, n)
             x == IF l < Len(s) THEN s[l + 1].key ELSE 0
             K2 == {Moved(p, x, a.delta) : p \in K}
             L == K2 \cup NewPlaces(a.keys, n, from)
             shift == ShiftOp(x, a.delta)
             write == WriteOps(msgs, a.keys, actor, b, from)
  <2>1. InsertOps(s, l, msgs, actor, b, from) = shift \o write
    BY <1>1, <1>6 DEF InsertOps
  <2>2. InsertDelta(s, l, Len(msgs)) = a.delta
    BY <1>1, <1>6 DEF InsertDelta
  <2>3. FitsPlace(a, s, l, n)
    BY AllocateFits
  <2> HIDE DEF a
  <2>4. x \in Int /\ (l < N => x = s[l + 1].key) /\ (~ (l < N) => a.delta = 0)
    <3>1. l < N => s[l + 1].key \in Int
      BY <1>3
    <3>2. ~ (l < N) => a.delta = 0
      BY <1>2, <1>3, <2>3 DEF FitsPlace
    <3> QED BY <1>2, <3>1, <3>2
  <2> HIDE DEF x
  <2>5. PICK d \in Nat : d = a.delta
    BY <2>3 DEF FitsPlace
  <2>6. shift \in Seq(Planned(b)) /\ Runs(K, shift, K2)
    BY <2>4, <2>5, RunsShift
  <2>7. \A p \in K2 : \E q \in K : /\ p = <<q[1], p[2]>> /\ q[1] \in Nat /\ q[2] \in Int
                                   /\ p[2] = IF q[2] >= x THEN q[2] + d ELSE q[2]
    BY <1>4, <2>5 DEF Moved
  <2>8. K2 \in SUBSET (Nat \X Int)
    <3>1. \A p \in K2 : p \in Nat \X Int
      <4> TAKE p \in K2
      <4>1. PICK q \in K : /\ p = <<q[1], p[2]>> /\ q[1] \in Nat /\ q[2] \in Int
                           /\ p[2] = IF q[2] >= x THEN q[2] + d ELSE q[2]
        BY <2>7
      <4>2. p[2] \in Int
        BY <4>1
      <4> QED BY <4>1, <4>2
    <3> HIDE DEF K2
    <3> QED BY <3>1
  <2> HIDE DEF K2
  <2>9. Rising(a.keys, n)
    BY <2>3 DEF FitsPlace
  <2>10. Free(K2, a.keys, n)
    <3> SUFFICES ASSUME NEW p \in K2, NEW k \in 1..n PROVE p[2] # a.keys[k]
      BY DEF Free
    <3>1. PICK q \in K : /\ q[2] \in Int
                         /\ p[2] = IF q[2] >= x THEN q[2] + d ELSE q[2]
      BY <2>7
    <3>2. a.keys[k] \in Int
      BY <2>9 DEF Rising
    <3>3. CASE l >= 1 /\ q[2] <= s[l].key
      <4>1. s[l].key < a.keys[k] /\ s[l].key \in Int
        BY <1>3, <2>3, <3>3 DEF FitsPlace
      <4>2. p[2] = q[2]
        <5>1. CASE d = 0
          BY <3>1, <5>1
        <5>2. CASE d # 0
          <6>1. l \in 1..(N - 1)
            BY <1>2, <2>3, <2>5, <5>2 DEF FitsPlace
          <6>2. l \in DOMAIN s /\ l + 1 \in DOMAIN s /\ l < l + 1
            BY <1>2, <6>1, OrderedIs
          <6>3. s[l].key < s[l + 1].key
            BY <6>2 DEF Ordered
          <6>4. x = s[l + 1].key
            BY <2>4, <6>1
          <6> QED BY <2>4, <3>1, <3>3, <4>1, <6>3, <6>4, SMTT(60)
        <5> QED BY <5>1, <5>2
      <4> QED BY <3>1, <3>2, <3>3, <4>1, <4>2
    <3>4. CASE l < N /\ s[l + 1].key <= q[2]
      <4>1. a.keys[k] < s[l + 1].key + d /\ x = s[l + 1].key
        BY <1>2, <2>3, <2>4, <2>5, <3>4 DEF FitsPlace
      <4> QED BY <2>4, <3>1, <3>2, <3>4, <4>1
    <3> QED BY <1>2, <3>3, <3>4 DEF Gap
  <2>11. write \in Seq(Planned(b)) /\ Runs(K2, write, L)
    BY <1>1, <2>9, <2>10, WritesPlanned, RunsWrites
  <2>12. L \in SUBSET (Nat \X Int)
    <3>1. \A k \in 1..n : <<from + k, a.keys[k]>> \in Nat \X Int
      BY <2>9 DEF Rising
    <3> QED BY <2>8, <3>1 DEF NewPlaces
  <2>13. Grown(K, L, s, l, d)
    <3> SUFFICES ASSUME NEW p \in L
                 PROVE  \/ \E q \in K : p[2] = Moved(q, s[l + 1].key, d)[2]
                        \/ p[2] \in Int /\ (l < Len(s) => p[2] < s[l + 1].key + d)
      BY DEF Grown
    <3>1. CASE p \in K2
      <4>1. PICK q \in K : q[2] \in Int /\ p[2] = IF q[2] >= x THEN q[2] + d ELSE q[2]
        BY <2>7, <3>1
      <4>2. p[2] = Moved(q, s[l + 1].key, d)[2]
        BY <2>4, <2>5, <4>1, SMTT(60) DEF Moved
      <4> QED BY <4>2
    <3>2. CASE p \in NewPlaces(a.keys, n, from)
      <4>1. PICK k \in 1..n : p[2] = a.keys[k]
        BY <3>2 DEF NewPlaces
      <4>2. a.keys[k] \in Int
        BY <2>9 DEF Rising
      <4>3. l < Len(s) => a.keys[k] < s[l + 1].key + d
        BY <2>3, <2>5 DEF FitsPlace
      <4> QED BY <4>1, <4>2, <4>3
    <3> QED BY <3>1, <3>2
  <2> HIDE DEF L, shift, write
  <2>14. shift \o write \in Seq(Planned(b)) /\ Runs(K, shift \o write, L)
    BY <2>6, <2>11, RunsThen, ConcatProperties
  <2> QED BY <2>1, <2>2, <2>5, <2>12, <2>13, <2>14
<1> QED BY <1>5, <1>6

-----------------------------------------------------------------------------
(* The plan of a merge: actors, rows before the overlap, rows after it.    *)

\* shift_canonical_turn_sort_keys keeps the order.
LEMMA ShiftIs ==
  ASSUME NEW s, Ordered(s), NEW from \in Int, NEW delta \in Nat
  PROVE  /\ Ordered(shift_canonical_turn_sort_keys(s, from, delta))
         /\ ShiftedBy(shift_canonical_turn_sort_keys(s, from, delta), s, from, delta)
<1> DEFINE E(r) == IF r.key >= from THEN [r EXCEPT !.key = @ + delta] ELSE r
           t == shift_canonical_turn_sort_keys(s, from, delta)
<1>1. PICK N \in Nat : N = Len(s) /\ DOMAIN s = 1..N
  BY OrderedIs
<1>2. \A r \in Row : /\ E(r) \in Row /\ E(r).id = r.id /\ E(r).batch = r.batch /\ r.key \in Int
                     /\ E(r).hash = r.hash /\ E(r).group = r.group
                     /\ E(r).actor = r.actor /\ E(r).tagged = r.tagged
                     /\ E(r).key = IF r.key >= from THEN r.key + delta ELSE r.key
  BY DEF Row
<1>3. t = [i \in 1..N |-> E(s[i])]
  BY <1>1 DEF shift_canonical_turn_sort_keys
<1>4. \A i \in 1..N : s[i] \in Row
  BY <1>1, OrderedIs
<1> HIDE DEF E, t
<1>5. \A i \in 1..N : /\ t[i] \in Row /\ t[i].id = s[i].id /\ t[i].batch = s[i].batch
                      /\ t[i].hash = s[i].hash /\ t[i].group = s[i].group /\ s[i].key \in Int
                      /\ t[i].actor = s[i].actor /\ t[i].tagged = s[i].tagged
                      /\ t[i].key = IF s[i].key >= from THEN s[i].key + delta ELSE s[i].key
  BY <1>2, <1>3, <1>4
<1>6. t \in Seq(Row) /\ DOMAIN t = 1..N /\ Len(t) = N
  BY <1>3, <1>5
<1>7. ASSUME NEW i \in 1..N, NEW j \in 1..N, i < j PROVE t[i].key < t[j].key
  <2>1. s[i].key < s[j].key
    BY <1>1, <1>7 DEF Ordered
  <2> QED BY <1>5, <2>1
<1>8. Ordered(t)
  BY <1>6, <1>7 DEF Ordered
<1>9. ShiftedBy(t, s, from, delta)
  BY <1>1, <1>5, <1>6 DEF ShiftedBy
<1> QED BY <1>8, <1>9 DEF t

LEMMA AfterPrefixIs ==
  ASSUME NEW s, Ordered(s), NEW l \in Nat, l < Len(s), NEW n \in Nat
  PROVE  /\ Ordered(AfterPrefix(s, l, n))
         /\ ShiftedBy(AfterPrefix(s, l, n), s, s[l + 1].key, InsertDelta(s, l, n))
         /\ InsertDelta(s, l, n) \in Nat
<1> DEFINE d == InsertDelta(s, l, n)
           x == s[l + 1].key
<1>1. AfterPrefix(s, l, n) = IF d = 0 THEN s ELSE shift_canonical_turn_sort_keys(s, x, d)
  BY DEF AfterPrefix, InsertDelta
<1>2. Len(s) \in Nat /\ DOMAIN s = 1..Len(s) /\ \A i \in DOMAIN s : s[i].key \in Int
  BY OrderedIs
<1>3. d \in Nat
  <2>1. CASE n = 0
    BY <2>1 DEF InsertDelta
  <2>2. CASE n # 0
    <3>1. s # <<>> /\ l \in 0..Len(s)
      BY <1>2
    <3> QED BY <2>2, <3>1, AllocateFits DEF InsertDelta, FitsPlace
  <2> QED BY <2>1, <2>2
<1>4. x \in Int
  BY <1>2
<1> HIDE DEF d, x
<1>5. CASE d = 0
  <2>1. ShiftedBy(s, s, x, d)
    BY <1>2, <1>4, <1>5 DEF ShiftedBy
  <2> QED BY <1>1, <1>3, <1>5, <2>1 DEF d, x
<1>6. CASE d # 0
  BY <1>1, <1>3, <1>4, <1>6, ShiftIs DEF d, x
<1> QED BY <1>5, <1>6

LEMMA PlacesIs ==
  ASSUME NEW s, Ordered(s)
  PROVE  /\ Places(s) \in SUBSET (Nat \X Int)
         /\ \A p \in Places(s) : \E i \in DOMAIN s : p[1] = s[i].id /\ p[2] = s[i].key
<1>1. \A i \in DOMAIN s : s[i].key \in Int /\ s[i].id \in Nat
  BY OrderedIs
<1> QED BY <1>1 DEF Places

\* Every place of ordered rows is on one side of a gap between them.
LEMMA PlacesGap ==
  ASSUME NEW s, Ordered(s), NEW l \in 0..Len(s), NEW K,
         \A p \in K : \E i \in DOMAIN s : p[2] = s[i].key
  PROVE  Gap(K, s, l)
<1>1. PICK N \in Nat : N = Len(s) /\ DOMAIN s = 1..N
  BY OrderedIs
<1>2. l \in Nat /\ l <= N /\ \A i \in 1..N : s[i].key \in Int
  BY <1>1, OrderedIs
<1> SUFFICES ASSUME NEW p \in K
             PROVE  \/ l >= 1 /\ p[2] <= s[l].key
                    \/ l < Len(s) /\ s[l + 1].key <= p[2]
  BY DEF Gap
<1>3. PICK i \in 1..N : p[2] = s[i].key
  BY <1>1
<1>4. CASE i <= l
  <2>1. l \in 1..N /\ l >= 1 /\ (i = l \/ i < l)
    BY <1>2, <1>4
  <2>2. i < l => s[i].key < s[l].key
    BY <1>1, <2>1 DEF Ordered
  <2> QED BY <1>2, <1>3, <2>1, <2>2
<1>5. CASE ~ (i <= l)
  <2>1. l + 1 \in 1..N /\ l < N /\ (i = l + 1 \/ l + 1 < i)
    BY <1>2, <1>5
  <2>2. l + 1 < i => s[l + 1].key < s[i].key
    BY <1>1, <2>1 DEF Ordered
  <2> QED BY <1>1, <1>2, <1>3, <2>1, <2>2
<1> QED BY <1>4, <1>5

LEMMA RunsUpgrade ==
  ASSUME NEW s, Ordered(s), NEW idx \in SUBSET DOMAIN s,
         NEW actor \in Actor \cup {NoActor}, NEW life \in Nat, NEW K, NEW b
  PROVE  UpgradeOp(s, idx, actor, life) \in Seq(Planned(b)) /\ Runs(K, UpgradeOp(s, idx, actor, life), K)
<1> DEFINE ids == {s[i].id : i \in {j \in idx : s[j].actor = NoActor /\ s[j].hash \in UserMessage}}
           o == [op |-> "actor", ids |-> ids, actor |-> actor, life |-> life]
<1>1. UpgradeOp(s, idx, actor, life) = IF actor = NoActor \/ ids = {} THEN <<>> ELSE <<o>>
  BY DEF UpgradeOp
<1>2. ids \in SUBSET Nat
  BY OrderedIs
<1> HIDE DEF ids
<1>3. o \in Planned(b)
  BY <1>2 DEF Planned, Op
<1>4. Allows(o, K, K)
  BY DEF Allows
<1> HIDE DEF o
<1>5. Runs(K, <<>>, K) /\ Runs(K, <<o>>, K) /\ <<>> \in Seq(Planned(b)) /\ <<o>> \in Seq(Planned(b))
  BY <1>3, <1>4, RunsNone, RunsOne
<1> QED BY <1>1, <1>5

LEMMA MergeRuns ==
  ASSUME NEW s, Ordered(s), s # <<>>, NEW inc \in Seq(Message), NEW a, Overlap(a, s, inc),
         NEW actor \in Actor \cup {NoActor}, NEW b \in Nat, NEW life \in Nat, NEW from \in Nat
  PROVE  /\ MergeOps(s, a, inc, actor, b, life, from) \in Seq(Planned(b))
         /\ \E L : Runs(Places(s), MergeOps(s, a, inc, actor, b, life, from), L)
<1> DEFINE prefix == SubSeq(inc, 1, a.incoming - 1)
           suffix == SubSeq(inc, a.incoming + a.len, Len(inc))
           s2 == AfterPrefix(s, a.stored - 1, Len(prefix))
           up == UpgradeOp(s, a.stored..(a.stored + a.len - 1), actor, life)
           pre == InsertOps(s, a.stored - 1, prefix, actor, b, from)
           suf == InsertOps(s2, a.stored + a.len - 1, suffix, actor, b, from + Len(prefix))
           K == Places(s)
<1>1. MergeOps(s, a, inc, actor, b, life, from) = up \o pre \o suf
  BY DEF MergeOps
<1>2. PICK l \in Nat : l = a.stored - 1
  BY DEF Overlap
<1>3. PICK r \in Nat : r = a.stored + a.len - 1 /\ l < r /\ r <= Len(s)
  BY <1>2 DEF Overlap
<1>4. PICK N \in Nat : N = Len(s) /\ DOMAIN s = 1..N
  BY OrderedIs
<1>5. prefix \in Seq(Message) /\ suffix \in Seq(Message)
  <2>1. PICK i \in Nat : i = a.incoming /\ i >= 1 /\ i <= Len(inc)
    BY DEF Overlap
  <2>2. PICK e \in Nat : e = a.len
    BY DEF Overlap
  <2>3. 1 \in Int /\ i - 1 \in Int /\ \A j \in 1..(i - 1) : inc[j] \in Message
    BY <2>1
  <2>4. i + e \in Int /\ Len(inc) \in Int /\ \A j \in (i + e)..Len(inc) : inc[j] \in Message
    BY <2>1
  <2>5. SubSeq(inc, 1, i - 1) \in Seq(Message)
    BY <2>3, SubSeqProperties
  <2>6. SubSeq(inc, i + e, Len(inc)) \in Seq(Message)
    BY <2>4, SubSeqProperties
  <2> QED BY <2>1, <2>2, <2>5, <2>6
<1> HIDE DEF prefix, suffix
<1>6. PICK n \in Nat : n = Len(prefix)
  BY <1>5
<1>7. up \in Seq(Planned(b)) /\ Runs(K, up, K)
  <2>1. a.stored..(a.stored + a.len - 1) \in SUBSET DOMAIN s
    <3>1. a.stored \in Nat \ {0}
      BY DEF Overlap
    <3> QED BY <1>3, <1>4, <3>1
  <2> QED BY <2>1, RunsUpgrade
<1>8. K \in SUBSET (Nat \X Int) /\ Gap(K, s, l)
  <2>1. K \in SUBSET (Nat \X Int) /\ \A p \in K : \E i \in DOMAIN s : p[2] = s[i].key
    BY PlacesIs
  <2>2. l \in 0..Len(s)
    BY <1>3, <1>4
  <2> HIDE DEF K
  <2> QED BY <2>1, <2>2, PlacesGap
<1> DEFINE d == InsertDelta(s, l, n)
<1>9. pre \in Seq(Planned(b)) /\ \E L \in SUBSET (Nat \X Int) : Runs(K, pre, L) /\ Grown(K, L, s, l, d)
  <2>1. l \in 0..Len(s)
    BY <1>3, <1>4
  <2> HIDE DEF K
  <2> QED BY <1>2, <1>5, <1>6, <1>8, <2>1, InsertRuns
<1>10. PICK L \in SUBSET (Nat \X Int) : Runs(K, pre, L) /\ Grown(K, L, s, l, d)
  BY <1>9
<1>11. Ordered(s2) /\ ShiftedBy(s2, s, s[l + 1].key, d) /\ d \in Nat
  <2>1. l < Len(s)
    BY <1>3, <1>4
  <2> QED BY <1>2, <1>6, <2>1, AfterPrefixIs
<1> HIDE DEF s2, d
<1>12. Len(s2) = N /\ DOMAIN s2 = 1..N /\ s2 # <<>> /\ r \in 0..Len(s2)
  BY <1>3, <1>4, <1>11, OrderedIs DEF ShiftedBy
<1>13. Gap(L, s2, r)
  <2> DEFINE L1 == {p \in L : \E i \in DOMAIN s2 : p[2] = s2[i].key}
  <2>1. Gap(L1, s2, r)
    <3>1. \A p \in L1 : \E i \in DOMAIN s2 : p[2] = s2[i].key
      OBVIOUS
    <3> HIDE DEF L1
    <3> QED BY <1>11, <1>12, <3>1, PlacesGap
  <2>2. PICK y \in Int : y = s[l + 1].key
    BY <1>3, <1>4, OrderedIs
  <2>3. \A i \in 1..N : /\ s2[i].key = IF s[i].key >= y THEN s[i].key + d ELSE s[i].key
                        /\ s[i].key \in Int /\ s2[i].key \in Int
    BY <1>4, <1>11, <1>12, <2>2, OrderedIs DEF ShiftedBy
  <2>4. s2[l + 1].key = y + d /\ l + 1 \in 1..N
    BY <1>3, <1>4, <1>11, <2>2, <2>3
  <2>5. y + d <= s2[r].key /\ r >= 1 /\ r \in 1..N
    <3>1. r \in 1..N /\ (r = l + 1 \/ l + 1 < r)
      BY <1>3, <1>4
    <3>2. l + 1 < r => s2[l + 1].key < s2[r].key
      BY <1>11, <1>12, <2>4, <3>1 DEF Ordered
    <3> QED BY <1>11, <2>3, <2>4, <3>1, <3>2
  <2>6. ASSUME NEW p \in L, p \notin L1 PROVE r >= 1 /\ p[2] <= s2[r].key
    <3>1. ~ \E q \in K : p[2] = Moved(q, y, d)[2]
      <4> SUFFICES ASSUME NEW q \in K, p[2] = Moved(q, y, d)[2] PROVE FALSE
        OBVIOUS
      <4>1. PICK i \in 1..N : q[2] = s[i].key
        BY <1>4, PlacesIs
      <4>2. p[2] = s2[i].key
        BY <2>3, <4>1 DEF Moved
      <4> QED BY <1>12, <2>6, <4>1, <4>2
    <3>2. p[2] \in Int /\ p[2] < y + d
      <4>1. l < Len(s)
        BY <1>3, <1>4
      <4> QED BY <1>10, <2>2, <3>1, <4>1 DEF Grown
    <3> QED BY <1>11, <2>3, <2>5, <3>2
  <2>7. ASSUME NEW p \in L
        PROVE  \/ r >= 1 /\ p[2] <= s2[r].key
               \/ r < Len(s2) /\ s2[r + 1].key <= p[2]
    <3>1. CASE p \in L1
      <4> HIDE DEF L1
      <4> QED BY <2>1, <3>1 DEF Gap
    <3> QED BY <2>6, <3>1
  <2> QED BY <2>7 DEF Gap
<1> HIDE DEF K, up, pre
<1>14. suf \in Seq(Planned(b)) /\ \E M : Runs(L, suf, M)
  <2>1. from + n \in Nat
    OBVIOUS
  <2> QED BY <1>3, <1>5, <1>6, <1>11, <1>12, <1>13, <2>1, InsertRuns
<1>15. PICK M : Runs(L, suf, M)
  BY <1>14
<1> HIDE DEF suf
<1>16. up \o pre \in Seq(Planned(b)) /\ Runs(K, up \o pre, L)
  BY <1>7, <1>9, <1>10, RunsThen, ConcatProperties
<1> DEFINE first == up \o pre
<1> HIDE DEF first
<1>17. first \o suf \in Seq(Planned(b)) /\ Runs(K, first \o suf, M)
  BY <1>14, <1>15, <1>16, RunsThen, ConcatProperties DEF first
<1> QED BY <1>1, <1>17 DEF first, K

-----------------------------------------------------------------------------
(* The alignment that a plan starts from.                                  *)

LEMMA LeastIs ==
  ASSUME NEW S \in SUBSET Nat, S # {}
  PROVE  Min(S) \in S /\ \A y \in S : Min(S) <= y
<1>1. \E x \in S : \A y \in S : x <= y
  BY LeastNumber
<1>2. Min(S) = CHOOSE x \in S : \A y \in S : x <= y
  BY DEF Min
<1> QED BY <1>1, <1>2, Zenon

LEMMA GreatestIs ==
  ASSUME NEW S \in SUBSET Nat, S # {}, NEW b \in Nat, \A x \in S : x <= b
  PROVE  Max(S) \in S /\ \A y \in S : Max(S) >= y
<1> DEFINE T == {b - x : x \in S}
<1>1. T \in SUBSET Nat /\ T # {}
  <2>1. \A x \in S : b - x \in Nat
    OBVIOUS
  <2>2. \A t \in T : t \in Nat
    BY <2>1
  <2>3. PICK x \in S : TRUE
    OBVIOUS
  <2>4. b - x \in T
    OBVIOUS
  <2> HIDE DEF T
  <2> QED BY <2>2, <2>4
<1>2. PICK t \in T : \A y \in T : t <= y
  <2> HIDE DEF T
  <2> QED BY <1>1, LeastNumber
<1>3. PICK x \in S : t = b - x
  OBVIOUS
<1>4. \A y \in S : x >= y
  <2> TAKE y \in S
  <2>1. b - y \in T
    OBVIOUS
  <2>2. b - x <= b - y
    BY <1>2, <1>3, <2>1
  <2> QED BY <2>2
<1>5. \E z \in S : \A y \in S : z >= y
  BY <1>4
<1>6. Max(S) = CHOOSE z \in S : \A y \in S : z >= y
  BY DEF Max
<1> QED BY <1>5, <1>6, Zenon

LEMMA Foremost ==
  ASSUME NEW H, H # {}, NEW f, \A p \in H : f[p] \in Nat
  PROVE  \E p \in H : \A q \in H : f[p] <= f[q]
<1> DEFINE S == {f[p] : p \in H}
<1>1. S \subseteq Nat /\ S # {}
  OBVIOUS
<1>2. PICK x \in S : \A y \in S : x <= y
  <2> HIDE DEF S
  <2> QED BY <1>1, LeastNumber
<1> QED BY <1>2

LEMMA HashesAre ==
  ASSUME NEW s, Ordered(s)
  PROVE  Len(Hashes(s)) = Len(s) /\ DOMAIN Hashes(s) = 1..Len(s)
<1>1. Len(s) \in Nat /\ DOMAIN s = 1..Len(s)
  BY OrderedIs
<1> QED BY <1>1 DEF Hashes

LEMMA WholeBegins ==
  ASSUME NEW s, Ordered(s), s # <<>>, NEW inc \in Seq(Message), Whole(Hashes(s), inc).len > 0
  PROVE  Overlap(Whole(Hashes(s), inc), s, inc)
<1>1. PICK N \in Nat \ {0} : N = Len(s)
  BY OrderedIs
<1>2. PICK ex : ex = Hashes(s) /\ Len(ex) = N
  BY <1>1, HashesAre
<1>3. PICK M \in Nat : M = Len(inc)
  OBVIOUS
<1>4. NoAlignment.len = 0
  BY DEF NoAlignment
<1>5. \A i : Aligned(1, i, N, inc).stored = 1 /\ Aligned(1, i, N, inc).incoming = i
             /\ Aligned(1, i, N, inc).len = N
  BY DEF Aligned
<1>6. \/ Whole(ex, inc) = NoAlignment
      \/ \E i \in 1..M : Whole(ex, inc) = Aligned(1, i, N, inc)
  <2>1. CASE N > M
    BY <1>2, <1>3, <2>1 DEF Whole
  <2>2. CASE ~ (N > M)
    <3>1. 1 \in 1..M /\ M - N + 1 \in 1..M
      BY <2>2
    <3> QED BY <1>2, <1>3, <2>2, <3>1 DEF Whole
  <2> QED BY <2>1, <2>2
<1>7. Whole(ex, inc) # NoAlignment
  BY <1>2, <1>4
<1>8. PICK i \in 1..M : Whole(ex, inc) = Aligned(1, i, N, inc)
  BY <1>6, <1>7
<1>9. Overlap(Aligned(1, i, N, inc), s, inc)
  BY <1>1, <1>3, <1>5 DEF Overlap
<1> QED BY <1>2, <1>8, <1>9

LEMMA ShortBegins ==
  ASSUME NEW s, Ordered(s), NEW inc \in Seq(Message), Short(Hashes(s), inc).len > 0
  PROVE  Begins(Short(Hashes(s), inc), inc)
<1>1. PICK N \in Nat : N = Len(s)
  BY OrderedIs
<1>2. PICK ex : ex = Hashes(s) /\ Len(ex) = N
  BY <1>1, HashesAre
<1>3. PICK M \in Nat : M = Len(inc)
  OBVIOUS
<1> DEFINE Hit(n) == {p \in (1..(N - n + 1)) \X (1..(M - n + 1)) :
                        Window(ex, p[1], n) = Window(inc, p[2], n)}
           lens == {n \in 1..Min({N, M}) : Hit(n) # {}}
           n0 == Max(lens)
           i0 == Min({p[2] : p \in Hit(n0)})
           e0 == Min({p[1] : p \in {q \in Hit(n0) : q[2] = i0}})
<1>4. Short(ex, inc) = IF lens = {} THEN NoAlignment ELSE Aligned(e0, i0, n0, inc)
  BY <1>2, <1>3 DEF Short
<1>5. lens # {}
  <2>1. Short(ex, inc).len > 0 /\ NoAlignment.len = 0
    BY <1>2 DEF NoAlignment
  <2> HIDE DEF lens, n0, i0, e0
  <2> QED BY <1>4, <2>1
<1>6. n0 \in lens
  <2>1. Min({N, M}) \in {N, M}
    BY LeastIs
  <2>2. PICK b \in Nat : b = Min({N, M})
    BY <2>1
  <2>3. lens \in SUBSET Nat /\ \A x \in lens : x <= b
    BY <2>2
  <2> HIDE DEF lens
  <2> QED BY <1>5, <2>3, GreatestIs
<1>7. n0 \in Nat \ {0} /\ Hit(n0) # {}
  <2>1. Min({N, M}) \in Nat
    BY LeastIs
  <2> HIDE DEF n0, Hit
  <2> QED BY <1>6, <2>1
<1> HIDE DEF n0, lens
<1>8. \A p \in Hit(n0) : p[1] \in Nat \ {0} /\ p[2] \in 1..M
  BY <1>7
<1> HIDE DEF Hit
<1>9. i0 \in {p[2] : p \in Hit(n0)}
  <2>1. {p[2] : p \in Hit(n0)} \in SUBSET Nat /\ {p[2] : p \in Hit(n0)} # {}
    BY <1>7, <1>8
  <2> QED BY <2>1, LeastIs
<1> HIDE DEF i0
<1>10. e0 \in {p[1] : p \in {q \in Hit(n0) : q[2] = i0}}
  <2>1. {p[1] : p \in {q \in Hit(n0) : q[2] = i0}} \in SUBSET Nat
    BY <1>8
  <2>2. {p[1] : p \in {q \in Hit(n0) : q[2] = i0}} # {}
    BY <1>9
  <2> QED BY <2>1, <2>2, LeastIs
<1> HIDE DEF e0
<1>11. i0 \in 1..M /\ e0 \in Nat \ {0}
  BY <1>8, <1>9, <1>10
<1>12. Begins(Aligned(e0, i0, n0, inc), inc)
  BY <1>3, <1>7, <1>11 DEF Begins, Aligned
<1> QED BY <1>2, <1>4, <1>5, <1>12

\* Widening to both sides stays inside the payload and the stored rows.
LEMMA WidenBegins ==
  ASSUME NEW e \in Nat \ {0}, NEW i \in Nat \ {0}, NEW w \in Nat \ {0},
         NEW ex, NEW N \in Nat, DOMAIN ex = 1..N, NEW inc \in Seq(Message), i <= Len(inc)
  PROVE  /\ Begins(Widen(e, i, w, ex, inc), inc)
         /\ Widen(e, i, w, ex, inc).len <= w + Len(inc) + Len(inc)
<1>1. PICK M \in Nat : M = Len(inc) /\ DOMAIN inc = 1..M
  OBVIOUS
<1> DEFINE Eq(k) == /\ i + k \in DOMAIN inc /\ e + k \in DOMAIN ex
                    /\ inc[i + k] = ex[e + k]
           Ls == {l \in 0..(i - 1) : \A k \in 1..l : Eq(-k)}
           Rs == {r \in w..(w + Len(inc)) : \A k \in w..(r - 1) : Eq(k)}
           left == Max(Ls)
           right == Max(Rs)
<1>2. Widen(e, i, w, ex, inc) = [stored |-> e - left, incoming |-> i - left, len |-> left + right]
  BY DEF Widen
<1>3. left \in 0..(i - 1) /\ \A k \in 1..left : Eq(-k)
  <2>1. Ls \in SUBSET Nat /\ (\A l \in Ls : l <= i - 1) /\ i - 1 \in Nat
    OBVIOUS
  <2>2. 0 \in Ls
    OBVIOUS
  <2>3. left \in Ls
    <3> HIDE DEF Ls
    <3> QED BY <2>1, <2>2, GreatestIs
  <2> HIDE DEF left, Eq
  <2> QED BY <2>3
<1>4. right \in w..(w + M)
  <2>1. Rs \in SUBSET Nat /\ (\A r \in Rs : r <= w + M) /\ w + M \in Nat
    BY <1>1
  <2>2. w \in Rs
    <3>1. w \in w..(w + Len(inc)) /\ \A k \in w..(w - 1) : FALSE
      BY <1>1
    <3> HIDE DEF Eq
    <3> QED BY <3>1
  <2>3. right \in Rs
    <3> HIDE DEF Rs
    <3> QED BY <2>1, <2>2, GreatestIs
  <2> HIDE DEF right, Eq
  <2> QED BY <1>1, <2>3
<1>5. e - left >= 1
  <2>1. CASE left = 0
    BY <2>1
  <2>2. CASE left # 0
    <3>1. left \in 1..left
      BY <1>3, <2>2
    <3>2. e + (-left) \in DOMAIN ex
      BY <1>3, <3>1
    <3> HIDE DEF left
    <3> QED BY <1>3, <3>2
  <2> QED BY <2>1, <2>2
<1> HIDE DEF left, right
<1>6. /\ e - left \in Nat \ {0} /\ i - left \in 1..M /\ left + right \in Nat \ {0}
      /\ left + right <= w + M + M
  BY <1>1, <1>3, <1>4, <1>5
<1> QED BY <1>1, <1>2, <1>6 DEF Begins

\* Where ByWindow finds anchors: inside the stored rows.
LEMMA AnchorsInside ==
  ASSUME NEW s, Ordered(s), NEW w \in Nat \ {0}, NEW anc, NEW q \in AnchorPositions(w, s, anc)
  PROVE  q[2] \in 1..Len(s)
<1>1. PICK N \in Nat : N = Len(s) /\ DOMAIN s = 1..N
  BY OrderedIs
<1> DEFINE stored == {<<a.digest, i>> : a \in {b \in anc : b.size = w}, i \in DOMAIN s}
           joined == {p \in stored : \E a \in anc :
                        a.size = w /\ a.digest = p[1] /\ a.start = s[p[2]].id}
           built == {<<Window(Hashes(s), i, w), i>> : i \in 1..Len(s) - w + 1}
<1>2. q \in joined \/ q \in built
  <2>1. AnchorPositions(w, s, anc) = IF joined # {} THEN joined ELSE built
    BY DEF AnchorPositions
  <2> HIDE DEF joined, built
  <2> QED BY <2>1
<1>3. CASE q \in joined
  <2>1. q \in stored
    BY <1>3
  <2> QED BY <1>1, <2>1
<1>4. CASE q \in built
  <2>1. \E i \in 1..(N - w + 1) : q[2] = i
    BY <1>1, <1>4
  <2> QED BY <1>1, <2>1
<1> QED BY <1>2, <1>3, <1>4

\* A hit lies inside the payload and the store, and so does what it widens to.
LEMMA HitIs ==
  ASSUME NEW s, Ordered(s), NEW w \in Nat \ {0}, NEW anc, NEW inc \in Seq(Message),
         NEW p \in AnchorHits(w, s, anc, inc)
  PROVE  /\ p[1] \in 1..(Len(inc) - w + 1) /\ p[2] \in 1..Len(s) /\ p[3] = Window(inc, p[1], w)
         /\ <<p[3], p[2]>> \in AnchorPositions(w, s, anc)
         /\ p = <<p[1], p[2], p[3]>> /\ p[1] \in 1..Len(inc) /\ w <= Len(inc)
         /\ Begins(Widen(p[2], p[1], w, Hashes(s), inc), inc)
         /\ Widen(p[2], p[1], w, Hashes(s), inc).len <= w + Len(inc) + Len(inc)
<1>1. PICK N \in Nat : N = Len(s)
  BY OrderedIs
<1>2. PICK M \in Nat : M = Len(inc)
  OBVIOUS
<1> DEFINE AP == AnchorPositions(w, s, anc)
<1>3. PICK i \in 1..(M - w + 1), q \in AP : p = <<i, q[2], q[1]>>
  BY <1>2 DEF AnchorHits
<1>4. q[2] \in 1..N /\ q = <<q[1], q[2]>>
  <2>1. q[2] \in 1..N
    BY <1>1, AnchorsInside
  <2>2. q = <<q[1], q[2]>>
    BY DEF AnchorPositions
  <2> QED BY <2>1, <2>2
<1>5. p[3] = Window(inc, p[1], w)
  BY DEF AnchorHits
<1>6. p[1] \in 1..M /\ p[1] \in Nat \ {0} /\ p[2] \in Nat \ {0} /\ w <= M
  <2>1. p[1] \in 1..(M - w + 1) /\ p[2] \in 1..N
    BY <1>3, <1>4
  <2> QED BY <2>1
<1>7. DOMAIN Hashes(s) = 1..N /\ p[1] <= Len(inc)
  BY <1>1, <1>2, <1>6, HashesAre
<1>8. /\ Begins(Widen(p[2], p[1], w, Hashes(s), inc), inc)
      /\ Widen(p[2], p[1], w, Hashes(s), inc).len <= w + Len(inc) + Len(inc)
  BY <1>1, <1>6, <1>7, WidenBegins
<1> QED BY <1>1, <1>2, <1>3, <1>4, <1>5, <1>6, <1>8

\* Among the hits one is best.
LEMMA BestHit ==
  ASSUME NEW s, Ordered(s), NEW w \in Nat \ {0}, NEW anc, NEW inc \in Seq(Message),
         AnchorHits(w, s, anc, inc) # {}
  PROVE  \E p : Best(p, w, s, anc, inc)
<1>2. PICK M \in Nat : M = Len(inc)
  OBVIOUS
<1> DEFINE hits == AnchorHits(w, s, anc, inc)
           First(p) == Min({i \in 1..p[1] : Window(inc, i, w) = p[3]})
           Before(p, q) == \/ First(p) < First(q)
                           \/ First(p) = First(q) /\ p[1] < q[1]
                           \/ p[1] = q[1] /\ p[2] < q[2]
           At(p) == Widen(p[2], p[1], w, Hashes(s), inc)
           Beats(p, q) == \/ At(p).len > At(q).len
                          \/ At(p).len = At(q).len /\ Before(p, q)
           best == CHOOSE p \in hits : \A q \in hits \ {p} : Beats(p, q)
           a == Aligned(At(best).stored, At(best).incoming, At(best).len, inc)
<1>3. ByWindow(w, s, anc, inc) = IF hits = {} THEN NoAlignment ELSE a
  BY Zenon DEF ByWindow
<1>4. hits # {}
  OBVIOUS
<1>5. \A p \in hits : /\ p[1] \in 1..M /\ p[1] \in Nat \ {0} /\ p[2] \in Nat \ {0} /\ w <= M
                      /\ p[3] = Window(inc, p[1], w) /\ p = <<p[1], p[2], p[3]>>
                      /\ Begins(At(p), inc) /\ At(p).len <= w + M + M
  <2> TAKE p \in hits
  <2>1. p[2] \in 1..Len(s) /\ Len(s) \in Nat
    BY HitIs, OrderedIs
  <2>2. p[1] \in 1..M /\ w <= M
    BY <1>2, HitIs
  <2>3. p[1] \in Nat \ {0} /\ p[2] \in Nat \ {0}
    BY <2>1, <2>2
  <2>4. p[3] = Window(inc, p[1], w) /\ p = <<p[1], p[2], p[3]>>
    <3>1. p[3] = Window(inc, p[1], w)
      BY DEF AnchorHits
    <3>2. \E i \in 1..(M - w + 1), q \in AnchorPositions(w, s, anc) : p = <<i, q[2], q[1]>>
      BY <1>2 DEF AnchorHits
    <3> QED BY <3>1, <3>2
  <2>5. Begins(At(p), inc) /\ At(p).len <= w + M + M
    BY <1>2, HitIs
  <2> HIDE DEF At, hits
  <2> QED BY <2>2, <2>3, <2>4, <2>5
<1> HIDE DEF hits, At
<1>8. \A p \in hits : First(p) \in Nat
  <2> TAKE p \in hits
  <2> DEFINE F == {i \in 1..p[1] : Window(inc, i, w) = p[3]}
  <2>1. p[1] \in Nat \ {0} /\ p[3] = Window(inc, p[1], w)
    BY <1>5
  <2>2. p[1] \in F /\ F \in SUBSET Nat
    BY <2>1
  <2> HIDE DEF F
  <2>3. Min(F) \in F
    BY <2>2, LeastIs
  <2>4. Min(F) \in Nat
    BY <2>2, <2>3
  <2> QED BY <2>4 DEF F
<1> HIDE DEF First
<1>9. \E p \in hits : \A q \in hits \ {p} : Beats(p, q)
  <2> DEFINE f1 == [p \in hits |-> (w + M + M) - At(p).len]
             f2 == [p \in hits |-> First(p)]
             f3 == [p \in hits |-> p[1]]
             f4 == [p \in hits |-> p[2]]
  <2>0. \A p \in hits : f1[p] \in Nat /\ f2[p] \in Nat /\ f3[p] \in Nat /\ f4[p] \in Nat
    <3> TAKE p \in hits
    <3>1. At(p).len \in Nat /\ At(p).len <= w + M + M
      BY <1>5 DEF Begins
    <3> QED BY <1>5, <1>8, <3>1
  <2>1. PICK p1 \in hits : \A q \in hits : f1[p1] <= f1[q]
    <3> HIDE DEF f1
    <3> QED BY <1>4, <2>0, Foremost
  <2> DEFINE H1 == {q \in hits : f1[q] = f1[p1]}
  <2>2. PICK p2 \in H1 : \A q \in H1 : f2[p2] <= f2[q]
    <3>1. p1 \in H1 /\ \A q \in H1 : f2[q] \in Nat
      BY <2>0
    <3> HIDE DEF H1, f2
    <3> QED BY <3>1, Foremost
  <2> DEFINE H2 == {q \in H1 : f2[q] = f2[p2]}
  <2>3. PICK p3 \in H2 : \A q \in H2 : f3[p3] <= f3[q]
    <3>1. p2 \in H2 /\ \A q \in H2 : f3[q] \in Nat
      BY <2>0
    <3> HIDE DEF H2, f3
    <3> QED BY <3>1, Foremost
  <2> DEFINE H3 == {q \in H2 : f3[q] = f3[p3]}
  <2>4. PICK p \in H3 : \A q \in H3 : f4[p] <= f4[q]
    <3>1. p3 \in H3 /\ \A q \in H3 : f4[q] \in Nat
      BY <2>0
    <3> HIDE DEF H3, f4
    <3> QED BY <3>1, Foremost
  <2>5. p \in hits
    OBVIOUS
  <2>6. ASSUME NEW q \in hits \ {p} PROVE Beats(p, q)
    <3>1. /\ f1[p] \in Nat /\ f1[q] \in Nat /\ f1[p] <= f1[q]
          /\ f1[p] = f1[q] => q \in H1
      BY <2>0, <2>1, <2>5, <2>6
    <3>2. /\ f2[p] \in Nat /\ f2[q] \in Nat
          /\ q \in H1 => f2[p] <= f2[q] /\ (f2[p] = f2[q] => q \in H2)
      BY <2>0, <2>2, <2>5, <2>6
    <3>3. /\ f3[p] \in Nat /\ f3[q] \in Nat
          /\ q \in H2 => f3[p] <= f3[q] /\ (f3[p] = f3[q] => q \in H3)
      BY <2>0, <2>3, <2>5, <2>6
    <3>4. f4[p] \in Nat /\ f4[q] \in Nat /\ (q \in H3 => f4[p] <= f4[q])
      BY <2>0, <2>4, <2>5, <2>6
    <3>5. f3[p] = f3[q] /\ f4[p] = f4[q] => p = q
      <4>1. /\ p[3] = Window(inc, p[1], w) /\ q[3] = Window(inc, q[1], w)
            /\ p = <<p[1], p[2], p[3]>> /\ q = <<q[1], q[2], q[3]>>
        BY <1>5, <2>5, <2>6
      <4>2. f3[p] = p[1] /\ f4[p] = p[2] /\ f3[q] = q[1] /\ f4[q] = q[2]
        BY <2>5, <2>6
      <4> HIDE DEF f3, f4
      <4> QED BY <4>1, <4>2
    <3>6. /\ At(p).len \in Nat /\ At(q).len \in Nat
          /\ f1[p] = (w + M + M) - At(p).len /\ f1[q] = (w + M + M) - At(q).len
          /\ f2[p] = First(p) /\ f2[q] = First(q)
          /\ f3[p] = p[1] /\ f3[q] = q[1] /\ f4[p] = p[2] /\ f4[q] = q[2]
      BY <1>5, <2>5, <2>6 DEF Begins
    <3> HIDE DEF f1, f2, f3, f4, H1, H2, H3
    <3>7. f1[p] < f1[q] => At(p).len > At(q).len
      BY <3>1, <3>6
    <3>8. f1[p] = f1[q] => At(p).len = At(q).len
      BY <3>1, <3>6
    <3>9. f1[p] = f1[q] => Before(p, q)
      BY <2>6, <3>1, <3>2, <3>3, <3>4, <3>5, <3>6, SMTT(60)
    <3> HIDE DEF Before
    <3> QED BY <3>1, <3>7, <3>8, <3>9
  <2> HIDE DEF Beats, H1, H2, H3
  <2> QED BY <2>5, <2>6
<1>10. best \in hits /\ \A q \in hits \ {best} : Beats(best, q)
  <2> HIDE DEF Beats
  <2> QED BY <1>9, Zenon
<1> HIDE DEF best
<1>11. \A q \in hits : At(q).len <= At(best).len
  <2> TAKE q \in hits
  <2>1. At(q).len \in Nat /\ At(best).len \in Nat
    BY <1>5, <1>10 DEF Begins
  <2>2. q # best => At(best).len > At(q).len \/ At(best).len = At(q).len
    BY <1>10
  <2> QED BY <2>1, <2>2
<1>12. ByWindow(w, s, anc, inc) = a
  BY <1>3, <1>4
<1> QED BY <1>10, <1>11, <1>12 DEF Best, At, hits

\* What the best hit gives begins inside both.
LEMMA ByWindowBegins ==
  ASSUME NEW s, Ordered(s), NEW w \in Nat \ {0}, NEW anc, NEW inc \in Seq(Message),
         ByWindow(w, s, anc, inc).len > 0
  PROVE  Begins(ByWindow(w, s, anc, inc), inc) /\ w <= Len(inc)
<1>1. AnchorHits(w, s, anc, inc) # {}
  <2>1. ~ (NoAlignment.len > 0)
    BY DEF NoAlignment
  <2>2. AnchorHits(w, s, anc, inc) = {} => ByWindow(w, s, anc, inc) = NoAlignment
    BY Zenon DEF ByWindow
  <2> QED BY <2>1, <2>2
<1>2. PICK p : Best(p, w, s, anc, inc)
  BY <1>1, BestHit
<1>3. PICK x : x = Widen(p[2], p[1], w, Hashes(s), inc)
  OBVIOUS
<1>4. ByWindow(w, s, anc, inc) = Aligned(x.stored, x.incoming, x.len, inc)
  BY <1>2, <1>3 DEF Best
<1>5. Begins(x, inc) /\ w <= Len(inc)
  BY <1>2, <1>3, HitIs DEF Best
<1>6. Begins(Aligned(x.stored, x.incoming, x.len, inc), inc)
  BY <1>5 DEF Begins, Aligned
<1> QED BY <1>4, <1>5, <1>6

\* A call that goes on has an overlap inside the stored rows: a batch because
\* Sound was checked, a pair because no anchor window is as short.
LEMMA FindOverlap ==
  ASSUME NEW s, Ordered(s), NEW anc, NEW inc \in Seq(Message), NEW allowShort \in BOOLEAN,
         NEW a, a = _find_alignment(s, anc, inc, allowShort), a.len > 0,
         (~allowShort /\ Len(inc) < 3) \/ a.stored + a.len - 1 <= Len(s)
  PROVE  s # <<>> /\ Overlap(a, s, inc)
<1>1. PICK N \in Nat : N = Len(s)
  BY OrderedIs
<1>2. PICK M \in Nat : M = Len(inc)
  OBVIOUS
<1> DEFINE ex == Hashes(s)
           short == IF allowShort /\ Min({Len(ex), Len(inc)}) < 3
                    THEN Short(ex, inc) ELSE NoAlignment
           hit == {w \in WindowSizes : ByWindow(w, s, anc, inc).len > 0}
<1>3. a = IF ex = <<>> \/ inc = <<>> THEN NoAlignment
          ELSE IF Whole(ex, inc).len > 0 THEN Whole(ex, inc)
          ELSE IF short.len > 0 THEN short
          ELSE IF hit = {} THEN NoAlignment
          ELSE ByWindow(Max(hit), s, anc, inc)
  BY DEF _find_alignment
<1>4. ~ (NoAlignment.len > 0)
  BY DEF NoAlignment
<1>5. Len(ex) = N
  BY <1>1, HashesAre
<1>6. /\ \A w \in WindowSizes : w \in Nat \ {0} /\ w >= 3
  BY ReconcilerAssumption
<1>7. \A w \in hit : w \in Nat /\ w <= M /\ Begins(ByWindow(w, s, anc, inc), inc) /\ w >= 3
  <2> TAKE w \in hit
  <2>1. w \in WindowSizes /\ ByWindow(w, s, anc, inc).len > 0
    OBVIOUS
  <2> QED BY <1>2, <1>6, <2>1, ByWindowBegins
<1>8. hit # {} => Max(hit) \in hit
  <2>1. hit \in SUBSET Nat /\ \A w \in hit : w <= M
    BY <1>7
  <2> HIDE DEF hit
  <2> QED BY <2>1, GreatestIs
<1> HIDE DEF ex, hit
<1>9. ex # <<>> /\ s # <<>>
  <2>1. ex # <<>>
    BY <1>3, <1>4
  <2>2. s = <<>> => ex = <<>>
    BY DEF ex, Hashes
  <2> QED BY <2>1, <2>2
<1>10. CASE Whole(ex, inc).len > 0
  <2>1. a = Whole(ex, inc)
    BY <1>3, <1>4, <1>10
  <2>2. Overlap(Whole(ex, inc), s, inc)
    BY <1>9, <1>10, WholeBegins DEF ex
  <2> QED BY <1>9, <2>1, <2>2
<1>11. CASE ~ (Whole(ex, inc).len > 0)
  <2>1. Begins(a, inc) /\ (allowShort \/ ~ (Len(inc) < 3))
    <3>1. CASE short.len > 0
      <4>1. allowShort /\ short = Short(ex, inc)
        BY <1>4, <3>1
      <4>2. a = Short(ex, inc) /\ Short(ex, inc).len > 0
        <5> HIDE DEF short
        <5> QED BY <1>3, <1>4, <1>11, <3>1, <4>1
      <4>3. Begins(Short(ex, inc), inc)
        BY <4>2, ShortBegins DEF ex
      <4> QED BY <4>1, <4>2, <4>3
    <3>2. CASE ~ (short.len > 0)
      <4> HIDE DEF short
      <4>1. hit # {} /\ a = ByWindow(Max(hit), s, anc, inc)
        BY <1>3, <1>4, <1>11, <3>2
      <4>2. Max(hit) \in hit
        BY <1>8, <4>1
      <4>3. Begins(ByWindow(Max(hit), s, anc, inc), inc) /\ Max(hit) \in Nat /\ Max(hit) <= M /\ Max(hit) >= 3
        BY <1>7, <4>2
      <4>4. ~ (Len(inc) < 3)
        BY <1>2, <4>3
      <4> QED BY <4>1, <4>3, <4>4
    <3> QED BY <3>1, <3>2
  <2>2. a.stored + a.len - 1 <= Len(s)
    BY <2>1
  <2> QED BY <1>9, <2>1, <2>2 DEF Begins, Overlap
<1> QED BY <1>10, <1>11

LEMMA AppendRuns ==
  ASSUME NEW s, Ordered(s), NEW inc \in Seq(Message), NEW x \in Int,
         \A i \in DOMAIN s : s[i].key <= x,
         NEW actor \in Actor \cup {NoActor}, NEW b \in Nat, NEW from \in Nat
  PROVE  Plannable(WriteOps(inc, KeysAbove(x, Len(inc)), actor, b, from), s, b)
<1>1. PICK n \in Nat : n = Len(inc)
  OBVIOUS
<1>2. PICK keys : keys = KeysAbove(x, n)
  OBVIOUS
<1>3. Rising(keys, n) /\ \A k \in 1..n : x < keys[k]
  BY <1>2, AboveRises
<1>4. Free(Places(s), keys, n)
  <2> SUFFICES ASSUME NEW p \in Places(s), NEW k \in 1..n PROVE p[2] # keys[k]
    BY DEF Free
  <2>1. PICK i \in DOMAIN s : p[2] = s[i].key
    BY PlacesIs
  <2>2. s[i].key \in Int /\ s[i].key <= x
    BY OrderedIs
  <2>3. keys[k] \in Int /\ x < keys[k]
    BY <1>3 DEF Rising
  <2> QED BY <2>1, <2>2, <2>3
<1>5. /\ WriteOps(inc, keys, actor, b, from) \in Seq(Planned(b))
      /\ Runs(Places(s), WriteOps(inc, keys, actor, b, from), Places(s) \cup NewPlaces(keys, n, from))
  BY <1>1, <1>3, <1>4, WritesPlanned, RunsWrites
<1> QED BY <1>1, <1>2, <1>5 DEF Plannable

\* The last row has the greatest key.
LEMMA LastIsGreatest ==
  ASSUME NEW s, Ordered(s), s # <<>>
  PROVE  /\ Len(s) \in DOMAIN s /\ s[Len(s)].key \in Int
         /\ \A i \in DOMAIN s : s[i].key <= s[Len(s)].key
<1>1. PICK N \in Nat : N = Len(s) /\ DOMAIN s = 1..N /\ N # 0
  BY OrderedIs
<1>2. N \in DOMAIN s /\ \A i \in DOMAIN s : s[i].key \in Int
  BY <1>1, OrderedIs
<1>3. ASSUME NEW i \in DOMAIN s PROVE s[i].key <= s[N].key
  <2>1. i = N \/ i < N
    BY <1>1
  <2>2. i < N => s[i].key < s[N].key
    BY <1>2 DEF Ordered
  <2> QED BY <1>2, <2>1, <2>2
<1> QED BY <1>1, <1>2, <1>3

LEMMA PreparedRuns ==
  ASSUME NEW s, Ordered(s), NEW inc \in Seq(Message),
         NEW actor \in Actor \cup {NoActor}, NEW b \in Nat, NEW life \in Nat, NEW from \in Nat,
         NEW allowShort \in BOOLEAN,
         (~allowShort /\ Len(inc) < 3)
           \/ LET a == _find_alignment(s, anchors, inc, allowShort)
              IN  a.stored + a.len - 1 <= Len(s)
  PROVE  Plannable(PreparedOps(s, inc, actor, b, life, from, allowShort), s, b)
<1>1. PICK a : a = _find_alignment(s, anchors, inc, allowShort)
  OBVIOUS
<1>2. PreparedOps(s, inc, actor, b, life, from, allowShort)
        = IF a.len > 0 THEN MergeOps(s, a, inc, actor, b, life, from)
          ELSE IF Fragment(s, inc) THEN <<>> ELSE AppendOps(s, inc, actor, b, from)
  BY <1>1 DEF PreparedOps
<1>3. CASE a.len > 0
  <2>1. s # <<>> /\ Overlap(a, s, inc)
    BY <1>1, <1>3, FindOverlap
  <2>2. Plannable(MergeOps(s, a, inc, actor, b, life, from), s, b)
    BY <2>1, MergeRuns DEF Plannable
  <2> QED BY <1>2, <1>3, <2>2
<1>4. Plannable(<<>>, s, b)
  <2>1. Runs(Places(s), <<>>, Places(s)) /\ <<>> \in Seq(Planned(b))
    BY RunsNone
  <2> QED BY <2>1 DEF Plannable
<1>5. Plannable(AppendOps(s, inc, actor, b, from), s, b)
  <2> DEFINE x == IF s = <<>> THEN 0 ELSE s[Len(s)].key
  <2>1. x \in Int /\ \A i \in DOMAIN s : s[i].key <= x
    <3>1. CASE s = <<>>
      BY <3>1
    <3>2. CASE s # <<>>
      BY <3>2, LastIsGreatest
    <3> QED BY <3>1, <3>2
  <2>2. AppendOps(s, inc, actor, b, from) = WriteOps(inc, KeysAbove(x, Len(inc)), actor, b, from)
    BY DEF AppendOps
  <2> HIDE DEF x
  <2> QED BY <2>1, <2>2, AppendRuns
<1> QED BY <1>2, <1>3, <1>4, <1>5

-----------------------------------------------------------------------------
(* Turn groups.                                                            *)

LEMMA NextScanIs ==
  ASSUME NEW s, NEW i, NEW x \in Scan
  PROVE  NextScan(s, i, x) \in Scan
BY DEF NextScan, Scan

LEMMA ScanExists ==
  ASSUME NEW s, NEW n \in Nat
  PROVE  \E g \in [0..n -> Scan] : Scans(s, g, n)
<1> DEFINE T == {m \in 0..n : \E g \in [0..m -> Scan] : Scans(s, g, m)}
<1>1. 0 \in T
  <2> DEFINE g == [i \in 0..0 |-> NoScan]
  <2>1. g \in [0..0 -> Scan] /\ g[0] = NoScan /\ \A i \in 1..0 : FALSE
    BY DEF Scan, NoScan
  <2> HIDE DEF g
  <2>2. Scans(s, g, 0)
    BY <2>1 DEF Scans
  <2> QED BY <2>1, <2>2
<1>2. ASSUME NEW m \in 0..n, m < n, m \in T PROVE m + 1 \in T
  <2>1. PICK q \in [0..m -> Scan] : Scans(s, q, m)
    BY <1>2
  <2> DEFINE g == [i \in 0..(m + 1) |-> IF i = 0 THEN NoScan ELSE NextScan(s, i, q[i - 1])]
  <2>2. \A i \in 1..(m + 1) : g[i] = NextScan(s, i, q[i - 1]) /\ q[i - 1] \in Scan
    OBVIOUS
  <2>3. g[0] = NoScan /\ NoScan \in Scan
    BY DEF Scan, NoScan
  <2>4. g \in [0..(m + 1) -> Scan]
    <3>1. \A i \in 0..(m + 1) : g[i] \in Scan
      <4> TAKE i \in 0..(m + 1)
      <4>1. i = 0 \/ i \in 1..(m + 1)
        OBVIOUS
      <4> HIDE DEF g
      <4> QED BY <2>2, <2>3, <4>1, NextScanIs
    <3>2. g = [i \in 0..(m + 1) |-> g[i]]
      OBVIOUS
    <3> HIDE DEF g
    <3> QED BY <3>1, <3>2
  <2> HIDE DEF g
  <2>5. \A i \in 0..m : g[i] = q[i]
    <3> TAKE i \in 0..m
    <3>1. CASE i = 0
      BY <2>1, <2>3, <3>1 DEF Scans
    <3>2. CASE i # 0
      <4>1. i \in 1..m /\ i \in 1..(m + 1)
        BY <3>2
      <4> QED BY <2>1, <2>2, <4>1 DEF Scans
    <3> QED BY <3>1, <3>2
  <2>6. Scans(s, g, m + 1)
    <3>1. \A i \in 1..(m + 1) : g[i] = NextScan(s, i, g[i - 1])
      <4> TAKE i \in 1..(m + 1)
      <4>1. i - 1 \in 0..m
        OBVIOUS
      <4> QED BY <2>2, <2>5, <4>1
    <3> QED BY <2>3, <3>1 DEF Scans
  <2>7. m + 1 \in 0..n
    BY <1>2
  <2> QED BY <2>4, <2>6, <2>7
<1>3. n \in T
  <2> HIDE DEF T
  <2> QED BY <1>1, <1>2, InductionUpTo
<1> QED BY <1>3

\* recompute_canonical_turn_groups is one scan of the rows.
LEMMA RecomputeScans ==
  ASSUME NEW s, NEW n \in Nat, n = Len(s)
  PROVE  \E g \in [0..n -> Scan] :
           /\ Scans(s, g, n)
           /\ recompute_canonical_turn_groups(s)
                = [i \in DOMAIN s |-> [s[i] EXCEPT !.group = GroupAt(s, i, g)]]
<1> DEFINE Solves(p) == p = [i \in 0..Len(s) |->
        IF i = 0 THEN [current |-> -1, pending |-> -1]
        ELSE LET c == p[i - 1].current  q == p[i - 1].pending
             IN  IF s[i].hash \in UserMessage
                 THEN [current |-> c + 1, pending |-> c + 1]
                 ELSE IF q >= 0 THEN [current |-> c, pending |-> -1]
                 ELSE [current |-> c + 1, pending |-> -1]]
           g == CHOOSE p : Solves(p)
<1>1. recompute_canonical_turn_groups(s)
         = [i \in DOMAIN s |-> [s[i] EXCEPT !.group = GroupAt(s, i, g)]]
  BY DEF recompute_canonical_turn_groups, GroupAt
<1>2. \A p : Solves(p) <=> p = [i \in 0..n |-> IF i = 0 THEN NoScan ELSE NextScan(s, i, p[i - 1])]
  BY Zenon DEF NextScan, NoScan
<1> HIDE DEF Solves
<1>3. PICK q \in [0..n -> Scan] : Scans(s, q, n)
  BY ScanExists
<1>4. Solves(q)
  <2>1. \A i \in 0..n : q[i] = IF i = 0 THEN NoScan ELSE NextScan(s, i, q[i - 1])
    BY <1>3 DEF Scans
  <2>2. q = [i \in 0..n |-> IF i = 0 THEN NoScan ELSE NextScan(s, i, q[i - 1])]
    BY <2>1
  <2> QED BY <1>2, <2>2
<1>5. Solves(g)
  BY <1>4
<1> HIDE DEF g
<1>6. /\ DOMAIN g = 0..n /\ g[0] = NoScan /\ \A i \in 1..n : g[i] = NextScan(s, i, g[i - 1])
      /\ g = [i \in 0..n |-> g[i]]
  <2>1. g = [i \in 0..n |-> IF i = 0 THEN NoScan ELSE NextScan(s, i, g[i - 1])]
    BY <1>2, <1>5
  <2>2. \A i \in 0..n : g[i] = IF i = 0 THEN NoScan ELSE NextScan(s, i, g[i - 1])
    BY <2>1
  <2>3. DOMAIN g = 0..n /\ g = [i \in 0..n |-> g[i]]
    BY <2>1
  <2> QED BY <2>2, <2>3
<1>7. \A i \in 0..n : g[i] \in Scan
  <2> DEFINE T == {i \in 0..n : g[i] \in Scan}
  <2>1. 0 \in T
    BY <1>6 DEF NoScan, Scan
  <2>2. ASSUME NEW i \in 0..n, i < n, i \in T PROVE i + 1 \in T
    <3>1. i + 1 \in 1..n /\ (i + 1) - 1 = i /\ g[i] \in Scan
      BY <2>2
    <3>2. g[i + 1] = NextScan(s, i + 1, g[i])
      BY <1>6, <3>1
    <3> QED BY <3>1, <3>2, NextScanIs
  <2>3. 0..n \subseteq T
    <3> HIDE DEF T
    <3> QED BY <2>1, <2>2, InductionUpTo
  <2> QED BY <2>3
<1>8. g \in [0..n -> Scan] /\ Scans(s, g, n)
  BY <1>6, <1>7 DEF Scans
<1> QED BY <1>1, <1>8

LEMMA AlikeIs ==
  ASSUME NEW s, Ordered(s), NEW t \in Seq(Row), Alike(t, s)
  PROVE  Ordered(t) /\ Places(t) = Places(s)
<1>1. Ordered(t)
  BY DEF Ordered, Alike
<1>2. Places(t) = Places(s)
  BY DEF Places, Alike
<1> QED BY <1>1, <1>2

LEMMA RecomputeIs ==
  ASSUME NEW s, Ordered(s)
  PROVE  /\ recompute_canonical_turn_groups(s) \in Seq(Row)
         /\ Alike(recompute_canonical_turn_groups(s), s)
         /\ SameStamps(recompute_canonical_turn_groups(s), s)
<1>1. PICK n \in Nat : n = Len(s) /\ DOMAIN s = 1..n
  BY OrderedIs
<1>2. PICK g \in [0..n -> Scan] :
         /\ Scans(s, g, n)
         /\ recompute_canonical_turn_groups(s)
              = [i \in DOMAIN s |-> [s[i] EXCEPT !.group = GroupAt(s, i, g)]]
  BY <1>1, RecomputeScans
<1> DEFINE t == recompute_canonical_turn_groups(s)
           E(r, x) == [r EXCEPT !.group = x]
<1>3. t = [i \in 1..n |-> [s[i] EXCEPT !.group = GroupAt(s, i, g)]]
  BY <1>1, <1>2
<1> HIDE DEF t
<1>4. \A i \in 1..n : GroupAt(s, i, g) \in Int
  <2> TAKE i \in 1..n
  <2>1. i \in 0..n /\ i - 1 \in 0..n
    OBVIOUS
  <2>2. g[i] \in Scan /\ g[i - 1] \in Scan
    BY <2>1
  <2> QED BY <2>2 DEF GroupAt, Scan
<1>5. \A r \in Row : \A x \in Int :
         /\ E(r, x) \in Row /\ E(r, x).id = r.id /\ E(r, x).key = r.key
         /\ E(r, x).batch = r.batch /\ E(r, x).hash = r.hash
         /\ E(r, x).actor = r.actor /\ E(r, x).tagged = r.tagged
  BY DEF Row
<1>6. \A i \in 1..n : /\ s[i] \in Row /\ t[i] = E(s[i], GroupAt(s, i, g))
  BY <1>1, <1>3, OrderedIs
<1> HIDE DEF E
<1>7. \A i \in 1..n : /\ t[i] \in Row /\ t[i].id = s[i].id /\ t[i].key = s[i].key
                      /\ t[i].batch = s[i].batch /\ t[i].hash = s[i].hash
                      /\ t[i].actor = s[i].actor /\ t[i].tagged = s[i].tagged
  <2> TAKE i \in 1..n
  <2>1. PICK x \in Int : x = GroupAt(s, i, g)
    BY <1>4
  <2>2. PICK r \in Row : r = s[i] /\ t[i] = E(r, x)
    BY <1>6, <2>1
  <2>3. /\ E(r, x) \in Row /\ E(r, x).id = r.id /\ E(r, x).key = r.key
        /\ E(r, x).batch = r.batch /\ E(r, x).hash = r.hash
        /\ E(r, x).actor = r.actor /\ E(r, x).tagged = r.tagged
    BY <1>5
  <2> QED BY <2>2, <2>3, Zenon
<1>8. t \in Seq(Row) /\ Len(t) = n /\ DOMAIN t = 1..n
  <2>1. DOMAIN t = 1..n /\ t = [i \in 1..n |-> t[i]]
    BY <1>3
  <2> QED BY <1>7, <2>1
<1> QED BY <1>1, <1>7, <1>8 DEF t, Alike, SameStamps

LEMMA LoadedIs ==
  ASSUME NEW s, Ordered(s)
  PROVE  /\ Loaded(s) \in Seq(Row) /\ Alike(Loaded(s), s) /\ Ordered(Loaded(s))
         /\ SameStamps(Loaded(s), s)
<1>1. s \in Seq(Row) /\ Alike(s, s) /\ SameStamps(s, s)
  BY DEF Ordered, Alike, SameStamps
<1>2. Loaded(s) = recompute_canonical_turn_groups(s) \/ Loaded(s) = s
  BY DEF Loaded
<1>3. Loaded(s) \in Seq(Row) /\ Alike(Loaded(s), s) /\ SameStamps(Loaded(s), s)
  BY <1>1, <1>2, RecomputeIs
<1> QED BY <1>3, AlikeIs

-----------------------------------------------------------------------------
(* The inductive invariant.                                                *)

LEMMA RunsLess ==
  ASSUME NEW K, NEW L, NEW ops, NEW K2, Runs(K, ops, L), K2 \subseteq K
  PROVE  Runs(K2, ops, L)
BY DEF Runs

LEMMA OpIs ==
  ASSUME NEW b, NEW o \in Planned(b)
  PROVE  /\ o.op \in {"write", "shift", "actor"}
         /\ o.op = "write" => o.row \in Row /\ o.row.batch \in {0, b}
         /\ o.op = "shift" => o.from \in Int /\ o.delta \in Nat
         /\ o.op = "actor" => o.actor \in Actor \cup {NoActor}
BY DEF Planned, Op

\* A call that begins with a plan its rows can carry out.
LEMMA BeginKeeps ==
  ASSUME KeyInv, NEW kind, NEW p, NEW s, Ordered(s), NEW ops, NEW next,
         Plannable(ops, s, batches + 1), Begin(kind, p, s, ops, next),
         next \in {"write", "check"}, next = "write" => ops # <<>>
  PROVE  KeyInv'
<1>1. PICK b \in Nat : b = batches + 1
  BY DEF KeyInv, Shape
<1>2. /\ rows' = s /\ batches' = b /\ pc' = next /\ epoch' = epoch
      /\ turns' = turns + Cardinality({k \in DOMAIN ops :
                       ops[k].op = "write" /\ ops[k].row.id > turns})
      /\ job' = [kind |-> kind, payload |-> p, batch |-> b, life |-> epoch,
             todo |-> ops, wrote |-> \E k \in DOMAIN ops : ops[k].op = "write",
             undo |-> IF Transactional THEN <<rows, anchors>> ELSE <<>>]
  BY <1>1 DEF Begin
<1>3. job'.batch = b /\ job'.todo = ops /\ (Transactional => job'.undo[1] = rows)
  BY <1>2
<1>4. ops \in Seq(Planned(b)) /\ \E L : Runs(Places(s), ops, L)
  BY <1>1 DEF Plannable
<1>5. turns' \in Nat
  <2> DEFINE F == {k \in DOMAIN ops : ops[k].op = "write" /\ ops[k].row.id > turns}
  <2>1. DOMAIN ops = 1..Len(ops) /\ Len(ops) \in Nat
    BY <1>4
  <2>2. IsFiniteSet(1..Len(ops))
    BY <2>1, FS_Interval
  <2>3. F \subseteq 1..Len(ops)
    BY <2>1
  <2> HIDE DEF F
  <2>4. Cardinality(F) \in Nat
    BY <2>2, <2>3, FS_Subset, FS_CardinalityType
  <2> QED BY <1>2, <2>4 DEF KeyInv, Shape, F
<1>6. job' = [kind |-> job'.kind, payload |-> job'.payload, batch |-> job'.batch,
              life |-> job'.life, todo |-> job'.todo, wrote |-> job'.wrote, undo |-> job'.undo]
  BY <1>2
<1>7. Shape'
  BY <1>2, <1>3, <1>4, <1>5, <1>6 DEF Shape, KeyInv
<1>8. PlanRuns'
  BY <1>2, <1>3, <1>4 DEF PlanRuns
<1>9. UndoOrdered'
  BY <1>3 DEF UndoOrdered, KeyInv, Shape
<1> QED BY <1>7, <1>8, <1>9 DEF KeyInv

LEMMA BatchKeeps ==
  ASSUME KeyInv, NEW p \in Payload, NEW actor \in Actor \cup {NoActor}, ingest_batch(p, actor)
  PROVE  KeyInv'
<1> DEFINE s == Loaded(rows)
           ops == PreparedOps(s, p, actor, batches + 1, epoch, turns, TRUE)
<1>1. Sound(s, p) /\ Begin("batch", p, s, ops, Writes(ops))
  BY DEF ingest_batch
<1>2. Ordered(s)
  BY LoadedIs DEF KeyInv, Shape
<1>3. p \in Seq(Message)
  BY ReconcilerAssumption
<1>4. batches + 1 \in Nat /\ epoch \in Nat /\ turns \in Nat
  BY DEF KeyInv, Shape
<1> HIDE DEF s
<1>5. Plannable(ops, s, batches + 1)
  BY <1>1, <1>2, <1>3, <1>4, PreparedRuns DEF Sound
<1>6. Writes(ops) \in {"write", "check"} /\ (Writes(ops) = "write" => ops # <<>>)
  BY DEF Writes
<1> HIDE DEF ops
<1> QED BY <1>1, <1>2, <1>5, <1>6, BeginKeeps

LEMMA SingleKeeps ==
  ASSUME KeyInv, NEW p \in Pair, NEW actor \in Actor \cup {NoActor}, ingest_single(p, actor)
  PROVE  KeyInv'
<1> DEFINE s == Loaded(rows)
           tail == s[Len(s)]
           up == UpgradeOp(s, {Len(s)}, actor, epoch)
           half == WriteOps(<<p[2]>>, KeysAbove(tail.key, 1), actor, batches + 1, turns)
           other == PreparedOps(s, p, actor, batches + 1, 0, turns, FALSE)
           ops == IF s # <<>> /\ tail.hash = p[1] THEN up \o half ELSE other
<1>1. Begin("single", p, s, ops, Writes(ops))
  BY DEF ingest_single
<1>2. Ordered(s)
  BY LoadedIs DEF KeyInv, Shape
<1>3. p \in Seq(Message) /\ Len(p) = 2 /\ <<p[2]>> \in Seq(Message) /\ Len(<<p[2]>>) = 1
  <2>1. p \in UserMessage \X (Message \ UserMessage) /\ UserMessage \subseteq Message
    BY ReconcilerAssumption
  <2>2. p = <<p[1], p[2]>> /\ p[1] \in Message /\ p[2] \in Message
    BY <2>1
  <2>3. PICK u \in Message, v \in Message : p = <<u, v>> /\ v = p[2]
    BY <2>2
  <2>4. <<u, v>> \in Seq(Message) /\ Len(<<u, v>>) = 2 /\ <<v>> \in Seq(Message) /\ Len(<<v>>) = 1
    OBVIOUS
  <2> QED BY <2>3, <2>4
<1>4. batches + 1 \in Nat /\ epoch \in Nat /\ turns \in Nat /\ 0 \in Nat
  BY DEF KeyInv, Shape
<1> HIDE DEF s
<1>5. Plannable(other, s, batches + 1)
  <2>1. Len(p) < 3 /\ FALSE \in BOOLEAN
    BY <1>3
  <2> QED BY <1>2, <1>3, <1>4, <2>1, PreparedRuns
<1>6. s # <<>> => Plannable(up \o half, s, batches + 1)
  <2> SUFFICES ASSUME s # <<>> PROVE Plannable(up \o half, s, batches + 1)
    OBVIOUS
  <2>1. Len(s) \in DOMAIN s /\ tail.key \in Int /\ \A i \in DOMAIN s : s[i].key <= tail.key
    BY <1>2, LastIsGreatest
  <2>2. up \in Seq(Planned(batches + 1)) /\ Runs(Places(s), up, Places(s))
    <3>1. {Len(s)} \in SUBSET DOMAIN s
      BY <2>1
    <3> QED BY <1>2, <1>4, <3>1, RunsUpgrade
  <2>3. PICK x \in Int : x = tail.key
    BY <2>1
  <2>4. Plannable(WriteOps(<<p[2]>>, KeysAbove(x, Len(<<p[2]>>)), actor, batches + 1, turns), s, batches + 1)
    BY <1>2, <1>3, <1>4, <2>1, <2>3, AppendRuns
  <2>5. Plannable(half, s, batches + 1)
    BY <1>3, <2>3, <2>4
  <2>6. PICK L : half \in Seq(Planned(batches + 1)) /\ Runs(Places(s), half, L)
    BY <2>5 DEF Plannable
  <2> HIDE DEF up, half
  <2>7. up \o half \in Seq(Planned(batches + 1)) /\ Runs(Places(s), up \o half, L)
    BY <2>2, <2>6, RunsThen, ConcatProperties
  <2> QED BY <2>7 DEF Plannable
<1> HIDE DEF up, half, other
<1>7. Plannable(ops, s, batches + 1)
  BY <1>5, <1>6
<1>8. Writes(ops) \in {"write", "check"} /\ (Writes(ops) = "write" => ops # <<>>)
  BY DEF Writes
<1> HIDE DEF ops
<1> QED BY <1>1, <1>2, <1>7, <1>8, BeginKeeps

LEMMA RunsInPlace ==
  ASSUME NEW K, NEW ops, NEW n \in Nat, n = Len(ops), \A k \in 1..n : Allows(ops[k], K, K)
  PROVE  Runs(K, ops, K)
<1> DEFINE f == [k \in 1..(n + 1) |-> K]
<1>1. f[1] = K /\ f[n + 1] = K /\ \A k \in 1..n : f[k] = K /\ f[k + 1] = K
  OBVIOUS
<1> HIDE DEF f
<1> QED BY <1>1 DEF Runs

\* The rows that a resend of a pair rewrites are stored rows.
LEMMA RecentIs ==
  ASSUME NEW s, Ordered(s)
  PROVE  Len(s) - Len(Recent(s)) \in Nat
<1>1. PICK N \in Nat : N = Len(s)
  BY OrderedIs
<1>2. PICK r \in Nat : r = Min({RecentRows, N}) /\ r <= N
  <2>1. {RecentRows, N} \in SUBSET Nat /\ {RecentRows, N} # {}
    BY ReconcilerAssumption
  <2>2. Min({RecentRows, N}) \in {RecentRows, N} /\ Min({RecentRows, N}) <= N
    BY <2>1, LeastIs
  <2> QED BY <2>1, <2>2
<1>3. Recent(s) = SubSeq(s, N - r + 1, N)
  BY <1>1, <1>2 DEF Recent
<1>4. N - r + 1 \in Int /\ N \in Int /\ \A i \in (N - r + 1)..N : s[i] \in Row
  <2>1. \A i \in 1..N : s[i] \in Row
    BY <1>1, OrderedIs
  <2>2. \A i \in (N - r + 1)..N : i \in 1..N
    BY <1>2
  <2>3. N - r + 1 \in Int /\ N \in Int
    BY <1>2
  <2> QED BY <2>1, <2>2, <2>3
<1>5. Len(SubSeq(s, N - r + 1, N)) = IF N - r + 1 <= N THEN N - (N - r + 1) + 1 ELSE 0
  BY <1>4, SubSeqProperties
<1>6. PICK k : k = Len(Recent(s))
  OBVIOUS
<1>7. k = IF N - r + 1 <= N THEN N - (N - r + 1) + 1 ELSE 0
  BY <1>3, <1>5, <1>6
<1>8. N - k \in Nat
  BY <1>2, <1>7
<1> QED BY <1>1, <1>6, <1>8

LEMMA ResendKeeps ==
  ASSUME KeyInv, NEW p \in Pair, NEW actor \in Actor \cup {NoActor}, ResendPair(p, actor)
  PROVE  KeyInv'
<1> DEFINE s == Loaded(rows)
           m == Len(s) - Len(Recent(s))
           at == {i \in m + 1..Len(s) - 1 : Window(Hashes(s), i, 2) = p}
           Re(k) == Rewritten(s[Min(at) + k - 1], actor)
           ops == [k \in 1..2 |-> [op |-> "write", row |-> Re(k)]]
<1>1. at # {} /\ Begin("resend", p, s, ops, "write")
  BY DEF ResendPair
<1>2. Ordered(s)
  BY LoadedIs DEF KeyInv, Shape
<1>3. PICK N \in Nat : N = Len(s) /\ DOMAIN s = 1..N
  BY <1>2, OrderedIs
<1>4. Min(at) \in 1..(N - 1)
  <2>1. m \in Nat
    <3> HIDE DEF s
    <3> QED BY <1>2, RecentIs
  <2> HIDE DEF s, m
  <2>2. at \in SUBSET Nat /\ \A i \in at : i \in 1..(N - 1)
    BY <1>3, <2>1
  <2> HIDE DEF at
  <2> QED BY <1>1, <2>2, LeastIs
<1> HIDE DEF s, m, at
<1>5. \A k \in 1..2 : Min(at) + k - 1 \in 1..N
  BY <1>4
<1>6. \A r \in Row : /\ Rewritten(r, actor) \in Row /\ Rewritten(r, actor).batch = 0
                     /\ Rewritten(r, actor).id = r.id /\ Rewritten(r, actor).key = r.key
  BY DEF Rewritten, Row
<1>7. \A k \in 1..2 : \E i \in DOMAIN s : /\ Re(k) \in Row /\ Re(k).batch = 0
                                          /\ Re(k).id = s[i].id /\ Re(k).key = s[i].key
  <2> TAKE k \in 1..2
  <2>1. Min(at) + k - 1 \in DOMAIN s
    BY <1>3, <1>5
  <2>2. s[Min(at) + k - 1] \in Row
    BY <1>2, <2>1, OrderedIs
  <2> QED BY <1>6, <2>1, <2>2
<1> HIDE DEF Re
<1>8. ops \in Seq(Planned(batches + 1)) /\ Len(ops) = 2 /\ ops # <<>>
      /\ \A k \in 1..2 : ops[k] = [op |-> "write", row |-> Re(k)]
  <2>1. \A k \in 1..2 : [op |-> "write", row |-> Re(k)] \in Planned(batches + 1)
    BY <1>7 DEF Planned, Op
  <2> QED BY <2>1
<1> HIDE DEF ops
<1>9. \A k \in 1..2 : Allows(ops[k], Places(s), Places(s))
  <2> TAKE k \in 1..2
  <2>1. PICK i \in DOMAIN s : Re(k).id = s[i].id /\ Re(k).key = s[i].key
    BY <1>7
  <2>2. <<Re(k).id, Re(k).key>> \in Places(s)
    BY <2>1 DEF Places
  <2>3. \A q \in Places(s) : q[2] = Re(k).key => q[1] = Re(k).id
    <3> SUFFICES ASSUME NEW q \in Places(s), q[2] = s[i].key PROVE q[1] = s[i].id
      BY <2>1
    <3>1. PICK j \in DOMAIN s : q[1] = s[j].id /\ q[2] = s[j].key
      BY <1>2, PlacesIs
    <3>2. i = j
      <4>1. s[i].key \in Int /\ s[j].key \in Int /\ s[i].key = s[j].key /\ i \in Nat /\ j \in Nat
        BY <1>2, <1>3, <3>1, OrderedIs
      <4>2. ~ (i < j) /\ ~ (j < i)
        BY <1>2, <4>1 DEF Ordered
      <4> QED BY <4>1, <4>2
    <3> QED BY <3>1, <3>2
  <2>4. ops[k].op = "write" /\ ops[k].row = Re(k)
    BY <1>8
  <2> QED BY <2>2, <2>3, <2>4 DEF Allows
<1>10. Plannable(ops, s, batches + 1)
  BY <1>8, <1>9, RunsInPlace DEF Plannable
<1> QED BY <1>1, <1>2, <1>8, <1>10, BeginKeeps

\* One committed write keeps the order, and the rest of the plan can go on.
LEMMA ExecuteRows ==
  ASSUME KeyInv, Execute
  PROVE  /\ Ordered(rows')
         /\ Tail(job.todo) # <<>> => \E L : Runs(Places(rows'), Tail(job.todo), L)
         /\ \A k \in DOMAIN rows' : \/ \E i \in DOMAIN rows : rows'[k].batch = rows[i].batch
                                    \/ rows'[k].batch \in {0, job.batch}
<1> DEFINE Goal(t) ==
             /\ Ordered(t) /\ \E L : Runs(Places(t), Tail(job.todo), L)
             /\ \A k \in DOMAIN t : \/ \E i \in DOMAIN rows : t[k].batch = rows[i].batch
                                    \/ t[k].batch \in {0, job.batch}
<1>1. PICK o : o = Head(job.todo)
  OBVIOUS
<1>2. PICK ops : ops = job.todo /\ ops \in Seq(Planned(job.batch)) /\ ops # <<>>
  BY DEF KeyInv, Shape, PlanRuns, Execute
<1>3. o \in Planned(job.batch)
  BY <1>1, <1>2
<1>4. PICK L : Runs(Places(rows), ops, L)
  BY <1>2 DEF KeyInv, PlanRuns, Execute
<1>5. PICK M : Allows(o, Places(rows), M) /\ Runs(M, Tail(ops), L)
  BY <1>1, <1>2, <1>4, RunsFirst
<1>6. Ordered(rows)
  BY DEF KeyInv, Shape
<1>7. /\ o.op \in {"write", "shift", "actor"}
      /\ o.op = "write" => o.row \in Row /\ o.row.batch \in {0, job.batch}
      /\ o.op = "shift" => o.from \in Int /\ o.delta \in Nat
      /\ o.op = "actor" => o.actor \in Actor \cup {NoActor}
  BY <1>3, OpIs
<1>8. /\ o.op = "shift" => rows' = shift_canonical_turn_sort_keys(rows, o.from, o.delta)
      /\ o.op = "actor" => rows' = [i \in DOMAIN rows |->
                               IF /\ rows[i].id \in o.ids
                                  /\ rows[i].actor = NoActor
                                  /\ o.life \in {0, epoch}
                               THEN [rows[i] EXCEPT !.actor = o.actor]
                               ELSE rows[i]]
      /\ o.op = "write" => rows' = save_canonical_turn(rows, o.row)
  BY <1>1, <1>7 DEF Execute
<1>9. PICK t : t = rows'
  OBVIOUS
<1>10. ASSUME Places(t) \subseteq M PROVE \E K : Runs(Places(t), Tail(job.todo), K)
  BY <1>2, <1>5, <1>10, RunsLess
<1>11. CASE o.op = "shift"
  <2>1. PICK from \in Int : from = o.from
    BY <1>7, <1>11
  <2>2. PICK delta \in Nat : delta = o.delta
    BY <1>7, <1>11
  <2>3. t = shift_canonical_turn_sort_keys(rows, from, delta)
    BY <1>8, <1>9, <1>11, <2>1, <2>2
  <2>4. Ordered(t) /\ ShiftedBy(t, rows, from, delta)
    BY <1>6, <2>3, ShiftIs
  <2>5. DOMAIN t = DOMAIN rows
    BY <1>6, <2>4, OrderedIs DEF ShiftedBy
  <2>6. \A p \in Places(rows) : Moved(p, from, delta) \in M
    BY <1>5, <1>11, <2>1, <2>2 DEF Allows
  <2>7. Places(t) \subseteq M
    <3> SUFFICES ASSUME NEW i \in DOMAIN t PROVE <<t[i].id, t[i].key>> \in M
      BY DEF Places
    <3>1. <<rows[i].id, rows[i].key>> \in Places(rows)
      BY <2>5 DEF Places
    <3>2. Moved(<<rows[i].id, rows[i].key>>, from, delta) = <<t[i].id, t[i].key>>
      BY <2>4, <2>5 DEF Moved, ShiftedBy
    <3> QED BY <2>6, <3>1, <3>2
  <2>8. \A k \in DOMAIN t : t[k].batch = rows[k].batch
    BY <2>4, <2>5 DEF ShiftedBy
  <2>9. Goal(t)
    BY <1>10, <2>4, <2>5, <2>7, <2>8
  <2> QED BY <1>9, <2>9
<1>12. CASE o.op = "actor"
  <2> DEFINE E(r) == IF r.id \in o.ids /\ r.actor = NoActor /\ o.life \in {0, epoch}
                     THEN [r EXCEPT !.actor = o.actor] ELSE r
  <2>1. t = [i \in DOMAIN rows |-> E(rows[i])]
    BY <1>8, <1>9, <1>12
  <2>2. PICK c \in Actor \cup {NoActor} : c = o.actor
    BY <1>7, <1>12
  <2>3. \A r \in Row : /\ E(r) \in Row /\ E(r).id = r.id /\ E(r).key = r.key
                       /\ E(r).batch = r.batch /\ E(r).hash = r.hash
    BY <2>2 DEF Row
  <2> HIDE DEF E
  <2>4. PICK n \in Nat : n = Len(rows) /\ DOMAIN rows = 1..n
    BY <1>6, OrderedIs
  <2>5. \A i \in 1..n : rows[i] \in Row /\ t[i] = E(rows[i])
    BY <1>6, <2>1, <2>4, OrderedIs
  <2>6. t \in Seq(Row) /\ Len(t) = n /\ DOMAIN t = 1..n
    BY <2>1, <2>3, <2>4, <2>5
  <2>7. Alike(t, rows)
    BY <2>3, <2>4, <2>5, <2>6 DEF Alike
  <2>8. Ordered(t) /\ Places(t) = Places(rows)
    BY <1>6, <2>6, <2>7, AlikeIs
  <2>9. Places(rows) \subseteq M
    BY <1>5, <1>12 DEF Allows
  <2>10. \A k \in DOMAIN t : k \in DOMAIN rows /\ t[k].batch = rows[k].batch
    BY <2>7 DEF Alike
  <2>11. Goal(t)
    BY <1>10, <2>8, <2>9, <2>10
  <2> QED BY <1>9, <2>11
<1>13. CASE o.op = "write"
  <2>1. PICK r \in Row : r = o.row /\ r.batch \in {0, job.batch}
    BY <1>7, <1>13
  <2>2. t = save_canonical_turn(rows, r)
    BY <1>8, <1>9, <1>13, <2>1
  <2>3. Places(rows) \subseteq M /\ <<r.id, r.key>> \in M
        /\ \A p \in Places(rows) : p[2] = r.key => p[1] = r.id
    BY <1>5, <1>13, <2>1 DEF Allows
  <2>4. ~Collides(rows, r)
    <3> SUFFICES ASSUME NEW i \in DOMAIN rows, rows[i].key = r.key PROVE rows[i].id = r.id
      BY DEF Collides
    <3>1. PICK q : q = <<rows[i].id, rows[i].key>>
      OBVIOUS
    <3>2. q \in Places(rows) /\ q[1] = rows[i].id /\ q[2] = rows[i].key
      BY <3>1 DEF Places
    <3> QED BY <2>3, <3>2
  <2>5. Ordered(t) /\ \A k \in DOMAIN t : t[k] = r \/ \E i \in DOMAIN rows : t[k] = rows[i]
    BY <1>6, <2>2, <2>4, SaveIs
  <2>6. Places(t) \subseteq M
    BY <2>3, <2>5 DEF Places
  <2>7. \A k \in DOMAIN t : \/ \E i \in DOMAIN rows : t[k].batch = rows[i].batch
                            \/ t[k].batch \in {0, job.batch}
    BY <2>1, <2>5
  <2>8. Goal(t)
    BY <1>10, <2>5, <2>6, <2>7
  <2> QED BY <1>9, <2>8
<1> QED BY <1>7, <1>11, <1>12, <1>13

LEMMA ExecuteKeeps ==
  ASSUME KeyInv, Execute
  PROVE  KeyInv'
<1>1. /\ Ordered(rows')
      /\ Tail(job.todo) # <<>> => \E L : Runs(Places(rows'), Tail(job.todo), L)
  BY ExecuteRows
<1>2. /\ job' = [job EXCEPT !.todo = Tail(job.todo)]
      /\ pc' = IF Tail(job.todo) # <<>> THEN "write"
               ELSE IF ~job.wrote THEN "check"
               ELSE IF job.kind = "resend" THEN "anchors" ELSE "groups"
      /\ batches' = batches /\ turns' = turns /\ epoch' = epoch /\ pc = "write"
  BY DEF Execute
<1>3. job = [kind |-> job.kind, payload |-> job.payload, batch |-> job.batch,
             life |-> job.life, todo |-> job.todo, wrote |-> job.wrote, undo |-> job.undo]
  BY DEF KeyInv, Shape
<1>4. job' = [kind |-> job.kind, payload |-> job.payload, batch |-> job.batch,
             life |-> job.life, todo |-> Tail(job.todo), wrote |-> job.wrote, undo |-> job.undo]
  BY <1>2, <1>3
<1>5. job'.batch = job.batch /\ job'.todo = Tail(job.todo) /\ job'.undo = job.undo
  BY <1>4
<1>6. Tail(job.todo) \in Seq(Planned(job.batch))
  BY <1>2 DEF KeyInv, Shape, PlanRuns
<1>7. job' = [kind |-> job'.kind, payload |-> job'.payload, batch |-> job'.batch,
              life |-> job'.life, todo |-> job'.todo, wrote |-> job'.wrote, undo |-> job'.undo]
  BY <1>4
<1>8. pc' \in {"idle", "write", "groups", "anchors", "check"} /\ (pc' = "write" => Tail(job.todo) # <<>>)
  BY <1>2
<1>9. Shape'
  BY <1>1, <1>2, <1>5, <1>6, <1>7, <1>8 DEF KeyInv, Shape
<1>10. PlanRuns'
  BY <1>1, <1>5, <1>8 DEF PlanRuns
<1>11. UndoOrdered'
  BY <1>2, <1>5 DEF UndoOrdered, KeyInv
<1> QED BY <1>9, <1>10, <1>11 DEF KeyInv

\* Every other step keeps the rows, thins them out, or changes what keys and
\* plans do not depend on.
LEMMA StepKeepsKeys ==
  ASSUME KeyInv, [Next]_vars
  PROVE  KeyInv'
<1>0. /\ Ordered(rows) /\ rows \in Seq(Row) /\ batches \in Nat /\ turns \in Nat /\ epoch \in Nat
      /\ pc \in {"idle", "write", "groups", "anchors", "check"}
  BY DEF KeyInv, Shape, Ordered
<1>n. /\ NoJob.batch \in Nat /\ NoJob.todo \in Seq(Planned(NoJob.batch))
      /\ NoJob = [kind |-> NoJob.kind, payload |-> NoJob.payload, batch |-> NoJob.batch,
                  life |-> NoJob.life, todo |-> NoJob.todo, wrote |-> NoJob.wrote, undo |-> NoJob.undo]
  BY DEF NoJob
<1>1. ASSUME NEW p \in Payload, NEW a \in Actor \cup {NoActor}, ingest_batch(p, a)
      PROVE  KeyInv'
  BY <1>1, BatchKeeps
<1>2. ASSUME NEW p \in Pair, NEW a \in Actor \cup {NoActor}, ResendPair(p, a)
      PROVE  KeyInv'
  BY <1>2, ResendKeeps
<1>3. ASSUME NEW p \in Pair, NEW a \in Actor \cup {NoActor}, ingest_single(p, a)
      PROVE  KeyInv'
  BY <1>3, SingleKeeps
<1>4. CASE Execute
  BY <1>4, ExecuteKeeps
<1>5. CASE Regroup
  <2>1. Ordered(rows')
    BY <1>0, <1>5, RecomputeIs, AlikeIs DEF Regroup
  <2>2. /\ job' = job /\ turns' = turns /\ batches' = batches /\ epoch' = epoch
        /\ pc = "groups" /\ pc' = "anchors"
    BY <1>5 DEF Regroup, Advance
  <2> QED BY <2>1, <2>2 DEF KeyInv, Shape, PlanRuns, UndoOrdered
<1>6. CASE _refresh_persisted_anchors
  BY <1>6 DEF _refresh_persisted_anchors, Advance, KeyInv, Shape, PlanRuns, UndoOrdered
<1>7. CASE Finish
  <2>1. Ordered(rows')
    <3> DEFINE keep == {i \in DOMAIN rows : rows[i].batch # job.batch}
    <3>1. rows' = rows \/ rows' = Select(rows, keep)
      BY <1>7 DEF Finish
    <3>2. keep \in SUBSET DOMAIN rows
      OBVIOUS
    <3> HIDE DEF keep
    <3> QED BY <1>0, <3>1, <3>2, SelectIs
  <2>2. job' = NoJob /\ turns' = turns /\ batches' = batches /\ epoch' = epoch /\ pc' = "idle"
    BY <1>7 DEF Finish
  <2>3. Shape'
    BY <1>0, <1>n, <2>1, <2>2 DEF Shape
  <2>4. PlanRuns' /\ UndoOrdered'
    BY <2>2 DEF PlanRuns, UndoOrdered
  <2> QED BY <2>3, <2>4 DEF KeyInv
<1>8. CASE Crash
  <2>1. Ordered(rows')
    <3>1. CASE Transactional
      BY <1>8, <3>1 DEF Crash, KeyInv, UndoOrdered
    <3>2. CASE ~Transactional
      BY <1>0, <1>8, <3>2 DEF Crash
    <3> QED BY <3>1, <3>2
  <2>2. job' = NoJob /\ turns' = turns /\ batches' = batches /\ epoch' = epoch /\ pc' = "idle"
    BY <1>8 DEF Crash
  <2>3. Shape'
    BY <1>0, <1>n, <2>1, <2>2 DEF Shape
  <2>4. PlanRuns' /\ UndoOrdered'
    BY <2>2 DEF PlanRuns, UndoOrdered
  <2> QED BY <2>3, <2>4 DEF KeyInv
<1>9. CASE Resurrect
  BY <1>9 DEF Resurrect, jobVars, KeyInv, Shape, PlanRuns, UndoOrdered
<1>10. CASE Tag
  <2> DEFINE E(r) == [r EXCEPT !.tagged = TRUE]
  <2>1. PICK t : t = rows' /\ t = [i \in DOMAIN rows |-> E(rows[i])]
    BY <1>10 DEF Tag
  <2>2. \A r \in Row : /\ E(r) \in Row /\ E(r).id = r.id /\ E(r).key = r.key
                       /\ E(r).batch = r.batch /\ E(r).hash = r.hash
    BY DEF Row
  <2> HIDE DEF E
  <2>3. PICK n \in Nat : n = Len(rows) /\ DOMAIN rows = 1..n
    BY <1>0, OrderedIs
  <2>4. \A i \in 1..n : rows[i] \in Row /\ t[i] = E(rows[i])
    BY <1>0, <2>1, <2>3, OrderedIs
  <2>5. t \in Seq(Row) /\ Len(t) = n /\ DOMAIN t = 1..n
    BY <2>1, <2>2, <2>3, <2>4
  <2>6. Alike(t, rows)
    BY <2>2, <2>3, <2>4, <2>5 DEF Alike
  <2>7. Ordered(t) /\ Places(t) = Places(rows)
    BY <1>0, <2>5, <2>6, AlikeIs
  <2>8. /\ job' = job /\ turns' = turns /\ batches' = batches /\ epoch' = epoch /\ pc' = pc
    BY <1>10 DEF Tag, jobVars
  <2>9. Shape'
    BY <2>1, <2>7, <2>8 DEF KeyInv, Shape
  <2>10. PlanRuns'
    BY <2>1, <2>7, <2>8 DEF KeyInv, PlanRuns
  <2>11. UndoOrdered'
    BY <2>8 DEF KeyInv, UndoOrdered
  <2> QED BY <2>9, <2>10, <2>11 DEF KeyInv
<1>11. CASE UNCHANGED vars
  BY <1>11 DEF vars, jobVars, KeyInv, Shape, PlanRuns, UndoOrdered
<1> QED BY <1>1, <1>2, <1>3, <1>4, <1>5, <1>6, <1>7, <1>8, <1>9, <1>10, <1>11 DEF Next

LEMMA KeysStart ==
  ASSUME Init
  PROVE  KeyInv
<1>1. Ordered(<<>>)
  BY DEF Ordered
<1>2. /\ NoJob.batch = 0 /\ NoJob.todo = <<>>
      /\ NoJob = [kind |-> NoJob.kind, payload |-> NoJob.payload, batch |-> NoJob.batch,
                  life |-> NoJob.life, todo |-> NoJob.todo, wrote |-> NoJob.wrote, undo |-> NoJob.undo]
  BY DEF NoJob
<1> QED BY <1>1, <1>2 DEF Init, KeyInv, Shape, PlanRuns, UndoOrdered

LEMMA KeyInvAlways == Spec => []KeyInv
<1>1. Init => KeyInv
  BY KeysStart
<1>2. KeyInv /\ [Next]_vars => KeyInv'
  BY StepKeepsKeys
<1> QED BY <1>1, <1>2, PTL DEF Spec

\* KeysNeverCollide holds for any payloads, window sizes and spacings, however
\* often a gap between the same two rows is filled and rebalanced, and wherever
\* a call dies: keys stay strictly increasing and no write of
\* _ingest_prepared_turns_locked is refused by UNIQUE (conversation_id, sort_key).
THEOREM KeysAreUnique == Spec => []KeysNeverCollide
<1>1. KeyInv => KeysNeverCollide
  <2> SUFFICES ASSUME KeyInv PROVE KeysNeverCollide
    OBVIOUS
  <2>1. \A i, j \in DOMAIN rows : i < j => rows[i].key < rows[j].key
    BY DEF KeyInv, Shape, Ordered
  <2>2. ASSUME pc = "write", Head(job.todo).op = "write"
        PROVE  ~Collides(rows, Head(job.todo).row)
    <3>1. PICK ops : ops = job.todo /\ ops \in Seq(Planned(job.batch)) /\ ops # <<>>
      BY <2>2 DEF KeyInv, Shape, PlanRuns
    <3>2. PICK L : Runs(Places(rows), ops, L)
      BY <2>2, <3>1 DEF KeyInv, PlanRuns
    <3>3. PICK M : Allows(Head(ops), Places(rows), M)
      BY <3>1, <3>2, RunsFirst
    <3>4. PICK r : r = Head(job.todo).row
      OBVIOUS
    <3>5. \A p \in Places(rows) : p[2] = r.key => p[1] = r.id
      BY <2>2, <3>1, <3>3, <3>4 DEF Allows
    <3> SUFFICES ASSUME NEW i \in DOMAIN rows, rows[i].key = r.key PROVE rows[i].id = r.id
      BY <3>4 DEF Collides
    <3>6. PICK q : q = <<rows[i].id, rows[i].key>>
      OBVIOUS
    <3>7. q \in Places(rows) /\ q[1] = rows[i].id /\ q[2] = rows[i].key
      BY <3>6 DEF Places
    <3> QED BY <3>5, <3>7
  <2> QED BY <2>1, <2>2 DEF KeysNeverCollide
<1> QED BY <1>1, KeyInvAlways, PTL

-----------------------------------------------------------------------------
(* Batches that a resurrection overtook.                                   *)

LEMMA BeginRaces ==
  ASSUME KeyInv, RaceInv, pc = "idle", NEW kind, NEW p, NEW s, Among(s, rows), NEW ops, NEW next,
         Begin(kind, p, s, ops, next), next # "idle"
  PROVE  RaceInv'
<1>1. batches \in Nat /\ epoch \in Nat
  BY DEF KeyInv, Shape
<1>2. /\ rows' = s /\ batches' = batches + 1 /\ pc' = next /\ epoch' = epoch /\ raced' = raced
      /\ job'.batch = batches + 1 /\ job'.life = epoch
  BY DEF Begin
<1>3. raced \subseteq 1..(batches + 1) /\ batches + 1 \notin raced /\ batches + 1 # 0
  BY <1>1 DEF RaceInv
<1>4. \A i \in DOMAIN s : s[i].batch \notin raced
  BY DEF RaceInv, Among
<1> QED BY <1>1, <1>2, <1>3, <1>4 DEF RaceInv

LEMMA StepKeepsRaces ==
  ASSUME KeyInv, RaceInv, [Next]_vars
  PROVE  RaceInv'
<1>0. Ordered(rows) /\ batches \in Nat /\ epoch \in Nat
  BY DEF KeyInv, Shape
<1>l. Among(Loaded(rows), rows)
  BY <1>0, LoadedIs DEF Among, Alike
<1>n. NoJob.kind = "none"
  BY DEF NoJob
<1>1. ASSUME NEW p \in Payload, NEW a \in Actor \cup {NoActor}, ingest_batch(p, a)
      PROVE  RaceInv'
  <2>1. PICK ops : pc = "idle" /\ Begin("batch", p, Loaded(rows), ops, Writes(ops))
    BY <1>1 DEF ingest_batch
  <2>2. Writes(ops) # "idle"
    BY DEF Writes
  <2> QED BY <1>l, <2>1, <2>2, BeginRaces
<1>2. ASSUME NEW p \in Pair, NEW a \in Actor \cup {NoActor}, ResendPair(p, a)
      PROVE  RaceInv'
  <2>1. PICK ops : pc = "idle" /\ Begin("resend", p, Loaded(rows), ops, "write")
    BY <1>2 DEF ResendPair
  <2> QED BY <1>l, <2>1, BeginRaces
<1>3. ASSUME NEW p \in Pair, NEW a \in Actor \cup {NoActor}, ingest_single(p, a)
      PROVE  RaceInv'
  <2>1. PICK ops : pc = "idle" /\ Begin("single", p, Loaded(rows), ops, Writes(ops))
    BY <1>3 DEF ingest_single
  <2>2. Writes(ops) # "idle"
    BY DEF Writes
  <2> QED BY <1>l, <2>1, <2>2, BeginRaces
<1>4. CASE Execute
  <2>1. \A k \in DOMAIN rows' : \/ \E i \in DOMAIN rows : rows'[k].batch = rows[i].batch
                                \/ rows'[k].batch \in {0, job.batch}
    BY <1>4, ExecuteRows
  <2>2. /\ job' = [job EXCEPT !.todo = Tail(job.todo)] /\ pc = "write" /\ pc' # "idle"
        /\ batches' = batches /\ epoch' = epoch /\ raced' = raced
    BY <1>4 DEF Execute, ghosts
  <2>3. job = [kind |-> job.kind, payload |-> job.payload, batch |-> job.batch,
               life |-> job.life, todo |-> job.todo, wrote |-> job.wrote, undo |-> job.undo]
    BY DEF KeyInv, Shape
  <2>4. job'.batch = job.batch /\ job'.life = job.life /\ job'.kind = job.kind
    BY <2>2, <2>3
  <2>5. 0 \notin raced
    BY <1>0 DEF RaceInv
  <2>6. \A k \in DOMAIN rows' : rows'[k].batch \in raced => rows'[k].batch = job.batch
    BY <2>1, <2>5 DEF RaceInv
  <2> QED BY <2>2, <2>4, <2>6 DEF RaceInv
<1>5. CASE Regroup
  <2>1. Among(rows', rows)
    BY <1>0, <1>5, RecomputeIs DEF Regroup, Among, Alike
  <2>2. /\ job' = job /\ batches' = batches /\ epoch' = epoch /\ raced' = raced
        /\ pc = "groups" /\ pc' = "anchors"
    BY <1>5 DEF Regroup, Advance, ghosts
  <2> QED BY <2>1, <2>2 DEF RaceInv, Among
<1>6. CASE _refresh_persisted_anchors
  BY <1>6 DEF _refresh_persisted_anchors, Advance, ghosts, RaceInv
<1>7. CASE Finish
  <2> DEFINE keep == {i \in DOMAIN rows : rows[i].batch # job.batch}
  <2>1. /\ rows' = IF job.kind = "batch" /\ job.life # epoch THEN Select(rows, keep) ELSE rows
        /\ job' = NoJob /\ batches' = batches /\ epoch' = epoch /\ raced' = raced /\ pc' = "idle"
        /\ pc = "check"
    BY <1>7 DEF Finish
  <2>2. keep \in SUBSET DOMAIN rows
    OBVIOUS
  <2>3. \A k \in DOMAIN Select(rows, keep) : \E i \in keep : Select(rows, keep)[k] = rows[i]
    <3> HIDE DEF keep
    <3> QED BY <1>0, <2>2, SelectIs
  <2>4. \A k \in DOMAIN rows' : rows'[k].batch \notin raced
    <3>1. CASE job.batch \in raced
      <4>1. job.kind = "batch" /\ job.life # epoch
        BY <1>0, <2>1, <3>1 DEF RaceInv
      <4> QED BY <2>1, <2>3, <4>1 DEF RaceInv
    <3>2. CASE job.batch \notin raced
      <4>1. \A i \in DOMAIN rows : rows[i].batch \notin raced
        BY <3>2 DEF RaceInv
      <4> QED BY <2>1, <2>3, <4>1
    <3> QED BY <3>1, <3>2
  <2> QED BY <1>n, <2>1, <2>4 DEF RaceInv
<1>8. CASE Crash
  <2>1. /\ job' = NoJob /\ batches' = batches /\ epoch' = epoch /\ pc' = "idle"
        /\ raced' = raced \ {job.batch}
    BY <1>8 DEF Crash
  <2>2. \A k \in DOMAIN rows' : rows'[k].batch \notin raced'
    <3>1. CASE Transactional
      BY <2>1, <3>1 DEF RaceInv
    <3>2. CASE ~Transactional
      <4>1. rows' = rows
        BY <1>8, <3>2 DEF Crash
      <4> QED BY <2>1, <4>1 DEF RaceInv
    <3> QED BY <3>1, <3>2
  <2> QED BY <1>n, <2>1, <2>2 DEF RaceInv
<1>9. CASE Resurrect
  <2>1. /\ rows' = rows /\ job' = job /\ pc' = pc /\ batches' = batches /\ epoch' = epoch + 1
        /\ raced' = IF job.kind = "batch" THEN raced \cup {job.batch} ELSE raced
        /\ Transactional => pc = "idle"
    BY <1>9 DEF Resurrect, jobVars
  <2>2. CASE job.kind = "batch"
    <3>1. pc # "idle" /\ ~Transactional
      BY <2>1, <2>2 DEF RaceInv
    <3>2. job.batch = batches /\ job.batch >= 1 /\ job.life \in Nat /\ job.life < epoch + 1
      <4>1. job.batch = batches /\ job.life \in Nat /\ job.life <= epoch
        BY <3>1 DEF RaceInv
      <4>2. batches # 0
        BY <1>0, <2>2, <3>1 DEF RaceInv
      <4> QED BY <1>0, <4>1, <4>2
    <3>3. raced' = raced \cup {job.batch} /\ raced' \subseteq 1..batches
      BY <1>0, <2>1, <2>2, <3>2 DEF RaceInv
    <3> QED BY <1>0, <2>1, <2>2, <3>1, <3>2, <3>3 DEF RaceInv
  <2>3. CASE job.kind # "batch"
    <3>1. raced' = raced
      BY <2>1, <2>3
    <3>2. pc # "idle" => job.life <= epoch + 1
      BY <1>0 DEF RaceInv
    <3> QED BY <1>0, <2>1, <2>3, <3>1, <3>2 DEF RaceInv
  <2> QED BY <2>2, <2>3
<1>10. CASE Tag
  <2> DEFINE E(r) == [r EXCEPT !.tagged = TRUE]
  <2>1. rows' = [i \in DOMAIN rows |-> E(rows[i])]
    BY <1>10 DEF Tag
  <2>2. \A r \in Row : E(r).batch = r.batch
    BY DEF Row
  <2>3. \A i \in DOMAIN rows : rows[i] \in Row
    BY <1>0, OrderedIs
  <2> HIDE DEF E
  <2>4. DOMAIN rows' = DOMAIN rows /\ \A i \in DOMAIN rows : rows'[i].batch = rows[i].batch
    BY <2>1, <2>2, <2>3
  <2>5. job' = job /\ batches' = batches /\ epoch' = epoch /\ pc' = pc /\ raced' = raced
    BY <1>10 DEF Tag, jobVars, ghosts
  <2> QED BY <2>4, <2>5 DEF RaceInv
<1>11. CASE UNCHANGED vars
  BY <1>11 DEF vars, jobVars, ghosts, RaceInv
<1> QED BY <1>1, <1>2, <1>3, <1>4, <1>5, <1>6, <1>7, <1>8, <1>9, <1>10, <1>11 DEF Next

\* RacedBatchGone holds on both stores, for any payloads and any number of
\* resurrections: when no call is under way, no stored row is of a batch that
\* a resurrection overtook while ingest_batch ran (its worker not having died).
THEOREM RacedBatchesAreGone == Spec => []RacedBatchGone
<1>1. Init => RaceInv
  BY DEF Init, RaceInv, NoJob
<1>2. KeyInv /\ RaceInv /\ [Next]_vars => RaceInv'
  BY StepKeepsRaces
<1>3. RaceInv => RacedBatchGone
  BY DEF RaceInv, RacedBatchGone
<1> QED BY <1>1, <1>2, <1>3, KeyInvAlways, PTL DEF Spec

-----------------------------------------------------------------------------
(* Groups are pairs.                                                       *)

LEMMA ScanIsOk ==
  ASSUME NEW s, NEW n \in Nat, NEW g \in [0..n -> Scan], Scans(s, g, n)
  PROVE  \A i \in 0..n : ScanOk(s, g[i], i)
<1> DEFINE T == {i \in 0..n : ScanOk(s, g[i], i)}
<1>1. 0 \in T
  BY DEF Scans, NoScan, ScanOk
<1>2. ASSUME NEW i \in 0..n, i < n, i \in T PROVE i + 1 \in T
  <2>1. i + 1 \in 1..n /\ (i + 1) - 1 = i /\ ScanOk(s, g[i], i) /\ i + 1 >= 1
    BY <1>2
  <2>2. PICK x : x = g[i]
    OBVIOUS
  <2>3. PICK y : y = g[i + 1]
    OBVIOUS
  <2>4. y = NextScan(s, i + 1, x)
    BY <2>1, <2>2, <2>3 DEF Scans
  <2>5. x.current \in Int /\ x.current >= -1 /\ x.pending \in {-1, x.current}
    BY <2>1, <2>2 DEF ScanOk
  <2>6. ScanOk(s, y, i + 1)
    <3>1. CASE s[i + 1].hash \in UserMessage
      <4>1. y.current = x.current + 1 /\ y.pending = x.current + 1
        BY <2>4, <3>1 DEF NextScan
      <4> QED BY <2>1, <2>5, <3>1, <4>1 DEF ScanOk
    <3>2. CASE s[i + 1].hash \notin UserMessage /\ x.pending >= 0
      <4>1. y.current = x.current /\ y.pending = -1 /\ x.current >= 0
        BY <2>4, <2>5, <3>2 DEF NextScan
      <4> QED BY <2>1, <2>5, <3>2, <4>1 DEF ScanOk
    <3>3. CASE s[i + 1].hash \notin UserMessage /\ ~ (x.pending >= 0)
      <4>1. y.current = x.current + 1 /\ y.pending = -1
        BY <2>4, <3>3 DEF NextScan
      <4> QED BY <2>1, <2>5, <3>3, <4>1 DEF ScanOk
    <3> QED BY <3>1, <3>2, <3>3
  <2> QED BY <2>1, <2>3, <2>6
<1>3. 0..n \subseteq T
  <2> HIDE DEF T
  <2> QED BY <1>1, <1>2, InductionUpTo
<1> QED BY <1>3

\* The number goes up at every row but an assistant row after its user row.
LEMMA ScanRises ==
  ASSUME NEW s, NEW n \in Nat, NEW g \in [0..n -> Scan], Scans(s, g, n), NEW i \in 1..n
  PROVE  /\ g[i].current \in Int /\ g[i - 1].current \in Int
         /\ g[i - 1].current <= g[i].current
         /\ g[i - 1].current = g[i].current =>
              i - 1 >= 1 /\ s[i - 1].hash \in UserMessage /\ s[i].hash \notin UserMessage
         /\ GroupAt(s, i, g) = g[i].current
<1>1. PICK j \in 0..n : j = i - 1
  OBVIOUS
<1>2. PICK x : x = g[j]
  OBVIOUS
<1>3. PICK y : y = g[i]
  OBVIOUS
<1>4. y = NextScan(s, i, x) /\ ScanOk(s, x, j) /\ ScanOk(s, y, i)
  <2>1. y = NextScan(s, i, x)
    BY <1>1, <1>2, <1>3 DEF Scans
  <2>2. \A k \in 0..n : ScanOk(s, g[k], k)
    BY ScanIsOk
  <2>3. i \in 0..n
    OBVIOUS
  <2>4. ScanOk(s, g[j], j) /\ ScanOk(s, g[i], i)
    BY <2>2, <2>3
  <2> QED BY <1>2, <1>3, <2>1, <2>4
<1>5. x.current \in Int /\ y.current \in Int /\ x.pending \in {-1, x.current}
      /\ (x.pending >= 0 <=> j >= 1 /\ s[j].hash \in UserMessage)
  BY <1>4 DEF ScanOk
<1>6. CASE s[i].hash \in UserMessage
  <2>1. y.current = x.current + 1
    BY <1>4, <1>6 DEF NextScan
  <2> QED BY <1>1, <1>2, <1>3, <1>5, <1>6, <2>1 DEF GroupAt
<1>7. CASE s[i].hash \notin UserMessage /\ x.pending >= 0
  <2>1. y.current = x.current /\ x.pending = x.current
    BY <1>4, <1>5, <1>7 DEF NextScan
  <2> QED BY <1>1, <1>2, <1>3, <1>5, <1>7, <2>1 DEF GroupAt
<1>8. CASE s[i].hash \notin UserMessage /\ ~ (x.pending >= 0)
  <2>1. y.current = x.current + 1
    BY <1>4, <1>8 DEF NextScan
  <2> QED BY <1>1, <1>2, <1>3, <1>5, <1>8, <2>1 DEF GroupAt
<1> QED BY <1>6, <1>7, <1>8

\* recompute_canonical_turn_groups pairs the rows.
LEMMA RecomputePairs ==
  ASSUME NEW s, Ordered(s)
  PROVE  Paired(recompute_canonical_turn_groups(s))
<1>1. PICK n \in Nat : n = Len(s) /\ DOMAIN s = 1..n
  BY OrderedIs
<1>2. PICK g \in [0..n -> Scan] :
         /\ Scans(s, g, n)
         /\ recompute_canonical_turn_groups(s)
              = [i \in DOMAIN s |-> [s[i] EXCEPT !.group = GroupAt(s, i, g)]]
  BY <1>1, RecomputeScans
<1> DEFINE t == recompute_canonical_turn_groups(s)
           c == [i \in 0..n |-> g[i].current]
<1>3. /\ DOMAIN t = 1..n
      /\ \A i \in 1..n : t[i].group = c[i] /\ t[i].hash = s[i].hash
  <2>1. t = [i \in 1..n |-> [s[i] EXCEPT !.group = GroupAt(s, i, g)]]
    BY <1>1, <1>2
  <2>2. \A i \in 1..n : GroupAt(s, i, g) = c[i]
    <3> TAKE i \in 1..n
    <3>1. GroupAt(s, i, g) = g[i].current
      BY <1>2, ScanRises
    <3> QED BY <3>1
  <2>4. \A i \in 1..n : s[i] \in Row
    BY <1>1, OrderedIs
  <2>5. \A i \in 1..n : t[i].group = GroupAt(s, i, g)
    <3> TAKE i \in 1..n
    <3>1. s[i] \in Row /\ t[i] = [s[i] EXCEPT !.group = GroupAt(s, i, g)]
      BY <2>1, <2>4
    <3> HIDE DEF t
    <3> QED BY <3>1 DEF Row
  <2>6. Alike(t, s)
    BY RecomputeIs
  <2> HIDE DEF t, c
  <2> QED BY <1>1, <2>1, <2>2, <2>5, <2>6 DEF Alike
<1>4. \A i \in 1..n : /\ c[i] \in Nat /\ c[i - 1] \in Int /\ c[i - 1] <= c[i]
                      /\ c[i - 1] = c[i] => i - 1 >= 1 /\ s[i - 1].hash \in UserMessage
                                            /\ s[i].hash \notin UserMessage
  <2> TAKE i \in 1..n
  <2>1. ScanOk(s, g[i], i) /\ i >= 1
    BY <1>2, ScanIsOk
  <2>2. g[i].current \in Int /\ g[i].current >= 0
    BY <2>1 DEF ScanOk
  <2>3. c[i] = g[i].current /\ c[i - 1] = g[i - 1].current
    OBVIOUS
  <2> HIDE DEF c
  <2> QED BY <1>2, <2>2, <2>3, ScanRises
<1> HIDE DEF t, c
<1>5. \A j \in 0..n : \A i \in 0..j : 1 <= i => c[i] <= c[j]
  <2> DEFINE T == {j \in 0..n : \A i \in 0..j : 1 <= i => c[i] <= c[j]}
  <2>1. 0 \in T
    OBVIOUS
  <2>2. ASSUME NEW j \in 0..n, j < n, j \in T PROVE j + 1 \in T
    <3>1. j + 1 \in 1..n /\ (j + 1) - 1 = j
      BY <2>2
    <3>2. c[j + 1] \in Nat /\ c[j] \in Int /\ c[j] <= c[j + 1]
      BY <1>4, <3>1
    <3>3. ASSUME NEW i \in 0..(j + 1), 1 <= i PROVE c[i] <= c[j + 1]
      <4>1. CASE i = j + 1
        BY <3>2, <4>1
      <4>2. CASE i # j + 1
        <5>1. i \in 0..j /\ i \in 1..n
          BY <2>2, <3>3, <4>2
        <5>2. c[i] <= c[j] /\ c[i] \in Nat
          BY <1>4, <2>2, <3>3, <5>1
        <5> QED BY <3>2, <5>2
      <4> QED BY <4>1, <4>2
    <3> QED BY <3>1, <3>3
  <2>3. 0..n \subseteq T
    <3> HIDE DEF T
    <3> QED BY <2>1, <2>2, InductionUpTo
  <2> QED BY <2>3
<1>6. ASSUME NEW i \in 1..n, NEW j \in 1..n, i < j, c[i] = c[j]
      PROVE  j = i + 1 /\ s[i].hash \in UserMessage /\ s[j].hash \notin UserMessage
  <2>1. i + 1 \in 1..n /\ (i + 1) - 1 = i /\ i + 1 \in 0..j
    BY <1>6
  <2>2. c[i] = c[i + 1]
    <3>1. c[i + 1] <= c[j] /\ c[i] <= c[i + 1] /\ c[i] \in Nat /\ c[i + 1] \in Nat
      BY <1>4, <1>5, <2>1
    <3> QED BY <1>6, <3>1
  <2>3. s[i].hash \in UserMessage /\ s[i + 1].hash \notin UserMessage
    BY <1>4, <2>1, <2>2
  <2>4. j = i + 1
    <3> SUFFICES ASSUME j # i + 1 PROVE FALSE
      OBVIOUS
    <3>1. i + 2 \in 1..n /\ (i + 2) - 1 = i + 1 /\ i + 2 \in 0..j
      BY <1>6
    <3>2. c[i + 2] <= c[j] /\ c[i + 1] <= c[i + 2] /\ c[i + 1] \in Nat /\ c[i + 2] \in Nat
      BY <1>4, <1>5, <2>1, <3>1
    <3>3. c[i + 1] = c[i + 2]
      BY <1>6, <2>2, <3>2
    <3>4. s[i + 1].hash \in UserMessage
      BY <1>4, <3>1, <3>3
    <3> QED BY <2>3, <3>4
  <2> QED BY <2>3, <2>4
<1>7. Paired(t)
  BY <1>3, <1>4, <1>6 DEF Paired
<1> QED BY <1>7 DEF t

\* Rows drawn from paired rows are paired: nothing can come between a pair.
LEMMA DrawnPairs ==
  ASSUME NEW s, Ordered(s), Paired(s), NEW t, Ordered(t), Drawn(t, s)
  PROVE  Paired(t)
<1>1. PICK n \in Nat : n = Len(s) /\ DOMAIN s = 1..n
  BY OrderedIs
<1>2. PICK m \in Nat : m = Len(t) /\ DOMAIN t = 1..m
  BY OrderedIs
<1>3. /\ \A i \in 1..n : s[i].key \in Int /\ \A j \in 1..n : i < j => s[i].key < s[j].key
      /\ \A i \in 1..m : t[i].key \in Int /\ \A j \in 1..m : i < j => t[i].key < t[j].key
  BY <1>1, <1>2, OrderedIs DEF Ordered
<1>4. \A k \in 1..m : \E x \in 1..n : s[x].key = t[k].key /\ s[x].group = t[k].group
                                      /\ s[x].hash = t[k].hash
  BY <1>1, <1>2 DEF Drawn, From
<1>5. \A k \in DOMAIN t : t[k].group \in Nat
  BY <1>1, <1>2, <1>4 DEF Paired
<1>6. ASSUME NEW i \in 1..m, NEW j \in 1..m, i < j, t[i].group = t[j].group
      PROVE  j = i + 1 /\ t[i].hash \in UserMessage /\ t[j].hash \notin UserMessage
  <2>1. PICK x \in 1..n : s[x].key = t[i].key /\ s[x].group = t[i].group /\ s[x].hash = t[i].hash
    BY <1>4
  <2>2. PICK y \in 1..n : s[y].key = t[j].key /\ s[y].group = t[j].group /\ s[y].hash = t[j].hash
    BY <1>4
  <2>3. s[x].key < s[y].key
    BY <1>3, <1>6, <2>1, <2>2
  <2>4. x < y
    <3>1. x # y /\ ~ (y < x)
      BY <1>3, <2>3
    <3> QED BY <3>1
  <2>5. y = x + 1 /\ s[x].hash \in UserMessage /\ s[y].hash \notin UserMessage
    BY <1>1, <1>6, <2>1, <2>2, <2>4 DEF Paired
  <2>6. j = i + 1
    <3> SUFFICES ASSUME j # i + 1 PROVE FALSE
      OBVIOUS
    <3>1. i + 1 \in 1..m /\ i < i + 1 /\ i + 1 < j
      BY <1>6
    <3>2. t[i].key < t[i + 1].key /\ t[i + 1].key < t[j].key
      BY <1>3, <3>1
    <3>3. PICK z \in 1..n : s[z].key = t[i + 1].key
      BY <1>4, <3>1
    <3>4. s[x].key < s[z].key /\ s[z].key < s[y].key
      BY <2>1, <2>2, <3>2, <3>3
    <3>5. x < z /\ z < y
      <4>1. x # z /\ ~ (z < x) /\ z # y /\ ~ (y < z)
        BY <1>3, <3>4
      <4> QED BY <4>1
    <3> QED BY <2>5, <3>5
  <2> QED BY <2>1, <2>2, <2>5, <2>6
<1> QED BY <1>2, <1>5, <1>6 DEF Paired

\* Pairs depend on positions, groups and contents alone.
LEMMA SamePairs ==
  ASSUME NEW s, Paired(s), NEW t, DOMAIN t = DOMAIN s,
         \A i \in DOMAIN s : t[i].group = s[i].group /\ t[i].hash = s[i].hash
  PROVE  Paired(t)
BY DEF Paired

\* Paired groups are the logical turns of partition_canonical_rows_into_logical_turns.
LEMMA PairsPartition ==
  ASSUME NEW s, Ordered(s), Paired(s)
  PROVE  partition_canonical_rows_into_logical_turns(s)
           = {{i \in DOMAIN s : s[i].group = s[j].group} : j \in DOMAIN s}
<1>1. PICK n \in Nat : n = Len(s) /\ DOMAIN s = 1..n
  BY OrderedIs
<1> DEFINE Joins(i) == /\ i \in 2..Len(s)
                       /\ s[i].hash \notin UserMessage /\ s[i - 1].hash \in UserMessage
                       /\ \/ s[i].group < 0 \/ s[i - 1].group < 0
                          \/ s[i].group = s[i - 1].group
           Block(i) == {j \in {i, i + 1} : j = i \/ Joins(j)}
           Class(j) == {i \in DOMAIN s : s[i].group = s[j].group}
<1>2. partition_canonical_rows_into_logical_turns(s)
        = {Block(i) : i \in {k \in DOMAIN s : ~Joins(k)}}
  BY DEF partition_canonical_rows_into_logical_turns
<1>3. /\ \A i \in 1..n : s[i].group \in Nat
      /\ \A i, j \in 1..n : i < j /\ s[i].group = s[j].group =>
           j = i + 1 /\ s[i].hash \in UserMessage /\ s[j].hash \notin UserMessage
  BY <1>1 DEF Paired
<1>4. \A i \in 1..n : Joins(i) <=> i - 1 \in 1..n /\ s[i - 1].group = s[i].group
  <2> TAKE i \in 1..n
  <2>1. ASSUME Joins(i) PROVE i - 1 \in 1..n /\ s[i - 1].group = s[i].group
    <3>1. i - 1 \in 1..n
      BY <1>1, <2>1
    <3>2. s[i].group \in Nat /\ s[i - 1].group \in Nat
      BY <1>3, <3>1
    <3> QED BY <2>1, <3>1, <3>2
  <2>2. ASSUME i - 1 \in 1..n, s[i - 1].group = s[i].group PROVE Joins(i)
    <3>1. i \in 2..Len(s) /\ i - 1 < i
      BY <1>1, <2>2
    <3>2. s[i - 1].hash \in UserMessage /\ s[i].hash \notin UserMessage
      BY <1>3, <2>2, <3>1
    <3> QED BY <2>2, <3>1, <3>2
  <2> QED BY <2>1, <2>2
<1>5. \A i : Joins(i) => i \in 2..n
  BY <1>1
<1> HIDE DEF Joins
<1>6. ASSUME NEW i \in 1..n, ~Joins(i) PROVE Block(i) = Class(i)
  <2>1. ASSUME NEW k \in Block(i) PROVE k \in Class(i)
    <3>1. CASE k = i
      BY <1>1, <3>1
    <3>2. CASE k = i + 1 /\ Joins(i + 1)
      <4>1. i + 1 \in 1..n /\ (i + 1) - 1 = i
        BY <1>5, <3>2
      <4>2. s[i].group = s[i + 1].group
        BY <1>4, <3>2, <4>1
      <4> QED BY <1>1, <3>2, <4>1, <4>2
    <3> QED BY <2>1, <3>1, <3>2
  <2>2. ASSUME NEW k \in Class(i) PROVE k \in Block(i)
    <3>0. k \in 1..n /\ s[k].group = s[i].group
      BY <1>1
    <3>1. CASE k = i
      BY <3>1
    <3>2. CASE k < i
      <4>1. i = k + 1
        BY <1>3, <3>0, <3>2
      <4>2. i - 1 \in 1..n /\ s[i - 1].group = s[i].group
        BY <3>0, <4>1
      <4> QED BY <1>4, <1>6, <4>2
    <3>3. CASE i < k
      <4>1. k = i + 1
        BY <1>3, <3>0, <3>3
      <4>2. k - 1 = i /\ k - 1 \in 1..n /\ s[k - 1].group = s[k].group
        BY <3>0, <4>1
      <4>3. Joins(k)
        BY <1>4, <3>0, <4>2
      <4> QED BY <4>1, <4>3
    <3> QED BY <3>0, <3>1, <3>2, <3>3
  <2> HIDE DEF Block, Class
  <2> QED BY <2>1, <2>2
<1>7. ASSUME NEW j \in 1..n PROVE \E i \in 1..n : ~Joins(i) /\ Block(i) = Class(j)
  <2>1. CASE ~Joins(j)
    BY <1>6, <2>1
  <2>2. CASE Joins(j)
    <3>1. j - 1 \in 1..n /\ s[j - 1].group = s[j].group /\ j - 1 < j
      BY <1>4, <2>2
    <3>2. ~Joins(j - 1)
      <4> SUFFICES ASSUME Joins(j - 1) PROVE FALSE
        OBVIOUS
      <4>1. (j - 1) - 1 \in 1..n /\ s[(j - 1) - 1].group = s[j - 1].group
        BY <1>4, <3>1
      <4>2. j = ((j - 1) - 1) + 1
        BY <1>3, <3>1, <4>1, (j - 1) - 1 < j
      <4> QED BY <4>2
    <3>3. Class(j - 1) = Class(j)
      BY <3>1
    <3>4. Block(j - 1) = Class(j - 1)
      BY <1>6, <3>1, <3>2
    <3> HIDE DEF Block, Class
    <3> QED BY <3>1, <3>2, <3>3, <3>4
  <2> QED BY <2>1, <2>2
<1> HIDE DEF Block, Class
<1>8. {Block(i) : i \in {k \in DOMAIN s : ~Joins(k)}} = {Class(j) : j \in DOMAIN s}
  <2>1. ASSUME NEW B \in {Block(i) : i \in {k \in DOMAIN s : ~Joins(k)}}
        PROVE  B \in {Class(j) : j \in DOMAIN s}
    BY <1>1, <1>6
  <2>2. ASSUME NEW C \in {Class(j) : j \in DOMAIN s}
        PROVE  C \in {Block(i) : i \in {k \in DOMAIN s : ~Joins(k)}}
    BY <1>1, <1>7
  <2> QED BY <2>1, <2>2
<1> QED BY <1>2, <1>8 DEF Class

LEMMA LoadedPairs ==
  ASSUME NEW s, Ordered(s), Paired(s)
  PROVE  Paired(Loaded(s))
<1>1. Loaded(s) = recompute_canonical_turn_groups(s) \/ Loaded(s) = s
  BY DEF Loaded
<1> QED BY <1>1, RecomputePairs

\* A shift or an upgrade of actors leaves groups alone; a row that is written
\* is the planned one.
LEMMA ExecuteGroups ==
  ASSUME KeyInv, Execute, NEW o, o = Head(job.todo)
  PROVE  /\ o.op # "write" =>
              /\ DOMAIN rows' = DOMAIN rows
              /\ \A i \in DOMAIN rows : rows'[i].group = rows[i].group /\ rows'[i].hash = rows[i].hash
         /\ o.op = "write" =>
              \A k \in DOMAIN rows' : rows'[k] = o.row \/ \E i \in DOMAIN rows : rows'[k] = rows[i]
<1>2. PICK ops : ops = job.todo /\ ops \in Seq(Planned(job.batch)) /\ ops # <<>>
  BY DEF KeyInv, Shape, PlanRuns, Execute
<1>3. o \in Planned(job.batch)
  BY <1>2
<1>4. PICK L : Runs(Places(rows), ops, L)
  BY <1>2 DEF KeyInv, PlanRuns, Execute
<1>6. Ordered(rows)
  BY DEF KeyInv, Shape
<1>7. /\ o.op \in {"write", "shift", "actor"}
      /\ o.op = "write" => o.row \in Row /\ o.row.batch \in {0, job.batch}
      /\ o.op = "shift" => o.from \in Int /\ o.delta \in Nat
      /\ o.op = "actor" => o.actor \in Actor \cup {NoActor}
  BY <1>3, OpIs
<1>8. /\ o.op = "shift" => rows' = shift_canonical_turn_sort_keys(rows, o.from, o.delta)
      /\ o.op = "actor" => rows' = [i \in DOMAIN rows |->
                               IF /\ rows[i].id \in o.ids
                                  /\ rows[i].actor = NoActor
                                  /\ o.life \in {0, epoch}
                               THEN [rows[i] EXCEPT !.actor = o.actor]
                               ELSE rows[i]]
      /\ o.op = "write" => rows' = save_canonical_turn(rows, o.row) /\ ~Collides(rows, o.row)
  BY <1>7 DEF Execute
<1>9. PICK t : t = rows'
  OBVIOUS
<1>11. CASE o.op = "shift"
  <2>1. PICK from \in Int : from = o.from
    BY <1>7, <1>11
  <2>2. PICK delta \in Nat : delta = o.delta
    BY <1>7, <1>11
  <2>3. t = shift_canonical_turn_sort_keys(rows, from, delta)
    BY <1>8, <1>9, <1>11, <2>1, <2>2
  <2>4. Ordered(t) /\ ShiftedBy(t, rows, from, delta)
    BY <1>6, <2>3, ShiftIs
  <2>5. DOMAIN t = DOMAIN rows
    BY <1>6, <2>4, OrderedIs DEF ShiftedBy
  <2>6. \A i \in DOMAIN rows : t[i].group = rows[i].group /\ t[i].hash = rows[i].hash
    BY <2>4 DEF ShiftedBy
  <2> QED BY <1>9, <1>11, <2>5, <2>6
<1>12. CASE o.op = "actor"
  <2> DEFINE E(r) == IF r.id \in o.ids /\ r.actor = NoActor /\ o.life \in {0, epoch}
                     THEN [r EXCEPT !.actor = o.actor] ELSE r
  <2>1. t = [i \in DOMAIN rows |-> E(rows[i])]
    BY <1>8, <1>9, <1>12
  <2>3. \A r \in Row : E(r).group = r.group /\ E(r).hash = r.hash
    BY DEF Row
  <2> HIDE DEF E
  <2>5. \A i \in DOMAIN rows : rows[i] \in Row
    BY <1>6, OrderedIs
  <2>6. DOMAIN t = DOMAIN rows /\ \A i \in DOMAIN rows : t[i].group = rows[i].group /\ t[i].hash = rows[i].hash
    BY <2>1, <2>3, <2>5
  <2> QED BY <1>9, <1>12, <2>6
<1>13. CASE o.op = "write"
  <2>1. PICK r \in Row : r = o.row
    BY <1>7, <1>13
  <2>2. t = save_canonical_turn(rows, r) /\ ~Collides(rows, r)
    BY <1>8, <1>9, <1>13, <2>1
  <2>3. \A k \in DOMAIN t : t[k] = r \/ \E i \in DOMAIN rows : t[k] = rows[i]
    BY <1>6, <2>2, SaveIs
  <2> QED BY <1>9, <1>13, <2>1, <2>3
<1> QED BY <1>7, <1>11, <1>12, <1>13

LEMMA ExecuteKeepsGroups ==
  ASSUME KeyInv, GroupInv, Execute, KeyInv'
  PROVE  GroupInv'
<1>1. PICK ops : ops = job.todo /\ ops \in Seq(Planned(job.batch)) /\ ops # <<>> /\ pc = "write"
  BY DEF KeyInv, Shape, PlanRuns, Execute
<1>2. PICK o : o = Head(job.todo)
  OBVIOUS
<1>3. PICK rest : rest = Tail(ops)
  OBVIOUS
<1>4. PICK n \in Nat : n = Len(ops) /\ n # 0 /\ DOMAIN ops = 1..n
  BY <1>1
<1>5. o = ops[1] /\ 1 \in DOMAIN ops /\ DOMAIN rest = 1..(n - 1) /\ \A k \in 1..(n - 1) : rest[k] = ops[k + 1]
  <2>1. o = ops[1] /\ 1 \in DOMAIN ops
    BY <1>1, <1>2, <1>4
  <2>2. Len(rest) = n - 1 /\ \A k \in 1..(n - 1) : rest[k] = ops[k + 1]
    BY <1>1, <1>3, <1>4, HeadTailProperties
  <2>3. rest \in Seq(Planned(job.batch))
    BY <1>1, <1>3, HeadTailProperties
  <2> QED BY <2>1, <2>2, <2>3
<1>6. \A k \in DOMAIN rest : \E j \in DOMAIN ops : rest[k] = ops[j]
  <2> TAKE k \in DOMAIN rest
  <2>1. k \in 1..(n - 1) /\ k + 1 \in 1..n
    BY <1>4, <1>5
  <2> QED BY <1>4, <1>5, <2>1
<1>7. /\ job' = [job EXCEPT !.todo = rest]
      /\ pc' = IF rest # <<>> THEN "write"
               ELSE IF ~job.wrote THEN "check"
               ELSE IF job.kind = "resend" THEN "anchors" ELSE "groups"
  BY <1>1, <1>3 DEF Execute
<1>8. job = [kind |-> job.kind, payload |-> job.payload, batch |-> job.batch,
             life |-> job.life, todo |-> job.todo, wrote |-> job.wrote, undo |-> job.undo]
  BY DEF KeyInv, Shape
<1>9. job'.todo = rest /\ job'.wrote = job.wrote /\ job'.kind = job.kind /\ job'.undo = job.undo
  BY <1>7, <1>8
<1>10. Transactional /\ pc' # "idle" => Paired(job'.undo[1])
  BY <1>1, <1>9 DEF GroupInv
<1>11. /\ o.op # "write" =>
              /\ DOMAIN rows' = DOMAIN rows
              /\ \A i \in DOMAIN rows : rows'[i].group = rows[i].group /\ rows'[i].hash = rows[i].hash
       /\ o.op = "write" =>
              \A k \in DOMAIN rows' : rows'[k] = o.row \/ \E i \in DOMAIN rows : rows'[k] = rows[i]
  BY <1>2, ExecuteGroups
<1>12. PICK t : t = rows' /\ Ordered(t)
  BY DEF KeyInv, Shape
<1>13. ASSUME ~job.wrote
       PROVE  Paired(t) /\ \A k \in DOMAIN rest : rest[k].op # "write"
  <2>1. Paired(rows) /\ \A k \in DOMAIN ops : ops[k].op # "write"
    BY <1>1, <1>13 DEF GroupInv
  <2>2. o.op # "write"
    BY <1>5, <2>1
  <2>3. Paired(t)
    BY <1>11, <1>12, <2>1, <2>2, SamePairs
  <2> QED BY <1>6, <2>1, <2>3
<1>14. ASSUME job.kind = "resend"
       PROVE  job.wrote /\ Paired(t) /\ Steady'
  <2>1. PICK s : /\ Ordered(s) /\ Paired(s) /\ Drawn(rows, s)
                 /\ \A k \in DOMAIN ops : ops[k].op = "write" /\ From(ops[k].row, s)
    BY <1>1, <1>14 DEF GroupInv, Steady
  <2>2. o.op = "write" /\ From(o.row, s)
    BY <1>5, <2>1
  <2>3. Drawn(t, s)
    BY <1>11, <1>12, <2>1, <2>2 DEF Drawn
  <2>4. \A k \in DOMAIN rest : rest[k].op = "write" /\ From(rest[k].row, s)
    BY <1>6, <2>1
  <2>5. Steady'
    BY <1>9, <1>12, <2>1, <2>3, <2>4 DEF Steady
  <2>6. Paired(t)
    BY <1>12, <2>1, <2>3, DrawnPairs
  <2> QED BY <1>1, <1>14, <2>5, <2>6 DEF GroupInv
<1>15. pc' \in {"idle", "anchors", "check"} => Paired(rows')
  BY <1>7, <1>12, <1>13, <1>14
<1>16. pc' = "write" /\ ~job'.wrote =>
         Paired(rows') /\ \A k \in DOMAIN job'.todo : job'.todo[k].op # "write"
  BY <1>9, <1>12, <1>13
<1>17. pc' = "write" /\ job'.kind = "resend" => job'.wrote /\ Steady'
  BY <1>9, <1>14
<1> QED BY <1>10, <1>15, <1>16, <1>17 DEF GroupInv

LEMMA BeginGroups ==
  ASSUME KeyInv, GroupInv, pc = "idle", NEW kind, NEW p, NEW s, s = Loaded(rows),
         NEW ops, NEW next, Begin(kind, p, s, ops, next), next \in {"write", "check"},
         kind = "resend" => /\ \E k \in DOMAIN ops : ops[k].op = "write"
                            /\ \A k \in DOMAIN ops : ops[k].op = "write" /\ From(ops[k].row, s)
  PROVE  GroupInv'
<1>1. Ordered(rows) /\ Paired(rows)
  BY DEF KeyInv, Shape, GroupInv
<1>2. Ordered(s) /\ Paired(s)
  BY <1>1, LoadedIs, LoadedPairs
<1>3. /\ rows' = s /\ pc' = next
      /\ job' = [kind |-> kind, payload |-> p, batch |-> batches + 1, life |-> epoch,
             todo |-> ops, wrote |-> \E k \in DOMAIN ops : ops[k].op = "write",
             undo |-> IF Transactional THEN <<rows, anchors>> ELSE <<>>]
  BY DEF Begin
<1>4. /\ job'.todo = ops /\ job'.kind = kind /\ (Transactional => job'.undo[1] = rows)
      /\ job'.wrote <=> \E k \in DOMAIN ops : ops[k].op = "write"
  BY <1>3
<1>5. Drawn(s, s)
  BY DEF Drawn, From
<1>6. kind = "resend" => Steady'
  <2> SUFFICES ASSUME kind = "resend" PROVE Steady'
    OBVIOUS
  <2>1. \A k \in DOMAIN ops : ops[k].op = "write" /\ From(ops[k].row, s)
    OBVIOUS
  <2> QED BY <1>2, <1>3, <1>4, <1>5, <2>1 DEF Steady
<1>7. Transactional => Paired(job'.undo[1])
  BY <1>1, <1>4
<1> QED BY <1>2, <1>3, <1>4, <1>6, <1>7 DEF GroupInv

LEMMA ResendGroups ==
  ASSUME KeyInv, GroupInv, NEW p \in Pair, NEW actor \in Actor \cup {NoActor}, ResendPair(p, actor)
  PROVE  GroupInv'
<1> DEFINE s == Loaded(rows)
           m == Len(s) - Len(Recent(s))
           at == {i \in m + 1..Len(s) - 1 : Window(Hashes(s), i, 2) = p}
           Re(k) == Rewritten(s[Min(at) + k - 1], actor)
           ops == [k \in 1..2 |-> [op |-> "write", row |-> Re(k)]]
<1>1. pc = "idle" /\ at # {} /\ Begin("resend", p, s, ops, "write")
  BY DEF ResendPair
<1>2. Ordered(s)
  BY LoadedIs DEF KeyInv, Shape
<1>3. PICK N \in Nat : N = Len(s) /\ DOMAIN s = 1..N
  BY <1>2, OrderedIs
<1>4. Min(at) \in 1..(N - 1)
  <2>1. m \in Nat
    <3> HIDE DEF s
    <3> QED BY <1>2, RecentIs
  <2> HIDE DEF s, m
  <2>2. at \in SUBSET Nat /\ \A i \in at : i \in 1..(N - 1)
    BY <1>3, <2>1
  <2> HIDE DEF at
  <2> QED BY <1>1, <2>2, LeastIs
<1> HIDE DEF s, m, at
<1>5. \A k \in 1..2 : Min(at) + k - 1 \in DOMAIN s
  BY <1>3, <1>4
<1>6. \A r \in Row : /\ Rewritten(r, actor).hash = r.hash /\ Rewritten(r, actor).group = r.group
                     /\ Rewritten(r, actor).key = r.key
  BY DEF Rewritten, Row
<1>7. \A k \in 1..2 : From(Re(k), s)
  <2> TAKE k \in 1..2
  <2>1. Min(at) + k - 1 \in DOMAIN s
    BY <1>5
  <2>2. s[Min(at) + k - 1] \in Row
    BY <1>2, <2>1, OrderedIs
  <2> QED BY <1>6, <2>1, <2>2 DEF From
<1> HIDE DEF Re
<1>8. DOMAIN ops = 1..2 /\ \A k \in 1..2 : ops[k].op = "write" /\ ops[k].row = Re(k)
  OBVIOUS
<1> HIDE DEF ops
<1>9. /\ \E k \in DOMAIN ops : ops[k].op = "write"
      /\ \A k \in DOMAIN ops : ops[k].op = "write" /\ From(ops[k].row, s)
  <2>1. 1 \in DOMAIN ops
    BY <1>8
  <2> QED BY <1>7, <1>8, <2>1
<1>10. s = Loaded(rows)
  BY DEF s
<1> QED BY <1>1, <1>9, <1>10, BeginGroups

LEMMA StepKeepsGroups ==
  ASSUME ~MayMiss, Transactional \/ ~MayCrash, KeyInv, GroupInv, [Next]_vars
  PROVE  GroupInv'
<1>0. Ordered(rows) /\ KeyInv'
  BY StepKeepsKeys DEF KeyInv, Shape
<1>1. ASSUME NEW p \in Payload, NEW a \in Actor \cup {NoActor}, ingest_batch(p, a)
      PROVE  GroupInv'
  <2>1. PICK ops : pc = "idle" /\ Begin("batch", p, Loaded(rows), ops, Writes(ops))
    BY <1>1 DEF ingest_batch
  <2>2. Writes(ops) \in {"write", "check"}
    BY DEF Writes
  <2> QED BY <2>1, <2>2, BeginGroups
<1>2. ASSUME NEW p \in Pair, NEW a \in Actor \cup {NoActor}, ResendPair(p, a)
      PROVE  GroupInv'
  BY <1>2, ResendGroups
<1>3. ASSUME NEW p \in Pair, NEW a \in Actor \cup {NoActor}, ingest_single(p, a)
      PROVE  GroupInv'
  <2>1. PICK ops : pc = "idle" /\ Begin("single", p, Loaded(rows), ops, Writes(ops))
    BY <1>3 DEF ingest_single
  <2>2. Writes(ops) \in {"write", "check"}
    BY DEF Writes
  <2> QED BY <2>1, <2>2, BeginGroups
<1>4. CASE Execute
  BY <1>0, <1>4, ExecuteKeepsGroups
<1>5. CASE Regroup
  <2>1. Paired(rows')
    BY <1>0, <1>5, RecomputePairs DEF Regroup
  <2>2. job' = job /\ pc = "groups" /\ pc' = "anchors"
    BY <1>5 DEF Regroup, Advance
  <2> QED BY <2>1, <2>2 DEF GroupInv
<1>6. CASE _refresh_persisted_anchors
  <2>1. rows' = rows /\ job' = job /\ pc = "anchors" /\ pc' = "check"
    BY <1>6 DEF _refresh_persisted_anchors, Advance
  <2> QED BY <2>1 DEF GroupInv
<1>7. CASE Finish
  <2> DEFINE keep == {i \in DOMAIN rows : rows[i].batch # job.batch}
  <2>1. (rows' = Select(rows, keep) \/ rows' = rows) /\ pc = "check" /\ pc' = "idle"
    BY <1>7 DEF Finish
  <2>2. keep \in SUBSET DOMAIN rows
    OBVIOUS
  <2> HIDE DEF keep
  <2>3. /\ Ordered(Select(rows, keep))
        /\ \A k \in DOMAIN Select(rows, keep) : \E i \in DOMAIN rows : Select(rows, keep)[k] = rows[i]
    BY <1>0, <2>2, SelectIs
  <2>4. Drawn(Select(rows, keep), rows)
    BY <2>3 DEF Drawn, From
  <2>5. Paired(rows)
    BY <2>1 DEF GroupInv
  <2>6. Paired(Select(rows, keep))
    BY <1>0, <2>3, <2>4, <2>5, DrawnPairs
  <2> QED BY <2>1, <2>5, <2>6 DEF GroupInv
<1>8. CASE Crash
  <2>1. Transactional /\ pc # "idle" /\ rows' = job.undo[1] /\ pc' = "idle"
    BY <1>8 DEF Crash
  <2> QED BY <2>1 DEF GroupInv
<1>9. CASE Resurrect
  <2>1. rows' = rows /\ job' = job /\ pc' = pc
    BY <1>9 DEF Resurrect, jobVars
  <2> QED BY <2>1 DEF GroupInv, Steady
<1>10. CASE Tag
  <2> DEFINE E(r) == [r EXCEPT !.tagged = TRUE]
  <2>1. rows' = [i \in DOMAIN rows |-> E(rows[i])]
    BY <1>10 DEF Tag
  <2>2. \A r \in Row : E(r).group = r.group /\ E(r).hash = r.hash /\ E(r).key = r.key
    BY DEF Row
  <2>3. \A i \in DOMAIN rows : rows[i] \in Row
    BY <1>0, OrderedIs
  <2> HIDE DEF E
  <2>4. /\ DOMAIN rows' = DOMAIN rows
        /\ \A i \in DOMAIN rows : /\ rows'[i].group = rows[i].group /\ rows'[i].hash = rows[i].hash
                                  /\ rows'[i].key = rows[i].key
    BY <2>1, <2>2, <2>3
  <2>5. job' = job /\ pc' = pc
    BY <1>10 DEF Tag, jobVars
  <2>6. Paired(rows) => Paired(rows')
    BY <2>4, SamePairs
  <2>7. Steady => Steady'
    <3> SUFFICES ASSUME Steady PROVE Steady'
      OBVIOUS
    <3>1. PICK s : /\ Ordered(s) /\ Paired(s) /\ Drawn(rows, s)
                   /\ \A k \in DOMAIN job.todo : job.todo[k].op = "write" /\ From(job.todo[k].row, s)
      BY DEF Steady
    <3>2. PICK t : t = rows'
      OBVIOUS
    <3>3. Drawn(t, s)
      BY <2>4, <3>1, <3>2 DEF Drawn, From
    <3> QED BY <2>5, <3>1, <3>2, <3>3 DEF Steady
  <2> QED BY <2>5, <2>6, <2>7 DEF GroupInv
<1>11. CASE UNCHANGED vars
  <2>1. rows' = rows /\ job' = job /\ pc' = pc
    BY <1>11 DEF vars, jobVars
  <2> QED BY <2>1 DEF GroupInv, Steady
<1> QED BY <1>1, <1>2, <1>3, <1>4, <1>5, <1>6, <1>7, <1>8, <1>9, <1>10, <1>11 DEF Next

\* GroupsArePairs holds for any payloads and pairs, whatever is inserted, moved,
\* resent or rolled back, as long as recompute_groups does not fail (its failure
\* is swallowed) and a dying worker's writes are undone (SQLite) or no worker
\* dies: the stored turn_group_number values give the logical turns that
\* partition_canonical_rows_into_logical_turns finds.
THEOREM GroupsStayPairs ==
  ASSUME ~MayMiss, Transactional \/ ~MayCrash
  PROVE  Spec => []GroupsArePairs
<1>1. Init => GroupInv
  BY DEF Init, GroupInv, Paired
<1>2. KeyInv /\ GroupInv /\ [Next]_vars => GroupInv'
  BY StepKeepsGroups
<1>3. KeyInv /\ GroupInv => GroupsArePairs
  <2> SUFFICES ASSUME KeyInv, GroupInv, pc = "idle"
               PROVE  partition_canonical_rows_into_logical_turns(rows)
                        = {{i \in DOMAIN rows : rows[i].group = rows[j].group} : j \in DOMAIN rows}
    BY DEF GroupsArePairs
  <2>1. Ordered(rows) /\ Paired(rows)
    BY DEF KeyInv, Shape, GroupInv
  <2> QED BY <2>1, PairsPartition
<1> QED BY <1>1, <1>2, <1>3, KeyInvAlways, PTL DEF Spec

-----------------------------------------------------------------------------
(* What a step keeps of the rows it finds.                                 *)

LEMMA KeptThen ==
  ASSUME NEW s, NEW t, NEW u, NEW b, Kept(s, t, b), Holds(s, t), Kept(t, u, b)
  PROVE  Kept(s, u, b)
<1>1. ASSUME NEW i \in DOMAIN s, NEW k \in DOMAIN u, u[k].id = s[i].id
      PROVE  /\ u[k].hash = s[i].hash
             /\ s[i].actor # NoActor => u[k].actor = s[i].actor
             /\ b /\ s[i].tagged => u[k].tagged
  <2>1. PICK m \in DOMAIN t : t[m].id = s[i].id
    BY DEF Holds
  <2> QED BY <1>1, <2>1 DEF Kept
<1>2. ASSUME NEW i \in DOMAIN s, NEW j \in DOMAIN s, NEW k \in DOMAIN u, NEW l \in DOMAIN u,
             u[k].id = s[i].id, u[l].id = s[j].id, i < j
      PROVE  k < l
  <2>1. PICK m \in DOMAIN t : t[m].id = s[i].id
    BY DEF Holds
  <2>2. PICK n \in DOMAIN t : t[n].id = s[j].id
    BY DEF Holds
  <2>3. m < n
    BY <1>2, <2>1, <2>2 DEF Kept
  <2> QED BY <1>2, <2>1, <2>2, <2>3 DEF Kept
<1> QED BY <1>1, <1>2 DEF Kept

LEMMA HoldsThen ==
  ASSUME NEW s, NEW t, NEW u, Holds(s, t), Holds(t, u)
  PROVE  Holds(s, u)
<1> SUFFICES ASSUME NEW i \in DOMAIN s PROVE \E k \in DOMAIN u : u[k].id = s[i].id
  BY DEF Holds
<1>1. PICK m \in DOMAIN t : t[m].id = s[i].id
  BY DEF Holds
<1>2. PICK k \in DOMAIN u : u[k].id = t[m].id
  BY DEF Holds
<1> QED BY <1>1, <1>2

\* Rows that stay where they are, as far as ids and contents go.
LEMMA KeptInPlace ==
  ASSUME NEW s, NEW N \in Nat, DOMAIN s = 1..N, Unique(s), NEW t, DOMAIN t = 1..N, NEW b,
         \A i \in 1..N : /\ t[i].id = s[i].id /\ t[i].hash = s[i].hash
                         /\ s[i].actor # NoActor => t[i].actor = s[i].actor
                         /\ b /\ s[i].tagged => t[i].tagged
  PROVE  Kept(s, t, b) /\ Holds(s, t) /\ Unique(t)
<1>1. \A i, k \in 1..N : t[k].id = s[i].id => i = k
  BY DEF Unique
<1>2. Kept(s, t, b)
  <2>1. ASSUME NEW i \in 1..N, NEW k \in 1..N, t[k].id = s[i].id
        PROVE  /\ t[k].hash = s[i].hash
               /\ s[i].actor # NoActor => t[k].actor = s[i].actor
               /\ b /\ s[i].tagged => t[k].tagged
    <3>1. i = k
      BY <1>1, <2>1
    <3> QED BY <3>1
  <2>2. ASSUME NEW i \in 1..N, NEW j \in 1..N, NEW k \in 1..N, NEW l \in 1..N,
               t[k].id = s[i].id, t[l].id = s[j].id, i < j
        PROVE  k < l
    <3>1. i = k /\ j = l
      BY <1>1, <2>2
    <3> QED BY <2>2, <3>1
  <2> QED BY <2>1, <2>2 DEF Kept
<1>3. Holds(s, t) /\ Unique(t)
  BY DEF Holds, Unique
<1> QED BY <1>2, <1>3

LEMMA SaveKeeps ==
  ASSUME NEW s, Ordered(s), Unique(s), NEW r \in Row, ~Collides(s, r), NEW b, Follows(r, s, b),
         NEW t, t = save_canonical_turn(s, r)
  PROVE  Kept(s, t, b) /\ Holds(s, t) /\ Unique(t)
<1>1. /\ Ordered(t)
      /\ \A k \in DOMAIN t : t[k] = r \/ \E i \in DOMAIN s : s[i].id # r.id /\ t[k] = s[i]
      /\ \E k \in DOMAIN t : t[k] = r
      /\ \A i \in DOMAIN s : s[i].id # r.id => \E k \in DOMAIN t : t[k] = s[i]
  BY SaveIs
<1>2. \A i \in DOMAIN s, k \in DOMAIN t : t[k].id = s[i].id =>
        /\ t[k].key = s[i].key /\ t[k].hash = s[i].hash
        /\ s[i].actor # NoActor => t[k].actor = s[i].actor
        /\ b /\ s[i].tagged => t[k].tagged
  <2> SUFFICES ASSUME NEW i \in DOMAIN s, NEW k \in DOMAIN t, t[k].id = s[i].id
               PROVE  /\ t[k].key = s[i].key /\ t[k].hash = s[i].hash
                      /\ s[i].actor # NoActor => t[k].actor = s[i].actor
                      /\ b /\ s[i].tagged => t[k].tagged
    OBVIOUS
  <2>1. CASE t[k] = r
    BY <2>1 DEF Follows
  <2>2. CASE \E j \in DOMAIN s : s[j].id # r.id /\ t[k] = s[j]
    <3>1. PICK j \in DOMAIN s : t[k] = s[j]
      BY <2>2
    <3>2. j = i
      BY <3>1 DEF Unique
    <3> QED BY <3>1, <3>2
  <2> QED BY <1>1, <2>1, <2>2
<1>3. \A k, l \in DOMAIN t : k \in Nat /\ l \in Nat /\ t[k].key \in Int /\ t[l].key \in Int
                             /\ (k < l => t[k].key < t[l].key)
  <2>1. \A k \in DOMAIN t : k \in Nat /\ t[k].key \in Int
    <3>1. DOMAIN t = 1..Len(t) /\ Len(t) \in Nat /\ \A k \in DOMAIN t : t[k].key \in Int
      BY <1>1, OrderedIs
    <3> QED BY <3>1
  <2> QED BY <1>1, <2>1 DEF Ordered
<1>4. ASSUME NEW i \in DOMAIN s, NEW j \in DOMAIN s, NEW k \in DOMAIN t, NEW l \in DOMAIN t,
             t[k].id = s[i].id, t[l].id = s[j].id, i < j
      PROVE  k < l
  <2>1. s[i].key < s[j].key
    BY <1>4 DEF Ordered
  <2>2. t[k].key < t[l].key
    BY <1>2, <1>4, <2>1
  <2>3. k # l /\ ~ (l < k)
    BY <1>3, <2>2
  <2> QED BY <1>3, <2>3
<1>5. Kept(s, t, b)
  BY <1>2, <1>4 DEF Kept
<1>6. Holds(s, t)
  BY <1>1 DEF Holds
<1>7. Unique(t)
  <2> SUFFICES ASSUME NEW k \in DOMAIN t, NEW l \in DOMAIN t, t[k].id = t[l].id PROVE k = l
    BY DEF Unique
  <2>1. t[k].key = t[l].key
    <3>1. CASE t[k] = r /\ t[l] = r
      BY <3>1
    <3>2. CASE \E i \in DOMAIN s : t[k] = s[i]
      BY <1>2, <3>2
    <3>3. CASE \E i \in DOMAIN s : t[l] = s[i]
      BY <1>2, <3>3
    <3> QED BY <1>1, <3>1, <3>2, <3>3
  <2>2. ~ (k < l) /\ ~ (l < k)
    BY <1>3, <2>1
  <2> QED BY <1>3, <2>2
<1> QED BY <1>5, <1>6, <1>7

\* What is chosen from rows keeps what it holds of them.
LEMMA SelectKeeps ==
  ASSUME NEW s, Ordered(s), Unique(s), NEW keep \in SUBSET DOMAIN s, NEW b,
         NEW t, t = Select(s, keep)
  PROVE  /\ Kept(s, t, b) /\ Unique(t)
         /\ \A i \in DOMAIN s : (\A k \in DOMAIN t : t[k].id # s[i].id) => i \notin keep
<1>1. /\ Ordered(t) /\ \A k \in DOMAIN t : \E i \in keep : t[k] = s[i]
      /\ \A i \in keep : \E k \in DOMAIN t : t[k] = s[i]
  BY SelectIs
<1>2. \A i \in DOMAIN s, k \in DOMAIN t : t[k].id = s[i].id => t[k] = s[i]
  BY <1>1 DEF Unique
<1>3. \A k, l \in DOMAIN t : k \in Nat /\ l \in Nat /\ t[k].key \in Int /\ t[l].key \in Int
                             /\ (k < l => t[k].key < t[l].key)
  <2>1. \A k \in DOMAIN t : k \in Nat /\ t[k].key \in Int
    <3>1. DOMAIN t = 1..Len(t) /\ Len(t) \in Nat /\ \A k \in DOMAIN t : t[k].key \in Int
      BY <1>1, OrderedIs
    <3> QED BY <3>1
  <2> QED BY <1>1, <2>1 DEF Ordered
<1>4. ASSUME NEW i \in DOMAIN s, NEW j \in DOMAIN s, NEW k \in DOMAIN t, NEW l \in DOMAIN t,
             t[k].id = s[i].id, t[l].id = s[j].id, i < j
      PROVE  k < l
  <2>1. s[i].key < s[j].key
    BY <1>4 DEF Ordered
  <2>2. t[k].key < t[l].key
    BY <1>2, <1>4, <2>1
  <2>3. k # l /\ ~ (l < k)
    BY <1>3, <2>2
  <2> QED BY <1>3, <2>3
<1>5. Kept(s, t, b)
  BY <1>2, <1>4 DEF Kept
<1>6. Unique(t)
  <2> SUFFICES ASSUME NEW k \in DOMAIN t, NEW l \in DOMAIN t, t[k].id = t[l].id PROVE k = l
    BY DEF Unique
  <2>1. PICK i \in keep : t[k] = s[i]
    BY <1>1
  <2>2. t[l] = s[i]
    BY <1>2, <2>1
  <2>3. ~ (k < l) /\ ~ (l < k)
    BY <1>3, <2>1, <2>2
  <2> QED BY <1>3, <2>3
<1>7. \A i \in DOMAIN s : (\A k \in DOMAIN t : t[k].id # s[i].id) => i \notin keep
  BY <1>1
<1> QED BY <1>5, <1>6, <1>7
\* Two increasing lists of the same numbers are the same.
LEMMA SameEnumeration ==
  ASSUME NEW c \in Nat, NEW g \in [1..c -> Nat], NEW h \in [1..c -> Nat],
         \A j, k \in 1..c : j < k => g[j] < g[k] /\ h[j] < h[k],
         \A k \in 1..c : \E j \in 1..c : g[k] = h[j],
         \A k \in 1..c : \E j \in 1..c : h[k] = g[j]
  PROVE  \A k \in 1..c : g[k] = h[k]
<1> DEFINE T == {k \in 1..c : g[k] # h[k]}
<1> SUFFICES ASSUME T # {} PROVE FALSE
  OBVIOUS
<1>1. T \subseteq Nat
  OBVIOUS
<1>2. PICK k \in T : \A y \in T : k <= y
  <2> HIDE DEF T
  <2> QED BY <1>1, LeastNumber
<1>3. k \in 1..c /\ g[k] # h[k] /\ \A j \in 1..c : j < k => g[j] = h[j]
  BY <1>2
<1> HIDE DEF T
<1>t. \A j \in 1..c : g[j] \in Int /\ h[j] \in Int /\ j \in Int
  OBVIOUS
<1>u. \A i, j \in 1..c : i < j => g[i] < g[j] /\ h[i] < h[j]
  OBVIOUS
<1>4. CASE g[k] < h[k]
  <2>1. PICK j \in 1..c : g[k] = h[j]
    BY <1>3
  <2>2. j < k
    <3>1. j # k
      BY <1>3, <2>1
    <3>2. k < j => h[k] < h[j]
      BY <1>3, <1>u
    <3>3. g[k] \in Int /\ h[k] \in Int /\ j \in Int /\ k \in Int
      BY <1>3, <1>t
    <3>4. ASSUME k < j PROVE FALSE
      <4>1. h[k] < g[k]
        BY <2>1, <3>2, <3>4
      <4>2. PICK x \in Int, y \in Int : x = g[k] /\ y = h[k]
        BY <3>3
      <4> QED BY <1>4, <4>1, <4>2
    <3> QED BY <3>1, <3>3, <3>4
  <2>3. g[j] = h[j] /\ g[j] < g[k]
    BY <1>3, <1>u, <2>2
  <2> QED BY <1>3, <1>t, <2>1, <2>3
<1>5. CASE h[k] < g[k]
  <2>1. PICK j \in 1..c : h[k] = g[j]
    BY <1>3
  <2>2. j < k
    <3>1. j # k
      BY <1>3, <2>1
    <3>2. k < j => g[k] < g[j]
      BY <1>3, <1>u
    <3>3. g[k] \in Int /\ h[k] \in Int /\ j \in Int /\ k \in Int
      BY <1>3, <1>t
    <3>4. ASSUME k < j PROVE FALSE
      <4>1. g[k] < h[k]
        BY <2>1, <3>2, <3>4
      <4>2. PICK x \in Int, y \in Int : x = g[k] /\ y = h[k]
        BY <3>3
      <4> QED BY <1>5, <4>1, <4>2
    <3> QED BY <3>1, <3>3, <3>4
  <2>3. g[j] = h[j] /\ h[j] < h[k]
    BY <1>3, <1>u, <2>2
  <2> QED BY <1>3, <1>t, <2>1, <2>3
<1>6. g[k] < h[k] \/ h[k] < g[k]
  BY <1>3, <1>t
<1> QED BY <1>4, <1>5, <1>6

\* What two lists of rows share has the same contents in the same order.
LEMMA SameContents ==
  ASSUME NEW s, Ordered(s), Unique(s), NEW t, Ordered(t), Unique(t), NEW b, Kept(s, t, b)
  PROVE  Contents(s, Ids(s) \cap Ids(t)) = Contents(t, Ids(s) \cap Ids(t))
<1> DEFINE both == Ids(s) \cap Ids(t)
           A == {i \in DOMAIN s : s[i].id \in both}
           B == {k \in DOMAIN t : t[k].id \in both}
           f == [i \in A |-> CHOOSE k \in B : t[k].id = s[i].id]
<1>1. PICK N \in Nat : DOMAIN s = 1..N
  BY OrderedIs
<1>2. PICK M \in Nat : DOMAIN t = 1..M
  BY OrderedIs
<1>3. A \in SUBSET (1..N) /\ B \in SUBSET (1..M)
  BY <1>1, <1>2
<1>4. \A i \in A : \E k \in B : t[k].id = s[i].id
  BY DEF Ids
<1>5. \A k \in B : \E i \in A : t[k].id = s[i].id
  BY DEF Ids
<1>a. \A i \in A : i \in DOMAIN s
  OBVIOUS
<1>b. \A k \in B : k \in DOMAIN t
  OBVIOUS
<1> HIDE DEF A, B
<1>6. \A i \in A : f[i] \in B /\ t[f[i]].id = s[i].id
  BY <1>4
<1> HIDE DEF f
<1>7. \A i, j \in A : i < j => f[i] < f[j]
  BY <1>6, <1>a, <1>b DEF Kept
<1>8. \A k \in B : \E i \in A : f[i] = k
  <2> SUFFICES ASSUME NEW k \in B PROVE \E i \in A : f[i] = k
    OBVIOUS
  <2>1. PICK i \in A : t[k].id = s[i].id
    BY <1>5
  <2>2. f[i] = k
    BY <1>6, <1>b, <2>1 DEF Unique
  <2> QED BY <2>2
<1> DEFINE c == Cardinality(A)
<1>9. /\ IsFiniteSet(A) /\ c \in Nat
      /\ \A k \in 1..c : Nth(A, k) \in A
      /\ \A j, k \in 1..c : j < k => Nth(A, j) < Nth(A, k)
      /\ \A i \in A : \E k \in 1..c : Nth(A, k) = i
  BY <1>3, NthIs
<1>10. Cardinality(B) = c
  <2>1. f \in [A -> B]
    BY <1>6 DEF f
  <2>2. \A i, j \in A : f[i] = f[j] => i = j
    BY <1>6, <1>a DEF Unique
  <2>3. f \in Bijection(A, B)
    <3>1. f \in Surjection(A, B)
      BY <1>8, <2>1 DEF Surjection
    <3>2. f \in Injection(A, B)
      BY <2>1, <2>2 DEF Injection, IsInjective
    <3> QED BY <3>1, <3>2 DEF Bijection
  <2>4. ExistsBijection(A, B)
    BY <2>3 DEF ExistsBijection
  <2> QED BY <1>9, <2>4, FS_Bijection
<1>11. /\ \A k \in 1..c : Nth(B, k) \in B
       /\ \A j, k \in 1..c : j < k => Nth(B, j) < Nth(B, k)
       /\ \A i \in B : \E k \in 1..c : Nth(B, k) = i
  BY <1>3, <1>10, NthIs
<1> HIDE DEF c
<1> DEFINE g == [k \in 1..c |-> f[Nth(A, k)]]
           h == [k \in 1..c |-> Nth(B, k)]
<1>12. \A k \in 1..c : g[k] = f[Nth(A, k)] /\ h[k] = Nth(B, k) /\ g[k] \in B /\ h[k] \in B
  BY <1>6, <1>9, <1>11
<1> HIDE DEF g, h
<1>13. \A k \in 1..c : g[k] = h[k]
  <2>0. \A k \in B : k \in Nat
    BY <1>3
  <2>1. g \in [1..c -> Nat] /\ h \in [1..c -> Nat]
    BY <1>12, <2>0 DEF g, h
  <2>2. \A j, k \in 1..c : j < k => g[j] < g[k] /\ h[j] < h[k]
    <3> SUFFICES ASSUME NEW j \in 1..c, NEW k \in 1..c, j < k PROVE g[j] < g[k] /\ h[j] < h[k]
      OBVIOUS
    <3>1. Nth(A, j) < Nth(A, k) /\ Nth(B, j) < Nth(B, k) /\ Nth(A, j) \in A /\ Nth(A, k) \in A
      BY <1>9, <1>11
    <3>2. f[Nth(A, j)] < f[Nth(A, k)]
      BY <1>7, <3>1
    <3> QED BY <1>12, <3>1, <3>2
  <2>3. \A k \in 1..c : \E j \in 1..c : g[k] = h[j]
    BY <1>11, <1>12
  <2>4. \A k \in 1..c : \E j \in 1..c : h[k] = g[j]
    <3> SUFFICES ASSUME NEW k \in 1..c PROVE \E j \in 1..c : h[k] = g[j]
      OBVIOUS
    <3>1. PICK i \in A : f[i] = h[k]
      BY <1>8, <1>12
    <3>2. PICK j \in 1..c : Nth(A, j) = i
      BY <1>9
    <3> QED BY <1>12, <3>1, <3>2
  <2> QED BY <1>9, <2>1, <2>2, <2>3, <2>4, SameEnumeration
<1>14. \A k \in 1..c : /\ s[Nth(A, k)].id = t[Nth(B, k)].id
                       /\ s[Nth(A, k)].hash = t[Nth(B, k)].hash
  <2> TAKE k \in 1..c
  <2>1. PICK i \in A : i = Nth(A, k) /\ f[i] = Nth(B, k)
    BY <1>9, <1>12, <1>13
  <2>2. i \in DOMAIN s /\ f[i] \in DOMAIN t /\ t[f[i]].id = s[i].id
    BY <1>6, <1>a, <1>b
  <2>3. t[f[i]].hash = s[i].hash
    BY <2>2 DEF Kept
  <2> QED BY <2>1, <2>2, <2>3
<1>15. Contents(s, both) = [k \in 1..c |-> <<s[Nth(A, k)].id, s[Nth(A, k)].hash>>]
  <2>1. Select(s, A) = [k \in 1..c |-> s[Nth(A, k)]]
    BY DEF Select, c
  <2>2. Contents(s, both) = [i \in DOMAIN Select(s, A) |-> <<Select(s, A)[i].id, Select(s, A)[i].hash>>]
    BY DEF Contents, A
  <2> QED BY <2>1, <2>2
<1>16. Contents(t, both) = [k \in 1..c |-> <<t[Nth(B, k)].id, t[Nth(B, k)].hash>>]
  <2>1. Select(t, B) = [k \in 1..c |-> t[Nth(B, k)]]
    BY <1>10 DEF Select
  <2>2. Contents(t, both) = [i \in DOMAIN Select(t, B) |-> <<Select(t, B)[i].id, Select(t, B)[i].hash>>]
    BY DEF Contents, B
  <2> QED BY <2>1, <2>2
<1> QED BY <1>14, <1>15, <1>16
-----------------------------------------------------------------------------
(* The ids a plan writes.                                                  *)

LEMMA FreshNone ==
  ASSUME NEW s, NEW t \in Nat
  PROVE  Fresh(<<>>, s, t, 0)
BY DEF Fresh

LEMMA FreshOne ==
  ASSUME NEW s, NEW t \in Nat, NEW o, o.op # "write", o.op = "actor" => Users(o.ids, s)
  PROVE  Fresh(<<o>>, s, t, 0)
<1>1. DOMAIN <<o>> = {1} /\ <<o>>[1] = o
  OBVIOUS
<1>2. (t + 1)..(t + 0) = {}
  OBVIOUS
<1> QED BY <1>1, <1>2 DEF Fresh

LEMMA FreshShift ==
  ASSUME NEW s, NEW t \in Nat, NEW from, NEW delta
  PROVE  Fresh(ShiftOp(from, delta), s, t, 0)
<1> DEFINE o == [op |-> "shift", from |-> from, delta |-> delta]
<1>1. o.op = "shift"
  OBVIOUS
<1>2. ShiftOp(from, delta) = IF delta = 0 THEN <<>> ELSE <<o>>
  BY DEF ShiftOp
<1> HIDE DEF o
<1> QED BY <1>1, <1>2, FreshNone, FreshOne

LEMMA FreshUpgrade ==
  ASSUME NEW s, NEW t \in Nat, NEW idx \in SUBSET DOMAIN s, NEW actor, NEW life
  PROVE  Fresh(UpgradeOp(s, idx, actor, life), s, t, 0)
<1> DEFINE ids == {s[i].id : i \in {j \in idx : s[j].actor = NoActor /\ s[j].hash \in UserMessage}}
           o == [op |-> "actor", ids |-> ids, actor |-> actor, life |-> life]
<1>1. UpgradeOp(s, idx, actor, life) = IF actor = NoActor \/ ids = {} THEN <<>> ELSE <<o>>
  BY DEF UpgradeOp
<1>2. Users(ids, s)
  BY DEF Users
<1> HIDE DEF ids
<1>3. o.op = "actor" /\ o.ids = ids
  OBVIOUS
<1> HIDE DEF o
<1> QED BY <1>1, <1>2, <1>3, FreshNone, FreshOne

LEMMA FreshWrites ==
  ASSUME NEW s, NEW t \in Nat, NEW msgs \in Seq(Message), NEW keys, NEW actor, NEW b
  PROVE  Fresh(WriteOps(msgs, keys, actor, b, t), s, t, Len(msgs))
<1>1. PICK n \in Nat : n = Len(msgs) /\ DOMAIN msgs = 1..n
  OBVIOUS
<1> DEFINE w == WriteOps(msgs, keys, actor, b, t)
<1>2. DOMAIN w = 1..n
  BY <1>1 DEF WriteOps
<1>3. \A k \in 1..n : w[k].op = "write" /\ w[k].row.id = t + k /\ Human(w[k].row)
  BY <1>1 DEF WriteOps, Prepared, Human
<1> HIDE DEF w
<1>4. \A k \in 1..n : t + k \in (t + 1)..(t + n)
  OBVIOUS
<1>5. \A x \in (t + 1)..(t + n) : x - t \in 1..n /\ t + (x - t) = x
  OBVIOUS
<1>6. ASSUME NEW x \in (t + 1)..(t + n), NEW k \in 1..n, NEW l \in 1..n, Write(w[k], x), Write(w[l], x)
      PROVE  k = l
  <2>1. t + k = t + l
    BY <1>3, <1>6 DEF Write
  <2> QED BY <2>1
<1>7. \A x \in (t + 1)..(t + n) : \E k \in 1..n : Write(w[k], x)
  <2> TAKE x \in (t + 1)..(t + n)
  <2>1. PICK k \in 1..n : t + k = x
    BY <1>5
  <2> QED BY <1>3, <2>1 DEF Write
<1>8. \A k \in 1..n : w[k].op # "actor"
  BY <1>3
<1>9. Fresh(w, s, t, n)
  BY <1>2, <1>3, <1>4, <1>6, <1>7, <1>8 DEF Fresh
<1> QED BY <1>1, <1>9 DEF w

LEMMA FreshThen ==
  ASSUME NEW S, NEW p \in Seq(S), NEW q \in Seq(S), NEW s, NEW t \in Nat, NEW m \in Nat, NEW n \in Nat,
         Fresh(p, s, t, m), Fresh(q, s, t + m, n)
  PROVE  Fresh(p \o q, s, t, m + n)
<1>1. PICK M \in Nat : M = Len(p) /\ DOMAIN p = 1..M
  OBVIOUS
<1>2. PICK N \in Nat : N = Len(q) /\ DOMAIN q = 1..N
  OBVIOUS
<1>3. PICK c : c = p \o q
  OBVIOUS
<1>4. /\ DOMAIN c = 1..(M + N)
      /\ \A k \in 1..M : c[k] = p[k]
      /\ \A k \in 1..N : c[M + k] = q[k]
  BY <1>1, <1>2, <1>3, ConcatProperties
<1>5. \A k \in 1..(M + N) : \/ k \in 1..M
                            \/ k - M \in 1..N /\ M + (k - M) = k
  OBVIOUS
<1>6. \A k \in DOMAIN c : \/ k \in 1..M /\ c[k] = p[k]
                          \/ k - M \in 1..N /\ c[k] = q[k - M]
  BY <1>4, <1>5
<1>7. \A k \in 1..M : k \in DOMAIN c /\ c[k] = p[k]
  BY <1>4
<1>8. \A k \in 1..N : M + k \in DOMAIN c /\ c[M + k] = q[k]
  BY <1>4
<1>p. \A k \in 1..M : /\ p[k].op = "write" => p[k].row.id \in (t + 1)..(t + m) /\ Human(p[k].row)
                      /\ p[k].op = "actor" => Users(p[k].ids, s)
  BY <1>1 DEF Fresh
<1>q. \A k \in 1..N : /\ q[k].op = "write" => q[k].row.id \in (t + m + 1)..(t + m + n) /\ Human(q[k].row)
                      /\ q[k].op = "actor" => Users(q[k].ids, s)
  BY <1>2 DEF Fresh
<1>9. ASSUME NEW k \in DOMAIN c
      PROVE  /\ c[k].op = "write" => c[k].row.id \in (t + 1)..(t + (m + n)) /\ Human(c[k].row)
             /\ c[k].op = "actor" => Users(c[k].ids, s)
  <2>1. CASE k \in 1..M /\ c[k] = p[k]
    <3>1. PICK x : x = c[k].row.id
      OBVIOUS
    <3>2. x \in (t + 1)..(t + m) => x \in (t + 1)..(t + (m + n))
      OBVIOUS
    <3> QED BY <1>p, <2>1, <3>1, <3>2
  <2>2. CASE k - M \in 1..N /\ c[k] = q[k - M]
    <3>1. PICK x : x = c[k].row.id
      OBVIOUS
    <3>2. x \in (t + m + 1)..(t + m + n) => x \in (t + 1)..(t + (m + n))
      OBVIOUS
    <3> QED BY <1>q, <2>2, <3>1, <3>2
  <2> QED BY <1>6, <2>1, <2>2
<1>10. ASSUME NEW x \in (t + 1)..(t + (m + n)), NEW k \in DOMAIN c, NEW l \in DOMAIN c,
              Write(c[k], x), Write(c[l], x)
       PROVE  k = l
  <2>0. /\ \A i \in 1..M : Write(p[i], x) => x \in (t + 1)..(t + m)
        /\ \A i \in 1..N : Write(q[i], x) => x \in (t + m + 1)..(t + m + n)
    BY <1>p, <1>q DEF Write
  <2>1. CASE x \in (t + 1)..(t + m)
    <3>1. x \notin (t + m + 1)..(t + m + n)
      BY <2>1
    <3>2. k \in 1..M /\ c[k] = p[k] /\ l \in 1..M /\ c[l] = p[l]
      BY <1>6, <1>10, <2>0, <3>1
    <3>3. \A i, j \in 1..M : Write(p[i], x) /\ Write(p[j], x) => i = j
      BY <1>1, <2>1 DEF Fresh
    <3> QED BY <1>10, <3>2, <3>3
  <2>2. CASE x \in (t + m + 1)..(t + m + n)
    <3>1. x \notin (t + 1)..(t + m)
      BY <2>2
    <3>2. k - M \in 1..N /\ c[k] = q[k - M] /\ l - M \in 1..N /\ c[l] = q[l - M]
      BY <1>6, <1>10, <2>0, <3>1
    <3>3. \A i, j \in 1..N : Write(q[i], x) /\ Write(q[j], x) => i = j
      BY <1>2, <2>2 DEF Fresh
    <3>4. k - M = l - M
      BY <1>10, <3>2, <3>3
    <3> QED BY <1>4, <3>4
  <2> QED BY <2>1, <2>2
<1>11. ASSUME NEW x \in (t + 1)..(t + (m + n)) PROVE \E k \in DOMAIN c : Write(c[k], x)
  <2>1. CASE x \in (t + 1)..(t + m)
    <3>1. PICK k \in 1..M : Write(p[k], x)
      BY <1>1, <2>1 DEF Fresh
    <3> QED BY <1>7, <3>1
  <2>2. CASE x \in (t + m + 1)..(t + m + n)
    <3>1. PICK k \in 1..N : Write(q[k], x)
      BY <1>2, <2>2 DEF Fresh
    <3> QED BY <1>8, <3>1
  <2> QED BY <2>1, <2>2
<1>12. Fresh(c, s, t, m + n)
  BY <1>9, <1>10, <1>11 DEF Fresh
<1> QED BY <1>3, <1>12

LEMMA FreshInsert ==
  ASSUME NEW s, Ordered(s), s # <<>>, NEW l \in 0..Len(s), NEW msgs \in Seq(Message),
         NEW actor \in Actor \cup {NoActor}, NEW b \in Nat, NEW t \in Nat, NEW u
  PROVE  /\ InsertOps(s, l, msgs, actor, b, t) \in Seq(Planned(b))
         /\ Fresh(InsertOps(s, l, msgs, actor, b, t), u, t, Len(msgs))
<1>1. InsertOps(s, l, msgs, actor, b, t) \in Seq(Planned(b))
  <2>1. {} \in SUBSET (Nat \X Int) /\ Gap({}, s, l)
    BY DEF Gap
  <2> QED BY <2>1, InsertRuns
<1>2. CASE msgs = <<>>
  <2>1. InsertOps(s, l, msgs, actor, b, t) = <<>> /\ Len(msgs) = 0
    BY <1>2 DEF InsertOps
  <2> QED BY <1>1, <2>1, FreshNone
<1>3. CASE msgs # <<>>
  <2>1. PICK n \in Nat : n = Len(msgs) /\ n # 0
    BY <1>3
  <2>2. PICK a : a = _allocate_bounded_sort_keys(s, l, n)
    OBVIOUS
  <2>3. PICK x : x = IF l < Len(s) THEN s[l + 1].key ELSE 0
    OBVIOUS
  <2>4. PICK p : p = ShiftOp(x, a.delta)
    OBVIOUS
  <2>5. PICK q : q = WriteOps(msgs, a.keys, actor, b, t)
    OBVIOUS
  <2>6. InsertOps(s, l, msgs, actor, b, t) = p \o q
    BY <1>3, <2>1, <2>2, <2>3, <2>4, <2>5 DEF InsertOps
  <2>7. Rising(a.keys, n) /\ a.delta \in Nat
    BY <2>1, <2>2, AllocateFits DEF FitsPlace
  <2>8. q \in Seq(Planned(b))
    BY <2>1, <2>5, <2>7, WritesPlanned
  <2>9. p \in Seq(Planned(b))
    <3>1. x \in Int
      <4>1. PICK N \in Nat : N = Len(s) /\ \A i \in 1..N : s[i].key \in Int
        BY OrderedIs
      <4> QED BY <2>3, <4>1
    <3> QED BY <2>4, <2>7, <3>1, RunsShift
  <2>10. Fresh(p, u, t, 0) /\ Fresh(q, u, t, n)
    BY <2>1, <2>4, <2>5, FreshShift, FreshWrites
  <2>11. Fresh(q, u, t + 0, n) /\ 0 + n = n /\ 0 \in Nat
    BY <2>10
  <2>12. Fresh(p \o q, u, t, 0 + n)
    BY <2>8, <2>9, <2>10, <2>11, FreshThen
  <2> QED BY <1>1, <2>1, <2>6, <2>11, <2>12
<1> QED BY <1>2, <1>3
LEMMA FreshMerge ==
  ASSUME NEW s, Ordered(s), s # <<>>, NEW inc \in Seq(Message), NEW a, Overlap(a, s, inc),
         NEW actor \in Actor \cup {NoActor}, NEW b \in Nat, NEW life \in Nat, NEW from \in Nat
  PROVE  \E n \in Nat : Fresh(MergeOps(s, a, inc, actor, b, life, from), s, from, n)
<1> DEFINE prefix == SubSeq(inc, 1, a.incoming - 1)
           suffix == SubSeq(inc, a.incoming + a.len, Len(inc))
           s2 == AfterPrefix(s, a.stored - 1, Len(prefix))
           up == UpgradeOp(s, a.stored..(a.stored + a.len - 1), actor, life)
           pre == InsertOps(s, a.stored - 1, prefix, actor, b, from)
           suf == InsertOps(s2, a.stored + a.len - 1, suffix, actor, b, from + Len(prefix))
<1>1. MergeOps(s, a, inc, actor, b, life, from) = up \o pre \o suf
  BY DEF MergeOps
<1>2. PICK l \in Nat : l = a.stored - 1
  BY DEF Overlap
<1>3. PICK r \in Nat : r = a.stored + a.len - 1 /\ l < r /\ r <= Len(s)
  BY <1>2 DEF Overlap
<1>4. PICK N \in Nat : N = Len(s) /\ DOMAIN s = 1..N
  BY OrderedIs
<1>5. prefix \in Seq(Message) /\ suffix \in Seq(Message)
  <2>1. PICK i \in Nat : i = a.incoming /\ i >= 1 /\ i <= Len(inc)
    BY DEF Overlap
  <2>2. PICK e \in Nat : e = a.len
    BY DEF Overlap
  <2>3. 1 \in Int /\ i - 1 \in Int /\ \A j \in 1..(i - 1) : inc[j] \in Message
    BY <2>1
  <2>4. i + e \in Int /\ Len(inc) \in Int /\ \A j \in (i + e)..Len(inc) : inc[j] \in Message
    BY <2>1
  <2>5. SubSeq(inc, 1, i - 1) \in Seq(Message)
    BY <2>3, SubSeqProperties
  <2>6. SubSeq(inc, i + e, Len(inc)) \in Seq(Message)
    BY <2>4, SubSeqProperties
  <2> QED BY <2>1, <2>2, <2>5, <2>6
<1> HIDE DEF prefix, suffix
<1>6. PICK n \in Nat : n = Len(prefix)
  BY <1>5
<1>7. PICK m \in Nat : m = Len(suffix)
  BY <1>5
<1>8. up \in Seq(Planned(b)) /\ Fresh(up, s, from, 0)
  <2>1. a.stored..(a.stored + a.len - 1) \in SUBSET DOMAIN s
    <3>1. a.stored \in Nat \ {0}
      BY DEF Overlap
    <3> QED BY <1>3, <1>4, <3>1
  <2> QED BY <2>1, RunsUpgrade, FreshUpgrade
<1>9. pre \in Seq(Planned(b)) /\ Fresh(pre, s, from, n)
  <2>1. l \in 0..Len(s)
    BY <1>3, <1>4
  <2> QED BY <1>2, <1>5, <1>6, <2>1, FreshInsert
<1>10. Ordered(s2) /\ ShiftedBy(s2, s, s[l + 1].key, InsertDelta(s, l, n))
  <2>1. l < Len(s)
    BY <1>3, <1>4
  <2> QED BY <1>2, <1>6, <2>1, AfterPrefixIs
<1> HIDE DEF s2
<1>11. Len(s2) = N /\ DOMAIN s2 = 1..N /\ s2 # <<>> /\ r \in 0..Len(s2)
  BY <1>3, <1>4, <1>10, OrderedIs DEF ShiftedBy
<1>12. suf \in Seq(Planned(b)) /\ Fresh(suf, s, from + n, m)
  <2>1. from + n \in Nat
    OBVIOUS
  <2> QED BY <1>3, <1>5, <1>6, <1>7, <1>10, <1>11, <2>1, FreshInsert
<1> HIDE DEF up, pre, suf
<1>13. up \o pre \in Seq(Planned(b)) /\ Fresh(up \o pre, s, from, n)
  <2>1. Fresh(pre, s, from + 0, n) /\ 0 + n = n /\ 0 \in Nat
    BY <1>9
  <2>2. Fresh(up \o pre, s, from, 0 + n)
    BY <1>8, <1>9, <2>1, FreshThen
  <2> QED BY <1>8, <1>9, <2>1, <2>2, ConcatProperties
<1>14. PICK first : first = up \o pre
  OBVIOUS
<1>15. Fresh(first \o suf, s, from, n + m)
  BY <1>12, <1>13, <1>14, FreshThen
<1>16. n + m \in Nat
  OBVIOUS
<1> QED BY <1>1, <1>14, <1>15, <1>16

LEMMA FreshPrepared ==
  ASSUME NEW s, Ordered(s), NEW inc \in Seq(Message),
         NEW actor \in Actor \cup {NoActor}, NEW b \in Nat, NEW life \in Nat, NEW from \in Nat,
         NEW allowShort \in BOOLEAN,
         (~allowShort /\ Len(inc) < 3)
           \/ LET a == _find_alignment(s, anchors, inc, allowShort)
              IN  a.stored + a.len - 1 <= Len(s)
  PROVE  \E n \in Nat : Fresh(PreparedOps(s, inc, actor, b, life, from, allowShort), s, from, n)
<1>1. PICK a : a = _find_alignment(s, anchors, inc, allowShort)
  OBVIOUS
<1>2. PreparedOps(s, inc, actor, b, life, from, allowShort)
        = IF a.len > 0 THEN MergeOps(s, a, inc, actor, b, life, from)
          ELSE IF Fragment(s, inc) THEN <<>> ELSE AppendOps(s, inc, actor, b, from)
  BY <1>1 DEF PreparedOps
<1>3. CASE a.len > 0
  <2>1. s # <<>> /\ Overlap(a, s, inc)
    BY <1>1, <1>3, FindOverlap
  <2>2. \E n \in Nat : Fresh(MergeOps(s, a, inc, actor, b, life, from), s, from, n)
    BY <2>1, FreshMerge
  <2> QED BY <1>2, <1>3, <2>2
<1>4. Fresh(<<>>, s, from, 0)
  BY FreshNone
<1>5. Fresh(AppendOps(s, inc, actor, b, from), s, from, Len(inc)) /\ Len(inc) \in Nat
  BY FreshWrites DEF AppendOps
<1> QED BY <1>2, <1>3, <1>4, <1>5

\* The ids of a fresh plan are those that Begin counts.
LEMMA FreshCount ==
  ASSUME NEW S, NEW ops \in Seq(S), NEW s, NEW t \in Nat, NEW n \in Nat, Fresh(ops, s, t, n)
  PROVE  LET W == {k \in DOMAIN ops : ops[k].op = "write" /\ ops[k].row.id > t}
         IN  Cardinality(W) \in Nat /\ n <= Cardinality(W)
<1> DEFINE W == {k \in DOMAIN ops : ops[k].op = "write" /\ ops[k].row.id > t}
           f == [k \in W |-> ops[k].row.id]
           I == (t + 1)..(t + n)
<1>1. DOMAIN ops = 1..Len(ops) /\ Len(ops) \in Nat
  OBVIOUS
<1>2. IsFiniteSet(W) /\ Cardinality(W) \in Nat
  <2>1. IsFiniteSet(1..Len(ops)) /\ W \subseteq 1..Len(ops)
    BY <1>1, FS_Interval
  <2> HIDE DEF W
  <2> QED BY <2>1, FS_Subset, FS_CardinalityType
<1>3. f \in [W -> I]
  BY DEF Fresh
<1>4. \A x \in I : \E k \in W : f[k] = x
  <2> TAKE x \in I
  <2>1. PICK k \in DOMAIN ops : Write(ops[k], x)
    BY DEF Fresh
  <2>2. k \in W
    BY <2>1 DEF Write
  <2> QED BY <2>1, <2>2 DEF Write
<1>5. Cardinality(I) = n
  <2>1. Cardinality(I) = IF t + 1 > t + n THEN 0 ELSE (t + n) - (t + 1) + 1
    <3>1. t + 1 \in Int /\ t + n \in Int
      OBVIOUS
    <3> QED BY <3>1, FS_Interval
  <2> QED BY <2>1
<1> HIDE DEF W, f, I
<1>6. f \in Surjection(W, I)
  BY <1>3, <1>4 DEF Surjection
<1>7. Cardinality(I) <= Cardinality(W)
  BY <1>2, <1>6, FS_Surjection DEF ExistsSurjection
<1> QED BY <1>2, <1>5, <1>7 DEF W

-----------------------------------------------------------------------------
(* Plans that disturb nothing.                                             *)

LEMMA FreshIsCareful ==
  ASSUME NEW S, NEW ops \in Seq(S), NEW s, NEW t \in Nat, NEW n \in Nat, Fresh(ops, s, t, n),
         NEW u \in Nat, t + n <= u, Known(s, t), \A i \in DOMAIN s : s[i].id \in Nat
  PROVE  Careful(ops, s, u, TRUE)
<1>1. ASSUME NEW k \in DOMAIN ops, ops[k].op = "write"
      PROVE  /\ Human(ops[k].row) /\ ops[k].row.id <= u
             /\ \A i \in DOMAIN s : s[i].id # ops[k].row.id
  <2>1. PICK x \in (t + 1)..(t + n) : x = ops[k].row.id /\ Human(ops[k].row)
    BY <1>1 DEF Fresh
  <2>2. x <= u
    OBVIOUS
  <2>3. \A i \in DOMAIN s : s[i].id # x
    BY DEF Known
  <2> QED BY <2>1, <2>2, <2>3
<1>2. \A x, k, l : k \in DOMAIN ops /\ l \in DOMAIN ops /\ Write(ops[k], x) /\ Write(ops[l], x) => k = l
  <2> SUFFICES ASSUME NEW x, NEW k \in DOMAIN ops, NEW l \in DOMAIN ops, Write(ops[k], x), Write(ops[l], x)
               PROVE  k = l
    OBVIOUS
  <2>1. x \in (t + 1)..(t + n)
    BY DEF Fresh, Write
  <2> QED BY <2>1 DEF Fresh
<1>3. \A k \in DOMAIN ops : ops[k].op = "actor" => Users(ops[k].ids, s)
  BY DEF Fresh
<1> QED BY <1>1, <1>2, <1>3 DEF Careful

LEMMA CarefulTail ==
  ASSUME NEW S, NEW ops \in Seq(S), ops # <<>>, NEW s, NEW t, NEW new, Careful(ops, s, t, new)
  PROVE  Careful(Tail(ops), s, t, new)
<1>1. PICK n \in Nat : n = Len(ops) /\ DOMAIN ops = 1..n /\ n # 0
  OBVIOUS
<1>2. PICK q : q = Tail(ops)
  OBVIOUS
<1>3. DOMAIN q = 1..(n - 1) /\ \A k \in 1..(n - 1) : k + 1 \in DOMAIN ops /\ q[k] = ops[k + 1]
  BY <1>1, <1>2, HeadTailProperties
<1>4. ASSUME NEW x, NEW k \in DOMAIN q, NEW l \in DOMAIN q, Write(q[k], x), Write(q[l], x)
      PROVE  k = l
  <2>1. k + 1 = l + 1
    BY <1>3, <1>4 DEF Careful
  <2> QED BY <1>3, <2>1
<1>5. Careful(q, s, t, new)
  BY <1>3, <1>4 DEF Careful
<1> QED BY <1>2, <1>5

LEMMA CarefulInPlace ==
  ASSUME NEW ops, NEW s, NEW T, NEW new, Careful(ops, s, T, new), NEW t, DOMAIN t = DOMAIN s,
         \A i \in DOMAIN s : /\ t[i].id = s[i].id /\ t[i].hash = s[i].hash
                             /\ new \/ (t[i].key = s[i].key /\ t[i].actor = s[i].actor)
  PROVE  Careful(ops, t, T, new)
<1>1. ASSUME NEW k \in DOMAIN ops, ops[k].op = "write"
      PROVE  IF new THEN \A i \in DOMAIN t : t[i].id # ops[k].row.id ELSE Follows(ops[k].row, t, FALSE)
  <2>1. CASE new
    BY <1>1, <2>1 DEF Careful
  <2>2. CASE ~new
    <3>1. Follows(ops[k].row, s, FALSE)
      BY <1>1, <2>2 DEF Careful
    <3>2. Follows(ops[k].row, t, FALSE)
      BY <2>2, <3>1 DEF Follows
    <3> QED BY <2>2, <3>2
  <2> QED BY <2>1, <2>2
<1>2. ASSUME NEW ids, Users(ids, s) PROVE Users(ids, t)
  BY <1>2 DEF Users
<1>3. \A k \in DOMAIN ops : ops[k].op = "actor" => Users(ops[k].ids, t)
  BY <1>2 DEF Careful
<1> QED BY <1>1, <1>3 DEF Careful

LEMMA CarefulSave ==
  ASSUME NEW S, NEW ops \in Seq(S), ops # <<>>, NEW s, NEW T, NEW new, Careful(ops, s, T, new),
         NEW r, Head(ops).op = "write", r = Head(ops).row, NEW t,
         \A k \in DOMAIN t : t[k] = r \/ \E i \in DOMAIN s : t[k] = s[i],
         Kept(s, t, FALSE), Holds(s, t)
  PROVE  Careful(Tail(ops), t, T, new)
<1>1. PICK n \in Nat : n = Len(ops) /\ DOMAIN ops = 1..n /\ n # 0
  OBVIOUS
<1>2. PICK q : q = Tail(ops)
  OBVIOUS
<1>3. DOMAIN q = 1..(n - 1) /\ \A k \in 1..(n - 1) : k + 1 \in DOMAIN ops /\ k + 1 # 1 /\ q[k] = ops[k + 1]
  BY <1>1, <1>2, HeadTailProperties
<1>4. Careful(q, s, T, new)
  BY <1>2, CarefulTail
<1>5. \A k \in DOMAIN q : q[k].op = "write" => q[k].row.id # r.id
  <2> SUFFICES ASSUME NEW k \in DOMAIN q, q[k].op = "write", q[k].row.id = r.id PROVE FALSE
    OBVIOUS
  <2>1. Head(ops) = ops[1] /\ 1 \in DOMAIN ops
    BY <1>1
  <2>2. Write(ops[1], r.id) /\ Write(ops[k + 1], r.id) /\ k + 1 \in DOMAIN ops /\ k + 1 # 1
    BY <1>3, <2>1 DEF Write
  <2> QED BY <2>1, <2>2 DEF Careful
<1>6. ASSUME NEW k \in DOMAIN q, q[k].op = "write"
      PROVE  IF new THEN \A i \in DOMAIN t : t[i].id # q[k].row.id ELSE Follows(q[k].row, t, FALSE)
  <2>0. q[k].row.id # r.id
    BY <1>5, <1>6
  <2>1. CASE new
    BY <1>4, <1>6, <2>0, <2>1 DEF Careful
  <2>2. CASE ~new
    <3>1. Follows(q[k].row, s, FALSE)
      BY <1>4, <1>6, <2>2 DEF Careful
    <3>2. Follows(q[k].row, t, FALSE)
      BY <2>0, <3>1 DEF Follows
    <3> QED BY <2>2, <3>2
  <2> QED BY <2>1, <2>2
<1>7. ASSUME NEW ids, Users(ids, s) PROVE Users(ids, t)
  <2> SUFFICES ASSUME NEW x \in ids PROVE \E k \in DOMAIN t : t[k].id = x /\ t[k].hash \in UserMessage
    BY DEF Users
  <2>1. PICK i \in DOMAIN s : s[i].id = x /\ s[i].hash \in UserMessage
    BY <1>7 DEF Users
  <2>2. PICK k \in DOMAIN t : t[k].id = s[i].id
    BY DEF Holds
  <2> QED BY <2>1, <2>2 DEF Kept
<1>8. \A k \in DOMAIN q : q[k].op = "actor" => Users(q[k].ids, t)
  BY <1>4, <1>7 DEF Careful
<1>9. Careful(q, t, T, new)
  BY <1>4, <1>6, <1>8 DEF Careful
<1> QED BY <1>2, <1>9
-----------------------------------------------------------------------------
(* Every step keeps the rows it finds.                                     *)

LEMMA SucceedsInPlace ==
  ASSUME NEW s, Ordered(s), NEW u, Settled(s, u), NEW b, NEW t, DOMAIN t = DOMAIN s,
         \A i \in DOMAIN s : /\ t[i].id = s[i].id /\ t[i].hash = s[i].hash /\ Human(t[i])
                             /\ s[i].actor # NoActor => t[i].actor = s[i].actor
                             /\ b /\ s[i].tagged => t[i].tagged
  PROVE  Succeeds(t, s, u, b)
<1>1. PICK N \in Nat : DOMAIN s = 1..N
  BY OrderedIs
<1>2. Unique(s) /\ \A i \in 1..N : t[i].id <= u
  BY <1>1 DEF Settled, Known
<1>3. Kept(s, t, b) /\ Holds(s, t) /\ Unique(t)
  BY <1>1, <1>2, KeptInPlace
<1> QED BY <1>1, <1>2, <1>3 DEF Succeeds, Settled, Known

LEMMA SucceedsThen ==
  ASSUME NEW s, NEW t, NEW v, NEW u, NEW b, Succeeds(t, s, u, b), Succeeds(v, t, u, b)
  PROVE  Succeeds(v, s, u, b)
BY KeptThen, HoldsThen DEF Succeeds

LEMMA SettledMore ==
  ASSUME NEW s, Ordered(s), NEW t \in Nat, NEW u \in Nat, t <= u, Settled(s, t)
  PROVE  Settled(s, u)
<1>1. \A i \in DOMAIN s : s[i].id \in Nat
  BY OrderedIs
<1>2. \A i \in DOMAIN s : s[i].id <= u
  BY <1>1 DEF Settled, Known
<1> QED BY <1>2 DEF Settled, Known

\* One committed write.
LEMMA ExecuteSucceeds ==
  ASSUME KeyInv, KeepInv, Execute, NEW b \in BOOLEAN, b => job.kind # "resend"
  PROVE  /\ Succeeds(rows', rows, turns, b)
         /\ Careful(Tail(job.todo), rows', turns, job.kind # "resend")
<1> DEFINE new == job.kind # "resend"
<1>1. PICK o : o = Head(job.todo)
  OBVIOUS
<1>2. PICK ops : ops = job.todo /\ ops \in Seq(Planned(job.batch)) /\ ops # <<>>
  BY DEF KeyInv, Shape, PlanRuns, Execute
<1>3. o \in Planned(job.batch) /\ o = ops[1] /\ 1 \in DOMAIN ops
  BY <1>1, <1>2
<1>4. Ordered(rows) /\ turns \in Nat
  BY DEF KeyInv, Shape
<1>5. Settled(rows, turns) /\ Careful(ops, rows, turns, new)
  BY <1>2 DEF KeepInv, Execute
<1> HIDE DEF new
<1>6. Careful(Tail(ops), rows, turns, new)
  BY <1>2, <1>5, CarefulTail
<1>7. /\ o.op \in {"write", "shift", "actor"}
      /\ o.op = "write" => o.row \in Row
      /\ o.op = "shift" => o.from \in Int /\ o.delta \in Nat
      /\ o.op = "actor" => o.actor \in Actor \cup {NoActor}
  BY <1>3, OpIs
<1>8. /\ o.op = "shift" => rows' = shift_canonical_turn_sort_keys(rows, o.from, o.delta)
      /\ o.op = "actor" => rows' = [i \in DOMAIN rows |->
                               IF /\ rows[i].id \in o.ids
                                  /\ rows[i].actor = NoActor
                                  /\ o.life \in {0, epoch}
                               THEN [rows[i] EXCEPT !.actor = o.actor]
                               ELSE rows[i]]
      /\ o.op = "write" => rows' = save_canonical_turn(rows, o.row) /\ ~Collides(rows, o.row)
  BY <1>1, <1>7 DEF Execute
<1>9. PICK t : t = rows'
  OBVIOUS
<1>10. o.op # "write" => new
  BY <1>3, <1>5 DEF Careful
<1> SUFFICES Succeeds(t, rows, turns, b) /\ Careful(Tail(ops), t, turns, new)
  BY <1>2, <1>9 DEF new
<1>11. CASE o.op = "shift"
  <2>1. PICK from \in Int : from = o.from
    BY <1>7, <1>11
  <2>2. PICK delta \in Nat : delta = o.delta
    BY <1>7, <1>11
  <2>3. t = shift_canonical_turn_sort_keys(rows, from, delta)
    BY <1>8, <1>9, <1>11, <2>1, <2>2
  <2>4. Ordered(t) /\ ShiftedBy(t, rows, from, delta)
    BY <1>4, <2>3, ShiftIs
  <2>5. DOMAIN t = DOMAIN rows
    BY <1>4, <2>4, OrderedIs DEF ShiftedBy
  <2>6. \A i \in DOMAIN rows : /\ t[i].id = rows[i].id /\ t[i].hash = rows[i].hash /\ Human(t[i])
                               /\ t[i].actor = rows[i].actor /\ t[i].tagged = rows[i].tagged
    BY <1>5, <2>4 DEF ShiftedBy, Settled, Human
  <2>7. Succeeds(t, rows, turns, b)
    BY <1>4, <1>5, <2>5, <2>6, SucceedsInPlace
  <2>8. Careful(Tail(ops), t, turns, new)
    BY <1>6, <1>10, <1>11, <2>5, <2>6, CarefulInPlace
  <2> QED BY <2>7, <2>8
<1>12. CASE o.op = "actor"
  <2> DEFINE E(r) == IF r.id \in o.ids /\ r.actor = NoActor /\ o.life \in {0, epoch}
                     THEN [r EXCEPT !.actor = o.actor] ELSE r
  <2>1. t = [i \in DOMAIN rows |-> E(rows[i])]
    BY <1>8, <1>9, <1>12
  <2>2. \A r \in Row : /\ E(r).id = r.id /\ E(r).hash = r.hash /\ E(r).tagged = r.tagged
                       /\ r.actor # NoActor => E(r).actor = r.actor
                       /\ r.id \notin o.ids => E(r).actor = r.actor
    BY DEF Row
  <2> HIDE DEF E
  <2>3. DOMAIN t = DOMAIN rows /\ \A i \in DOMAIN rows : rows[i] \in Row /\ t[i] = E(rows[i])
    BY <1>4, <2>1, OrderedIs
  <2>4. Users(o.ids, rows)
    BY <1>3, <1>5, <1>12 DEF Careful
  <2>5. \A i \in DOMAIN rows : rows[i].id \in o.ids => rows[i].hash \in UserMessage
    <3> SUFFICES ASSUME NEW i \in DOMAIN rows, rows[i].id \in o.ids PROVE rows[i].hash \in UserMessage
      OBVIOUS
    <3>1. PICK j \in DOMAIN rows : rows[j].id = rows[i].id /\ rows[j].hash \in UserMessage
      BY <2>4 DEF Users
    <3>2. i = j
      BY <1>5, <3>1 DEF Settled, Known, Unique
    <3> QED BY <3>1, <3>2
  <2>6. \A i \in DOMAIN rows : /\ t[i].id = rows[i].id /\ t[i].hash = rows[i].hash /\ Human(t[i])
                               /\ rows[i].actor # NoActor => t[i].actor = rows[i].actor
                               /\ t[i].tagged = rows[i].tagged
    <3> TAKE i \in DOMAIN rows
    <3>1. PICK r \in Row : r = rows[i] /\ t[i] = E(r)
      BY <2>3
    <3>2. /\ E(r).id = r.id /\ E(r).hash = r.hash /\ E(r).tagged = r.tagged
          /\ r.actor # NoActor => E(r).actor = r.actor
          /\ r.id \notin o.ids => E(r).actor = r.actor
      BY <2>2
    <3>3. Human(r) /\ (r.id \in o.ids => r.hash \in UserMessage)
      BY <1>5, <2>5, <3>1 DEF Settled
    <3> QED BY <3>1, <3>2, <3>3 DEF Human
  <2>7. Succeeds(t, rows, turns, b)
    BY <1>4, <1>5, <2>3, <2>6, SucceedsInPlace
  <2>8. Careful(Tail(ops), t, turns, new)
    BY <1>6, <1>10, <1>12, <2>3, <2>6, CarefulInPlace
  <2> QED BY <2>7, <2>8
<1>13. CASE o.op = "write"
  <2>1. PICK r \in Row : r = o.row
    BY <1>7, <1>13
  <2>2. t = save_canonical_turn(rows, r) /\ ~Collides(rows, r)
    BY <1>8, <1>9, <1>13, <2>1
  <2>3. Human(r) /\ r.id <= turns
    BY <1>3, <1>5, <1>13, <2>1 DEF Careful
  <2>4. IF new THEN \A i \in DOMAIN rows : rows[i].id # r.id ELSE Follows(r, rows, FALSE)
    BY <1>3, <1>5, <1>13, <2>1 DEF Careful
  <2>5. Follows(r, rows, b) /\ Follows(r, rows, FALSE)
    <3>1. CASE new
      BY <2>4, <3>1 DEF Follows
    <3>2. CASE ~new
      <4>1. ~b
        BY <3>2 DEF new
      <4> QED BY <2>4, <3>2, <4>1 DEF Follows
    <3> QED BY <3>1, <3>2
  <2>6. Unique(rows)
    BY <1>5 DEF Settled, Known
  <2>7. /\ Kept(rows, t, b) /\ Holds(rows, t) /\ Unique(t) /\ Kept(rows, t, FALSE)
    BY <1>4, <2>2, <2>5, <2>6, SaveKeeps
  <2>8. \A k \in DOMAIN t : t[k] = r \/ \E i \in DOMAIN rows : t[k] = rows[i]
    BY <1>4, <2>2, SaveIs
  <2>9. Settled(t, turns)
    BY <1>5, <2>3, <2>7, <2>8 DEF Settled, Known
  <2>10. Careful(Tail(ops), t, turns, new)
    BY <1>1, <1>2, <1>5, <1>13, <2>1, <2>7, <2>8, CarefulSave
  <2> QED BY <2>7, <2>9, <2>10 DEF Succeeds
<1> QED BY <1>7, <1>11, <1>12, <1>13

\* A call that begins.
LEMMA BeginSucceeds ==
  ASSUME KeyInv, KeepInv, pc = "idle", NEW kind, NEW p, NEW s, s = Loaded(rows), NEW ops, NEW next,
         next # "idle", Begin(kind, p, s, ops, next),
         NEW n \in Nat, n = Cardinality({k \in DOMAIN ops : ops[k].op = "write" /\ ops[k].row.id > turns}),
         next = "write" => Careful(ops, s, turns + n, kind # "resend")
  PROVE  KeepInv'
<1>1. Ordered(rows) /\ turns \in Nat
  BY DEF KeyInv, Shape
<1>2. /\ rows' = s /\ turns' = turns + n /\ pc' = next /\ epoch' = epoch
      /\ job' = [kind |-> kind, payload |-> p, batch |-> batches + 1, life |-> epoch,
             todo |-> ops, wrote |-> \E k \in DOMAIN ops : ops[k].op = "write",
             undo |-> IF Transactional THEN <<rows, anchors>> ELSE <<>>]
  BY DEF Begin
<1>3. /\ job'.todo = ops /\ job'.kind = kind /\ job'.life = epoch
      /\ Transactional => job'.undo[1] = rows
  BY <1>2
<1>4. Ordered(s) /\ Alike(s, rows) /\ SameStamps(s, rows)
  BY <1>1, LoadedIs
<1>5. Settled(rows, turns + n)
  BY <1>1, SettledMore DEF KeepInv
<1>6. PICK b : b = (kind = "batch")
  OBVIOUS
<1>7. \A i \in DOMAIN rows : /\ s[i].id = rows[i].id /\ s[i].hash = rows[i].hash /\ Human(s[i])
                             /\ s[i].actor = rows[i].actor /\ s[i].tagged = rows[i].tagged
  BY <1>4, <1>5 DEF Alike, SameStamps, Settled, Human
<1>8. DOMAIN s = DOMAIN rows
  BY <1>4 DEF Alike
<1>9. Succeeds(s, rows, turns + n, b)
  BY <1>1, <1>5, <1>7, <1>8, SucceedsInPlace
<1>10. Settled(s, turns + n)
  BY <1>9 DEF Succeeds
<1> QED BY <1>2, <1>3, <1>5, <1>6, <1>9, <1>10 DEF KeepInv
LEMMA BatchSucceeds ==
  ASSUME KeyInv, KeepInv, NEW p \in Payload, NEW actor \in Actor \cup {NoActor}, ingest_batch(p, actor)
  PROVE  KeepInv'
<1> DEFINE s == Loaded(rows)
           ops == PreparedOps(s, p, actor, batches + 1, epoch, turns, TRUE)
           c == Cardinality({k \in DOMAIN ops : ops[k].op = "write" /\ ops[k].row.id > turns})
<1>1. pc = "idle" /\ Sound(s, p) /\ Begin("batch", p, s, ops, Writes(ops))
  BY DEF ingest_batch
<1>2. Ordered(s)
  BY LoadedIs DEF KeyInv, Shape
<1>3. p \in Seq(Message)
  BY ReconcilerAssumption
<1>4. batches + 1 \in Nat /\ epoch \in Nat /\ turns \in Nat
  BY DEF KeyInv, Shape
<1>5. Known(s, turns) /\ \A i \in DOMAIN s : s[i].id \in Nat
  <2>1. Alike(s, rows)
    BY LoadedIs DEF KeyInv, Shape
  <2>2. \A i \in DOMAIN s : s[i].id \in Nat
    BY <1>2, OrderedIs
  <2> HIDE DEF s
  <2> QED BY <2>1, <2>2 DEF KeepInv, Settled, Known, Unique, Alike
<1>6. s = Loaded(rows)
  OBVIOUS
<1> HIDE DEF s
<1>7. Plannable(ops, s, batches + 1)
  BY <1>1, <1>2, <1>3, <1>4, PreparedRuns DEF Sound
<1>8. PICK n \in Nat : Fresh(ops, s, turns, n)
  BY <1>1, <1>2, <1>3, <1>4, FreshPrepared DEF Sound
<1>9. Writes(ops) # "idle"
  BY DEF Writes
<1>10. ops \in Seq(Planned(batches + 1))
  BY <1>7 DEF Plannable
<1> HIDE DEF ops
<1>11. c \in Nat /\ n <= c
  BY <1>4, <1>8, <1>10, FreshCount
<1> HIDE DEF c
<1>12. Careful(ops, s, turns + c, TRUE)
  <2>1. turns + n <= turns + c /\ turns + c \in Nat
    BY <1>4, <1>11
  <2> QED BY <1>4, <1>5, <1>8, <1>10, <2>1, FreshIsCareful
<1>13. Careful(ops, s, turns + c, "batch" # "resend")
  BY <1>12
<1> QED BY <1>1, <1>6, <1>9, <1>11, <1>13, BeginSucceeds DEF c

LEMMA SingleSucceeds ==
  ASSUME KeyInv, KeepInv, NEW p \in Pair, NEW actor \in Actor \cup {NoActor}, ingest_single(p, actor)
  PROVE  KeepInv'
<1> DEFINE s == Loaded(rows)
           tail == s[Len(s)]
           up == UpgradeOp(s, {Len(s)}, actor, epoch)
           half == WriteOps(<<p[2]>>, KeysAbove(tail.key, 1), actor, batches + 1, turns)
           other == PreparedOps(s, p, actor, batches + 1, 0, turns, FALSE)
           ops == IF s # <<>> /\ tail.hash = p[1] THEN up \o half ELSE other
           c == Cardinality({k \in DOMAIN ops : ops[k].op = "write" /\ ops[k].row.id > turns})
<1>1. pc = "idle" /\ Begin("single", p, s, ops, Writes(ops))
  BY DEF ingest_single
<1>2. Ordered(s)
  BY LoadedIs DEF KeyInv, Shape
<1>3. p \in Seq(Message) /\ Len(p) = 2 /\ <<p[2]>> \in Seq(Message) /\ Len(<<p[2]>>) = 1
  <2>1. p \in UserMessage \X (Message \ UserMessage) /\ UserMessage \subseteq Message
    BY ReconcilerAssumption
  <2>2. p = <<p[1], p[2]>> /\ p[1] \in Message /\ p[2] \in Message
    BY <2>1
  <2>3. PICK u \in Message, v \in Message : p = <<u, v>> /\ v = p[2]
    BY <2>2
  <2>4. <<u, v>> \in Seq(Message) /\ Len(<<u, v>>) = 2 /\ <<v>> \in Seq(Message) /\ Len(<<v>>) = 1
    OBVIOUS
  <2> QED BY <2>3, <2>4
<1>4. batches + 1 \in Nat /\ epoch \in Nat /\ turns \in Nat /\ 0 \in Nat
  BY DEF KeyInv, Shape
<1>5. Known(s, turns) /\ \A i \in DOMAIN s : s[i].id \in Nat
  <2>1. Alike(s, rows)
    BY LoadedIs DEF KeyInv, Shape
  <2>2. \A i \in DOMAIN s : s[i].id \in Nat
    BY <1>2, OrderedIs
  <2> HIDE DEF s
  <2> QED BY <2>1, <2>2 DEF KeepInv, Settled, Known, Unique, Alike
<1>6. s = Loaded(rows)
  OBVIOUS
<1> HIDE DEF s
<1>7. other \in Seq(Planned(batches + 1)) /\ \E n \in Nat : Fresh(other, s, turns, n)
  <2>1. Len(p) < 3 /\ FALSE \in BOOLEAN
    BY <1>3
  <2>2. Plannable(other, s, batches + 1)
    BY <1>2, <1>3, <1>4, <2>1, PreparedRuns
  <2> QED BY <1>2, <1>3, <1>4, <2>1, <2>2, FreshPrepared DEF Plannable
<1>8. s # <<>> => up \o half \in Seq(Planned(batches + 1)) /\ \E n \in Nat : Fresh(up \o half, s, turns, n)
  <2> SUFFICES ASSUME s # <<>>
               PROVE  up \o half \in Seq(Planned(batches + 1)) /\ \E n \in Nat : Fresh(up \o half, s, turns, n)
    OBVIOUS
  <2>1. Len(s) \in DOMAIN s /\ tail.key \in Int /\ \A i \in DOMAIN s : s[i].key <= tail.key
    BY <1>2, LastIsGreatest
  <2>2. up \in Seq(Planned(batches + 1)) /\ Fresh(up, s, turns, 0)
    <3>1. {Len(s)} \in SUBSET DOMAIN s
      BY <2>1
    <3> QED BY <1>2, <1>4, <3>1, RunsUpgrade, FreshUpgrade
  <2>3. PICK x \in Int : x = tail.key
    BY <2>1
  <2>4. Plannable(WriteOps(<<p[2]>>, KeysAbove(x, Len(<<p[2]>>)), actor, batches + 1, turns), s, batches + 1)
    BY <1>2, <1>3, <1>4, <2>1, <2>3, AppendRuns
  <2>5. half \in Seq(Planned(batches + 1))
    BY <1>3, <2>3, <2>4 DEF Plannable
  <2>6. Fresh(half, s, turns, 1)
    BY <1>3, <1>4, FreshWrites
  <2> HIDE DEF up, half
  <2>7. Fresh(half, s, turns + 0, 1) /\ 0 \in Nat /\ 1 \in Nat /\ 0 + 1 \in Nat
    BY <1>4, <2>6
  <2>8. Fresh(up \o half, s, turns, 0 + 1)
    BY <1>4, <2>2, <2>5, <2>7, FreshThen
  <2> QED BY <2>2, <2>5, <2>7, <2>8, ConcatProperties
<1> HIDE DEF up, half, other
<1>9. ops \in Seq(Planned(batches + 1)) /\ \E n \in Nat : Fresh(ops, s, turns, n)
  BY <1>7, <1>8
<1>10. Writes(ops) # "idle"
  BY DEF Writes
<1> HIDE DEF ops
<1>11. PICK n \in Nat : Fresh(ops, s, turns, n)
  BY <1>9
<1>12. c \in Nat /\ n <= c
  BY <1>4, <1>9, <1>11, FreshCount
<1> HIDE DEF c
<1>13. Careful(ops, s, turns + c, TRUE)
  <2>1. turns + n <= turns + c /\ turns + c \in Nat
    BY <1>4, <1>12
  <2> QED BY <1>4, <1>5, <1>9, <1>11, <2>1, FreshIsCareful
<1>14. Careful(ops, s, turns + c, "single" # "resend")
  BY <1>13
<1> QED BY <1>1, <1>6, <1>10, <1>12, <1>14, BeginSucceeds DEF c

LEMMA ResendSucceeds ==
  ASSUME KeyInv, KeepInv, NEW p \in Pair, NEW actor \in Actor \cup {NoActor}, ResendPair(p, actor)
  PROVE  KeepInv'
<1> DEFINE s == Loaded(rows)
           m == Len(s) - Len(Recent(s))
           at == {i \in m + 1..Len(s) - 1 : Window(Hashes(s), i, 2) = p}
           Re(k) == Rewritten(s[Min(at) + k - 1], actor)
           ops == [k \in 1..2 |-> [op |-> "write", row |-> Re(k)]]
           W == {k \in DOMAIN ops : ops[k].op = "write" /\ ops[k].row.id > turns}
           c == Cardinality(W)
<1>1. pc = "idle" /\ at # {} /\ Begin("resend", p, s, ops, "write")
  BY DEF ResendPair
<1>2. Ordered(s)
  BY LoadedIs DEF KeyInv, Shape
<1>3. PICK N \in Nat : N = Len(s) /\ DOMAIN s = 1..N
  BY <1>2, OrderedIs
<1>4. Settled(s, turns) /\ \A i \in DOMAIN s : s[i].id \in Nat
  <2>1. Alike(s, rows) /\ SameStamps(s, rows)
    BY LoadedIs DEF KeyInv, Shape
  <2>2. \A i \in DOMAIN s : s[i].id \in Nat
    BY <1>2, OrderedIs
  <2> HIDE DEF s
  <2> QED BY <2>1, <2>2 DEF KeepInv, Settled, Known, Unique, Alike, SameStamps, Human
<1>5. Min(at) \in 1..(N - 1)
  <2>1. m \in Nat
    <3> HIDE DEF s
    <3> QED BY <1>2, RecentIs
  <2> HIDE DEF s, m
  <2>2. at \in SUBSET Nat /\ \A i \in at : i \in 1..(N - 1)
    BY <1>3, <2>1
  <2> HIDE DEF at
  <2> QED BY <1>1, <2>2, LeastIs
<1>6. s = Loaded(rows)
  OBVIOUS
<1> HIDE DEF s, m, at
<1>7. PICK e \in 1..(N - 1) : e = Min(at)
  BY <1>5
<1>8. \A k \in 1..2 : e + k - 1 \in DOMAIN s /\ s[e + k - 1] \in Row
  <2>1. \A k \in 1..2 : e + k - 1 \in 1..N
    OBVIOUS
  <2>2. \A i \in 1..N : s[i] \in Row
    BY <1>2, <1>3, OrderedIs
  <2> QED BY <1>3, <2>1, <2>2
<1>9. \A r \in Row : /\ Rewritten(r, actor).id = r.id /\ Rewritten(r, actor).key = r.key
                     /\ Rewritten(r, actor).hash = r.hash
                     /\ r.actor # NoActor => Rewritten(r, actor).actor = r.actor
                     /\ r.hash \notin UserMessage => Rewritten(r, actor).actor = r.actor
  BY DEF Rewritten, Row
<1>10. \A k \in 1..2 : Re(k) = Rewritten(s[e + k - 1], actor)
  BY <1>7
<1>11. \A k \in 1..2 : /\ Re(k).id = s[e + k - 1].id /\ Re(k).key = s[e + k - 1].key
                       /\ Re(k).hash = s[e + k - 1].hash
                       /\ s[e + k - 1].actor # NoActor => Re(k).actor = s[e + k - 1].actor
                       /\ s[e + k - 1].hash \notin UserMessage => Re(k).actor = s[e + k - 1].actor
  <2> HIDE DEF Re
  <2> TAKE k \in 1..2
  <2>1. PICK r \in Row : r = s[e + k - 1]
    BY <1>8
  <2>2. Re(k) = Rewritten(r, actor)
    BY <1>10, <2>1
  <2> QED BY <1>9, <2>1, <2>2
<1> HIDE DEF Re
<1>12. DOMAIN ops = 1..2 /\ \A k \in 1..2 : ops[k].op = "write" /\ ops[k].row = Re(k)
  OBVIOUS
<1> HIDE DEF ops
<1>13. c \in Nat
  <2>1. W \subseteq 1..2
    BY <1>12
  <2>2. IsFiniteSet(1..2)
    <3>1. PICK z \in Int : z = 2
      OBVIOUS
    <3>2. IsFiniteSet(1..z)
      <4>1. 1 \in Int
        OBVIOUS
      <4> QED BY <4>1, FS_Interval
    <3> QED BY <3>1, <3>2
  <2> HIDE DEF W
  <2> QED BY <2>1, <2>2, FS_Subset, FS_CardinalityType
<1>14. turns \in Nat
  BY DEF KeyInv, Shape
<1>15. ASSUME NEW k \in 1..2
       PROVE  Human(Re(k)) /\ Re(k).id <= turns + c /\ Follows(Re(k), s, FALSE)
  <2>1. PICK i \in DOMAIN s : i = e + k - 1
    BY <1>8
  <2>2. /\ Re(k).id = s[i].id /\ Re(k).key = s[i].key /\ Re(k).hash = s[i].hash
        /\ s[i].actor # NoActor => Re(k).actor = s[i].actor
        /\ s[i].hash \notin UserMessage => Re(k).actor = s[i].actor
    BY <1>11, <2>1
  <2>3. Human(Re(k))
    BY <1>4, <2>2 DEF Settled, Human
  <2>4. Re(k).id <= turns + c
    <3>1. s[i].id \in Nat /\ s[i].id <= turns
      BY <1>4 DEF Settled, Known
    <3> HIDE DEF c
    <3> QED BY <1>13, <1>14, <2>2, <3>1
  <2>5. Follows(Re(k), s, FALSE)
    <3> SUFFICES ASSUME NEW j \in DOMAIN s, s[j].id = Re(k).id
                 PROVE  /\ s[j].key = Re(k).key /\ s[j].hash = Re(k).hash
                        /\ s[j].actor # NoActor => Re(k).actor = s[j].actor
      BY DEF Follows
    <3>1. i = j
      BY <1>4, <2>2 DEF Settled, Known, Unique
    <3> QED BY <2>2, <3>1
  <2> QED BY <2>3, <2>4, <2>5
<1>16. ASSUME NEW x, NEW k \in 1..2, NEW l \in 1..2, Write(ops[k], x), Write(ops[l], x)
       PROVE  k = l
  <2>1. s[e + k - 1].id = s[e + l - 1].id
    BY <1>11, <1>12, <1>16 DEF Write
  <2>2. e + k - 1 = e + l - 1
    BY <1>4, <1>8, <2>1 DEF Settled, Known, Unique
  <2> QED BY <2>2
<1>17. Careful(ops, s, turns + c, "resend" # "resend")
  BY <1>12, <1>15, <1>16 DEF Careful
<1> HIDE DEF c
<1> QED BY <1>1, <1>6, <1>13, <1>17, BeginSucceeds DEF c, W
LEMMA SucceedsLeaves ==
  ASSUME NEW s, Ordered(s), NEW t, Ordered(t), NEW u, NEW b, Succeeds(t, s, u, b), Settled(s, u), NEW x, NEW e
  PROVE  Leaves(s, t, b, x, e)
<1>1. \A i \in DOMAIN s : \E k \in DOMAIN t : t[k].id = s[i].id
  BY DEF Succeeds, Holds
<1> QED BY <1>1 DEF Succeeds, Settled, Known, Leaves

LEMMA LeavesSame ==
  ASSUME NEW s, Ordered(s), NEW u, Settled(s, u), NEW b, NEW x, NEW e
  PROVE  Leaves(s, s, b, x, e) /\ Succeeds(s, s, u, b)
<1>1. Succeeds(s, s, u, b)
  <2>1. \A i \in DOMAIN s : Human(s[i])
    BY DEF Settled
  <2> QED BY <2>1, SucceedsInPlace
<1> QED BY <1>1, SucceedsLeaves

LEMMA LeavesIs ==
  ASSUME NEW s, NEW t, NEW b, NEW x, NEW e, Leaves(s, t, b, x, e)
  PROVE  /\ Contents(s, Ids(s) \cap Ids(t)) = Contents(t, Ids(s) \cap Ids(t))
         /\ \A i \in DOMAIN s : s[i].id \notin Ids(s) \cap Ids(t) => s[i].batch = x /\ e
         /\ \A k \in DOMAIN t :
              /\ t[k].actor # NoActor => t[k].hash \in UserMessage
              /\ \A i \in DOMAIN s : s[i].id = t[k].id =>
                   /\ s[i].actor # NoActor => t[k].actor = s[i].actor
                   /\ s[i].tagged /\ b => t[k].tagged
<1>1. Contents(s, Ids(s) \cap Ids(t)) = Contents(t, Ids(s) \cap Ids(t))
  BY SameContents DEF Leaves
<1>2. ASSUME NEW i \in DOMAIN s, s[i].id \notin Ids(s) \cap Ids(t) PROVE s[i].batch = x /\ e
  <2>1. \A k \in DOMAIN t : t[k].id # s[i].id
    BY <1>2 DEF Ids
  <2> QED BY <2>1 DEF Leaves
<1>3. ASSUME NEW k \in DOMAIN t
      PROVE  /\ t[k].actor # NoActor => t[k].hash \in UserMessage
             /\ \A i \in DOMAIN s : s[i].id = t[k].id =>
                  /\ s[i].actor # NoActor => t[k].actor = s[i].actor
                  /\ s[i].tagged /\ b => t[k].tagged
  <2>1. t[k].actor # NoActor => t[k].hash \in UserMessage
    BY DEF Leaves, Human
  <2>2. ASSUME NEW i \in DOMAIN s, s[i].id = t[k].id
        PROVE  /\ s[i].actor # NoActor => t[k].actor = s[i].actor
               /\ s[i].tagged /\ b => t[k].tagged
    BY <2>2 DEF Leaves, Kept
  <2> QED BY <2>1, <2>2
<1> QED BY <1>1, <1>2, <1>3

LEMMA BeginLeaves ==
  ASSUME KeyInv, KeyInv', KeepInv, KeepInv', pc = "idle", NEW kind, NEW p, NEW s, s = Loaded(rows), NEW ops, NEW next,
         next # "idle", Begin(kind, p, s, ops, next)
  PROVE  Leaving
<1>1. Ordered(rows) /\ Settled(rows, turns)
  BY DEF KeyInv, Shape, KeepInv
<1>2. Committed = rows
  BY DEF Committed
<1>3. CASE Transactional
  <2>1. job'.undo[1] = rows /\ pc' # "idle"
    BY <1>3 DEF Begin
  <2>2. Committed' = rows
    BY <1>3, <2>1 DEF Committed
  <2> QED BY <1>1, <1>2, <2>2, LeavesSame DEF Leaving
<1>4. CASE ~Transactional
  <2>1. Committed' = s
    BY <1>4 DEF Committed, Begin
  <2>2. Ordered(s) /\ Alike(s, rows) /\ SameStamps(s, rows)
    BY <1>1, LoadedIs
  <2>3. PICK b : b = (job.kind = "batch")
    OBVIOUS
  <2>4. \A i \in DOMAIN rows : /\ s[i].id = rows[i].id /\ s[i].hash = rows[i].hash /\ Human(s[i])
                               /\ s[i].actor = rows[i].actor /\ s[i].tagged = rows[i].tagged
    BY <1>1, <2>2 DEF Alike, SameStamps, Settled, Human
  <2>5. DOMAIN s = DOMAIN rows
    BY <2>2 DEF Alike
  <2>6. Succeeds(s, rows, turns, b)
    BY <1>1, <2>4, <2>5, SucceedsInPlace
  <2> QED BY <1>1, <1>2, <2>1, <2>2, <2>3, <2>6, SucceedsLeaves DEF Leaving
<1> QED BY <1>3, <1>4

\* A step inside a call, or outside of any.
LEMMA OnwardLeaves ==
  ASSUME KeyInv, KeyInv', KeepInv, turns' = turns, (pc = "idle") <=> (pc' = "idle"),
         job'.undo = job.undo, job'.kind = job.kind, job'.life = job.life,
         Transactional /\ pc # "idle" => epoch' = epoch,
         Succeeds(rows', rows, turns, job.kind = "batch"),
         pc' = "write" => Careful(job'.todo, rows', turns, job.kind # "resend")
  PROVE  KeepInv' /\ Leaving
<1>1. Ordered(rows) /\ Ordered(rows') /\ Settled(rows, turns)
  BY DEF KeyInv, Shape, KeepInv
<1>2. PICK t : t = rows'
  OBVIOUS
<1>3. PICK b : b = (job.kind = "batch")
  OBVIOUS
<1>4. Succeeds(t, rows, turns, b) /\ Settled(t, turns) /\ Ordered(t)
  BY <1>1, <1>2, <1>3 DEF Succeeds
<1>5. CASE Transactional /\ pc # "idle"
  <2>1. PICK u : u = job.undo[1]
    OBVIOUS
  <2>2. Ordered(u) /\ Settled(u, turns) /\ job.life = epoch /\ Succeeds(rows, u, turns, b)
    BY <1>3, <1>5, <2>1 DEF KeyInv, UndoOrdered, KeepInv
  <2>3. Succeeds(t, u, turns, b)
    BY <1>4, <2>2, SucceedsThen
  <2>4. KeepInv'
    BY <1>2, <1>3, <1>4, <1>5, <2>1, <2>2, <2>3 DEF KeepInv
  <2>5. Committed = u /\ Committed' = u
    BY <1>5, <2>1 DEF Committed
  <2> QED BY <2>2, <2>4, <2>5, LeavesSame DEF Leaving
<1>6. CASE ~ (Transactional /\ pc # "idle")
  <2>1. KeepInv'
    BY <1>2, <1>4, <1>6 DEF KeepInv
  <2>2. Committed = rows /\ Committed' = t
    BY <1>2, <1>6 DEF Committed
  <2> QED BY <1>1, <1>3, <1>4, <2>1, <2>2, SucceedsLeaves DEF Leaving
<1> QED BY <1>5, <1>6

LEMMA StepLeaves ==
  ASSUME KeyInv, RaceInv, KeepInv, KeyInv', [Next]_vars
  PROVE  KeepInv' /\ Leaving
<1>0. Ordered(rows) /\ Settled(rows, turns)
  BY DEF KeyInv, Shape, KeepInv
<1>b. PICK b \in BOOLEAN : b = (job.kind = "batch")
  OBVIOUS
<1>s. Succeeds(rows, rows, turns, b)
  BY <1>0, LeavesSame
<1>1. ASSUME NEW p \in Payload, NEW a \in Actor \cup {NoActor}, ingest_batch(p, a)
      PROVE  KeepInv' /\ Leaving
  <2>1. KeepInv'
    BY <1>1, BatchSucceeds
  <2>2. PICK ops : pc = "idle" /\ Begin("batch", p, Loaded(rows), ops, Writes(ops))
    BY <1>1 DEF ingest_batch
  <2>3. Writes(ops) # "idle"
    BY DEF Writes
  <2> QED BY <2>1, <2>2, <2>3, BeginLeaves
<1>2. ASSUME NEW p \in Pair, NEW a \in Actor \cup {NoActor}, ResendPair(p, a)
      PROVE  KeepInv' /\ Leaving
  <2>1. KeepInv'
    BY <1>2, ResendSucceeds
  <2>2. PICK ops : pc = "idle" /\ Begin("resend", p, Loaded(rows), ops, "write")
    BY <1>2 DEF ResendPair
  <2> QED BY <2>1, <2>2, BeginLeaves
<1>3. ASSUME NEW p \in Pair, NEW a \in Actor \cup {NoActor}, ingest_single(p, a)
      PROVE  KeepInv' /\ Leaving
  <2>1. KeepInv'
    BY <1>3, SingleSucceeds
  <2>2. PICK ops : pc = "idle" /\ Begin("single", p, Loaded(rows), ops, Writes(ops))
    BY <1>3 DEF ingest_single
  <2>3. Writes(ops) # "idle"
    BY DEF Writes
  <2> QED BY <2>1, <2>2, <2>3, BeginLeaves
<1>4. CASE Execute
  <2>1. Succeeds(rows', rows, turns, b) /\ Careful(Tail(job.todo), rows', turns, job.kind # "resend")
    BY <1>4, <1>b, ExecuteSucceeds
  <2>2. /\ job' = [job EXCEPT !.todo = Tail(job.todo)] /\ pc = "write" /\ pc' # "idle"
        /\ turns' = turns /\ epoch' = epoch
    BY <1>4 DEF Execute
  <2>3. job = [kind |-> job.kind, payload |-> job.payload, batch |-> job.batch,
               life |-> job.life, todo |-> job.todo, wrote |-> job.wrote, undo |-> job.undo]
    BY DEF KeyInv, Shape
  <2>4. job'.undo = job.undo /\ job'.life = job.life /\ job'.kind = job.kind /\ job'.todo = Tail(job.todo)
    BY <2>2, <2>3
  <2> QED BY <1>b, <2>1, <2>2, <2>4, OnwardLeaves
<1>5. CASE Regroup
  <2>1. /\ job' = job /\ turns' = turns /\ epoch' = epoch /\ pc = "groups" /\ pc' = "anchors"
    BY <1>5 DEF Regroup, Advance
  <2>2. PICK t : t = rows'
    OBVIOUS
  <2>3. t = rows \/ (Alike(t, rows) /\ SameStamps(t, rows))
    BY <1>0, <1>5, <2>2, RecomputeIs DEF Regroup
  <2>4. Succeeds(t, rows, turns, b)
    <3>1. CASE t = rows
      BY <1>s, <3>1
    <3>2. CASE Alike(t, rows) /\ SameStamps(t, rows)
      <4>1. \A i \in DOMAIN rows : /\ t[i].id = rows[i].id /\ t[i].hash = rows[i].hash /\ Human(t[i])
                                   /\ t[i].actor = rows[i].actor /\ t[i].tagged = rows[i].tagged
        BY <1>0, <3>2 DEF Alike, SameStamps, Settled, Human
      <4>2. DOMAIN t = DOMAIN rows
        BY <3>2 DEF Alike
      <4> QED BY <1>0, <4>1, <4>2, SucceedsInPlace
    <3> QED BY <2>3, <3>1, <3>2
  <2> QED BY <1>b, <2>1, <2>2, <2>4, OnwardLeaves
<1>6. CASE _refresh_persisted_anchors
  <2>1. /\ job' = job /\ turns' = turns /\ epoch' = epoch /\ pc = "anchors" /\ pc' = "check" /\ rows' = rows
    BY <1>6 DEF _refresh_persisted_anchors, Advance
  <2> QED BY <1>b, <1>s, <2>1, OnwardLeaves
<1>7. CASE Finish
  <2> DEFINE keep == {i \in DOMAIN rows : rows[i].batch # job.batch}
  <2>1. /\ rows' = IF job.kind = "batch" /\ job.life # epoch THEN Select(rows, keep) ELSE rows
        /\ turns' = turns /\ pc' = "idle" /\ pc = "check"
    BY <1>7 DEF Finish
  <2>2. Committed' = rows'
    BY <2>1 DEF Committed
  <2>3. CASE job.kind = "batch" /\ job.life # epoch
    <3>1. ~Transactional
      BY <2>1, <2>3 DEF KeepInv
    <3>2. PICK t : t = rows' /\ t = Select(rows, keep)
      BY <2>1, <2>3
    <3>3. keep \in SUBSET DOMAIN rows
      OBVIOUS
    <3>4. \A i \in DOMAIN rows : i \notin keep => rows[i].batch = job.batch
      OBVIOUS
    <3> HIDE DEF keep
    <3>5. Unique(rows)
      BY <1>0 DEF Settled, Known
    <3>6. /\ Kept(rows, t, b) /\ Unique(t)
          /\ \A i \in DOMAIN rows : (\A k \in DOMAIN t : t[k].id # rows[i].id) => i \notin keep
      BY <1>0, <3>2, <3>3, <3>5, SelectKeeps
    <3>7. Ordered(t) /\ \A k \in DOMAIN t : \E i \in keep : t[k] = rows[i]
      BY <1>0, <3>2, <3>3, SelectIs
    <3>8. \A k \in DOMAIN t : Human(t[k]) /\ t[k].id <= turns
      BY <1>0, <3>3, <3>7 DEF Settled, Known
    <3>9. Settled(t, turns)
      BY <3>6, <3>8 DEF Settled, Known
    <3>10. KeepInv'
      BY <2>1, <3>2, <3>9 DEF KeepInv
    <3>11. Leaves(rows, t, b, job.batch, pc' = "idle")
      BY <1>0, <2>1, <3>4, <3>5, <3>6, <3>7, <3>8 DEF Leaves
    <3>12. Committed = rows
      BY <3>1 DEF Committed
    <3> QED BY <1>b, <2>2, <3>2, <3>10, <3>11, <3>12 DEF Leaving
  <2>4. CASE ~ (job.kind = "batch" /\ job.life # epoch)
    <3>1. rows' = rows
      BY <2>1, <2>4
    <3>2. KeepInv'
      BY <1>0, <2>1, <3>1 DEF KeepInv
    <3>3. CASE Transactional
      <4>1. PICK u : u = job.undo[1]
        OBVIOUS
      <4>2. Ordered(u) /\ Settled(u, turns) /\ Succeeds(rows, u, turns, b)
        BY <1>b, <2>1, <3>3, <4>1 DEF KeyInv, UndoOrdered, KeepInv
      <4>3. Committed = u
        BY <2>1, <3>3, <4>1 DEF Committed
      <4> QED BY <1>0, <1>b, <2>2, <3>1, <3>2, <4>2, <4>3, SucceedsLeaves DEF Leaving
    <3>4. CASE ~Transactional
      <4>1. Committed = rows
        BY <3>4 DEF Committed
      <4> QED BY <1>0, <2>2, <3>1, <3>2, <4>1, LeavesSame DEF Leaving
    <3> QED BY <3>3, <3>4
  <2> QED BY <2>3, <2>4
<1>8. CASE Crash
  <2>1. turns' = turns /\ pc' = "idle" /\ pc # "idle"
    BY <1>8 DEF Crash
  <2>2. PICK u : u = Committed
    OBVIOUS
  <2>3. rows' = u
    BY <1>8, <2>2 DEF Crash, Committed
  <2>4. Committed' = u
    BY <2>1, <2>3 DEF Committed
  <2>5. Ordered(u) /\ Settled(u, turns)
    BY <1>0, <2>1, <2>2 DEF Committed, KeyInv, UndoOrdered, KeepInv
  <2>6. KeepInv'
    BY <2>1, <2>3, <2>5 DEF KeepInv
  <2> QED BY <2>2, <2>4, <2>5, <2>6, LeavesSame DEF Leaving
<1>9. CASE Resurrect
  <2>1. /\ job' = job /\ turns' = turns /\ pc' = pc /\ rows' = rows
        /\ Transactional => pc = "idle"
    BY <1>9 DEF Resurrect, jobVars
  <2>2. pc' = "write" => Careful(job'.todo, rows', turns, job.kind # "resend")
    BY <2>1 DEF KeepInv
  <2> QED BY <1>b, <1>s, <2>1, <2>2, OnwardLeaves
<1>10. CASE Tag
  <2> DEFINE E(r) == [r EXCEPT !.tagged = TRUE]
  <2>1. PICK t : t = rows' /\ t = [i \in DOMAIN rows |-> E(rows[i])]
    BY <1>10 DEF Tag
  <2>2. \A r \in Row : /\ E(r).id = r.id /\ E(r).key = r.key /\ E(r).hash = r.hash
                       /\ E(r).actor = r.actor /\ E(r).tagged
    BY DEF Row
  <2> HIDE DEF E
  <2>3. DOMAIN t = DOMAIN rows /\ \A i \in DOMAIN rows : rows[i] \in Row /\ t[i] = E(rows[i])
    BY <1>0, <2>1, OrderedIs
  <2>4. \A i \in DOMAIN rows : /\ t[i].id = rows[i].id /\ t[i].hash = rows[i].hash /\ t[i].key = rows[i].key
                               /\ t[i].actor = rows[i].actor /\ t[i].tagged /\ Human(t[i])
    <3> TAKE i \in DOMAIN rows
    <3>1. PICK r \in Row : r = rows[i] /\ t[i] = E(r)
      BY <2>3
    <3>2. /\ E(r).id = r.id /\ E(r).key = r.key /\ E(r).hash = r.hash
          /\ E(r).actor = r.actor /\ E(r).tagged
      BY <2>2
    <3>3. Human(r)
      BY <1>0, <3>1 DEF Settled
    <3> QED BY <3>1, <3>2, <3>3 DEF Human
  <2>5. Succeeds(t, rows, turns, b)
    BY <1>0, <2>3, <2>4, SucceedsInPlace
  <2>6. job' = job /\ turns' = turns /\ epoch' = epoch /\ pc' = pc
    BY <1>10 DEF Tag, jobVars
  <2>7. ASSUME pc = "write" PROVE Careful(job.todo, t, turns, job.kind # "resend")
    <3>1. Careful(job.todo, rows, turns, job.kind # "resend")
      BY <2>7 DEF KeepInv
    <3> QED BY <2>3, <2>4, <3>1, CarefulInPlace
  <2> QED BY <1>b, <2>1, <2>5, <2>6, <2>7, OnwardLeaves
<1>11. CASE UNCHANGED vars
  <2>1. /\ job' = job /\ turns' = turns /\ pc' = pc /\ rows' = rows /\ epoch' = epoch
    BY <1>11 DEF vars, jobVars
  <2>2. pc' = "write" => Careful(job'.todo, rows', turns, job.kind # "resend")
    BY <2>1 DEF KeepInv
  <2> QED BY <1>b, <1>s, <2>1, <2>2, OnwardLeaves
<1> QED BY <1>1, <1>2, <1>3, <1>4, <1>5, <1>6, <1>7, <1>8, <1>9, <1>10, <1>11 DEF Next

\* EarlierRowsKept holds on both stores, for any payloads, actors and rival
\* tagger, resurrections and deaths: what ingest_batch or ingest_single finds
\* stored keeps its content, its place among the other rows, its actor and, in a
\* batch, the tagger's stamp, and only the rollback of its own batch removes it.
THEOREM EarlierRowsAreKept == Spec => EarlierRowsKept
<1> DEFINE Rows == LET both == Ids(Committed) \cap Ids(Committed')
      IN  /\ Contents(Committed, both) = Contents(Committed', both)
          /\ \A i \in DOMAIN Committed : Committed[i].id \notin both
               => Committed[i].batch = job.batch /\ pc' = "idle"
          /\ \A k \in DOMAIN Committed' :
               /\ Committed'[k].actor # NoActor => Committed'[k].hash \in UserMessage
               /\ \A i \in DOMAIN Committed : Committed[i].id = Committed'[k].id =>
                    /\ Committed[i].actor # NoActor => Committed'[k].actor = Committed[i].actor
                    /\ Committed[i].tagged /\ job.kind = "batch" => Committed'[k].tagged
<1>1. Init => RaceInv /\ KeepInv
  <2>1. Init => RaceInv
    BY DEF Init, RaceInv, NoJob
  <2>2. Init => KeepInv
    BY DEF Init, KeepInv, Settled, Known, Unique
  <2> QED BY <2>1, <2>2
<1>2. KeyInv /\ RaceInv /\ [Next]_vars => RaceInv'
  BY StepKeepsRaces
<1>3. KeyInv /\ RaceInv /\ KeepInv /\ KeyInv' /\ [Next]_vars => KeepInv' /\ Rows
  <2> SUFFICES ASSUME KeyInv, RaceInv, KeepInv, KeyInv', [Next]_vars PROVE KeepInv' /\ Rows
    OBVIOUS
  <2>1. KeepInv' /\ Leaving
    BY StepLeaves
  <2>2. PICK s, t : s = Committed /\ t = Committed'
    OBVIOUS
  <2>3. PICK b, x, e : b = (job.kind = "batch") /\ x = job.batch /\ e = (pc' = "idle")
    OBVIOUS
  <2>4. Leaves(s, t, b, x, e)
    BY <2>1, <2>2, <2>3 DEF Leaving
  <2>5. /\ Contents(s, Ids(s) \cap Ids(t)) = Contents(t, Ids(s) \cap Ids(t))
        /\ \A i \in DOMAIN s : s[i].id \notin Ids(s) \cap Ids(t) => s[i].batch = x /\ e
        /\ \A k \in DOMAIN t :
              /\ t[k].actor # NoActor => t[k].hash \in UserMessage
              /\ \A i \in DOMAIN s : s[i].id = t[k].id =>
                   /\ s[i].actor # NoActor => t[k].actor = s[i].actor
                   /\ s[i].tagged /\ b => t[k].tagged
    BY <2>4, LeavesIs
  <2> QED BY <2>1, <2>2, <2>3, <2>5
<1> QED BY <1>1, <1>2, <1>3, KeyInvAlways, PTL DEF Spec, EarlierRowsKept

-----------------------------------------------------------------------------
(* Plans: what a list of writes makes of the stored contents.              *)

LEMMA GivesNone ==
  ASSUME NEW C
  PROVE  Gives(C, <<>>, C)
<1> DEFINE f == [k \in 1..1 |-> C]
<1>1. f[1] = C /\ Len(<<>>) + 1 = 1 /\ \A k \in 1..Len(<<>>) : FALSE
  OBVIOUS
<1> HIDE DEF f
<1> QED BY <1>1 DEF Gives

LEMMA GivesOne ==
  ASSUME NEW o, NEW C, NEW D, Does(o, C, D)
  PROVE  Gives(C, <<o>>, D)
<1> DEFINE f == [k \in 1..2 |-> IF k = 1 THEN C ELSE D]
<1>1. f[1] = C /\ f[2] = D
  OBVIOUS
<1>2. Len(<<o>>) = 1 /\ <<o>>[1] = o /\ \A k \in 1..1 : k = 1
  OBVIOUS
<1> HIDE DEF f
<1>3. \A k \in 1..Len(<<o>>) : Does(<<o>>[k], f[k], f[k + 1])
  BY <1>1, <1>2
<1> QED BY <1>1, <1>2, <1>3 DEF Gives

LEMMA GivesNothing ==
  ASSUME NEW C, NEW D, Gives(C, <<>>, D)
  PROVE  C = D
<1>1. Len(<<>>) + 1 = 1
  OBVIOUS
<1> QED BY <1>1 DEF Gives

LEMMA GivesThen ==
  ASSUME NEW S, NEW a \in Seq(S), NEW b \in Seq(S), NEW K, NEW L, NEW M,
         Gives(K, a, L), Gives(L, b, M)
  PROVE  Gives(K, a \o b, M)
<1>1. PICK f : /\ f[1] = K /\ f[Len(a) + 1] = L
               /\ \A k \in 1..Len(a) : Does(a[k], f[k], f[k + 1])
  BY DEF Gives
<1>2. PICK g : /\ g[1] = L /\ g[Len(b) + 1] = M
               /\ \A k \in 1..Len(b) : Does(b[k], g[k], g[k + 1])
  BY DEF Gives
<1>3. PICK m \in Nat : m = Len(a)
  OBVIOUS
<1>4. PICK n \in Nat : n = Len(b)
  OBVIOUS
<1>5. PICK c : c = a \o b
  OBVIOUS
<1>6. /\ Len(c) = m + n
      /\ \A i \in 1..(m + n) : c[i] = IF i <= m THEN a[i] ELSE b[i - m]
  BY <1>3, <1>4, <1>5, ConcatProperties
<1> DEFINE h == [k \in 1..(m + n + 1) |-> IF k <= m THEN f[k] ELSE g[k - m]]
<1>7. /\ \A k \in 1..m : h[k] = f[k]
      /\ \A k \in (m + 1)..(m + n + 1) : h[k] = g[k - m]
  OBVIOUS
<1> HIDE DEF h
<1>8. h[1] = K
  <2>1. CASE m = 0
    <3>1. h[1] = g[1]
      BY <1>7, <2>1, 1 \in (m + 1)..(m + n + 1), 1 - m = 1
    <3> QED BY <1>1, <1>2, <1>3, <2>1, <3>1
  <2>2. CASE m # 0
    <3>1. h[1] = f[1]
      BY <1>7, <2>2, 1 \in 1..m
    <3> QED BY <1>1, <3>1
  <2> QED BY <2>1, <2>2
<1>9. h[Len(c) + 1] = M
  <2>1. m + n + 1 \in (m + 1)..(m + n + 1) /\ (m + n + 1) - m = n + 1
    OBVIOUS
  <2> QED BY <1>2, <1>4, <1>6, <1>7, <2>1
<1>10. ASSUME NEW k \in 1..Len(c) PROVE Does(c[k], h[k], h[k + 1])
  <2>0. k \in 1..(m + n) /\ k \in Nat
    BY <1>6
  <2>1. CASE k < m
    <3>1. k \in 1..m /\ k + 1 \in 1..m /\ k <= m
      BY <2>0, <2>1
    <3> QED BY <1>1, <1>3, <1>6, <1>7, <2>0, <3>1
  <2>2. CASE k = m
    <3>1. k \in 1..m /\ k <= m /\ m + 1 \in (m + 1)..(m + n + 1) /\ (m + 1) - m = 1
      BY <2>0, <2>2
    <3>2. c[k] = a[m] /\ h[k] = f[m] /\ h[k + 1] = g[1]
      BY <1>6, <1>7, <2>0, <2>2, <3>1
    <3>3. Does(a[m], f[m], f[m + 1]) /\ f[m + 1] = g[1]
      BY <1>1, <1>2, <1>3, <2>2, <3>1
    <3> QED BY <3>2, <3>3
  <2>3. CASE k > m
    <3>1. /\ k - m \in 1..n /\ ~ (k <= m) /\ k \in (m + 1)..(m + n + 1)
          /\ k + 1 \in (m + 1)..(m + n + 1) /\ (k + 1) - m = (k - m) + 1
      BY <2>0, <2>3
    <3>2. c[k] = b[k - m] /\ h[k] = g[k - m] /\ h[k + 1] = g[(k - m) + 1]
      BY <1>6, <1>7, <2>0, <3>1
    <3> QED BY <1>2, <1>4, <3>1, <3>2
  <2> QED BY <2>0, <2>1, <2>2, <2>3
<1>11. Gives(K, c, M)
  BY <1>8, <1>9, <1>10 DEF Gives
<1> QED BY <1>5, <1>11

LEMMA GivesFirst ==
  ASSUME NEW S, NEW ops \in Seq(S), ops # <<>>, NEW C, NEW D, Gives(C, ops, D)
  PROVE  \E B : Does(Head(ops), C, B) /\ Gives(B, Tail(ops), D)
<1>1. PICK f : /\ f[1] = C /\ f[Len(ops) + 1] = D
               /\ \A k \in 1..Len(ops) : Does(ops[k], f[k], f[k + 1])
  BY DEF Gives
<1>2. PICK n \in Nat : n = Len(ops) /\ n # 0
  OBVIOUS
<1>3. PICK t : t = Tail(ops)
  OBVIOUS
<1>4. /\ Len(t) = n - 1 /\ \A i \in 1..(n - 1) : t[i] = ops[i + 1]
  BY <1>2, <1>3, HeadTailProperties
<1>5. Head(ops) = ops[1]
  OBVIOUS
<1>6. Does(Head(ops), C, f[2])
  <2>1. 1 \in 1..n /\ 1 + 1 = 2
    BY <1>2
  <2>2. Does(ops[1], f[1], f[2])
    BY <1>1, <1>2, <2>1
  <2> QED BY <1>1, <1>5, <2>2
<1> DEFINE g == [k \in 1..n |-> f[k + 1]]
<1>7. g[1] = f[2] /\ g[n] = f[n + 1] /\ \A k \in 1..(n - 1) : g[k] = f[k + 1] /\ g[k + 1] = f[(k + 1) + 1]
  BY <1>2
<1> HIDE DEF g
<1>8. \A k \in 1..(n - 1) : Does(t[k], g[k], g[k + 1])
  <2> TAKE k \in 1..(n - 1)
  <2>1. k + 1 \in 1..n
    BY <1>2
  <2>2. Does(ops[k + 1], f[k + 1], f[(k + 1) + 1])
    BY <1>1, <1>2, <2>1
  <2> QED BY <1>4, <1>7, <2>2
<1>9. Len(t) + 1 = n
  BY <1>2, <1>4
<1>10. Gives(f[2], t, D)
  BY <1>1, <1>2, <1>4, <1>7, <1>8, <1>9 DEF Gives
<1> QED BY <1>3, <1>6, <1>10

LEMMA GivesWrites ==
  ASSUME NEW msgs \in Seq(Message), NEW keys, Rising(keys, Len(msgs)),
         NEW actor \in Actor \cup {NoActor}, NEW b \in Nat, NEW from \in Nat, NEW C
  PROVE  Gives(C, WriteOps(msgs, keys, actor, b, from), C \cup NewContent(keys, msgs, Len(msgs)))
<1> DEFINE w == WriteOps(msgs, keys, actor, b, from)
           f == [k \in 1..(Len(msgs) + 1) |-> C \cup NewContent(keys, msgs, k - 1)]
<1>1. PICK n \in Nat : n = Len(msgs)
  OBVIOUS
<1>2. /\ Len(w) = n
      /\ \A k \in 1..n : w[k] = [op |-> "write", row |-> Prepared(msgs[k], actor, keys[k], b, from + k)]
  BY <1>1, WritesPlanned
<1>3. \A k \in 1..n : w[k].op = "write" /\ w[k].row.key = keys[k] /\ w[k].row.hash = msgs[k]
  BY <1>2 DEF Prepared
<1>4. \A k \in 1..(n + 1) : f[k] = C \cup NewContent(keys, msgs, k - 1)
  BY <1>1
<1> HIDE DEF w, f
<1>5. \A k \in 1..n : Does(w[k], f[k], f[k + 1])
  <2> TAKE k \in 1..n
  <2>1. /\ f[k] = C \cup NewContent(keys, msgs, k - 1)
        /\ f[k + 1] = C \cup NewContent(keys, msgs, k)
    <3>1. k \in 1..(n + 1) /\ k + 1 \in 1..(n + 1) /\ (k + 1) - 1 = k
      BY <1>1
    <3> QED BY <1>4, <3>1
  <2>2. NewContent(keys, msgs, k) = NewContent(keys, msgs, k - 1) \cup {<<keys[k], msgs[k]>>}
    <3>1. 1..k = 1..(k - 1) \cup {k}
      OBVIOUS
    <3> QED BY <3>1 DEF NewContent
  <2>3. f[k + 1] = f[k] \cup {<<keys[k], msgs[k]>>}
    BY <2>1, <2>2
  <2>4. w[k].op = "write" /\ w[k].row.key = keys[k] /\ w[k].row.hash = msgs[k]
    BY <1>3
  <2> QED BY <2>3, <2>4 DEF Does
<1>6. f[1] = C /\ f[Len(w) + 1] = C \cup NewContent(keys, msgs, n)
  <2>1. 1 \in 1..(n + 1) /\ n + 1 \in 1..(n + 1) /\ (n + 1) - 1 = n /\ 1 - 1 = 0
    OBVIOUS
  <2>2. NewContent(keys, msgs, 0) = {}
    BY DEF NewContent
  <2> QED BY <1>2, <1>4, <2>1, <2>2
<1>7. Gives(C, w, C \cup NewContent(keys, msgs, n))
  BY <1>2, <1>5, <1>6 DEF Gives
<1> QED BY <1>1, <1>7 DEF w

LEMMA GivesShift ==
  ASSUME NEW from \in Int, NEW delta \in Nat, NEW C \in SUBSET (Int \X Message)
  PROVE  Gives(C, ShiftOp(from, delta), {Slid(c, from, delta) : c \in C})
<1> DEFINE L == {Slid(c, from, delta) : c \in C}
<1>1. CASE delta = 0
  <2>1. ShiftOp(from, delta) = <<>>
    BY <1>1 DEF ShiftOp
  <2>2. \A p \in C : p = Slid(p, from, delta)
    <3> TAKE p \in C
    <3>1. p \in Int \X Message
      OBVIOUS
    <3>2. p = <<p[1], p[2]>> /\ p[1] \in Int
      BY <3>1
    <3> QED BY <1>1, <3>2 DEF Slid
  <2>3. C = L
    <3>1. \A x \in C : x \in L
      BY <2>2
    <3>2. \A x \in L : x \in C
      BY <2>2
    <3> QED BY <3>1, <3>2
  <2> HIDE DEF L
  <2>4. Gives(C, <<>>, L)
    BY <2>3, GivesNone
  <2> QED BY <2>1, <2>4 DEF L
<1>2. CASE delta # 0
  <2> DEFINE o == [op |-> "shift", from |-> from, delta |-> delta]
  <2>1. ShiftOp(from, delta) = <<o>>
    BY <1>2 DEF ShiftOp
  <2>2. Does(o, C, L)
    BY DEF Does
  <2> HIDE DEF L, o
  <2>3. Gives(C, <<o>>, L)
    BY <2>2, GivesOne
  <2> QED BY <2>1, <2>3 DEF L
<1> QED BY <1>1, <1>2

LEMMA GivesUpgrade ==
  ASSUME NEW s, NEW idx, NEW actor, NEW life, NEW C
  PROVE  Gives(C, UpgradeOp(s, idx, actor, life), C)
<1> DEFINE ids == {s[i].id : i \in {j \in idx : s[j].actor = NoActor /\ s[j].hash \in UserMessage}}
           o == [op |-> "actor", ids |-> ids, actor |-> actor, life |-> life]
<1>1. UpgradeOp(s, idx, actor, life) = IF actor = NoActor \/ ids = {} THEN <<>> ELSE <<o>>
  BY DEF UpgradeOp
<1> HIDE DEF ids
<1>2. Does(o, C, C)
  BY DEF Does
<1> HIDE DEF o
<1> QED BY <1>1, <1>2, GivesNone, GivesOne

LEMMA GivesInsert ==
  ASSUME NEW s, Ordered(s), s # <<>>, NEW l \in 0..Len(s), NEW msgs \in Seq(Message),
         NEW actor \in Actor \cup {NoActor}, NEW b \in Nat, NEW from \in Nat,
         NEW C \in SUBSET (Int \X Message), NEW d, d = InsertDelta(s, l, Len(msgs))
  PROVE  /\ Inserts(C, InsertOps(s, l, msgs, actor, b, from), s, l, msgs, d)
         /\ InsertOps(s, l, msgs, actor, b, from) \in Seq(Planned(b))
<1>1. PICK n \in Nat : n = Len(msgs) /\ (n = 0 <=> msgs = <<>>)
  OBVIOUS
<1>2. PICK N \in Nat : N = Len(s)
  BY OrderedIs
<1>3. l \in Nat /\ l <= N /\ \A i \in 1..N : s[i].key \in Int
  BY <1>2, OrderedIs
<1>4. PICK x \in Int : x = ShiftFrom(s, l)
  BY <1>2, <1>3 DEF ShiftFrom
<1>5. CASE msgs = <<>>
  <2>1. InsertOps(s, l, msgs, actor, b, from) = <<>> /\ d = 0 /\ n = 0
    BY <1>1, <1>5 DEF InsertOps, InsertDelta
  <2>2. PICK keys : keys = <<>>
    OBVIOUS
  <2>3. NewKeys(keys, s, l, n, d)
    BY <2>1 DEF NewKeys, Rising
  <2>4. \A p \in C : p = Slid(p, x, d)
    <3> TAKE p \in C
    <3>1. p \in Int \X Message
      OBVIOUS
    <3>2. p = <<p[1], p[2]>> /\ p[1] \in Int
      BY <3>1
    <3> QED BY <2>1, <3>2 DEF Slid
  <2>5. C = {Slid(c, x, d) : c \in C} \cup NewContent(keys, msgs, n)
    <3>1. NewContent(keys, msgs, n) = {}
      BY <2>1 DEF NewContent
    <3>2. C = {Slid(c, x, d) : c \in C}
      BY <2>4
    <3> QED BY <3>1, <3>2
  <2>6. Gives(C, <<>>, {Slid(c, x, d) : c \in C} \cup NewContent(keys, msgs, n))
    BY <2>5, GivesNone
  <2>7. <<>> \in Seq(Planned(b))
    OBVIOUS
  <2> QED BY <1>1, <1>4, <2>1, <2>3, <2>6, <2>7 DEF Inserts, After
<1>6. CASE msgs # <<>>
  <2>1. PICK a : a = _allocate_bounded_sort_keys(s, l, n)
    OBVIOUS
  <2>2. a.delta = d
    BY <1>1, <1>6, <2>1 DEF InsertDelta
  <2>3. FitsPlace(a, s, l, n)
    BY <2>1, AllocateFits
  <2>4. PICK keys : keys = a.keys
    OBVIOUS
  <2>5. NewKeys(keys, s, l, n, d)
    <3>1. d # 0 => l < Len(s)
      BY <1>2, <2>2, <2>3 DEF FitsPlace
    <3> QED BY <2>2, <2>3, <2>4, <3>1 DEF FitsPlace, NewKeys
  <2>6. PICK p : p = ShiftOp(x, d)
    OBVIOUS
  <2>7. PICK q : q = WriteOps(msgs, keys, actor, b, from)
    OBVIOUS
  <2>8. InsertOps(s, l, msgs, actor, b, from) = p \o q
    BY <1>1, <1>4, <1>6, <2>1, <2>2, <2>4, <2>6, <2>7 DEF InsertOps, ShiftFrom
  <2>9. Rising(keys, n) /\ d \in Nat
    BY <2>5 DEF NewKeys
  <2>10. p \in Seq(Planned(b))
    <3>1. {} \in SUBSET (Nat \X Int)
      OBVIOUS
    <3> QED BY <2>6, <2>9, <3>1, RunsShift
  <2>11. q \in Seq(Planned(b))
    BY <1>1, <2>7, <2>9, WritesPlanned
  <2>12. PICK B : B = {Slid(c, x, d) : c \in C}
    OBVIOUS
  <2>13. Gives(C, p, B)
    BY <2>6, <2>9, <2>12, GivesShift
  <2>14. Gives(B, q, B \cup NewContent(keys, msgs, n))
    BY <1>1, <2>7, <2>9, GivesWrites
  <2>15. Gives(C, p \o q, B \cup NewContent(keys, msgs, n))
    BY <2>10, <2>11, <2>13, <2>14, GivesThen
  <2>16. p \o q \in Seq(Planned(b))
    BY <2>10, <2>11, ConcatProperties
  <2> QED BY <1>1, <1>4, <2>5, <2>8, <2>12, <2>15, <2>16 DEF Inserts, After
<1> QED BY <1>5, <1>6

-----------------------------------------------------------------------------
(* A payload that lies in the stored contents.                             *)

LEMMA WindowIs ==
  ASSUME NEW S, NEW q \in Seq(S), NEW n \in Nat, NEW e \in 1..(Len(q) - n + 1)
  PROVE  /\ Window(q, e, n) \in Seq(S) /\ Len(Window(q, e, n)) = n
         /\ \A j \in 1..n : Window(q, e, n)[j] = q[e + j - 1]
<1>1. PICK N \in Nat : N = Len(q) /\ DOMAIN q = 1..N
  OBVIOUS
<1>2. e \in Nat /\ e >= 1 /\ e + n - 1 <= N /\ e + n - 1 \in Int
  BY <1>1
<1>3. \A i \in e..(e + n - 1) : q[i] \in S
  BY <1>1, <1>2
<1>4. PICK v : v = SubSeq(q, e, e + n - 1)
  OBVIOUS
<1>5. /\ v \in Seq(S)
      /\ Len(v) = IF e <= e + n - 1 THEN (e + n - 1) - e + 1 ELSE 0
      /\ \A i \in 1..((e + n - 1) - e + 1) : v[i] = q[e + i - 1]
  BY <1>2, <1>3, <1>4, SubSeqProperties
<1>6. Len(v) = n
  BY <1>2, <1>5
<1>7. \A i \in 1..n : v[i] = q[e + i - 1]
  BY <1>2, <1>5
<1> QED BY <1>4, <1>5, <1>6, <1>7 DEF Window

LEMMA SameSequence ==
  ASSUME NEW S, NEW u \in Seq(S), NEW v \in Seq(S), Len(u) = Len(v),
         \A j \in 1..Len(u) : u[j] = v[j]
  PROVE  u = v
OBVIOUS

LEMMA HashesIs ==
  ASSUME NEW s, Ordered(s)
  PROVE  /\ Hashes(s) \in Seq(Message) /\ Len(Hashes(s)) = Len(s)
         /\ \A i \in 1..Len(s) : Hashes(s)[i] = s[i].hash
<1>1. PICK N \in Nat : N = Len(s) /\ DOMAIN s = 1..N
  BY OrderedIs
<1>2. \A i \in 1..N : s[i].hash \in Message
  <2>1. \A i \in 1..N : s[i] \in Row
    BY <1>1, OrderedIs
  <2> QED BY <2>1 DEF Row
<1>3. Hashes(s) = [i \in 1..N |-> s[i].hash]
  BY <1>1 DEF Hashes
<1> QED BY <1>1, <1>2, <1>3

\* Where a payload lies its messages are consecutive rows.
LEMMA LaidOccurs ==
  ASSUME NEW s, Ordered(s), NEW p \in Seq(Message), Laid(Content(s), p)
  PROVE  Occurs(p, Hashes(s))
<1>1. PICK N \in Nat : N = Len(s) /\ DOMAIN s = 1..N /\ \A i \in 1..N : s[i].key \in Int
  BY OrderedIs
<1>2. PICK M \in Nat : M = Len(p)
  OBVIOUS
<1>3. PICK kk : Lies(Content(s), p, kk)
  BY DEF Laid
<1>4. \A j \in 1..M : kk[j] \in Int
  BY <1>2, <1>3 DEF Lies, Rising
<1>5. \A j \in 1..M : \E i \in 1..N : s[i].key = kk[j] /\ s[i].hash = p[j]
  BY <1>1, <1>2, <1>3 DEF Lies, Content
<1>6. \A i, j \in 1..N : i < j <=> s[i].key < s[j].key
  <2> SUFFICES ASSUME NEW i \in 1..N, NEW j \in 1..N PROVE i < j <=> s[i].key < s[j].key
    OBVIOUS
  <2>1. (i < j => s[i].key < s[j].key) /\ (j < i => s[j].key < s[i].key)
    BY <1>1 DEF Ordered
  <2>2. i < j \/ j < i \/ i = j
    OBVIOUS
  <2> QED BY <1>1, <2>1, <2>2
<1>7. Hashes(s) \in Seq(Message) /\ Len(Hashes(s)) = N /\ \A i \in 1..N : Hashes(s)[i] = s[i].hash
  BY <1>1, HashesIs
<1>8. CASE M = 0
  <2>1. 1 \in 1..(Len(Hashes(s)) - 0 + 1)
    BY <1>7
  <2>2. PICK q \in Seq(Message) : q = Hashes(s)
    BY <1>7
  <2>3. PICK v : v = Window(q, 1, 0)
    OBVIOUS
  <2>4. 1 \in 1..(Len(q) - 0 + 1)
    BY <2>1, <2>2
  <2>5. v \in Seq(Message) /\ Len(v) = 0
    BY <2>3, <2>4, WindowIs
  <2>6. v = p
    <3>1. Len(v) = Len(p) /\ \A j \in 1..Len(v) : v[j] = p[j]
      BY <1>2, <1>8, <2>5
    <3> QED BY <2>5, <3>1, SameSequence
  <2> QED BY <1>2, <1>8, <2>1, <2>2, <2>3, <2>6 DEF Occurs
<1>9. CASE M # 0
  <2>1. PICK e \in 1..N : s[e].key = kk[1] /\ s[e].hash = p[1]
    BY <1>5, <1>9
  <2> DEFINE T == {j \in 0..(M - 1) : e + j <= N /\ s[e + j].key = kk[j + 1] /\ s[e + j].hash = p[j + 1]}
  <2>2. 0 \in T
    BY <1>9, <2>1
  <2>3. ASSUME NEW j \in 0..(M - 1), j < M - 1, j \in T PROVE j + 1 \in T
    <3>1. e + j <= N /\ e + j \in 1..N /\ s[e + j].key = kk[j + 1] /\ j + 1 \in 1..M /\ j + 2 \in 1..M
      BY <2>3
    <3>2. PICK i \in 1..N : s[i].key = kk[j + 2] /\ s[i].hash = p[j + 2]
      BY <1>5, <3>1
    <3>3. kk[j + 1] < kk[j + 2]
      BY <1>2, <1>3, <3>1 DEF Lies, Rising
    <3>4. e + j < i
      BY <1>6, <3>1, <3>2, <3>3
    <3>5. ASSUME e + j + 1 # i PROVE FALSE
      <4>1. e + j + 1 \in 1..N /\ e + j < e + j + 1 /\ e + j + 1 < i
        BY <3>1, <3>4, <3>5
      <4>2. PICK y \in Int : y = s[e + j + 1].key
        BY <1>1, <4>1
      <4>3. kk[j + 1] < y /\ y < kk[j + 2]
        BY <1>6, <3>1, <3>2, <4>1, <4>2
      <4>4. <<y, s[e + j + 1].hash>> \in Content(s)
        BY <1>1, <4>1, <4>2 DEF Content
      <4>5. \/ \E k \in 1..M : y = kk[k]
            \/ \A k \in 1..M : y < kk[k]
            \/ \A k \in 1..M : kk[k] < y
        <5>1. PICK h : h = s[e + j + 1].hash
          OBVIOUS
        <5>2. <<y, h>> \in Content(s) /\ <<y, h>>[1] = y
          BY <4>4, <5>1
        <5>3. \A x \in Content(s) : \/ \E k \in 1..M : x[1] = kk[k]
                                    \/ \A k \in 1..M : x[1] < kk[k]
                                    \/ \A k \in 1..M : kk[k] < x[1]
          BY <1>2, <1>3 DEF Lies
        <5> QED BY <5>2, <5>3
      <4>6. kk[j + 1] \in Int /\ kk[j + 2] \in Int
        BY <1>4, <3>1
      <4>7. PICK k \in 1..M : y = kk[k]
        BY <3>1, <4>3, <4>5, <4>6
      <4>8. k < j + 1 \/ k = j + 1 \/ k = j + 2 \/ j + 2 < k
        OBVIOUS
      <4>9. (k < j + 1 => kk[k] < kk[j + 1]) /\ (j + 2 < k => kk[j + 2] < kk[k])
        BY <1>2, <1>3, <3>1 DEF Lies, Rising
      <4> QED BY <4>2, <4>3, <4>6, <4>7, <4>8, <4>9
    <3>6. i = e + (j + 1) /\ (j + 1) + 1 = j + 2 /\ j + 1 \in 0..(M - 1)
      BY <2>3, <3>5, SMTT(60)
    <3> QED BY <3>2, <3>6
  <2>4. 0..(M - 1) \subseteq T
    <3>1. M - 1 \in Nat
      BY <1>9
    <3>2. \A i \in 0..(M - 1) : i < M - 1 /\ i \in T => i + 1 \in T
      BY <2>3
    <3> HIDE DEF T
    <3> QED BY <2>2, <3>1, <3>2, InductionUpTo
  <2>5. \A k \in 1..M : e + k - 1 <= N /\ s[e + k - 1].hash = p[k]
    <3> TAKE k \in 1..M
    <3>1. k - 1 \in T
      <4> HIDE DEF T
      <4>1. k - 1 \in 0..(M - 1)
        OBVIOUS
      <4> QED BY <2>4, <4>1
    <3>2. e + (k - 1) = e + k - 1 /\ (k - 1) + 1 = k
      OBVIOUS
    <3> QED BY <3>1, <3>2
  <2>6. e + M - 1 <= N
    BY <1>9, <2>5
  <2>7. e \in 1..(Len(Hashes(s)) - M + 1)
    BY <1>7, <2>6
  <2>8. PICK q \in Seq(Message) : q = Hashes(s)
    BY <1>7
  <2>8a. PICK v : v = Window(q, e, M)
    OBVIOUS
  <2>8b. e \in 1..(Len(q) - M + 1)
    BY <2>7, <2>8
  <2>9. v \in Seq(Message) /\ Len(v) = M /\ \A j \in 1..M : v[j] = q[e + j - 1]
    BY <2>8a, <2>8b, WindowIs
  <2>10. \A j \in 1..M : v[j] = p[j]
    <3> TAKE j \in 1..M
    <3>1. j \in Nat /\ e \in Nat /\ j >= 1 /\ e >= 1 /\ e + j - 1 <= N
      BY <2>5
    <3>2. e + j - 1 \in 1..N
      BY <3>1
    <3> QED BY <1>7, <2>5, <2>8, <2>9, <3>2
  <2>11. v = p
    BY <1>2, <2>9, <2>10, SameSequence
  <2> QED BY <1>2, <2>7, <2>8, <2>8a, <2>11 DEF Occurs
<1> QED BY <1>8, <1>9

\* And consecutive rows lie in the contents.
LEMMA OccursLaid ==
  ASSUME NEW s, Ordered(s), NEW p \in Seq(Message), NEW e \in 1..(Len(s) - Len(p) + 1),
         Window(Hashes(s), e, Len(p)) = p
  PROVE  Laid(Content(s), p)
<1>1. PICK N \in Nat : N = Len(s) /\ DOMAIN s = 1..N /\ \A i \in 1..N : s[i].key \in Int
  BY OrderedIs
<1>2. PICK M \in Nat : M = Len(p)
  OBVIOUS
<1>3. Hashes(s) \in Seq(Message) /\ Len(Hashes(s)) = N /\ \A i \in 1..N : Hashes(s)[i] = s[i].hash
  BY <1>1, HashesIs
<1>4. \A j \in 1..M : e + j - 1 \in 1..N /\ s[e + j - 1].hash = p[j]
  <2>1. \A j \in 1..M : p[j] = Hashes(s)[e + j - 1]
    <3>1. PICK q \in Seq(Message) : q = Hashes(s)
      BY <1>3
    <3>2. e \in 1..(Len(q) - M + 1)
      BY <1>1, <1>2, <1>3, <3>1
    <3>3. \A j \in 1..M : Window(q, e, M)[j] = q[e + j - 1]
      BY <3>2, WindowIs
    <3> QED BY <1>2, <3>1, <3>3
  <2>2. \A j \in 1..M : e + j - 1 \in 1..N
    BY <1>1, <1>2
  <2> QED BY <1>3, <2>1, <2>2
<1> DEFINE kk == [j \in 1..M |-> s[e + j - 1].key]
<1>5. \A j \in 1..M : kk[j] = s[e + j - 1].key /\ kk[j] \in Int
  BY <1>1, <1>4
<1> HIDE DEF kk
<1>6. Rising(kk, M)
  <2>1. ASSUME NEW i \in 1..M, NEW j \in 1..M, i < j PROVE kk[i] < kk[j]
    <3>0. i \in Nat /\ j \in Nat /\ e \in Nat
      BY <1>1, <1>2
    <3>1a. e + i - 1 \in 1..N /\ e + j - 1 \in 1..N
      BY <1>4
    <3>1b. e + i - 1 < e + j - 1
      BY <2>1, <3>0
    <3>1. e + i - 1 \in 1..N /\ e + j - 1 \in 1..N /\ e + i - 1 < e + j - 1
      BY <3>1a, <3>1b
    <3>2. s[e + i - 1].key < s[e + j - 1].key
      BY <1>1, <3>1 DEF Ordered
    <3> QED BY <1>5, <3>2
  <2> QED BY <1>5, <2>1 DEF Rising
<1>7. \A j \in 1..M : <<kk[j], p[j]>> \in Content(s)
  <2> TAKE j \in 1..M
  <2>1. e + j - 1 \in DOMAIN s
    BY <1>1, <1>4
  <2> QED BY <1>4, <1>5, <2>1 DEF Content
<1>8. ASSUME NEW x \in Content(s)
      PROVE  \/ \E j \in 1..M : x[1] = kk[j]
             \/ \A j \in 1..M : x[1] < kk[j]
             \/ \A j \in 1..M : kk[j] < x[1]
  <2>1. PICK i \in 1..N : x[1] = s[i].key
    BY <1>1 DEF Content
  <2>2. CASE i < e
    <3> SUFFICES ASSUME NEW j \in 1..M PROVE x[1] < kk[j]
      OBVIOUS
    <3>1. i < e + j - 1 /\ e + j - 1 \in 1..N
      BY <1>4, <2>2
    <3>2. s[i].key < s[e + j - 1].key
      BY <1>1, <3>1 DEF Ordered
    <3> QED BY <1>5, <2>1, <3>2
  <2>3. CASE i > e + M - 1
    <3> SUFFICES ASSUME NEW j \in 1..M PROVE kk[j] < x[1]
      OBVIOUS
    <3>1. e + j - 1 < i /\ e + j - 1 \in 1..N
      BY <1>4, <2>3
    <3>2. s[e + j - 1].key < s[i].key
      BY <1>1, <3>1 DEF Ordered
    <3> QED BY <1>5, <2>1, <3>2
  <2>4. CASE ~ (i < e) /\ ~ (i > e + M - 1)
    <3>1. i - e + 1 \in 1..M /\ e + (i - e + 1) - 1 = i
      BY <2>4
    <3> QED BY <1>5, <2>1, <3>1
  <2> QED BY <2>2, <2>3, <2>4
<1>9. Lies(Content(s), p, kk)
  BY <1>2, <1>6, <1>7, <1>8 DEF Lies
<1> QED BY <1>9 DEF Laid

LEMMA LaidAround ==
  ASSUME NEW T, NEW h, NEW N \in Nat, NEW l \in Nat, NEW r \in Nat, NEW pk, NEW n \in Nat,
         NEW sk, NEW m \in Nat, NEW inc \in Seq(Message), Around(T, h, N, l, r, pk, n, sk, m, inc),
         NEW D, Holding(D, T, h, N, l, r, pk, n, sk, m, inc)
  PROVE  Laid(D, inc)
<1>1. PICK M \in Nat : M = Len(inc)
  OBVIOUS
<1>2. PICK w \in Nat : w = r - l /\ M = n + w + m /\ r = l + w /\ r <= N
  BY <1>1 DEF Around
<1>3. /\ \A i \in 1..N : T[i] \in Int
      /\ \A i, j \in 1..N : i <= j => T[i] <= T[j]
      /\ \A i, j \in 1..N : i < j => T[i] < T[j]
  <2>1. \A i \in 1..N : T[i] \in Int
    BY DEF Around, Rising
  <2>2. \A i, j \in 1..N : i < j => T[i] < T[j]
    BY DEF Around, Rising
  <2>3. ASSUME NEW i \in 1..N, NEW j \in 1..N, i <= j PROVE T[i] <= T[j]
    <3>1. i = j \/ i < j
      BY <2>3
    <3> QED BY <2>1, <2>2, <3>1
  <2> QED BY <2>1, <2>2, <2>3
<1>4. /\ \A k \in 1..n : pk[k] \in Int /\ (l >= 1 => T[l] < pk[k]) /\ l < r /\ pk[k] < T[l + 1]
      /\ \A j, k \in 1..n : j < k => pk[j] < pk[k]
  <2>1. ASSUME NEW k \in 1..n PROVE l < r /\ l < N
    BY <1>2, SMTT(60) DEF Around
  <2> QED BY <2>1 DEF Around, Rising
<1>5. /\ \A k \in 1..m : sk[k] \in Int /\ (r >= 1 => T[r] < sk[k]) /\ (r < N => sk[k] < T[r + 1])
      /\ \A j, k \in 1..m : j < k => sk[j] < sk[k]
  BY DEF Around, Rising
<1> DEFINE kk == [j \in 1..M |-> IF j <= n THEN pk[j]
                                 ELSE IF j <= n + w THEN T[l + (j - n)] ELSE sk[j - (n + w)]]
<1>6. /\ \A j \in 1..n : j \in 1..M /\ kk[j] = pk[j]
      /\ \A j \in (n + 1)..(n + w) : j \in 1..M /\ kk[j] = T[l + (j - n)] /\ l + (j - n) \in (l + 1)..r
      /\ \A j \in (n + w + 1)..M : j \in 1..M /\ kk[j] = sk[j - (n + w)] /\ j - (n + w) \in 1..m
  BY <1>2
<1>7. \A j \in 1..M : j \in 1..n \/ j \in (n + 1)..(n + w) \/ j \in (n + w + 1)..M
  BY <1>2
<1> HIDE DEF kk
<1>8. \A j \in 1..M : kk[j] \in Int
  <2> TAKE j \in 1..M
  <2>1. CASE j \in 1..n
    BY <1>4, <1>6, <2>1
  <2>2. CASE j \in (n + 1)..(n + w)
    <3>1. l + (j - n) \in 1..N
      BY <1>2, <2>2
    <3> QED BY <1>3, <1>6, <2>2, <3>1
  <2>3. CASE j \in (n + w + 1)..M
    BY <1>5, <1>6, <2>3
  <2> QED BY <1>7, <2>1, <2>2, <2>3
\* The rows up to l come before, those after r behind.
<1>9. ASSUME NEW i \in 1..l, NEW j \in 1..M PROVE T[i] < kk[j]
  <2>0. /\ i \in 1..N /\ l \in 1..N /\ l >= 1 /\ r >= 1 /\ r \in 1..N /\ l <= r /\ i <= l
    BY <1>2
  <2>1. T[i] <= T[l] /\ T[l] <= T[r] /\ T[i] \in Int /\ T[l] \in Int /\ T[r] \in Int
    BY <1>3, <2>0
  <2>2. CASE j \in 1..n
    <3>1. T[l] < pk[j] /\ pk[j] \in Int /\ kk[j] = pk[j]
      BY <1>4, <1>6, <2>0, <2>2
    <3> QED BY <2>1, <3>1
  <2>3. CASE j \in (n + 1)..(n + w)
    <3>1. l + (j - n) \in 1..N /\ i < l + (j - n)
      BY <1>2, <2>0, <2>3
    <3> QED BY <1>3, <1>6, <2>0, <2>3, <3>1
  <2>4. CASE j \in (n + w + 1)..M
    <3>1. PICK k \in 1..m : k = j - (n + w) /\ kk[j] = sk[k]
      BY <1>6, <2>4
    <3>2. T[r] < sk[k] /\ sk[k] \in Int
      BY <1>5, <2>0
    <3> QED BY <2>1, <3>1, <3>2
  <2> QED BY <1>7, <2>2, <2>3, <2>4
<1>10. ASSUME NEW i \in (r + 1)..N, NEW j \in 1..M PROVE kk[j] < T[i]
  <2>0. /\ i \in 1..N /\ l + 1 \in 1..N /\ r + 1 \in 1..N /\ l + 1 <= i /\ r + 1 <= i /\ r < N
    BY <1>2
  <2>1. T[l + 1] <= T[i] /\ T[r + 1] <= T[i] /\ T[i] \in Int /\ T[l + 1] \in Int /\ T[r + 1] \in Int
    BY <1>3, <2>0
  <2>2. CASE j \in 1..n
    <3>1. pk[j] < T[l + 1] /\ pk[j] \in Int /\ kk[j] = pk[j]
      BY <1>4, <1>6, <2>2
    <3> QED BY <2>1, <3>1, SMTT(60)
  <2>3. CASE j \in (n + 1)..(n + w)
    <3>1. l + (j - n) \in 1..N /\ l + (j - n) < i
      BY <1>2, <2>0, <2>3
    <3> QED BY <1>3, <1>6, <2>0, <2>3, <3>1
  <2>4. CASE j \in (n + w + 1)..M
    <3>1. PICK k \in 1..m : k = j - (n + w) /\ kk[j] = sk[k]
      BY <1>6, <2>4
    <3>2. sk[k] < T[r + 1] /\ sk[k] \in Int
      BY <1>5, <2>0
    <3> QED BY <2>1, <3>1, <3>2, SMTT(60)
  <2> QED BY <1>7, <2>2, <2>3, <2>4
<1>11. Rising(kk, M)
  <2>1. ASSUME NEW i \in 1..M, NEW j \in 1..M, i < j PROVE kk[i] < kk[j]
    <3>1. CASE i \in 1..n /\ j \in 1..n
      BY <1>4, <1>6, <2>1, <3>1
    <3>2. CASE i \in 1..n /\ j \in (n + 1)..(n + w)
      <4>1. l + 1 \in 1..N /\ l + (j - n) \in 1..N /\ l + 1 <= l + (j - n)
        BY <1>2, <3>2
      <4>2. T[l + 1] <= T[l + (j - n)] /\ T[l + 1] \in Int /\ T[l + (j - n)] \in Int
        BY <1>3, <4>1
      <4>3. pk[i] < T[l + 1] /\ pk[i] \in Int
        BY <1>4, <3>2
      <4> QED BY <1>6, <3>2, <4>2, <4>3
    <3>3. CASE i \in 1..n /\ j \in (n + w + 1)..M
      <4>1. PICK k \in 1..m : kk[j] = sk[k]
        BY <1>6, <3>3
      <4>2. pk[i] < T[l + 1] /\ pk[i] \in Int /\ l < r
        BY <1>4, <3>3
      <4>3. l + 1 \in 1..N /\ r \in 1..N /\ l + 1 <= r /\ r >= 1
        BY <1>2, <4>2
      <4>4. T[l + 1] <= T[r] /\ T[l + 1] \in Int /\ T[r] \in Int
        BY <1>3, <4>3
      <4>5. T[r] < sk[k] /\ sk[k] \in Int
        BY <1>5, <4>3
      <4>6. kk[i] = pk[i]
        BY <1>6, <3>3
      <4>7. pk[i] < sk[k]
        BY <4>2, <4>4, <4>5
      <4> QED BY <4>1, <4>6, <4>7
    <3>4. CASE i \in (n + 1)..(n + w) /\ j \in (n + 1)..(n + w)
      <4>1. l + (i - n) \in 1..N /\ l + (j - n) \in 1..N /\ l + (i - n) < l + (j - n)
        BY <1>2, <2>1, <3>4
      <4> QED BY <1>3, <1>6, <3>4, <4>1
    <3>5. CASE i \in (n + 1)..(n + w) /\ j \in (n + w + 1)..M
      <4>1. PICK k \in 1..m : kk[j] = sk[k]
        BY <1>6, <3>5
      <4>2. l + (i - n) \in 1..N /\ r \in 1..N /\ l + (i - n) <= r /\ r >= 1
        BY <1>2, <3>5
      <4>3. T[l + (i - n)] <= T[r] /\ T[l + (i - n)] \in Int /\ T[r] \in Int
        BY <1>3, <4>2
      <4>4. T[r] < sk[k] /\ sk[k] \in Int
        BY <1>5, <4>2
      <4> QED BY <1>6, <3>5, <4>1, <4>3, <4>4, SMTT(60)
    <3>6. CASE i \in (n + w + 1)..M /\ j \in (n + w + 1)..M
      <4>1. i - (n + w) \in 1..m /\ j - (n + w) \in 1..m /\ i - (n + w) < j - (n + w)
        BY <1>2, <2>1, <3>6
      <4> QED BY <1>5, <1>6, <3>6, <4>1
    <3>7. \/ i \in 1..n /\ j \in 1..n
          \/ i \in 1..n /\ j \in (n + 1)..(n + w)
          \/ i \in 1..n /\ j \in (n + w + 1)..M
          \/ i \in (n + 1)..(n + w) /\ j \in (n + 1)..(n + w)
          \/ i \in (n + 1)..(n + w) /\ j \in (n + w + 1)..M
          \/ i \in (n + w + 1)..M /\ j \in (n + w + 1)..M
      BY <1>2, <2>1
    <3> QED BY <3>1, <3>2, <3>3, <3>4, <3>5, <3>6, <3>7
  <2> QED BY <1>8, <2>1 DEF Rising
<1>12. ASSUME NEW j \in 1..M PROVE <<kk[j], inc[j]>> \in D
  <2>1. CASE j \in 1..n
    BY <1>6, <2>1 DEF Holding
  <2>2. CASE j \in (n + 1)..(n + w)
    <3>1. PICK i \in (l + 1)..r : i = l + (j - n)
      BY <1>6, <2>2
    <3>2. i \in 1..N /\ n + (i - l) = j
      BY <1>2, <2>2, <3>1
    <3>3. kk[j] = T[i]
      BY <1>6, <2>2, <3>1
    <3>4. h[i] = inc[j]
      BY <3>2 DEF Around
    <3> QED BY <3>2, <3>3, <3>4 DEF Holding
  <2>3. CASE j \in (n + w + 1)..M
    <3>1. PICK k \in 1..m : k = j - (n + w)
      BY <1>6, <2>3
    <3>2. n + (r - l) + k = j
      BY <1>2, <2>3, <3>1
    <3>3. kk[j] = sk[k]
      BY <1>6, <2>3, <3>1
    <3> QED BY <3>2, <3>3 DEF Holding
  <2> QED BY <1>7, <2>1, <2>2, <2>3
<1>13. ASSUME NEW x \in D
       PROVE  \/ \E j \in 1..M : x[1] = kk[j]
              \/ \A j \in 1..M : x[1] < kk[j]
              \/ \A j \in 1..M : kk[j] < x[1]
  <2>1. ASSUME NEW i \in 1..N, x[1] = T[i]
        PROVE  \/ \E j \in 1..M : x[1] = kk[j]
               \/ \A j \in 1..M : x[1] < kk[j]
               \/ \A j \in 1..M : kk[j] < x[1]
    <3>1. CASE i \in 1..l
      BY <1>9, <2>1, <3>1
    <3>2. CASE i \in (r + 1)..N
      BY <1>10, <2>1, <3>2
    <3>3. CASE i \in (l + 1)..r
      <4>1. n + (i - l) \in (n + 1)..(n + w) /\ l + ((n + (i - l)) - n) = i
        BY <1>2, <3>3
      <4> QED BY <1>6, <2>1, <4>1
    <3>4. i \in 1..l \/ i \in (r + 1)..N \/ i \in (l + 1)..r
      BY <1>2
    <3> QED BY <3>1, <3>2, <3>3, <3>4
  <2>2. ASSUME NEW k \in 1..n, x[1] = pk[k] PROVE \E j \in 1..M : x[1] = kk[j]
    BY <1>6, <2>2
  <2>3. ASSUME NEW k \in 1..m, x[1] = sk[k] PROVE \E j \in 1..M : x[1] = kk[j]
    <3>1. (n + w) + k \in (n + w + 1)..M /\ ((n + w) + k) - (n + w) = k
      BY <1>2
    <3> QED BY <1>6, <2>3, <3>1
  <2> QED BY <2>1, <2>2, <2>3 DEF Holding
<1>14. Lies(D, inc, kk)
  BY <1>1, <1>11, <1>12, <1>13 DEF Lies
<1> QED BY <1>14 DEF Laid

LEMMA ContentIs ==
  ASSUME NEW s, Ordered(s)
  PROVE  /\ Content(s) \in SUBSET (Int \X Message)
         /\ \A x \in Content(s) : \E i \in 1..Len(s) : x = <<s[i].key, s[i].hash>>
         /\ \A i \in 1..Len(s) : <<s[i].key, s[i].hash>> \in Content(s)
<1>1. PICK N \in Nat : N = Len(s) /\ DOMAIN s = 1..N
  BY OrderedIs
<1>2. \A i \in 1..N : s[i].key \in Int /\ s[i].hash \in Message
  <2>1. \A i \in 1..N : s[i] \in Row
    BY <1>1, OrderedIs
  <2> QED BY <2>1 DEF Row
<1> QED BY <1>1, <1>2 DEF Content

LEMMA SlidContent ==
  ASSUME NEW s, Ordered(s), NEW t, Ordered(t), NEW from \in Int, NEW delta \in Nat,
         ShiftedBy(t, s, from, delta)
  PROVE  Content(t) = {Slid(c, from, delta) : c \in Content(s)}
<1>1. PICK N \in Nat : N = Len(s) /\ DOMAIN s = 1..N
  BY OrderedIs
<1>2. DOMAIN t = 1..N
  BY <1>1, OrderedIs DEF ShiftedBy
<1>3. \A i \in 1..N : <<t[i].key, t[i].hash>> = Slid(<<s[i].key, s[i].hash>>, from, delta)
  BY <1>1 DEF ShiftedBy, Slid
<1>4. ASSUME NEW x \in Content(t) PROVE x \in {Slid(c, from, delta) : c \in Content(s)}
  <2>1. PICK i \in 1..N : x = <<t[i].key, t[i].hash>>
    BY <1>2 DEF Content
  <2>2. <<s[i].key, s[i].hash>> \in Content(s)
    BY <1>1 DEF Content
  <2> QED BY <1>3, <2>1, <2>2
<1>5. ASSUME NEW c \in Content(s) PROVE Slid(c, from, delta) \in Content(t)
  <2>1. PICK i \in 1..N : c = <<s[i].key, s[i].hash>>
    BY <1>1 DEF Content
  <2>2. <<t[i].key, t[i].hash>> \in Content(t)
    BY <1>2 DEF Content
  <2> QED BY <1>3, <2>1, <2>2
<1> QED BY <1>4, <1>5

LEMMA LaidByInsert ==
  ASSUME NEW s, Ordered(s), NEW l \in Nat, NEW r \in Nat, NEW n \in Nat, NEW pk, NEW m \in Nat,
         NEW d \in Nat, NEW sk, NEW inc \in Seq(Message), NEW pre, NEW suf,
         Suits(s, l, r, pk, n, m, d, sk, inc, pre, suf)
  PROVE  Laid(After(Content(s) \cup NewContent(pk, pre, n), s, r, d, sk, suf, m), inc)
<1>C. PICK C : C = Content(s) \cup NewContent(pk, pre, n)
  OBVIOUS
<1>0. PICK N \in Nat : N = Len(s)
  BY OrderedIs
<1>a. /\ l <= r /\ r <= N /\ (n # 0 => l < r) /\ Rising(pk, n)
      /\ NewKeys(sk, s, r, m, d) /\ Len(inc) = n + (r - l) + m
      /\ \A i \in (l + 1)..r : s[i].hash = inc[n + (i - l)]
      /\ l >= 1 => \A k \in 1..n : s[l].key < pk[k]
      /\ l < N => \A k \in 1..n : pk[k] < s[l + 1].key
      /\ \A k \in 1..n : pre[k] = inc[k]
      /\ \A k \in 1..m : suf[k] = inc[n + (r - l) + k]
  BY <1>0 DEF Suits
<1> USE <1>0, <1>a
<1>1. DOMAIN s = 1..N /\ \A i \in 1..N : s[i].key \in Int
  BY OrderedIs
<1>2. PICK x \in Int : x = ShiftFrom(s, r)
  <2>1. CASE r < N
    <3>1. r + 1 \in 1..N
      BY <2>1
    <3>2. ShiftFrom(s, r) = s[r + 1].key
      BY <2>1 DEF ShiftFrom
    <3> QED BY <1>1, <3>1, <3>2
  <2>2. CASE ~ (r < N)
    BY <2>2 DEF ShiftFrom
  <2> QED BY <2>1, <2>2
<1> DEFINE T == [i \in 1..N |-> IF i > r THEN s[i].key + d ELSE s[i].key]
           h == [i \in 1..N |-> s[i].hash]
           D == {Slid(c, x, d) : c \in C} \cup NewContent(sk, suf, m)
<1>3. \A i \in 1..N : /\ T[i] = IF i > r THEN s[i].key + d ELSE s[i].key
                      /\ h[i] = s[i].hash /\ T[i] \in Int
  BY <1>1
<1> HIDE DEF T, h
<1>4. d # 0 => r < N /\ x = s[r + 1].key
  BY <1>2 DEF NewKeys, ShiftFrom
<1>5. \A i, j \in 1..N : i < j => s[i].key < s[j].key
  BY <1>1 DEF Ordered
<1>6. ASSUME NEW i \in 1..N PROVE Slid(<<s[i].key, s[i].hash>>, x, d) = <<T[i], h[i]>>
  <2>1. CASE d = 0
    BY <1>1, <1>3, <2>1 DEF Slid
  <2>2. CASE d # 0
    <3>1. r + 1 \in 1..N /\ x = s[r + 1].key
      BY <1>4, <2>2
    <3>2. CASE i > r
      <4>1. i = r + 1 \/ r + 1 < i
        BY <3>2
      <4>2. s[i].key >= x
        <5>1. s[i].key \in Int /\ x \in Int
          BY <1>1
        <5>2. r + 1 < i => s[r + 1].key < s[i].key
          BY <1>5, <3>1
        <5>3. i = r + 1 => s[i].key = x
          BY <3>1
        <5> QED BY <3>1, <4>1, <5>1, <5>2, <5>3, SMTT(60)
      <4> QED BY <1>3, <3>2, <4>2 DEF Slid
    <3>3. CASE ~ (i > r)
      <4>1. i < r + 1
        BY <3>3
      <4>2. s[i].key < x
        BY <1>5, <3>1, <4>1
      <4>3. ~ (s[i].key >= x)
        <5>1. s[i].key \in Int /\ x \in Int
          BY <1>1
        <5> QED BY <4>2, <5>1, SMTT(60)
      <4> QED BY <1>3, <3>3, <4>3 DEF Slid
    <3> QED BY <3>2, <3>3
  <2> QED BY <2>1, <2>2
<1>7. ASSUME NEW k \in 1..n PROVE Slid(<<pk[k], pre[k]>>, x, d) = <<pk[k], inc[k]>>
  <2>0. pk[k] \in Int
    BY DEF Rising
  <2>1. CASE d = 0
    BY <2>0, <2>1, SMTT(60) DEF Slid
  <2>2. CASE d # 0
    <3>1. r + 1 \in 1..N /\ x = s[r + 1].key /\ l + 1 \in 1..N /\ l < r + 1 /\ l < N
      BY <1>4, <2>2, SMTT(60)
    <3>2. l + 1 < r + 1
      OBVIOUS
    <3>3. s[l + 1].key < s[r + 1].key /\ pk[k] < s[l + 1].key
      BY <1>5, <3>1, <3>2
    <3>4. ~ (pk[k] >= x)
      <4>1. PICK u \in Int : u = s[l + 1].key
        BY <1>1, <3>1
      <4>2. PICK v \in Int : v = pk[k]
        BY <2>0
      <4>3. v < u /\ u < x
        BY <3>1, <3>3, <4>1, <4>2
      <4>4. ~ (v >= x)
        BY <4>3
      <4> QED BY <4>2, <4>4
    <3> QED BY <3>4 DEF Slid
  <2> QED BY <2>1, <2>2
<1>8. Rising(T, N)
  <2>1. ASSUME NEW i \in 1..N, NEW j \in 1..N, i < j PROVE T[i] < T[j]
    <3>1. s[i].key < s[j].key /\ s[i].key \in Int /\ s[j].key \in Int
      BY <1>1, <1>5, <2>1
    <3>2. i > r => j > r
      BY <2>1
    <3>3. /\ T[i] = IF i > r THEN s[i].key + d ELSE s[i].key
          /\ T[j] = IF j > r THEN s[j].key + d ELSE s[j].key
      BY <1>3
    <3>4. PICK u \in Int, v \in Int : u = s[i].key /\ v = s[j].key /\ u < v
      BY <3>1
    <3>5. u < v
      BY <3>4
    <3>6. u + d < v + d /\ u < v + d
      BY <3>5, SMTT(60)
    <3> QED BY <3>2, <3>3, <3>4, <3>6
  <2> QED BY <1>3, <2>1 DEF Rising
<1>9. Around(T, h, N, l, r, pk, n, sk, m, inc)
  <2>1. \A i \in (l + 1)..r : h[i] = inc[n + (i - l)]
    <3>1. \A i \in (l + 1)..r : i \in 1..N
      OBVIOUS
    <3> QED BY <1>3, <3>1
  <2>2. l >= 1 => \A k \in 1..n : T[l] < pk[k]
    <3>1. l >= 1 => T[l] = s[l].key
      BY <1>3
    <3> QED BY <3>1
  <2>3. l < N => \A k \in 1..n : pk[k] < T[l + 1]
    <3> SUFFICES ASSUME l < N, NEW k \in 1..n PROVE pk[k] < T[l + 1]
      OBVIOUS
    <3>1. l + 1 \in 1..N /\ ~ (l + 1 > r)
      OBVIOUS
    <3>2. T[l + 1] = s[l + 1].key
      BY <1>3, <3>1
    <3> QED BY <3>2
  <2>4. r >= 1 => \A k \in 1..m : T[r] < sk[k]
    <3>1. r >= 1 => T[r] = s[r].key
      BY <1>3
    <3> QED BY <3>1 DEF NewKeys
  <2>5. r < N => \A k \in 1..m : sk[k] < T[r + 1]
    <3>1. ASSUME r < N PROVE T[r + 1] = s[r + 1].key + d
      <4>1. r + 1 \in 1..N /\ r + 1 > r
        BY <3>1
      <4> QED BY <1>3, <4>1
    <3> QED BY <3>1 DEF NewKeys
  <2>6. Rising(sk, m)
    BY DEF NewKeys
  <2> QED BY <1>8, <2>1, <2>2, <2>3, <2>4, <2>5, <2>6 DEF Around
<1>10. \A y \in C : \/ \E i \in 1..N : y = <<s[i].key, s[i].hash>>
                    \/ \E k \in 1..n : y = <<pk[k], pre[k]>>
  BY <1>C, ContentIs DEF NewContent
<1>11. (\A i \in 1..N : <<s[i].key, s[i].hash>> \in C) /\ \A k \in 1..n : <<pk[k], pre[k]>> \in C
  BY <1>C, ContentIs DEF NewContent
<1>12. Holding(D, T, h, N, l, r, pk, n, sk, m, inc)
  <2>1. \A i \in 1..N : <<T[i], h[i]>> \in D
    BY <1>6, <1>11
  <2>2. \A k \in 1..n : <<pk[k], inc[k]>> \in D
    BY <1>7, <1>11
  <2>3. \A k \in 1..m : <<sk[k], inc[n + (r - l) + k]>> \in D
    BY DEF NewContent
  <2>4. ASSUME NEW y \in D
        PROVE  \/ \E i \in 1..N : y[1] = T[i]
               \/ \E k \in 1..n : y[1] = pk[k]
               \/ \E k \in 1..m : y[1] = sk[k]
    <3>1. CASE \E c \in C : y = Slid(c, x, d)
      <4>1. PICK c \in C : y = Slid(c, x, d)
        BY <3>1
      <4>2. ASSUME NEW i \in 1..N, c = <<s[i].key, s[i].hash>> PROVE y[1] = T[i]
        BY <1>6, <4>1, <4>2, SMTT(60)
      <4>3. ASSUME NEW k \in 1..n, c = <<pk[k], pre[k]>> PROVE y[1] = pk[k]
        BY <1>7, <4>1, <4>3, SMTT(60)
      <4> QED BY <1>10, <4>2, <4>3
    <3>2. CASE y \in NewContent(sk, suf, m)
      BY <3>2 DEF NewContent
    <3> QED BY <3>1, <3>2
  <2> QED BY <2>1, <2>2, <2>3, <2>4 DEF Holding
<1> HIDE DEF D
<1>13. Laid(D, inc)
  BY <1>9, <1>12, LaidAround
<1> QED BY <1>2, <1>13, <1>C DEF D, After

LEMMA SplitIs ==
  ASSUME NEW inc \in Seq(Message), NEW n \in Nat, NEW b \in Nat \ {0}, n <= Len(inc), b <= Len(inc) + 1
  PROVE  /\ SubSeq(inc, 1, n) \in Seq(Message) /\ Len(SubSeq(inc, 1, n)) = n
         /\ \A k \in 1..n : SubSeq(inc, 1, n)[k] = inc[k]
         /\ SubSeq(inc, b, Len(inc)) \in Seq(Message)
         /\ Len(SubSeq(inc, b, Len(inc))) = Len(inc) - b + 1
         /\ \A k \in 1..(Len(inc) - b + 1) : SubSeq(inc, b, Len(inc))[k] = inc[b - 1 + k]
<1>1. PICK M \in Nat : M = Len(inc) /\ \A i \in 1..M : inc[i] \in Message
  OBVIOUS
<1>2. PICK u : u = SubSeq(inc, 1, n)
  OBVIOUS
<1>3. \A i \in 1..n : inc[i] \in Message
  BY <1>1
<1>4. /\ u \in Seq(Message) /\ Len(u) = IF 1 <= n THEN n - 1 + 1 ELSE 0
      /\ \A i \in 1..(n - 1 + 1) : u[i] = inc[1 + i - 1]
  BY <1>2, <1>3, SubSeqProperties
<1>5. Len(u) = n /\ \A i \in 1..n : u[i] = inc[i]
  BY <1>4
<1>6. PICK v : v = SubSeq(inc, b, M)
  OBVIOUS
<1>7. \A i \in b..M : inc[i] \in Message
  BY <1>1
<1>8. /\ v \in Seq(Message) /\ Len(v) = IF b <= M THEN M - b + 1 ELSE 0
      /\ \A i \in 1..(M - b + 1) : v[i] = inc[b + i - 1]
  BY <1>6, <1>7, SubSeqProperties
<1>9. Len(v) = M - b + 1
  BY <1>1, <1>8
<1>10. \A i \in 1..(M - b + 1) : v[i] = inc[b - 1 + i]
  <2>1. \A i \in 1..(M - b + 1) : b + i - 1 = b - 1 + i
    OBVIOUS
  <2> QED BY <1>8, <2>1
<1> QED BY <1>1, <1>2, <1>4, <1>5, <1>6, <1>8, <1>9, <1>10

\* A merge at an overlap that matches lays the payload.
LEMMA GivesMerge ==
  ASSUME NEW s, Ordered(s), s # <<>>, NEW inc \in Seq(Message), NEW a, Matches(a, Hashes(s), inc),
         NEW actor \in Actor \cup {NoActor}, NEW b \in Nat, NEW life \in Nat, NEW from \in Nat
  PROVE  \E D : /\ Gives(Content(s), MergeOps(s, a, inc, actor, b, life, from), D)
               /\ Laid(D, inc) /\ Merged(D, s, inc, a)
<1>1. PICK M \in Nat : M = Len(inc)
  OBVIOUS
<1>2. PICK N \in Nat : N = Len(s) /\ DOMAIN s = 1..N /\ \A i \in 1..N : s[i].key \in Int
  BY OrderedIs
<1>4. /\ Len(Hashes(s)) = N /\ \A i \in 1..N : Hashes(s)[i] = s[i].hash
  BY <1>2, HashesIs
<1>5. PICK e \in Nat \ {0}, i \in Nat \ {0}, w \in Nat \ {0} :
        /\ e = a.stored /\ i = a.incoming /\ w = a.len /\ e + w - 1 <= N /\ i + w - 1 <= M
        /\ \A k \in 0..(w - 1) : inc[i + k] = Hashes(s)[e + k]
  BY <1>1, <1>4 DEF Matches
<1>6a. PICK l \in Nat : l = e - 1
  OBVIOUS
<1>6b. PICK n \in Nat : n = i - 1
  OBVIOUS
<1>6c. PICK r \in Nat : r = e + w - 1
  OBVIOUS
<1>6d. PICK z \in Nat \ {0} : z = i + w
  OBVIOUS
<1>6e. PICK m \in Nat : m = M - z + 1
  <2>1. z <= M + 1
    <3>1. i + w - 1 <= M
      BY <1>5
    <3> QED BY <1>6d, <3>1
  <2> QED BY <1>1, <2>1
<1>6. /\ e = l + 1 /\ i = n + 1 /\ l < r /\ r <= N /\ M = n + (r - l) + m /\ r = l + w
      /\ z - 1 = n + (r - l) /\ M - z + 1 = m /\ n <= M /\ z <= M + 1
      /\ a.stored - 1 = l /\ a.incoming - 1 = n /\ a.stored + a.len - 1 = r /\ a.incoming + a.len = z
  <2>1. /\ e = l + 1 /\ i = n + 1 /\ l < r /\ r <= N /\ M = n + (r - l) + m /\ r = l + w
        /\ z - 1 = n + (r - l) /\ M - z + 1 = m /\ n <= M /\ z <= M + 1
    <3>1. e + w - 1 <= N /\ i + w - 1 <= M /\ w >= 1 /\ e \in Nat /\ i \in Nat /\ w \in Nat /\ M \in Nat /\ N \in Nat
      BY <1>1, <1>2, <1>5, SMTT(60)
    <3>2. e = l + 1 /\ i = n + 1 /\ l < r /\ r <= N /\ r = l + w
      BY <3>1, <1>6a, <1>6b, <1>6c
    <3>3. z - 1 = n + (r - l) /\ M - z + 1 = m
      BY <3>1, <3>2, <1>6d, <1>6e
    <3>4. M = n + (r - l) + m /\ n <= M /\ z <= M + 1
      BY <3>1, <3>2, <3>3, <1>6d
    <3> QED BY <3>2, <3>3, <3>4
  <2> QED BY <1>5, <1>6a, <1>6b, <1>6c, <1>6d, <2>1
<1> DEFINE prefix == SubSeq(inc, 1, n)
           suffix == SubSeq(inc, z, Len(inc))
           s2 == AfterPrefix(s, l, Len(prefix))
           up == UpgradeOp(s, e..r, actor, life)
           pre == InsertOps(s, l, prefix, actor, b, from)
           suf == InsertOps(s2, r, suffix, actor, b, from + Len(prefix))
           C0 == Content(s)
<1>6f. l \in Nat /\ r \in Nat /\ e \in Nat \ {0} /\ N \in Nat /\ l < r /\ r <= N
  BY <1>2, <1>5, <1>6
<1>7. MergeOps(s, a, inc, actor, b, life, from) = up \o pre \o suf
  BY <1>5, <1>6 DEF MergeOps
<1>8. \A j \in (l + 1)..r : s[j].hash = inc[n + (j - l)]
  <2> TAKE j \in (l + 1)..r
  <2>1. j - e \in 0..(w - 1) /\ i + (j - e) = n + (j - l) /\ e + (j - e) = j /\ j \in 1..N
    BY <1>6
  <2>2. inc[i + (j - e)] = Hashes(s)[e + (j - e)]
    BY <1>5, <2>1
  <2> QED BY <1>4, <2>1, <2>2
<1>9. /\ prefix \in Seq(Message) /\ Len(prefix) = n /\ \A k \in 1..n : prefix[k] = inc[k]
      /\ suffix \in Seq(Message) /\ Len(suffix) = m /\ \A k \in 1..m : suffix[k] = inc[n + (r - l) + k]
  <2>2. n <= Len(inc) /\ z <= Len(inc) + 1
    BY <1>1, <1>6
  <2>3. /\ prefix \in Seq(Message) /\ Len(prefix) = n /\ \A k \in 1..n : prefix[k] = inc[k]
        /\ suffix \in Seq(Message) /\ Len(suffix) = Len(inc) - z + 1
        /\ \A k \in 1..(Len(inc) - z + 1) : suffix[k] = inc[z - 1 + k]
    BY <2>2, SplitIs, SMTT(60)
  <2> HIDE DEF prefix, suffix
  <2> QED BY <1>1, <1>6, <2>3
<1> HIDE DEF prefix, suffix
<1>10. C0 \in SUBSET (Int \X Message)
  BY ContentIs
<1>11. Gives(C0, up, C0)
  BY GivesUpgrade
<1>12. PICK d \in Nat : d = InsertDelta(s, l, n)
  <2>1. l < Len(s)
    BY <1>2, <1>6
  <2> QED BY <2>1, AfterPrefixIs
<1>13. PICK x \in Int : x = s[l + 1].key /\ x = ShiftFrom(s, l)
  <2>1. l + 1 \in 1..N /\ l < Len(s)
    BY <1>2, <1>6
  <2> QED BY <1>2, <2>1 DEF ShiftFrom
<1>14. Ordered(s2) /\ ShiftedBy(s2, s, x, d)
  <2>1. l < Len(s)
    BY <1>2, <1>6
  <2>2. s2 = AfterPrefix(s, l, n)
    BY <1>9
  <2>3. Ordered(AfterPrefix(s, l, n)) /\ ShiftedBy(AfterPrefix(s, l, n), s, s[l + 1].key, InsertDelta(s, l, n))
    BY <2>1, AfterPrefixIs
  <2> HIDE DEF s2
  <2> QED BY <1>12, <1>13, <2>2, <2>3
<1> HIDE DEF s2
<1>15. PICK pk : /\ NewKeys(pk, s, l, n, d)
                 /\ Gives(C0, pre, After(C0, s, l, d, pk, prefix, n))
                 /\ pre \in Seq(Planned(b))
  <2>1. l \in 0..Len(s)
    <3>1. l <= N
      BY <1>6f
    <3> HIDE DEF pre, prefix, C0
    <3> QED BY <1>2, <3>1
  <2>2. d = InsertDelta(s, l, Len(prefix))
    BY <1>9, <1>12
  <2> HIDE DEF C0
  <2>3. Inserts(C0, pre, s, l, prefix, d) /\ pre \in Seq(Planned(b))
    BY <1>9, <1>10, <2>1, <2>2, GivesInsert
  <2> HIDE DEF pre
  <2> QED BY <1>9, <2>3 DEF Inserts
<1>16. Content(s2) = {Slid(c, x, d) : c \in C0}
  BY <1>14, SlidContent
<1>17. PICK C : C = Content(s2) \cup NewContent(pk, prefix, n)
  OBVIOUS
<1>18. Gives(C0, pre, C)
  BY <1>13, <1>15, <1>16, <1>17 DEF After
<1>19. Len(s2) = N /\ DOMAIN s2 = 1..N /\ s2 # <<>>
  <2>1. Len(s2) = N
    BY <1>2, <1>14 DEF ShiftedBy
  <2>2. s2 # <<>>
    <3>1. N # 0
      BY <1>6
    <3> QED BY <2>1, <3>1
  <2> QED BY <1>14, <2>1, <2>2, OrderedIs
<1>20. Rising(pk, n) /\ \A k \in 1..n : pk[k] \in Int
  BY <1>15 DEF NewKeys, Rising
<1>21. C \in SUBSET (Int \X Message)
  <2>1. Content(s2) \in SUBSET (Int \X Message)
    BY <1>14, ContentIs
  <2>2. \A k \in 1..n : prefix[k] \in Message
    BY <1>9
  <2> QED BY <1>17, <1>20, <2>1, <2>2 DEF NewContent
<1>22. PICK e2 \in Nat : e2 = InsertDelta(s2, r, m)
  <2>1. CASE m = 0
    BY <2>1 DEF InsertDelta
  <2>2. CASE m # 0
    <3>1. r \in 0..Len(s2)
      BY <1>6, <1>19
    <3> QED BY <1>14, <1>19, <2>2, <3>1, AllocateFits DEF InsertDelta, FitsPlace
  <2> QED BY <2>1, <2>2
<1>22s. InsertOps(s2, r, suffix, actor, b, from + n) = suf
  BY <1>9
<1>23. PICK sk : /\ NewKeys(sk, s2, r, m, e2)
                 /\ Gives(C, suf, After(C, s2, r, e2, sk, suffix, m))
                 /\ suf \in Seq(Planned(b))
  <2>1. r \in 0..Len(s2) /\ from + n \in Nat
    BY <1>6, <1>19
  <2>2. e2 = InsertDelta(s2, r, Len(suffix))
    BY <1>9, <1>22
  <2>3. /\ Inserts(C, InsertOps(s2, r, suffix, actor, b, from + n), s2, r, suffix, e2)
        /\ InsertOps(s2, r, suffix, actor, b, from + n) \in Seq(Planned(b))
    BY <1>9, <1>14, <1>19, <1>21, <2>1, <2>2, GivesInsert
  <2> HIDE DEF suf
  <2> QED BY <1>9, <1>22s, <2>3 DEF Inserts
<1>24. PICK D : D = After(C, s2, r, e2, sk, suffix, m)
  OBVIOUS
<1>25. Laid(D, inc) /\ Merged(D, s, inc, a)
  <2>1. \A j \in 1..N : /\ s2[j].hash = s[j].hash
                        /\ s2[j].key = IF s[j].key >= x THEN s[j].key + d ELSE s[j].key
    BY <1>2, <1>14 DEF ShiftedBy
  <2>2. \A j \in (l + 1)..r : s2[j].hash = inc[n + (j - l)]
    <3>1. \A j \in (l + 1)..r : j \in 1..N
      BY <1>6
    <3> QED BY <1>8, <2>1, <3>1
  <2>3. l >= 1 => \A k \in 1..n : s2[l].key < pk[k]
    <3> SUFFICES ASSUME l >= 1 PROVE \A k \in 1..n : s2[l].key < pk[k]
      OBVIOUS
    <3>1. l \in 1..N /\ l + 1 \in 1..N /\ l < l + 1
      BY <1>6
    <3>2. s[l].key < x
      BY <1>2, <1>13, <3>1 DEF Ordered
    <3>3. ~ (s[l].key >= x)
      <4>1. s[l].key \in Int
        BY <1>2, <3>1
      <4> QED BY <3>2, <4>1
    <3>4. s2[l].key = s[l].key
      BY <2>1, <3>1, <3>3
    <3> QED BY <1>15, <3>4 DEF NewKeys
  <2>4. \A k \in 1..n : pk[k] < s2[l + 1].key
    <3>1. l + 1 \in 1..N /\ l < Len(s)
      <4>1. l < N
        BY <1>6
      <4> QED BY <1>2, <4>1
    <3>2. s2[l + 1].key = s[l + 1].key + d
      <4>1. s[l + 1].key >= x
        BY <1>13
      <4> QED BY <2>1, <3>1, <4>1
    <3> QED BY <1>15, <3>1, <3>2 DEF NewKeys
  <2>5. Len(inc) = n + (r - l) + m /\ l <= r /\ r <= Len(s2) /\ (n # 0 => l < r)
    BY <1>1, <1>6, <1>19
  <2>6. NewKeys(sk, s2, r, m, e2)
    BY <1>23
  <2>7. Suits(s2, l, r, pk, n, m, e2, sk, inc, prefix, suffix)
    BY <1>9, <1>20, <2>2, <2>3, <2>4, <2>5, <2>6 DEF Suits
  <2>8. Laid(D, inc)
    BY <1>14, <1>17, <1>24, <2>7, LaidByInsert
  <2>9. Len(s2) = Len(s) /\ \A j \in 1..Len(s) : s2[j].hash = s[j].hash
    BY <1>2, <1>19, <2>1
  <2>10. D = After(Content(s2) \cup NewContent(pk, prefix, n), s2, r, e2, sk, suffix, m)
    BY <1>17, <1>24
  <2>11. l = a.stored - 1 /\ r = a.stored + a.len - 1 /\ n = a.incoming - 1
         /\ m = Len(inc) - (a.incoming + a.len) + 1
    BY <1>1, <1>6
  <2>12. \E l0, r0, n0, m0, d0 \in Nat :
           /\ Ordered(s2) /\ Len(s2) = Len(s) /\ \A j \in 1..Len(s) : s2[j].hash = s[j].hash
           /\ l0 = a.stored - 1 /\ r0 = a.stored + a.len - 1 /\ n0 = a.incoming - 1
           /\ m0 = Len(inc) - (a.incoming + a.len) + 1
           /\ Suits(s2, l0, r0, pk, n0, m0, d0, sk, inc, prefix, suffix)
           /\ D = After(Content(s2) \cup NewContent(pk, prefix, n0), s2, r0, d0, sk, suffix, m0)
    BY <1>14, <2>7, <2>9, <2>10, <2>11
  <2> QED BY <2>8, <2>12 DEF Merged
<1>26. up \o pre \o suf = (up \o pre) \o suf
  OBVIOUS
<1>27. Gives(C0, (up \o pre) \o suf, D)
  <2>1. Gives(C, suf, D)
    BY <1>23, <1>24
  <2>2. /\ up \in Seq(Planned(b)) /\ pre \in Seq(Planned(b)) /\ suf \in Seq(Planned(b))
    <3>1. e..r \in SUBSET (1..N)
      <4>1. \A j \in e..r : j \in 1..N
        BY <1>6f
      <4> QED BY <4>1
    <3>2. e..r \in SUBSET DOMAIN s
      BY <1>2, <3>1
    <3>3. up \in Seq(Planned(b))
      BY <3>2, RunsUpgrade
    <3> QED BY <1>15, <1>23, <3>3
  <2> HIDE DEF C0, up, pre, suf
  <2>3. Gives(C0, up \o pre, C) /\ up \o pre \in Seq(Planned(b))
    BY <1>11, <1>18, <2>2, GivesThen, ConcatProperties
  <2> DEFINE first == up \o pre
  <2> HIDE DEF first
  <2>4. Gives(C0, first \o suf, D)
    BY <2>1, <2>2, <2>3, GivesThen DEF first
  <2> QED BY <2>4 DEF first
<1> QED BY <1>7, <1>25, <1>26, <1>27

\* New rows behind all others, after the rows l+1, ... of the payload.
LEMMA LaidBehind ==
  ASSUME NEW s, Ordered(s), NEW l \in Nat, l <= Len(s), NEW m \in Nat, NEW keys, Rising(keys, m),
         Len(s) >= 1 => \A k \in 1..m : s[Len(s)].key < keys[k],
         NEW inc \in Seq(Message), Len(inc) = (Len(s) - l) + m,
         \A i \in (l + 1)..Len(s) : s[i].hash = inc[i - l],
         NEW suf, \A k \in 1..m : suf[k] = inc[(Len(s) - l) + k]
  PROVE  Laid(Content(s) \cup NewContent(keys, suf, m), inc)
<1>1. PICK N \in Nat : N = Len(s)
  BY OrderedIs
<1>2a. PICK e : e = <<>>
  OBVIOUS
<1>2b. PICK z \in Nat : z = 0
  OBVIOUS
<1>2. PICK C : C = Content(s) \cup NewContent(e, e, z)
  OBVIOUS
<1>3. C = Content(s)
  BY <1>2, <1>2b DEF NewContent
<1>4. NewKeys(keys, s, N, m, z)
  BY <1>1, <1>2b DEF NewKeys
<1>5. Suits(s, l, N, e, z, m, z, keys, inc, e, suf)
  <2>1. l <= N /\ N <= Len(s) /\ (z # 0 => l < N) /\ Rising(e, z) /\ Len(inc) = z + (N - l) + m
    BY <1>1, <1>2b DEF Rising
  <2>2. \A i \in (l + 1)..N : z + (i - l) = i - l
    BY <1>2b
  <2>3. \A k \in 1..m : z + (N - l) + k = (N - l) + k
    BY <1>1, <1>2b
  <2>4. \A i \in (l + 1)..N : s[i].hash = inc[z + (i - l)]
    BY <1>1, <2>2
  <2>5. \A k \in 1..m : suf[k] = inc[z + (N - l) + k]
    BY <1>1, <2>3
  <2>6. (N < Len(s) => FALSE) /\ \A k \in 1..z : FALSE
    BY <1>1, <1>2b
  <2> QED BY <1>4, <2>1, <2>4, <2>5, <2>6 DEF Suits
<1>6. Laid(After(Content(s) \cup NewContent(e, e, z), s, N, z, keys, suf, m), inc)
  BY <1>1, <1>2b, <1>5, LaidByInsert
<1>7. {Slid(c, ShiftFrom(s, N), z) : c \in C} = C
  <2>1. \A c \in C : c = Slid(c, ShiftFrom(s, N), z)
    <3> TAKE c \in C
    <3>1. c \in Int \X Message
      BY <1>3, ContentIs
    <3>2. c = <<c[1], c[2]>> /\ c[1] \in Int
      BY <3>1
    <3> QED BY <1>2b, <3>2 DEF Slid
  <2> QED BY <2>1
<1> QED BY <1>2, <1>3, <1>6, <1>7 DEF After

LEMMA PreparedLays ==
  ASSUME NEW s, Ordered(s), NEW inc \in Seq(Message),
         NEW actor \in Actor \cup {NoActor}, NEW b \in Nat, NEW life \in Nat, NEW from \in Nat,
         NEW allowShort, NEW a, a = _find_alignment(s, anchors, inc, allowShort),
         a.len > 0 => s # <<>> /\ Matches(a, Hashes(s), inc)
  PROVE  Lays(PreparedOps(s, inc, actor, b, life, from, allowShort), s, inc)
<1>1. PreparedOps(s, inc, actor, b, life, from, allowShort)
        = IF a.len > 0 THEN MergeOps(s, a, inc, actor, b, life, from)
          ELSE IF Fragment(s, inc) THEN <<>> ELSE AppendOps(s, inc, actor, b, from)
  BY DEF PreparedOps
<1>2. CASE a.len > 0
  <2>1. \E D : Gives(Content(s), MergeOps(s, a, inc, actor, b, life, from), D) /\ Laid(D, inc)
    BY <1>2, GivesMerge
  <2> QED BY <1>1, <1>2, <2>1 DEF Lays
<1>3. CASE ~ (a.len > 0) /\ Fragment(s, inc)
  BY <1>1, <1>3 DEF Lays
<1>4. CASE ~ (a.len > 0) /\ ~Fragment(s, inc)
  <2>1. PICK N \in Nat : N = Len(s) /\ (N = 0 <=> s = <<>>)
    BY OrderedIs
  <2>2. PICK x \in Int : x = IF s = <<>> THEN 0 ELSE s[N].key
    BY <2>1, LastIsGreatest
  <2>3. PICK M \in Nat : M = Len(inc)
    OBVIOUS
  <2>4. PICK keys : keys = KeysAbove(x, M)
    OBVIOUS
  <2>5. Rising(keys, M) /\ \A k \in 1..M : x < keys[k]
    BY <2>4, AboveRises
  <2>6. AppendOps(s, inc, actor, b, from) = WriteOps(inc, keys, actor, b, from)
    BY <2>1, <2>2, <2>3, <2>4 DEF AppendOps
  <2>7. Gives(Content(s), WriteOps(inc, keys, actor, b, from), Content(s) \cup NewContent(keys, inc, M))
    BY <2>3, <2>5, GivesWrites
  <2>8. Laid(Content(s) \cup NewContent(keys, inc, M), inc)
    <3>1. Len(s) >= 1 => \A k \in 1..M : s[Len(s)].key < keys[k]
      BY <2>1, <2>2, <2>5
    <3>2. N <= Len(s) /\ Len(inc) = (Len(s) - N) + M
      BY <2>1, <2>3
    <3>3. (\A i \in (N + 1)..Len(s) : FALSE) /\ \A k \in 1..M : (Len(s) - N) + k = k
      BY <2>1
    <3>4. \A k \in 1..M : inc[k] = inc[(Len(s) - N) + k]
      BY <3>3
    <3> QED BY <2>5, <3>1, <3>2, <3>3, <3>4, LaidBehind
  <2> QED BY <1>1, <1>4, <2>6, <2>7, <2>8 DEF Lays
<1> QED BY <1>2, <1>3, <1>4

-----------------------------------------------------------------------------
(* True anchors find true overlaps.                                        *)

LEMMA AnchorsAre ==
  ASSUME NEW s, Ordered(s), Unique(s), NEW w \in WindowSizes
  PROVE  AnchorPositions(w, s, _build_anchor_rows(s)) = Built(w, s)
<1>0. w \in Nat /\ w >= 3
  BY ReconcilerAssumption
<1>1. PICK N \in Nat : N = Len(s) /\ DOMAIN s = 1..N
  BY OrderedIs
<1>2. PICK anc : anc = _build_anchor_rows(s)
  OBVIOUS
<1> DEFINE stored == {<<a.digest, i>> : a \in {b \in anc : b.size = w}, i \in DOMAIN s}
           joined == {p \in stored : \E a \in anc :
                        a.size = w /\ a.digest = p[1] /\ a.start = s[p[2]].id}
           A(v, i) == [size |-> v, digest |-> Window(Hashes(s), i, v), start |-> s[i].id]
<1>3. AnchorPositions(w, s, anc) = IF joined # {} THEN joined ELSE Built(w, s)
  BY DEF AnchorPositions, Built
<1>4. \A a \in anc : \E v \in WindowSizes : \E i \in 1..(N - v + 1) : a = A(v, i)
  BY <1>1, <1>2 DEF _build_anchor_rows
<1>5. \A i \in 1..(N - w + 1) : A(w, i) \in anc
  BY <1>1, <1>2 DEF _build_anchor_rows
<1>6. \A v, i : A(v, i).size = v /\ A(v, i).digest = Window(Hashes(s), i, v) /\ A(v, i).start = s[i].id
  OBVIOUS
<1> HIDE DEF A
<1>7. ASSUME NEW p \in joined PROVE p \in Built(w, s)
  <2>1. PICK j \in 1..N : p = <<p[1], j>>
    BY <1>1
  <2>2. PICK a \in anc : a.size = w /\ a.digest = p[1] /\ a.start = s[j].id
    BY <2>1
  <2>3. PICK v \in WindowSizes : \E i \in 1..(N - v + 1) : a = A(v, i)
    BY <1>4
  <2>3a. PICK i \in 1..(N - v + 1) : a = A(v, i)
    BY <2>3
  <2>4. v = w /\ p[1] = Window(Hashes(s), i, w) /\ s[i].id = s[j].id
    BY <1>6, <2>2, <2>3a
  <2>5. i \in 1..N
    BY <1>0, <2>3, <2>4
  <2>6. i = j
    BY <1>1, <2>4, <2>5 DEF Unique
  <2> QED BY <1>1, <2>1, <2>3, <2>4, <2>6 DEF Built
<1>8. ASSUME NEW p \in Built(w, s) PROVE p \in joined
  <2>1. PICK i \in 1..(N - w + 1) : p = <<Window(Hashes(s), i, w), i>>
    BY <1>1 DEF Built
  <2>2. A(w, i) \in anc /\ A(w, i).size = w /\ A(w, i).digest = p[1] /\ A(w, i).start = s[p[2]].id
    BY <1>5, <1>6, <2>1
  <2>3. i \in DOMAIN s
    BY <1>0, <1>1
  <2>4. p \in stored
    BY <2>1, <2>2, <2>3
  <2> QED BY <2>2, <2>4
<1> HIDE DEF joined
<1>9. joined = Built(w, s)
  BY <1>7, <1>8
<1> QED BY <1>2, <1>3, <1>9

\* Equal windows are an overlap.
LEMMA WindowsMatch ==
  ASSUME NEW ex \in Seq(Message), NEW inc \in Seq(Message), NEW n \in Nat \ {0},
         NEW e \in 1..(Len(ex) - n + 1), NEW i \in 1..(Len(inc) - n + 1),
         Window(ex, e, n) = Window(inc, i, n)
  PROVE  Matches(Aligned(e, i, n, inc), ex, inc)
<1>1. PICK N \in Nat : N = Len(ex)
  OBVIOUS
<1>2. PICK M \in Nat : M = Len(inc)
  OBVIOUS
<1>3. e \in Nat \ {0} /\ i \in Nat \ {0} /\ e + n - 1 <= N /\ i + n - 1 <= M
  BY <1>1, <1>2
<1>4. /\ \A j \in 1..n : Window(ex, e, n)[j] = ex[e + j - 1]
      /\ \A j \in 1..n : Window(inc, i, n)[j] = inc[i + j - 1]
  BY WindowIs
<1>5. ASSUME NEW k \in 0..(n - 1) PROVE inc[i + k] = ex[e + k]
  <2>1. k + 1 \in 1..n /\ e + (k + 1) - 1 = e + k /\ i + (k + 1) - 1 = i + k
    BY <1>3
  <2>2. Window(ex, e, n)[k + 1] = ex[e + (k + 1) - 1] /\ Window(inc, i, n)[k + 1] = inc[i + (k + 1) - 1]
    BY <1>4, <2>1
  <2> QED BY <2>1, <2>2
<1>6. /\ Aligned(e, i, n, inc).stored = e /\ Aligned(e, i, n, inc).incoming = i
      /\ Aligned(e, i, n, inc).len = n
  BY DEF Aligned
<1> QED BY <1>1, <1>2, <1>3, <1>5, <1>6 DEF Matches

LEMMA WholeMatches ==
  ASSUME NEW s, Ordered(s), s # <<>>, NEW inc \in Seq(Message), Whole(Hashes(s), inc).len > 0
  PROVE  Matches(Whole(Hashes(s), inc), Hashes(s), inc)
<1>1. PICK ex \in Seq(Message) : ex = Hashes(s)
  BY HashesIs
<1>2. PICK N \in Nat \ {0} : N = Len(ex)
  <2>1. PICK N \in Nat \ {0} : N = Len(s)
    BY OrderedIs
  <2> QED BY <1>1, <2>1, HashesIs
<1>3. PICK M \in Nat : M = Len(inc)
  OBVIOUS
<1>4. \/ Whole(ex, inc) = NoAlignment
      \/ \E i \in 1..(M - N + 1) : Whole(ex, inc) = Aligned(1, i, N, inc) /\ Window(inc, i, N) = ex
  <2>1. CASE N > M
    BY <1>2, <1>3, <2>1 DEF Whole
  <2>2. CASE ~ (N > M)
    <3>1. 1 \in 1..(M - N + 1) /\ M - N + 1 \in 1..(M - N + 1)
      BY <2>2
    <3> QED BY <1>2, <1>3, <2>2, <3>1 DEF Whole
  <2> QED BY <2>1, <2>2
<1>5. PICK i \in 1..(M - N + 1) : Whole(ex, inc) = Aligned(1, i, N, inc) /\ Window(inc, i, N) = ex
  <2>1. NoAlignment.len = 0
    BY DEF NoAlignment
  <2>2. Whole(ex, inc) # NoAlignment
    BY <1>1, <2>1
  <2> QED BY <1>4, <2>2
<1>6. Window(ex, 1, N) = ex
  <2>1. 1 \in 1..(Len(ex) - N + 1)
    BY <1>2
  <2>2. /\ Window(ex, 1, N) \in Seq(Message) /\ Len(Window(ex, 1, N)) = N
        /\ \A j \in 1..N : Window(ex, 1, N)[j] = ex[1 + j - 1]
    BY <2>1, WindowIs
  <2>3. \A j \in 1..N : 1 + j - 1 = j
    OBVIOUS
  <2>4. \A j \in 1..N : Window(ex, 1, N)[j] = ex[j]
    BY <2>2, <2>3
  <2> QED BY <1>2, <2>2, <2>4, SameSequence
<1>7. Matches(Aligned(1, i, N, inc), ex, inc)
  <2>1. 1 \in 1..(Len(ex) - N + 1) /\ i \in 1..(Len(inc) - N + 1)
    BY <1>2, <1>3
  <2> QED BY <1>5, <1>6, <2>1, WindowsMatch
<1> QED BY <1>1, <1>5, <1>7

LEMMA ShortMatches ==
  ASSUME NEW ex \in Seq(Message), NEW inc \in Seq(Message), Short(ex, inc).len > 0
  PROVE  Matches(Short(ex, inc), ex, inc)
<1>1. PICK N \in Nat : N = Len(ex)
  OBVIOUS
<1>3. PICK M \in Nat : M = Len(inc)
  OBVIOUS
<1> DEFINE Hit(n) == {p \in (1..(N - n + 1)) \X (1..(M - n + 1)) :
                        Window(ex, p[1], n) = Window(inc, p[2], n)}
           lens == {n \in 1..Min({N, M}) : Hit(n) # {}}
           n0 == Max(lens)
           i0 == Min({p[2] : p \in Hit(n0)})
           e0 == Min({p[1] : p \in {q \in Hit(n0) : q[2] = i0}})
<1>4. Short(ex, inc) = IF lens = {} THEN NoAlignment ELSE Aligned(e0, i0, n0, inc)
  BY <1>1, <1>3 DEF Short
<1>5. lens # {}
  <2>1. Short(ex, inc).len > 0 /\ NoAlignment.len = 0
    BY DEF NoAlignment
  <2> HIDE DEF lens, n0, i0, e0
  <2> QED BY <1>4, <2>1
<1>6. n0 \in lens
  <2>1. Min({N, M}) \in {N, M}
    BY LeastIs
  <2>2. PICK b \in Nat : b = Min({N, M})
    BY <2>1
  <2>3. lens \in SUBSET Nat /\ \A x \in lens : x <= b
    BY <2>2
  <2> HIDE DEF lens
  <2> QED BY <1>5, <2>3, GreatestIs
<1>7. n0 \in Nat \ {0} /\ Hit(n0) # {}
  <2>1. Min({N, M}) \in Nat
    BY LeastIs
  <2> HIDE DEF n0, Hit
  <2> QED BY <1>6, <2>1
<1> HIDE DEF n0, lens
<1>8. \A p \in Hit(n0) : /\ p[1] \in 1..(N - n0 + 1) /\ p[2] \in 1..(M - n0 + 1)
                         /\ Window(ex, p[1], n0) = Window(inc, p[2], n0)
  BY <1>7
<1>8a. \A p \in Hit(n0) : p[1] \in Nat /\ p[2] \in Nat
  BY <1>8
<1> HIDE DEF Hit
<1>9. i0 \in {p[2] : p \in Hit(n0)}
  <2>1. {p[2] : p \in Hit(n0)} \in SUBSET Nat /\ {p[2] : p \in Hit(n0)} # {}
    BY <1>7, <1>8a
  <2> QED BY <2>1, LeastIs
<1> HIDE DEF i0
<1>10. e0 \in {p[1] : p \in {q \in Hit(n0) : q[2] = i0}}
  <2>1. {p[1] : p \in {q \in Hit(n0) : q[2] = i0}} \in SUBSET Nat
    BY <1>8a
  <2>2. {p[1] : p \in {q \in Hit(n0) : q[2] = i0}} # {}
    BY <1>9
  <2> QED BY <2>1, <2>2, LeastIs
<1> HIDE DEF e0
<1>11. /\ e0 \in 1..(N - n0 + 1) /\ i0 \in 1..(M - n0 + 1)
       /\ Window(ex, e0, n0) = Window(inc, i0, n0)
  BY <1>8, <1>10
<1>12. Matches(Aligned(e0, i0, n0, inc), ex, inc)
  BY <1>1, <1>3, <1>7, <1>11, WindowsMatch
<1> QED BY <1>4, <1>5, <1>12

LEMMA WidenIs ==
  ASSUME NEW e \in Nat \ {0}, NEW i \in Nat \ {0}, NEW w \in Nat \ {0},
         NEW ex \in Seq(Message), NEW inc \in Seq(Message)
  PROVE  \E left, right : Widens(Widen(e, i, w, ex, inc), left, right, ex, inc, e, i, w)
<1>1. PICK M \in Nat : M = Len(inc)
  OBVIOUS
<1> DEFINE Eq(k) == /\ i + k \in DOMAIN inc /\ e + k \in DOMAIN ex
                    /\ inc[i + k] = ex[e + k]
           Ls == {l \in 0..(i - 1) : \A k \in 1..l : Eq(-k)}
           Rs == {r \in w..(w + Len(inc)) : \A k \in w..(r - 1) : Eq(k)}
           left == Max(Ls)
           right == Max(Rs)
           x == Widen(e, i, w, ex, inc)
<1>2. Widen(e, i, w, ex, inc) = [stored |-> e - left, incoming |-> i - left, len |-> left + right]
  BY DEF Widen
<1>3. /\ left \in 0..(i - 1) /\ \A k \in 1..left : Eq(-k)
      /\ \A l \in 0..(i - 1) : (\A k \in 1..l : Eq(-k)) => l <= left
  <2>1. Ls \in SUBSET Nat /\ (\A l \in Ls : l <= i - 1) /\ i - 1 \in Nat
    OBVIOUS
  <2>2. 0 \in Ls
    OBVIOUS
  <2>3. left \in Ls /\ \A l \in Ls : left >= l
    <3> HIDE DEF Ls
    <3> QED BY <2>1, <2>2, GreatestIs
  <2> HIDE DEF left, Eq
  <2>4. left \in 0..(i - 1) /\ \A k \in 1..left : Eq(-k)
    BY <2>3
  <2>5. ASSUME NEW l \in 0..(i - 1), \A k \in 1..l : Eq(-k) PROVE l <= left
    <3>1. l \in Ls
      BY <2>5
    <3>2. left >= l
      BY <2>3, <3>1
    <3> QED BY <2>4, <3>2
  <2> QED BY <2>4, <2>5
<1>4. right \in Rs /\ \A r \in Rs : right >= r
  <2>1. Rs \in SUBSET Nat /\ (\A r \in Rs : r <= w + M) /\ w + M \in Nat
    BY <1>1
  <2>2. w \in Rs
    <3>1. w \in w..(w + Len(inc)) /\ \A k \in w..(w - 1) : FALSE
      BY <1>1
    <3> HIDE DEF Eq
    <3> QED BY <3>1
  <2>3. right \in Rs /\ \A r \in Rs : right >= r
    <3> HIDE DEF Rs
    <3> QED BY <2>1, <2>2, GreatestIs
  <2> QED BY <2>3
<1> HIDE DEF left, right
<1>5. /\ right \in w..(w + M) /\ \A k \in w..(right - 1) : Eq(k)
      /\ \A r \in w..(w + M) : (\A k \in w..(r - 1) : Eq(k)) => r <= right
  <2> HIDE DEF Eq
  <2>1. right \in w..(w + M) /\ \A k \in w..(right - 1) : Eq(k)
    BY <1>1, <1>4
  <2>2. ASSUME NEW r \in w..(w + M), \A k \in w..(r - 1) : Eq(k) PROVE r <= right
    <3>1. r \in Rs
      BY <1>1, <2>2
    <3>2. right >= r
      BY <1>4, <3>1
    <3> QED BY <2>1, <3>2
  <2> QED BY <2>1, <2>2
<1>6. \A k : Eq(k) <=> Equal(ex, inc, e, i, k)
  BY DEF Equal
<1> HIDE DEF Eq
<1>7. x.stored = e - left /\ x.incoming = i - left /\ x.len = left + right
  BY <1>2
<1> HIDE DEF x
<1>8. Widens(x, left, right, ex, inc, e, i, w)
  BY <1>1, <1>3, <1>5, <1>6, <1>7 DEF Widens
<1> QED BY <1>8 DEF x

\* A hit where the windows are equal widens to an overlap.
LEMMA WidenMatches ==
  ASSUME NEW ex \in Seq(Message), NEW inc \in Seq(Message), NEW w \in Nat \ {0},
         NEW e \in 1..(Len(ex) - w + 1), NEW i \in 1..(Len(inc) - w + 1),
         Window(ex, e, w) = Window(inc, i, w),
         NEW x, x = Widen(e, i, w, ex, inc)
  PROVE  Matches(Aligned(x.stored, x.incoming, x.len, inc), ex, inc)
<1>1. PICK N \in Nat : N = Len(ex) /\ DOMAIN ex = 1..N
  OBVIOUS
<1>2. PICK M \in Nat : M = Len(inc) /\ DOMAIN inc = 1..M
  OBVIOUS
<1>3. e \in Nat \ {0} /\ i \in Nat \ {0} /\ e + w - 1 <= N /\ i + w - 1 <= M
  BY <1>1, <1>2
<1>4. PICK left, right : Widens(x, left, right, ex, inc, e, i, w)
  BY <1>3, WidenIs
<1>5. /\ left \in 0..(i - 1) /\ right \in w..(w + M)
      /\ x.stored = e - left /\ x.incoming = i - left /\ x.len = left + right
      /\ \A k \in 1..left : Equal(ex, inc, e, i, -k)
      /\ \A k \in w..(right - 1) : Equal(ex, inc, e, i, k)
  BY <1>2, <1>4 DEF Widens
<1>6. left \in Nat /\ left < e /\ left < i
  <2>1. left \in Nat /\ left < i
    BY <1>3, <1>5
  <2>2. CASE left = 0
    BY <1>3, <2>1, <2>2
  <2>3. CASE left # 0
    <3>1. left \in 1..left
      BY <2>1, <2>3
    <3>2. e + (-left) \in 1..N
      BY <1>1, <1>5, <3>1 DEF Equal
    <3> QED BY <1>3, <2>1, <3>2
  <2> QED BY <2>2, <2>3
<1>7. right \in Nat /\ right >= w /\ e + right - 1 <= N /\ i + right - 1 <= M
  <2>1. right \in Nat /\ right >= w
    BY <1>5
  <2>2. CASE right = w
    BY <1>3, <2>2
  <2>3. CASE right # w
    <3>1. right - 1 \in w..(right - 1)
      BY <2>1, <2>3
    <3>2. e + (right - 1) \in 1..N /\ i + (right - 1) \in 1..M
      BY <1>1, <1>2, <1>5, <3>1 DEF Equal
    <3> QED BY <1>3, <2>1, <3>2
  <2> QED BY <2>2, <2>3
<1>8. /\ \A j \in 1..w : Window(ex, e, w)[j] = ex[e + j - 1]
      /\ \A j \in 1..w : Window(inc, i, w)[j] = inc[i + j - 1]
  BY WindowIs
<1>9. ASSUME NEW k \in Int, k >= -left, k < right PROVE inc[i + k] = ex[e + k]
  <2>1. CASE k < 0
    <3>1. -k \in 1..left /\ k = -(-k)
      BY <1>6, <1>9, <2>1
    <3> QED BY <1>5, <3>1 DEF Equal
  <2>2. CASE k >= w
    <3>1. k \in w..(right - 1)
      BY <1>7, <1>9, <2>2
    <3> QED BY <1>5, <3>1 DEF Equal
  <2>3. CASE k >= 0 /\ k < w
    <3>1. k + 1 \in 1..w /\ e + (k + 1) - 1 = e + k /\ i + (k + 1) - 1 = i + k
      BY <1>3, <2>3
    <3>2. Window(ex, e, w)[k + 1] = ex[e + (k + 1) - 1] /\ Window(inc, i, w)[k + 1] = inc[i + (k + 1) - 1]
      BY <1>8, <3>1
    <3> QED BY <3>1, <3>2
  <2> QED BY <2>1, <2>2, <2>3
<1> DEFINE a == Aligned(x.stored, x.incoming, x.len, inc)
<1>10. a.stored = e - left /\ a.incoming = i - left /\ a.len = left + right
  BY <1>5 DEF Aligned
<1> HIDE DEF a
<1>11. /\ a.stored \in Nat \ {0} /\ a.incoming \in Nat \ {0} /\ a.len \in Nat \ {0}
       /\ a.stored + a.len - 1 <= N /\ a.incoming + a.len - 1 <= M
  <2>1. e - left \in Nat \ {0} /\ i - left \in Nat \ {0} /\ left + right \in Nat \ {0}
    BY <1>3, <1>6, <1>7
  <2>2. (e - left) + (left + right) - 1 <= N /\ (i - left) + (left + right) - 1 <= M
    BY <1>3, <1>6, <1>7
  <2> QED BY <1>10, <2>1, <2>2
<1>12. ASSUME NEW k \in 0..(a.len - 1) PROVE inc[a.incoming + k] = ex[a.stored + k]
  <2>1. /\ k - left \in Int /\ k - left >= -left /\ k - left < right
        /\ i + (k - left) = (i - left) + k /\ e + (k - left) = (e - left) + k
    <3>1. k \in 0..((left + right) - 1)
      BY <1>10
    <3> QED BY <1>3, <1>6, <1>7, <3>1
  <2>2. inc[i + (k - left)] = ex[e + (k - left)]
    BY <1>9, <2>1
  <2> QED BY <1>10, <2>1, <2>2
<1>13. Matches(a, ex, inc)
  BY <1>1, <1>2, <1>11, <1>12 DEF Matches
<1> QED BY <1>13 DEF a

LEMMA ByWindowMatches ==
  ASSUME NEW s, Ordered(s), NEW w \in WindowSizes, NEW anc, TrueAnchors(s, anc),
         NEW inc \in Seq(Message), ByWindow(w, s, anc, inc).len > 0
  PROVE  Matches(ByWindow(w, s, anc, inc), Hashes(s), inc)
<1>0. w \in Nat \ {0}
  BY ReconcilerAssumption
<1>1. AnchorHits(w, s, anc, inc) # {}
  <2>1. ~ (NoAlignment.len > 0)
    BY DEF NoAlignment
  <2>2. AnchorHits(w, s, anc, inc) = {} => ByWindow(w, s, anc, inc) = NoAlignment
    BY Zenon DEF ByWindow
  <2> QED BY <2>1, <2>2
<1>2. PICK p : Best(p, w, s, anc, inc)
  BY <1>0, <1>1, BestHit
<1>3. PICK x : x = Widen(p[2], p[1], w, Hashes(s), inc)
  OBVIOUS
<1>4. ByWindow(w, s, anc, inc) = Aligned(x.stored, x.incoming, x.len, inc)
  BY <1>2, <1>3 DEF Best
<1>5. p \in AnchorHits(w, s, anc, inc)
  BY <1>2 DEF Best
<1>6. /\ p[1] \in 1..(Len(inc) - w + 1) /\ p[3] = Window(inc, p[1], w)
      /\ <<p[3], p[2]>> \in AnchorPositions(w, s, anc)
  BY <1>0, <1>5, HitIs
<1>7. <<p[3], p[2]>> \in Built(w, s)
  BY <1>6 DEF TrueAnchors
<1>8. p[2] \in 1..(Len(s) - w + 1) /\ p[3] = Window(Hashes(s), p[2], w)
  BY <1>7 DEF Built
<1>9. Hashes(s) \in Seq(Message) /\ Len(Hashes(s)) = Len(s)
  BY HashesIs
<1>10. Matches(Aligned(x.stored, x.incoming, x.len, inc), Hashes(s), inc)
  BY <1>0, <1>3, <1>6, <1>8, <1>9, WidenMatches
<1> QED BY <1>4, <1>10

\* What _find_alignment finds by true anchors is in both.
LEMMA FindMatches ==
  ASSUME NEW s, Ordered(s), NEW anc, TrueAnchors(s, anc), NEW inc \in Seq(Message),
         NEW allowShort \in BOOLEAN,
         NEW a, a = _find_alignment(s, anc, inc, allowShort), a.len > 0
  PROVE  s # <<>> /\ Matches(a, Hashes(s), inc)
<1>2. PICK M \in Nat : M = Len(inc)
  OBVIOUS
<1> DEFINE ex == Hashes(s)
           short == IF allowShort /\ Min({Len(ex), Len(inc)}) < 3
                    THEN Short(ex, inc) ELSE NoAlignment
           hit == {w \in WindowSizes : ByWindow(w, s, anc, inc).len > 0}
<1>3. a = IF ex = <<>> \/ inc = <<>> THEN NoAlignment
          ELSE IF Whole(ex, inc).len > 0 THEN Whole(ex, inc)
          ELSE IF short.len > 0 THEN short
          ELSE IF hit = {} THEN NoAlignment
          ELSE ByWindow(Max(hit), s, anc, inc)
  BY DEF _find_alignment
<1>4. ~ (NoAlignment.len > 0)
  BY DEF NoAlignment
<1>7. \A w \in hit : w \in WindowSizes /\ w \in Nat /\ w <= M /\ ByWindow(w, s, anc, inc).len > 0
  <2> TAKE w \in hit
  <2>1. w \in WindowSizes /\ ByWindow(w, s, anc, inc).len > 0 /\ w \in Nat \ {0}
    BY ReconcilerAssumption
  <2> QED BY <1>2, <2>1, ByWindowBegins
<1>8. hit # {} => Max(hit) \in hit
  <2>1. hit \in SUBSET Nat /\ \A w \in hit : w <= M
    BY <1>7
  <2> HIDE DEF hit
  <2> QED BY <2>1, GreatestIs
<1>5. ex \in Seq(Message)
  BY HashesIs
<1> HIDE DEF ex, hit
<1>9. ex # <<>> /\ s # <<>>
  <2>1. ex # <<>>
    BY <1>3, <1>4
  <2>2. s = <<>> => ex = <<>>
    BY DEF ex, Hashes
  <2> QED BY <2>1, <2>2
<1>10. CASE Whole(ex, inc).len > 0
  <2>1. a = Whole(ex, inc)
    BY <1>3, <1>4, <1>10
  <2>2. Matches(Whole(ex, inc), ex, inc)
    BY <1>9, <1>10, WholeMatches DEF ex
  <2> QED BY <1>9, <2>1, <2>2 DEF ex
<1>11. CASE ~ (Whole(ex, inc).len > 0)
  <2>1. CASE short.len > 0
    <3>1. short = Short(ex, inc)
      BY <1>4, <2>1
    <3>2. a = Short(ex, inc) /\ Short(ex, inc).len > 0
      <4> HIDE DEF short
      <4> QED BY <1>3, <1>4, <1>11, <2>1, <3>1
    <3>3. Matches(Short(ex, inc), ex, inc)
      BY <1>5, <3>2, ShortMatches
    <3> QED BY <1>9, <3>2, <3>3 DEF ex
  <2>2. CASE ~ (short.len > 0)
    <3> HIDE DEF short
    <3>1. hit # {} /\ a = ByWindow(Max(hit), s, anc, inc)
      BY <1>3, <1>4, <1>11, <2>2
    <3>2. Max(hit) \in WindowSizes /\ ByWindow(Max(hit), s, anc, inc).len > 0
      BY <1>7, <1>8, <3>1
    <3>3. Matches(ByWindow(Max(hit), s, anc, inc), Hashes(s), inc)
      BY <3>2, ByWindowMatches
    <3> QED BY <1>9, <3>1, <3>3
  <2> QED BY <2>1, <2>2
<1> QED BY <1>10, <1>11

-----------------------------------------------------------------------------
(* What a write makes of contents and anchors.                             *)

LEMMA BuildSame ==
  ASSUME NEW s, Ordered(s), NEW t, SameMessages(t, s)
  PROVE  _build_anchor_rows(t) = _build_anchor_rows(s)
<1>1. PICK N \in Nat : N = Len(s) /\ N = Len(t) /\ DOMAIN s = 1..N /\ DOMAIN t = 1..N
  BY OrderedIs DEF SameMessages
<1>2. Hashes(t) = Hashes(s)
  BY <1>1 DEF Hashes, SameMessages
<1> DEFINE B(u, w) == {[size |-> w, digest |-> Window(Hashes(u), i, w), start |-> u[i].id]
                         : i \in 1..N - w + 1}
<1>3. ASSUME NEW w \in WindowSizes PROVE B(t, w) = B(s, w)
  <2>1. w \in Nat /\ w >= 3
    BY ReconcilerAssumption
  <2>2. ASSUME NEW i \in 1..N - w + 1 PROVE t[i].id = s[i].id
    <3>1. i \in 1..N
      BY <2>1
    <3> QED BY <1>1, <3>1 DEF SameMessages
  <2> QED BY <1>2, <2>2
<1>4. _build_anchor_rows(t) = UNION {B(t, w) : w \in WindowSizes}
  BY <1>1 DEF _build_anchor_rows
<1>5. _build_anchor_rows(s) = UNION {B(s, w) : w \in WindowSizes}
  BY <1>1 DEF _build_anchor_rows
<1> HIDE DEF B
<1>6. {B(t, w) : w \in WindowSizes} = {B(s, w) : w \in WindowSizes}
  BY <1>3
<1> QED BY <1>4, <1>5, <1>6

LEMMA SameContent ==
  ASSUME NEW s, NEW t, Alike(t, s)
  PROVE  Content(t) = Content(s) /\ SameMessages(t, s)
BY DEF Alike, Content, SameMessages

LEMMA SaveContent ==
  ASSUME NEW s, Ordered(s), Unique(s), NEW r \in Row, ~Collides(s, r), Follows(r, s, FALSE),
         NEW t, t = save_canonical_turn(s, r)
  PROVE  Content(t) = Content(s) \cup {<<r.key, r.hash>>}
<1>1. /\ \A k \in DOMAIN t : t[k] = r \/ \E i \in DOMAIN s : s[i].id # r.id /\ t[k] = s[i]
      /\ \E k \in DOMAIN t : t[k] = r
      /\ \A i \in DOMAIN s : s[i].id # r.id => \E k \in DOMAIN t : t[k] = s[i]
  BY SaveIs
<1>2. ASSUME NEW x \in Content(t) PROVE x \in Content(s) \cup {<<r.key, r.hash>>}
  <2>1. PICK k \in DOMAIN t : x = <<t[k].key, t[k].hash>>
    BY DEF Content
  <2> QED BY <1>1, <2>1 DEF Content
<1>3. ASSUME NEW x \in Content(s) PROVE x \in Content(t) \cup {<<r.key, r.hash>>}
  <2>1. PICK i \in DOMAIN s : x = <<s[i].key, s[i].hash>>
    BY DEF Content
  <2>2. CASE s[i].id = r.id
    BY <2>1, <2>2 DEF Follows
  <2>3. CASE s[i].id # r.id
    <3>1. PICK k \in DOMAIN t : t[k] = s[i]
      BY <1>1, <2>3
    <3> QED BY <2>1, <3>1 DEF Content
  <2> QED BY <2>2, <2>3
<1>4. <<r.key, r.hash>> \in Content(t)
  <2>1. PICK k \in DOMAIN t : t[k] = r
    BY <1>1
  <2>2. <<t[k].key, t[k].hash>> \in Content(t)
    BY DEF Content
  <2> QED BY <2>1, <2>2
<1> QED BY <1>2, <1>3, <1>4

\* A committed write does what the plan says.
LEMMA ExecuteContent ==
  ASSUME KeyInv, KeepInv, Execute, NEW o, o = Head(job.todo), NEW t, t = rows'
  PROVE  /\ o.op \in {"write", "shift", "actor"} /\ Does(o, Content(rows), Content(t))
         /\ o.op # "write" => SameMessages(t, rows)
<1>2. PICK ops : ops = job.todo /\ ops \in Seq(Planned(job.batch)) /\ ops # <<>>
  BY DEF KeyInv, Shape, PlanRuns, Execute
<1>3. o \in Planned(job.batch) /\ o = ops[1] /\ 1 \in DOMAIN ops
  BY <1>2
<1>4. Ordered(rows)
  BY DEF KeyInv, Shape
<1>5. Settled(rows, turns) /\ Careful(ops, rows, turns, job.kind # "resend")
  BY <1>2 DEF KeepInv, Execute
<1>7. /\ o.op \in {"write", "shift", "actor"}
      /\ o.op = "write" => o.row \in Row
      /\ o.op = "shift" => o.from \in Int /\ o.delta \in Nat
      /\ o.op = "actor" => o.actor \in Actor \cup {NoActor}
  BY <1>3, OpIs
<1>8. /\ o.op = "shift" => t = shift_canonical_turn_sort_keys(rows, o.from, o.delta)
      /\ o.op = "actor" => t = [i \in DOMAIN rows |->
                               IF /\ rows[i].id \in o.ids
                                  /\ rows[i].actor = NoActor
                                  /\ o.life \in {0, epoch}
                               THEN [rows[i] EXCEPT !.actor = o.actor]
                               ELSE rows[i]]
      /\ o.op = "write" => t = save_canonical_turn(rows, o.row) /\ ~Collides(rows, o.row)
  BY <1>7 DEF Execute
<1>11. CASE o.op = "shift"
  <2>1. PICK from \in Int : from = o.from
    BY <1>7, <1>11
  <2>2. PICK delta \in Nat : delta = o.delta
    BY <1>7, <1>11
  <2>3. t = shift_canonical_turn_sort_keys(rows, from, delta)
    BY <1>8, <1>11, <2>1, <2>2
  <2>4. Ordered(t) /\ ShiftedBy(t, rows, from, delta)
    BY <1>4, <2>3, ShiftIs
  <2>5. DOMAIN t = DOMAIN rows
    BY <1>4, <2>4, OrderedIs DEF ShiftedBy
  <2>6. SameMessages(t, rows)
    BY <2>4, <2>5 DEF ShiftedBy, SameMessages
  <2>7. Content(t) = {Slid(c, from, delta) : c \in Content(rows)}
    BY <1>4, <2>4, SlidContent
  <2> QED BY <1>11, <2>1, <2>2, <2>6, <2>7 DEF Does
<1>12. CASE o.op = "actor"
  <2> DEFINE E(r) == IF r.id \in o.ids /\ r.actor = NoActor /\ o.life \in {0, epoch}
                     THEN [r EXCEPT !.actor = o.actor] ELSE r
  <2>1. t = [i \in DOMAIN rows |-> E(rows[i])]
    BY <1>8, <1>12
  <2>2. \A r \in Row : E(r).id = r.id /\ E(r).key = r.key /\ E(r).batch = r.batch /\ E(r).hash = r.hash
    BY DEF Row
  <2> HIDE DEF E
  <2>3. \A i \in DOMAIN rows : rows[i] \in Row
    BY <1>4, OrderedIs
  <2>4. DOMAIN t = DOMAIN rows /\ \A i \in DOMAIN rows : /\ t[i].id = rows[i].id /\ t[i].key = rows[i].key
                                                       /\ t[i].batch = rows[i].batch /\ t[i].hash = rows[i].hash
    BY <2>1, <2>2, <2>3
  <2>5. Len(t) = Len(rows)
    <3>1. PICK n \in Nat : n = Len(rows) /\ DOMAIN rows = 1..n
      BY <1>4, OrderedIs
    <3>2. t = [i \in 1..n |-> E(rows[i])]
      BY <2>1, <3>1
    <3>3. Len(t) = n
      BY <3>2
    <3> QED BY <3>1, <3>3
  <2>6. Content(t) = Content(rows) /\ SameMessages(t, rows)
    BY <2>4, <2>5, SameContent DEF Alike
  <2> QED BY <1>12, <2>6 DEF Does
<1>13. CASE o.op = "write"
  <2>1. PICK r \in Row : r = o.row
    BY <1>7, <1>13
  <2>2. t = save_canonical_turn(rows, r) /\ ~Collides(rows, r)
    BY <1>8, <1>13, <2>1
  <2>3. Follows(r, rows, FALSE)
    <3>1. IF job.kind # "resend" THEN \A i \in DOMAIN rows : rows[i].id # r.id ELSE Follows(r, rows, FALSE)
      BY <1>3, <1>5, <1>13, <2>1 DEF Careful
    <3> QED BY <3>1 DEF Follows
  <2>4. Unique(rows)
    BY <1>5 DEF Settled, Known
  <2>5. Content(t) = Content(rows) \cup {<<r.key, r.hash>>}
    BY <1>4, <2>2, <2>3, <2>4, SaveContent
  <2> QED BY <1>13, <2>1, <2>5 DEF Does
<1> QED BY <1>7, <1>11, <1>12, <1>13

\* What a write does is determined.
LEMMA DoesOnce ==
  ASSUME NEW o, o.op \in {"write", "shift", "actor"}, NEW C, NEW B, Does(o, C, B), NEW D, Does(o, C, D)
  PROVE  B = D
BY DEF Does

-----------------------------------------------------------------------------
(* The payload is stored.                                                  *)

LEMMA SameHas ==
  ASSUME NEW s, NEW t, Ordered(s), Alike(t, s), NEW p, Has(s, p)
  PROVE  Has(t, p)
<1>1. Content(t) = Content(s)
  BY SameContent
<1>2. t = <<>> => s = <<>>
  <2>1. PICK n \in Nat : n = Len(s) /\ (n = 0 <=> s = <<>>)
    BY OrderedIs
  <2>2. t = <<>> => Len(t) = 0
    OBVIOUS
  <2> QED BY <2>1, <2>2 DEF Alike
<1> QED BY <1>1, <1>2 DEF Has, Fragment

LEMMA LaidNothing ==
  ASSUME NEW D
  PROVE  Laid(D, <<>>)
<1>1. PICK e : e = <<>>
  OBVIOUS
<1>2. PICK z \in Nat : z = 0 /\ z = Len(e)
  BY <1>1
<1>3. \A j \in 1..z : FALSE
  BY <1>2
<1>4. Rising(e, z)
  BY <1>3 DEF Rising
<1>5. Lies(D, e, e)
  BY <1>2, <1>3, <1>4 DEF Lies
<1> QED BY <1>1, <1>5 DEF Laid

LEMMA BeginStores ==
  ASSUME Transactional, KeyInv, StoreInv, pc = "idle", NEW kind, NEW p \in Seq(Message), NEW s, s = Loaded(rows),
         NEW ops, NEW next, Begin(kind, p, s, ops, next), next \in {"write", "check"},
         next = "write" => WillLay(s, ops, p), next = "check" => Has(s, p)
  PROVE  StoreInv'
<1>1. Ordered(rows) /\ anchors = _build_anchor_rows(rows) /\ last \in Seq(Message)
  BY DEF KeyInv, Shape, StoreInv, Anchored, Stored
<1>2. /\ rows' = s /\ pc' = next /\ anchors' = anchors /\ last' = last
      /\ job' = [kind |-> kind, payload |-> p, batch |-> batches + 1, life |-> epoch,
             todo |-> ops, wrote |-> \E k \in DOMAIN ops : ops[k].op = "write",
             undo |-> IF Transactional THEN <<rows, anchors>> ELSE <<>>]
  BY DEF Begin
<1>3. job'.todo = ops /\ job'.payload = p /\ job'.undo[1] = rows /\ job'.undo[2] = anchors
  BY <1>2
<1>4. anchors = _build_anchor_rows(s)
  BY <1>1, LoadedIs, SameContent, BuildSame
<1>5. Anchored'
  BY <1>1, <1>2, <1>3, <1>4 DEF Anchored
<1>6. Stored'
  BY <1>1, <1>2, <1>3 DEF Stored
<1> QED BY <1>5, <1>6 DEF StoreInv

LEMMA LaysNext ==
  ASSUME NEW ops, NEW s, NEW p, Lays(ops, s, p)
  PROVE  /\ Writes(ops) \in {"write", "check"}
         /\ Writes(ops) = "write" => WillLay(s, ops, p)
         /\ Writes(ops) = "check" => Has(s, p)
<1>1. CASE ops = <<>>
  <2>1. Writes(ops) = "check"
    BY <1>1 DEF Writes
  <2>2. CASE Fragment(s, p)
    BY <2>1, <2>2 DEF Has
  <2>3. CASE \E D : Gives(Content(s), ops, D) /\ Laid(D, p)
    <3>1. PICK D : Gives(Content(s), ops, D) /\ Laid(D, p)
      BY <2>3
    <3>2. D = Content(s)
      BY <1>1, <3>1, GivesNothing
    <3> QED BY <2>1, <3>1, <3>2 DEF Has
  <2> QED BY <2>1, <2>2, <2>3 DEF Lays
<1>2. CASE ops # <<>>
  BY <1>2 DEF Writes, Lays, WillLay
<1> QED BY <1>1, <1>2

\* The anchors that a call finds are those of the rows it loads.
LEMMA LoadedAnchors ==
  ASSUME KeyInv, KeepInv, StoreInv, pc = "idle", NEW s, s = Loaded(rows)
  PROVE  Ordered(s) /\ TrueAnchors(s, anchors)
<1>1. Ordered(rows) /\ anchors = _build_anchor_rows(rows) /\ Unique(rows)
  BY DEF KeyInv, Shape, StoreInv, Anchored, KeepInv, Settled, Known
<1>2. Ordered(s) /\ Alike(s, rows)
  BY <1>1, LoadedIs
<1>3. anchors = _build_anchor_rows(s)
  BY <1>1, <1>2, SameContent, BuildSame
<1>4. Unique(s)
  BY <1>1, <1>2 DEF Unique, Alike
<1> QED BY <1>2, <1>3, <1>4, AnchorsAre DEF TrueAnchors

LEMMA BatchStores ==
  ASSUME Transactional, KeyInv, KeepInv, StoreInv,
         NEW p \in Payload, NEW actor \in Actor \cup {NoActor}, ingest_batch(p, actor)
  PROVE  StoreInv'
<1> DEFINE s == Loaded(rows)
           ops == PreparedOps(s, p, actor, batches + 1, epoch, turns, TRUE)
<1>1. pc = "idle" /\ Begin("batch", p, s, ops, Writes(ops))
  BY DEF ingest_batch
<1>2. s = Loaded(rows)
  OBVIOUS
<1> HIDE DEF s
<1>3. Ordered(s) /\ TrueAnchors(s, anchors)
  BY <1>1, <1>2, LoadedAnchors
<1>4. p \in Seq(Message)
  BY ReconcilerAssumption
<1>5. batches + 1 \in Nat /\ epoch \in Nat /\ turns \in Nat /\ TRUE \in BOOLEAN
  BY DEF KeyInv, Shape
<1>6. PICK a : a = _find_alignment(s, anchors, p, TRUE)
  OBVIOUS
<1>7. a.len > 0 => s # <<>> /\ Matches(a, Hashes(s), p)
  BY <1>3, <1>4, <1>5, <1>6, FindMatches
<1>8. Lays(ops, s, p)
  BY <1>3, <1>4, <1>5, <1>6, <1>7, PreparedLays
<1> HIDE DEF ops
<1>9. /\ Writes(ops) \in {"write", "check"}
      /\ Writes(ops) = "write" => WillLay(s, ops, p)
      /\ Writes(ops) = "check" => Has(s, p)
  BY <1>8, LaysNext
<1> QED BY <1>1, <1>2, <1>4, <1>9, BeginStores

LEMMA BehindIsLaid ==
  ASSUME NEW s, Ordered(s), NEW l \in Nat, NEW m \in Nat, NEW keys, NEW inc \in Seq(Message), NEW suf,
         Behind(s, l, m, keys, inc, suf)
  PROVE  Laid(Content(s) \cup NewContent(keys, suf, m), inc)
BY LaidBehind DEF Behind

LEMMA SingleStores ==
  ASSUME Transactional, KeyInv, KeepInv, StoreInv,
         NEW p \in Pair, NEW actor \in Actor \cup {NoActor}, ingest_single(p, actor)
  PROVE  StoreInv'
<1> DEFINE s == Loaded(rows)
           tail == s[Len(s)]
           up == UpgradeOp(s, {Len(s)}, actor, epoch)
           half == WriteOps(<<p[2]>>, KeysAbove(tail.key, 1), actor, batches + 1, turns)
           other == PreparedOps(s, p, actor, batches + 1, 0, turns, FALSE)
           ops == IF s # <<>> /\ tail.hash = p[1] THEN up \o half ELSE other
<1>1. pc = "idle" /\ Begin("single", p, s, ops, Writes(ops))
  BY DEF ingest_single
<1>2. s = Loaded(rows)
  OBVIOUS
<1> HIDE DEF s
<1>3. Ordered(s) /\ TrueAnchors(s, anchors)
  BY <1>1, <1>2, LoadedAnchors
<1>4. /\ p \in Seq(Message) /\ Len(p) = 2
      /\ <<p[2]>> \in Seq(Message) /\ Len(<<p[2]>>) = 1 /\ <<p[2]>>[1] = p[2]
  <2>1. p \in UserMessage \X (Message \ UserMessage) /\ UserMessage \subseteq Message
    BY ReconcilerAssumption
  <2>2. p = <<p[1], p[2]>> /\ p[1] \in Message /\ p[2] \in Message
    BY <2>1
  <2>3. PICK u \in Message, v \in Message : p = <<u, v>> /\ v = p[2]
    BY <2>2
  <2>4. <<u, v>> \in Seq(Message) /\ Len(<<u, v>>) = 2 /\ <<v>> \in Seq(Message) /\ Len(<<v>>) = 1 /\ <<v>>[1] = v
    OBVIOUS
  <2> QED BY <2>3, <2>4
<1>5. batches + 1 \in Nat /\ epoch \in Nat /\ turns \in Nat /\ 0 \in Nat /\ FALSE \in BOOLEAN
  BY DEF KeyInv, Shape
<1>6. Lays(other, s, p)
  <2>1. PICK a : a = _find_alignment(s, anchors, p, FALSE)
    OBVIOUS
  <2>2. a.len > 0 => s # <<>> /\ Matches(a, Hashes(s), p)
    BY <1>3, <1>4, <1>5, <2>1, FindMatches
  <2> QED BY <1>3, <1>4, <1>5, <2>1, <2>2, PreparedLays
<1>7. ASSUME s # <<>>, tail.hash = p[1] PROVE Lays(up \o half, s, p)
  <2>1. Len(s) \in DOMAIN s /\ tail.key \in Int
    BY <1>3, <1>7, LastIsGreatest
  <2>2. PICK N \in Nat \ {0} : N = Len(s)
    BY <1>3, <1>7, OrderedIs
  <2>3. PICK x \in Int : x = tail.key
    BY <2>1
  <2>4. PICK q \in Seq(Message) : q = <<p[2]>> /\ Len(q) = 1 /\ q[1] = p[2]
    BY <1>4
  <2>5. PICK keys : keys = KeysAbove(x, 1)
    OBVIOUS
  <2>6. Rising(keys, 1) /\ \A k \in 1..1 : x < keys[k]
    BY <2>5, AboveRises
  <2>7. Gives(Content(s), up, Content(s)) /\ up \in Seq(Planned(batches + 1))
    <3>1. {Len(s)} \in SUBSET DOMAIN s
      BY <2>1
    <3> QED BY <1>3, <1>5, <3>1, GivesUpgrade, RunsUpgrade
  <2>8. half = WriteOps(q, keys, actor, batches + 1, turns)
    BY <2>3, <2>4, <2>5
  <2>9. Gives(Content(s), half, Content(s) \cup NewContent(keys, q, 1))
    <3>1. Gives(Content(s), WriteOps(q, keys, actor, batches + 1, turns), Content(s) \cup NewContent(keys, q, Len(q)))
      BY <1>5, <2>4, <2>6, GivesWrites
    <3> QED BY <2>4, <2>8, <3>1
  <2>10. half \in Seq(Planned(batches + 1))
    BY <1>5, <2>4, <2>6, <2>8, WritesPlanned
  <2>11. Laid(Content(s) \cup NewContent(keys, q, 1), p)
    <3>1. PICK l \in Nat : l = N - 1
      OBVIOUS
    <3>2. l <= Len(s) /\ Len(p) = (Len(s) - l) + 1
      BY <1>4, <2>2, <3>1
    <3>3. PICK m \in Nat : m = 1
      OBVIOUS
    <3>4. \A i \in (l + 1)..Len(s) : i = Len(s) /\ i - l = 1
      BY <2>2, <3>1
    <3>5. \A i \in (l + 1)..Len(s) : s[i].hash = p[i - l]
      BY <1>7, <3>4
    <3>6. \A k \in 1..m : k = 1 /\ (Len(s) - l) + k = 2
      BY <2>2, <3>1, <3>3
    <3>7. \A k \in 1..m : q[k] = p[(Len(s) - l) + k]
      BY <2>4, <3>6
    <3>8. Rising(keys, m) /\ \A k \in 1..m : s[Len(s)].key < keys[k]
      BY <2>3, <2>6, <3>3
    <3>9. Len(p) = (Len(s) - l) + m /\ l <= Len(s) /\ (Len(s) >= 1 => \A k \in 1..m : s[Len(s)].key < keys[k])
      BY <3>2, <3>3, <3>8
    <3> HIDE DEF tail
    <3>10. Laid(Content(s) \cup NewContent(keys, q, m), p)
      <4>1. Behind(s, l, m, keys, p, q)
        BY <3>5, <3>7, <3>8, <3>9 DEF Behind
      <4> QED BY <1>3, <1>4, <3>1, <3>3, <4>1, BehindIsLaid
    <3> QED BY <3>3, <3>10
  <2> HIDE DEF up, half
  <2>12. Gives(Content(s), up \o half, Content(s) \cup NewContent(keys, q, 1))
    BY <2>7, <2>9, <2>10, GivesThen
  <2> QED BY <2>11, <2>12 DEF Lays
<1> HIDE DEF up, half, other, tail
<1>8. Lays(ops, s, p)
  BY <1>6, <1>7
<1> HIDE DEF ops
<1>9. /\ Writes(ops) \in {"write", "check"}
      /\ Writes(ops) = "write" => WillLay(s, ops, p)
      /\ Writes(ops) = "check" => Has(s, p)
  BY <1>8, LaysNext
<1> QED BY <1>1, <1>2, <1>4, <1>9, BeginStores

LEMMA GivesInPlace ==
  ASSUME NEW C, NEW ops, NEW n \in Nat, n = Len(ops), \A k \in 1..n : Does(ops[k], C, C)
  PROVE  Gives(C, ops, C)
<1> DEFINE f == [k \in 1..(n + 1) |-> C]
<1>1. f[1] = C /\ f[n + 1] = C /\ \A k \in 1..n : f[k] = C /\ f[k + 1] = C
  OBVIOUS
<1> HIDE DEF f
<1> QED BY <1>1 DEF Gives

\* The rewriting of a recent pair leaves the contents as they are.
LEMMA RewriteGives ==
  ASSUME NEW s, Ordered(s), NEW p, NEW actor, NEW at,
         at = {i \in (Len(s) - Len(Recent(s))) + 1..Len(s) - 1 : Window(Hashes(s), i, 2) = p}, at # {}
  PROVE  Gives(Content(s),
               [k \in 1..2 |-> [op |-> "write", row |-> Rewritten(s[Min(at) + k - 1], actor)]],
               Content(s))
<1> DEFINE Re(k) == Rewritten(s[Min(at) + k - 1], actor)
           ops == [k \in 1..2 |-> [op |-> "write", row |-> Re(k)]]
<1>4. PICK N \in Nat : N = Len(s) /\ DOMAIN s = 1..N
  BY OrderedIs
<1>5. Min(at) \in 1..(N - 1)
  <2>1. PICK m \in Nat : m = Len(s) - Len(Recent(s))
    BY RecentIs
  <2>2. at \in SUBSET Nat /\ \A i \in at : i \in 1..(N - 1)
    BY <1>4, <2>1
  <2> QED BY <2>2, LeastIs
<1>6. PICK e \in 1..(N - 1) : e = Min(at)
  BY <1>5
<1>7. \A k \in 1..2 : e + k - 1 \in DOMAIN s /\ s[e + k - 1] \in Row
  <2>1. \A k \in 1..2 : e + k - 1 \in 1..N
    OBVIOUS
  <2> QED BY <1>4, <2>1, OrderedIs
<1>8. \A r \in Row : Rewritten(r, actor).key = r.key /\ Rewritten(r, actor).hash = r.hash
  BY DEF Rewritten, Row
<1>9. \A k \in 1..2 : Re(k).key = s[e + k - 1].key /\ Re(k).hash = s[e + k - 1].hash
  <2> TAKE k \in 1..2
  <2>1. PICK r \in Row : r = s[e + k - 1]
    BY <1>7
  <2>2. Re(k) = Rewritten(r, actor)
    BY <1>6, <2>1
  <2> HIDE DEF Re
  <2> QED BY <1>8, <2>1, <2>2
<1>10. ops = [k \in 1..2 |-> [op |-> "write", row |-> Rewritten(s[Min(at) + k - 1], actor)]]
  OBVIOUS
<1> HIDE DEF Re
<1>11. /\ \A k \in 1..2 : ops[k].op = "write" /\ ops[k].row = Re(k)
       /\ Len(ops) = 2 /\ 2 \in Nat
  OBVIOUS
<1> HIDE DEF ops
<1>12. \A k \in 1..2 : Does(ops[k], Content(s), Content(s))
  <2> TAKE k \in 1..2
  <2>1. <<Re(k).key, Re(k).hash>> \in Content(s)
    BY <1>7, <1>9 DEF Content
  <2> QED BY <1>11, <2>1 DEF Does
<1>13. Gives(Content(s), ops, Content(s))
  BY <1>11, <1>12, GivesInPlace
<1> QED BY <1>10, <1>13

LEMMA ResendStores ==
  ASSUME Transactional, KeyInv, KeepInv, StoreInv,
         NEW p \in Pair, NEW actor \in Actor \cup {NoActor}, ResendPair(p, actor)
  PROVE  StoreInv'
<1> DEFINE s == Loaded(rows)
           m == Len(s) - Len(Recent(s))
           at == {i \in m + 1..Len(s) - 1 : Window(Hashes(s), i, 2) = p}
           ops == [k \in 1..2 |-> [op |-> "write", row |-> Rewritten(s[Min(at) + k - 1], actor)]]
<1>1. pc = "idle" /\ at # {} /\ Begin("resend", p, s, ops, "write")
  BY DEF ResendPair
<1>2. s = Loaded(rows)
  OBVIOUS
<1>3. Ordered(s)
  BY LoadedIs DEF KeyInv, Shape
<1>4. PICK N \in Nat : N = Len(s) /\ DOMAIN s = 1..N
  BY <1>3, OrderedIs
<1>5. Min(at) \in 1..(N - 1) /\ Window(Hashes(s), Min(at), 2) = p
  <2>1. m \in Nat
    <3> HIDE DEF s
    <3> QED BY <1>3, RecentIs
  <2> HIDE DEF s, m
  <2>2. at \in SUBSET Nat /\ \A i \in at : i \in 1..(N - 1) /\ Window(Hashes(s), i, 2) = p
    BY <1>4, <2>1
  <2> HIDE DEF at
  <2> QED BY <1>1, <2>2, LeastIs
<1>6. Gives(Content(s), ops, Content(s))
  <2>1. at # {} /\ s = Loaded(rows)
    BY <1>1
  <2> QED BY <1>3, <2>1, RewriteGives
<1> HIDE DEF s, m, at, ops
<1>7. PICK e \in 1..(N - 1) : e = Min(at)
  BY <1>5
<1>8. p \in Seq(Message) /\ Len(p) = 2
  <2>1. p \in UserMessage \X (Message \ UserMessage) /\ UserMessage \subseteq Message
    BY ReconcilerAssumption
  <2>2. p = <<p[1], p[2]>> /\ p[1] \in Message /\ p[2] \in Message
    BY <2>1
  <2>3. PICK u \in Message, v \in Message : p = <<u, v>>
    BY <2>2
  <2>4. <<u, v>> \in Seq(Message) /\ Len(<<u, v>>) = 2
    OBVIOUS
  <2> QED BY <2>3, <2>4
<1>9. Laid(Content(s), p)
  <2>1. e \in 1..(Len(s) - Len(p) + 1) /\ Window(Hashes(s), e, Len(p)) = p
    BY <1>4, <1>5, <1>7, <1>8
  <2> QED BY <1>3, <1>8, <2>1, OccursLaid
<1>10. WillLay(s, ops, p)
  BY <1>6, <1>9 DEF WillLay
<1> QED BY <1>1, <1>2, <1>8, <1>10, BeginStores

LEMMA ExecuteStores ==
  ASSUME KeyInv, KeepInv, StoreInv, GroupInv, Execute
  PROVE  StoreInv'
<1>1. PICK ops : ops = job.todo /\ ops \in Seq(Planned(job.batch)) /\ ops # <<>> /\ pc = "write"
  BY DEF KeyInv, Shape, PlanRuns, Execute
<1>2. PICK o : o = Head(job.todo)
  OBVIOUS
<1>3. PICK rest : rest = Tail(ops)
  OBVIOUS
<1>4. PICK t : t = rows'
  OBVIOUS
<1>5. /\ o.op \in {"write", "shift", "actor"} /\ Does(o, Content(rows), Content(t))
      /\ o.op # "write" => SameMessages(t, rows)
  BY <1>2, <1>4, ExecuteContent
<1>6. PICK D : Gives(Content(rows), ops, D) /\ Laid(D, job.payload)
  BY <1>1 DEF StoreInv, Stored, WillLay
<1>7. PICK B : Does(o, Content(rows), B) /\ Gives(B, rest, D)
  BY <1>1, <1>2, <1>3, <1>6, GivesFirst
<1>8. Gives(Content(t), rest, D)
  BY <1>5, <1>7, DoesOnce
<1>9. /\ job' = [job EXCEPT !.todo = rest] /\ anchors' = anchors /\ last' = last
      /\ pc' = IF rest # <<>> THEN "write"
               ELSE IF ~job.wrote THEN "check"
               ELSE IF job.kind = "resend" THEN "anchors" ELSE "groups"
  BY <1>1, <1>3 DEF Execute, ghosts
<1>10. job = [kind |-> job.kind, payload |-> job.payload, batch |-> job.batch,
             life |-> job.life, todo |-> job.todo, wrote |-> job.wrote, undo |-> job.undo]
  BY DEF KeyInv, Shape
<1>11. job'.todo = rest /\ job'.wrote = job.wrote /\ job'.payload = job.payload /\ job'.undo = job.undo
  BY <1>9, <1>10
<1>12. WillLay(t, rest, job.payload)
  BY <1>6, <1>8 DEF WillLay
<1>13. rest = <<>> => Has(t, job.payload)
  BY <1>6, <1>8, GivesNothing DEF Has
<1>14. last \in Seq(Message) /\ job.payload \in Seq(Message) /\ pc' # "idle"
  BY <1>1, <1>9 DEF StoreInv, Stored
<1>15. Stored'
  <2>1. rest = <<>> => pc' \in {"groups", "anchors", "check"}
    BY <1>9
  <2>2. rest # <<>> => pc' = "write"
    BY <1>9
  <2> QED BY <1>4, <1>9, <1>11, <1>12, <1>13, <1>14, <2>1, <2>2 DEF Stored
<1>16. ~job.wrote => anchors = _build_anchor_rows(t)
  <2> SUFFICES ASSUME ~job.wrote PROVE anchors = _build_anchor_rows(t)
    OBVIOUS
  <2>1. \A k \in DOMAIN ops : ops[k].op # "write"
    BY <1>1 DEF GroupInv
  <2>2. 1 \in DOMAIN ops /\ o = ops[1]
    BY <1>1, <1>2
  <2>3. SameMessages(t, rows)
    BY <1>5, <2>1, <2>2
  <2>4. anchors = _build_anchor_rows(rows) /\ Ordered(rows)
    BY <1>1 DEF StoreInv, Anchored, KeyInv, Shape
  <2> QED BY <2>3, <2>4, BuildSame
<1>17. job.undo[2] = _build_anchor_rows(job.undo[1])
  BY <1>1 DEF StoreInv, Anchored
<1>18. Anchored'
  <2>1. pc' \in {"idle", "check"} \/ (pc' = "write" /\ ~job'.wrote) => ~job.wrote
    BY <1>9, <1>11
  <2> QED BY <1>4, <1>9, <1>11, <1>16, <1>17, <2>1 DEF Anchored
<1> QED BY <1>15, <1>18 DEF StoreInv

LEMMA StepStores ==
  ASSUME Transactional, ~MayMiss, KeyInv, RaceInv, KeepInv, GroupInv, StoreInv, [Next]_vars
  PROVE  StoreInv'
<1>0. Ordered(rows) /\ pc \in {"idle", "write", "groups", "anchors", "check"}
  BY DEF KeyInv, Shape
<1>1. ASSUME NEW p \in Payload, NEW a \in Actor \cup {NoActor}, ingest_batch(p, a)
      PROVE  StoreInv'
  BY <1>1, BatchStores
<1>2. ASSUME NEW p \in Pair, NEW a \in Actor \cup {NoActor}, ResendPair(p, a)
      PROVE  StoreInv'
  BY <1>2, ResendStores
<1>3. ASSUME NEW p \in Pair, NEW a \in Actor \cup {NoActor}, ingest_single(p, a)
      PROVE  StoreInv'
  BY <1>3, SingleStores
<1>4. CASE Execute
  BY <1>4, ExecuteStores
<1>5. CASE Regroup
  <2>1. PICK t : t = rows' /\ t = recompute_canonical_turn_groups(rows)
    BY <1>5 DEF Regroup
  <2>2. job' = job /\ pc = "groups" /\ pc' = "anchors" /\ anchors' = anchors /\ last' = last
    BY <1>5 DEF Regroup, Advance, ghosts
  <2>3. Alike(t, rows)
    BY <1>0, <2>1, RecomputeIs
  <2>4. Has(rows, job.payload) /\ last \in Seq(Message) /\ job.payload \in Seq(Message)
        /\ job.undo[2] = _build_anchor_rows(job.undo[1])
    BY <2>2 DEF StoreInv, Stored, Anchored
  <2>5. Has(t, job.payload)
    BY <1>0, <2>3, <2>4, SameHas
  <2> QED BY <2>1, <2>2, <2>4, <2>5 DEF StoreInv, Stored, Anchored
<1>6. CASE _refresh_persisted_anchors
  <2>1. /\ job' = job /\ pc = "anchors" /\ pc' = "check" /\ rows' = rows /\ last' = last
        /\ anchors' = _build_anchor_rows(rows)
    BY <1>6 DEF _refresh_persisted_anchors, Advance, ghosts
  <2> QED BY <2>1 DEF StoreInv, Stored, Anchored
<1>7. CASE Finish
  <2>1. pc = "check" /\ job.life = epoch
    BY <1>7 DEF Finish, KeepInv
  <2>2. rows' = rows /\ last' = job.payload /\ pc' = "idle" /\ anchors' = anchors
    BY <1>7, <2>1 DEF Finish
  <2> QED BY <2>1, <2>2 DEF StoreInv, Stored, Anchored
<1>8. CASE Crash
  <2>1. pc # "idle" /\ pc' = "idle" /\ rows' = job.undo[1] /\ anchors' = job.undo[2] /\ last' = <<>>
    BY <1>8 DEF Crash
  <2>2. PICK t : t = rows'
    OBVIOUS
  <2>3. Has(t, <<>>) /\ <<>> \in Seq(Message)
    BY LaidNothing DEF Has
  <2>4. anchors' = _build_anchor_rows(t)
    BY <2>1, <2>2 DEF StoreInv, Anchored
  <2> QED BY <2>1, <2>2, <2>3, <2>4 DEF StoreInv, Stored, Anchored
<1>9. CASE Resurrect
  <2>1. rows' = rows /\ job' = job /\ pc' = pc /\ anchors' = anchors /\ last' = last
    BY <1>9 DEF Resurrect, jobVars
  <2> QED BY <2>1 DEF StoreInv, Stored, Anchored
<1>10. CASE Tag
  <2> DEFINE E(r) == [r EXCEPT !.tagged = TRUE]
  <2>1. PICK t : t = rows' /\ t = [i \in DOMAIN rows |-> E(rows[i])]
    BY <1>10 DEF Tag
  <2>2. \A r \in Row : E(r).id = r.id /\ E(r).key = r.key /\ E(r).batch = r.batch /\ E(r).hash = r.hash
    BY DEF Row
  <2> HIDE DEF E
  <2>3. \A i \in DOMAIN rows : rows[i] \in Row
    BY <1>0, OrderedIs
  <2>4. DOMAIN t = DOMAIN rows /\ \A i \in DOMAIN rows : /\ t[i].id = rows[i].id /\ t[i].key = rows[i].key
                                                       /\ t[i].batch = rows[i].batch /\ t[i].hash = rows[i].hash
    BY <2>1, <2>2, <2>3
  <2>5. Len(t) = Len(rows)
    <3>1. PICK n \in Nat : n = Len(rows) /\ DOMAIN rows = 1..n
      BY <1>0, OrderedIs
    <3>2. t = [i \in 1..n |-> E(rows[i])]
      BY <2>1, <3>1
    <3>3. Len(t) = n
      BY <3>2
    <3> QED BY <3>1, <3>3
  <2>6. Alike(t, rows)
    BY <2>4, <2>5 DEF Alike
  <2>7. pc = "idle" /\ job' = job /\ pc' = pc /\ anchors' = anchors /\ last' = last
    BY <1>10 DEF Tag, jobVars, ghosts
  <2>8. anchors = _build_anchor_rows(t)
    <3>1. anchors = _build_anchor_rows(rows)
      BY <2>7 DEF StoreInv, Anchored
    <3> QED BY <1>0, <2>6, <3>1, SameContent, BuildSame
  <2>9. Has(t, last) /\ last \in Seq(Message)
    <3>1. Has(rows, last) /\ last \in Seq(Message)
      BY <2>7 DEF StoreInv, Stored
    <3> QED BY <1>0, <2>6, <3>1, SameHas
  <2> QED BY <2>1, <2>7, <2>8, <2>9 DEF StoreInv, Stored, Anchored
<1>11. CASE UNCHANGED vars
  <2>1. rows' = rows /\ job' = job /\ pc' = pc /\ anchors' = anchors /\ last' = last
    BY <1>11 DEF vars, jobVars, ghosts
  <2> QED BY <2>1 DEF StoreInv, Stored, Anchored
<1> QED BY <1>1, <1>2, <1>3, <1>4, <1>5, <1>6, <1>7, <1>8, <1>9, <1>10, <1>11 DEF Next

LEMMA StoreStarts == Init => StoreInv
<1> SUFFICES ASSUME Init PROVE StoreInv
  OBVIOUS
<1>1. PICK e : e = <<>>
  OBVIOUS
<1>2. rows = e /\ last = e /\ pc = "idle" /\ anchors = {}
  BY <1>1 DEF Init
<1>3. _build_anchor_rows(e) = {}
  <2>1. \A w \in WindowSizes : 1..(Len(e) - w + 1) = {}
    BY <1>1, ReconcilerAssumption
  <2> QED BY <2>1 DEF _build_anchor_rows
<1>4. Has(e, e)
  BY <1>1, LaidNothing DEF Has
<1>5. e \in Seq(Message)
  BY <1>1
<1> QED BY <1>2, <1>3, <1>4, <1>5 DEF StoreInv, Anchored, Stored

LEMMA SureAlways ==
  ASSUME Transactional, ~MayMiss
  PROVE  Spec => []SureInv
<1>1. Init => RaceInv /\ KeepInv /\ GroupInv /\ StoreInv
  <2>1. Init => RaceInv
    BY DEF Init, RaceInv, NoJob
  <2>2. Init => KeepInv
    BY DEF Init, KeepInv, Settled, Known, Unique
  <2>3. Init => GroupInv
    BY DEF Init, GroupInv, Paired
  <2> QED BY <2>1, <2>2, <2>3, StoreStarts
<1>2. KeyInv /\ KeyInv' /\ RaceInv /\ KeepInv /\ GroupInv /\ StoreInv /\ [Next]_vars
        => RaceInv' /\ KeepInv' /\ GroupInv' /\ StoreInv'
  BY StepKeepsRaces, StepLeaves, StepKeepsGroups, StepStores
<1> QED BY <1>1, <1>2, KeyInvAlways, PTL DEF Spec, SureInv

\* PayloadStored holds on SQLite, for any payloads, pairs, actors, history,
\* window sizes and spacings, and wherever a call dies: after every call of
\* ingest_batch or ingest_single that ends, what it was given lies in the stored
\* transcript as one window, unless it was a fragment that the reconciler refuses.
THEOREM PayloadsAreStored ==
  ASSUME Transactional, ~MayMiss
  PROVE  Spec => []PayloadStored
<1>1. SureInv => PayloadStored
  <2> SUFFICES ASSUME SureInv, pc = "idle", ~Fragment(rows, last) PROVE Occurs(last, Hashes(rows))
    BY DEF PayloadStored
  <2>1. Ordered(rows) /\ last \in Seq(Message) /\ Has(rows, last)
    BY DEF SureInv, KeyInv, Shape, StoreInv, Stored
  <2> QED BY <2>1, LaidOccurs DEF Has
<1> QED BY <1>1, SureAlways, PTL

-----------------------------------------------------------------------------
(* A resend finds all of itself.                                           *)

\* Windows at the same distance in both are equal.
LEMMA SameWindows ==
  ASSUME NEW ex \in Seq(Message), NEW inc \in Seq(Message), NEW e, LiesAt(ex, inc, e),
         NEW n \in Nat, n <= Len(inc)
  PROVE  e \in 1..(Len(ex) - n + 1) /\ 1 \in 1..(Len(inc) - n + 1)
         /\ Window(ex, e, n) = Window(inc, 1, n)
<1>1. PICK N \in Nat : N = Len(ex)
  OBVIOUS
<1>2. PICK M \in Nat : M = Len(inc)
  OBVIOUS
<1>3. e \in 1..(N - M + 1) /\ \A j \in 1..M : ex[e + j - 1] = inc[j]
  BY <1>1, <1>2 DEF LiesAt
<1>4. e \in 1..(N - n + 1) /\ 1 \in 1..(M - n + 1)
  BY <1>2, <1>3
<1>5. /\ Window(ex, e, n) \in Seq(Message) /\ Len(Window(ex, e, n)) = n
      /\ \A j \in 1..n : Window(ex, e, n)[j] = ex[e + j - 1]
  BY <1>1, <1>4, WindowIs
<1>6. /\ Window(inc, 1, n) \in Seq(Message) /\ Len(Window(inc, 1, n)) = n
      /\ \A j \in 1..n : Window(inc, 1, n)[j] = inc[1 + j - 1]
  BY <1>2, <1>4, WindowIs
<1>7. \A j \in 1..n : j \in 1..M /\ 1 + j - 1 = j
  BY <1>2
<1>8. \A j \in 1..n : Window(ex, e, n)[j] = Window(inc, 1, n)[j]
  BY <1>3, <1>5, <1>6, <1>7
<1>9. Window(ex, e, n) = Window(inc, 1, n)
  BY <1>5, <1>6, <1>8, SameSequence
<1> QED BY <1>1, <1>2, <1>4, <1>9

\* Short finds an overlap as long as any.
LEMMA ShortLongest ==
  ASSUME NEW ex \in Seq(Message), NEW inc \in Seq(Message), NEW n \in Nat \ {0},
         NEW e \in 1..(Len(ex) - n + 1), NEW i \in 1..(Len(inc) - n + 1),
         Window(ex, e, n) = Window(inc, i, n)
  PROVE  Short(ex, inc).len \in Nat /\ Short(ex, inc).len >= n
<1>1. PICK N \in Nat : N = Len(ex)
  OBVIOUS
<1>2. PICK M \in Nat : M = Len(inc)
  OBVIOUS
<1> DEFINE Hit(x) == {p \in (1..(N - x + 1)) \X (1..(M - x + 1)) :
                        Window(ex, p[1], x) = Window(inc, p[2], x)}
           lens == {x \in 1..Min({N, M}) : Hit(x) # {}}
           n0 == Max(lens)
           i0 == Min({p[2] : p \in Hit(n0)})
           e0 == Min({p[1] : p \in {q \in Hit(n0) : q[2] = i0}})
<1>3. Short(ex, inc) = IF lens = {} THEN NoAlignment ELSE Aligned(e0, i0, n0, inc)
  BY <1>1, <1>2 DEF Short
<1>4. PICK b \in Nat : b = Min({N, M}) /\ b \in {N, M}
  <2>1. Min({N, M}) \in {N, M}
    BY LeastIs
  <2> QED BY <2>1
<1>5. n \in lens
  <2>1. <<e, i>> \in Hit(n)
    BY <1>1, <1>2
  <2>2. n <= N /\ n <= M
    BY <1>1, <1>2
  <2>3. n \in 1..b
    BY <1>4, <2>2
  <2> HIDE DEF Hit
  <2> QED BY <1>4, <2>1, <2>3
<1>6. lens \in SUBSET Nat /\ \A x \in lens : x <= b
  <2>1. \A x \in lens : x \in 1..Min({N, M})
    <3> HIDE DEF Hit
    <3> QED OBVIOUS
  <2> HIDE DEF lens
  <2>2. \A x \in lens : x \in 1..b
    BY <1>4, <2>1
  <2>3. \A x \in 1..b : x \in Nat /\ x <= b
    BY <1>4
  <2>4. \A x \in lens : x \in Nat /\ x <= b
    BY <2>2, <2>3
  <2> QED BY <2>4
<1> HIDE DEF lens
<1>7. n0 \in lens /\ n0 >= n
  BY <1>5, <1>6, GreatestIs
<1>8. n0 \in Nat
  BY <1>6, <1>7
<1> HIDE DEF n0, i0, e0
<1>9. Short(ex, inc) = Aligned(e0, i0, n0, inc)
  BY <1>3, <1>5
<1>10. Short(ex, inc).len = n0
  BY <1>9 DEF Aligned
<1> QED BY <1>7, <1>8, <1>10

LEMMA ShortFinds ==
  ASSUME NEW ex \in Seq(Message), NEW inc \in Seq(Message), inc # <<>>, NEW e, LiesAt(ex, inc, e)
  PROVE  Short(ex, inc).len = Len(inc)
<1>1. PICK M \in Nat \ {0} : M = Len(inc)
  OBVIOUS
<1>2. e \in 1..(Len(ex) - M + 1) /\ 1 \in 1..(Len(inc) - M + 1) /\ Window(ex, e, M) = Window(inc, 1, M)
  BY <1>1, SameWindows
<1>3. PICK a : a = Short(ex, inc)
  OBVIOUS
<1>4. a.len \in Nat /\ a.len >= M
  BY <1>1, <1>2, <1>3, ShortLongest
<1>5. Matches(a, ex, inc)
  BY <1>1, <1>3, <1>4, ShortMatches
<1>6. a.incoming \in Nat \ {0} /\ a.incoming + a.len - 1 <= M
  BY <1>1, <1>5 DEF Matches
<1>7. a.len = M
  BY <1>1, <1>4, <1>6
<1> QED BY <1>1, <1>3, <1>7

\* ByWindow finds an overlap as long as any that a common window widens to.
LEMMA ByWindowSees ==
  ASSUME NEW s, Ordered(s), NEW w \in WindowSizes, NEW anc, TrueAnchors(s, anc),
         NEW inc \in Seq(Message), NEW e \in 1..(Len(s) - w + 1), NEW i \in 1..(Len(inc) - w + 1),
         Window(Hashes(s), e, w) = Window(inc, i, w)
  PROVE  /\ ByWindow(w, s, anc, inc).len \in Int
         /\ Widen(e, i, w, Hashes(s), inc).len \in Int
         /\ Widen(e, i, w, Hashes(s), inc).len >= w
         /\ ByWindow(w, s, anc, inc).len >= Widen(e, i, w, Hashes(s), inc).len
<1>0. w \in Nat \ {0}
  BY ReconcilerAssumption
<1>1. PICK ex \in Seq(Message) : ex = Hashes(s) /\ Len(ex) = Len(s)
  BY HashesIs
<1>2. PICK N \in Nat : N = Len(ex) /\ N = Len(s) /\ DOMAIN ex = 1..N
  BY <1>1
<1>3. PICK M \in Nat : M = Len(inc) /\ DOMAIN inc = 1..M
  OBVIOUS
<1>4. e \in 1..(N - w + 1) /\ i \in 1..(M - w + 1) /\ Window(ex, e, w) = Window(inc, i, w)
  BY <1>1, <1>2, <1>3
<1>5. PICK d : d = Window(inc, i, w)
  OBVIOUS
<1>6. <<d, e>> \in AnchorPositions(w, s, anc)
  <2>1. <<Window(ex, e, w), e>> \in Built(w, s)
    BY <1>1, <1>2, <1>4 DEF Built
  <2> QED BY <1>4, <1>5, <2>1 DEF TrueAnchors
<1>7. PICK p : p = <<i, e, d>>
  OBVIOUS
<1>8. p \in AnchorHits(w, s, anc, inc) /\ p[1] = i /\ p[2] = e
  <2>1. PICK q : q = <<d, e>> /\ q \in AnchorPositions(w, s, anc)
    BY <1>6
  <2>2. p = <<i, q[2], q[1]>> /\ p[1] = i /\ p[2] = e /\ p[3] = d
    BY <1>7, <2>1
  <2> QED BY <1>3, <1>4, <1>5, <2>1, <2>2 DEF AnchorHits
<1>9. PICK b : Best(b, w, s, anc, inc)
  BY <1>0, <1>8, BestHit
<1>10. PICK x, y : x = Widen(e, i, w, ex, inc) /\ y = Widen(b[2], b[1], w, ex, inc)
  OBVIOUS
<1>11. x.len <= y.len /\ ByWindow(w, s, anc, inc) = Aligned(y.stored, y.incoming, y.len, inc)
  BY <1>1, <1>8, <1>9, <1>10 DEF Best
<1>12. x.len \in Int /\ x.len >= w
  <2>1. PICK left, right : Widens(x, left, right, ex, inc, e, i, w)
    <3>1. e \in Nat \ {0} /\ i \in Nat \ {0}
      BY <1>4
    <3> QED BY <1>0, <1>10, <3>1, WidenIs
  <2>2. left \in 0..(i - 1) /\ right \in w..(w + M) /\ x.len = left + right
    BY <1>3, <2>1 DEF Widens
  <2> QED BY <1>0, <2>2
<1>13. y.len \in Int
  <2>1. PICK l, r : Widens(y, l, r, ex, inc, b[2], b[1], w)
    <3>1. b[1] \in 1..Len(inc) /\ b[2] \in 1..Len(s)
      BY <1>0, <1>9, HitIs DEF Best
    <3>2. b[1] \in Nat \ {0} /\ b[2] \in Nat \ {0}
      BY <1>2, <1>3, <3>1
    <3> QED BY <1>0, <1>10, <3>2, WidenIs
  <2>2. PICK k : k = b[1]
    OBVIOUS
  <2>3. l \in 0..(k - 1) /\ r \in w..(w + M) /\ y.len = l + r
    BY <1>3, <2>1, <2>2 DEF Widens
  <2> QED BY <1>0, <2>3
<1>14. PICK a : a = ByWindow(w, s, anc, inc)
  OBVIOUS
<1>15. a.len = y.len
  BY <1>11, <1>14 DEF Aligned
<1> QED BY <1>1, <1>10, <1>11, <1>12, <1>13, <1>14, <1>15

LEMMA ByWindowFinds ==
  ASSUME NEW s, Ordered(s), NEW w \in WindowSizes, NEW anc, TrueAnchors(s, anc),
         NEW inc \in Seq(Message), w <= Len(inc), NEW e, LiesAt(Hashes(s), inc, e)
  PROVE  ByWindow(w, s, anc, inc).len = Len(inc)
<1>0. w \in Nat \ {0}
  BY ReconcilerAssumption
<1>1. PICK ex \in Seq(Message) : ex = Hashes(s) /\ Len(ex) = Len(s)
  BY HashesIs
<1>2. PICK N \in Nat : N = Len(ex) /\ N = Len(s) /\ DOMAIN ex = 1..N
  BY <1>1
<1>3. PICK M \in Nat : M = Len(inc) /\ DOMAIN inc = 1..M
  OBVIOUS
<1>4. /\ e \in 1..(N - M + 1) /\ w <= M
      /\ \A j \in 1..M : ex[e + j - 1] = inc[j]
  BY <1>1, <1>2, <1>3 DEF LiesAt
<1>5. e \in 1..(N - w + 1) /\ 1 \in 1..(M - w + 1) /\ Window(ex, e, w) = Window(inc, 1, w)
  BY <1>0, <1>1, <1>2, <1>3, SameWindows
<1>6. PICK i \in Nat \ {0} : i = 1
  OBVIOUS
<1>7. PICK a, x : a = ByWindow(w, s, anc, inc) /\ x = Widen(e, i, w, ex, inc)
  OBVIOUS
<1>8. a.len \in Int /\ x.len \in Int /\ a.len >= x.len
  <2>1. e \in 1..(Len(s) - w + 1) /\ i \in 1..(Len(inc) - w + 1) /\ Window(Hashes(s), e, w) = Window(inc, i, w)
    BY <1>1, <1>2, <1>3, <1>5, <1>6
  <2> QED BY <1>1, <1>7, <2>1, ByWindowSees
<1>9. PICK left, right : Widens(x, left, right, ex, inc, e, i, w)
  <2>1. e \in Nat \ {0}
    BY <1>4
  <2> QED BY <1>0, <1>7, <2>1, WidenIs
<1>10. x.len >= M
  <2>1. /\ left \in 0..(i - 1) /\ right \in w..(w + M) /\ x.len = left + right
        /\ \A r \in w..(w + M) : (\A k \in w..(r - 1) : Equal(ex, inc, e, i, k)) => r <= right
    BY <1>3, <1>9 DEF Widens
  <2>2. \A k \in w..(M - 1) : Equal(ex, inc, e, i, k)
    <3> TAKE k \in w..(M - 1)
    <3>1. k + 1 \in 1..M /\ i + k = k + 1 /\ e + (k + 1) - 1 = e + k /\ e + k \in 1..N
      <4>1. e \in Nat /\ e >= 1 /\ e <= N - M + 1 /\ w \in Nat \ {0} /\ k \in Nat /\ k <= M - 1
        BY <1>0, <1>4, SMTT(60)
      <4>2. k + 1 \in 1..M /\ e + (k + 1) - 1 = e + k /\ e + k \in 1..N
        BY <4>1
      <4> QED BY <1>6, <4>1, <4>2
    <3>2. ex[e + k] = inc[i + k]
      BY <1>4, <3>1
    <3> QED BY <1>2, <1>3, <3>1, <3>2 DEF Equal
  <2>3. M \in w..(w + M)
    BY <1>0, <1>4
  <2>4. M <= right
    BY <2>1, <2>2, <2>3
  <2> QED BY <1>0, <2>1, <2>4
<1>11. a.len >= M /\ a.len > 0
  BY <1>0, <1>4, <1>8, <1>10
<1>12. Matches(a, ex, inc)
  BY <1>1, <1>7, <1>11, ByWindowMatches
<1>13. a.incoming \in Nat \ {0} /\ a.incoming + a.len - 1 <= M
  BY <1>3, <1>12 DEF Matches
<1>14. a.len = M
  BY <1>3, <1>8, <1>11, <1>13
<1> QED BY <1>3, <1>7, <1>14

\* By true anchors _find_alignment finds all of a payload that is stored.
LEMMA FindsAll ==
  ASSUME 3 \in WindowSizes, NEW s, Ordered(s), NEW anc, TrueAnchors(s, anc),
         NEW inc \in Seq(Message), inc # <<>>, NEW e, LiesAt(Hashes(s), inc, e),
         NEW a, a = _find_alignment(s, anc, inc, TRUE)
  PROVE  a.len = Len(inc)
<1>1. PICK ex \in Seq(Message) : ex = Hashes(s) /\ Len(ex) = Len(s)
  BY HashesIs
<1>2. PICK N \in Nat : N = Len(ex) /\ N = Len(s)
  BY <1>1
<1>3. PICK M \in Nat \ {0} : M = Len(inc)
  OBVIOUS
<1>4. LiesAt(ex, inc, e) /\ M <= N /\ ex # <<>>
  <2>1. LiesAt(ex, inc, e)
    BY <1>1
  <2>2. e \in 1..(N - M + 1)
    BY <1>2, <1>3, <2>1 DEF LiesAt
  <2>3. M <= N
    BY <2>2
  <2>4. ex = <<>> => N = 0
    BY <1>2
  <2> QED BY <2>1, <2>3, <2>4
<1> DEFINE short == IF TRUE /\ Min({Len(ex), Len(inc)}) < 3
                    THEN Short(ex, inc) ELSE NoAlignment
           hit == {w \in WindowSizes : ByWindow(w, s, anc, inc).len > 0}
<1>5. a = IF ex = <<>> \/ inc = <<>> THEN NoAlignment
          ELSE IF Whole(ex, inc).len > 0 THEN Whole(ex, inc)
          ELSE IF short.len > 0 THEN short
          ELSE IF hit = {} THEN NoAlignment
          ELSE ByWindow(Max(hit), s, anc, inc)
  BY <1>1 DEF _find_alignment
<1>6. NoAlignment.len = 0
  BY DEF NoAlignment
<1>7. Min({Len(ex), Len(inc)}) = M
  <2>1. Min({N, M}) \in {N, M} /\ \A y \in {N, M} : Min({N, M}) <= y
    BY LeastIs
  <2>2. PICK b : b = Min({N, M})
    OBVIOUS
  <2>3. b \in {N, M} /\ b <= M
    BY <2>1, <2>2
  <2> QED BY <1>2, <1>3, <1>4, <2>2, <2>3
<1>8. short = IF M < 3 THEN Short(ex, inc) ELSE NoAlignment
  BY <1>7
<1>9. \A w \in hit : w \in WindowSizes /\ w \in Nat /\ w <= M
  <2> TAKE w \in hit
  <2>1. w \in WindowSizes /\ ByWindow(w, s, anc, inc).len > 0 /\ w \in Nat \ {0}
    BY ReconcilerAssumption
  <2> QED BY <1>3, <2>1, ByWindowBegins
<1>10. M >= 3 => 3 \in hit
  <2> SUFFICES ASSUME M >= 3 PROVE 3 \in hit
    OBVIOUS
  <2>1. 3 <= Len(inc)
    BY <1>3
  <2>2. ByWindow(3, s, anc, inc).len = Len(inc)
    BY <2>1, ByWindowFinds
  <2> QED BY <1>3, <2>2
<1>11. hit # {} => Max(hit) \in hit
  <2>1. hit \in SUBSET Nat /\ \A w \in hit : w <= M
    BY <1>9
  <2> HIDE DEF hit
  <2> QED BY <2>1, GreatestIs
<1> HIDE DEF short, hit
<1>12. CASE Whole(ex, inc).len > 0
  <2>1. a = Whole(ex, inc)
    BY <1>4, <1>5, <1>12
  <2>2. Whole(ex, inc).len = N /\ N <= M
    <3>1. Whole(ex, inc) # NoAlignment
      BY <1>6, <1>12
    <3>2. N <= M /\ \E i : Whole(ex, inc) = Aligned(1, i, N, inc)
      BY <1>2, <1>3, <3>1 DEF Whole
    <3> QED BY <3>2 DEF Aligned
  <2>3. N = M
    BY <1>2, <1>3, <1>4, <2>2
  <2> QED BY <1>3, <2>1, <2>2, <2>3
<1>13. CASE ~ (Whole(ex, inc).len > 0)
  <2>1. CASE M < 3
    <3>1. short = Short(ex, inc) /\ Short(ex, inc).len = M
      BY <1>3, <1>4, <1>8, <2>1, ShortFinds
    <3>2. short.len > 0
      BY <3>1
    <3>3. a = short
      BY <1>4, <1>5, <1>13, <3>2
    <3> QED BY <1>3, <3>1, <3>3
  <2>2. CASE ~ (M < 3)
    <3>1. ~ (short.len > 0)
      BY <1>6, <1>8, <2>2
    <3>2. hit # {}
      BY <1>10, <2>2
    <3>3. a = ByWindow(Max(hit), s, anc, inc)
      BY <1>4, <1>5, <1>13, <3>1, <3>2
    <3>4. PICK w \in WindowSizes : w = Max(hit) /\ w <= Len(inc)
      BY <1>3, <1>9, <1>11, <3>2
    <3>5. ByWindow(w, s, anc, inc).len = Len(inc)
      BY <3>4, ByWindowFinds
    <3> QED BY <3>3, <3>4, <3>5
  <2> QED BY <2>1, <2>2
<1> QED BY <1>12, <1>13

\* ResendWritesNothing holds on SQLite, for any payloads, pairs, actors, history
\* and spacings, and wherever a call dies, if three messages are an anchor window
\* as in _ANCHOR_WINDOW_SIZES: what the last call stored would be found again
\* whole, by whichever of the three searches of _find_alignment answers, so that
\* no message of a resend is left to be written.
THEOREM ResendsWriteNothing ==
  ASSUME Transactional, ~MayMiss, 3 \in WindowSizes
  PROVE  Spec => []ResendWritesNothing
<1>1. SureInv => ResendWritesNothing
  <2> SUFFICES ASSUME SureInv, pc = "idle", last # <<>>, ~Fragment(rows, last),
                      NEW a, a = _find_alignment(rows, anchors, last, TRUE)
               PROVE  a.len = Len(last) /\ a.stored + a.len - 1 <= Len(rows)
    BY DEF ResendWritesNothing
  <2>1. /\ Ordered(rows) /\ last \in Seq(Message) /\ Has(rows, last)
        /\ anchors = _build_anchor_rows(rows) /\ Unique(rows)
    BY DEF SureInv, KeyInv, Shape, StoreInv, Stored, Anchored, KeepInv, Settled, Known
  <2>2. TrueAnchors(rows, anchors)
    BY <2>1, AnchorsAre DEF TrueAnchors
  <2>3. PICK ex \in Seq(Message) : ex = Hashes(rows) /\ Len(ex) = Len(rows)
    BY <2>1, HashesIs
  <2>4. PICK M \in Nat \ {0} : M = Len(last)
    BY <2>1
  <2>5. PICK e \in 1..(Len(ex) - M + 1) : Window(ex, e, M) = last
    BY <2>1, <2>3, <2>4, LaidOccurs DEF Has, Occurs
  <2>6. LiesAt(ex, last, e)
    <3>1. \A j \in 1..M : Window(ex, e, M)[j] = ex[e + j - 1]
      BY <2>5, WindowIs
    <3> QED BY <2>4, <2>5, <3>1 DEF LiesAt
  <2>7. a.len = M
    BY <2>1, <2>2, <2>3, <2>4, <2>6, FindsAll
  <2>8. Matches(a, ex, last)
    <3>1. M > 0
      BY <2>4
    <3>2. a.len > 0
      BY <2>7, <3>1
    <3>3. TRUE \in BOOLEAN
      OBVIOUS
    <3> QED BY <2>1, <2>2, <2>3, <3>2, <3>3, FindMatches
  <2> QED BY <2>3, <2>4, <2>7, <2>8 DEF Matches
<1> QED BY <1>1, SureAlways, PTL

-----------------------------------------------------------------------------
(* What the host delivers in order stays one window of its history.        *)

LEMMA WindowTaken ==
  ASSUME NEW p, IsWindow(p), p # <<>>
  PROVE  p \in Seq(Message) /\ \E c : TakenFrom(p, c)
<1>0. PICK H \in Nat : H = Len(History) /\ DOMAIN History = 1..H /\ \A i \in 1..H : History[i] \in Message
  BY ReconcilerAssumption
<1>1. PICK i \in 1..H, j \in 1..H : p = SubSeq(History, i, j)
  BY <1>0 DEF IsWindow
<1>2. \A k \in i..j : History[k] \in Message
  BY <1>0, <1>1
<1>3. /\ p \in Seq(Message) /\ Len(p) = IF i <= j THEN j - i + 1 ELSE 0
      /\ \A k \in 1..(j - i + 1) : p[k] = History[i + k - 1]
  BY <1>0, <1>1, <1>2, SubSeqProperties
<1>4. i <= j
  BY <1>3
<1>5. Len(p) = j - i + 1 /\ i \in Nat \ {0} /\ i + (j - i + 1) - 1 <= H
  BY <1>3, <1>4
<1>6. TakenFrom(p, i)
  BY <1>0, <1>3, <1>5 DEF TakenFrom
<1> QED BY <1>3, <1>6

LEMMA TakenWindow ==
  ASSUME NEW p \in Seq(Message), p # <<>>, NEW c, TakenFrom(p, c)
  PROVE  IsWindow(p)
<1>0. PICK H \in Nat : H = Len(History) /\ DOMAIN History = 1..H /\ \A i \in 1..H : History[i] \in Message
  BY ReconcilerAssumption
<1>1. PICK M \in Nat \ {0} : M = Len(p)
  OBVIOUS
<1>2. c \in Nat \ {0} /\ c + M - 1 <= H /\ \A k \in 1..M : p[k] = History[c + k - 1]
  BY <1>0, <1>1 DEF TakenFrom
<1>3. PICK d \in 1..H : d = c + M - 1 /\ c <= d /\ c \in 1..H
  BY <1>1, <1>2
<1>4. PICK q : q = SubSeq(History, c, d)
  OBVIOUS
<1>5. \A k \in c..d : History[k] \in Message
  BY <1>0, <1>3
<1>6. /\ q \in Seq(Message) /\ Len(q) = IF c <= d THEN d - c + 1 ELSE 0
      /\ \A k \in 1..(d - c + 1) : q[k] = History[c + k - 1]
  BY <1>2, <1>3, <1>4, <1>5, SubSeqProperties
<1>7. d - c + 1 = M
  BY <1>2, <1>3
<1>8. Len(q) = M /\ \A k \in 1..M : q[k] = p[k]
  BY <1>2, <1>3, <1>6, <1>7
<1>9. q = p
  BY <1>1, <1>6, <1>8, SameSequence
<1> QED BY <1>0, <1>3, <1>4, <1>9 DEF IsWindow

\* Rows that are a window of the history, as contents.
LEMMA TakenTells ==
  ASSUME NEW s, Ordered(s), NEW c, TakenFrom(Hashes(s), c)
  PROVE  TellsOf(Content(s), c, c + Len(s) - 1)
<1>0. Len(History) \in Nat
  BY ReconcilerAssumption
<1>1. PICK N \in Nat : N = Len(s) /\ DOMAIN s = 1..N /\ \A i \in 1..N : s[i].key \in Int
  BY OrderedIs
<1>2. /\ c \in Nat \ {0} /\ c + N - 1 <= Len(History)
      /\ \A k \in 1..N : s[k].hash = History[c + k - 1]
  BY <1>1, HashesIs DEF TakenFrom
<1>3. PICK b \in Nat : b = c + N - 1
  BY <1>2
<1> DEFINE kk == [j \in c..b |-> s[j - c + 1].key]
<1>4. \A j \in c..b : j - c + 1 \in 1..N /\ kk[j] = s[j - c + 1].key /\ c + (j - c + 1) - 1 = j
  BY <1>2, <1>3
<1> HIDE DEF kk
<1>5. \A j \in c..b : kk[j] \in Int
  BY <1>1, <1>4
<1>6. ASSUME NEW i \in c..b, NEW j \in c..b, i < j PROVE kk[i] < kk[j]
  <2>1. i - c + 1 < j - c + 1
    BY <1>2, <1>6
  <2>2. s[i - c + 1].key < s[j - c + 1].key
    BY <1>1, <1>4, <2>1 DEF Ordered
  <2> QED BY <1>4, <2>2
<1>7. Content(s) = {<<kk[j], History[j]>> : j \in c..b}
  <2>1. ASSUME NEW x \in Content(s) PROVE \E j \in c..b : x = <<kk[j], History[j]>>
    <3>1. PICK i \in 1..N : x = <<s[i].key, s[i].hash>>
      BY <1>1 DEF Content
    <3>2. PICK j \in c..b : j = c + i - 1 /\ j - c + 1 = i
      BY <1>2, <1>3
    <3>3. kk[j] = s[i].key /\ History[j] = s[i].hash
      BY <1>2, <1>4, <3>2
    <3> QED BY <3>1, <3>3
  <2>2. ASSUME NEW j \in c..b PROVE <<kk[j], History[j]>> \in Content(s)
    <3>1. PICK i \in 1..N : i = j - c + 1 /\ c + i - 1 = j
      BY <1>4
    <3>2. kk[j] = s[i].key /\ History[j] = s[i].hash
      BY <1>2, <1>4, <3>1
    <3> QED BY <1>1, <3>2 DEF Content
  <2> QED BY <2>1, <2>2
<1>8. Tells(Content(s), c, b, kk)
  BY <1>5, <1>6, <1>7 DEF Tells
<1>9. c <= b + 1 /\ b <= Len(History)
  BY <1>0, <1>2, <1>3
<1> QED BY <1>1, <1>2, <1>3, <1>8, <1>9 DEF TellsOf

\* Contents that tell a window of the history, as rows.
LEMMA TellsTaken ==
  ASSUME Distinct, NEW s, Ordered(s), NEW a, NEW b, TellsOf(Content(s), a, b)
  PROVE  TakenFrom(Hashes(s), a) /\ Len(s) = b - a + 1
<1>0. PICK H \in Nat : H = Len(History) /\ DOMAIN History = 1..H /\ \A i \in 1..H : History[i] \in Message
  BY ReconcilerAssumption
<1>1. PICK N \in Nat : N = Len(s) /\ DOMAIN s = 1..N /\ \A i \in 1..N : s[i].key \in Int
  BY OrderedIs
<1>2. a \in Nat \ {0} /\ b \in Nat /\ a <= b + 1 /\ b <= H
  BY <1>0 DEF TellsOf
<1>3. PICK kk : Tells(Content(s), a, b, kk)
  BY DEF TellsOf
<1>4. /\ \A j \in a..b : kk[j] \in Int
      /\ \A i, j \in a..b : i < j => kk[i] < kk[j]
      /\ Content(s) = {<<kk[j], History[j]>> : j \in a..b}
  BY <1>3 DEF Tells
<1>5. PICK M \in Nat : M = b - a + 1
  BY <1>2
<1> DEFINE q == [k \in 1..M |-> History[a + k - 1]]
           kq == [k \in 1..M |-> kk[a + k - 1]]
<1>6. \A k \in 1..M : a + k - 1 \in a..b /\ a + k - 1 \in 1..H
  BY <1>2, <1>5
<1>7. q \in Seq(Message) /\ Len(q) = M /\ \A k \in 1..M : q[k] = History[a + k - 1]
  BY <1>0, <1>6
<1>8. \A k \in 1..M : kq[k] = kk[a + k - 1]
  OBVIOUS
<1> HIDE DEF q, kq
<1>9. Laid(Content(s), q)
  <2>1. Rising(kq, M)
    <3>1. \A k \in 1..M : kq[k] \in Int
      BY <1>4, <1>6, <1>8
    <3>2. ASSUME NEW i \in 1..M, NEW j \in 1..M, i < j PROVE kq[i] < kq[j]
      <4>1. a + i - 1 < a + j - 1
        BY <1>2, <3>2
      <4> QED BY <1>4, <1>6, <1>8, <4>1
    <3> QED BY <3>1, <3>2 DEF Rising
  <2>2. \A k \in 1..M : <<kq[k], q[k]>> \in Content(s)
    <3> TAKE k \in 1..M
    <3>1. PICK j \in a..b : j = a + k - 1
      BY <1>6
    <3>2. <<kk[j], History[j]>> \in Content(s)
      BY <1>4
    <3> QED BY <1>7, <1>8, <3>1, <3>2
  <2>3. \A x \in Content(s) : \E k \in 1..M : x[1] = kq[k]
    <3> TAKE x \in Content(s)
    <3>1. PICK j \in a..b : x = <<kk[j], History[j]>>
      BY <1>4
    <3>2. PICK k \in 1..M : k = j - a + 1 /\ a + k - 1 = j
      BY <1>2, <1>5
    <3> QED BY <1>8, <3>1, <3>2
  <2>4. Lies(Content(s), q, kq)
    BY <1>7, <2>1, <2>2, <2>3 DEF Lies
  <2> QED BY <2>4 DEF Laid
<1>10. PICK ex \in Seq(Message) : ex = Hashes(s) /\ Len(ex) = N /\ \A i \in 1..N : ex[i] = s[i].hash
  BY <1>1, HashesIs
<1>11. PICK e \in 1..(N - M + 1) : Window(ex, e, M) = q
  BY <1>7, <1>9, <1>10, LaidOccurs DEF Occurs
<1>12. \A k \in 1..M : e + k - 1 \in 1..N /\ s[e + k - 1].hash = History[a + k - 1]
  <2>0. e \in 1..(Len(ex) - M + 1)
    BY <1>10, <1>11
  <2>1. \A k \in 1..M : Window(ex, e, M)[k] = ex[e + k - 1]
    <3>1. ex \in Seq(Message) /\ M \in Nat
      BY <1>5, <1>10
    <3> QED BY <2>0, <3>1, WindowIs
  <2>2. \A k \in 1..M : e + k - 1 \in 1..N
    BY <1>11
  <2> QED BY <1>7, <1>10, <1>11, <2>1, <2>2
<1>13. ASSUME NEW i \in 1..N PROVE \E k \in 1..M : i = e + k - 1
  <2>1. <<s[i].key, s[i].hash>> \in Content(s)
    BY <1>1 DEF Content
  <2>2. PICK j \in a..b : <<s[i].key, s[i].hash>> = <<kk[j], History[j]>>
    BY <1>4, <2>1
  <2>3. PICK k \in 1..M : k = j - a + 1 /\ a + k - 1 = j
    BY <1>2, <1>5
  <2>4. PICK z \in 1..N : z = e + k - 1 /\ s[z].hash = History[j]
    BY <1>12, <2>3
  <2>5. <<s[z].key, s[z].hash>> \in Content(s)
    BY <1>1 DEF Content
  <2>6. PICK y \in a..b : <<s[z].key, s[z].hash>> = <<kk[y], History[y]>>
    BY <1>4, <2>5
  <2>7. History[y] = History[j] /\ y \in 1..H /\ j \in 1..H
    BY <1>2, <2>4, <2>6
  <2>8. y = j
    BY <1>0, <2>7 DEF Distinct
  <2>9. s[z].key = s[i].key
    BY <2>2, <2>6, <2>8
  <2>10. ~ (z < i) /\ ~ (i < z)
    <3>1. PICK x \in Int : x = s[i].key /\ x = s[z].key
      BY <1>1, <2>9
    <3>2. (z < i => s[z].key < s[i].key) /\ (i < z => s[i].key < s[z].key)
      BY <1>1, <2>4 DEF Ordered
    <3>3. ~ (x < x)
      BY <3>1
    <3> QED BY <3>1, <3>2, <3>3
  <2>11. z = i
    BY <2>10
  <2> QED BY <2>4, <2>11
<1>14. N = M /\ (N > 0 => e = 1)
  <2>1. CASE N = 0
    BY <1>11, <2>1
  <2>2. CASE N > 0
    <3>1. 1 \in 1..N /\ N \in 1..N
      BY <2>2
    <3>2. PICK k \in 1..M : 1 = e + k - 1
      BY <1>13, <3>1
    <3>3. e = 1
      BY <1>11, <3>2
    <3>4. PICK j \in 1..M : N = e + j - 1
      BY <1>13, <3>1
    <3>5. N <= M /\ M <= N
      BY <1>11, <3>3, <3>4
    <3> QED BY <3>3, <3>5
  <2> QED BY <2>1, <2>2
<1>15. \A k \in 1..N : ex[k] = History[a + k - 1]
  <2> TAKE k \in 1..N
  <2>1. e + k - 1 = k /\ k \in 1..M
    BY <1>14
  <2> QED BY <1>10, <1>12, <2>1
<1>16. a + N - 1 <= H
  BY <1>2, <1>5, <1>14
<1>17. TakenFrom(ex, a)
  BY <1>0, <1>2, <1>10, <1>15, <1>16 DEF TakenFrom
<1> QED BY <1>1, <1>5, <1>10, <1>14, <1>17

\* Moving the keys from x on keeps what is told.
LEMMA TellsSlid ==
  ASSUME NEW C, NEW a, NEW b, TellsOf(C, a, b), NEW x \in Int, NEW d \in Nat
  PROVE  TellsOf({Slid(c, x, d) : c \in C}, a, b)
<1>1. PICK kk : Tells(C, a, b, kk)
  BY DEF TellsOf
<1>2. /\ \A j \in a..b : kk[j] \in Int
      /\ \A i, j \in a..b : i < j => kk[i] < kk[j]
      /\ C = {<<kk[j], History[j]>> : j \in a..b}
  BY <1>1 DEF Tells
<1> DEFINE yy == [j \in a..b |-> IF kk[j] >= x THEN kk[j] + d ELSE kk[j]]
           S == {Slid(c, x, d) : c \in C}
<1>3. \A j \in a..b : yy[j] = IF kk[j] >= x THEN kk[j] + d ELSE kk[j]
  OBVIOUS
<1> HIDE DEF yy
<1>4. \A j \in a..b : yy[j] \in Int
  BY <1>2, <1>3
<1>5. ASSUME NEW i \in a..b, NEW j \in a..b, i < j PROVE yy[i] < yy[j]
  <2>1. PICK u \in Int, v \in Int : u = kk[i] /\ v = kk[j] /\ u < v
    BY <1>2, <1>5
  <2>2. yy[i] = (IF u >= x THEN u + d ELSE u) /\ yy[j] = IF v >= x THEN v + d ELSE v
    BY <1>3, <2>1
  <2>3. (IF u >= x THEN u + d ELSE u) < IF v >= x THEN v + d ELSE v
    BY <2>1
  <2> QED BY <2>2, <2>3
<1>6. \A j \in a..b : Slid(<<kk[j], History[j]>>, x, d) = <<yy[j], History[j]>>
  BY <1>3 DEF Slid
<1>7. S = {<<yy[j], History[j]>> : j \in a..b}
  <2>1. ASSUME NEW y \in S PROVE \E j \in a..b : y = <<yy[j], History[j]>>
    <3>1. PICK c \in C : y = Slid(c, x, d)
      OBVIOUS
    <3>2. PICK j \in a..b : c = <<kk[j], History[j]>>
      BY <1>2
    <3> QED BY <1>6, <3>1, <3>2
  <2>2. ASSUME NEW j \in a..b PROVE <<yy[j], History[j]>> \in S
    <3>1. <<kk[j], History[j]>> \in C
      BY <1>2
    <3>2. Slid(<<kk[j], History[j]>>, x, d) \in S
      BY <3>1
    <3> QED BY <1>6, <3>2
  <2> HIDE DEF S
  <2> QED BY <2>1, <2>2
<1> HIDE DEF S
<1>8. Tells(S, a, b, yy)
  BY <1>4, <1>5, <1>7 DEF Tells
<1>9. TellsOf(S, a, b)
  BY <1>8 DEF TellsOf
<1> QED BY <1>9 DEF S

\* The next messages of the history at greater keys.
LEMMA TellsRight ==
  ASSUME NEW C, NEW a, NEW b, TellsOf(C, a, b), NEW m \in Nat, NEW keys, Rising(keys, m),
         \A x \in C : \A k \in 1..m : x[1] < keys[k],
         NEW msgs, \A k \in 1..m : msgs[k] = History[b + k], b + m <= Len(History)
  PROVE  TellsOf(C \cup NewContent(keys, msgs, m), a, b + m)
<1>1. PICK kk : Tells(C, a, b, kk)
  BY DEF TellsOf
<1>2. /\ \A j \in a..b : kk[j] \in Int
      /\ \A i, j \in a..b : i < j => kk[i] < kk[j]
      /\ C = {<<kk[j], History[j]>> : j \in a..b}
  BY <1>1 DEF Tells
<1>3. a \in Nat \ {0} /\ b \in Nat /\ a <= b + 1
  BY DEF TellsOf
<1> DEFINE yy == [j \in a..(b + m) |-> IF j <= b THEN kk[j] ELSE keys[j - b]]
           S == C \cup NewContent(keys, msgs, m)
<1>4. \A j \in a..(b + m) : yy[j] = IF j <= b THEN kk[j] ELSE keys[j - b]
  OBVIOUS
<1>5. \A j \in a..(b + m) : \/ j \in a..b /\ j <= b
                            \/ ~ (j <= b) /\ j - b \in 1..m /\ b + (j - b) = j
  BY <1>3
<1>6. /\ \A j \in a..b : j \in a..(b + m) /\ j <= b
      /\ \A k \in 1..m : b + k \in a..(b + m) /\ ~ (b + k <= b) /\ (b + k) - b = k
  BY <1>3
<1>7. /\ \A k \in 1..m : keys[k] \in Int
      /\ \A j, k \in 1..m : j < k => keys[j] < keys[k]
  BY DEF Rising
<1> HIDE DEF yy
<1>8. \A j \in a..(b + m) : yy[j] \in Int
  BY <1>2, <1>4, <1>5, <1>7
<1>9. \A j \in a..b : \A k \in 1..m : kk[j] < keys[k]
  <2> TAKE j \in a..b
  <2>1. PICK x \in C : x = <<kk[j], History[j]>>
    BY <1>2
  <2> QED BY <2>1
<1>10. ASSUME NEW i \in a..(b + m), NEW j \in a..(b + m), i < j PROVE yy[i] < yy[j]
  <2>1. CASE j <= b
    <3>1. i \in a..b /\ j \in a..b /\ i <= b
      BY <1>3, <1>10, <2>1
    <3> QED BY <1>2, <1>4, <1>10, <2>1, <3>1
  <2>2. CASE ~ (j <= b) /\ i <= b
    <3>1. i \in a..b /\ j - b \in 1..m
      BY <1>3, <2>2
    <3> QED BY <1>4, <1>9, <2>2, <3>1
  <2>3. CASE ~ (j <= b) /\ ~ (i <= b)
    <3>1. i - b \in 1..m /\ j - b \in 1..m /\ i - b < j - b
      BY <1>3, <1>10, <2>3
    <3> QED BY <1>4, <1>7, <2>3, <3>1
  <2> QED BY <2>1, <2>2, <2>3
<1>11. S = {<<yy[j], History[j]>> : j \in a..(b + m)}
  <2>1. ASSUME NEW y \in S PROVE \E j \in a..(b + m) : y = <<yy[j], History[j]>>
    <3>1. CASE y \in C
      <4>1. PICK j \in a..b : y = <<kk[j], History[j]>>
        BY <1>2, <3>1
      <4> QED BY <1>4, <1>6, <4>1
    <3>2. CASE y \in NewContent(keys, msgs, m)
      <4>1. PICK k \in 1..m : y = <<keys[k], msgs[k]>>
        BY <3>2 DEF NewContent
      <4>2. PICK j \in a..(b + m) : j = b + k
        BY <1>6
      <4>3. ~ (j <= b) /\ j - b = k
        BY <1>6, <4>2
      <4>4. yy[j] = keys[k] /\ msgs[k] = History[j]
        BY <1>4, <4>2, <4>3
      <4> QED BY <4>1, <4>4
    <3> QED BY <3>1, <3>2
  <2>2. ASSUME NEW j \in a..(b + m) PROVE <<yy[j], History[j]>> \in S
    <3>1. CASE j <= b
      <4>1. yy[j] = kk[j] /\ j \in a..b
        BY <1>4, <1>5, <3>1
      <4>2. <<kk[j], History[j]>> \in C
        BY <1>2, <4>1
      <4> QED BY <4>1, <4>2
    <3>2. CASE ~ (j <= b)
      <4>1. PICK k \in 1..m : k = j - b /\ b + k = j
        BY <1>5, <3>2
      <4>2. yy[j] = keys[k] /\ msgs[k] = History[j]
        BY <1>4, <3>2, <4>1
      <4>3. <<keys[k], msgs[k]>> \in NewContent(keys, msgs, m)
        BY DEF NewContent
      <4> QED BY <4>2, <4>3
    <3> QED BY <3>1, <3>2
  <2> HIDE DEF S
  <2> QED BY <2>1, <2>2
<1> HIDE DEF S
<1>12. Tells(S, a, b + m, yy)
  BY <1>8, <1>10, <1>11 DEF Tells
<1>13. b + m \in Nat /\ a <= (b + m) + 1
  BY <1>3
<1>14. TellsOf(S, a, b + m)
  BY <1>3, <1>12, <1>13 DEF TellsOf
<1> QED BY <1>14 DEF S

\* The messages before them at smaller keys.
LEMMA TellsLeft ==
  ASSUME NEW C, NEW a, NEW b, TellsOf(C, a, b), NEW n \in Nat, n < a, NEW keys, Rising(keys, n),
         \A x \in C : \A k \in 1..n : keys[k] < x[1],
         NEW msgs, \A k \in 1..n : msgs[k] = History[(a - n) + k - 1]
  PROVE  TellsOf(C \cup NewContent(keys, msgs, n), a - n, b)
<1>1. PICK kk : Tells(C, a, b, kk)
  BY DEF TellsOf
<1>2. /\ \A j \in a..b : kk[j] \in Int
      /\ \A i, j \in a..b : i < j => kk[i] < kk[j]
      /\ C = {<<kk[j], History[j]>> : j \in a..b}
  BY <1>1 DEF Tells
<1>3. a \in Nat \ {0} /\ b \in Nat /\ a <= b + 1 /\ b <= Len(History)
  BY DEF TellsOf
<1>a. PICK z \in Nat \ {0} : z = a - n /\ z + n = a
  BY <1>3
<1> DEFINE yy == [j \in z..b |-> IF j >= a THEN kk[j] ELSE keys[j - z + 1]]
           S == C \cup NewContent(keys, msgs, n)
<1>4. \A j \in z..b : yy[j] = IF j >= a THEN kk[j] ELSE keys[j - z + 1]
  OBVIOUS
<1>5. \A j \in z..b : \/ j \in a..b /\ j >= a
                      \/ ~ (j >= a) /\ j - z + 1 \in 1..n /\ z + (j - z + 1) - 1 = j
  BY <1>3, <1>a
<1>6. /\ \A j \in a..b : j \in z..b /\ j >= a
      /\ \A k \in 1..n : z + k - 1 \in z..b /\ ~ (z + k - 1 >= a) /\ (z + k - 1) - z + 1 = k
  BY <1>3, <1>a
<1>7. /\ \A k \in 1..n : keys[k] \in Int
      /\ \A j, k \in 1..n : j < k => keys[j] < keys[k]
  BY DEF Rising
<1> HIDE DEF yy
<1>8. \A j \in z..b : yy[j] \in Int
  BY <1>2, <1>4, <1>5, <1>7
<1>9. \A j \in a..b : \A k \in 1..n : keys[k] < kk[j]
  <2> TAKE j \in a..b
  <2>1. PICK x \in C : x = <<kk[j], History[j]>>
    BY <1>2
  <2> QED BY <2>1
<1>10. ASSUME NEW i \in z..b, NEW j \in z..b, i < j PROVE yy[i] < yy[j]
  <2>1. CASE i >= a
    <3>1. i \in a..b /\ j \in a..b /\ j >= a
      BY <1>3, <1>10, <2>1
    <3> QED BY <1>2, <1>4, <1>10, <2>1, <3>1
  <2>2. CASE ~ (i >= a) /\ j >= a
    <3>1. j \in a..b /\ i - z + 1 \in 1..n
      BY <1>3, <1>5, <2>2
    <3> QED BY <1>4, <1>9, <2>2, <3>1
  <2>3. CASE ~ (j >= a) /\ ~ (i >= a)
    <3>1. i - z + 1 \in 1..n /\ j - z + 1 \in 1..n /\ i - z + 1 < j - z + 1
      BY <1>5, <1>10, <2>3
    <3> QED BY <1>4, <1>7, <2>3, <3>1
  <2> QED BY <2>1, <2>2, <2>3
<1>11. S = {<<yy[j], History[j]>> : j \in z..b}
  <2>1. ASSUME NEW y \in S PROVE \E j \in z..b : y = <<yy[j], History[j]>>
    <3>1. CASE y \in C
      <4>1. PICK j \in a..b : y = <<kk[j], History[j]>>
        BY <1>2, <3>1
      <4> QED BY <1>4, <1>6, <4>1
    <3>2. CASE y \in NewContent(keys, msgs, n)
      <4>1. PICK k \in 1..n : y = <<keys[k], msgs[k]>>
        BY <3>2 DEF NewContent
      <4>2. PICK j \in z..b : j = z + k - 1
        BY <1>6
      <4>3. ~ (j >= a) /\ j - z + 1 = k
        BY <1>6, <4>2
      <4>4. yy[j] = keys[k] /\ msgs[k] = History[j]
        BY <1>4, <1>a, <4>2, <4>3
      <4> QED BY <4>1, <4>4
    <3> QED BY <3>1, <3>2
  <2>2. ASSUME NEW j \in z..b PROVE <<yy[j], History[j]>> \in S
    <3>1. CASE j >= a
      <4>1. yy[j] = kk[j] /\ j \in a..b
        BY <1>4, <1>5, <3>1
      <4>2. <<kk[j], History[j]>> \in C
        BY <1>2, <4>1
      <4> QED BY <4>1, <4>2
    <3>2. CASE ~ (j >= a)
      <4>1. PICK k \in 1..n : k = j - z + 1 /\ z + k - 1 = j
        BY <1>5, <3>2
      <4>2. yy[j] = keys[k] /\ msgs[k] = History[j]
        BY <1>4, <1>a, <3>2, <4>1
      <4>3. <<keys[k], msgs[k]>> \in NewContent(keys, msgs, n)
        BY DEF NewContent
      <4> QED BY <4>2, <4>3
    <3> QED BY <3>1, <3>2
  <2> HIDE DEF S
  <2> QED BY <2>1, <2>2
<1> HIDE DEF S
<1>12. Tells(S, z, b, yy)
  BY <1>8, <1>10, <1>11 DEF Tells
<1>13. z <= b + 1
  BY <1>3, <1>a
<1>14. TellsOf(S, z, b)
  BY <1>3, <1>12, <1>13 DEF TellsOf
<1> QED BY <1>a, <1>14 DEF S

\* Messages of the history before and after the rows t, merged at an overlap that
\* leaves nothing in between.
LEMMA MergeTold ==
  ASSUME NEW t, Ordered(t), NEW l \in Nat, NEW r \in Nat, NEW n \in Nat, NEW pk, NEW m \in Nat,
         NEW d \in Nat, NEW sk, NEW inc \in Seq(Message), NEW pre, NEW suf,
         Suits(t, l, r, pk, n, m, d, sk, inc, pre, suf), OneWindow(t, l, r, n, m, inc)
  PROVE  Told(After(Content(t) \cup NewContent(pk, pre, n), t, r, d, sk, suf, m))
<1> SUFFICES ASSUME l < r, NEW a, TakenFrom(Hashes(t), a), NEW c, TakenFrom(inc, c),
                    c + n = a + l, n = 0 \/ l = 0, m = 0 \/ r = Len(t)
             PROVE  Told(After(Content(t) \cup NewContent(pk, pre, n), t, r, d, sk, suf, m))
  BY DEF OneWindow
<1>0. PICK N \in Nat : N = Len(t) /\ DOMAIN t = 1..N /\ \A i \in 1..N : t[i].key \in Int
  BY OrderedIs
<1>1. /\ r <= N /\ Rising(pk, n) /\ NewKeys(sk, t, r, m, d) /\ Len(inc) = n + (r - l) + m
      /\ l < N => \A k \in 1..n : pk[k] < t[l + 1].key
      /\ \A k \in 1..n : pre[k] = inc[k]
      /\ \A k \in 1..m : suf[k] = inc[n + (r - l) + k]
  BY <1>0 DEF Suits
<1>2. /\ a \in Nat \ {0} /\ c \in Nat \ {0} /\ c + Len(inc) - 1 <= Len(History)
      /\ \A k \in 1..Len(inc) : inc[k] = History[c + k - 1]
  BY DEF TakenFrom
<1>3. PICK M \in Nat : M = Len(inc) /\ M = n + (r - l) + m
  BY <1>1
<1>4. PICK b \in Nat : b = a + N - 1
  BY <1>2, SMTT(60)
<1>5. TellsOf(Content(t), a, b)
  BY <1>0, <1>4, TakenTells
<1>6. PICK C : C = Content(t) \cup NewContent(pk, pre, n)
  OBVIOUS
<1>7. \A i \in 1..N : t[1].key <= t[i].key /\ t[i].key <= t[N].key
  <2> TAKE i \in 1..N
  <2>1. PICK x \in Int, y \in Int, z \in Int : x = t[1].key /\ y = t[i].key /\ z = t[N].key
    BY <1>0
  <2>2. (1 < i => x < y) /\ (i < N => y < z)
    <3>1. \A j, k \in 1..N : j < k => t[j].key < t[k].key
      BY <1>0 DEF Ordered
    <3>2. 1 \in 1..N /\ N \in 1..N
      OBVIOUS
    <3> QED BY <2>1, <3>1, <3>2
  <2>3. (~ (1 < i) => i = 1) /\ (~ (i < N) => i = N)
    OBVIOUS
  <2>4. (~ (1 < i) => x = y) /\ (~ (i < N) => y = z)
    BY <2>1, <2>3
  <2>5. x \in Int /\ y \in Int /\ z \in Int
    BY <2>1
  <2>6. x <= y /\ y <= z
    BY <2>2, <2>4, <2>5
  <2> QED BY <2>1, <2>6
<1>8. \A x \in Content(t) : x[1] \in Int /\ t[1].key <= x[1] /\ x[1] <= t[N].key
  <2> TAKE x \in Content(t)
  <2>1. PICK i \in 1..N : x = <<t[i].key, t[i].hash>>
    BY <1>0 DEF Content
  <2>2. x[1] = t[i].key
    BY <2>1
  <2> QED BY <1>0, <1>7, <2>2
<1>9. 1 \in 1..N /\ t[1].key \in Int /\ N \in 1..N /\ t[N].key \in Int
  BY <1>0, <1>1
<1>10. \A k \in 1..n : pk[k] \in Int /\ pk[k] < t[1].key
  <2> TAKE k \in 1..n
  <2>1. l = 0 /\ l < N /\ l + 1 = 1
    BY <1>0, <1>1
  <2>2. pk[k] < t[l + 1].key
    BY <1>1, <2>1
  <2> QED BY <1>1, <2>1, <2>2 DEF Rising
<1>11. n < a /\ TellsOf(C, a - n, b)
  <2>1. n < a /\ (n = 0 \/ c = a - n)
    BY <1>2, SMTT(60)
  <2>2. \A k \in 1..n : pre[k] = History[(a - n) + k - 1]
    <3> TAKE k \in 1..n
    <3>1. k \in 1..M /\ c = a - n
      BY <1>1, <1>3, <2>1
    <3>2. inc[k] = History[c + k - 1]
      BY <1>2, <1>3, <3>1
    <3> QED BY <1>1, <3>1, <3>2
  <2>3. \A x \in Content(t) : \A k \in 1..n : pk[k] < x[1]
    <3> TAKE x \in Content(t)
    <3> TAKE k \in 1..n
    <3>1. PICK u \in Int, v \in Int, w \in Int : u = pk[k] /\ v = t[1].key /\ w = x[1] /\ u < v /\ v <= w
      BY <1>8, <1>9, <1>10
    <3>2. u < w
      BY <3>1
    <3> QED BY <3>1, <3>2
  <2> QED BY <1>1, <1>5, <1>6, <2>1, <2>2, <2>3, TellsLeft
<1>12. PICK x \in Int : x = ShiftFrom(t, r)
  <2>1. r < Len(t) => r + 1 \in 1..N
    BY <1>0
  <2> QED BY <1>0, <2>1 DEF ShiftFrom
<1>13. PICK S : S = {Slid(y, x, d) : y \in C}
  OBVIOUS
<1>14. TellsOf(S, a - n, b)
  BY <1>11, <1>13, TellsSlid
<1>15. Rising(sk, m) /\ (d # 0 => r < N) /\ (\A k \in 1..m : sk[k] \in Int /\ t[r].key < sk[k])
  <2>1. r >= 1
    BY <1>1
  <2> QED BY <1>0, <1>1, <2>1 DEF NewKeys, Rising
<1>16. \A y \in C : y[1] \in Int /\ y[1] <= t[N].key
  <2> TAKE y \in C
  <2>1. CASE y \in Content(t)
    BY <1>8, <2>1
  <2>2. CASE y \in NewContent(pk, pre, n)
    <3>1. PICK k \in 1..n : y = <<pk[k], pre[k]>>
      BY <2>2 DEF NewContent
    <3>2. y[1] = pk[k]
      BY <3>1
    <3>3. PICK u \in Int, v \in Int, w \in Int : u = pk[k] /\ v = t[1].key /\ w = t[N].key /\ u < v /\ v <= w
      BY <1>7, <1>9, <1>10
    <3>4. u <= w
      BY <3>3
    <3> QED BY <3>2, <3>3, <3>4
  <2> QED BY <1>6, <2>1, <2>2
<1>17. \A y \in S : \A k \in 1..m : y[1] < sk[k]
  <2> SUFFICES ASSUME NEW y \in S, NEW k \in 1..m PROVE y[1] < sk[k]
    OBVIOUS
  <2>1. r = N /\ d = 0
    BY <1>0, <1>15
  <2>2. PICK z \in C : y = Slid(z, x, d)
    BY <1>13
  <2>3. PICK u \in Int, v \in Int, w \in Int : u = z[1] /\ v = t[N].key /\ w = sk[k] /\ u <= v /\ v < w
    BY <1>9, <1>15, <1>16, <2>1
  <2>4. y[1] = IF u >= x THEN u + d ELSE u
    BY <2>2, <2>3 DEF Slid
  <2>5. (IF u >= x THEN u + d ELSE u) = u /\ u < w
    <3>1. u + d = u
      BY <2>1
    <3>2. u < w
      BY <2>3, SMTT(60)
    <3> QED BY <3>1, <3>2
  <2> QED BY <2>3, <2>4, <2>5
<1>18. (\A k \in 1..m : suf[k] = History[b + k]) /\ b + m <= Len(History)
  <2>0. Len(History) \in Nat /\ b <= Len(History)
    BY <1>5, ReconcilerAssumption DEF TellsOf
  <2>1. CASE m = 0
    BY <2>0, <2>1
  <2>2. CASE m # 0
    <3>1. r = N /\ b + m = c + M - 1
      <4>1. r = N
        BY <1>0, <2>2
      <4>2. c \in Nat /\ a \in Nat
        BY <1>2
      <4> QED BY <1>3, <1>4, <4>1, <4>2
    <3>2. \A k \in 1..m : suf[k] = History[b + k]
      <4> TAKE k \in 1..m
      <4>1. PICK j \in 1..M : j = n + (r - l) + k
        BY <1>3
      <4>2. c + j - 1 = b + k
        BY <1>2, <1>4, <3>1, <4>1
      <4>3. suf[k] = inc[j] /\ inc[j] = History[c + j - 1]
        BY <1>1, <1>2, <1>3, <4>1
      <4> QED BY <4>2, <4>3
    <3> QED BY <1>2, <1>3, <3>1, <3>2
  <2> QED BY <2>1, <2>2
<1>19. TellsOf(S \cup NewContent(sk, suf, m), a - n, b + m)
  BY <1>14, <1>15, <1>17, <1>18, TellsRight
<1>20. After(C, t, r, d, sk, suf, m) = S \cup NewContent(sk, suf, m)
  BY <1>12, <1>13 DEF After
<1> QED BY <1>6, <1>19, <1>20 DEF Told

\* Overlapping windows of a history without repetition overlap at one distance.
LEMMA Diagonal ==
  ASSUME Distinct, NEW ex \in Seq(Message), NEW inc \in Seq(Message),
         NEW a0, TakenFrom(ex, a0), NEW c0, TakenFrom(inc, c0),
         NEW e \in 1..Len(ex), NEW i \in 1..Len(inc), ex[e] = inc[i]
  PROVE  c0 + i = a0 + e
<1>0. PICK H \in Nat : H = Len(History) /\ DOMAIN History = 1..H
  BY ReconcilerAssumption
<1>1. PICK N \in Nat : N = Len(ex)
  OBVIOUS
<1>2. PICK M \in Nat : M = Len(inc)
  OBVIOUS
<1>3. /\ a0 \in Nat \ {0} /\ a0 + N - 1 <= H /\ ex[e] = History[a0 + e - 1]
      /\ c0 \in Nat \ {0} /\ c0 + M - 1 <= H /\ inc[i] = History[c0 + i - 1]
  BY <1>0, <1>1, <1>2 DEF TakenFrom
<1>4. PICK x \in 1..H, y \in 1..H : x = a0 + e - 1 /\ y = c0 + i - 1
  <2>1. e \in Nat /\ e >= 1 /\ e <= N /\ i \in Nat /\ i >= 1 /\ i <= M
    BY <1>1, <1>2
  <2>2. a0 \in Nat \ {0} /\ a0 + N - 1 <= H /\ c0 \in Nat \ {0} /\ c0 + M - 1 <= H
    BY <1>3
  <2>3. a0 + e - 1 \in 1..H /\ c0 + i - 1 \in 1..H
    BY <2>1, <2>2
  <2> QED BY <2>3
<1>5. x = y
  BY <1>0, <1>3, <1>4 DEF Distinct
<1>6. a0 + e - 1 = c0 + i - 1
  BY <1>4, <1>5
<1>7. a0 \in Int /\ e \in Int /\ c0 \in Int /\ i \in Int
  BY <1>1, <1>2, <1>3
<1> QED BY <1>6, <1>7

LEMMA DiagonalWindows ==
  ASSUME NEW ex \in Seq(Message), NEW inc \in Seq(Message),
         NEW a0, TakenFrom(ex, a0), NEW c0, TakenFrom(inc, c0), NEW n \in Nat,
         NEW e \in 1..(Len(ex) - n + 1), NEW i \in 1..(Len(inc) - n + 1), c0 + i = a0 + e
  PROVE  Window(ex, e, n) = Window(inc, i, n)
<1>1. PICK N \in Nat : N = Len(ex)
  OBVIOUS
<1>2. PICK M \in Nat : M = Len(inc)
  OBVIOUS
<1>3. /\ a0 \in Nat \ {0} /\ \A k \in 1..N : ex[k] = History[a0 + k - 1]
      /\ c0 \in Nat \ {0} /\ \A k \in 1..M : inc[k] = History[c0 + k - 1]
  BY <1>1, <1>2 DEF TakenFrom
<1>4. /\ Window(ex, e, n) \in Seq(Message) /\ Len(Window(ex, e, n)) = n
      /\ \A j \in 1..n : Window(ex, e, n)[j] = ex[e + j - 1]
  BY WindowIs, SMTT(60)
<1>5. /\ Window(inc, i, n) \in Seq(Message) /\ Len(Window(inc, i, n)) = n
      /\ \A j \in 1..n : Window(inc, i, n)[j] = inc[i + j - 1]
  BY WindowIs
<1>6. \A j \in 1..n : Window(ex, e, n)[j] = Window(inc, i, n)[j]
  <2> TAKE j \in 1..n
  <2>1. PICK x \in 1..N : x = e + j - 1
    BY <1>1
  <2>2. PICK y \in 1..M : y = i + j - 1
    BY <1>2
  <2>3. a0 + x - 1 = c0 + y - 1
    BY <1>1, <1>2, <1>3, <2>1, <2>2
  <2>4. ex[x] = inc[y]
    BY <1>3, <2>3
  <2> QED BY <1>4, <1>5, <2>1, <2>2, <2>4
<1> QED BY <1>4, <1>5, <1>6, SameSequence

LEMMA WholeFull ==
  ASSUME NEW ex \in Seq(Message), NEW inc \in Seq(Message), Whole(ex, inc).len > 0
  PROVE  Full(Whole(ex, inc), ex, inc)
<1>1. PICK N \in Nat : N = Len(ex)
  OBVIOUS
<1>2. Whole(ex, inc) # NoAlignment
  <2>1. ~ (NoAlignment.len > 0)
    BY DEF NoAlignment
  <2> QED BY <2>1
<1>3. \E i : Whole(ex, inc) = Aligned(1, i, N, inc)
  BY <1>1, <1>2 DEF Whole
<1>4. Whole(ex, inc).stored = 1 /\ Whole(ex, inc).len = N
  BY <1>3 DEF Aligned
<1>5. PICK a : a = Whole(ex, inc)
  OBVIOUS
<1>6. a.stored = 1 /\ a.stored + a.len - 1 = N
  BY <1>4, <1>5
<1> QED BY <1>1, <1>5, <1>6 DEF Full

LEMMA ShortFull ==
  ASSUME Distinct, NEW ex \in Seq(Message), NEW inc \in Seq(Message),
         NEW a0, TakenFrom(ex, a0), NEW c0, TakenFrom(inc, c0), Short(ex, inc).len > 0
  PROVE  Full(Short(ex, inc), ex, inc)
<1>1. PICK N \in Nat : N = Len(ex)
  OBVIOUS
<1>2. PICK M \in Nat : M = Len(inc)
  OBVIOUS
<1>3. PICK a : a = Short(ex, inc)
  OBVIOUS
<1>4. Matches(a, ex, inc)
  BY <1>3, ShortMatches
<1>5. PICK e \in Nat \ {0}, i \in Nat \ {0}, n \in Nat \ {0} :
        /\ e = a.stored /\ i = a.incoming /\ n = a.len /\ e + n - 1 <= N /\ i + n - 1 <= M
        /\ \A k \in 0..(n - 1) : inc[i + k] = ex[e + k]
  BY <1>1, <1>2, <1>4 DEF Matches
<1>b. /\ e \in Nat \ {0} /\ i \in Nat \ {0} /\ n \in Nat \ {0} /\ N \in Nat /\ M \in Nat
      /\ e + n - 1 <= N /\ i + n - 1 <= M
  BY <1>1, <1>2, <1>5
<1>6. c0 + i = a0 + e
  <2>1. 0 \in 0..(n - 1) /\ i + 0 = i /\ e + 0 = e /\ e \in 1..N /\ i \in 1..M
    BY <1>b
  <2>2. inc[i] = ex[e]
    BY <1>5, <2>1
  <2> QED BY <1>1, <1>2, <2>1, <2>2, Diagonal
<1>7. a0 \in Nat /\ c0 \in Nat
  BY DEF TakenFrom
<1>8. ASSUME NEW x \in 1..(N - (n + 1) + 1), NEW y \in 1..(M - (n + 1) + 1), c0 + y = a0 + x
      PROVE  FALSE
  <2>1. PICK m \in Nat \ {0} : m = n + 1
    OBVIOUS
  <2>2. x \in 1..(Len(ex) - m + 1) /\ y \in 1..(Len(inc) - m + 1)
    BY <1>1, <1>2, <2>1
  <2>3. Window(ex, x, m) = Window(inc, y, m)
    BY <1>8, <2>2, DiagonalWindows
  <2>4. a.len >= m
    BY <1>3, <2>2, <2>3, ShortLongest
  <2> QED BY <1>5, <2>1, <2>4
<1>9. e = 1 \/ i = 1
  <2> SUFFICES ASSUME e # 1, i # 1 PROVE FALSE
    OBVIOUS
  <2>1. PICK x \in Nat \ {0}, y \in Nat \ {0} : x = e - 1 /\ y = i - 1
    BY <1>b
  <2>2. x + n <= N /\ y + n <= M
    BY <1>b, <2>1
  <2>3. x \in 1..(N - (n + 1) + 1) /\ y \in 1..(M - (n + 1) + 1)
    BY <1>b, <2>1, <2>2
  <2>4. c0 + y = a0 + x
    BY <1>b, <1>6, <1>7, <2>1
  <2> QED BY <1>8, <2>3, <2>4
<1>10. e + n - 1 = N \/ i + n - 1 = M
  <2> SUFFICES ASSUME e + n - 1 # N, i + n - 1 # M PROVE FALSE
    OBVIOUS
  <2>1. e + n - 1 < N /\ i + n - 1 < M
    BY <1>b
  <2>2. e \in 1..(N - (n + 1) + 1) /\ i \in 1..(M - (n + 1) + 1)
    BY <1>b, <2>1
  <2> QED BY <1>6, <1>8, <2>2
<1> QED BY <1>1, <1>2, <1>3, <1>5, <1>9, <1>10 DEF Full

LEMMA ByWindowFull ==
  ASSUME Distinct, NEW s, Ordered(s), NEW w \in WindowSizes, NEW anc, TrueAnchors(s, anc),
         NEW inc \in Seq(Message), NEW a0, TakenFrom(Hashes(s), a0), NEW c0, TakenFrom(inc, c0),
         ByWindow(w, s, anc, inc).len > 0
  PROVE  Full(ByWindow(w, s, anc, inc), Hashes(s), inc)
<1>0. w \in Nat \ {0}
  BY ReconcilerAssumption
<1>1. AnchorHits(w, s, anc, inc) # {}
  <2>1. ~ (NoAlignment.len > 0)
    BY DEF NoAlignment
  <2>2. AnchorHits(w, s, anc, inc) = {} => ByWindow(w, s, anc, inc) = NoAlignment
    BY Zenon DEF ByWindow
  <2> QED BY <2>1, <2>2
<1>2. PICK p : Best(p, w, s, anc, inc)
  BY <1>0, <1>1, BestHit
<1>3. PICK ex \in Seq(Message) : ex = Hashes(s) /\ Len(ex) = Len(s)
  BY HashesIs
<1>4. PICK N \in Nat : N = Len(ex) /\ DOMAIN ex = 1..N
  BY <1>3
<1>5. PICK M \in Nat : M = Len(inc) /\ DOMAIN inc = 1..M
  OBVIOUS
<1>6. /\ p[1] \in 1..(M - w + 1) /\ p[3] = Window(inc, p[1], w)
      /\ <<p[3], p[2]>> \in Built(w, s)
  BY <1>0, <1>2, <1>5, HitIs DEF Best, TrueAnchors
<1>7. PICK i \in 1..(M - w + 1), e \in 1..(N - w + 1) :
        i = p[1] /\ e = p[2] /\ Window(ex, e, w) = Window(inc, i, w)
  BY <1>3, <1>4, <1>6 DEF Built
<1>8. PICK x : x = Widen(e, i, w, ex, inc)
  OBVIOUS
<1>9. ByWindow(w, s, anc, inc) = Aligned(x.stored, x.incoming, x.len, inc)
  BY <1>2, <1>3, <1>7, <1>8 DEF Best
<1>10. e \in Nat \ {0} /\ i \in Nat \ {0} /\ e + w - 1 <= N /\ i + w - 1 <= M
  BY <1>0, <1>4, <1>5, <1>7, SMTT(60)
<1>11. c0 + i = a0 + e
  <2>1. Window(ex, e, w)[1] = ex[e + 1 - 1] /\ Window(inc, i, w)[1] = inc[i + 1 - 1]
    <3>1. 1 \in 1..w /\ e \in 1..(Len(ex) - w + 1) /\ i \in 1..(Len(inc) - w + 1) /\ w \in Nat
      BY <1>0, <1>4, <1>5, <1>7
    <3> QED BY <3>1, WindowIs
  <2>2. e + 1 - 1 = e /\ i + 1 - 1 = i /\ e \in 1..N /\ i \in 1..M
    BY <1>0, <1>10
  <2>3. ex[e] = inc[i]
    BY <1>7, <2>1, <2>2
  <2> QED BY <1>3, <1>4, <1>5, <2>2, <2>3, Diagonal
<1>12. /\ a0 \in Nat /\ \A k \in 1..N : ex[k] = History[a0 + k - 1]
       /\ c0 \in Nat /\ \A k \in 1..M : inc[k] = History[c0 + k - 1]
  BY <1>3, <1>4, <1>5 DEF TakenFrom
<1>13. ASSUME NEW k \in Int, e + k \in 1..N, i + k \in 1..M PROVE Equal(ex, inc, e, i, k)
  <2>1. a0 + (e + k) - 1 = c0 + (i + k) - 1
    BY <1>10, <1>11, <1>12
  <2>2. ex[e + k] = inc[i + k]
    BY <1>12, <1>13, <2>1
  <2> QED BY <1>4, <1>5, <1>13, <2>2 DEF Equal
<1>14. PICK left, right : Widens(x, left, right, ex, inc, e, i, w)
  BY <1>0, <1>8, <1>10, WidenIs
<1>15. /\ left \in 0..(i - 1) /\ right \in w..(w + M)
       /\ x.stored = e - left /\ x.incoming = i - left /\ x.len = left + right
       /\ \A k \in 1..left : Equal(ex, inc, e, i, -k)
       /\ \A k \in w..(right - 1) : Equal(ex, inc, e, i, k)
       /\ \A l \in 0..(i - 1) : (\A k \in 1..l : Equal(ex, inc, e, i, -k)) => l <= left
       /\ \A r \in w..(w + M) : (\A k \in w..(r - 1) : Equal(ex, inc, e, i, k)) => r <= right
  BY <1>5, <1>14 DEF Widens
<1>16. left \in Nat /\ left < i /\ right \in Nat /\ right >= w
  BY <1>0, <1>10, <1>15
<1>17. left < e
  <2>1. CASE left = 0
    BY <1>10, <2>1
  <2>2. CASE left # 0
    <3>1. left \in 1..left
      BY <1>16, <2>2
    <3>2. e + (-left) \in 1..N
      BY <1>4, <1>15, <3>1 DEF Equal
    <3> QED BY <1>10, <1>16, <3>2
  <2> QED BY <2>1, <2>2
<1>18. e - left = 1 \/ i - left = 1
  <2> SUFFICES ASSUME e - left # 1, i - left # 1 PROVE FALSE
    OBVIOUS
  <2>1. PICK l \in 0..(i - 1) : l = left + 1 /\ e - l >= 1 /\ i - l >= 1
    BY <1>10, <1>16, <1>17
  <2>2. \A k \in 1..l : -k \in Int /\ e + (-k) \in 1..N /\ i + (-k) \in 1..M
    BY <1>0, <1>10, <2>1
  <2>3. \A k \in 1..l : Equal(ex, inc, e, i, -k)
    BY <1>13, <2>2
  <2>4. l <= left
    BY <1>15, <2>3
  <2> QED BY <1>16, <2>1, <2>4
<1>19. e + right - 1 <= N /\ i + right - 1 <= M
  <2>1. CASE right = w
    BY <1>10, <2>1
  <2>2. CASE right # w
    <3>1. right - 1 \in w..(right - 1)
      BY <1>0, <1>16, <2>2
    <3>2. e + (right - 1) \in 1..N /\ i + (right - 1) \in 1..M
      BY <1>4, <1>5, <1>15, <3>1 DEF Equal
    <3> QED BY <1>10, <1>16, <3>2
  <2> QED BY <2>1, <2>2
<1>20. e + right - 1 = N \/ i + right - 1 = M
  <2> SUFFICES ASSUME e + right - 1 # N, i + right - 1 # M PROVE FALSE
    OBVIOUS
  <2>1. PICK r \in w..(w + M) : r = right + 1 /\ e + r - 1 <= N /\ i + r - 1 <= M
    BY <1>0, <1>10, <1>16, <1>19
  <2>2. \A k \in w..(r - 1) : k \in Int /\ e + k \in 1..N /\ i + k \in 1..M
    BY <1>0, <1>10, <2>1, SMTT(60)
  <2>3. \A k \in w..(r - 1) : Equal(ex, inc, e, i, k)
    BY <1>13, <2>2
  <2>4. r <= right
    BY <1>15, <2>3
  <2> QED BY <1>16, <2>1, <2>4
<1>21. PICK a : a = ByWindow(w, s, anc, inc)
  OBVIOUS
<1>22. a.stored = e - left /\ a.incoming = i - left /\ a.len = left + right
  BY <1>9, <1>15, <1>21 DEF Aligned
<1>23. (e - left) + (left + right) - 1 = e + right - 1 /\ (i - left) + (left + right) - 1 = i + right - 1
  BY <1>10, <1>16
<1>24. /\ a.stored = 1 \/ a.incoming = 1
       /\ a.stored + a.len - 1 = N \/ a.incoming + a.len - 1 = M
  BY <1>18, <1>20, <1>22, <1>23
<1> QED BY <1>3, <1>4, <1>5, <1>21, <1>24 DEF Full

\* What _find_alignment finds of such a payload is all they have in common.
LEMMA FindFull ==
  ASSUME Distinct, NEW s, Ordered(s), NEW anc, TrueAnchors(s, anc), NEW inc \in Seq(Message),
         NEW a0, TakenFrom(Hashes(s), a0), NEW c0, TakenFrom(inc, c0), NEW allowShort \in BOOLEAN,
         NEW a, a = _find_alignment(s, anc, inc, allowShort), a.len > 0
  PROVE  Full(a, Hashes(s), inc)
<1>1. PICK M \in Nat : M = Len(inc)
  OBVIOUS
<1>2. PICK ex \in Seq(Message) : ex = Hashes(s)
  BY HashesIs
<1> DEFINE short == IF allowShort /\ Min({Len(ex), Len(inc)}) < 3
                    THEN Short(ex, inc) ELSE NoAlignment
           hit == {w \in WindowSizes : ByWindow(w, s, anc, inc).len > 0}
<1>3. a = IF ex = <<>> \/ inc = <<>> THEN NoAlignment
          ELSE IF Whole(ex, inc).len > 0 THEN Whole(ex, inc)
          ELSE IF short.len > 0 THEN short
          ELSE IF hit = {} THEN NoAlignment
          ELSE ByWindow(Max(hit), s, anc, inc)
  BY <1>2 DEF _find_alignment
<1>4. ~ (NoAlignment.len > 0)
  BY DEF NoAlignment
<1>5. \A w \in hit : w \in WindowSizes /\ w \in Nat /\ w <= M /\ ByWindow(w, s, anc, inc).len > 0
  <2> TAKE w \in hit
  <2>1. w \in WindowSizes /\ ByWindow(w, s, anc, inc).len > 0 /\ w \in Nat \ {0}
    BY ReconcilerAssumption
  <2> QED BY <1>1, <2>1, ByWindowBegins
<1>6. hit # {} => Max(hit) \in hit
  <2>1. hit \in SUBSET Nat /\ \A w \in hit : w <= M
    BY <1>5
  <2> HIDE DEF hit
  <2> QED BY <1>1, <2>1, GreatestIs
<1>7. short.len > 0 => short = Short(ex, inc)
  BY <1>4
<1> HIDE DEF short, hit
<1>8. CASE Whole(ex, inc).len > 0
  <2>1. a = Whole(ex, inc)
    BY <1>3, <1>4, <1>8
  <2> QED BY <1>2, <1>8, <2>1, WholeFull
<1>9. CASE ~ (Whole(ex, inc).len > 0)
  <2>1. CASE short.len > 0
    <3>1. a = Short(ex, inc) /\ Short(ex, inc).len > 0
      BY <1>3, <1>4, <1>7, <1>9, <2>1
    <3>2. Full(Short(ex, inc), ex, inc)
      BY <1>2, <3>1, ShortFull
    <3> QED BY <1>2, <3>1, <3>2
  <2>2. CASE ~ (short.len > 0)
    <3>1. hit # {} /\ a = ByWindow(Max(hit), s, anc, inc)
      BY <1>3, <1>4, <1>9, <2>2
    <3>2. PICK w \in WindowSizes : w = Max(hit) /\ ByWindow(w, s, anc, inc).len > 0
      BY <1>5, <1>6, <3>1
    <3>3. Full(ByWindow(w, s, anc, inc), Hashes(s), inc)
      BY <3>2, ByWindowFull
    <3> QED BY <3>1, <3>2, <3>3
  <2> QED BY <2>1, <2>2
<1> QED BY <1>8, <1>9

\* Where two windows of the history share three messages, they share a window.
LEMMA SharedWindow ==
  ASSUME Distinct, NEW s, Ordered(s), NEW inc \in Seq(Message),
         NEW a0, TakenFrom(Hashes(s), a0), NEW c0, TakenFrom(inc, c0),
         NEW k \in {1, 3}, Meets(k, inc, s)
  PROVE  \E e \in 1..(Len(s) - k + 1), i \in 1..(Len(inc) - k + 1) : c0 + i = a0 + e
<1>1. PICK ex \in Seq(Message), N \in Nat :
        ex = Hashes(s) /\ N = Len(s) /\ N = Len(ex) /\ DOMAIN s = 1..N /\ \A i \in 1..N : ex[i] = s[i].hash
  <2>1. PICK N \in Nat : N = Len(s) /\ DOMAIN s = 1..N
    BY OrderedIs
  <2> QED BY <2>1, HashesIs
<1>2. PICK M \in Nat : M = Len(inc) /\ DOMAIN inc = 1..M
  OBVIOUS
<1>3. /\ a0 \in Nat \ {0} /\ \A i \in 1..N : ex[i] = History[a0 + i - 1]
      /\ c0 \in Nat \ {0} /\ \A i \in 1..M : inc[i] = History[c0 + i - 1]
  BY <1>1, <1>2 DEF TakenFrom
<1>4. PICK S : S = {inc[i] : i \in DOMAIN inc} \cap {s[i].hash : i \in DOMAIN s}
  OBVIOUS
<1>5. (k = 1 /\ Cardinality(S) # 0) \/ (k = 3 /\ Cardinality(S) >= 3)
  BY <1>4 DEF Meets, Shared
<1>6. PICK lo \in Nat \ {0} : lo = IF a0 >= c0 THEN a0 ELSE c0
  BY <1>3
<1>7. PICK hi \in Nat : hi = IF a0 + N <= c0 + M THEN a0 + N ELSE c0 + M
  BY <1>3
<1>8. \A m \in S : \E j \in lo..(hi - 1) : m = History[j]
  <2> TAKE m \in S
  <2>1. PICK i \in 1..M, e \in 1..N : m = inc[i] /\ m = ex[e]
    BY <1>1, <1>2, <1>4
  <2>2. c0 + i = a0 + e
    <3>1. e \in 1..Len(ex) /\ i \in 1..Len(inc) /\ ex[e] = inc[i]
      BY <1>1, <1>2, <2>1
    <3> QED BY <1>1, <3>1, Diagonal
  <2>3. PICK j \in Nat : j = a0 + e - 1 /\ j = c0 + i - 1
    BY <1>3, <2>2
  <2>4. j \in lo..(hi - 1)
    BY <1>3, <1>6, <1>7, <2>1, <2>3
  <2> QED BY <1>3, <2>1, <2>3, <2>4
<1>9. lo + k <= hi
  <2> SUFFICES ASSUME hi < lo + k PROVE FALSE
    BY SMTT(60)
  <2>1. CASE k = 1
    <3>1. lo..(hi - 1) = {}
      BY <2>1, SMTT(60)
    <3>2. S = {}
      BY <1>8, <3>1
    <3>3. Cardinality(S) = 0
      BY <3>2, FS_EmptySet
    <3> QED BY <1>5, <2>1, <3>3
  <2>2. CASE k = 3
    <3>1. \A j \in lo..(hi - 1) : j = lo \/ j = lo + 1
      <4>1. hi < lo + 3
        BY <2>2
      <4>2. lo \in Nat /\ hi \in Nat
        BY <1>6, <1>7
      <4> QED BY <4>1, <4>2
    <3>2. PICK T : T = {History[lo], History[lo + 1]}
      OBVIOUS
    <3>3. S \subseteq T
      BY <1>8, <3>1, <3>2
    <3>4. IsFiniteSet(T) /\ Cardinality(T) <= 2
      <4>1. PICK x, y : T = {x, y}
        BY <3>2
      <4>2. CASE x = y
        <5>1. T = {x}
          BY <4>1, <4>2
        <5>2. IsFiniteSet({x}) /\ Cardinality({x}) = 1
          BY FS_Singleton
        <5>3. IsFiniteSet(T) /\ Cardinality(T) = 1
          BY <5>1, <5>2
        <5> QED BY <5>3
      <4>3. CASE x # y
        <5>1. PICK U : U = {x}
          OBVIOUS
        <5>2. IsFiniteSet(U) /\ Cardinality(U) = 1
          BY <5>1, FS_Singleton
        <5>3. y \notin U /\ T = U \cup {y}
          BY <4>1, <4>3, <5>1
        <5>4. IsFiniteSet(U \cup {y}) /\ Cardinality(U \cup {y}) = Cardinality(U) + 1
          BY <5>2, <5>3, FS_AddElement
        <5>5. IsFiniteSet(T) /\ Cardinality(T) = 1 + 1
          BY <5>2, <5>3, <5>4
        <5> QED BY <5>5
      <4> QED BY <4>2, <4>3
    <3>5. IsFiniteSet(S) /\ Cardinality(S) <= Cardinality(T)
      BY <3>3, <3>4, FS_Subset
    <3>6. Cardinality(S) \in Nat /\ Cardinality(T) \in Nat
      BY <3>4, <3>5, FS_CardinalityType
    <3> QED BY <1>5, <2>2, <3>4, <3>5, <3>6
  <2> QED BY <2>1, <2>2
<1>10. PICK e \in 1..(N - k + 1) : e = lo - a0 + 1
  BY <1>3, <1>6, <1>7, <1>9
<1>11. PICK i \in 1..(M - k + 1) : i = lo - c0 + 1
  BY <1>3, <1>6, <1>7, <1>9
<1>12. c0 + i = a0 + e
  <2>1. a0 \in Int /\ c0 \in Int /\ lo \in Int
    BY <1>3, <1>6
  <2> QED BY <1>10, <1>11, <2>1
<1> QED BY <1>1, <1>2, <1>10, <1>11, <1>12

\* What InOrderBatch asks of a payload makes _find_alignment find it.
LEMMA FindSome ==
  ASSUME 3 \in WindowSizes, Distinct, NEW s, Ordered(s), s # <<>>, NEW anc, TrueAnchors(s, anc),
         NEW inc \in Seq(Message), inc # <<>>,
         NEW a0, TakenFrom(Hashes(s), a0), NEW c0, TakenFrom(inc, c0),
         Shared(inc, s) >= Min({Min(WindowSizes), Len(inc), Len(s)}),
         NEW a, a = _find_alignment(s, anc, inc, TRUE)
  PROVE  a.len > 0
<1>1. PICK ex \in Seq(Message), N \in Nat \ {0} : ex = Hashes(s) /\ N = Len(s) /\ N = Len(ex) /\ ex # <<>>
  <2>1. PICK N \in Nat \ {0} : N = Len(s)
    BY OrderedIs
  <2>2. PICK ex \in Seq(Message) : ex = Hashes(s) /\ N = Len(ex)
    BY <2>1, HashesIs
  <2>3. ex # <<>>
    BY <2>1, <2>2
  <2> QED BY <2>1, <2>2, <2>3
<1>2. PICK M \in Nat \ {0} : M = Len(inc)
  OBVIOUS
<1>3. Min(WindowSizes) = 3
  <2>1. WindowSizes \in SUBSET Nat /\ \A w \in WindowSizes : w >= 3
    BY ReconcilerAssumption
  <2>2. Min(WindowSizes) \in WindowSizes /\ Min(WindowSizes) <= 3
    BY <2>1, LeastIs
  <2>3. PICK w \in Nat : w = Min(WindowSizes) /\ w >= 3 /\ w <= 3
    BY <2>1, <2>2
  <2> QED BY <2>3
<1>4. PICK b \in Nat : b = Min({3, M, N}) /\ b \in {3, M, N} /\ b <= 3 /\ b <= M /\ b <= N /\ Shared(inc, s) >= b
  <2>1. Min({3, M, N}) \in {3, M, N} /\ \A y \in {3, M, N} : Min({3, M, N}) <= y
    <3>1. {3, M, N} \in SUBSET Nat /\ {3, M, N} # {}
      BY <1>1, <1>2
    <3> QED BY <3>1, LeastIs
  <2>2. PICK b : b = Min({3, M, N})
    OBVIOUS
  <2>3. Shared(inc, s) >= b
    BY <1>1, <1>2, <1>3, <2>2
  <2> QED BY <1>1, <1>2, <2>1, <2>2, <2>3
<1> DEFINE short == IF TRUE /\ Min({Len(ex), Len(inc)}) < 3
                    THEN Short(ex, inc) ELSE NoAlignment
           hit == {w \in WindowSizes : ByWindow(w, s, anc, inc).len > 0}
<1>5. a = IF ex = <<>> \/ inc = <<>> THEN NoAlignment
          ELSE IF Whole(ex, inc).len > 0 THEN Whole(ex, inc)
          ELSE IF short.len > 0 THEN short
          ELSE IF hit = {} THEN NoAlignment
          ELSE ByWindow(Max(hit), s, anc, inc)
  BY <1>1 DEF _find_alignment
<1>6. PICK g \in Nat : g = Min({Len(ex), Len(inc)}) /\ g \in {N, M} /\ g <= N /\ g <= M
  <2>1. Min({N, M}) \in {N, M} /\ \A y \in {N, M} : Min({N, M}) <= y
    BY LeastIs
  <2>2. PICK g : g = Min({N, M})
    OBVIOUS
  <2> QED BY <1>1, <1>2, <2>1, <2>2
<1>7. short = IF g < 3 THEN Short(ex, inc) ELSE NoAlignment
  BY <1>6
<1>8. g < 3 => short.len > 0
  <2> SUFFICES ASSUME g < 3 PROVE Short(ex, inc).len > 0
    BY <1>7
  <2>1. PICK k \in {1, 3} : k = 1
    OBVIOUS
  <2>2. Shared(inc, s) # 0
    <3>1. b >= 1
      BY <1>1, <1>2, <1>4
    <3>2. ~ (0 >= b)
      BY <3>1
    <3> QED BY <1>4, <3>1, <3>2
  <2>8. Meets(k, inc, s)
    BY <2>1, <2>2 DEF Meets
  <2>3. PICK e \in 1..(Len(s) - k + 1), i \in 1..(Len(inc) - k + 1) : c0 + i = a0 + e
    BY <2>8, SharedWindow, SMTT(60)
  <2>4. k \in Nat \ {0} /\ e \in 1..(Len(ex) - k + 1) /\ TakenFrom(ex, a0)
    BY <1>1, <2>1
  <2>5. Window(ex, e, k) = Window(inc, i, k)
    BY <2>3, <2>4, DiagonalWindows, SMTT(60)
  <2>6. Short(ex, inc).len \in Nat /\ Short(ex, inc).len >= k
    BY <2>3, <2>4, <2>5, ShortLongest
  <2> QED BY <2>1, <2>6
<1>9. ~ (g < 3) => 3 \in hit
  <2> SUFFICES ASSUME ~ (g < 3) PROVE ByWindow(3, s, anc, inc).len > 0
    OBVIOUS
  <2>1. PICK k \in {1, 3} : k = 3 /\ k \in WindowSizes /\ k \in Nat
    OBVIOUS
  <2>2. Shared(inc, s) >= 3
    <3>1. b = 3
      BY <1>1, <1>2, <1>4, <1>6
    <3> QED BY <1>4, <3>1
  <2>8. Meets(k, inc, s)
    BY <2>1, <2>2 DEF Meets
  <2>3. PICK e \in 1..(Len(s) - k + 1), i \in 1..(Len(inc) - k + 1) : c0 + i = a0 + e
    BY <2>8, SharedWindow, SMTT(60)
  <2>4. k \in Nat /\ e \in 1..(Len(ex) - k + 1) /\ TakenFrom(ex, a0)
    BY <1>1, <2>1
  <2>5. Window(ex, e, k) = Window(inc, i, k)
    BY <2>3, <2>4, DiagonalWindows, SMTT(60)
  <2>6. PICK x, y : x = ByWindow(k, s, anc, inc).len /\ y = Widen(e, i, k, Hashes(s), inc).len
    OBVIOUS
  <2>7. x \in Int /\ y \in Int /\ y >= k /\ x >= y
    BY <1>1, <2>1, <2>3, <2>5, <2>6, ByWindowSees
  <2> QED BY <2>1, <2>6, <2>7
<1>10. \A w \in hit : w \in WindowSizes /\ w \in Nat /\ w <= M /\ ByWindow(w, s, anc, inc).len > 0
  <2> TAKE w \in hit
  <2>1. w \in WindowSizes /\ ByWindow(w, s, anc, inc).len > 0 /\ w \in Nat \ {0}
    BY ReconcilerAssumption
  <2> QED BY <1>2, <2>1, ByWindowBegins
<1>11. hit # {} => Max(hit) \in hit
  <2>1. hit \in SUBSET Nat /\ \A w \in hit : w <= M
    BY <1>10
  <2> HIDE DEF hit
  <2> QED BY <1>2, <2>1, GreatestIs
<1> HIDE DEF short, hit
<1>12. CASE Whole(ex, inc).len > 0
  BY <1>1, <1>5, <1>12
<1>13. CASE ~ (Whole(ex, inc).len > 0)
  <2>1. CASE short.len > 0
    BY <1>1, <1>5, <1>13, <2>1
  <2>2. CASE ~ (short.len > 0)
    <3>1. hit # {}
      BY <1>8, <1>9, <2>2
    <3>2. a = ByWindow(Max(hit), s, anc, inc)
      BY <1>1, <1>5, <1>13, <2>2, <3>1
    <3> QED BY <1>10, <1>11, <3>1, <3>2
  <2> QED BY <2>1, <2>2
<1> QED BY <1>12, <1>13

LEMMA SameTaken ==
  ASSUME NEW s, Ordered(s), NEW t, Ordered(t), Len(t) = Len(s),
         \A i \in 1..Len(s) : t[i].hash = s[i].hash, NEW a, TakenFrom(Hashes(s), a)
  PROVE  TakenFrom(Hashes(t), a)
<1>1. PICK N \in Nat : N = Len(s) /\ N = Len(t)
  BY OrderedIs
<1>2. PICK x, y : x = Hashes(s) /\ y = Hashes(t)
  OBVIOUS
<1>3. /\ Len(x) = N /\ \A i \in 1..N : x[i] = s[i].hash
      /\ Len(y) = N /\ \A i \in 1..N : y[i] = t[i].hash
  BY <1>1, <1>2, HashesIs
<1>4. TakenFrom(x, a)
  BY <1>2
<1>5. TakenFrom(y, a)
  BY <1>1, <1>3, <1>4 DEF TakenFrom
<1> QED BY <1>2, <1>5

\* The rows s, if there are any, are a window of the history; then it is theirs.
LEMMA ToldTaken ==
  ASSUME Distinct, NEW s, Ordered(s), Told(Content(s))
  PROVE  \E a : TakenFrom(Hashes(s), a) /\ TellsOf(Content(s), a, a + Len(s) - 1)
<1>1. PICK a, b : TellsOf(Content(s), a, b)
  BY DEF Told
<1>2. TakenFrom(Hashes(s), a)
  BY <1>1, TellsTaken
<1> QED BY <1>2, TakenTells

\* Messages that come next in the history go behind the rows.
LEMMA AppendTold ==
  ASSUME NEW s, Ordered(s), NEW a, NEW b, TellsOf(Content(s), a, b),
         NEW m \in Nat, NEW keys, Rising(keys, m), NEW x \in Int, s # <<>> => x = s[Len(s)].key,
         \A k \in 1..m : x < keys[k], NEW msgs,
         \A k \in 1..m : msgs[k] = History[b + k], b + m <= Len(History)
  PROVE  Told(Content(s) \cup NewContent(keys, msgs, m))
<1>1. PICK N \in Nat : N = Len(s) /\ (N = 0 <=> s = <<>>) /\ DOMAIN s = 1..N /\ \A i \in 1..N : s[i].key \in Int
  BY OrderedIs
<1>2. ASSUME NEW c \in Content(s), NEW k \in 1..m PROVE c[1] < keys[k]
  <2>1. PICK i \in 1..N : c = <<s[i].key, s[i].hash>>
    BY <1>1 DEF Content
  <2>2. PICK y \in Int : y = s[i].key /\ y = c[1]
    BY <1>1, <2>1
  <2>3. N \in 1..N /\ s # <<>> /\ x = s[N].key
    BY <1>1
  <2>4. i # N => y < x
    <3>1. i # N => i < N
      BY <1>1
    <3> QED BY <1>1, <2>2, <2>3, <3>1 DEF Ordered
  <2>5. i = N => y = x
    BY <2>2, <2>3
  <2>6. x < keys[k] /\ keys[k] \in Int
    BY DEF Rising
  <2> QED BY <2>2, <2>4, <2>5, <2>6
<1>3. TellsOf(Content(s) \cup NewContent(keys, msgs, m), a, b + m)
  BY <1>2, TellsRight
<1> QED BY <1>3 DEF Told

LEMMA NoRowsTell ==
  ASSUME NEW s, Ordered(s), s = <<>>, NEW c \in Nat \ {0}, c - 1 <= Len(History)
  PROVE  TellsOf(Content(s), c, c - 1)
<1>1. Content(s) = {}
  BY DEF Content
<1>2. PICK b \in Nat : b = c - 1
  OBVIOUS
<1>3. c..b = {} /\ c <= b + 1
  BY <1>2
<1>4. Tells(Content(s), c, b, [j \in {} |-> 0])
  BY <1>1, <1>3 DEF Tells
<1>5. b <= Len(History)
  BY <1>2
<1>6. TellsOf(Content(s), c, b)
  BY <1>3, <1>4, <1>5 DEF TellsOf
<1> QED BY <1>2, <1>6

\* An alignment that leaves nothing out makes one window of the two.
LEMMA MergedTold ==
  ASSUME Distinct, NEW s, Ordered(s), NEW inc \in Seq(Message), NEW a,
         Matches(a, Hashes(s), inc), Full(a, Hashes(s), inc),
         NEW a0, TakenFrom(Hashes(s), a0), NEW c0, TakenFrom(inc, c0), NEW D, Merged(D, s, inc, a)
  PROVE  Told(D)
<1>1. PICK ex \in Seq(Message), N \in Nat : ex = Hashes(s) /\ Len(ex) = N /\ Len(s) = N
  <2>1. PICK N \in Nat : N = Len(s)
    BY OrderedIs
  <2> QED BY <2>1, HashesIs
<1>2. PICK M \in Nat : M = Len(inc)
  OBVIOUS
<1>3. /\ a.stored \in Nat \ {0} /\ a.incoming \in Nat \ {0} /\ a.len \in Nat \ {0}
      /\ a.stored + a.len - 1 <= N /\ a.incoming + a.len - 1 <= M
      /\ \A k \in 0..(a.len - 1) : inc[a.incoming + k] = ex[a.stored + k]
  BY <1>1, <1>2 DEF Matches
<1>4. PICK e \in Nat \ {0}, i \in Nat \ {0}, w \in Nat \ {0} :
        /\ e = a.stored /\ i = a.incoming /\ w = a.len
        /\ e + w - 1 <= N /\ i + w - 1 <= M /\ inc[i] = ex[e]
  <2>1. PICK e \in Nat \ {0}, i \in Nat \ {0}, w \in Nat \ {0} : e = a.stored /\ i = a.incoming /\ w = a.len
    BY <1>3
  <2>2. 0 \in 0..(w - 1) /\ i + 0 = i /\ e + 0 = e
    BY <2>1
  <2> QED BY <1>3, <2>1, <2>2
<1>5. c0 + i = a0 + e
  <2>1. e \in 1..Len(ex) /\ i \in 1..Len(inc)
    <3>1. e + w - 1 <= N /\ i + w - 1 <= M
      BY <1>4
    <3>2. e <= N /\ i <= M
      BY <3>1
    <3> QED BY <1>1, <1>2, <3>2
  <2> QED BY <1>1, <1>4, <2>1, Diagonal, SMTT(60)
<1>6. (e = 1 \/ i = 1) /\ (e + w - 1 = N \/ i + w - 1 = M)
  BY <1>1, <1>2, <1>4 DEF Full
<1>7. PICK t, pk, sk, pre, suf : \E l, r, n, m, d \in Nat :
        /\ Ordered(t) /\ Len(t) = Len(s) /\ \A j \in 1..Len(s) : t[j].hash = s[j].hash
        /\ l = a.stored - 1 /\ r = a.stored + a.len - 1 /\ n = a.incoming - 1
        /\ m = Len(inc) - (a.incoming + a.len) + 1
        /\ Suits(t, l, r, pk, n, m, d, sk, inc, pre, suf)
        /\ D = After(Content(t) \cup NewContent(pk, pre, n), t, r, d, sk, suf, m)
  BY DEF Merged
<1>8. PICK l \in Nat, r \in Nat, n \in Nat, m \in Nat, d \in Nat :
        /\ Ordered(t) /\ Len(t) = Len(s) /\ \A j \in 1..Len(s) : t[j].hash = s[j].hash
        /\ l = a.stored - 1 /\ r = a.stored + a.len - 1 /\ n = a.incoming - 1
        /\ m = Len(inc) - (a.incoming + a.len) + 1
        /\ Suits(t, l, r, pk, n, m, d, sk, inc, pre, suf)
        /\ D = After(Content(t) \cup NewContent(pk, pre, n), t, r, d, sk, suf, m)
  BY <1>7
<1>9. l = e - 1 /\ r = e + w - 1 /\ n = i - 1 /\ m = M - (i + w) + 1
  BY <1>2, <1>4, <1>8
<1>10. TakenFrom(Hashes(t), a0)
  BY <1>8, SameTaken
<1>11. a0 \in Nat /\ c0 \in Nat
  BY DEF TakenFrom
<1>b. /\ e \in Nat \ {0} /\ i \in Nat \ {0} /\ w \in Nat \ {0} /\ N \in Nat /\ M \in Nat
      /\ l \in Nat /\ r \in Nat /\ n \in Nat /\ m \in Nat
  BY <1>1, <1>2, <1>4, <1>8
<1>12. l < r /\ c0 + n = a0 + l
  <2>1. l < r
    BY <1>9, <1>b
  <2>2. c0 + n = a0 + l
    BY <1>5, <1>9, <1>11, <1>b
  <2> QED BY <2>1, <2>2
<1>13. n = 0 \/ l = 0
  BY <1>6, <1>9, <1>b
<1>14. m = 0 \/ r = N
  BY <1>6, <1>9, <1>b
<1>15. m = 0 \/ r = Len(t)
  BY <1>1, <1>8, <1>14
<1>16. Ordered(t) /\ Suits(t, l, r, pk, n, m, d, sk, inc, pre, suf)
  BY <1>8
<1>18. OneWindow(t, l, r, n, m, inc)
  BY <1>10, <1>12, <1>13, <1>15 DEF OneWindow
<1>17. Told(After(Content(t) \cup NewContent(pk, pre, n), t, r, d, sk, suf, m))
  BY <1>16, <1>18, MergeTold
<1> QED BY <1>8, <1>17

\* New messages behind the rows, as a plan.
LEMMA BehindTells ==
  ASSUME NEW s, Ordered(s), NEW a, NEW b, TellsOf(Content(s), a, b),
         NEW inc \in Seq(Message), \A k \in 1..Len(inc) : inc[k] = History[b + k],
         b + Len(inc) <= Len(History), NEW x \in Int, s # <<>> => x = s[Len(s)].key,
         NEW actor \in Actor \cup {NoActor}, NEW bt \in Nat, NEW from \in Nat
  PROVE  WillTell(s, WriteOps(inc, KeysAbove(x, Len(inc)), actor, bt, from))
<1>1. PICK m \in Nat : m = Len(inc)
  OBVIOUS
<1>2. PICK keys : keys = KeysAbove(x, m)
  OBVIOUS
<1>3. Rising(keys, m) /\ \A k \in 1..m : x < keys[k]
  BY <1>2, AboveRises
<1>4. Gives(Content(s), WriteOps(inc, keys, actor, bt, from), Content(s) \cup NewContent(keys, inc, m))
  BY <1>1, <1>3, GivesWrites
<1>5. Told(Content(s) \cup NewContent(keys, inc, m))
  BY <1>1, <1>3, AppendTold
<1> QED BY <1>1, <1>2, <1>4, <1>5 DEF WillTell

LEMMA AppendTells ==
  ASSUME Distinct, NEW s, Ordered(s), Told(Content(s)), NEW inc \in Seq(Message),
         NEW c0, inc # <<>> => TakenFrom(inc, c0), Follow(s, inc, c0),
         NEW actor \in Actor \cup {NoActor}, NEW bt \in Nat, NEW from \in Nat
  PROVE  WillTell(s, AppendOps(s, inc, actor, bt, from))
<1>1. PICK N \in Nat : N = Len(s) /\ (N = 0 <=> s = <<>>)
  BY OrderedIs
<1>2. PICK x \in Int : x = IF s = <<>> THEN 0 ELSE s[N].key
  BY <1>1, LastIsGreatest
<1>3. PICK M \in Nat : M = Len(inc) /\ (M = 0 <=> inc = <<>>)
  OBVIOUS
<1>4. AppendOps(s, inc, actor, bt, from) = WriteOps(inc, KeysAbove(x, M), actor, bt, from)
  BY <1>1, <1>2, <1>3 DEF AppendOps
<1>5. Len(History) \in Nat
  BY ReconcilerAssumption
<1>6. inc # <<>> => /\ c0 \in Nat \ {0} /\ c0 + M - 1 <= Len(History)
                    /\ \A k \in 1..M : inc[k] = History[c0 + k - 1]
  BY <1>3 DEF TakenFrom
<1>7. \E a, b : /\ TellsOf(Content(s), a, b) /\ b \in Nat /\ b + M <= Len(History)
                /\ \A k \in 1..M : inc[k] = History[b + k]
  <2>1. CASE inc = <<>>
    <3>1. PICK a, b : TellsOf(Content(s), a, b)
      BY DEF Told
    <3>2. b \in Nat /\ b <= Len(History)
      BY <3>1 DEF TellsOf
    <3> QED BY <1>3, <2>1, <3>1, <3>2
  <2>2. CASE inc # <<>> /\ s = <<>>
    <3>1. PICK b \in Nat : b = c0 - 1
      BY <1>6, <2>2
    <3>2. c0 - 1 <= Len(History) /\ b + M <= Len(History)
      BY <1>3, <1>5, <1>6, <2>2, <3>1
    <3>3. TellsOf(Content(s), c0, b)
      BY <1>6, <2>2, <3>1, <3>2, NoRowsTell
    <3>4. \A k \in 1..M : c0 + k - 1 = b + k
      BY <1>6, <2>2, <3>1
    <3> QED BY <1>6, <2>2, <3>2, <3>3, <3>4
  <2>3. CASE inc # <<>> /\ s # <<>>
    <3>1. PICK a0 : TakenFrom(Hashes(s), a0) /\ c0 = a0 + N
      BY <1>1, <2>3 DEF Follow
    <3>2. TellsOf(Content(s), a0, a0 + N - 1)
      BY <1>1, <3>1, TakenTells
    <3>3. PICK b \in Nat : b = a0 + N - 1 /\ b = c0 - 1
      BY <3>1, <3>2 DEF TellsOf, TakenFrom
    <3>4. \A k \in 1..M : c0 + k - 1 = b + k
      BY <1>6, <2>3, <3>3
    <3>5. b + M <= Len(History)
      BY <1>3, <1>5, <1>6, <2>3, <3>3
    <3>6. \A k \in 1..M : inc[k] = History[b + k]
      BY <1>6, <2>3, <3>4
    <3>7. TellsOf(Content(s), a0, b)
      BY <3>2, <3>3
    <3> QED BY <3>5, <3>6, <3>7
  <2> QED BY <2>1, <2>2, <2>3
<1>8. PICK a, b : /\ TellsOf(Content(s), a, b) /\ b \in Nat /\ b + M <= Len(History)
                  /\ \A k \in 1..M : inc[k] = History[b + k]
  BY <1>7
<1>9. s # <<>> => x = s[Len(s)].key
  BY <1>1, <1>2
<1>10. WillTell(s, WriteOps(inc, KeysAbove(x, Len(inc)), actor, bt, from))
  BY <1>3, <1>8, <1>9, BehindTells
<1> QED BY <1>3, <1>4, <1>10

LEMMA NothingTells ==
  ASSUME NEW s, Told(Content(s))
  PROVE  WillTell(s, <<>>)
BY GivesNone DEF WillTell

LEMMA PreparedTells ==
  ASSUME Distinct, NEW s, Ordered(s), Told(Content(s)), NEW inc \in Seq(Message),
         NEW actor \in Actor \cup {NoActor}, NEW b \in Nat, NEW life \in Nat, NEW from \in Nat,
         NEW allowShort \in BOOLEAN, TrueAnchors(s, anchors),
         NEW a, a = _find_alignment(s, anchors, inc, allowShort),
         NEW c0, inc # <<>> => TakenFrom(inc, c0), a.len > 0 \/ Follow(s, inc, c0)
  PROVE  WillTell(s, PreparedOps(s, inc, actor, b, life, from, allowShort))
<1>1. PreparedOps(s, inc, actor, b, life, from, allowShort)
        = IF a.len > 0 THEN MergeOps(s, a, inc, actor, b, life, from)
          ELSE IF Fragment(s, inc) THEN <<>> ELSE AppendOps(s, inc, actor, b, from)
  BY DEF PreparedOps
<1>2. CASE a.len > 0
  <2>1. s # <<>> /\ Matches(a, Hashes(s), inc)
    BY <1>2, FindMatches
  <2>2. inc # <<>>
    <3>1. PICK h \in Nat : h = Len(inc)
      OBVIOUS
    <3>2. a.incoming \in Nat \ {0} /\ a.len \in Nat \ {0} /\ a.incoming + a.len - 1 <= h
      BY <2>1, <3>1 DEF Matches
    <3>3. h # 0
      BY <3>2
    <3> QED BY <3>1, <3>3
  <2>3. TakenFrom(inc, c0)
    BY <2>2
  <2>4. PICK a0 : TakenFrom(Hashes(s), a0)
    BY ToldTaken
  <2>5. Full(a, Hashes(s), inc)
    BY <1>2, <2>3, <2>4, FindFull
  <2>6. PICK D : /\ Gives(Content(s), MergeOps(s, a, inc, actor, b, life, from), D)
                 /\ Merged(D, s, inc, a)
    BY <2>1, GivesMerge
  <2>7. Told(D)
    BY <2>1, <2>3, <2>4, <2>5, <2>6, MergedTold
  <2> QED BY <1>1, <1>2, <2>6, <2>7 DEF WillTell
<1>3. CASE ~ (a.len > 0) /\ Fragment(s, inc)
  BY <1>1, <1>3, NothingTells
<1>4. CASE ~ (a.len > 0) /\ ~Fragment(s, inc)
  <2>1. WillTell(s, AppendOps(s, inc, actor, b, from))
    BY <1>4, AppendTells
  <2> QED BY <1>1, <1>4, <2>1
<1> QED BY <1>2, <1>3, <1>4

LEMMA BeginTells ==
  ASSUME Transactional, pc = "idle", HostInv, NEW kind, NEW p, NEW s,
         NEW ops, NEW next, Begin(kind, p, s, ops, next), next \in {"write", "check"},
         inOrder' => /\ inOrder /\ (next = "write" => WillTell(s, ops))
                     /\ (next = "check" => Told(Content(s)))
  PROVE  HostInv'
<1>2. /\ rows' = s /\ pc' = next
      /\ job' = [kind |-> kind, payload |-> p, batch |-> batches + 1, life |-> epoch,
             todo |-> ops, wrote |-> \E k \in DOMAIN ops : ops[k].op = "write",
             undo |-> IF Transactional THEN <<rows, anchors>> ELSE <<>>]
  BY DEF Begin
<1>3. job'.todo = ops /\ job'.undo[1] = rows
  BY <1>2
<1>4. inOrder => Told(Content(rows))
  BY DEF HostInv
<1> QED BY <1>2, <1>3, <1>4 DEF HostInv

LEMMA TellsNext ==
  ASSUME NEW ops, NEW s, WillTell(s, ops)
  PROVE  /\ Writes(ops) = "write" => WillTell(s, ops)
         /\ Writes(ops) = "check" => Told(Content(s))
<1>1. CASE ops = <<>>
  <2>1. PICK D : Gives(Content(s), ops, D) /\ Told(D)
    BY DEF WillTell
  <2>2. D = Content(s)
    BY <1>1, <2>1, GivesNothing
  <2> QED BY <2>1, <2>2
<1>2. CASE ops # <<>>
  BY <1>2 DEF Writes
<1> QED BY <1>1, <1>2

LEMMA LoadedTold ==
  ASSUME KeyInv, HostInv, pc = "idle", inOrder, NEW s, s = Loaded(rows)
  PROVE  Told(Content(s))
<1>1. Ordered(rows) /\ Told(Content(rows))
  BY DEF KeyInv, Shape, HostInv
<1>2. Content(s) = Content(rows)
  BY <1>1, LoadedIs, SameContent
<1> QED BY <1>1, <1>2

LEMMA BatchTells ==
  ASSUME Transactional, 3 \in WindowSizes, Distinct, KeyInv, KeepInv, StoreInv, HostInv,
         NEW p \in Payload, NEW actor \in Actor \cup {NoActor}, ingest_batch(p, actor)
  PROVE  HostInv'
<1> DEFINE s == Loaded(rows)
           ops == PreparedOps(s, p, actor, batches + 1, epoch, turns, TRUE)
<1>1. /\ pc = "idle" /\ Begin("batch", p, s, ops, Writes(ops))
      /\ inOrder' = (inOrder /\ InOrderBatch(p, s))
  BY DEF ingest_batch
<1>2. s = Loaded(rows)
  OBVIOUS
<1> HIDE DEF s
<1>3. Ordered(s) /\ TrueAnchors(s, anchors)
  BY <1>1, <1>2, LoadedAnchors
<1>4. p \in Seq(Message)
  BY ReconcilerAssumption
<1>5. batches + 1 \in Nat /\ epoch \in Nat /\ turns \in Nat /\ TRUE \in BOOLEAN
  BY DEF KeyInv, Shape
<1>6. PICK a : a = _find_alignment(s, anchors, p, TRUE)
  OBVIOUS
<1>7. ASSUME inOrder, InOrderBatch(p, s) PROVE WillTell(s, ops)
  <2>1. Told(Content(s))
    BY <1>1, <1>2, <1>7, LoadedTold
  <2>2. PICK c0 : p # <<>> => TakenFrom(p, c0)
    BY <1>7, WindowTaken DEF InOrderBatch
  <2>3. a.len > 0 \/ Follow(s, p, c0)
    <3> SUFFICES ASSUME p # <<>>, s # <<>> PROVE a.len > 0
      BY DEF Follow
    <3>1. PICK a0 : TakenFrom(Hashes(s), a0)
      BY <1>3, <2>1, ToldTaken
    <3>2. Shared(p, s) >= Min({Min(WindowSizes), Len(p), Len(s)})
      BY <1>7 DEF InOrderBatch
    <3> QED BY <1>3, <1>4, <1>6, <2>2, <3>1, <3>2, FindSome
  <2> QED BY <1>3, <1>4, <1>5, <1>6, <2>1, <2>2, <2>3, PreparedTells
<1> HIDE DEF ops
<1>8. Writes(ops) \in {"write", "check"}
  BY DEF Writes
<1>9. inOrder' => /\ inOrder /\ (Writes(ops) = "write" => WillTell(s, ops))
                  /\ (Writes(ops) = "check" => Told(Content(s)))
  BY <1>1, <1>7, TellsNext
<1> QED BY <1>1, <1>8, <1>9, BeginTells

\* A pair that the host has right after the message h.
LEMMA PairAfter ==
  ASSUME NEW h \in Message, NEW p \in Seq(Message), Len(p) = 2, NEW c, TakenFrom(<<h>> \o p, c)
  PROVE  h = History[c] /\ TakenFrom(p, c + 1) /\ c + 1 <= Len(History)
<1>0. Len(History) \in Nat
  BY ReconcilerAssumption
<1>1. PICK q : q = <<h>> \o p
  OBVIOUS
<1>2. Len(q) = 3 /\ q[1] = h /\ \A k \in 1..2 : q[k + 1] = p[k]
  <2>1. PICK f \in Seq(Message) : f = <<h>> /\ Len(f) = 1 /\ f[1] = h
    OBVIOUS
  <2>2. q = f \o p
    BY <1>1, <2>1
  <2>3. Len(q) = Len(f) + Len(p)
    BY <2>1, <2>2, ConcatProperties
  <2>4. \A i \in 1..Len(q) : q[i] = IF i <= Len(f) THEN f[i] ELSE p[i - Len(f)]
    BY <2>1, <2>2, <2>3, ConcatProperties
  <2>5. Len(q) = 3
    BY <2>1, <2>3
  <2>6. q[1] = h
    BY <2>1, <2>4, <2>5
  <2>7. \A k \in 1..2 : k + 1 \in 1..3 /\ ~ (k + 1 <= 1) /\ (k + 1) - 1 = k
    OBVIOUS
  <2>8. \A k \in 1..2 : q[k + 1] = p[k]
    BY <2>1, <2>4, <2>5, <2>7
  <2> QED BY <2>5, <2>6, <2>8
<1>3. /\ c \in Nat \ {0} /\ c + 3 - 1 <= Len(History) /\ \A k \in 1..3 : q[k] = History[c + k - 1]
  BY <1>1, <1>2 DEF TakenFrom
<1>4. h = History[c]
  <2>1. 1 \in 1..3 /\ c + 1 - 1 = c
    BY <1>3
  <2> QED BY <1>2, <1>3, <2>1
<1>5. \A k \in 1..2 : p[k] = History[(c + 1) + k - 1]
  <2> TAKE k \in 1..2
  <2>1. k + 1 \in 1..3 /\ c + (k + 1) - 1 = (c + 1) + k - 1
    BY <1>3
  <2> QED BY <1>2, <1>3, <2>1
<1>6. c + 1 \in Nat \ {0} /\ (c + 1) + 2 - 1 <= Len(History) /\ c + 1 <= Len(History)
  BY <1>0, <1>3
<1> QED BY <1>4, <1>5, <1>6 DEF TakenFrom

LEMMA SingleTells ==
  ASSUME Transactional, Distinct, KeyInv, KeepInv, StoreInv, HostInv,
         NEW p \in Pair, NEW actor \in Actor \cup {NoActor}, ingest_single(p, actor)
  PROVE  HostInv'
<1> DEFINE s == Loaded(rows)
           tail == s[Len(s)]
           up == UpgradeOp(s, {Len(s)}, actor, epoch)
           half == WriteOps(<<p[2]>>, KeysAbove(tail.key, 1), actor, batches + 1, turns)
           other == PreparedOps(s, p, actor, batches + 1, 0, turns, FALSE)
           ops == IF s # <<>> /\ tail.hash = p[1] THEN up \o half ELSE other
<1>1. /\ pc = "idle" /\ Begin("single", p, s, ops, Writes(ops))
      /\ inOrder' => inOrder /\ ~Occurs(p, Hashes(Recent(s))) /\ InOrderPair(p, s)
  BY DEF ingest_single
<1>2. s = Loaded(rows)
  OBVIOUS
<1> HIDE DEF s
<1>3. Ordered(s) /\ TrueAnchors(s, anchors)
  BY <1>1, <1>2, LoadedAnchors
<1>4. /\ p \in Seq(Message) /\ Len(p) = 2 /\ p # <<>>
      /\ <<p[2]>> \in Seq(Message) /\ Len(<<p[2]>>) = 1 /\ <<p[2]>>[1] = p[2]
  <2>1. p \in UserMessage \X (Message \ UserMessage) /\ UserMessage \subseteq Message
    BY ReconcilerAssumption
  <2>2. p = <<p[1], p[2]>> /\ p[1] \in Message /\ p[2] \in Message
    BY <2>1
  <2>3. PICK u \in Message, v \in Message : p = <<u, v>> /\ v = p[2]
    BY <2>2
  <2>4. <<u, v>> \in Seq(Message) /\ Len(<<u, v>>) = 2 /\ <<u, v>> # <<>>
        /\ <<v>> \in Seq(Message) /\ Len(<<v>>) = 1 /\ <<v>>[1] = v
    OBVIOUS
  <2> QED BY <2>3, <2>4
<1>5. batches + 1 \in Nat /\ epoch \in Nat /\ turns \in Nat /\ 0 \in Nat /\ FALSE \in BOOLEAN
  BY DEF KeyInv, Shape
<1>6. PICK H \in Nat : H = Len(History) /\ DOMAIN History = 1..H
  BY ReconcilerAssumption
<1>7. PICK N \in Nat : N = Len(s) /\ (N = 0 <=> s = <<>>)
  BY <1>3, OrderedIs
<1>8. ASSUME inOrder, s # <<>>
      PROVE  \E a0 : /\ TakenFrom(Hashes(s), a0) /\ a0 \in Nat \ {0} /\ a0 + N - 1 \in 1..H
                     /\ TellsOf(Content(s), a0, a0 + N - 1)
                     /\ tail.hash = History[a0 + N - 1] /\ tail.hash \in Message
  <2>1. Told(Content(s))
    BY <1>1, <1>2, <1>8, LoadedTold
  <2>2. PICK a0 : TakenFrom(Hashes(s), a0) /\ TellsOf(Content(s), a0, a0 + N - 1)
    BY <1>3, <1>7, <2>1, ToldTaken
  <2>3. PICK ex \in Seq(Message) : ex = Hashes(s) /\ Len(ex) = N /\ \A i \in 1..N : ex[i] = s[i].hash
    BY <1>3, <1>7, HashesIs
  <2>4. a0 \in Nat \ {0} /\ a0 + N - 1 <= H /\ \A k \in 1..N : ex[k] = History[a0 + k - 1]
    BY <1>6, <2>2, <2>3 DEF TakenFrom
  <2>5. N \in 1..N
    BY <1>7, <1>8
  <2>6. a0 + N - 1 \in 1..H
    BY <1>6, <1>7, <2>4, <2>5
  <2>7. ex[N] = tail.hash /\ ex[N] = History[a0 + N - 1] /\ ex[N] \in Message
    BY <1>7, <2>3, <2>4, <2>5
  <2> QED BY <2>2, <2>4, <2>6, <2>7
<1>9. ASSUME inOrder, NEW c0, TakenFrom(p, c0), Follow(s, p, c0) PROVE WillTell(s, other)
  <2>1. Told(Content(s))
    BY <1>1, <1>2, <1>9, LoadedTold
  <2>2. PICK a : a = _find_alignment(s, anchors, p, FALSE)
    OBVIOUS
  <2> QED BY <1>3, <1>4, <1>5, <1>9, <2>1, <2>2, PreparedTells
<1>10. ASSUME inOrder, s # <<>>, tail.hash = p[1], NEW c0, TakenFrom(p, c0)
       PROVE  WillTell(s, up \o half)
  <2>1. PICK a0 : /\ a0 \in Nat \ {0} /\ a0 + N - 1 \in 1..H
                  /\ TellsOf(Content(s), a0, a0 + N - 1) /\ tail.hash = History[a0 + N - 1]
    BY <1>8, <1>10
  <2>2. c0 \in Nat \ {0} /\ c0 + 2 - 1 <= H /\ \A k \in 1..2 : p[k] = History[c0 + k - 1]
    BY <1>4, <1>6, <1>10 DEF TakenFrom
  <2>3. p[1] = History[c0] /\ p[2] = History[c0 + 1] /\ c0 \in 1..H /\ c0 + 1 <= H
    <3>1. 1 \in 1..2 /\ 2 \in 1..2 /\ c0 + 1 - 1 = c0 /\ c0 + 2 - 1 = c0 + 1 /\ c0 \in 1..H /\ c0 + 1 <= H
      BY <2>2
    <3> QED BY <2>2, <3>1
  <2>4. c0 = a0 + N - 1
    BY <1>6, <1>10, <2>1, <2>3 DEF Distinct
  <2>5. TellsOf(Content(s), a0, c0)
    BY <2>1, <2>4
  <2>6. Len(s) \in DOMAIN s /\ tail.key \in Int
    BY <1>3, <1>10, LastIsGreatest
  <2>7. PICK x \in Int : x = tail.key
    BY <2>6
  <2>8. PICK q \in Seq(Message) : q = <<p[2]>> /\ Len(q) = 1 /\ q[1] = p[2]
    BY <1>4
  <2>9. \A k \in 1..Len(q) : q[k] = History[c0 + k]
    <3>1. \A k \in 1..1 : k = 1
      OBVIOUS
    <3> QED BY <2>3, <2>8, <3>1
  <2>10. half = WriteOps(q, KeysAbove(x, Len(q)), actor, batches + 1, turns)
    BY <2>7, <2>8
  <2>11. WillTell(s, WriteOps(q, KeysAbove(x, Len(q)), actor, batches + 1, turns))
    <3>1. c0 + Len(q) <= Len(History)
      BY <1>6, <2>3, <2>8
    <3> QED BY <1>3, <1>5, <2>5, <2>7, <2>9, <3>1, BehindTells
  <2>12. PICK D : Gives(Content(s), half, D) /\ Told(D)
    BY <2>10, <2>11 DEF WillTell
  <2>13. Gives(Content(s), up, Content(s)) /\ up \in Seq(Planned(batches + 1))
    <3>1. {Len(s)} \in SUBSET DOMAIN s
      BY <2>6
    <3> QED BY <1>3, <1>5, <3>1, GivesUpgrade, RunsUpgrade
  <2>14. half \in Seq(Planned(batches + 1))
    <3>1. PICK keys : keys = KeysAbove(x, Len(q))
      OBVIOUS
    <3>2. Rising(keys, Len(q))
      BY <2>8, <3>1, AboveRises
    <3>3. WriteOps(q, keys, actor, batches + 1, turns) \in Seq(Planned(batches + 1))
      BY <1>5, <2>8, <3>2, WritesPlanned
    <3> QED BY <2>10, <3>1, <3>3
  <2> HIDE DEF up, half
  <2>15. Gives(Content(s), up \o half, D)
    BY <2>12, <2>13, <2>14, GivesThen
  <2> QED BY <2>12, <2>15 DEF WillTell
<1> HIDE DEF up, half, other, tail
<1>11. ASSUME inOrder' PROVE inOrder /\ WillTell(s, ops)
  <2>1. inOrder /\ ~Occurs(p, Hashes(Recent(s))) /\ InOrderPair(p, s)
    BY <1>1, <1>11
  <2>2. CASE s = <<>>
    <3>1. IsWindow(p)
      BY <2>1, <2>2 DEF InOrderPair
    <3>2. PICK c0 : TakenFrom(p, c0)
      BY <1>4, <3>1, WindowTaken
    <3>3. Follow(s, p, c0)
      BY <2>2 DEF Follow
    <3> QED BY <1>9, <2>1, <2>2, <3>2, <3>3
  <2>3. CASE s # <<>>
    <3>1. PICK a0 : /\ TakenFrom(Hashes(s), a0) /\ a0 \in Nat \ {0} /\ a0 + N - 1 \in 1..H
                    /\ tail.hash = History[a0 + N - 1] /\ tail.hash \in Message
      BY <1>8, <2>1, <2>3
    <3>2. CASE IsWindow(<<tail.hash>> \o p)
      <4>1. PICK h \in Message : h = tail.hash
        BY <3>1
      <4>2. <<h>> \o p # <<>>
        BY <1>4
      <4>3. PICK c : TakenFrom(<<h>> \o p, c)
        BY <3>2, <4>1, <4>2, WindowTaken
      <4>4. h = History[c] /\ TakenFrom(p, c + 1) /\ c + 1 <= H /\ c \in Nat \ {0}
        <5>1. h = History[c] /\ TakenFrom(p, c + 1) /\ c + 1 <= Len(History)
          BY <1>4, <4>3, PairAfter
        <5>2. c \in Nat \ {0}
          BY <4>3 DEF TakenFrom
        <5> QED BY <1>6, <5>1, <5>2
      <4>5. c \in 1..H /\ c + 1 \in 1..H
        BY <4>4
      <4>6. c = a0 + N - 1
        BY <1>6, <3>1, <4>1, <4>4, <4>5 DEF Distinct
      <4>7. Follow(s, p, c + 1)
        <5>1. c + 1 = a0 + N
          BY <3>1, <4>6
        <5> QED BY <1>7, <3>1, <5>1 DEF Follow
      <4>8. tail.hash # p[1]
        <5>1. p[1] = History[c + 1]
          <6>1. 1 \in 1..Len(p) /\ (c + 1) + 1 - 1 = c + 1
            BY <1>4, <4>4
          <6> QED BY <4>4, <6>1 DEF TakenFrom
        <5>2. c # c + 1
          BY <4>4
        <5> QED BY <1>6, <4>1, <4>4, <4>5, <5>1, <5>2 DEF Distinct
      <4>9. WillTell(s, other)
        BY <1>9, <2>1, <4>4, <4>7
      <4> QED BY <2>1, <4>8, <4>9
    <3>3. CASE tail.hash = p[1] /\ IsWindow(p)
      <4>1. PICK c0 : TakenFrom(p, c0)
        BY <1>4, <3>3, WindowTaken
      <4> QED BY <1>10, <2>1, <2>3, <3>3, <4>1
    <3> QED BY <2>1, <2>3, <3>2, <3>3 DEF InOrderPair, tail
  <2> QED BY <2>2, <2>3
<1> HIDE DEF ops
<1>12. Writes(ops) \in {"write", "check"}
  BY DEF Writes
<1>13. inOrder' => /\ inOrder /\ (Writes(ops) = "write" => WillTell(s, ops))
                   /\ (Writes(ops) = "check" => Told(Content(s)))
  BY <1>11, TellsNext
<1> QED BY <1>1, <1>12, <1>13, BeginTells

LEMMA ResendTells ==
  ASSUME Transactional, KeyInv, HostInv,
         NEW p \in Pair, NEW actor \in Actor \cup {NoActor}, ResendPair(p, actor)
  PROVE  HostInv'
<1> DEFINE s == Loaded(rows)
           m == Len(s) - Len(Recent(s))
           at == {i \in m + 1..Len(s) - 1 : Window(Hashes(s), i, 2) = p}
           ops == [k \in 1..2 |-> [op |-> "write", row |-> Rewritten(s[Min(at) + k - 1], actor)]]
<1>1. /\ pc = "idle" /\ at # {} /\ Begin("resend", p, s, ops, "write")
      /\ inOrder' = (inOrder /\ InOrderPair(p, s))
  BY DEF ResendPair
<1>2. s = Loaded(rows)
  OBVIOUS
<1>3. Ordered(s)
  BY LoadedIs DEF KeyInv, Shape
<1>4. Gives(Content(s), ops, Content(s))
  <2>1. at # {} /\ s = Loaded(rows)
    BY <1>1
  <2> QED BY <1>3, <2>1, RewriteGives
<1>5. inOrder => WillTell(s, ops)
  BY <1>1, <1>2, <1>4, LoadedTold DEF WillTell
<1> HIDE DEF s, ops
<1>6. /\ inOrder' => inOrder
      /\ "write" \in {"write", "check"} /\ "write" # "check"
  BY <1>1
<1>7. PICK next : next = "write"
  OBVIOUS
<1> QED BY <1>1, <1>5, <1>6, <1>7, BeginTells

LEMMA ExecuteTells ==
  ASSUME KeyInv, KeepInv, HostInv, Execute
  PROVE  HostInv'
<1>1. PICK ops : ops = job.todo /\ ops \in Seq(Planned(job.batch)) /\ ops # <<>> /\ pc = "write"
  BY DEF KeyInv, Shape, PlanRuns, Execute
<1>2. PICK o : o = Head(job.todo)
  OBVIOUS
<1>3. PICK rest : rest = Tail(ops)
  OBVIOUS
<1>4. PICK t : t = rows'
  OBVIOUS
<1>5. o.op \in {"write", "shift", "actor"} /\ Does(o, Content(rows), Content(t))
  BY <1>2, <1>4, ExecuteContent
<1>6. /\ job' = [job EXCEPT !.todo = rest] /\ inOrder' = inOrder
      /\ pc' = IF rest # <<>> THEN "write"
               ELSE IF ~job.wrote THEN "check"
               ELSE IF job.kind = "resend" THEN "anchors" ELSE "groups"
  BY <1>1, <1>3 DEF Execute, ghosts
<1>7. job = [kind |-> job.kind, payload |-> job.payload, batch |-> job.batch,
             life |-> job.life, todo |-> job.todo, wrote |-> job.wrote, undo |-> job.undo]
  BY DEF KeyInv, Shape
<1>8. job'.todo = rest /\ job'.undo = job.undo
  BY <1>6, <1>7
<1>9. ASSUME inOrder
      PROVE  WillTell(t, rest) /\ (rest = <<>> => Told(Content(t))) /\ Told(Content(job.undo[1]))
  <2>1. PICK D : Gives(Content(rows), ops, D) /\ Told(D)
    BY <1>1, <1>9 DEF HostInv, WillTell
  <2>2. PICK B : Does(o, Content(rows), B) /\ Gives(B, rest, D)
    BY <1>1, <1>2, <1>3, <2>1, GivesFirst
  <2>3. Gives(Content(t), rest, D)
    BY <1>5, <2>2, DoesOnce
  <2>4. rest = <<>> => Told(Content(t))
    BY <2>1, <2>3, GivesNothing
  <2>5. Told(Content(job.undo[1]))
    BY <1>1, <1>9 DEF HostInv
  <2> QED BY <2>1, <2>3, <2>4, <2>5 DEF WillTell
<1>10. (rest # <<>> => pc' = "write") /\ (rest = <<>> => pc' # "write") /\ pc' # "idle"
  BY <1>6
<1> QED BY <1>4, <1>6, <1>8, <1>9, <1>10 DEF HostInv

LEMMA StepTells ==
  ASSUME Transactional, 3 \in WindowSizes, Distinct, SureInv, HostInv, [Next]_vars
  PROVE  HostInv'
<1>0. KeyInv /\ KeepInv /\ StoreInv /\ Ordered(rows)
  BY DEF SureInv, KeyInv, Shape
<1>1. ASSUME NEW p \in Payload, NEW a \in Actor \cup {NoActor}, ingest_batch(p, a)
      PROVE  HostInv'
  BY <1>0, <1>1, BatchTells
<1>2. ASSUME NEW p \in Pair, NEW a \in Actor \cup {NoActor}, ResendPair(p, a)
      PROVE  HostInv'
  BY <1>0, <1>2, ResendTells
<1>3. ASSUME NEW p \in Pair, NEW a \in Actor \cup {NoActor}, ingest_single(p, a)
      PROVE  HostInv'
  BY <1>0, <1>3, SingleTells
<1>4. CASE Execute
  BY <1>0, <1>4, ExecuteTells
<1>5. CASE Regroup
  <2>1. PICK t : t = rows'
    OBVIOUS
  <2>2. job' = job /\ pc = "groups" /\ pc' = "anchors" /\ inOrder' = inOrder
    BY <1>5 DEF Regroup, Advance, ghosts
  <2>3. Content(t) = Content(rows)
    <3>1. t = recompute_canonical_turn_groups(rows) \/ t = rows
      BY <1>5, <2>1 DEF Regroup
    <3> QED BY <1>0, <3>1, RecomputeIs, SameContent
  <2>4. inOrder => Told(Content(t)) /\ Told(Content(job.undo[1]))
    BY <2>2, <2>3 DEF HostInv
  <2> QED BY <2>1, <2>2, <2>4 DEF HostInv
<1>6. CASE _refresh_persisted_anchors
  <2>1. job' = job /\ pc = "anchors" /\ pc' = "check" /\ rows' = rows /\ inOrder' = inOrder
    BY <1>6 DEF _refresh_persisted_anchors, Advance, ghosts
  <2> QED BY <2>1 DEF HostInv
<1>7. CASE Finish
  <2>1. pc = "check" /\ job.life = epoch
    BY <1>0, <1>7 DEF Finish, KeepInv
  <2>2. rows' = rows /\ pc' = "idle" /\ inOrder' = inOrder
    BY <1>7, <2>1 DEF Finish
  <2> QED BY <2>1, <2>2 DEF HostInv
<1>8. CASE Crash
  <2>1. pc # "idle" /\ pc' = "idle" /\ rows' = job.undo[1] /\ inOrder' = inOrder
    BY <1>8 DEF Crash
  <2> QED BY <2>1 DEF HostInv
<1>9. CASE Resurrect
  <2>1. rows' = rows /\ job' = job /\ pc' = pc /\ inOrder' = inOrder
    BY <1>9 DEF Resurrect, jobVars
  <2> QED BY <2>1 DEF HostInv
<1>10. CASE Tag
  <2>1. PICK t : t = rows' /\ t = [i \in DOMAIN rows |-> [rows[i] EXCEPT !.tagged = TRUE]]
    BY <1>10 DEF Tag
  <2>2. pc = "idle" /\ job' = job /\ pc' = pc /\ inOrder' = inOrder
    BY <1>10 DEF Tag, jobVars, ghosts
  <2>3. \A i \in DOMAIN rows : t[i].key = rows[i].key /\ t[i].hash = rows[i].hash
    <3>1. \A i \in DOMAIN rows : rows[i] \in Row
      BY <1>0, OrderedIs
    <3>2. \A r \in Row : [r EXCEPT !.tagged = TRUE].key = r.key /\ [r EXCEPT !.tagged = TRUE].hash = r.hash
      BY DEF Row
    <3> QED BY <2>1, <3>1, <3>2
  <2>4. DOMAIN t = DOMAIN rows
    BY <2>1
  <2>5. Content(t) = Content(rows)
    BY <2>3, <2>4 DEF Content
  <2> QED BY <2>1, <2>2, <2>5 DEF HostInv
<1>11. CASE UNCHANGED vars
  <2>1. rows' = rows /\ job' = job /\ pc' = pc /\ inOrder' = inOrder
    BY <1>11 DEF vars, jobVars, ghosts
  <2> QED BY <2>1 DEF HostInv
<1> QED BY <1>1, <1>2, <1>3, <1>4, <1>5, <1>6, <1>7, <1>8, <1>9, <1>10, <1>11 DEF Next

LEMMA HostStarts ==
  ASSUME Init
  PROVE  HostInv
<1>1. PICK e : e = <<>>
  OBVIOUS
<1>2. rows = e /\ pc = "idle"
  BY <1>1 DEF Init
<1>3. Told(Content(e))
  <2>1. e \in Seq(Row) /\ DOMAIN e = {}
    BY <1>1
  <2>2. Ordered(e)
    BY <2>1 DEF Ordered
  <2>3. PICK c \in Nat \ {0} : c = 1 /\ c - 1 <= Len(History)
    BY ReconcilerAssumption
  <2> QED BY <1>1, <2>2, <2>3, NoRowsTell DEF Told
<1> QED BY <1>2, <1>3 DEF HostInv

\* TranscriptIsWindow holds on SQLite, for any payloads, pairs, actors and
\* spacings, and wherever a call dies, if three messages are an anchor window and
\* the history of the host has no message twice (or an overlap could be met at
\* two places): deliveries in order, of whatever windows and however often, leave
\* one window of the history stored, nothing twice, out of order or left out.
THEOREM TranscriptStaysWindow ==
  ASSUME Transactional, ~MayMiss, 3 \in WindowSizes, Distinct
  PROVE  Spec => []TranscriptIsWindow
<1>1. SureInv /\ HostInv /\ [Next]_vars => HostInv'
  BY StepTells
<1>2. SureInv /\ HostInv => TranscriptIsWindow
  <2> SUFFICES ASSUME SureInv, HostInv, inOrder, pc = "idle", rows # <<>>
               PROVE  IsWindow(Hashes(rows))
    BY DEF TranscriptIsWindow
  <2>1. Ordered(rows) /\ Told(Content(rows))
    BY DEF SureInv, KeyInv, Shape, HostInv
  <2>2. PICK a : TakenFrom(Hashes(rows), a)
    BY <2>1, ToldTaken
  <2>3. PICK N \in Nat : N = Len(rows) /\ (N = 0 <=> rows = <<>>)
    BY <2>1, OrderedIs
  <2>4. PICK p \in Seq(Message) : p = Hashes(rows) /\ Len(p) = N
    BY <2>1, <2>3, HashesIs
  <2>5. p # <<>>
    BY <2>3, <2>4
  <2> QED BY <2>2, <2>4, <2>5, TakenWindow
<1>3. Spec => []HostInv
  BY <1>1, HostStarts, SureAlways, PTL DEF Spec
<1> QED BY <1>2, <1>3, SureAlways, PTL

=============================================================================

------------------------ MODULE AliasResolutionProofs ------------------------
(***************************************************************************)
(* Theorems about AliasResolution, for any conversations, any workers, any *)
(* hop limit and any fan-out limit: what the walk and the reverse search   *)
(* compute in every alias table, that leased attaches never close a cycle, *)
(* and that every binding to a redirected id is about to be evicted.       *)
(***************************************************************************)
EXTENDS AliasResolution, IterationTheorems

AliasTable == alias \in [Conv -> Conv \cup {NoConv}]

\* One hop of a walk; NoConv stays NoConv.
Hop(x) == IF x = NoConv THEN NoConv ELSE alias[x]

-----------------------------------------------------------------------------
(* The walk.                                                               *)

\* Chain satisfies its recursive definition: the walk starts at c and each
\* position is one hop after the one before.
LEMMA ChainHops ==
  ASSUME AliasTable, NEW c \in Conv, NEW n \in Nat
  PROVE  /\ Chain(c, n) \in [0..n -> Conv \cup {NoConv}]
         /\ Chain(c, n)[0] = c
         /\ \A i \in 1..n : Chain(c, n)[i] = Hop(Chain(c, n)[i - 1])
<1> DEFINE D == Conv \cup {NoConv}
           g == [x \in D |-> Hop(x)]
           Solves(p) == p = [i \in 0..n |-> IF i = 0 THEN c
                                            ELSE IF p[i - 1] = NoConv THEN NoConv
                                            ELSE alias[p[i - 1]]]
<1>1. g \in [D -> D] /\ c \in D
  BY AliasAssumption DEF AliasTable, Hop
<1>2. PICK q \in [0..n -> D] :
         q[0] = c /\ \A i \in 1..n : q[i] = g[q[i - 1]]
  <2> HIDE DEF g, D
  <2>1. Iterable(D)
    BY IteratesExist
  <2> QED BY <1>1, <2>1 DEF Iterable
<1>3. Solves(q)
  <2>1. \A i \in 1..n : q[i - 1] \in D
    OBVIOUS
  <2>2. \A i \in 1..n : g[q[i - 1]] = Hop(q[i - 1])
    BY <2>1
  <2>3. \A i \in 0..n : q[i] = IF i = 0 THEN c
                               ELSE IF q[i - 1] = NoConv THEN NoConv
                               ELSE alias[q[i - 1]]
    <3> HIDE DEF g, D
    <3> QED BY <1>2, <2>2 DEF Hop
  <2> QED BY <2>3
<1>4. Solves(Chain(c, n))
  <2>1. Chain(c, n) = CHOOSE p : Solves(p)
    BY DEF Chain
  <2> HIDE DEF Solves
  <2> QED BY <1>3, <2>1
<1> DEFINE p == Chain(c, n)
<1> HIDE DEF p
<1>5. p = [i \in 0..n |-> IF i = 0 THEN c
                          ELSE IF p[i - 1] = NoConv THEN NoConv
                          ELSE alias[p[i - 1]]]
  BY <1>4 DEF p
<1>6. p[0] = c /\ \A i \in 1..n : p[i] = Hop(p[i - 1])
  BY <1>5 DEF Hop
<1>7. \A i \in 0..n : p[i] \in D
  <2> DEFINE T == {i \in 0..n : p[i] \in D}
  <2>1. 0 \in T
    BY <1>6
  <2>2. ASSUME NEW i \in 0..n, i < n, i \in T
        PROVE  i + 1 \in T
    <3>1. i + 1 \in 1..n /\ (i + 1) - 1 = i
      BY <2>2
    <3>2. p[i + 1] = Hop(p[i])
      BY <1>6, <3>1
    <3>3. p[i + 1] \in D
      BY <2>2, <3>2 DEF AliasTable, Hop
    <3> QED BY <3>1, <3>3
  <2>3. 0..n \subseteq T
    <3> HIDE DEF T
    <3> QED BY <2>1, <2>2, InductionUpTo
  <2> QED BY <2>3
<1>8. p \in [0..n -> D]
  <2> DEFINE f == [i \in 0..n |-> IF i = 0 THEN c
                                  ELSE IF p[i - 1] = NoConv THEN NoConv
                                  ELSE alias[p[i - 1]]]
  <2>1. p = f /\ DOMAIN f = 0..n
    BY <1>5
  <2>2. p = [i \in 0..n |-> p[i]]
    BY <2>1
  <2> QED BY <1>7, <2>2
<1> QED BY <1>6, <1>8 DEF p

\* The walk returns an id of the table that redirects nowhere, or gives up:
\* whatever an engine is bound to was a terminal when it was resolved.
LEMMA WalkEndsAtTerminal ==
  ASSUME AliasTable, NEW c \in Conv
  PROVE  LET t == walk_conversation_alias_chain(c)
         IN  t \in Conv \cup {NoConv} /\ (t # NoConv => alias[t] = NoConv)
<1> DEFINE p == Chain(c, MaxHops)
           ends == {i \in 0..MaxHops - 1 : p[i] # NoConv /\ p[i + 1] = NoConv}
           t == walk_conversation_alias_chain(c)
<1> HIDE DEF p
<1>0. MaxHops \in Nat \ {0}
  BY AliasAssumption
<1>1. /\ p \in [0..MaxHops -> Conv \cup {NoConv}]
      /\ \A i \in 1..MaxHops : p[i] = Hop(p[i - 1])
  BY <1>0, ChainHops DEF p
<1>2. t = IF ends = {} THEN NoConv ELSE p[CHOOSE i \in ends : TRUE]
  BY DEF walk_conversation_alias_chain, p
<1>3. CASE ends = {}
  BY <1>2, <1>3
<1>4. CASE ends # {}
  <2>1. PICK i \in ends : t = p[i]
    <3> HIDE DEF ends, t
    <3> QED BY <1>2, <1>4
  <2>2. i \in 0..MaxHops /\ i + 1 \in 1..MaxHops /\ (i + 1) - 1 = i
    BY <1>0
  <2>3. p[i] # NoConv /\ p[i] \in Conv /\ Hop(p[i]) = NoConv
    BY <1>1, <2>2
  <2>4. t \in Conv \cup {NoConv} /\ alias[t] = NoConv
    <3> HIDE DEF t, ends
    <3> QED BY <2>1, <2>3 DEF Hop
  <2> QED BY <2>4
<1> QED BY <1>3, <1>4

-----------------------------------------------------------------------------
(* The reverse search.                                                     *)

\* A walk from x is, after its first hop, the walk from where x redirects.
LEMMA ChainShift ==
  ASSUME AliasTable, NEW n \in Nat, NEW x \in Conv, alias[x] # NoConv,
         NEW j \in 0..n, j < n
  PROVE  Chain(x, n)[j + 1] = Chain(alias[x], n)[j]
<1> DEFINE p == Chain(x, n)
           q == Chain(alias[x], n)
           T == {i \in 0..n : i < n => p[i + 1] = q[i]}
<1> HIDE DEF p, q
<1>0. alias[x] \in Conv
  BY DEF AliasTable
<1>1. p[0] = x /\ \A i \in 1..n : p[i] = Hop(p[i - 1])
  BY ChainHops DEF p
<1>2. q[0] = alias[x] /\ \A i \in 1..n : q[i] = Hop(q[i - 1])
  BY <1>0, ChainHops DEF q
<1>3. 0 \in T
  <2>1. 0 < n => p[1] = Hop(p[0])
    BY <1>1
  <2>2. x # NoConv
    BY AliasAssumption
  <2> QED BY <1>1, <1>2, <2>1, <2>2 DEF Hop
<1>4. ASSUME NEW i \in 0..n, i < n, i \in T
      PROVE  i + 1 \in T
  <2>1. ASSUME i + 1 < n
        PROVE  p[(i + 1) + 1] = q[i + 1]
    <3>1. /\ i + 1 \in 1..n /\ (i + 1) - 1 = i
          /\ (i + 1) + 1 \in 1..n /\ ((i + 1) + 1) - 1 = i + 1
      BY <1>4, <2>1
    <3>2. p[(i + 1) + 1] = Hop(p[i + 1]) /\ q[i + 1] = Hop(q[i])
      BY <1>1, <1>2, <3>1
    <3> QED BY <1>4, <3>2
  <2> QED BY <1>4, <2>1
<1>5. 0..n \subseteq T
  <2> HIDE DEF T
  <2> QED BY <1>3, <1>4, InductionUpTo
<1> QED BY <1>5 DEF p, q

\* A walk from an id that redirects nowhere sees no other id.
LEMMA ChainOfTerminal ==
  ASSUME AliasTable, NEW n \in Nat, NEW x \in Conv, alias[x] = NoConv,
         NEW j \in 1..n
  PROVE  Chain(x, n)[j] = NoConv
<1> DEFINE p == Chain(x, n)
           T == {i \in 0..n : i > 0 => p[i] = NoConv}
<1> HIDE DEF p
<1>1. p[0] = x /\ \A i \in 1..n : p[i] = Hop(p[i - 1])
  BY ChainHops DEF p
<1>2. ASSUME NEW i \in 0..n, i < n, i \in T
      PROVE  i + 1 \in T
  <2>1. i + 1 \in 1..n /\ (i + 1) - 1 = i
    BY <1>2
  <2>2. p[i + 1] = Hop(p[i])
    BY <1>1, <2>1
  <2>3. p[i] = IF i = 0 THEN x ELSE NoConv
    BY <1>1, <1>2
  <2> QED BY <2>1, <2>2, <2>3 DEF Hop
<1>3. 0..n \subseteq T
  <2>1. 0 \in T
    OBVIOUS
  <2> HIDE DEF T
  <2> QED BY <1>2, <2>1, InductionUpTo
<1> QED BY <1>3 DEF p

\* Against the edges, one level, keeping only ids of K.
Level(K, S) == S \cup {x \in K : alias[x] \in S}

\* The levels of the breadth-first search: the result is the last one without
\* t itself.
LEMMA SearchLevels ==
  ASSUME AliasTable, NEW t \in Conv, NEW K \in SUBSET Conv
  PROVE  \E seen \in [0..MaxHops -> SUBSET Conv] :
            /\ seen[0] = {t}
            /\ \A i \in 1..MaxHops : seen[i] = Level(K, seen[i - 1])
            /\ Search(t, K) = seen[MaxHops] \ {t}
<1> DEFINE n == MaxHops
           D == SUBSET Conv
           g == [S \in D |-> Level(K, S)]
           Solves(s) == s = [i \in 0..n |-> IF i = 0 THEN {t} ELSE
                               s[i - 1] \cup {x \in K : alias[x] \in s[i - 1]}]
           seen == CHOOSE s : Solves(s)
<1>0. n \in Nat
  BY AliasAssumption
<1>1. g \in [D -> D] /\ {t} \in D
  BY DEF Level
<1>2. PICK q \in [0..n -> D] :
         q[0] = {t} /\ \A i \in 1..n : q[i] = g[q[i - 1]]
  <2> HIDE DEF g, D, n
  <2>1. Iterable(D)
    BY IteratesExist
  <2> QED BY <1>0, <1>1, <2>1 DEF Iterable
<1>3. Solves(q)
  <2> HIDE DEF n
  <2>1. \A i \in 1..n : q[i - 1] \in D
    BY <1>0
  <2>2. \A i \in 1..n : g[q[i - 1]] = Level(K, q[i - 1])
    BY <2>1
  <2>3. \A i \in 0..n : q[i] = IF i = 0 THEN {t} ELSE
                 q[i - 1] \cup {x \in K : alias[x] \in q[i - 1]}
    <3> HIDE DEF g, D
    <3> QED BY <1>0, <1>2, <2>2 DEF Level
  <2> QED BY <2>3
<1>4. Solves(seen)
  <2> HIDE DEF Solves
  <2> QED BY <1>3
<1>5. Search(t, K) = seen[n] \ {t}
  BY DEF Search
<1> HIDE DEF seen, n
<1>6. /\ seen[0] = {t}
      /\ \A i \in 1..n : seen[i] = Level(K, seen[i - 1])
  BY <1>0, <1>4 DEF Level
<1>7. \A i \in 0..n : seen[i] \in D
  <2> DEFINE T == {i \in 0..n : seen[i] \in D}
  <2>1. 0 \in T
    BY <1>0, <1>6
  <2>2. ASSUME NEW i \in 0..n, i < n, i \in T
        PROVE  i + 1 \in T
    <3>1. i + 1 \in 1..n /\ (i + 1) - 1 = i
      BY <1>0, <2>2
    <3>2. seen[i + 1] = Level(K, seen[i])
      BY <1>6, <3>1
    <3> QED BY <2>2, <3>1, <3>2 DEF Level
  <2>3. 0..n \subseteq T
    <3> HIDE DEF T
    <3> QED BY <1>0, <2>1, <2>2, InductionUpTo
  <2> QED BY <2>3
<1>8. seen \in [0..n -> D]
  <2> DEFINE f == [i \in 0..n |-> IF i = 0 THEN {t} ELSE
                     seen[i - 1] \cup {x \in K : alias[x] \in seen[i - 1]}]
  <2>1. seen = f /\ DOMAIN f = 0..n
    BY <1>4
  <2>2. seen = [i \in 0..n |-> seen[i]]
    BY <2>1
  <2> QED BY <1>7, <2>2
<1> QED BY <1>5, <1>6, <1>8 DEF n

\* Whatever a search keeps, the walk of every id it returns passes t.
LEMMA SearchPassesTarget ==
  ASSUME AliasTable, NEW t \in Conv, NEW K \in Keeps(t), NEW x \in Search(t, K)
  PROVE  x \in Conv \ {t} /\ \E i \in 1..MaxHops : Chain(x, MaxHops)[i] = t
<1> DEFINE n == MaxHops
           Passes(y, i) == \E j \in 0..i : Chain(y, n)[j] = t
<1>0. n \in Nat /\ t # NoConv /\ K \subseteq Conv
  BY AliasAssumption DEF Keeps
<1>1. PICK seen \in [0..n -> SUBSET Conv] :
        /\ seen[0] = {t}
        /\ \A i \in 1..n : seen[i] = Level(K, seen[i - 1])
        /\ Search(t, K) = seen[n] \ {t}
  BY <1>0, SearchLevels
<1> HIDE DEF n
<1> DEFINE T == {i \in 0..n : \A y \in seen[i] : Passes(y, i)}
<1>2. \A y \in Conv : Chain(y, n)[0] = y
  BY <1>0, ChainHops
<1>3. 0 \in T
  <2>1. Passes(t, 0)
    BY <1>0, <1>2
  <2> HIDE DEF Passes
  <2> QED BY <1>0, <1>1, <2>1
<1>4. ASSUME NEW i \in 0..n, i < n, i \in T
      PROVE  i + 1 \in T
  <2>0. i \in Nat /\ i + 1 \in 1..n /\ i + 1 \in 0..n /\ (i + 1) - 1 = i
    BY <1>0, <1>4
  <2>1. seen[i + 1] = Level(K, seen[i])
    BY <1>1, <2>0
  <2>2. ASSUME NEW y \in seen[i + 1]
        PROVE  Passes(y, i + 1)
    <3>1. CASE y \in seen[i]
      <4>1. Passes(y, i)
        BY <1>4, <3>1
      <4> QED BY <2>0, <4>1
    <3>2. CASE y \notin seen[i]
      <4>1. y \in K /\ alias[y] \in seen[i]
        BY <2>1, <3>2 DEF Level
      <4>2. y \in Conv /\ alias[y] \in Conv /\ alias[y] # NoConv
        BY <1>0, <1>1, <4>1, AliasAssumption
      <4>3. PICK j \in 0..i : Chain(alias[y], n)[j] = t
        BY <1>4, <4>1
      <4>4. j \in 0..n /\ j < n /\ j + 1 \in 0..(i + 1)
        BY <1>0, <1>4, <2>0
      <4>5. Chain(y, n)[j + 1] = t
        BY <1>0, <4>2, <4>3, <4>4, ChainShift
      <4> QED BY <4>4, <4>5
    <3> QED BY <3>1, <3>2
  <2> HIDE DEF Passes
  <2> QED BY <2>0, <2>2
<1>5. n \in T
  <2>1. 0..n \subseteq T
    <3> HIDE DEF T
    <3> QED BY <1>0, <1>3, <1>4, InductionUpTo
  <2> HIDE DEF T
  <2> QED BY <1>0, <2>1
<1>6. x \in Conv /\ x # t /\ Passes(x, n)
  <2> HIDE DEF Passes
  <2> QED BY <1>0, <1>1, <1>5
<1>7. \E i \in 1..n : Chain(x, n)[i] = t
  BY <1>0, <1>2, <1>6
<1> QED BY <1>6, <1>7 DEF n

\* A search returns an id whose walk passes t unless it passes, up to there, an
\* id with more sources than the search keeps.
LEMMA SearchFindsWalks ==
  ASSUME AliasTable, NEW t \in Conv, NEW K \in Keeps(t), NEW x \in Conv \ {t},
         NEW m \in 1..MaxHops, Chain(x, MaxHops)[m] = t,
         \A k \in 1..m : ~Hot(Chain(x, MaxHops)[k], t)
  PROVE  x \in Search(t, K)
<1> DEFINE n == MaxHops
           Clear(y, i) == \E j \in 0..i : /\ Chain(y, n)[j] = t
                                          /\ \A k \in 1..j : ~Hot(Chain(y, n)[k], t)
<1>0. n \in Nat /\ t # NoConv /\ K \subseteq Conv
  BY AliasAssumption DEF Keeps
<1>1. PICK seen \in [0..n -> SUBSET Conv] :
        /\ seen[0] = {t}
        /\ \A i \in 1..n : seen[i] = Level(K, seen[i - 1])
        /\ Search(t, K) = seen[n] \ {t}
  BY <1>0, SearchLevels
<1> HIDE DEF n
<1> DEFINE T == {i \in 0..n : \A y \in Conv : Clear(y, i) => y \in seen[i]}
<1>2. \A y \in Conv : Chain(y, n)[0] = y
  BY <1>0, ChainHops
<1>k. ASSUME NEW y \in Conv \ {t}, alias[y] \in Conv, ~Hot(alias[y], t)
      PROVE  y \in K
  BY <1>k DEF Keeps, Sources
<1>t. \A i \in 0..n : t \in seen[i]
  <2> DEFINE U == {i \in 0..n : t \in seen[i]}
  <2>1. 0 \in U
    BY <1>0, <1>1
  <2>2. ASSUME NEW i \in 0..n, i < n, i \in U
        PROVE  i + 1 \in U
    <3>1. i + 1 \in 1..n /\ i + 1 \in 0..n /\ (i + 1) - 1 = i
      BY <1>0, <2>2
    <3>2. seen[i + 1] = Level(K, seen[i])
      BY <1>1, <3>1
    <3> QED BY <2>2, <3>1, <3>2 DEF Level
  <2>3. 0..n \subseteq U
    <3> HIDE DEF U
    <3> QED BY <1>0, <2>1, <2>2, InductionUpTo
  <2> QED BY <2>3
<1>3. 0 \in T
  <2>1. ASSUME NEW y \in Conv, Clear(y, 0)
        PROVE  y \in seen[0]
    BY <1>1, <1>2, <2>1
  <2> HIDE DEF Clear
  <2> QED BY <1>0, <2>1
<1>4. ASSUME NEW i \in 0..n, i < n, i \in T
      PROVE  i + 1 \in T
  <2>0. i \in Nat /\ i + 1 \in 1..n /\ i + 1 \in 0..n /\ (i + 1) - 1 = i
    BY <1>0, <1>4
  <2>1. seen[i + 1] = Level(K, seen[i])
    BY <1>1, <2>0
  <2>2. ASSUME NEW y \in Conv, Clear(y, i + 1)
        PROVE  y \in seen[i + 1]
    <3>1. CASE y = t
      BY <1>t, <2>0, <3>1
    <3>2. CASE y # t
      <4>1. PICK j \in 0..(i + 1) :
              Chain(y, n)[j] = t /\ \A k \in 1..j : ~Hot(Chain(y, n)[k], t)
        BY <2>2
      <4>2. j # 0
        BY <1>2, <3>2, <4>1
      <4>3. j - 1 \in 0..i /\ (j - 1) + 1 = j /\ j \in 1..n
        BY <1>0, <1>4, <2>0, <4>2
      <4>4. alias[y] # NoConv
        BY <1>0, <4>1, <4>3, ChainOfTerminal
      <4>5. alias[y] \in Conv
        BY <4>4 DEF AliasTable
      <4>6. \A k \in 0..i : Chain(y, n)[k + 1] = Chain(alias[y], n)[k]
        <5> TAKE k \in 0..i
        <5>1. k \in 0..n /\ k < n
          BY <1>0, <1>4, <2>0
        <5> QED BY <1>0, <4>4, <5>1, ChainShift
      <4>7. Chain(alias[y], n)[j - 1] = t
        BY <4>1, <4>3, <4>6
      <4>8. \A k \in 1..(j - 1) : ~Hot(Chain(alias[y], n)[k], t)
        <5> TAKE k \in 1..(j - 1)
        <5>1. k \in 0..i /\ k + 1 \in 1..j
          BY <2>0, <4>3
        <5>2. Chain(y, n)[k + 1] = Chain(alias[y], n)[k]
          BY <4>6, <5>1
        <5>3. ~Hot(Chain(y, n)[k + 1], t)
          BY <4>1, <5>1
        <5> QED BY <5>2, <5>3
      <4>9. alias[y] \in seen[i]
        <5>1. Clear(alias[y], i)
          BY <4>3, <4>7, <4>8
        <5> HIDE DEF Clear
        <5> QED BY <1>4, <4>5, <5>1
      <4>10. ~Hot(alias[y], t)
        <5>1. 0 \in 0..i /\ 1 \in 1..j /\ 0 + 1 = 1
          BY <2>0, <4>3
        <5>2. Chain(y, n)[1] = Chain(alias[y], n)[0]
          BY <4>6, <5>1
        <5>3. Chain(y, n)[1] = alias[y]
          BY <1>2, <4>5, <5>2
        <5>4. ~Hot(Chain(y, n)[1], t)
          BY <4>1, <5>1
        <5> QED BY <5>3, <5>4
      <4>11. y \in K
        BY <1>k, <3>2, <4>5, <4>10
      <4> QED BY <2>1, <4>9, <4>11 DEF Level
    <3> QED BY <3>1, <3>2
  <2> HIDE DEF Clear
  <2> QED BY <2>0, <2>2
<1>5. n \in T
  <2>1. 0..n \subseteq T
    <3> HIDE DEF T
    <3> QED BY <1>0, <1>3, <1>4, InductionUpTo
  <2> HIDE DEF T
  <2> QED BY <1>0, <2>1
<1>6. Clear(x, n)
  <2>1. m \in 0..n
    BY <1>0 DEF n
  <2> QED BY <2>1 DEF n
<1>7. x \in seen[n]
  <2> HIDE DEF Clear
  <2> QED BY <1>5, <1>6
<1> QED BY <1>1, <1>7

\* The ids that an event names are ids of the table, the redirected one among
\* them.
LEMMA EventNames ==
  ASSUME AliasTable, NEW c \in Conv, NEW t \in Conv, NEW E \in EventIds(c, t)
  PROVE  E \subseteq Conv /\ c \in E
<1>1. PICK dc \in compute_reverse_dependents(c), dt \in compute_reverse_dependents(t) :
        E = {c, t} \cup dc \cup dt \cup ({walk_conversation_alias_chain(t)} \ {NoConv})
  BY DEF EventIds
<1>2. dc \subseteq Conv /\ dt \subseteq Conv
  BY <1>1, SearchPassesTarget DEF compute_reverse_dependents
<1>3. walk_conversation_alias_chain(t) \in Conv \cup {NoConv}
  BY WalkEndsAtTerminal
<1> QED BY <1>1, <1>2, <1>3

-----------------------------------------------------------------------------
(* Types.                                                                  *)

\* What the ids of a task in progress are.
LEMMA TaskIds ==
  ASSUME AliasTypeOK, NEW w \in Worker, task[w] # NoTask
  PROVE  task[w] \in [step : {"clear", "save", "publish", "evict"},
                      kind : {"attach", "link"}, old : Conv, target : Conv]
BY DEF AliasTypeOK, Task

LEMMA TypeStep == AliasTypeOK /\ [Next]_vars => AliasTypeOK'
<1> SUFFICES ASSUME AliasTypeOK, [Next]_vars PROVE AliasTypeOK'
  OBVIOUS
<1> USE AliasAssumption
<1>t. AliasTable
  BY DEF AliasTypeOK, AliasTable
<1>n. NoTask \in Task
  BY DEF Task
<1>1. ASSUME NEW w \in Worker, clear_alias(w) PROVE AliasTypeOK'
  <2>1. task[w] \in [step : {"clear", "save", "publish", "evict"},
                     kind : {"attach", "link"}, old : Conv, target : Conv]
    BY <1>1, TaskIds DEF clear_alias, NoTask
  <2>2. task' \in [Worker -> Task]
    BY <1>1, <2>1 DEF clear_alias, To, AliasTypeOK, Task
  <2> QED BY <1>1, <2>1, <2>2 DEF clear_alias, AliasTypeOK, workers
<1>2. ASSUME NEW w \in Worker, save_alias(w) PROVE AliasTypeOK'
  <2>1. task[w] \in [step : {"clear", "save", "publish", "evict"},
                     kind : {"attach", "link"}, old : Conv, target : Conv]
    BY <1>2, TaskIds DEF save_alias, NoTask
  <2>2. task' \in [Worker -> Task]
    BY <1>2, <2>1 DEF save_alias, To, AliasTypeOK, Task
  <2> QED BY <1>2, <2>1, <2>2 DEF save_alias, AliasTypeOK, workers
<1>3. ASSUME NEW w \in Worker, publish(w) PROVE AliasTypeOK'
  <2>1. task[w] \in [step : {"clear", "save", "publish", "evict"},
                     kind : {"attach", "link"}, old : Conv, target : Conv]
    BY <1>3, TaskIds DEF publish, NoTask
  <2>2. \A E \in EventIds(task[w].old, task[w].target) : E \subseteq Conv
    BY <1>t, <2>1, EventNames
  <2>3. task' \in [Worker -> Task]
    BY <1>3, <1>n, <2>1 DEF publish, To, AliasTypeOK, Task
  <2>4. inbox' \in [Worker -> SUBSET Conv]
    BY <1>3, <2>2 DEF publish, AliasTypeOK
  <2>5. missed' \subseteq Worker \X Conv
    BY <1>3, <2>1 DEF publish, AliasTypeOK
  <2> QED BY <1>3, <2>3, <2>4, <2>5 DEF publish, AliasTypeOK
<1>4. ASSUME NEW w \in Worker, evict(w) PROVE AliasTypeOK'
  BY <1>4, <1>n DEF evict, AliasTypeOK
<1>5. ASSUME NEW w \in Worker, EnterRegistry(w) \/ Deliver(w) PROVE AliasTypeOK'
  BY <1>5 DEF EnterRegistry, Deliver, AliasTypeOK
<1>6. ASSUME NEW w \in Worker, Crash(w) PROVE AliasTypeOK'
  <2>1. missed' \subseteq Worker \X Conv
    <3>1. CASE task[w].step = "publish"
      <4>1. task[w].old \in Conv
        BY <3>1, TaskIds DEF NoTask
      <4> QED BY <1>6, <3>1, <4>1 DEF Crash, AliasTypeOK
    <3>2. CASE task[w].step # "publish"
      BY <1>6, <3>2 DEF Crash, AliasTypeOK
    <3> QED BY <3>1, <3>2
  <2> QED BY <1>6, <1>n, <2>1 DEF Crash, AliasTypeOK
<1>7. ASSUME NEW w \in Worker, NEW c \in Conv, Build(w, c) PROVE AliasTypeOK'
  <2> DEFINE r == IF alias[c] # NoConv THEN alias[c] ELSE c
  <2>1. r \in Conv
    BY DEF AliasTypeOK
  <2>2. walk_conversation_alias_chain(r) \in Conv \cup {NoConv}
    BY <1>t, <2>1, WalkEndsAtTerminal
  <2> QED BY <1>7, <2>2 DEF Build, AliasTypeOK
<1>8. ASSUME NEW w \in Worker, NEW c \in Conv, delete_conversation(w, c)
      PROVE  AliasTypeOK'
  BY <1>8 DEF delete_conversation, Count, AliasTypeOK
<1>9. ASSUME NEW w \in Worker, NEW c \in Conv, NEW t \in Conv,
             attach(w, c, t) \/ link_predecessor(w, c, t)
      PROVE  AliasTypeOK'
  <2>1. PICK k \in {"attach", "link"} : Start(w, k, c, t)
    BY <1>9 DEF attach, link_predecessor
  <2>2. task' \in [Worker -> Task]
    BY <2>1 DEF Start, AliasTypeOK, Task
  <2> QED BY <2>1, <2>2 DEF Start, Count, AliasTypeOK, workers
<1>10. ASSUME NEW w \in Worker, NEW c \in Conv, NEW t \in Conv,
              merge_conversation_data(w, c, t)
       PROVE  AliasTypeOK'
  <2>1. \A E \in EventIds(c, t) : E \subseteq Conv
    BY <1>t, EventNames
  <2>2. inbox' \in [Worker -> SUBSET Conv]
    BY <1>10, <2>1 DEF merge_conversation_data, AliasTypeOK
  <2> QED BY <1>10, <2>2 DEF merge_conversation_data, Count, AliasTypeOK
<1>11. CASE UNCHANGED vars
  BY <1>11 DEF vars, AliasTypeOK
<1> QED
  BY <1>1, <1>2, <1>3, <1>4, <1>5, <1>6, <1>7, <1>8, <1>9, <1>10, <1>11
     DEF Next, Step

LEMMA InitTypes == Init => AliasTypeOK
<1>1. NoTask \in Task
  BY DEF Task
<1> SUFFICES ASSUME Init PROVE AliasTypeOK
  OBVIOUS
<1>2. alias \in [Conv -> Conv \cup {NoConv}] /\ live \subseteq Conv
  BY DEF Init
<1>3. task \in [Worker -> Task] /\ building \in [Worker -> Conv \cup {NoConv}]
  BY <1>1 DEF Init
<1>4. cache \in [Worker -> SUBSET Conv] /\ inbox \in [Worker -> SUBSET Conv]
  BY DEF Init
<1>5. missed \subseteq Worker \X Conv /\ torn \in BOOLEAN
  BY Zenon DEF Init
<1>6. writes \in 0..MaxWrite
  BY AliasAssumption DEF Init
<1> QED BY <1>2, <1>3, <1>4, <1>5, <1>6 DEF AliasTypeOK

\* The alias table, the attaches and the registries keep their types under
\* every attach, link, merge, deletion, build, event and death of a worker.
THEOREM AliasTypesAlways == Spec => []AliasTypeOK
BY InitTypes, TypeStep, PTL DEF Spec

\* Every result of compute_reverse_dependents follows the walks, in every alias
\* table that can be reached: it names only ids whose walk passes the aliased
\* one, and all those whose walk up to there passes no id with more than
\* MaxFanOut sources.
THEOREM SearchFollowsWalks == Spec => []ReverseDependentsFollowWalks
<1>1. AliasTypeOK => ReverseDependentsFollowWalks
  <2> SUFFICES ASSUME AliasTable, NEW t \in Conv,
                      NEW D \in compute_reverse_dependents(t)
               PROVE  /\ \A x \in D : /\ x # t
                                      /\ \E i \in 1..MaxHops : Chain(x, MaxHops)[i] = t
                      /\ \A x \in Conv \ {t} : \A i \in 1..MaxHops :
                           Chain(x, MaxHops)[i] = t =>
                             x \in D \/ \E k \in 1..i : Hot(Chain(x, MaxHops)[k], t)
    BY DEF AliasTypeOK, AliasTable, ReverseDependentsFollowWalks
  <2>1. PICK K \in Keeps(t) : D = Search(t, K)
    BY DEF compute_reverse_dependents
  <2>2. \A x \in D : x # t /\ \E i \in 1..MaxHops : Chain(x, MaxHops)[i] = t
    BY <2>1, SearchPassesTarget
  <2>3. ASSUME NEW x \in Conv \ {t}, NEW i \in 1..MaxHops,
               Chain(x, MaxHops)[i] = t,
               ~\E k \in 1..i : Hot(Chain(x, MaxHops)[k], t)
        PROVE  x \in D
    BY <2>1, <2>3, SearchFindsWalks
  <2> QED BY <2>2, <2>3
<1> QED BY <1>1, AliasTypesAlways, PTL

-----------------------------------------------------------------------------
(* No cycle.                                                               *)

\* An attach is between two different ids.
TwoIds == \A w \in Worker : task[w] # NoTask => task[w].old # task[w].target

\* The leases: no two workers attach or link a common id.
Exclusive ==
  \A v, w \in Worker : v # w => Held(v) \cap Held(w) = {}

Acyclic == \A S \in SUBSET Conv : S # {} => \E c \in S : alias[c] \notin S

\* Unless a clear failed or a merge met an alias: no cycle, and the target of
\* an attach that cleared it is a terminal until its alias is written.
TargetsCleared ==
  torn \/ /\ Acyclic
          /\ \A w \in Worker : task[w].step = "save" => alias[task[w].target] = NoConv

\* The inductive invariant behind NoAliasCycle.
CycleInv == AliasTypeOK /\ TwoIds /\ Exclusive /\ TargetsCleared

\* Redirecting one id to another one that is a terminal closes no cycle: a
\* set that holds the terminal has its way out there, and one that does not
\* is left by the new edge or by an old one.
LEMMA RedirectToTerminal ==
  ASSUME AliasTypeOK, Acyclic, NEW c \in Conv, NEW t \in Conv, c # t,
         alias[t] = NoConv, alias' = [alias EXCEPT ![c] = t]
  PROVE  Acyclic'
<1> SUFFICES ASSUME NEW S \in SUBSET Conv, S # {}
             PROVE  \E x \in S : alias'[x] \notin S
  BY DEF Acyclic
<1> USE AliasAssumption DEF AliasTypeOK
<1>1. CASE t \in S
  <2>1. alias'[t] = NoConv
    OBVIOUS
  <2> QED BY <1>1, <2>1
<1>2. CASE t \notin S
  <2>1. PICK x \in S : alias[x] \notin S
    BY DEF Acyclic
  <2>2. alias'[x] \notin S
    BY <1>2, <2>1
  <2> QED BY <2>2
<1> QED BY <1>1, <1>2

\* Clearing an alias closes no cycle either.
LEMMA ClearKeepsAcyclic ==
  ASSUME AliasTypeOK, Acyclic, NEW t \in Conv,
         alias' = [alias EXCEPT ![t] = NoConv]
  PROVE  Acyclic'
<1> SUFFICES ASSUME NEW S \in SUBSET Conv, S # {}
             PROVE  \E x \in S : alias'[x] \notin S
  BY DEF Acyclic
<1>1. PICK x \in S : alias[x] \notin S
  BY DEF Acyclic
<1>2. alias'[x] \notin S
  BY <1>1, AliasAssumption DEF AliasTypeOK
<1> QED BY <1>2

\* A step that ends tasks or moves their step on keeps what the leases give.
LEMMA LeasesKept ==
  ASSUME AliasTypeOK, TwoIds, Exclusive, NEW w \in Worker,
         \/ task' = task
         \/ task' = [task EXCEPT ![w] = NoTask]
         \/ task[w] # NoTask /\ \E s \in {"save", "publish", "evict"} : To(w, s)
  PROVE  TwoIds' /\ Exclusive'
<1>1. CASE task' = task
  BY <1>1 DEF TwoIds, Exclusive, Held
<1>2. CASE task' = [task EXCEPT ![w] = NoTask]
  <2>1. \A v \in Worker : task'[v] = task[v] \/ task'[v] = NoTask
    BY <1>2 DEF AliasTypeOK
  <2>2. \A v \in Worker : Held(v)' \subseteq Held(v)
    BY <2>1 DEF Held, NoTask
  <2> QED BY <2>1, <2>2 DEF TwoIds, Exclusive
<1>3. CASE task[w] # NoTask /\ \E s \in {"save", "publish", "evict"} : To(w, s)
  <2>1. task[w] \in [step : {"clear", "save", "publish", "evict"},
                     kind : {"attach", "link"}, old : Conv, target : Conv]
    BY <1>3, TaskIds
  <2>2. \A v \in Worker : /\ task'[v].old = task[v].old
                          /\ task'[v].target = task[v].target
                          /\ v # w => task'[v] = task[v]
    BY <1>3, <2>1 DEF To, AliasTypeOK
  <2>3. \A v \in Worker : Held(v)' = Held(v)
    BY <2>2 DEF Held
  <2> QED BY <1>3, <2>2, <2>3 DEF TwoIds, Exclusive
<1> QED BY <1>1, <1>2, <1>3

LEMMA CycleStep ==
  ASSUME Leases = TRUE, CycleInv, [Next]_vars
  PROVE  CycleInv'
<1> USE AliasAssumption
<1>0. AliasTypeOK /\ TwoIds /\ Exclusive /\ TargetsCleared /\ AliasTypeOK'
  BY TypeStep DEF CycleInv
<1>l. ASSUME NEW w \in Worker,
             \/ task' = task
             \/ task' = [task EXCEPT ![w] = NoTask]
             \/ task[w] # NoTask /\ \E s \in {"save", "publish", "evict"} : To(w, s)
      PROVE  TwoIds' /\ Exclusive'
  BY <1>0, <1>l, LeasesKept
\* Steps that write no alias and send no worker to its save.
<1>q. ASSUME UNCHANGED <<alias, torn>>,
             \A w \in Worker : task'[w].step = "save" => task'[w] = task[w]
      PROVE  TargetsCleared'
  BY <1>0, <1>q DEF TargetsCleared, Acyclic
<1>1. ASSUME NEW w \in Worker, clear_alias(w) PROVE CycleInv'
  <2>0. /\ task[w] # NoTask
        /\ task[w] \in [step : {"clear", "save", "publish", "evict"},
                        kind : {"attach", "link"}, old : Conv, target : Conv]
    BY <1>0, <1>1, TaskIds DEF clear_alias, NoTask
  <2>1. TwoIds' /\ Exclusive'
    BY <1>1, <1>l, <2>0 DEF clear_alias
  <2>2. TargetsCleared'
    <3>1. CASE torn'
      BY <3>1 DEF TargetsCleared
    <3>2. CASE ~torn'
      <4>1. /\ alias' = [alias EXCEPT ![task[w].target] = NoConv]
            /\ ~torn
        BY <1>1, <3>2 DEF clear_alias
      <4>2. Acyclic'
        BY <1>0, <2>0, <4>1, ClearKeepsAcyclic DEF TargetsCleared
      <4>3. ASSUME NEW v \in Worker, task'[v].step = "save"
            PROVE  alias'[task'[v].target] = NoConv
        <5>1. task'[v].target = task[v].target
          BY <1>0, <1>1 DEF clear_alias, To, AliasTypeOK
        <5>2. CASE v = w
          BY <1>0, <2>0, <4>1, <5>1, <5>2 DEF AliasTypeOK
        <5>3. CASE v # w
          <6>1. task[v].step = "save"
            BY <1>0, <1>1, <4>3, <5>3 DEF clear_alias, To, AliasTypeOK
          <6>2. task[v].target \in Conv
            BY <1>0, <6>1, TaskIds DEF NoTask
          <6>3. alias[task[v].target] = NoConv
            BY <1>0, <4>1, <6>1 DEF TargetsCleared
          <6> QED BY <1>0, <4>1, <5>1, <6>2, <6>3 DEF AliasTypeOK
        <5> QED BY <5>2, <5>3
      <4> QED BY <4>2, <4>3 DEF TargetsCleared
    <3> QED BY <3>1, <3>2
  <2> QED BY <1>0, <2>1, <2>2 DEF CycleInv
<1>2. ASSUME NEW w \in Worker, save_alias(w) PROVE CycleInv'
  <2>0. /\ task[w] # NoTask
        /\ task[w] \in [step : {"clear", "save", "publish", "evict"},
                        kind : {"attach", "link"}, old : Conv, target : Conv]
    BY <1>0, <1>2, TaskIds DEF save_alias, NoTask
  <2>1. TwoIds' /\ Exclusive'
    BY <1>2, <1>l, <2>0 DEF save_alias
  <2>2. TargetsCleared'
    <3>1. CASE torn
      BY <1>2, <3>1 DEF TargetsCleared, save_alias
    <3>2. CASE ~torn
      <4>1. alias[task[w].target] = NoConv /\ task[w].old # task[w].target
        BY <1>0, <1>2, <2>0, <3>2 DEF TargetsCleared, save_alias, TwoIds
      <4>2. Acyclic'
        BY <1>0, <1>2, <2>0, <3>2, <4>1, RedirectToTerminal
           DEF TargetsCleared, save_alias
      <4>3. ASSUME NEW v \in Worker, task'[v].step = "save"
            PROVE  alias'[task'[v].target] = NoConv
        <5>1. v # w /\ task'[v] = task[v]
          BY <1>0, <1>2, <2>0, <4>3 DEF save_alias, To, AliasTypeOK
        <5>2. task[v].target \in Conv
          BY <1>0, <4>3, <5>1, TaskIds DEF NoTask
        <5>3. task[v].target # task[w].old
          BY <1>0, <2>0, <5>1, <5>2 DEF Exclusive, Held
        <5>4. alias[task[v].target] = NoConv
          BY <1>0, <3>2, <4>3, <5>1 DEF TargetsCleared
        <5> QED BY <1>0, <1>2, <5>1, <5>2, <5>3, <5>4
                   DEF save_alias, AliasTypeOK
      <4> QED BY <4>2, <4>3 DEF TargetsCleared
    <3> QED BY <3>1, <3>2
  <2> QED BY <1>0, <2>1, <2>2 DEF CycleInv
<1>3. ASSUME NEW w \in Worker, publish(w) PROVE CycleInv'
  <2>0. /\ task[w] # NoTask
        /\ task[w] \in [step : {"clear", "save", "publish", "evict"},
                        kind : {"attach", "link"}, old : Conv, target : Conv]
    BY <1>0, <1>3, TaskIds DEF publish, NoTask
  <2>1. TwoIds' /\ Exclusive'
    BY <1>3, <1>l, <2>0 DEF publish
  <2>2. \A v \in Worker : task'[v].step = "save" => task'[v] = task[v]
    BY <1>0, <1>3, <2>0 DEF publish, To, AliasTypeOK, NoTask
  <2> QED BY <1>0, <1>3, <1>q, <2>1, <2>2 DEF publish, CycleInv
<1>4. ASSUME NEW w \in Worker, evict(w) \/ Crash(w) PROVE CycleInv'
  <2>1. TwoIds' /\ Exclusive'
    BY <1>4, <1>l DEF evict, Crash
  <2>2. \A v \in Worker : task'[v].step = "save" => task'[v] = task[v]
    BY <1>0, <1>4 DEF evict, Crash, AliasTypeOK, NoTask
  <2> QED BY <1>0, <1>4, <1>q, <2>1, <2>2 DEF evict, Crash, CycleInv
<1>5. ASSUME UNCHANGED <<alias, torn, task>> PROVE CycleInv'
  BY <1>0, <1>5, <1>q DEF CycleInv, TwoIds, Exclusive, Held
<1>6. ASSUME NEW w \in Worker, NEW c \in Conv, NEW t \in Conv,
             attach(w, c, t) \/ link_predecessor(w, c, t)
      PROVE  CycleInv'
  <2>1. PICK k \in {"attach", "link"} : Start(w, k, c, t)
    BY <1>6 DEF attach, link_predecessor
  <2>2. c # t
    BY <1>6 DEF attach, link_predecessor
  <2>3. /\ task'[w].old = c /\ task'[w].target = t /\ task'[w].step = "clear"
        /\ \A v \in Worker \ {w} : task'[v] = task[v]
    BY <1>0, <2>1 DEF Start, AliasTypeOK
  <2>4. \A v \in Worker \ {w} : Held(v) \cap {c, t} = {}
    BY <2>1 DEF Start, Free
  <2>5. Held(w)' = {c, t} /\ \A v \in Worker \ {w} : Held(v)' = Held(v)
    BY <2>3 DEF Held
  <2>6. Exclusive'
    <3> SUFFICES ASSUME NEW u \in Worker, NEW v \in Worker, u # v
                 PROVE  Held(u)' \cap Held(v)' = {}
      BY DEF Exclusive
    <3>1. CASE u = w
      BY <2>4, <2>5, <3>1
    <3>2. CASE v = w
      BY <2>4, <2>5, <3>2
    <3>3. CASE u # w /\ v # w
      BY <1>0, <2>5, <3>3 DEF Exclusive
    <3> QED BY <3>1, <3>2, <3>3
  <2>7. TwoIds'
    BY <1>0, <2>2, <2>3 DEF TwoIds
  <2>8. \A v \in Worker : task'[v].step = "save" => task'[v] = task[v]
    BY <2>3
  <2> QED BY <1>0, <1>q, <2>1, <2>6, <2>7, <2>8 DEF Start, CycleInv
<1>7. ASSUME NEW w \in Worker, NEW c \in Conv, NEW t \in Conv,
             merge_conversation_data(w, c, t)
      PROVE  CycleInv'
  <2>1. TwoIds' /\ Exclusive'
    BY <1>7, <1>l DEF merge_conversation_data
  <2>2. TargetsCleared'
    <3>1. CASE torn \/ alias[t] # NoConv
      BY <1>7, <3>1 DEF TargetsCleared, merge_conversation_data
    <3>2. CASE ~torn /\ alias[t] = NoConv
      <4>1. Acyclic'
        BY <1>0, <1>7, <3>2, RedirectToTerminal
           DEF TargetsCleared, merge_conversation_data
      <4>2. ASSUME NEW v \in Worker, task'[v].step = "save"
            PROVE  alias'[task'[v].target] = NoConv
        <5>1. task' = task /\ v # w
          BY <1>7, <4>2 DEF merge_conversation_data, NoTask
        <5>2. task[v].target \in Conv
          BY <1>0, <4>2, <5>1, TaskIds DEF NoTask
        <5>3. task[v].target # c
          BY <1>7, <5>1, <5>2 DEF merge_conversation_data, Free, Held
        <5>4. alias[task[v].target] = NoConv
          BY <1>0, <3>2, <4>2, <5>1 DEF TargetsCleared
        <5> QED BY <1>0, <1>7, <5>1, <5>2, <5>3, <5>4
                   DEF merge_conversation_data, AliasTypeOK
      <4> QED BY <4>1, <4>2 DEF TargetsCleared
    <3> QED BY <3>1, <3>2
  <2> QED BY <1>0, <2>1, <2>2 DEF CycleInv
<1>8. ASSUME NEW w \in Worker, EnterRegistry(w) \/ Deliver(w) PROVE CycleInv'
  BY <1>5, <1>8 DEF EnterRegistry, Deliver
<1>9. ASSUME NEW w \in Worker, NEW c \in Conv,
             Build(w, c) \/ delete_conversation(w, c)
      PROVE  CycleInv'
  BY <1>5, <1>9 DEF Build, delete_conversation
<1>10. CASE UNCHANGED vars
  BY <1>5, <1>10 DEF vars
<1> QED
  BY <1>1, <1>2, <1>3, <1>4, <1>6, <1>7, <1>8, <1>9, <1>10 DEF Next, Step

\* Under the lifecycle leases of both ids, attaches, links and merges of any
\* number of workers never make the alias table cyclic, unless a target kept
\* an alias of its own (a clear that failed, or a merge into an aliased id).
THEOREM AliasesStayAcyclic ==
  ASSUME Leases = TRUE
  PROVE  Spec => []NoAliasCycle
<1>1. Init => CycleInv
  <2> SUFFICES ASSUME Init PROVE CycleInv
    OBVIOUS
  <2>1. AliasTypeOK
    BY InitTypes
  <2>2. TwoIds /\ Exclusive
    BY DEF Init, TwoIds, Exclusive, Held, NoTask
  <2>3. TargetsCleared
    BY AliasAssumption DEF Init, TargetsCleared, Acyclic, NoTask
  <2> QED BY <2>1, <2>2, <2>3 DEF CycleInv
<1>2. CycleInv /\ [Next]_vars => CycleInv'
  BY CycleStep
<1>3. CycleInv => NoAliasCycle
  BY DEF CycleInv, TargetsCleared, Acyclic, NoAliasCycle
<1> QED BY <1>1, <1>2, <1>3, PTL DEF Spec

-----------------------------------------------------------------------------
(* Bindings.                                                               *)

\* The engines of a worker: in the registry, or about to enter it.
Bound(w) == cache[w] \cup ({building[w]} \ {NoConv})

\* An eviction of b by w is reported as given up, or still to come.
Pending(w, b) ==
  \/ <<w, b>> \in missed
  \/ b \in inbox[w]
  \/ \E v \in Worker : /\ task[v].old = b
                       /\ \/ task[v].step = "publish"
                          \/ v = w /\ task[v].step = "evict"

\* The inductive invariant behind NoStaleBinding: an engine under construction
\* counts, for the registry's lock keeps every eviction waiting for it.
BindingInv ==
  /\ AliasTypeOK
  /\ \A w \in Worker : \A b \in Bound(w) : alias[b] # NoConv => Pending(w, b)

LEMMA BindingStep ==
  ASSUME BindingInv, [Next]_vars
  PROVE  BindingInv'
<1> USE AliasAssumption
<1>0. AliasTypeOK /\ AliasTypeOK'
  BY TypeStep DEF BindingInv
<1>t. AliasTable
  BY <1>0 DEF AliasTypeOK, AliasTable
<1>i. \A w \in Worker : \A b \in Bound(w) : alias[b] # NoConv => Pending(w, b)
  BY DEF BindingInv
<1>b. \A w \in Worker : Bound(w) \subseteq Conv
  BY <1>0 DEF AliasTypeOK, Bound
\* It is enough to look at one engine of one worker.
<1>s. ASSUME \A v \in Worker : \A b \in Bound(v)' : alias'[b] # NoConv => Pending(v, b)'
      PROVE  BindingInv'
  BY <1>0, <1>s DEF BindingInv
<1>1. ASSUME NEW w \in Worker, clear_alias(w) PROVE BindingInv'
  <2>0. task[w] \in [step : {"clear", "save", "publish", "evict"},
                     kind : {"attach", "link"}, old : Conv, target : Conv]
    BY <1>0, <1>1, TaskIds DEF clear_alias, NoTask
  <2> SUFFICES ASSUME NEW v \in Worker, NEW b \in Bound(v)', alias'[b] # NoConv
               PROVE  Pending(v, b)'
    BY <1>s
  <2>1. b \in Bound(v) /\ b \in Conv
    BY <1>1, <1>b DEF clear_alias, workers, Bound
  <2>2. alias[b] # NoConv
    BY <1>0, <1>1, <2>0, <2>1 DEF clear_alias, AliasTypeOK
  <2>3. Pending(v, b)
    BY <1>i, <2>1, <2>2
  <2>4. \A u \in Worker : task[u].step # "clear" => task'[u] = task[u]
    BY <1>0, <1>1 DEF clear_alias, To, AliasTypeOK
  <2> QED BY <1>1, <2>3, <2>4 DEF clear_alias, workers, Pending
<1>2. ASSUME NEW w \in Worker, save_alias(w) PROVE BindingInv'
  <2>0. task[w] \in [step : {"clear", "save", "publish", "evict"},
                     kind : {"attach", "link"}, old : Conv, target : Conv]
    BY <1>0, <1>2, TaskIds DEF save_alias, NoTask
  <2> SUFFICES ASSUME NEW v \in Worker, NEW b \in Bound(v)', alias'[b] # NoConv
               PROVE  Pending(v, b)'
    BY <1>s
  <2>1. b \in Bound(v) /\ b \in Conv
    BY <1>2, <1>b DEF save_alias, workers, Bound
  <2>2. task'[w].old = task[w].old /\ task'[w].step = "publish"
    BY <1>0, <1>2, <2>0 DEF save_alias, To, AliasTypeOK
  <2>3. CASE b = task[w].old
    BY <2>2, <2>3 DEF Pending
  <2>4. CASE b # task[w].old
    <3>1. alias[b] # NoConv
      BY <1>0, <1>2, <2>0, <2>1, <2>4 DEF save_alias, AliasTypeOK
    <3>2. Pending(v, b)
      BY <1>i, <2>1, <3>1
    <3>3. \A u \in Worker : task[u].step # "save" => task'[u] = task[u]
      BY <1>0, <1>2 DEF save_alias, To, AliasTypeOK
    <3> QED BY <1>2, <3>2, <3>3 DEF save_alias, workers, Pending
  <2> QED BY <2>3, <2>4
<1>3. ASSUME NEW w \in Worker, publish(w) PROVE BindingInv'
  <2> DEFINE c == task[w].old
             Names == EventIds(c, task[w].target)
  <2>0. task[w] \in [step : {"clear", "save", "publish", "evict"},
                     kind : {"attach", "link"}, old : Conv, target : Conv]
    BY <1>0, <1>3, TaskIds DEF publish, NoTask
  <2>e. \A ids \in Names : c \in ids
    BY <1>t, <2>0, EventNames
  <2> SUFFICES ASSUME NEW v \in Worker, NEW b \in Bound(v)', alias'[b] # NoConv
               PROVE  Pending(v, b)'
    BY <1>s
  <2>1. b \in Bound(v) /\ alias[b] # NoConv
    BY <1>3 DEF publish, Bound
  <2>2. Pending(v, b)
    BY <1>i, <2>1
  <2>3. \A u \in Worker \ {w} : task'[u] = task[u]
    BY <1>0, <1>3 DEF publish, To, AliasTypeOK
  <2>4. inbox[v] \subseteq inbox'[v]
    BY <1>0, <1>3 DEF publish, AliasTypeOK
  <2>5. CASE b = c
    <3>1. CASE /\ \E ids \in Names :
                    inbox' = [u \in Worker |-> IF u = w THEN inbox[u]
                                                       ELSE inbox[u] \cup ids]
               /\ To(w, "evict")
      <4>1. task'[w].old = c /\ task'[w].step = "evict"
        BY <1>0, <2>0, <3>1 DEF To, AliasTypeOK
      <4>2. CASE v = w
        BY <2>5, <4>1, <4>2 DEF Pending
      <4>3. CASE v # w
        BY <2>e, <2>5, <3>1, <4>3 DEF Pending
      <4> QED BY <4>2, <4>3
    <3>2. CASE /\ missed' = missed \cup ((Worker \ {w}) \X {c})
               /\ To(w, "evict")
      <4>1. task'[w].old = c /\ task'[w].step = "evict"
        BY <1>0, <2>0, <3>2 DEF To, AliasTypeOK
      <4>2. CASE v = w
        BY <2>5, <4>1, <4>2 DEF Pending
      <4>3. CASE v # w
        BY <2>5, <3>2, <4>3 DEF Pending
      <4> QED BY <4>2, <4>3
    <3>3. CASE missed' = missed \cup (Worker \X {c})
      BY <2>5, <3>3 DEF Pending
    <3> QED BY <1>3, <3>1, <3>2, <3>3 DEF publish
  <2>6. CASE b # c
    <3>1. CASE <<v, b>> \in missed
      <4>1. <<v, b>> \in missed'
        BY <1>3, <2>6, <3>1 DEF publish
      <4> QED BY <4>1 DEF Pending
    <3>2. CASE b \in inbox[v]
      BY <2>4, <3>2 DEF Pending
    <3>3. CASE \E u \in Worker : /\ task[u].old = b
                                 /\ \/ task[u].step = "publish"
                                    \/ u = v /\ task[u].step = "evict"
      BY <2>3, <2>6, <3>3 DEF Pending
    <3> QED BY <2>2, <3>1, <3>2, <3>3 DEF Pending
  <2> QED BY <2>5, <2>6
<1>4. ASSUME NEW w \in Worker, evict(w) PROVE BindingInv'
  <2> SUFFICES ASSUME NEW v \in Worker, NEW b \in Bound(v)', alias'[b] # NoConv
               PROVE  Pending(v, b)'
    BY <1>s
  <2>1. b \in Bound(v) /\ alias[b] # NoConv /\ b \in Conv
    BY <1>0, <1>4, <1>b DEF evict, Bound, AliasTypeOK
  <2>2. Pending(v, b)
    BY <1>i, <2>1
  <2>3. v = w => b # task[w].old
    BY <1>0, <1>4, <2>1 DEF evict, Bound, Held, AliasTypeOK
  <2>4. task[w].step = "evict" /\ \A u \in Worker \ {w} : task'[u] = task[u]
    BY <1>0, <1>4 DEF evict, AliasTypeOK
  <2>5. <<v, b>> \in missed => <<v, b>> \in missed'
    BY <1>4, <2>3 DEF evict
  <2>6. ASSUME NEW u \in Worker, task[u].old = b,
               task[u].step = "publish" \/ (u = v /\ task[u].step = "evict")
        PROVE  u # w
    BY <2>3, <2>4, <2>6
  <2>7. inbox' = inbox
    BY <1>4 DEF evict
  <2> QED BY <2>2, <2>4, <2>5, <2>6, <2>7 DEF Pending
<1>5. ASSUME NEW w \in Worker, EnterRegistry(w) PROVE BindingInv'
  <2>1. \A v \in Worker : Bound(v)' = Bound(v)
    BY <1>0, <1>5 DEF EnterRegistry, Bound, AliasTypeOK
  <2>2. \A v \in Worker : \A b : Pending(v, b)' <=> Pending(v, b)
    BY <1>5 DEF EnterRegistry, Pending
  <2> QED BY <1>5, <1>i, <1>s, <2>1, <2>2 DEF EnterRegistry
<1>6. ASSUME NEW w \in Worker, Deliver(w) PROVE BindingInv'
  <2> SUFFICES ASSUME NEW v \in Worker, NEW b \in Bound(v)', alias'[b] # NoConv
               PROVE  Pending(v, b)'
    BY <1>s
  <2>1. b \in Bound(v) /\ alias[b] # NoConv
    BY <1>0, <1>6 DEF Deliver, Bound, AliasTypeOK
  <2>2. Pending(v, b)
    BY <1>i, <2>1
  <2>3. v = w => b \notin inbox[w]
    BY <1>0, <1>6 DEF Deliver, Bound, AliasTypeOK
  <2>4. v # w => inbox'[v] = inbox[v]
    BY <1>0, <1>6 DEF Deliver, AliasTypeOK
  <2>5. <<v, b>> \in missed => <<v, b>> \in missed'
    BY <1>6, <2>3 DEF Deliver
  <2>6. task' = task
    BY <1>6 DEF Deliver
  <2> QED BY <2>2, <2>3, <2>4, <2>5, <2>6 DEF Pending
<1>7. ASSUME NEW w \in Worker, Crash(w) PROVE BindingInv'
  <2> SUFFICES ASSUME NEW v \in Worker, NEW b \in Bound(v)', alias'[b] # NoConv
               PROVE  Pending(v, b)'
    BY <1>s
  <2>1. v # w /\ b \in Bound(v) /\ alias[b] # NoConv
    BY <1>0, <1>7 DEF Crash, Bound, AliasTypeOK
  <2>2. Pending(v, b)
    BY <1>i, <2>1
  <2>3. inbox'[v] = inbox[v] /\ missed \subseteq missed'
    BY <1>0, <1>7, <2>1 DEF Crash, AliasTypeOK
  <2>4. \A u \in Worker \ {w} : task'[u] = task[u]
    BY <1>0, <1>7 DEF Crash, AliasTypeOK
  <2>5. task[w].step = "publish" => <<v, task[w].old>> \in missed'
    BY <1>7 DEF Crash
  <2> QED BY <2>1, <2>2, <2>3, <2>4, <2>5 DEF Pending
<1>8. ASSUME NEW w \in Worker, NEW c \in Conv, Build(w, c) PROVE BindingInv'
  <2> DEFINE r == IF alias[c] # NoConv THEN alias[c] ELSE c
             x == walk_conversation_alias_chain(r)
  <2>0. r \in Conv
    BY <1>0 DEF AliasTypeOK
  <2>1. x \in Conv \cup {NoConv} /\ (x # NoConv => alias[x] = NoConv)
    BY <1>t, <2>0, WalkEndsAtTerminal
  <2> HIDE DEF r
  <2> SUFFICES ASSUME NEW v \in Worker, NEW b \in Bound(v)', alias'[b] # NoConv
               PROVE  Pending(v, b)'
    BY <1>s
  <2>2. x # NoConv /\ building' = [building EXCEPT ![w] = x]
        /\ UNCHANGED <<alias, task, cache, inbox, missed>>
    BY <1>8 DEF Build, r
  <2> HIDE DEF x
  <2>3. b = x \/ b \in Bound(v)
    BY <1>0, <2>2 DEF Bound, AliasTypeOK
  <2>4. b \in Bound(v) /\ alias[b] # NoConv
    BY <2>1, <2>2, <2>3
  <2>5. Pending(v, b)
    BY <1>i, <2>4
  <2> QED BY <2>2, <2>5 DEF Pending
<1>9. ASSUME NEW w \in Worker, NEW c \in Conv, delete_conversation(w, c)
      PROVE  BindingInv'
  <2>1. \A v \in Worker : Bound(v)' \subseteq Bound(v)
    BY <1>0, <1>9 DEF delete_conversation, Bound, AliasTypeOK
  <2>2. \A v \in Worker : \A b : Pending(v, b)' <=> Pending(v, b)
    BY <1>9 DEF delete_conversation, Pending
  <2> QED BY <1>9, <1>i, <1>s, <2>1, <2>2 DEF delete_conversation
<1>10. ASSUME NEW w \in Worker, NEW c \in Conv, NEW t \in Conv,
              attach(w, c, t) \/ link_predecessor(w, c, t)
       PROVE  BindingInv'
  <2>1. PICK k \in {"attach", "link"} : Start(w, k, c, t)
    BY <1>10 DEF attach, link_predecessor
  <2>2. task[w].step = "none" /\ \A v \in Worker \ {w} : task'[v] = task[v]
    BY <1>0, <2>1 DEF Start, AliasTypeOK, NoTask
  <2>3. UNCHANGED <<alias, building, cache, inbox, missed>>
    BY <2>1 DEF Start, workers
  <2>4. \A v \in Worker : Bound(v)' = Bound(v)
    BY <2>3 DEF Bound
  <2>5. \A v \in Worker : \A b : Pending(v, b) => Pending(v, b)'
    BY <2>2, <2>3 DEF Pending
  <2> QED BY <1>i, <1>s, <2>3, <2>4, <2>5
<1>11. ASSUME NEW w \in Worker, NEW c \in Conv, NEW t \in Conv,
              merge_conversation_data(w, c, t)
       PROVE  BindingInv'
  <2>e. \A ids \in EventIds(c, t) : c \in ids
    BY <1>t, EventNames
  <2> SUFFICES ASSUME NEW v \in Worker, NEW b \in Bound(v)', alias'[b] # NoConv
               PROVE  Pending(v, b)'
    BY <1>s
  <2>1. b \in Bound(v) /\ b \in Conv
    BY <1>11, <1>b DEF merge_conversation_data, Bound
  <2>2. inbox[v] \subseteq inbox'[v] /\ missed \subseteq missed' /\ task' = task
    BY <1>0, <1>11 DEF merge_conversation_data, AliasTypeOK
  <2>3. CASE b = c
    <3>1. c \in inbox'[v] \/ <<v, c>> \in missed'
      BY <1>11, <2>e DEF merge_conversation_data
    <3> QED BY <2>3, <3>1 DEF Pending
  <2>4. CASE b # c
    <3>1. alias[b] # NoConv
      BY <1>0, <1>11, <2>1, <2>4 DEF merge_conversation_data, AliasTypeOK
    <3>2. Pending(v, b)
      BY <1>i, <2>1, <3>1
    <3> QED BY <2>2, <3>2 DEF Pending
  <2> QED BY <2>3, <2>4
<1>12. CASE UNCHANGED vars
  <2>1. \A v \in Worker : Bound(v)' = Bound(v)
    BY <1>12 DEF vars, Bound
  <2>2. \A v \in Worker : \A b : Pending(v, b)' <=> Pending(v, b)
    BY <1>12 DEF vars, Pending
  <2> QED BY <1>12, <1>i, <1>s, <2>1, <2>2 DEF vars
<1> QED
  BY <1>1, <1>2, <1>3, <1>4, <1>5, <1>6, <1>7, <1>8, <1>9, <1>10, <1>11, <1>12
     DEF Next, Step

\* No worker serves an id that redirects elsewhere without an eviction of it
\* reported as given up or still to come, for any workers and with or without
\* leases: the registry's lock and the order commit, publish, evict suffice.
THEOREM StaleBindingsEnd == Spec => []NoStaleBinding
<1>1. Init => BindingInv
  <2>1. Init => \A w \in Worker : Bound(w) = {}
    BY DEF Init, Bound
  <2> QED BY <2>1, InitTypes DEF BindingInv
<1>2. BindingInv /\ [Next]_vars => BindingInv'
  BY BindingStep
<1>3. BindingInv => NoStaleBinding
  BY DEF BindingInv, Bound, Pending, NoStaleBinding
<1> QED BY <1>1, <1>2, <1>3, PTL DEF Spec

=============================================================================

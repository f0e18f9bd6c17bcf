--------------------------- MODULE ArcCache_proofs ---------------------------
(***************************************************************************)
(* Proofs about ArcCache.  The first lemmas are about RemoveFirst and Min, *)
(* the next ones about the operations of one part; the steps of the cache  *)
(* combine them.                                                           *)
(***************************************************************************)
EXTENDS ArcCache, SequenceTheorems, FiniteSetTheorems, TLAPS

-----------------------------------------------------------------------------
(* Sequences and least elements *)

\* Every non-empty set of natural numbers has a least element: the initial
\* segments {0..n} are finite, and strict inclusion of finite sets is well-founded.
LEMMA LeastNatural ==
  ASSUME NEW T, T \subseteq Nat, T # {}
  PROVE  \E m \in T : \A n \in T : m <= n
<1> DEFINE Segments == {0..n : n \in T}
<1>1. Segments \subseteq FiniteSubsetsOf(Nat) /\ Segments # {}
  <2>1. ASSUME NEW n \in T PROVE 0..n \in FiniteSubsetsOf(Nat)
    <3>1. n \in Nat /\ 0..n \subseteq Nat
      OBVIOUS
    <3>2. IsFiniteSet(0..n)
      BY <3>1, FS_Interval
    <3> QED
      BY <3>1, <3>2 DEF FiniteSubsetsOf
  <2> QED
    BY <2>1
<1>2. PICK X \in Segments : \A Y \in Segments : <<Y, X>> \notin StrictSubsetOrdering(Nat)
  <2> HIDE DEF Segments
  <2> QED
    BY <1>1, FS_StrictSubsetOrderingWellFounded, WFMin
<1>3. PICK m \in T : X = 0..m
  OBVIOUS
<1>4. ASSUME NEW n \in T, n < m PROVE FALSE
  <2>1. 0..n \in SUBSET Nat /\ 0..m \in SUBSET Nat /\ 0..n \subseteq 0..m
    BY <1>4
  <2>2. m \in 0..m /\ m \notin 0..n
    BY <1>4
  <2>3. <<0..n, 0..m>> \in StrictSubsetOrdering(Nat)
    BY <2>1, <2>2 DEF StrictSubsetOrdering
  <2> QED
    BY <1>2, <1>3, <2>3
<1> QED
  BY <1>4

\* RemoveFirst takes one occurrence out and keeps the order of the others.
LEMMA RemoveFirstAt ==
  ASSUME NEW S, NEW s \in Seq(S), NEW e, \E i \in 1..Len(s) : s[i] = e
  PROVE  \E i \in 1..Len(s) :
            /\ s[i] = e
            /\ RemoveFirst(s, e) \in Seq(S)
            /\ Len(RemoveFirst(s, e)) = Len(s) - 1
            /\ \A j \in 1..(Len(s) - 1) :
                  RemoveFirst(s, e)[j] = IF j < i THEN s[j] ELSE s[j + 1]
<1> DEFINE I == {i \in 1..Len(s) : s[i] = e}
<1>1. PICK i \in I : \A j \in I : i <= j
  <2>1. I \subseteq Nat /\ I # {}
    OBVIOUS
  <2> HIDE DEF I
  <2> QED
    BY <2>1, LeastNatural
<1>2. Min(I) \in I
  BY <1>1 DEF Min
<1>3. RemoveFirst(s, e) = RemoveAt(s, Min(I))
  BY <1>1 DEF RemoveFirst, SelectInSeq
<1> HIDE DEF I
<1> DEFINE m == Min(I)
<1>4. m \in 1..Len(s) /\ s[m] = e
  BY <1>2 DEF I
<1> HIDE DEF m
<1>5. RemoveFirst(s, e) = SubSeq(s, 1, m - 1) \o SubSeq(s, m + 1, Len(s))
  BY <1>3 DEF RemoveAt, m
<1> DEFINE l == SubSeq(s, 1, m - 1)
<1> DEFINE r == SubSeq(s, m + 1, Len(s))
<1>6. l \in Seq(S) /\ Len(l) = m - 1 /\ \A j \in 1..(m - 1) : l[j] = s[j]
  BY <1>4, SubSeqProperties
<1>7. r \in Seq(S) /\ Len(r) = Len(s) - m /\ \A j \in 1..(Len(s) - m) : r[j] = s[m + j]
  BY <1>4, SubSeqProperties
<1> HIDE DEF l, r
<1> DEFINE t == RemoveFirst(s, e)
<1>8. /\ t \in Seq(S)
      /\ Len(t) = Len(s) - 1
      /\ \A j \in 1..(Len(s) - 1) : t[j] = IF j <= m - 1 THEN l[j] ELSE r[j - (m - 1)]
  <2>1. t = l \o r
    BY <1>5 DEF l, r
  <2> HIDE DEF t
  <2>2. /\ t \in Seq(S) /\ Len(t) = Len(l) + Len(r)
        /\ \A j \in 1..(Len(l) + Len(r)) : t[j] = IF j <= Len(l) THEN l[j] ELSE r[j - Len(l)]
    BY <1>6, <1>7, <2>1, ConcatProperties
  <2>3. Len(l) = m - 1 /\ Len(l) + Len(r) = Len(s) - 1
    BY <1>4, <1>6, <1>7
  <2> QED
    BY <2>2, <2>3
<1> HIDE DEF t
<1>9. ASSUME NEW j \in 1..(Len(s) - 1) PROVE t[j] = IF j < m THEN s[j] ELSE s[j + 1]
  <2>1. CASE j < m
    BY <1>4, <1>6, <1>8, <2>1
  <2>2. CASE j >= m
    <3>1. t[j] = r[j - (m - 1)]
      BY <1>4, <1>8, <2>2
    <3>2. j - (m - 1) \in 1..(Len(s) - m) /\ m + (j - (m - 1)) = j + 1
      BY <1>4, <2>2
    <3> QED
      BY <1>4, <1>7, <2>2, <3>1, <3>2
  <2> QED
    BY <1>4, <2>1, <2>2
<1> QED
  BY <1>4, <1>8, <1>9 DEF t

\* What RemoveFirst does to a list without repetitions.
LEMMA RemoveFirstFacts ==
  ASSUME NEW S, NEW s \in Seq(S), IsInjective(s), NEW e
  PROVE  /\ RemoveFirst(s, e) \in Seq(S)
         /\ Range(RemoveFirst(s, e)) = Range(s) \ {e}
         /\ IsInjective(RemoveFirst(s, e))
<1>1. CASE e \in Range(s)
  <2>1. PICK i \in 1..Len(s) :
            /\ s[i] = e
            /\ RemoveFirst(s, e) \in Seq(S)
            /\ Len(RemoveFirst(s, e)) = Len(s) - 1
            /\ \A j \in 1..(Len(s) - 1) :
                  RemoveFirst(s, e)[j] = IF j < i THEN s[j] ELSE s[j + 1]
    <3>1. \E i \in 1..Len(s) : s[i] = e
      BY <1>1 DEF Range
    <3> QED
      BY <3>1, RemoveFirstAt
  <2> DEFINE t == RemoveFirst(s, e)
  <2> HIDE DEF t
  <2>2. /\ DOMAIN s = 1..Len(s) /\ DOMAIN t = 1..(Len(s) - 1) /\ Len(s) \in Nat
        /\ \A j \in 1..(Len(s) - 1) : t[j] = IF j < i THEN s[j] ELSE s[j + 1]
    BY <2>1 DEF t
  <2>3. ASSUME NEW j \in DOMAIN t PROVE t[j] \in Range(s) \ {e}
    <3>1. CASE j < i
      <4>1. j \in DOMAIN s /\ t[j] = s[j] /\ j # i
        BY <2>2, <3>1
      <4> QED
        BY <2>1, <2>2, <4>1 DEF Range, IsInjective
    <3>2. CASE ~(j < i)
      <4>1. j + 1 \in DOMAIN s /\ t[j] = s[j + 1] /\ j + 1 # i
        BY <2>2, <3>2
      <4> QED
        BY <2>1, <2>2, <4>1 DEF Range, IsInjective
    <3> QED
      BY <3>1, <3>2
  <2>4. ASSUME NEW k \in DOMAIN s, s[k] # e PROVE s[k] \in Range(t)
    <3>1. k < i \/ k > i
      BY <2>1, <2>2, <2>4
    <3>2. CASE k < i
      <4>1. k \in DOMAIN t /\ t[k] = s[k]
        BY <2>2, <3>2
      <4> QED
        BY <4>1 DEF Range
    <3>3. CASE k > i
      <4>1. k - 1 \in DOMAIN t /\ ~(k - 1 < i) /\ (k - 1) + 1 = k
        BY <2>2, <3>3
      <4>2. t[k - 1] = s[k]
        BY <2>2, <4>1
      <4> QED
        BY <4>1, <4>2 DEF Range
    <3> QED
      BY <3>1, <3>2, <3>3
  <2>5. Range(t) = Range(s) \ {e}
    BY <2>3, <2>4 DEF Range
  <2>6. IsInjective(t)
    <3>1. SUFFICES ASSUME NEW j \in DOMAIN t, NEW k \in DOMAIN t, t[j] = t[k] PROVE j = k
      BY DEF IsInjective
    <3> DEFINE f(n) == IF n < i THEN n ELSE n + 1
    <3>2. f(j) \in DOMAIN s /\ f(k) \in DOMAIN s /\ s[f(j)] = s[f(k)]
      BY <2>2, <3>1
    <3>3. f(j) = f(k)
      BY <3>2 DEF IsInjective
    <3> QED
      BY <2>2, <3>3
  <2> QED
    BY <2>1, <2>5, <2>6 DEF t
<1>2. CASE e \notin Range(s)
  <2>1. RemoveFirst(s, e) = s
    BY <1>2 DEF RemoveFirst, Range
  <2> QED
    BY <1>2, <2>1
<1> QED
  BY <1>1, <1>2

-----------------------------------------------------------------------------
(* Ghosts and evictions *)

LEMMA UnmapType ==
  ASSUME NEW g \in Ghosts, NEW k \in Keys
  PROVE  Unmap(g, k) \in Ghosts
<1> DEFINE Nodes == [key : Keys, mapped : BOOLEAN]
<1>1. Len(g) \in Nat /\ DOMAIN g = 1..Len(g) /\ \A i \in 1..Len(g) : g[i] \in Nodes
  <2>1. g \in Seq(Nodes)
    BY DEF Ghosts
  <2> HIDE DEF Nodes
  <2> QED
    BY <2>1, LenProperties, ElementOfSeq
<1>2. [key |-> k, mapped |-> FALSE] \in Nodes
  OBVIOUS
<1> HIDE DEF Nodes
<1>3. Unmap(g, k) \in [1..Len(g) -> Nodes]
  BY <1>1, <1>2 DEF Unmap
<1>4. Unmap(g, k) \in Seq(Nodes)
  BY <1>1, <1>3, SeqDef
<1> QED
  BY <1>4 DEF Ghosts, Nodes

LEMMA AddGhostType ==
  ASSUME NEW g \in Ghosts, NEW k \in Keys
  PROVE  AddGhost(g, k) \in Ghosts
<1>1. RemoveOldest(g) \in Ghosts
  <2>1. CASE g = <<>>
    BY <2>1 DEF RemoveOldest
  <2>2. CASE g # <<>>
    <3>1. Tail(g) \in Ghosts /\ Head(g) \in [key : Keys, mapped : BOOLEAN]
      BY <2>2, HeadTailProperties DEF Ghosts
    <3> QED
      BY <2>2, <3>1, UnmapType DEF RemoveOldest
  <2> QED
    BY <2>1, <2>2
<1> DEFINE room == IF Cardinality(Mapped(g)) >= Capacity THEN RemoveOldest(g) ELSE g
<1>2. Unmap(room, k) \in Ghosts
  BY <1>1, UnmapType
<1>3. AddGhost(g, k) = Append(Unmap(room, k), [key |-> k, mapped |-> TRUE])
  BY DEF AddGhost
<1> HIDE DEF room
<1> QED
  BY <1>2, <1>3, AppendProperties DEF Ghosts

LEMMA RemoveGhostType ==
  ASSUME NEW g \in Ghosts, NEW n
  PROVE  RemoveFirst(g, n) \in Ghosts
<1>1. CASE \E i \in 1..Len(g) : g[i] = n
  BY <1>1, RemoveFirstAt DEF Ghosts
<1>2. CASE ~\E i \in 1..Len(g) : g[i] = n
  BY <1>2 DEF RemoveFirst
<1> QED
  BY <1>1, <1>2

\* Some entries are forgotten, the others stay.
Forgets(before, after) == \A k \in Keys : after[k] \in {before[k], None}

\* The list of a part is its map in some order.
Sound(part) ==
    /\ IsFiniteSet(Cached(part))
    /\ Range(part.list) = Cached(part)
    /\ IsInjective(part.list)

\* Evict on each field of a part.
LEMMA EvictFields ==
  ASSUME NEW p \in LruParts \cup LfuParts, NEW k \in Keys, NEW c \in Nat
  PROVE  /\ Evict(p, k, c).value = [p.value EXCEPT ![k] = None]
         /\ Evict(p, k, c).count = [p.count EXCEPT ![k] = c]
         /\ Evict(p, k, c).list = RemoveFirst(p.list, k)
         /\ Evict(p, k, c).capacity = p.capacity
         /\ p \in LfuParts => Evict(p, k, c).minFreq = p.minFreq
<1>1. CASE p \in LruParts
  BY <1>1 DEF Evict, LruParts, LfuParts
<1>2. CASE p \in LfuParts
  BY <1>2 DEF Evict, LfuParts
<1> QED
  BY <1>1, <1>2

\* Evicting a cached key makes room for one.
LEMMA EvictFacts ==
  ASSUME NEW p \in LruParts \cup LfuParts, Sound(p), NEW k \in Cached(p), NEW c \in Nat
  PROVE  /\ p \in LruParts => Evict(p, k, c) \in LruParts
         /\ p \in LfuParts => Evict(p, k, c) \in LfuParts
         /\ Sound(Evict(p, k, c))
         /\ Forgets(p.value, Evict(p, k, c).value)
         /\ Cached(Evict(p, k, c)) = Cached(p) \ {k}
         /\ Cardinality(Cached(Evict(p, k, c))) = Cardinality(Cached(p)) - 1
<1> DEFINE q == Evict(p, k, c)
<1>1. k \in Keys /\ p.value \in [Keys -> Values \cup {None}] /\ p.list \in Seq(Keys)
      /\ p.ghosts \in Ghosts
  BY DEF Cached, LruParts, LfuParts
<1>2. /\ q.value = [p.value EXCEPT ![k] = None]
      /\ q.list = RemoveFirst(p.list, k)
  BY <1>1, EvictFields
<1>3. RemoveFirst(p.list, k) \in Seq(Keys) /\ AddGhost(p.ghosts, k) \in Ghosts
  BY <1>1, RemoveFirstFacts, AddGhostType DEF Sound
<1>4. p \in LruParts => q \in LruParts
  BY <1>1, <1>3 DEF Evict, LruParts
<1>5. p \in LfuParts => q \in LfuParts
  BY <1>1, <1>3 DEF Evict, LfuParts
<1>6. Cached(q) = Cached(p) \ {k}
  BY <1>1, <1>2 DEF Cached
<1>7. Sound(q)
  BY <1>1, <1>2, <1>6, RemoveFirstFacts, FS_RemoveElement DEF Sound
<1>8. Cardinality(Cached(q)) = Cardinality(Cached(p)) - 1
  BY <1>6, FS_RemoveElement DEF Sound
<1>9. Forgets(p.value, q.value)
  BY <1>1, <1>2 DEF Forgets
<1> QED
  BY <1>4, <1>5, <1>6, <1>7, <1>8, <1>9

-----------------------------------------------------------------------------
(* The LRU part *)

LruOK(part) ==
    /\ part \in LruParts
    /\ Sound(part)
    /\ Cardinality(Cached(part)) <= part.capacity

LEMMA EvictLeastRecentFacts ==
  ASSUME NEW p \in LruParts, Sound(p), Cached(p) # {}
  PROVE  /\ EvictLeastRecent(p) \in LruParts
         /\ Sound(EvictLeastRecent(p))
         /\ Forgets(p.value, EvictLeastRecent(p).value)
         /\ Cached(EvictLeastRecent(p)) \subseteq Cached(p)
         /\ Cardinality(Cached(EvictLeastRecent(p))) = Cardinality(Cached(p)) - 1
         /\ EvictLeastRecent(p).capacity = p.capacity
<1>1. p.list \in Seq(Keys) /\ p.list # <<>>
  BY DEF LruParts, Sound, Range
<1>2. Last(p.list) \in Cached(p)
  <2>1. Len(p.list) \in DOMAIN p.list
    BY <1>1
  <2> QED
    BY <2>1 DEF Last, Sound, Range
<1>3. EvictLeastRecent(p) = Evict(p, Last(p.list), 1)
  BY <1>1 DEF EvictLeastRecent
<1> DEFINE k == Last(p.list)
<1>4. k \in Keys /\ k \in Cached(p)
  BY <1>2 DEF Cached
<1>5. EvictLeastRecent(p) = Evict(p, k, 1)
  BY <1>3
<1> HIDE DEF k
<1>6. Evict(p, k, 1).capacity = p.capacity
  <2>1. p \in LruParts \cup LfuParts /\ 1 \in Nat
    OBVIOUS
  <2> QED
    BY <1>4, <2>1, EvictFields
<1>7. /\ Evict(p, k, 1) \in LruParts
      /\ Sound(Evict(p, k, 1))
      /\ Forgets(p.value, Evict(p, k, 1).value)
      /\ Cached(Evict(p, k, 1)) = Cached(p) \ {k}
      /\ Cardinality(Cached(Evict(p, k, 1))) = Cardinality(Cached(p)) - 1
  BY <1>4, EvictFacts
<1> QED
  BY <1>5, <1>6, <1>7

\* ToFront puts a key that may be new at the front of the list.
LEMMA ToFrontFacts ==
  ASSUME NEW p \in LruParts, NEW k \in Cached(p), IsFiniteSet(Cached(p)),
         Range(p.list) \cup {k} = Cached(p), IsInjective(p.list)
  PROVE  /\ ToFront(p, k) \in LruParts
         /\ Sound(ToFront(p, k))
         /\ ToFront(p, k).value = p.value
         /\ ToFront(p, k).capacity = p.capacity
<1> DEFINE t == RemoveFirst(p.list, k)
<1> DEFINE w == <<k>>
<1> DEFINE u == w \o t
<1>1. k \in Keys /\ p.list \in Seq(Keys)
  BY DEF Cached, LruParts
<1>2. t \in Seq(Keys) /\ Range(t) = Range(p.list) \ {k} /\ IsInjective(t)
  BY <1>1, RemoveFirstFacts
<1>3. w \in Seq(Keys) /\ Len(w) = 1 /\ w[1] = k /\ Range(w) = {k}
  BY <1>1 DEF Range
<1> HIDE DEF t, w
<1>4. /\ u \in Seq(Keys) /\ Len(u) = 1 + Len(t)
      /\ \A i \in 1..(1 + Len(t)) : u[i] = IF i <= 1 THEN w[i] ELSE t[i - 1]
  BY <1>2, <1>3, ConcatProperties
<1>5. Range(u) = Cached(p)
  <2>1. Range(u) = Range(w) \cup Range(t)
    BY <1>2, <1>3, RangeConcatenation
  <2> HIDE DEF u
  <2> QED
    BY <1>2, <1>3, <2>1
<1>6. IsInjective(u)
  <2>1. SUFFICES ASSUME NEW i \in DOMAIN u, NEW j \in DOMAIN u, u[i] = u[j] PROVE i = j
    BY DEF IsInjective
  <2> HIDE DEF u
  <2>2. Len(t) \in Nat /\ DOMAIN t = 1..Len(t) /\ DOMAIN u = 1..(1 + Len(t))
    BY <1>2, <1>4
  <2>3. ASSUME NEW n \in DOMAIN u, n # 1 PROVE n - 1 \in DOMAIN t /\ u[n] = t[n - 1] /\ u[n] # k
    <3>1. n - 1 \in DOMAIN t /\ u[n] = t[n - 1]
      BY <1>4, <2>2, <2>3
    <3> QED
      BY <1>2, <3>1 DEF Range
  <2>4. u[1] = k
    BY <1>3, <1>4, <2>2
  <2>5. CASE i = 1 \/ j = 1
    BY <2>1, <2>3, <2>4, <2>5
  <2>6. CASE i # 1 /\ j # 1
    <3>1. i - 1 \in DOMAIN t /\ j - 1 \in DOMAIN t /\ t[i - 1] = t[j - 1]
      BY <2>1, <2>3, <2>6
    <3>2. i - 1 = j - 1
      BY <1>2, <3>1 DEF IsInjective
    <3> QED
      BY <2>2, <3>2
  <2> QED
    BY <2>5, <2>6
<1>7. ToFront(p, k) = [p EXCEPT !.list = u]
  BY DEF ToFront, t, w
<1> HIDE DEF u
<1>8. /\ ToFront(p, k) \in LruParts
      /\ ToFront(p, k).list = u
      /\ ToFront(p, k).value = p.value
      /\ ToFront(p, k).capacity = p.capacity
  BY <1>4, <1>7 DEF LruParts
<1>9. Cached(ToFront(p, k)) = Cached(p)
  BY <1>8 DEF Cached
<1> QED
  BY <1>5, <1>6, <1>8, <1>9 DEF Sound

LEMMA LruTouchFacts ==
  ASSUME NEW p, LruOK(p), NEW k \in Cached(p)
  PROVE  /\ LruOK(LruTouch(p, k))
         /\ LruTouch(p, k).value = p.value
         /\ LruTouch(p, k).capacity = p.capacity
<1> DEFINE c == IF p.count[k] < Threshold THEN p.count[k] + 1 ELSE p.count[k]
<1> DEFINE q == [p EXCEPT !.count[k] = c]
<1>1. p \in LruParts /\ Sound(p)
  BY DEF LruOK
<1>2. /\ q \in LruParts /\ q.value = p.value /\ q.capacity = p.capacity /\ q.list = p.list
  <2>1. k \in Keys /\ p.count \in [Keys -> Nat]
    BY <1>1 DEF LruParts, Cached
  <2>2. c \in Nat
    BY <2>1, SizeAssumption
  <2> HIDE DEF c
  <2> QED
    BY <1>1, <2>1, <2>2 DEF LruParts
<1>3. LruTouch(p, k) = ToFront(q, k)
  BY DEF LruTouch
<1> HIDE DEF q
<1>4. Cached(q) = Cached(p)
  BY <1>2 DEF Cached
<1>5. /\ ToFront(q, k) \in LruParts
      /\ Sound(ToFront(q, k))
      /\ ToFront(q, k).value = q.value
      /\ ToFront(q, k).capacity = q.capacity
  BY <1>1, <1>2, <1>4, ToFrontFacts DEF Sound
<1>6. Cached(ToFront(q, k)) = Cached(p)
  BY <1>2, <1>5 DEF Cached
<1> QED
  BY <1>2, <1>3, <1>5, <1>6 DEF LruOK

\* A value is stored where its key is cached already or where there is room.
LEMMA LruStoreFacts ==
  ASSUME NEW p, LruOK(p), NEW k \in Keys, NEW v \in Values,
         k \in Cached(p) \/ Cardinality(Cached(p)) < p.capacity
  PROVE  /\ LruOK(ToFront([p EXCEPT !.value[k] = v], k))
         /\ ToFront([p EXCEPT !.value[k] = v], k).value = [p.value EXCEPT ![k] = v]
         /\ ToFront([p EXCEPT !.value[k] = v], k).capacity = p.capacity
<1> DEFINE m == [p EXCEPT !.value[k] = v]
<1> DEFINE q == ToFront(m, k)
<1>1. p \in LruParts /\ Sound(p) /\ p.capacity \in Nat
  BY DEF LruOK, LruParts
<1>2. /\ m \in LruParts /\ m.value = [p.value EXCEPT ![k] = v]
      /\ m.list = p.list /\ m.capacity = p.capacity
  BY <1>1 DEF LruParts
<1>3. Cached(m) = Cached(p) \cup {k}
  BY <1>1, <1>2, NoneAssumption DEF Cached, LruParts
<1> HIDE DEF m
<1>4. /\ IsFiniteSet(Cached(m))
      /\ Cardinality(Cached(m)) = IF k \in Cached(p) THEN Cardinality(Cached(p))
                                                     ELSE Cardinality(Cached(p)) + 1
  BY <1>1, <1>3, FS_AddElement DEF Sound
<1>5. Cardinality(Cached(p)) \in Nat /\ Cardinality(Cached(p)) <= p.capacity
  BY <1>1, FS_CardinalityType DEF Sound, LruOK
<1>6. /\ q \in LruParts /\ Sound(q) /\ q.value = m.value /\ q.capacity = m.capacity
  <2>1. k \in Cached(m) /\ Range(m.list) \cup {k} = Cached(m) /\ IsInjective(m.list)
    BY <1>1, <1>2, <1>3 DEF Sound
  <2> QED
    BY <1>2, <1>4, <2>1, ToFrontFacts
<1>7. Cached(q) = Cached(m)
  BY <1>6 DEF Cached
<1>8. Cardinality(Cached(q)) <= q.capacity
  BY <1>1, <1>2, <1>4, <1>5, <1>6, <1>7
<1> HIDE DEF q
<1> QED
  BY <1>2, <1>6, <1>8 DEF LruOK, m, q

LEMMA LruPutFacts ==
  ASSUME NEW p, LruOK(p), NEW k \in Keys, NEW v \in Values
  PROVE  /\ LruOK(LruPut(p, k, v))
         /\ LruPut(p, k, v).capacity = p.capacity
         /\ p.capacity = 0 => LruPut(p, k, v) = p
         /\ p.capacity # 0 => LruPut(p, k, v).value[k] = v
         /\ p.capacity # 0 => Forgets([p.value EXCEPT ![k] = v], LruPut(p, k, v).value)
<1>1. p \in LruParts /\ Sound(p) /\ p.capacity \in Nat /\ p.value \in [Keys -> Values \cup {None}]
  BY DEF LruOK, LruParts
<1>2. Cardinality(Cached(p)) \in Nat /\ Cardinality(Cached(p)) <= p.capacity
  BY <1>1, FS_CardinalityType DEF Sound, LruOK
<1>3. CASE p.capacity = 0
  BY <1>3 DEF LruPut
<1>4. CASE p.capacity # 0
  <2> DEFINE n == IF k \in Cached(p) THEN p
                  ELSE IF Cardinality(Cached(p)) >= p.capacity
                       THEN EvictLeastRecent(p) ELSE p
  <2>1. LruPut(p, k, v) = ToFront([n EXCEPT !.value[k] = v], k)
    BY <1>4 DEF LruPut
  <2>2. /\ LruOK(n) /\ n.capacity = p.capacity /\ Forgets(p.value, n.value)
        /\ k \in Cached(n) \/ Cardinality(Cached(n)) < n.capacity
    <3>1. CASE n = p
      <4>1. k \in Cached(p) \/ ~(Cardinality(Cached(p)) >= p.capacity)
        <5>1. ASSUME k \notin Cached(p), Cardinality(Cached(p)) >= p.capacity PROVE FALSE
          <6>1. Cached(p) # {}
            BY <1>1, <1>2, <1>4, <5>1, FS_EmptySet
          <6>2. Cardinality(Cached(EvictLeastRecent(p))) = Cardinality(Cached(p)) - 1
            BY <1>1, <6>1, EvictLeastRecentFacts
          <6> QED
            BY <1>2, <3>1, <5>1, <6>2
        <5> QED
          BY <5>1
      <4>2. p.value \in [Keys -> Values \cup {None}] /\ Forgets(p.value, p.value)
        BY <1>1 DEF Forgets
      <4> QED
        BY <1>1, <1>2, <3>1, <4>1, <4>2
    <3>2. CASE n # p
      <4>1. n = EvictLeastRecent(p) /\ Cardinality(Cached(p)) >= p.capacity
        BY <3>2
      <4>2. Cached(p) # {}
        BY <1>1, <1>2, <1>4, <4>1, FS_EmptySet
      <4>3. /\ n \in LruParts /\ Sound(n) /\ Forgets(p.value, n.value)
            /\ Cardinality(Cached(n)) = Cardinality(Cached(p)) - 1
            /\ n.capacity = p.capacity
        BY <1>1, <4>1, <4>2, EvictLeastRecentFacts
      <4> HIDE DEF n
      <4> QED
        BY <1>1, <1>2, <4>3 DEF LruOK
    <3> QED
      BY <3>1, <3>2
  <2> HIDE DEF n
  <2> DEFINE q == ToFront([n EXCEPT !.value[k] = v], k)
  <2>3. LruOK(q) /\ q.value = [n.value EXCEPT ![k] = v] /\ q.capacity = n.capacity
    BY <2>2, LruStoreFacts
  <2> HIDE DEF q
  <2>4. n.value \in [Keys -> Values \cup {None}]
    BY <2>2 DEF LruOK, LruParts
  <2>5. q.value[k] = v /\ Forgets([p.value EXCEPT ![k] = v], q.value)
    BY <1>1, <2>2, <2>3, <2>4 DEF Forgets
  <2> QED
    BY <1>4, <2>1, <2>2, <2>3, <2>5 DEF q
<1> QED
  BY <1>3, <1>4

-----------------------------------------------------------------------------
(* The LFU part *)

LEMMA MinFacts ==
  ASSUME NEW T, T \subseteq Nat, T # {}
  PROVE  Min(T) \in T /\ \A n \in T : Min(T) <= n
<1>1. PICK m \in T : \A n \in T : m <= n
  BY LeastNatural
<1> QED
  BY <1>1 DEF Min

\* minFreq_ is the count of a cached key, and no cached key has a lower one.
LeastFreq(part) ==
    /\ \A k \in Cached(part) : part.count[k] >= 1 /\ part.minFreq <= part.count[k]
    /\ Cached(part) # {} => \E k \in Cached(part) : part.count[k] = part.minFreq

LfuOK(part) ==
    /\ part \in LfuParts
    /\ Sound(part)
    /\ LeastFreq(part)
    /\ Cardinality(Cached(part)) <= part.capacity

\* minFreq_ leads evictLeastFrequent to a key, and stays the least count.
LEMMA EvictLeastFrequentFacts ==
  ASSUME NEW p \in LfuParts, Sound(p), LeastFreq(p), Cached(p) # {}
  PROVE  /\ EvictLeastFrequent(p) \in LfuParts
         /\ Sound(EvictLeastFrequent(p))
         /\ LeastFreq(EvictLeastFrequent(p))
         /\ Forgets(p.value, EvictLeastFrequent(p).value)
         /\ Cached(EvictLeastFrequent(p)) \subseteq Cached(p)
         /\ Cardinality(Cached(EvictLeastFrequent(p))) = Cardinality(Cached(p)) - 1
         /\ EvictLeastFrequent(p).capacity = p.capacity
<1>1. /\ p.list \in Seq(Keys) /\ DOMAIN p.list = 1..Len(p.list) /\ Len(p.list) \in Nat
      /\ p.count \in [Keys -> Nat] /\ p.minFreq \in Nat
  BY DEF LfuParts
<1> DEFINE W == WithFreq(p, p.minFreq)
<1>2. W \subseteq Nat /\ W # {}
  <2>1. PICK k \in Cached(p) : p.count[k] = p.minFreq
    BY DEF LeastFreq
  <2>2. PICK i \in DOMAIN p.list : p.list[i] = k
    BY <2>1 DEF Sound, Range
  <2> QED
    BY <1>1, <2>1, <2>2 DEF WithFreq
<1> DEFINE first == p.list[Min(W)]
<1>3. first \in Cached(p) /\ first \in Keys
  <2>1. Min(W) \in W
    <3> HIDE DEF W
    <3> QED
      BY <1>2, MinFacts
  <2>2. Min(W) \in DOMAIN p.list
    BY <2>1 DEF WithFreq
  <2> QED
    BY <2>2 DEF Sound, Range, Cached
<1> DEFINE rest == Evict(p, first, 0)
<1> DEFINE q == EvictLeastFrequent(p)
<1>4. q = IF WithFreq(rest, p.minFreq) # {} \/ rest.list = <<>> THEN rest
          ELSE [rest EXCEPT !.minFreq = Min(Freqs(rest))]
  BY <1>2 DEF EvictLeastFrequent
<1> HIDE DEF first
<1>5. p \in LruParts \cup LfuParts /\ 0 \in Nat
  OBVIOUS
<1>6. /\ rest.count = [p.count EXCEPT ![first] = 0]
      /\ rest.capacity = p.capacity /\ rest.minFreq = p.minFreq
  BY <1>3, <1>5, EvictFields
<1>7. /\ rest \in LfuParts /\ Sound(rest) /\ Forgets(p.value, rest.value)
      /\ Cached(rest) = Cached(p) \ {first}
      /\ Cardinality(Cached(rest)) = Cardinality(Cached(p)) - 1
  BY <1>3, <1>5, EvictFacts
<1> HIDE DEF rest, q
<1>8. \A k \in Cached(rest) : /\ k \in Cached(p) /\ rest.count[k] = p.count[k]
                              /\ rest.count[k] \in Nat /\ rest.count[k] >= 1
  BY <1>1, <1>6, <1>7 DEF Cached, LeastFreq
<1>9. CASE WithFreq(rest, p.minFreq) # {} \/ rest.list = <<>>
  <2>1. q = rest
    BY <1>4, <1>9
  <2>2. Cached(rest) # {} => \E k \in Cached(rest) : rest.count[k] = p.minFreq
    <3>1. CASE rest.list = <<>>
      BY <1>7, <3>1 DEF Sound, Range
    <3>2. CASE WithFreq(rest, p.minFreq) # {}
      <4>1. PICK i \in DOMAIN rest.list : rest.count[rest.list[i]] = p.minFreq
        BY <3>2 DEF WithFreq
      <4>2. rest.list[i] \in Cached(rest)
        BY <1>7, <4>1 DEF Sound, Range
      <4> QED
        BY <4>1, <4>2
    <3> QED
      BY <1>9, <3>1, <3>2
  <2>3. LeastFreq(rest)
    BY <1>6, <1>8, <2>2 DEF LeastFreq
  <2> QED
    BY <1>6, <1>7, <2>1, <2>3 DEF q
<1>10. CASE ~(WithFreq(rest, p.minFreq) # {} \/ rest.list = <<>>)
  <2> DEFINE F == Freqs(rest)
  <2>1. F = {rest.count[k] : k \in Cached(rest)}
    BY <1>7 DEF Freqs, Sound
  <2>2. F \subseteq Nat
    BY <1>8, <2>1
  <2>3. Cached(rest) # {}
    <3>1. rest.list \in Seq(Keys) /\ rest.list # <<>>
      BY <1>7, <1>10 DEF LfuParts
    <3>2. 1 \in DOMAIN rest.list
      BY <3>1
    <3> QED
      BY <1>7, <3>2 DEF Sound, Range
  <2>4. F # {}
    BY <2>1, <2>3
  <2> HIDE DEF F
  <2>5. Min(F) \in F /\ (\A n \in F : Min(F) <= n) /\ Min(F) \in Nat
    BY <2>2, <2>4, MinFacts
  <2>6. q = [rest EXCEPT !.minFreq = Min(F)]
    BY <1>4, <1>10 DEF F
  <2>7. /\ q \in LfuParts /\ q.value = rest.value /\ q.count = rest.count /\ q.list = rest.list
        /\ q.capacity = rest.capacity /\ q.minFreq = Min(F)
    BY <1>7, <2>5, <2>6 DEF LfuParts
  <2>8. Cached(q) = Cached(rest)
    BY <2>7 DEF Cached
  <2>9. Sound(q)
    BY <1>7, <2>7, <2>8 DEF Sound
  <2>10. LeastFreq(q)
    <3>1. \A k \in Cached(rest) : Min(F) <= rest.count[k]
      BY <2>1, <2>5
    <3>2. \E k \in Cached(rest) : rest.count[k] = Min(F)
      BY <2>1, <2>5
    <3> QED
      BY <1>8, <2>7, <2>8, <3>1, <3>2 DEF LeastFreq
  <2> QED
    BY <1>6, <1>7, <2>7, <2>8, <2>9, <2>10 DEF q
<1> QED
  BY <1>9, <1>10

\* A key that is not in a list without repetitions can be appended to it.
LEMMA AppendFacts ==
  ASSUME NEW S, NEW s \in Seq(S), IsInjective(s), NEW e \in S, e \notin Range(s)
  PROVE  /\ Append(s, e) \in Seq(S)
         /\ Range(Append(s, e)) = Range(s) \cup {e}
         /\ IsInjective(Append(s, e))
<1> DEFINE t == Append(s, e)
<1>1. /\ t \in Seq(S) /\ Len(t) = Len(s) + 1 /\ t[Len(s) + 1] = e
      /\ \A i \in 1..Len(s) : t[i] = s[i]
  BY AppendProperties
<1>2. DOMAIN s = 1..Len(s) /\ DOMAIN t = 1..(Len(s) + 1) /\ Len(s) \in Nat
  BY <1>1
<1> HIDE DEF t
<1>3. \A i \in DOMAIN t : i \in DOMAIN s \/ i = Len(s) + 1
  BY <1>2
<1>4. \A i \in DOMAIN s : i \in DOMAIN t /\ t[i] = s[i] /\ s[i] # e
  BY <1>1, <1>2 DEF Range
<1>5. Range(t) = Range(s) \cup {e}
  BY <1>1, <1>2, <1>3, <1>4 DEF Range
<1>6. IsInjective(t)
  BY <1>1, <1>2, <1>3, <1>4 DEF IsInjective
<1> QED
  BY <1>1, <1>5, <1>6 DEF t

\* updateNodeFrequency: minFreq_ moves with the key when it was the only one.
LEMMA LfuTouchFacts ==
  ASSUME NEW p, LfuOK(p), NEW k \in Cached(p)
  PROVE  /\ LfuOK(LfuTouch(p, k))
         /\ LfuTouch(p, k).value = p.value
         /\ LfuTouch(p, k).capacity = p.capacity
<1>1. /\ p \in LfuParts /\ Sound(p) /\ LeastFreq(p) /\ k \in Keys
      /\ p.list \in Seq(Keys) /\ DOMAIN p.list = 1..Len(p.list)
      /\ p.count \in [Keys -> Nat] /\ p.minFreq \in Nat
  BY DEF LfuOK, LfuParts, Cached
<1> DEFINE f == p.count[k]
<1> DEFINE last == Cardinality(WithFreq(p, f)) = 1 /\ f = p.minFreq
<1> DEFINE t == Append(RemoveFirst(p.list, k), k)
<1> DEFINE n == IF last THEN f + 1 ELSE p.minFreq
<1> DEFINE q == LfuTouch(p, k)
<1>2. f \in Nat
  BY <1>1
<1>3. t \in Seq(Keys) /\ Range(t) = Cached(p) /\ IsInjective(t)
  <2> DEFINE r == RemoveFirst(p.list, k)
  <2>1. r \in Seq(Keys) /\ Range(r) = Cached(p) \ {k} /\ IsInjective(r)
    BY <1>1, RemoveFirstFacts DEF Sound
  <2> HIDE DEF r
  <2>2. /\ Append(r, k) \in Seq(Keys) /\ Range(Append(r, k)) = Range(r) \cup {k}
        /\ IsInjective(Append(r, k))
    BY <1>1, <2>1, AppendFacts
  <2> QED
    BY <2>1, <2>2 DEF r
<1>4. q = [p EXCEPT !.count[k] = f + 1, !.list = t, !.minFreq = n]
  BY DEF LfuTouch
<1>5. ASSUME f = p.minFreq, \A j \in Cached(p) \ {k} : p.count[j] # p.minFreq
      PROVE  last
  <2>1. PICK i \in DOMAIN p.list : p.list[i] = k
    BY <1>1 DEF Sound, Range
  <2>2. WithFreq(p, f) = {i}
    <3>1. ASSUME NEW j \in WithFreq(p, f) PROVE j = i
      <4>1. j \in DOMAIN p.list /\ p.count[p.list[j]] = f
        BY <3>1 DEF WithFreq
      <4>2. p.list[j] \in Cached(p)
        BY <1>1, <4>1 DEF Sound, Range
      <4>3. p.list[j] = k
        BY <1>5, <4>1, <4>2
      <4> QED
        BY <1>1, <2>1, <4>1, <4>3 DEF Sound, IsInjective
    <3>2. i \in WithFreq(p, f)
      BY <2>1 DEF WithFreq
    <3> QED
      BY <3>1, <3>2
  <2> QED
    BY <1>5, <2>2, FS_Singleton
<1>6. ASSUME last, NEW j \in Cached(p), j # k
      PROVE  p.count[j] # f
  <2>1. SUFFICES ASSUME p.count[j] = f PROVE FALSE
    OBVIOUS
  <2>2. PICK i \in DOMAIN p.list : p.list[i] = k
    BY <1>1 DEF Sound, Range
  <2>3. PICK h \in DOMAIN p.list : p.list[h] = j
    BY <1>1, <1>6 DEF Sound, Range
  <2>4. i \in WithFreq(p, f) /\ h \in WithFreq(p, f) /\ i # h
    BY <1>6, <2>1, <2>2, <2>3 DEF WithFreq
  <2>5. Cardinality(WithFreq(p, f)) = 1
    BY <1>6
  <2>6. WithFreq(p, f) \subseteq 1..Len(p.list)
    BY <1>1 DEF WithFreq
  <2>7. IsFiniteSet(WithFreq(p, f))
    <3>1. Len(p.list) \in Int /\ 1 \in Int
      BY <1>1
    <3>2. IsFiniteSet(1..Len(p.list))
      BY <3>1, FS_Interval
    <3> QED
      BY <2>6, <3>2, FS_Subset
  <2> QED
    BY <2>4, <2>5, <2>7, FS_Singleton
<1> HIDE DEF last, t
<1>7. n \in Nat
  BY <1>1, <1>2
<1> HIDE DEF n
<1>8. /\ q \in LfuParts /\ q.value = p.value /\ q.capacity = p.capacity /\ q.list = t
      /\ q.count = [p.count EXCEPT ![k] = f + 1] /\ q.minFreq = n
  <2> DEFINE c == f + 1
  <2>1. c \in Nat
    BY <1>2
  <2>2. q = [p EXCEPT !.count[k] = c, !.list = t, !.minFreq = n]
    BY <1>4
  <2> HIDE DEF c, q
  <2>3. /\ q \in LfuParts /\ q.value = p.value /\ q.capacity = p.capacity /\ q.list = t
        /\ q.count = [p.count EXCEPT ![k] = c] /\ q.minFreq = n
    BY <1>1, <1>3, <1>7, <2>1, <2>2 DEF LfuParts
  <2> QED
    BY <2>3 DEF c
<1> HIDE DEF q
<1>9. Cached(q) = Cached(p)
  BY <1>8 DEF Cached
<1>10. Sound(q)
  BY <1>1, <1>3, <1>8, <1>9 DEF Sound
<1>11. q.count[k] = f + 1 /\ \A j \in Cached(p) : j # k => q.count[j] = p.count[j]
  BY <1>1, <1>8 DEF Cached
<1>12. /\ \A j \in Cached(p) : p.count[j] \in Nat /\ p.count[j] >= 1 /\ p.minFreq <= p.count[j]
       /\ p.minFreq <= f
  BY <1>1 DEF LeastFreq, Cached
<1>13. \A j \in Cached(p) : q.count[j] >= 1 /\ n <= q.count[j]
  <2>1. CASE last
    <3>1. n = f + 1 /\ f = p.minFreq
      BY <2>1 DEF n, last
    <3>2. ASSUME NEW j \in Cached(p), j # k PROVE f + 1 <= p.count[j]
      BY <1>2, <1>6, <1>12, <2>1, <3>1, <3>2
    <3> QED
      BY <1>2, <1>11, <1>12, <3>1, <3>2
  <2>2. CASE ~last
    <3>1. n = p.minFreq
      BY <2>2 DEF n
    <3> QED
      BY <1>1, <1>2, <1>11, <1>12, <3>1
  <2> QED
    BY <2>1, <2>2
<1>14. \E j \in Cached(p) : q.count[j] = n
  <2>1. CASE last
    BY <1>11, <2>1 DEF n
  <2>2. CASE ~last
    <3>1. n = p.minFreq
      BY <2>2 DEF n
    <3>2. \E j \in Cached(p) \ {k} : p.count[j] = p.minFreq
      <4>1. CASE f = p.minFreq
        BY <1>5, <2>2, <4>1
      <4>2. CASE f # p.minFreq
        BY <1>1, <4>2 DEF LeastFreq
      <4> QED
        BY <4>1, <4>2
    <3> QED
      BY <1>11, <3>1, <3>2
  <2> QED
    BY <2>1, <2>2
<1>15. LeastFreq(q)
  BY <1>8, <1>9, <1>13, <1>14 DEF LeastFreq
<1> QED
  BY <1>8, <1>9, <1>10, <1>15 DEF LfuOK, q

\* A new key starts with count 1, below which no count is.
LEMMA LfuAddFacts ==
  ASSUME NEW p, LfuOK(p), p.capacity # 0, NEW k \in Keys, k \notin Cached(p), NEW v \in Values
  PROVE  /\ LfuOK(LfuAdd(p, k, v))
         /\ LfuAdd(p, k, v).capacity = p.capacity
         /\ LfuAdd(p, k, v).value[k] = v
         /\ Forgets([p.value EXCEPT ![k] = v], LfuAdd(p, k, v).value)
<1>1. /\ p \in LfuParts /\ Sound(p) /\ LeastFreq(p) /\ p.capacity \in Nat
      /\ p.value \in [Keys -> Values \cup {None}]
  BY DEF LfuOK, LfuParts
<1>2. Cardinality(Cached(p)) \in Nat /\ Cardinality(Cached(p)) <= p.capacity
  BY <1>1, FS_CardinalityType DEF Sound, LfuOK
<1> DEFINE n == IF Cardinality(Cached(p)) >= p.capacity THEN EvictLeastFrequent(p) ELSE p
<1> DEFINE q == LfuAdd(p, k, v)
<1>3. q = [n EXCEPT !.value[k] = v, !.count[k] = 1, !.list = Append(n.list, k), !.minFreq = 1]
  BY DEF LfuAdd
<1>4. /\ n \in LfuParts /\ Sound(n) /\ LeastFreq(n)
      /\ Forgets(p.value, n.value) /\ Cached(n) \subseteq Cached(p)
      /\ Cardinality(Cached(n)) < p.capacity
      /\ n.capacity = p.capacity
  <2>1. CASE Cardinality(Cached(p)) >= p.capacity
    <3>1. Cached(p) # {}
      BY <1>1, <1>2, <2>1, FS_EmptySet
    <3>2. n = EvictLeastFrequent(p)
      BY <2>1
    <3>3. Cardinality(Cached(n)) = Cardinality(Cached(p)) - 1
      BY <1>1, <3>1, <3>2, EvictLeastFrequentFacts
    <3>4. /\ n \in LfuParts /\ Sound(n) /\ LeastFreq(n)
          /\ Forgets(p.value, n.value) /\ Cached(n) \subseteq Cached(p)
          /\ n.capacity = p.capacity
      BY <1>1, <3>1, <3>2, EvictLeastFrequentFacts
    <3> HIDE DEF n
    <3> QED
      BY <1>1, <1>2, <3>3, <3>4
  <2>2. CASE ~(Cardinality(Cached(p)) >= p.capacity)
    <3>1. n = p
      BY <2>2
    <3>2. Forgets(p.value, p.value)
      BY DEF Forgets
    <3> HIDE DEF n
    <3> QED
      BY <1>1, <1>2, <2>2, <3>1, <3>2
  <2> QED
    BY <2>1, <2>2
<1> HIDE DEF n, q
<1>5. /\ n.list \in Seq(Keys) /\ n.count \in [Keys -> Nat]
      /\ n.value \in [Keys -> Values \cup {None}] /\ n.capacity \in Nat
  BY <1>4 DEF LfuParts
<1> DEFINE t == Append(n.list, k)
<1>6. t \in Seq(Keys) /\ Range(t) = Cached(n) \cup {k} /\ IsInjective(t)
  <2>1. k \notin Range(n.list) /\ IsInjective(n.list) /\ Range(n.list) = Cached(n)
    BY <1>4 DEF Sound
  <2> QED
    BY <1>5, <2>1, AppendFacts
<1>7. q = [n EXCEPT !.value[k] = v, !.count[k] = 1, !.list = t, !.minFreq = 1]
  BY <1>3
<1> HIDE DEF t
<1>8. /\ q \in LfuParts /\ q.value = [n.value EXCEPT ![k] = v]
      /\ q.count = [n.count EXCEPT ![k] = 1]
      /\ q.list = t /\ q.capacity = n.capacity /\ q.minFreq = 1
  BY <1>4, <1>5, <1>6, <1>7 DEF LfuParts
<1>9. Cached(q) = Cached(n) \cup {k}
  BY <1>5, <1>8, NoneAssumption DEF Cached
<1>10. IsFiniteSet(Cached(q)) /\ Cardinality(Cached(q)) = Cardinality(Cached(n)) + 1
  <2>1. IsFiniteSet(Cached(n)) /\ k \notin Cached(n)
    BY <1>4 DEF Sound
  <2> QED
    BY <1>9, <2>1, FS_AddElement
<1>11. Sound(q)
  BY <1>6, <1>8, <1>9, <1>10 DEF Sound
<1>12. LeastFreq(q)
  <2>1. q.count[k] = 1 /\ \A j \in Cached(n) : j # k => q.count[j] = n.count[j]
    BY <1>5, <1>8 DEF Cached
  <2>2. \A j \in Cached(n) : n.count[j] \in Nat /\ n.count[j] >= 1
    BY <1>4, <1>5 DEF LeastFreq, Cached
  <2> QED
    BY <1>8, <1>9, <2>1, <2>2 DEF LeastFreq
<1>13. Cardinality(Cached(q)) <= q.capacity
  <2>1. Cardinality(Cached(n)) \in Nat
    BY <1>4, FS_CardinalityType DEF Sound
  <2> QED
    BY <1>1, <1>4, <1>8, <1>10, <2>1
<1>14. q.value[k] = v /\ Forgets([p.value EXCEPT ![k] = v], q.value)
  BY <1>1, <1>4, <1>5, <1>8 DEF Forgets
<1> QED
  BY <1>4, <1>8, <1>11, <1>12, <1>13, <1>14 DEF LfuOK, q

LEMMA LfuPutFacts ==
  ASSUME NEW p, LfuOK(p), NEW k \in Keys, NEW v \in Values
  PROVE  /\ LfuOK(LfuPut(p, k, v))
         /\ LfuPut(p, k, v).capacity = p.capacity
         /\ p.capacity = 0 => LfuPut(p, k, v) = p
         /\ p.capacity # 0 => LfuPut(p, k, v).value[k] = v
         /\ p.capacity # 0 => Forgets([p.value EXCEPT ![k] = v], LfuPut(p, k, v).value)
<1>1. CASE p.capacity = 0
  BY <1>1 DEF LfuPut
<1>2. CASE p.capacity # 0 /\ k \in Cached(p)
  <2> DEFINE m == [p EXCEPT !.value[k] = v]
  <2>1. p \in LfuParts /\ Sound(p) /\ LeastFreq(p) /\ p.value \in [Keys -> Values \cup {None}]
    BY DEF LfuOK, LfuParts
  <2>2. /\ m \in LfuParts /\ m.value = [p.value EXCEPT ![k] = v] /\ m.count = p.count
        /\ m.list = p.list /\ m.capacity = p.capacity /\ m.minFreq = p.minFreq
    BY <2>1 DEF LfuParts
  <2>3. LfuPut(p, k, v) = LfuTouch(m, k)
    BY <1>2 DEF LfuPut
  <2> HIDE DEF m
  <2>4. Cached(m) = Cached(p)
    BY <1>2, <2>1, <2>2, NoneAssumption DEF Cached
  <2>5. LfuOK(m)
    BY <2>1, <2>2, <2>4 DEF LfuOK, Sound, LeastFreq
  <2>6. LfuOK(LfuTouch(m, k)) /\ LfuTouch(m, k).value = m.value
        /\ LfuTouch(m, k).capacity = m.capacity
    BY <1>2, <2>4, <2>5, LfuTouchFacts
  <2>7. m.value[k] = v /\ Forgets([p.value EXCEPT ![k] = v], m.value)
    BY <2>1, <2>2 DEF Forgets
  <2> QED
    BY <1>2, <2>2, <2>3, <2>6, <2>7
<1>3. CASE p.capacity # 0 /\ k \notin Cached(p)
  <2>1. LfuPut(p, k, v) = LfuAdd(p, k, v)
    BY <1>3 DEF LfuPut
  <2> QED
    BY <1>3, <2>1, LfuAddFacts
<1> QED
  BY <1>1, <1>2, <1>3

-----------------------------------------------------------------------------
(* The ghost lists and the trade of capacity *)

LEMMA DropGhostFacts ==
  ASSUME NEW p, NEW k
  PROVE  /\ LruOK(p) => LruOK(DropGhost(p, k))
         /\ LfuOK(p) => LfuOK(DropGhost(p, k))
         /\ LruOK(p) \/ LfuOK(p) => /\ DropGhost(p, k).value = p.value
                                    /\ DropGhost(p, k).capacity = p.capacity
<1> DEFINE n == [key |-> k, mapped |-> TRUE]
<1> DEFINE g == RemoveFirst(p.ghosts, n)
<1> DEFINE q == DropGhost(p, k)
<1>1. q = [p EXCEPT !.ghosts = g]
  BY DEF DropGhost
<1>2. p.ghosts \in Ghosts => g \in Ghosts
  <2> HIDE DEF n
  <2> QED
    BY RemoveGhostType
<1> HIDE DEF g, q
<1>3. ASSUME LruOK(p) PROVE LruOK(q) /\ q.value = p.value /\ q.capacity = p.capacity
  <2>1. p \in LruParts /\ p.ghosts \in Ghosts
    BY <1>3 DEF LruOK, LruParts
  <2>2. q \in LruParts /\ q.value = p.value /\ q.list = p.list /\ q.capacity = p.capacity
    BY <1>1, <1>2, <2>1 DEF LruParts
  <2> QED
    BY <1>3, <2>2 DEF LruOK, Sound, Cached
<1>4. ASSUME LfuOK(p) PROVE LfuOK(q) /\ q.value = p.value /\ q.capacity = p.capacity
  <2>1. p \in LfuParts /\ p.ghosts \in Ghosts
    BY <1>4 DEF LfuOK, LfuParts
  <2>2. /\ q \in LfuParts /\ q.value = p.value /\ q.count = p.count /\ q.list = p.list
        /\ q.capacity = p.capacity /\ q.minFreq = p.minFreq
    BY <1>1, <1>2, <2>1 DEF LfuParts
  <2> QED
    BY <1>4, <2>2 DEF LfuOK, Sound, LeastFreq, Cached
<1> QED
  BY <1>3, <1>4 DEF q

\* Only the capacity of a part changes.
LEMMA ResizeLruFacts ==
  ASSUME NEW p \in LruParts, Sound(p), NEW c \in Nat, Cardinality(Cached(p)) <= c
  PROVE  /\ LruOK([p EXCEPT !.capacity = c])
         /\ [p EXCEPT !.capacity = c].value = p.value
         /\ [p EXCEPT !.capacity = c].capacity = c
<1> DEFINE q == [p EXCEPT !.capacity = c]
<1>1. q \in LruParts /\ q.value = p.value /\ q.list = p.list /\ q.capacity = c
  BY DEF LruParts
<1> HIDE DEF q
<1>2. Cached(q) = Cached(p)
  BY <1>1 DEF Cached
<1>3. LruOK(q)
  BY <1>1, <1>2 DEF LruOK, Sound
<1> QED
  BY <1>1, <1>3 DEF q

LEMMA ResizeLfuFacts ==
  ASSUME NEW p \in LfuParts, Sound(p), LeastFreq(p), NEW c \in Nat, Cardinality(Cached(p)) <= c
  PROVE  /\ LfuOK([p EXCEPT !.capacity = c])
         /\ [p EXCEPT !.capacity = c].value = p.value
         /\ [p EXCEPT !.capacity = c].capacity = c
<1> DEFINE q == [p EXCEPT !.capacity = c]
<1>1. /\ q \in LfuParts /\ q.value = p.value /\ q.count = p.count /\ q.list = p.list
      /\ q.capacity = c /\ q.minFreq = p.minFreq
  BY DEF LfuParts
<1> HIDE DEF q
<1>2. Cached(q) = Cached(p)
  BY <1>1 DEF Cached
<1>3. LfuOK(q)
  BY <1>1, <1>2 DEF LfuOK, Sound, LeastFreq
<1> QED
  BY <1>1, <1>3 DEF q

LEMMA GrowFacts ==
  ASSUME NEW p, NEW other, other.capacity \in Nat
  PROVE  /\ LruOK(p) => LruOK(Grow(p, other))
         /\ LfuOK(p) => LfuOK(Grow(p, other))
         /\ LruOK(p) \/ LfuOK(p) =>
               /\ Grow(p, other).value = p.value
               /\ Grow(p, other).capacity =
                     IF other.capacity = 0 THEN p.capacity ELSE p.capacity + 1
<1> DEFINE c == p.capacity + 1
<1> DEFINE q == [p EXCEPT !.capacity = c]
<1>1. Grow(p, other) = IF other.capacity = 0 THEN p ELSE q
  BY DEF Grow
<1>2. ASSUME LruOK(p) PROVE LruOK(q) /\ q.value = p.value /\ q.capacity = c
  <2>1. /\ p \in LruParts /\ Sound(p) /\ p.capacity \in Nat
        /\ Cardinality(Cached(p)) <= p.capacity
    BY <1>2 DEF LruOK, LruParts
  <2>2. Cardinality(Cached(p)) \in Nat
    BY <2>1, FS_CardinalityType DEF Sound
  <2>3. c \in Nat /\ Cardinality(Cached(p)) <= c
    BY <2>1, <2>2
  <2> HIDE DEF c
  <2> QED
    BY <2>1, <2>3, ResizeLruFacts
<1>3. ASSUME LfuOK(p) PROVE LfuOK(q) /\ q.value = p.value /\ q.capacity = c
  <2>1. /\ p \in LfuParts /\ Sound(p) /\ LeastFreq(p) /\ p.capacity \in Nat
        /\ Cardinality(Cached(p)) <= p.capacity
    BY <1>3 DEF LfuOK, LfuParts
  <2>2. Cardinality(Cached(p)) \in Nat
    BY <2>1, FS_CardinalityType DEF Sound
  <2>3. c \in Nat /\ Cardinality(Cached(p)) <= c
    BY <2>1, <2>2
  <2> HIDE DEF c
  <2> QED
    BY <2>1, <2>3, ResizeLfuFacts
<1> HIDE DEF q
<1> QED
  BY <1>1, <1>2, <1>3

\* A part that is full evicts before it shrinks.
LEMMA ShrinkLruFacts ==
  ASSUME NEW p, LruOK(p)
  PROVE  /\ LruOK(ShrinkLru(p))
         /\ Forgets(p.value, ShrinkLru(p).value)
         /\ ShrinkLru(p).capacity = IF p.capacity = 0 THEN 0 ELSE p.capacity - 1
<1> DEFINE n == IF Cardinality(Cached(p)) = p.capacity THEN EvictLeastRecent(p) ELSE p
<1>1. /\ p \in LruParts /\ Sound(p) /\ p.capacity \in Nat
      /\ Cardinality(Cached(p)) <= p.capacity
  BY DEF LruOK, LruParts
<1>2. Cardinality(Cached(p)) \in Nat /\ Forgets(p.value, p.value)
  BY <1>1, FS_CardinalityType DEF Sound, Forgets
<1>3. CASE p.capacity = 0
  BY <1>2, <1>3 DEF ShrinkLru
<1>4. CASE p.capacity # 0
  <2>1. /\ n \in LruParts /\ Sound(n) /\ Forgets(p.value, n.value) /\ n.capacity = p.capacity
        /\ Cardinality(Cached(n)) <= p.capacity - 1
    <3>1. CASE Cardinality(Cached(p)) = p.capacity
      <4>1. n = EvictLeastRecent(p) /\ Cached(p) # {}
        BY <1>4, <3>1, FS_EmptySet
      <4>2. /\ n \in LruParts /\ Sound(n) /\ Forgets(p.value, n.value)
            /\ n.capacity = p.capacity
            /\ Cardinality(Cached(n)) = Cardinality(Cached(p)) - 1
        BY <1>1, <4>1, EvictLeastRecentFacts
      <4> HIDE DEF n
      <4> QED
        BY <1>1, <3>1, <4>2
    <3>2. CASE Cardinality(Cached(p)) # p.capacity
      BY <1>1, <1>2, <3>2
    <3> QED
      BY <3>1, <3>2
  <2> DEFINE c == p.capacity - 1
  <2>2. ShrinkLru(p) = [n EXCEPT !.capacity = n.capacity - 1]
    BY <1>4 DEF ShrinkLru, Shrink
  <2> HIDE DEF n
  <2>3. ShrinkLru(p) = [n EXCEPT !.capacity = c] /\ c \in Nat
    BY <1>1, <1>4, <2>1, <2>2
  <2>4. Cardinality(Cached(n)) <= c
    BY <2>1
  <2> HIDE DEF c
  <2>5. /\ LruOK([n EXCEPT !.capacity = c])
        /\ [n EXCEPT !.capacity = c].value = n.value
        /\ [n EXCEPT !.capacity = c].capacity = c
    BY <2>1, <2>3, <2>4, ResizeLruFacts
  <2> QED
    BY <1>4, <2>1, <2>3, <2>5 DEF c
<1> QED
  BY <1>3, <1>4

LEMMA ShrinkLfuFacts ==
  ASSUME NEW p, LfuOK(p)
  PROVE  /\ LfuOK(ShrinkLfu(p))
         /\ Forgets(p.value, ShrinkLfu(p).value)
         /\ ShrinkLfu(p).capacity = IF p.capacity = 0 THEN 0 ELSE p.capacity - 1
<1> DEFINE n == IF Cardinality(Cached(p)) = p.capacity THEN EvictLeastFrequent(p) ELSE p
<1>1. /\ p \in LfuParts /\ Sound(p) /\ LeastFreq(p) /\ p.capacity \in Nat
      /\ Cardinality(Cached(p)) <= p.capacity
  BY DEF LfuOK, LfuParts
<1>2. Cardinality(Cached(p)) \in Nat /\ Forgets(p.value, p.value)
  BY <1>1, FS_CardinalityType DEF Sound, Forgets
<1>3. CASE p.capacity = 0
  BY <1>2, <1>3 DEF ShrinkLfu
<1>4. CASE p.capacity # 0
  <2>1. /\ n \in LfuParts /\ Sound(n) /\ LeastFreq(n)
        /\ Forgets(p.value, n.value) /\ n.capacity = p.capacity
        /\ Cardinality(Cached(n)) <= p.capacity - 1
    <3>1. CASE Cardinality(Cached(p)) = p.capacity
      <4>1. n = EvictLeastFrequent(p) /\ Cached(p) # {}
        BY <1>4, <3>1, FS_EmptySet
      <4>2. /\ n \in LfuParts /\ Sound(n) /\ LeastFreq(n)
            /\ Forgets(p.value, n.value) /\ n.capacity = p.capacity
            /\ Cardinality(Cached(n)) = Cardinality(Cached(p)) - 1
        BY <1>1, <4>1, EvictLeastFrequentFacts
      <4> HIDE DEF n
      <4> QED
        BY <1>1, <3>1, <4>2
    <3>2. CASE Cardinality(Cached(p)) # p.capacity
      BY <1>1, <1>2, <3>2
    <3> QED
      BY <3>1, <3>2
  <2> DEFINE c == p.capacity - 1
  <2>2. ShrinkLfu(p) = [n EXCEPT !.capacity = n.capacity - 1]
    BY <1>4 DEF ShrinkLfu, Shrink
  <2> HIDE DEF n
  <2>3. ShrinkLfu(p) = [n EXCEPT !.capacity = c] /\ c \in Nat
    BY <1>1, <1>4, <2>1, <2>2
  <2>4. Cardinality(Cached(n)) <= c
    BY <2>1
  <2> HIDE DEF c
  <2>5. /\ LfuOK([n EXCEPT !.capacity = c])
        /\ [n EXCEPT !.capacity = c].value = n.value
        /\ [n EXCEPT !.capacity = c].capacity = c
    BY <2>1, <2>3, <2>4, ResizeLfuFacts
  <2> QED
    BY <1>4, <2>1, <2>3, <2>5 DEF c
<1> QED
  BY <1>3, <1>4

-----------------------------------------------------------------------------
(* The cache *)

\* The inductive invariant: each part is sound and has a least count at
\* minFreq_, the capacity is constant, and the copies agree.
ArcInv ==
    /\ LruOK(lru)
    /\ LfuOK(lfu)
    /\ got \in Values \cup {None}
    /\ lru.capacity + lfu.capacity = 2 * Capacity
    /\ CopiesAgree

LEMMA CheckFacts ==
  ASSUME ArcInv, NEW k \in Keys
  PROVE  /\ LruOK(LruAfterCheck(k)) /\ Forgets(lru.value, LruAfterCheck(k).value)
         /\ LfuOK(LfuAfterCheck(k)) /\ Forgets(lfu.value, LfuAfterCheck(k).value)
         /\ LruAfterCheck(k).capacity + LfuAfterCheck(k).capacity = 2 * Capacity
<1>1. LruOK(lru) /\ LfuOK(lfu) /\ lru.capacity + lfu.capacity = 2 * Capacity
  BY DEF ArcInv
<1>2. lru.capacity \in Nat /\ lfu.capacity \in Nat
  BY <1>1 DEF LruOK, LfuOK, LruParts, LfuParts
<1>3. Forgets(lru.value, lru.value) /\ Forgets(lfu.value, lfu.value)
  BY DEF Forgets
<1>4. CASE InGhost(lru, k)
  <2> DEFINE p == DropGhost(lru, k)
  <2>1. LruOK(p) /\ p.value = lru.value /\ p.capacity = lru.capacity
    BY <1>1, DropGhostFacts
  <2>2. LruAfterCheck(k) = Grow(p, lfu) /\ LfuAfterCheck(k) = ShrinkLfu(lfu)
    BY <1>4 DEF LruAfterCheck, LfuAfterCheck
  <2> HIDE DEF p
  <2>3. /\ LruOK(Grow(p, lfu)) /\ Grow(p, lfu).value = p.value
        /\ Grow(p, lfu).capacity = IF lfu.capacity = 0 THEN p.capacity ELSE p.capacity + 1
    BY <1>2, <2>1, GrowFacts
  <2>4. /\ LfuOK(ShrinkLfu(lfu)) /\ Forgets(lfu.value, ShrinkLfu(lfu).value)
        /\ ShrinkLfu(lfu).capacity = IF lfu.capacity = 0 THEN 0 ELSE lfu.capacity - 1
    BY <1>1, ShrinkLfuFacts
  <2>5. Grow(p, lfu).capacity + ShrinkLfu(lfu).capacity = lru.capacity + lfu.capacity
    BY <1>2, <2>1, <2>3, <2>4
  <2> QED
    BY <1>1, <1>3, <2>1, <2>2, <2>3, <2>4, <2>5
<1>5. CASE ~InGhost(lru, k) /\ InGhost(lfu, k)
  <2> DEFINE p == DropGhost(lfu, k)
  <2>1. LfuOK(p) /\ p.value = lfu.value /\ p.capacity = lfu.capacity
    BY <1>1, DropGhostFacts
  <2>2. LfuAfterCheck(k) = Grow(p, lru) /\ LruAfterCheck(k) = ShrinkLru(lru)
    BY <1>5 DEF LruAfterCheck, LfuAfterCheck
  <2> HIDE DEF p
  <2>3. /\ LfuOK(Grow(p, lru)) /\ Grow(p, lru).value = p.value
        /\ Grow(p, lru).capacity = IF lru.capacity = 0 THEN p.capacity ELSE p.capacity + 1
    BY <1>2, <2>1, GrowFacts
  <2>4. /\ LruOK(ShrinkLru(lru)) /\ Forgets(lru.value, ShrinkLru(lru).value)
        /\ ShrinkLru(lru).capacity = IF lru.capacity = 0 THEN 0 ELSE lru.capacity - 1
    BY <1>1, ShrinkLruFacts
  <2>5. ShrinkLru(lru).capacity + Grow(p, lru).capacity = lru.capacity + lfu.capacity
    BY <1>2, <2>1, <2>3, <2>4
  <2> QED
    BY <1>1, <1>3, <2>1, <2>2, <2>3, <2>4, <2>5
<1>6. CASE ~InGhost(lru, k) /\ ~InGhost(lfu, k)
  BY <1>1, <1>3, <1>6 DEF LruAfterCheck, LfuAfterCheck
<1> QED
  BY <1>4, <1>5, <1>6

\* A key whose part has no capacity is not in it.
LEMMA NoCapacity ==
  ASSUME NEW p, LruOK(p) \/ LfuOK(p), p.capacity = 0
  PROVE  Cached(p) = {}
<1>1. Sound(p) /\ Cardinality(Cached(p)) <= 0
  BY DEF LruOK, LfuOK
<1>2. Cardinality(Cached(p)) \in Nat
  BY <1>1, FS_CardinalityType DEF Sound
<1> QED
  BY <1>1, <1>2, FS_EmptySet DEF Sound

\* What a call on k leaves of each entry: v under k in both parts, unless it is
\* forgotten, and the other entries as they were, unless they are forgotten.
Leaves(k, v) ==
    \A j \in Keys :
        /\ lru'.value[j] \in {IF j = k THEN v ELSE lru.value[j], None}
        /\ lfu'.value[j] \in {IF j = k THEN v ELSE lfu.value[j], None}

LEMMA LeavesFacts ==
  ASSUME NEW k \in Keys, NEW v, CopiesAgree, Leaves(k, v)
  PROVE  /\ CopiesAgree'
         /\ Lossy!MayForget([Entries EXCEPT ![k] = v], Entries')
<1>1. CopiesAgree'
  BY DEF Leaves, CopiesAgree, Cached
<1>2. ASSUME NEW j \in Keys
      PROVE  Entries'[j] \in {[Entries EXCEPT ![k] = v][j], None}
  <2>1. Entries'[j] = IF lru'.value[j] # None THEN lru'.value[j] ELSE lfu'.value[j]
    BY DEF Entries, Cached
  <2>2. Entries[j] = IF lru.value[j] # None THEN lru.value[j] ELSE lfu.value[j]
    BY DEF Entries, Cached
  <2>3. [Entries EXCEPT ![k] = v][j] = IF j = k THEN v ELSE Entries[j]
    BY DEF Entries
  <2>4. lru.value[j] # None /\ lfu.value[j] # None => lru.value[j] = lfu.value[j]
    BY DEF CopiesAgree, Cached
  <2> QED
    BY <2>1, <2>2, <2>3, <2>4 DEF Leaves
<1> QED
  BY <1>1, <1>2 DEF Lossy!MayForget

LEMMA EntriesType ==
  ASSUME LruOK(lru'), LfuOK(lfu')
  PROVE  Entries' \in [Keys -> Values \cup {None}]
<1>1. /\ lru'.value \in [Keys -> Values \cup {None}]
      /\ lfu'.value \in [Keys -> Values \cup {None}]
  BY DEF LruOK, LfuOK, LruParts, LfuParts
<1> QED
  BY <1>1 DEF Entries

LEMMA PutStep ==
  ASSUME ArcInv, NEW k \in Keys, NEW v \in Values, Put(k, v)
  PROVE  ArcInv' /\ Lossy!LossyPut(k, v)
<1> DEFINE r == LruAfterCheck(k)
<1> DEFINE f == LfuAfterCheck(k)
<1>1. /\ LruOK(r) /\ Forgets(lru.value, r.value)
      /\ LfuOK(f) /\ Forgets(lfu.value, f.value)
      /\ r.capacity + f.capacity = 2 * Capacity
  BY CheckFacts
<1>2. lru' = LruPut(r, k, v) /\ lfu' = UpdateCopy(f, k, v) /\ got' = None
  BY DEF Put
<1> HIDE DEF r, f
<1>3. /\ r.value \in [Keys -> Values \cup {None}] /\ f.value \in [Keys -> Values \cup {None}]
  BY <1>1 DEF LruOK, LfuOK, LruParts, LfuParts
<1>4. /\ LruOK(lru') /\ lru'.capacity = r.capacity
      /\ r.capacity = 0 => lru' = r
      /\ r.capacity # 0 => Forgets([r.value EXCEPT ![k] = v], lru'.value)
  BY <1>1, <1>2, LruPutFacts
<1>5. \A j \in Keys : lru'.value[j] \in {IF j = k THEN v ELSE lru.value[j], None}
  <2>1. CASE r.capacity = 0
    <3>1. Cached(r) = {}
      BY <1>1, <2>1, NoCapacity
    <3>2. \A j \in Keys : r.value[j] = None
      BY <3>1 DEF Cached
    <3> QED
      BY <1>4, <2>1, <3>2
  <2>2. CASE r.capacity # 0
    BY <1>1, <1>3, <1>4, <2>2 DEF Forgets
  <2> QED
    BY <2>1, <2>2
<1>6. /\ LfuOK(lfu') /\ lfu'.capacity = f.capacity
      /\ \A j \in Keys : lfu'.value[j] \in {IF j = k THEN v ELSE lfu.value[j], None}
  <2>1. CASE k \notin Cached(f)
    <3>1. lfu' = f /\ f.value[k] = None
      BY <1>2, <2>1 DEF UpdateCopy, Cached
    <3> QED
      BY <1>1, <3>1 DEF Forgets
  <2>2. CASE k \in Cached(f)
    <3>1. lfu' = LfuPut(f, k, v) /\ f.capacity # 0
      BY <1>1, <1>2, <2>2, NoCapacity DEF UpdateCopy
    <3>2. /\ LfuOK(lfu') /\ lfu'.capacity = f.capacity
          /\ Forgets([f.value EXCEPT ![k] = v], lfu'.value)
      BY <1>1, <3>1, LfuPutFacts
    <3> QED
      BY <1>1, <1>3, <3>2 DEF Forgets
  <2> QED
    BY <2>1, <2>2
<1>7. CopiesAgree' /\ Lossy!MayForget([Entries EXCEPT ![k] = v], Entries')
  <2>1. CopiesAgree /\ Leaves(k, v)
    BY <1>5, <1>6 DEF ArcInv, Leaves
  <2> QED
    BY <2>1, LeavesFacts
<1>8. Entries' \in [Keys -> Values \cup {None}]
  BY <1>4, <1>6, EntriesType
<1>9. ArcInv'
  BY <1>1, <1>2, <1>4, <1>6, <1>7 DEF ArcInv
<1> QED
  BY <1>2, <1>7, <1>8, <1>9 DEF Lossy!LossyPut

\* get is a put of the entry that is there already.
LEMMA GetStep ==
  ASSUME ArcInv, NEW k \in Keys, Get(k)
  PROVE  ArcInv' /\ Lossy!LossyGet(k)
<1> DEFINE r == LruAfterCheck(k)
<1> DEFINE f == LfuAfterCheck(k)
<1>1. /\ LruOK(r) /\ Forgets(lru.value, r.value)
      /\ LfuOK(f) /\ Forgets(lfu.value, f.value)
      /\ r.capacity + f.capacity = 2 * Capacity
  BY CheckFacts
<1>2. \/ /\ k \in Cached(r)
         /\ lru' = LruTouch(r, k)
         /\ lfu' = IF lru'.count[k] >= Threshold THEN LfuPut(f, k, r.value[k]) ELSE f
         /\ got' = r.value[k]
      \/ /\ k \notin Cached(r) /\ k \in Cached(f)
         /\ lru' = r
         /\ lfu' = LfuTouch(f, k)
         /\ got' = f.value[k]
      \/ /\ k \notin Cached(r) \cup Cached(f)
         /\ lru' = r
         /\ lfu' = f
         /\ got' = None
  BY DEF Get
<1> HIDE DEF r, f
<1>3. /\ r.value \in [Keys -> Values \cup {None}] /\ f.value \in [Keys -> Values \cup {None}]
  BY <1>1 DEF LruOK, LfuOK, LruParts, LfuParts
<1>4. /\ LruOK(lru') /\ lru'.capacity = r.capacity /\ lru'.value = r.value
  BY <1>1, <1>2, LruTouchFacts
<1>5. /\ LfuOK(lfu') /\ lfu'.capacity = f.capacity
      /\ \/ lfu'.value = f.value
         \/ /\ k \in Cached(r)
            /\ Forgets([f.value EXCEPT ![k] = r.value[k]], lfu'.value)
  <2>1. CASE lfu' = f
    BY <1>1, <2>1
  <2>2. CASE k \in Cached(f) /\ lfu' = LfuTouch(f, k)
    BY <1>1, <2>2, LfuTouchFacts
  <2>3. CASE k \in Cached(r) /\ lfu' = LfuPut(f, k, r.value[k])
    <3>1. r.value[k] \in Values
      BY <1>3, <2>3 DEF Cached
    <3>2. /\ LfuOK(lfu') /\ lfu'.capacity = f.capacity
          /\ f.capacity = 0 => lfu' = f
          /\ f.capacity # 0 => Forgets([f.value EXCEPT ![k] = r.value[k]], lfu'.value)
      BY <1>1, <2>3, <3>1, LfuPutFacts
    <3> QED
      BY <2>3, <3>2
  <2> QED
    BY <1>2, <2>1, <2>2, <2>3
<1> DEFINE e == Entries[k]
<1>6. /\ lru.value[k] # None => e = lru.value[k]
      /\ lfu.value[k] # None => e = lfu.value[k]
  BY DEF Entries, Cached, ArcInv, CopiesAgree
<1>7. Leaves(k, e)
  <2>1. \A j \in Keys : lru'.value[j] \in {IF j = k THEN e ELSE lru.value[j], None}
    BY <1>1, <1>4, <1>6 DEF Forgets
  <2>2. \A j \in Keys : lfu'.value[j] \in {IF j = k THEN e ELSE lfu.value[j], None}
    <3>1. CASE lfu'.value = f.value
      BY <1>1, <1>6, <3>1 DEF Forgets
    <3>2. CASE k \in Cached(r) /\ Forgets([f.value EXCEPT ![k] = r.value[k]], lfu'.value)
      <4>1. r.value[k] = e
        BY <1>1, <1>6, <3>2 DEF Forgets, Cached
      <4> HIDE DEF e
      <4> QED
        BY <1>1, <1>3, <3>2, <4>1 DEF Forgets
    <3> QED
      BY <1>5, <3>1, <3>2
  <2> QED
    BY <2>1, <2>2 DEF Leaves
<1>8. CopiesAgree' /\ Lossy!MayForget(Entries, Entries')
  <2>1. [Entries EXCEPT ![k] = e] = Entries
    BY DEF Entries
  <2>2. CopiesAgree
    BY DEF ArcInv
  <2> HIDE DEF e
  <2>3. CopiesAgree' /\ Lossy!MayForget([Entries EXCEPT ![k] = e], Entries')
    BY <1>7, <2>2, LeavesFacts
  <2> QED
    BY <2>1, <2>3
<1>9. Entries' \in [Keys -> Values \cup {None}]
  BY <1>4, <1>5, EntriesType
<1>10. got' = Entries'[k]
  <2>1. Entries'[k] = IF lru'.value[k] # None THEN lru'.value[k] ELSE lfu'.value[k]
    BY DEF Entries, Cached
  <2>2. k \in Cached(r) <=> r.value[k] # None
    BY DEF Cached
  <2>3. k \in Cached(f) <=> f.value[k] # None
    BY DEF Cached
  <2>4. k \in Cached(f) => LfuTouch(f, k).value = f.value
    BY <1>1, LfuTouchFacts
  <2> QED
    BY <1>2, <1>4, <2>1, <2>2, <2>3, <2>4
<1>11. got' \in Values \cup {None}
  BY <1>9, <1>10
<1>12. ArcInv'
  BY <1>1, <1>4, <1>5, <1>8, <1>11 DEF ArcInv
<1> QED
  BY <1>8, <1>9, <1>10, <1>12 DEF Lossy!LossyGet

LEMMA ArcInit == Init => ArcInv /\ Lossy!LossyInit
<1> SUFFICES ASSUME Init PROVE ArcInv /\ Lossy!LossyInit
  OBVIOUS
<1>1. lru \in LruParts /\ lfu \in LfuParts /\ got = None
  BY SizeAssumption DEF Init, LruParts, LfuParts, Ghosts
<1>2. Cached(lru) = {} /\ Cached(lfu) = {} /\ lru.list = <<>> /\ lfu.list = <<>>
  BY DEF Init, Cached
<1>3. IsFiniteSet({}) /\ Cardinality({}) = 0
  BY FS_EmptySet
<1>4. Range(<<>>) = {} /\ IsInjective(<<>>)
  BY DEF Range, IsInjective
<1>5. Sound(lru) /\ Sound(lfu) /\ LeastFreq(lfu)
  BY <1>2, <1>3, <1>4 DEF Sound, LeastFreq
<1>6. lru.capacity = Capacity /\ lfu.capacity = Capacity /\ Capacity \in Nat
  BY SizeAssumption DEF Init
<1>7. ArcInv
  BY <1>1, <1>2, <1>3, <1>5, <1>6 DEF ArcInv, LruOK, LfuOK, CopiesAgree
<1>8. Entries = [k \in Keys |-> None]
  BY DEF Init, Entries, Cached
<1> QED
  BY <1>1, <1>7, <1>8 DEF Lossy!LossyInit

LEMMA ArcNext == ArcInv /\ [Next]_vars => ArcInv' /\ [Lossy!LossyNext]_<<Entries, got>>
<1> SUFFICES ASSUME ArcInv, [Next]_vars PROVE ArcInv' /\ [Lossy!LossyNext]_<<Entries, got>>
  OBVIOUS
<1>1. ASSUME NEW k \in Keys, Get(k) PROVE ArcInv' /\ Lossy!LossyNext
  <2>1. ArcInv' /\ Lossy!LossyGet(k)
    BY <1>1, GetStep
  <2> QED
    BY <1>1, <2>1 DEF Lossy!LossyNext
<1>2. ASSUME NEW k \in Keys, NEW v \in Values, Put(k, v) PROVE ArcInv' /\ Lossy!LossyNext
  <2>1. ArcInv' /\ Lossy!LossyPut(k, v)
    BY <1>2, PutStep
  <2> QED
    BY <1>2, <2>1 DEF Lossy!LossyNext
<1>3. CASE UNCHANGED vars
  <2>1. lru' = lru /\ lfu' = lfu /\ got' = got
    BY <1>3 DEF vars
  <2>2. ArcInv'
    BY <2>1 DEF ArcInv, CopiesAgree
  <2>3. Entries' = Entries
    BY <2>1 DEF Entries
  <2> QED
    BY <2>1, <2>2, <2>3
<1> QED
  BY <1>1, <1>2, <1>3 DEF Next

LEMMA ArcInvariant == Spec => []ArcInv
BY ArcInit, ArcNext, PTL DEF Spec

\* Every field of both parts keeps its type; in particular no capacity_, which
\* the code decrements as an unsigned number, goes below zero.
THEOREM TypeCorrect == Spec => []TypeOK
<1>1. ArcInv => TypeOK
  BY DEF ArcInv, TypeOK, LruOK, LfuOK
<1> QED
  BY <1>1, ArcInvariant, PTL

\* The trade of capacity neither creates nor loses any, and both parts keep
\* within what they have: an eviction precedes each decrement and each insertion.
THEOREM CapacityCorrect == Spec => []CapacityShared
<1>1. ArcInv => CapacityShared
  BY DEF ArcInv, CapacityShared, LruOK, LfuOK
<1> QED
  BY <1>1, ArcInvariant, PTL

\* Each part's lists hold exactly the nodes of its map, each once.
THEOREM ListsCorrect == Spec => []ListsMatch
<1>1. ArcInv => ListsMatch
  BY DEF ArcInv, ListsMatch, LruOK, LfuOK, Sound
<1> QED
  BY <1>1, ArcInvariant, PTL

\* minFreq_, kept up incrementally by put, get and the evictions, is the least
\* count of the LFU part whenever that part holds anything.
THEOREM MinFreqCorrect == Spec => []MinFreqIsLeast
<1>1. ASSUME ArcInv, Cached(lfu) # {}
      PROVE  lfu.minFreq = Min({lfu.count[k] : k \in Cached(lfu)})
  <2> DEFINE C == {lfu.count[k] : k \in Cached(lfu)}
  <2>1. LeastFreq(lfu) /\ lfu.minFreq \in Nat /\ lfu.count \in [Keys -> Nat]
    BY <1>1 DEF ArcInv, LfuOK, LfuParts
  <2>2. C \subseteq Nat /\ C # {}
    BY <1>1, <2>1 DEF Cached
  <2>3. lfu.minFreq \in C /\ \A n \in C : lfu.minFreq <= n
    BY <1>1, <2>1 DEF LeastFreq
  <2> HIDE DEF C
  <2>4. Min(C) \in C /\ \A n \in C : Min(C) <= n
    BY <2>2, MinFacts
  <2>5. lfu.minFreq = Min(C)
    <3> DEFINE m == lfu.minFreq
    <3> DEFINE l == Min(C)
    <3>1. m \in Nat /\ l \in Nat
      BY <2>1, <2>2, <2>4
    <3>2. m <= l /\ l <= m
      BY <2>3, <2>4
    <3> HIDE DEF m, l
    <3>3. m = l
      BY <3>1, <3>2
    <3> QED
      BY <3>3 DEF m, l
  <2> QED
    BY <2>5 DEF C
<1>2. ArcInv => MinFreqIsLeast
  BY <1>1 DEF MinFreqIsLeast
<1> QED
  BY <1>2, ArcInvariant, PTL

\* A key cached in both parts has one value.
THEOREM CopiesCorrect == Spec => []CopiesAgree
<1>1. ArcInv => CopiesAgree
  BY DEF ArcInv
<1> QED
  BY <1>1, ArcInvariant, PTL

\* The cache implements a map that may forget and is never stale.
THEOREM LossyImplemented == Spec => ImplementsLossyCache
<1>1. Init => Lossy!LossyInit
  BY ArcInit
<1>2. ArcInv /\ [Next]_vars => [Lossy!LossyNext]_<<Entries, got>>
  BY ArcNext
<1> QED
  BY <1>1, <1>2, ArcInvariant, PTL DEF Spec, ImplementsLossyCache, Lossy!LossySpec
=============================================================================

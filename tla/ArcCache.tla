------------------------------ MODULE ArcCache ------------------------------
(***************************************************************************)
(* KArcCache of the gateway: an LRU part and an LFU part that trade        *)
(* capacity when a key is asked for that one of them has evicted lately.   *)
(* The cache belongs to one controller, whose handlers run on one thread,  *)
(* so that put and get are steps.                                          *)
(***************************************************************************)
EXTENDS Integers, FiniteSets, SequencesExt

CONSTANTS
    Keys,
    Values,
    Capacity,       \* capacity of each part, and of each ghost list
    Threshold,      \* accesses that copy a key into the LFU part
    MaxFreq,        \* bound: accesses to a key in the LFU part
    MaxGhosts,      \* bound: nodes in a ghost list
    None            \* no node, no answer

ASSUME NoneAssumption == None \notin Values
ASSUME SizeAssumption == Capacity \in Nat \ {0} /\ Threshold \in Nat \ {0}
ASSUME BoundAssumption == MaxFreq \in Nat /\ MaxGhosts \in Nat

VARIABLES
    lru,    \* lruPart_: mainCache_ as value, the main list, ghosts, capacity_
    lfu,    \* lfuPart_: likewise; list is all of freqMap_ in order of arrival
    got     \* the answer of the last get, None if it found nothing

vars == <<lru, lfu, got>>

Init ==
    /\ lru = [value |-> [k \in Keys |-> None], count |-> [k \in Keys |-> 1],
              list |-> <<>>, ghosts |-> <<>>, capacity |-> Capacity]
    /\ lfu = [value |-> [k \in Keys |-> None], count |-> [k \in Keys |-> 0],
              list |-> <<>>, ghosts |-> <<>>, capacity |-> Capacity, minFreq |-> 0]
    /\ got = None

Cached(part) == {k \in Keys : part.value[k] # None}

-----------------------------------------------------------------------------
(* Ghosts.  A part keeps a list of the nodes it evicted, oldest first, and  *)
(* a map from keys to nodes of the list.  The list may hold several nodes   *)
(* of one key; only the last of them can be in the map.                     *)

Mapped(ghosts) == {k \in Keys : \E i \in DOMAIN ghosts : ghosts[i] = [key |-> k, mapped |-> TRUE]}

Unmap(ghosts, k) ==
    [i \in DOMAIN ghosts |-> IF ghosts[i].key = k THEN [key |-> k, mapped |-> FALSE] ELSE ghosts[i]]

RemoveOldest(ghosts) ==
    IF ghosts = <<>> THEN ghosts ELSE Unmap(Tail(ghosts), Head(ghosts).key)

AddGhost(ghosts, k) ==
    LET room == IF Cardinality(Mapped(ghosts)) >= Capacity THEN RemoveOldest(ghosts) ELSE ghosts
    IN Append(Unmap(room, k), [key |-> k, mapped |-> TRUE])

\* checkGhost: a ghost that is hit leaves the list and the map.
InGhost(part, k) == k \in Mapped(part.ghosts)

DropGhost(part, k) ==
    [part EXCEPT !.ghosts = RemoveFirst(@, [key |-> k, mapped |-> TRUE])]

\* Mutant: the node stays in its list.
Evict_KeepListed(part, k, count) ==
    [part EXCEPT !.value[k] = None, !.count[k] = count, !.ghosts = AddGhost(@, k)]

\* The node of k becomes a ghost.  An evicted node counts from 1 again in the
\* LRU part; in the LFU part the count of a ghost is never read.
Evict(part, k, count) ==
    [part EXCEPT !.value[k] = None, !.count[k] = count,
                 !.list = RemoveFirst(@, k), !.ghosts = AddGhost(@, k)]

-----------------------------------------------------------------------------
(* The LRU part: the list has the most recent key at the front. *)

EvictLeastRecent(part) ==
    IF part.list = <<>> THEN part ELSE Evict(part, Last(part.list), 1)

ToFront(part, k) == [part EXCEPT !.list = <<k>> \o RemoveFirst(@, k)]

LruPut(part, k, v) ==
    IF part.capacity = 0 THEN part
    ELSE LET node == IF k \in Cached(part) THEN part
                     ELSE IF Cardinality(Cached(part)) >= part.capacity
                          THEN EvictLeastRecent(part) ELSE part
         IN ToFront([node EXCEPT !.value[k] = v], k)

\* Counts stop at Threshold, beyond which they are all the same.
LruTouch(part, k) ==
    ToFront([part EXCEPT !.count[k] = IF @ < Threshold THEN @ + 1 ELSE @], k)

-----------------------------------------------------------------------------
(* The LFU part: freqMap_[f] is the sublist of the keys with count f. *)

WithFreq(part, f) == {i \in DOMAIN part.list : part.count[part.list[i]] = f}

Freqs(part) == {part.count[k] : k \in Range(part.list)}

\* The first key of the list with minFreq_, if that list is not empty; then
\* minFreq_ moves to the next list if this one is used up.
EvictLeastFrequent(part) ==
    LET first == part.list[Min(WithFreq(part, part.minFreq))]
        rest == Evict(part, first, 0)
    IN IF WithFreq(part, part.minFreq) = {} THEN part
       ELSE IF WithFreq(rest, part.minFreq) # {} \/ rest.list = <<>> THEN rest
       ELSE [rest EXCEPT !.minFreq = Min(Freqs(rest))]

\* Mutant: minFreq_ is left alone when the last key of its list moves on.
LfuTouch_StaleMin(part, k) ==
    [part EXCEPT !.count[k] = @ + 1, !.list = Append(RemoveFirst(@, k), k)]

\* updateNodeFrequency.
LfuTouch(part, k) ==
    LET f == part.count[k]
        last == Cardinality(WithFreq(part, f)) = 1 /\ f = part.minFreq
    IN [part EXCEPT !.count[k] = f + 1, !.list = Append(RemoveFirst(@, k), k),
                    !.minFreq = IF last THEN f + 1 ELSE @]

LfuAdd(part, k, v) ==
    LET room == IF Cardinality(Cached(part)) >= part.capacity
                THEN EvictLeastFrequent(part) ELSE part
    IN [room EXCEPT !.value[k] = v, !.count[k] = 1, !.list = Append(@, k), !.minFreq = 1]

LfuPut(part, k, v) ==
    IF part.capacity = 0 THEN part
    ELSE IF k \in Cached(part) THEN LfuTouch([part EXCEPT !.value[k] = v], k)
    ELSE LfuAdd(part, k, v)

-----------------------------------------------------------------------------
(* The cache *)

\* decreaseCapacity of a part, given what it is after an eviction.
Shrink(part, evicted) ==
    [(IF Cardinality(Cached(part)) = part.capacity THEN evicted ELSE part)
        EXCEPT !.capacity = @ - 1]

\* Mutant: the other part grows whether or not this one could shrink.
Grow_Always(part, other) == [part EXCEPT !.capacity = @ + 1]

\* increaseCapacity, if the other part has something to give.
Grow(part, other) == IF other.capacity = 0 THEN part ELSE [part EXCEPT !.capacity = @ + 1]

ShrinkLru(part) == IF part.capacity = 0 THEN part ELSE Shrink(part, EvictLeastRecent(part))

ShrinkLfu(part) == IF part.capacity = 0 THEN part ELSE Shrink(part, EvictLeastFrequent(part))

\* checkGhostCaches: a key the LRU part has evicted lately moves capacity to
\* it; the ghosts of the LFU part are looked at only if that fails.
LruAfterCheck(k) ==
    IF InGhost(lru, k) THEN Grow(DropGhost(lru, k), lfu)
    ELSE IF InGhost(lfu, k) THEN ShrinkLru(lru) ELSE lru

LfuAfterCheck(k) ==
    IF InGhost(lru, k) THEN ShrinkLfu(lfu)
    ELSE IF InGhost(lfu, k) THEN Grow(DropGhost(lfu, k), lru) ELSE lfu

\* Bounds of the model.
WithinBounds(k) ==
    /\ lfu.count[k] < MaxFreq
    /\ Len(lru.ghosts) < MaxGhosts /\ Len(lfu.ghosts) < MaxGhosts

\* Mutant: the copy in the LFU part is left as it is.
UpdateCopy_Not(part, k, v) == part

UpdateCopy(part, k, v) == IF k \in Cached(part) THEN LfuPut(part, k, v) ELSE part

Put(k, v) ==
    /\ WithinBounds(k)
    /\ lru' = LruPut(LruAfterCheck(k), k, v)
    /\ lfu' = UpdateCopy(LfuAfterCheck(k), k, v)
    /\ got' = None

Get(k) ==
    LET r == LruAfterCheck(k)
        f == LfuAfterCheck(k)
    IN /\ WithinBounds(k)
       /\ \/ /\ k \in Cached(r)
             /\ lru' = LruTouch(r, k)
             /\ lfu' = IF lru'.count[k] >= Threshold THEN LfuPut(f, k, r.value[k]) ELSE f
             /\ got' = r.value[k]
          \/ /\ k \notin Cached(r) /\ k \in Cached(f)
             /\ lru' = r
             /\ lfu' = LfuTouch(f, k)
             /\ got' = f.value[k]
          \/ /\ k \notin Cached(r) \cup Cached(f)
             /\ lru' = r
             /\ lfu' = f
             /\ got' = None

Next == \E k \in Keys : Get(k) \/ \E v \in Values : Put(k, v)

Spec == Init /\ [][Next]_vars

-----------------------------------------------------------------------------
(* Properties *)

Ghosts == Seq([key : Keys, mapped : BOOLEAN])

LruParts == [value : [Keys -> Values \cup {None}], count : [Keys -> Nat],
             list : Seq(Keys), ghosts : Ghosts, capacity : Nat]

LfuParts == [value : [Keys -> Values \cup {None}], count : [Keys -> Nat],
             list : Seq(Keys), ghosts : Ghosts, capacity : Nat, minFreq : Nat]

TypeOK == lru \in LruParts /\ lfu \in LfuParts /\ got \in Values \cup {None}

\* The parts trade capacity and neither creates nor loses any, and each keeps
\* within what it has (increaseCapacity, decreaseCapacity, evictions).
CapacityShared ==
    /\ lru.capacity + lfu.capacity = 2 * Capacity
    /\ Cardinality(Cached(lru)) <= lru.capacity
    /\ Cardinality(Cached(lfu)) <= lfu.capacity

\* mainCache_ and the lists of a part hold the same nodes, each once; what is
\* in a list and not in the map could neither be found nor evicted.
ListsMatch ==
    \A part \in {lru, lfu} :
        /\ Range(part.list) = Cached(part)
        /\ IsInjective(part.list)

\* minFreq_, which no operation recomputes from scratch, is the least count of
\* the LFU part: evictLeastFrequent evicts the key used least.
MinFreqIsLeast == Cached(lfu) # {} => lfu.minFreq = Min({lfu.count[k] : k \in Cached(lfu)})

\* A key may be in both parts; then both have the last value put.
CopiesAgree == \A k \in Cached(lru) \cap Cached(lfu) : lru.value[k] = lfu.value[k]

\* The cache is a map that may forget: get answers with the last value put, or
\* with nothing.
Entries == [k \in Keys |-> IF k \in Cached(lru) THEN lru.value[k] ELSE lfu.value[k]]

Lossy == INSTANCE LossyCache WITH entries <- Entries

ImplementsLossyCache == Lossy!LossySpec
=============================================================================

--------------------- MODULE CacheExpirationHelper_proofs ---------------------
(* Proofs about CacheExpirationHelper for every set of keys, every number of   *)
(* buckets and every set of heap addresses.                                    *)
EXTENDS CacheExpirationHelper, TLAPS

(***************************************************************************)
(* The inductive invariant.  BucketAgreement alone is not inductive: it    *)
(* needs the buckets of the array to be distinct from each other and from  *)
(* the one a tick is walking, freed buckets to be empty, and the easier    *)
(* half of the agreement for the lost records too (they may be pinned and  *)
(* moved again).                                                           *)
(***************************************************************************)
DistinctBuckets ==
    /\ \A i, j \in 1..BucketsCount : m_buckets[i] = m_buckets[j] => i = j
    /\ expired \notin Live

HeldIsPointed == \A k \in Key, a \in Live : k \in contents[a] => bucket[k] = a

FreedIsEmpty == \A a \in Addr \ Allocated : contents[a] = {}

PointedIsHeld ==
    \A k \in Key \ lost :
        bucket[k] # nullptr => bucket[k] \in Allocated /\ k \in contents[bucket[k]]

HistoryTracked == lost \subseteq tracked /\ phantom \subseteq tracked

Structure == TypeOK /\ DistinctBuckets /\ HeldIsPointed /\ FreedIsEmpty
             /\ PointedIsHeld /\ HistoryTracked /\ PinnedOutOfBuckets

IInv == Structure /\ ExpiresOnTime /\ TrackedIsCached

USE BucketsCountAssumption, MaxPinsAssumption, PointerAssumption

\* Every position of the array is an allocated bucket, and the array is not empty.
LEMMA Positions ==
    ASSUME TypeOK
    PROVE  /\ 1 \in 1..BucketsCount /\ BucketsCount \in 1..BucketsCount
           /\ Front \in Live /\ Back \in Live
           /\ Live \subseteq Addr
           /\ Allocated \subseteq Addr
           /\ nullptr \notin Allocated
<1>1. 1 \in 1..BucketsCount /\ BucketsCount \in 1..BucketsCount
  OBVIOUS
<1>2. Front \in Live /\ Back \in Live
  BY <1>1, Zenon DEF Front, Back, Live
<1>3. Live \subseteq Addr
  BY DEF TypeOK, Live
<1> QED
  BY <1>1, <1>2, <1>3, Zenon DEF TypeOK, Allocated

\* IInv implies the agreement of buckets and records that TLC checks.
LEMMA StructureImpliesAgreement == Structure => BucketAgreement
<1> SUFFICES ASSUME Structure PROVE BucketAgreement
  BY Zenon
<1> USE DEF Structure
<1>1. \A a \in Live : a \in Addr /\ a # nullptr
  BY Positions, Zenon
<1>2. \A k \in Key \ lost, a \in Live : bucket[k] = a => k \in contents[a]
  BY <1>1, Zenon DEF PointedIsHeld
<1> QED
  BY <1>2, Zenon DEF HeldIsPointed, PointedIsHeld, BucketAgreement

\* A newly constructed helper has no records and BucketsCount distinct empty buckets.
LEMMA InitIInv == Init => IInv
<1> SUFFICES ASSUME Init PROVE IInv
  BY Zenon
<1>1. TypeOK
  BY DEF Init, TypeOK
<1>2. Live \subseteq Addr /\ nullptr \notin Live
  BY <1>1, Positions, Zenon DEF Allocated
<1>3. DistinctBuckets
  BY <1>2, Zenon DEF Init, DistinctBuckets
<1> QED
  BY <1>1, <1>2, <1>3, Zenon DEF IInv, Structure, Init, HeldIsPointed, FreedIsEmpty, PointedIsHeld,
     HistoryTracked, PinnedOutOfBuckets, ExpiresOnTime, TrackedIsCached, TypeOK

-------------------------------------------------------------------------------
(* The steps.                                                              *)

\* The shared part of the invariant only reads these; an operation that leaves the
\* array and the walked bucket alone keeps their distinctness.
LEMMA SameArray ==
    ASSUME DistinctBuckets, UNCHANGED <<m_buckets, expired>>
    PROVE  DistinctBuckets' /\ Live' = Live /\ Allocated' = Allocated
           /\ Front' = Front /\ Back' = Back
  BY Zenon DEF DistinctBuckets, Live, Allocated, Front, Back

\* EraseUnderIterator only ever shortens the iteration.
LEMMA IteratorShrinks ==
    ASSUME TypeOK, NEW ks \in SUBSET Key, EraseUnderIterator(ks)
    PROVE  toVisit' \in SUBSET Key
  BY Zenon DEF TypeOK, EraseUnderIterator

\* Moving a record to a live bucket keeps buckets and records in agreement.
LEMMA MoveToKeeps ==
    ASSUME Structure, NEW k \in Key, NEW a \in Live, NEW n \in 0..BucketsCount,
           MoveTo(k, a, n), UNCHANGED <<m_buckets, expired>>
    PROVE  /\ contents' \in [Addr -> SUBSET Key]
           /\ bucket' \in [Key -> Addr \cup {nullptr}]
           /\ left' \in [Key -> 0..BucketsCount]
           /\ lost' \subseteq lost
           /\ HeldIsPointed' /\ FreedIsEmpty' /\ PointedIsHeld'
<1> USE DEF Structure
<1>1. a \in Addr /\ a # nullptr /\ a \in Allocated
  BY Positions, Zenon DEF Allocated
<1>2. /\ Live' = Live /\ Allocated' = Allocated
      /\ Live \subseteq Addr /\ Allocated \subseteq Addr /\ nullptr \notin Allocated
  BY SameArray, Positions, Zenon
<1>3. contents' = [b \in Addr |-> IF b = a THEN (contents[a] \ {x \in {k} : bucket[x] = a}) \cup {k}
                                  ELSE contents[b] \ {x \in {k} : bucket[x] = b}]
  BY <1>1, Zenon DEF MoveTo, Without
<1>4. contents' \in [Addr -> SUBSET Key]
  BY <1>1, <1>3, Zenon DEF TypeOK
<1>5. bucket' = [bucket EXCEPT ![k] = a] /\ lost' = lost \ {k}
      /\ left' = [left EXCEPT ![k] = n]
  BY Zenon DEF MoveTo
<1>9. /\ bucket' \in [Key -> Addr \cup {nullptr}]
      /\ left' \in [Key -> 0..BucketsCount]
      /\ lost' \subseteq lost
  BY <1>1, <1>5, Zenon DEF TypeOK
<1>6. HeldIsPointed'
  BY <1>1, <1>2, <1>3, <1>5, Zenon DEF HeldIsPointed, TypeOK
<1>7. FreedIsEmpty'
  BY <1>1, <1>2, <1>3, Zenon DEF FreedIsEmpty, TypeOK
<1>8. PointedIsHeld'
  BY <1>1, <1>2, <1>3, <1>5, Zenon DEF PointedIsHeld, TypeOK
<1> QED
  BY <1>4, <1>6, <1>7, <1>8, <1>9, Zenon

\* Taking records out of their buckets keeps buckets and records in agreement.
LEMMA TakeOutKeeps ==
    ASSUME Structure, NEW ks \in SUBSET Key, contents' = Without(ks),
           bucket' = [k \in Key |-> IF k \in ks THEN nullptr ELSE bucket[k]],
           lost' = lost \ ks, UNCHANGED <<m_buckets, expired>>
    PROVE  /\ contents' \in [Addr -> SUBSET Key]
           /\ bucket' \in [Key -> Addr \cup {nullptr}]
           /\ HeldIsPointed' /\ FreedIsEmpty' /\ PointedIsHeld'
<1> USE DEF Structure
<1>1. /\ Live' = Live /\ Allocated' = Allocated
      /\ Live \subseteq Addr /\ Allocated \subseteq Addr /\ nullptr \notin Allocated
  BY SameArray, Positions, Zenon
<1>2. contents' = [a \in Addr |-> contents[a] \ {k \in ks : bucket[k] = a}]
  BY Zenon DEF Without
<1>3. contents' \in [Addr -> SUBSET Key] /\ bucket' \in [Key -> Addr \cup {nullptr}]
  BY <1>2 DEF TypeOK
<1>4. HeldIsPointed'
  BY <1>1, <1>2 DEF HeldIsPointed, TypeOK
<1>5. FreedIsEmpty'
  BY <1>1, <1>2, Zenon DEF FreedIsEmpty, TypeOK
<1>6. PointedIsHeld'
  BY <1>1, <1>2 DEF PointedIsHeld, TypeOK
<1> QED
  BY <1>3, <1>4, <1>5, <1>6, Zenon

\* A record whose cache() threw is in no bucket; that disturbs nothing else.
LEMMA CacheThrowsStep ==
    ASSUME IInv, NEW k \in Key, CacheThrows(k)
    PROVE  IInv'
<1>1. DistinctBuckets' /\ Live' = Live /\ Allocated' = Allocated
  BY SameArray, Zenon DEF IInv, Structure, CacheThrows
<1> QED
  BY <1>1 DEF IInv, Structure, CacheThrows, TypeOK, HeldIsPointed, FreedIsEmpty,
     PointedIsHeld, HistoryTracked, PinnedOutOfBuckets, ExpiresOnTime, TrackedIsCached

\* A failing assertion leaves the data as it is.
LEMMA AbortStep == IInv /\ Abort => IInv'
<1> SUFFICES ASSUME IInv, Abort PROVE IInv'
  BY Zenon
<1>1. DistinctBuckets' /\ Live' = Live /\ Allocated' = Allocated
  BY SameArray, Zenon DEF IInv, Structure, Abort
<1> QED
  BY <1>1 DEF IInv, Structure, Abort, TypeOK, HeldIsPointed, FreedIsEmpty,
     PointedIsHeld, HistoryTracked, PinnedOutOfBuckets, ExpiresOnTime, TrackedIsCached

\* The position of a moved record is the number of ticks it was granted.
LEMMA MoveToOnTime ==
    ASSUME IInv, NEW k \in Key, NEW i \in 1..BucketsCount, MoveTo(k, m_buckets[i], i),
           tracked' \subseteq tracked \cup {k}, phantom \subseteq phantom',
           \A x \in Key \ {k} : pinnedCount'[x] = pinnedCount[x],
           UNCHANGED <<m_buckets, expired>>
    PROVE  ExpiresOnTime'
<1> USE DEF IInv, Structure
<1>1. m_buckets[i] \in Addr /\ m_buckets[i] # expired /\ m_buckets[i] # nullptr
  BY DEF TypeOK, DistinctBuckets, Live
<1>2. bucket' = [bucket EXCEPT ![k] = m_buckets[i]] /\ lost' = lost \ {k}
      /\ left' = [left EXCEPT ![k] = i]
  BY Zenon DEF MoveTo
<1>3. SUFFICES ASSUME NEW x \in tracked', x \notin lost'
               PROVE  /\ \A j \in 1..BucketsCount : bucket'[x] = m_buckets[j] => left'[x] = j
                      /\ bucket'[x] = expired /\ expired # nullptr => left'[x] = 0
                      /\ x \notin phantom' /\ pinnedCount'[x] = 0 => bucket'[x] # nullptr
  BY DEF ExpiresOnTime
<1>4. x \in Key
  BY Zenon DEF TypeOK
<1>5. CASE x = k
  BY <1>1, <1>2, <1>5, Zenon DEF TypeOK, DistinctBuckets
<1>6. CASE x # k
  <2>1. x \in tracked \ lost /\ bucket'[x] = bucket[x] /\ left'[x] = left[x]
        /\ pinnedCount'[x] = pinnedCount[x]
    BY <1>2, <1>3, <1>4, <1>6, Zenon DEF TypeOK
  <2> QED
    BY <2>1 DEF ExpiresOnTime
<1> QED
  BY <1>5, <1>6, Zenon

\* markInteresting() takes the key out of its old bucket before it puts it in back().
LEMMA MarkInterestingStep ==
    ASSUME IInv, NEW k \in Key, MarkInteresting(k)
    PROVE  IInv'
<1> USE DEF IInv, Structure
<1>1. CASE CacheThrows(k)
  BY <1>1, CacheThrowsStep, Zenon
<1>2. CASE ~CacheThrows(k) /\ pinnedCount[k] = 0 /\ bucket[k] # Back
  <2>1. /\ MoveTo(k, Back, BucketsCount) /\ EnsureTracked(k)
        /\ UNCHANGED <<pinnedCount, m_buckets, expired, phantom>>
    BY <1>2, Zenon DEF MarkInteresting
  <2>2. DistinctBuckets' /\ Back \in Live /\ BucketsCount \in 1..BucketsCount
    BY <2>1, SameArray, Positions, Zenon
  <2>3. /\ contents' \in [Addr -> SUBSET Key]
        /\ bucket' \in [Key -> Addr \cup {nullptr}]
        /\ left' \in [Key -> 0..BucketsCount]
        /\ lost' \subseteq lost
        /\ HeldIsPointed' /\ FreedIsEmpty' /\ PointedIsHeld'
    BY <2>1, <2>2, MoveToKeeps
  <2>4. toVisit' \in SUBSET Key
    BY <2>1, IteratorShrinks, Zenon DEF MoveTo
  <2>5. status' \in {"running", "aborted"}
    BY <2>1, Zenon DEF MoveTo
  <2>6. TypeOK'
    BY <2>1, <2>3, <2>4, <2>5, Zenon DEF TypeOK, EnsureTracked
  <2>7. HistoryTracked'
    BY <2>1, <2>3, Zenon DEF HistoryTracked, EnsureTracked
  <2>8. PinnedOutOfBuckets'
    BY <1>2, <2>1 DEF PinnedOutOfBuckets, EnsureTracked, MoveTo, TypeOK
  <2>9. ExpiresOnTime'
    BY <2>1, <2>2, MoveToOnTime, Zenon DEF EnsureTracked, Back
  <2>10. TrackedIsCached'
    BY <2>1, Zenon DEF TrackedIsCached, EnsureTracked
  <2> QED
    BY <2>2, <2>3, <2>6, <2>7, <2>8, <2>9, <2>10, Zenon
<1>3. CASE ~CacheThrows(k) /\ ~(pinnedCount[k] = 0 /\ bucket[k] # Back)
  <2>1. /\ UNCHANGED <<contents, bucket, left, lost, status, toVisit>>
        /\ UNCHANGED <<pinnedCount, m_buckets, expired, phantom>>
        /\ EnsureTracked(k)
    BY <1>3, Zenon DEF MarkInteresting
  <2>2. DistinctBuckets' /\ Live' = Live /\ Allocated' = Allocated
    BY <2>1, SameArray, Zenon
  <2>3. k \in tracked
    BY <1>3, Positions, Zenon DEF PinnedOutOfBuckets, Allocated, TypeOK
  <2>4. UNCHANGED <<tracked, cached>>
    BY <2>1, <2>3, Zenon DEF EnsureTracked
  <2> QED
    BY <2>1, <2>2, <2>4 DEF TypeOK, HeldIsPointed, FreedIsEmpty, PointedIsHeld,
       HistoryTracked, PinnedOutOfBuckets, ExpiresOnTime, TrackedIsCached
<1> QED
  BY <1>1, <1>2, <1>3, Zenon

\* pin() takes the key out of its bucket and nulls the pointer.
LEMMA PinStep ==
    ASSUME IInv, NEW k \in Key, Pin(k)
    PROVE  IInv'
<1> USE DEF IInv, Structure
<1>1. CASE CacheThrows(k)
  BY <1>1, CacheThrowsStep
<1>2. CASE ~CacheThrows(k)
  <2>1. /\ EnsureTracked(k)
        /\ contents' = Without({k})
        /\ EraseUnderIterator({k})
        /\ bucket' = [bucket EXCEPT ![k] = nullptr]
        /\ pinnedCount' = [pinnedCount EXCEPT ![k] = @ + 1]
        /\ lost' = lost \ {k}
        /\ UNCHANGED <<m_buckets, expired, status, left, phantom>>
    BY <1>2, Zenon DEF Pin
  <2>2. bucket' = [x \in Key |-> IF x \in {k} THEN nullptr ELSE bucket[x]]
    BY <2>1, Zenon DEF TypeOK
  <2>3. DistinctBuckets' /\ Live' = Live /\ Allocated' = Allocated
    BY <2>1, SameArray, Zenon
  <2>4. /\ contents' \in [Addr -> SUBSET Key]
        /\ bucket' \in [Key -> Addr \cup {nullptr}]
        /\ HeldIsPointed' /\ FreedIsEmpty' /\ PointedIsHeld'
    BY <2>1, <2>2, TakeOutKeeps, Zenon
  <2>5. toVisit' \in SUBSET Key
    BY <2>1, IteratorShrinks, Zenon
  <2>6. TypeOK'
    <3>1. pinnedCount' \in [Key -> Nat]
      BY <2>1 DEF TypeOK
    <3>2. tracked' \in SUBSET Key /\ cached' \in SUBSET Key /\ lost' \in SUBSET Key
      BY <2>1, Zenon DEF TypeOK, EnsureTracked
    <3>3. UNCHANGED <<m_buckets, expired, status, left, phantom>>
      BY <2>1, Zenon
    <3> QED
      BY <2>4, <2>5, <3>1, <3>2, <3>3, Zenon DEF TypeOK
  <2>7. HistoryTracked' /\ TrackedIsCached'
    BY <2>1, Zenon DEF HistoryTracked, EnsureTracked, TrackedIsCached
  <2>8. PinnedOutOfBuckets'
    BY <2>1, Zenon DEF PinnedOutOfBuckets, EnsureTracked, TypeOK
  <2>9. ExpiresOnTime'
    <3>1. \A i \in 1..BucketsCount : m_buckets[i] # nullptr
      BY DEF TypeOK
    <3> QED
      BY <2>1, <3>1 DEF ExpiresOnTime, EnsureTracked, TypeOK
  <2> QED
    BY <2>3, <2>4, <2>6, <2>7, <2>8, <2>9, Zenon
<1> QED
  BY <1>1, <1>2, Zenon

\* The last unpin() puts the key, which is in no bucket, into back().
LEMMA UnpinStep ==
    ASSUME IInv, NEW k \in Key, Unpin(k)
    PROVE  IInv'
<1> USE DEF IInv, Structure
<1>1. CASE bucket[k] # nullptr
  BY <1>1, AbortStep, Zenon DEF Unpin
<1>2. CASE bucket[k] = nullptr
  <2>1. /\ k \in tracked /\ pinnedCount[k] > 0
        /\ pinnedCount' = [pinnedCount EXCEPT ![k] = @ - 1]
        /\ UNCHANGED <<tracked, m_buckets, expired, cached, phantom>>
    BY <1>2, Zenon DEF Unpin
  <2>2. DistinctBuckets' /\ Live' = Live /\ Allocated' = Allocated
    BY <2>1, SameArray, Zenon
  <2>3. pinnedCount' \in [Key -> Nat]
    BY <2>1 DEF TypeOK
  <2>4. CASE pinnedCount[k] = 1
    <3>1. MoveTo(k, Back, BucketsCount)
      BY <1>2, <2>4, Zenon DEF Unpin
    <3>2. Back \in Live /\ BucketsCount \in 1..BucketsCount
      BY Positions, Zenon
    <3>3. /\ contents' \in [Addr -> SUBSET Key]
          /\ bucket' \in [Key -> Addr \cup {nullptr}]
          /\ left' \in [Key -> 0..BucketsCount]
          /\ lost' \subseteq lost
          /\ HeldIsPointed' /\ FreedIsEmpty' /\ PointedIsHeld'
      BY <2>1, <3>1, <3>2, MoveToKeeps
    <3>4. toVisit' \in SUBSET Key /\ status' \in {"running", "aborted"}
      BY <3>1, IteratorShrinks, Zenon DEF MoveTo
    <3>5. TypeOK'
      BY <2>1, <2>3, <3>3, <3>4, Zenon DEF TypeOK
    <3>6. PinnedOutOfBuckets'
      BY <2>1, <2>4, <3>1 DEF PinnedOutOfBuckets, MoveTo, TypeOK
    <3>7. ExpiresOnTime'
      BY <2>1, <3>1, <3>2, MoveToOnTime, Zenon DEF Back, TypeOK
    <3> QED
      BY <2>1, <2>2, <3>3, <3>5, <3>6, <3>7, Zenon DEF HistoryTracked, TrackedIsCached
  <2>5. CASE pinnedCount[k] # 1
    <3>1. UNCHANGED <<contents, bucket, left, lost, status, toVisit>>
      BY <1>2, <2>5, Zenon DEF Unpin
    <3>2. TypeOK' /\ HeldIsPointed' /\ FreedIsEmpty' /\ PointedIsHeld' /\ HistoryTracked'
          /\ TrackedIsCached'
      BY <2>1, <2>2, <2>3, <3>1, Zenon DEF TypeOK, HeldIsPointed, FreedIsEmpty, PointedIsHeld,
         HistoryTracked, TrackedIsCached
    <3>3. PinnedOutOfBuckets' /\ ExpiresOnTime'
      BY <2>1, <2>5, <3>1 DEF TypeOK, PinnedOutOfBuckets, ExpiresOnTime
    <3> QED
      BY <2>2, <3>2, <3>3, Zenon
  <2> QED
    BY <2>4, <2>5, Zenon
<1> QED
  BY <1>1, <1>2, Zenon

\* expire() moves an unpinned key to front(), one tick before its end.
LEMMA ExpireStep ==
    ASSUME IInv, NEW k \in Key, Expire(k)
    PROVE  IInv'
<1> USE DEF IInv, Structure
<1>1. CASE bucket[k] = nullptr
  BY <1>1, AbortStep, Zenon DEF Expire
<1>2. CASE bucket[k] # nullptr
  <2>1. /\ k \in tracked /\ pinnedCount[k] = 0
        /\ MoveTo(k, Front, 1)
        /\ UNCHANGED <<tracked, pinnedCount, m_buckets, expired, cached, phantom>>
    BY <1>2, Zenon DEF Expire
  <2>2. DistinctBuckets' /\ Front \in Live /\ 1 \in 1..BucketsCount
    BY <2>1, SameArray, Positions, Zenon
  <2>3. /\ contents' \in [Addr -> SUBSET Key]
        /\ bucket' \in [Key -> Addr \cup {nullptr}]
        /\ left' \in [Key -> 0..BucketsCount]
        /\ lost' \subseteq lost
        /\ HeldIsPointed' /\ FreedIsEmpty' /\ PointedIsHeld'
    BY <2>1, <2>2, MoveToKeeps
  <2>4. toVisit' \in SUBSET Key /\ status' \in {"running", "aborted"}
    BY <2>1, IteratorShrinks, Zenon DEF MoveTo
  <2>5. TypeOK'
    BY <2>1, <2>3, <2>4, Zenon DEF TypeOK
  <2>6. PinnedOutOfBuckets'
    BY <2>1 DEF PinnedOutOfBuckets, MoveTo, TypeOK
  <2>7. ExpiresOnTime'
    BY <2>1, <2>2, MoveToOnTime, Zenon DEF Front, TypeOK
  <2> QED
    BY <2>1, <2>2, <2>3, <2>5, <2>6, <2>7, Zenon DEF HistoryTracked, TrackedIsCached
<1> QED
  BY <1>1, <1>2, Zenon

\* rename() onto a tracked key adds the pins up and keeps or empties its bucket.
LEMMA RenameOntoTrackedStep ==
    ASSUME IInv, NEW old \in Key, NEW new \in Key, old # new, old \in tracked,
           RenameOntoTracked(old, new)
    PROVE  IInv'
<1> USE DEF IInv, Structure
<1> DEFINE pins == pinnedCount[new] + pinnedCount[old]
           gone == IF pins > 0 THEN {old, new} ELSE {old}
<1>1. /\ new \in tracked
      /\ pinnedCount' = [pinnedCount EXCEPT ![new] = pins, ![old] = 0]
      /\ bucket' = [k \in Key |-> IF k \in gone THEN nullptr ELSE bucket[k]]
      /\ contents' = Without(gone)
      /\ EraseUnderIterator(gone)
      /\ tracked' = tracked \ {old}
      /\ phantom' = phantom \ {old}
      /\ lost' = lost \ gone
      /\ UNCHANGED <<m_buckets, expired, cached, status, left>>
  BY Zenon DEF RenameOntoTracked
<1>2. gone \in SUBSET Key /\ old \in gone /\ gone \subseteq {old, new}
      /\ (new \in gone <=> pins > 0) /\ pins \in Nat
  BY DEF TypeOK
<1> HIDE DEF gone, pins
<1>3. DistinctBuckets' /\ Live' = Live /\ Allocated' = Allocated
  BY <1>1, SameArray, Zenon
<1>4. /\ contents' \in [Addr -> SUBSET Key]
      /\ bucket' \in [Key -> Addr \cup {nullptr}]
      /\ HeldIsPointed' /\ FreedIsEmpty' /\ PointedIsHeld'
  BY <1>1, <1>2, TakeOutKeeps, Zenon
<1>5. toVisit' \in SUBSET Key
  BY <1>1, <1>2, IteratorShrinks, Zenon
<1>6. TypeOK'
  <2>1. pinnedCount' \in [Key -> Nat]
    BY <1>1, <1>2, Zenon DEF TypeOK
  <2>2. tracked' \in SUBSET Key /\ phantom' \in SUBSET Key /\ lost' \in SUBSET Key
    BY <1>1, Zenon DEF TypeOK
  <2>3. UNCHANGED <<m_buckets, expired, cached, status, left>>
    BY <1>1, Zenon
  <2> QED
    BY <1>4, <1>5, <2>1, <2>2, <2>3, Zenon DEF TypeOK
<1>7. HistoryTracked' /\ TrackedIsCached'
  BY <1>1, <1>2, Zenon DEF HistoryTracked, TrackedIsCached
<1>8. PinnedOutOfBuckets'
  BY <1>1, <1>2, Zenon DEF PinnedOutOfBuckets, TypeOK
<1>9. ExpiresOnTime'
  <2>1. \A i \in 1..BucketsCount : m_buckets[i] # nullptr
    BY DEF TypeOK
  <2>5. UNCHANGED <<m_buckets, expired, left>>
    BY <1>1, Zenon
  <2> SUFFICES ASSUME NEW x \in tracked', x \notin lost'
               PROVE  /\ \A j \in 1..BucketsCount : bucket'[x] = m_buckets[j] => left[x] = j
                      /\ bucket'[x] = expired /\ expired # nullptr => left[x] = 0
                      /\ x \notin phantom' /\ pinnedCount'[x] = 0 => bucket'[x] # nullptr
    BY <2>5, Zenon DEF ExpiresOnTime
  <2>2. x \in tracked /\ x \in Key /\ x # old
    BY <1>1, Zenon DEF TypeOK
  <2>3. CASE x \in gone
    <3>1. bucket'[x] = nullptr /\ x = new /\ pinnedCount'[x] = pins /\ pins > 0
      BY <1>1, <1>2, <2>2, <2>3, Zenon DEF TypeOK
    <3> QED
      BY <2>1, <3>1
  <2>4. CASE x \notin gone
    <3>1. x \notin lost /\ bucket'[x] = bucket[x] /\ (x \notin phantom' => x \notin phantom)
      BY <1>1, <2>2, <2>4, Zenon
    <3>2. pinnedCount'[x] = 0 => pinnedCount[x] = 0
      BY <1>1, <1>2, <2>2, <2>4 DEF TypeOK, pins
    <3> QED
      BY <2>2, <3>1, <3>2, Zenon DEF ExpiresOnTime
  <2> QED
    BY <2>3, <2>4, Zenon
<1> QED
  BY <1>3, <1>4, <1>6, <1>7, <1>8, <1>9, Zenon

\* rename() to an untracked key hands over the pins or the bucket of the old one.
LEMMA RenameToNewStep ==
    ASSUME IInv, NEW old \in Key, NEW new \in Key, old # new, old \in tracked,
           RenameToNew(old, new)
    PROVE  IInv'
<1> USE DEF IInv, Structure
<1> DEFINE a == bucket[old]
           held == pinnedCount[old] > 0
<1>1. /\ new \notin tracked
      /\ ~held => a # nullptr /\ new \notin contents[a]
      /\ tracked' = (tracked \ {old}) \cup {new}
      /\ cached' = (cached \ {old}) \cup {new}
      /\ pinnedCount' = [pinnedCount EXCEPT ![new] = pinnedCount[old], ![old] = 0]
      /\ bucket' = [bucket EXCEPT ![new] = a, ![old] = nullptr]
      /\ left' = [left EXCEPT ![new] = left[old]]
      /\ phantom' = phantom \ {old}
      /\ lost' = IF old \in lost THEN (lost \ {old}) \cup {new} ELSE lost
      /\ UNCHANGED <<m_buckets, expired, status>>
  BY Zenon DEF RenameToNew
<1>2. /\ DistinctBuckets' /\ Live' = Live /\ Allocated' = Allocated
      /\ Live \subseteq Addr /\ Allocated \subseteq Addr /\ nullptr \notin Allocated
  BY <1>1, SameArray, Positions, Zenon
<1>3. contents' = [b \in Addr |->
                     IF b = a THEN (contents[b] \ {old}) \cup
                                   (IF ~held /\ a \in Allocated THEN {new} ELSE {})
                     ELSE contents[b]]
  <2>1. CASE ~held /\ a \in Allocated
    BY <1>2, <2>1, Zenon DEF RenameToNew, TypeOK
  <2>2. CASE ~(~held /\ a \in Allocated)
    <3>1. contents' = Without({old})
      BY <2>2, Zenon DEF RenameToNew
    <3>2. \A b \in Addr : {k \in {old} : bucket[k] = b} = IF b = a THEN {old} ELSE {}
      BY Zenon
    <3> QED
      BY <2>2, <3>1, <3>2, Zenon DEF Without, TypeOK
  <2> QED
    BY <2>1, <2>2, Zenon
<1>4. /\ pinnedCount[new] = 0 /\ bucket[new] = nullptr /\ new \notin lost /\ new \notin phantom
      /\ (held => a = nullptr)
      /\ a \in Addr \cup {nullptr} /\ pinnedCount[old] \in Nat
  BY <1>1, Zenon DEF PinnedOutOfBuckets, HistoryTracked, TypeOK
<1>5. contents' \in [Addr -> SUBSET Key]
  BY <1>3, Zenon DEF TypeOK
<1>6. toVisit' \in SUBSET Key
  BY IteratorShrinks, Zenon DEF RenameToNew, TypeOK
<1>7. TypeOK'
  <2>1. /\ pinnedCount' \in [Key -> Nat]
        /\ bucket' \in [Key -> Addr \cup {nullptr}]
        /\ left' \in [Key -> 0..BucketsCount]
    BY <1>1, <1>4, Zenon DEF TypeOK
  <2>2. /\ tracked' \in SUBSET Key /\ phantom' \in SUBSET Key
        /\ lost' \in SUBSET Key /\ cached' \in SUBSET Key
    BY <1>1, Zenon DEF TypeOK
  <2>3. UNCHANGED <<m_buckets, expired, status>>
    BY <1>1, Zenon
  <2> QED
    BY <1>5, <1>6, <2>1, <2>2, <2>3, Zenon DEF TypeOK
<1>8. HeldIsPointed'
  <2> SUFFICES ASSUME NEW x \in Key, NEW b \in Live, x \in contents'[b]
               PROVE  bucket'[x] = b
    BY <1>2, Zenon DEF HeldIsPointed
  <2>1. CASE x = new
    <3>1. new \notin contents[b]
      BY <1>2, <1>4, Zenon DEF HeldIsPointed, Allocated
    <3> QED
      BY <1>1, <1>2, <1>3, <2>1, <3>1, Zenon DEF TypeOK
  <2>2. CASE x # new
    <3>1. x \in contents[b] /\ x # old
      BY <1>2, <1>3, <2>2, Zenon DEF HeldIsPointed
    <3> QED
      BY <1>1, <2>2, <3>1, Zenon DEF HeldIsPointed, TypeOK
  <2> QED
    BY <2>1, <2>2, Zenon
<1>9. FreedIsEmpty'
  BY <1>2, <1>3, Zenon DEF FreedIsEmpty, TypeOK
<1>10. PointedIsHeld'
  <2> SUFFICES ASSUME NEW x \in Key, x \notin lost', bucket'[x] # nullptr
               PROVE  bucket'[x] \in Allocated /\ x \in contents'[bucket'[x]]
    BY <1>2, Zenon DEF PointedIsHeld
  <2>1. CASE x = new
    <3>1. bucket'[x] = a /\ a # nullptr /\ ~held /\ old \notin lost
      BY <1>1, <1>4, <2>1, Zenon DEF TypeOK
    <3>2. a \in Allocated
      BY <3>1, Zenon DEF PointedIsHeld
    <3> QED
      BY <1>2, <1>3, <2>1, <3>1, <3>2, Zenon
  <2>2. CASE x # new
    <3>1. x # old /\ bucket'[x] = bucket[x] /\ x \notin lost
      BY <1>1, <2>2, Zenon DEF TypeOK
    <3> QED
      BY <1>2, <1>3, <3>1, Zenon DEF PointedIsHeld
  <2> QED
    BY <2>1, <2>2, Zenon
<1>11. HistoryTracked' /\ TrackedIsCached'
  BY <1>1, <1>4, Zenon DEF HistoryTracked, TrackedIsCached
<1>12. PinnedOutOfBuckets'
  BY <1>1, <1>4, Zenon DEF PinnedOutOfBuckets, TypeOK
<1>13. ExpiresOnTime'
  <2>5. UNCHANGED <<m_buckets, expired>>
    BY <1>1, Zenon
  <2> SUFFICES ASSUME NEW x \in tracked', x \notin lost'
               PROVE  /\ \A j \in 1..BucketsCount : bucket'[x] = m_buckets[j] => left'[x] = j
                      /\ bucket'[x] = expired /\ expired # nullptr => left'[x] = 0
                      /\ x \notin phantom' /\ pinnedCount'[x] = 0 => bucket'[x] # nullptr
    BY <2>5, Zenon DEF ExpiresOnTime
  <2>1. CASE x = new
    <3>1. /\ bucket'[x] = a /\ left'[x] = left[old] /\ pinnedCount'[x] = pinnedCount[old]
          /\ old \notin lost
      BY <1>1, <2>1, Zenon DEF TypeOK
    <3>2. /\ \A j \in 1..BucketsCount : a = m_buckets[j] => left[old] = j
          /\ a = expired /\ expired # nullptr => left[old] = 0
      BY <3>1, Zenon DEF ExpiresOnTime
    <3>3. pinnedCount[old] = 0 => a # nullptr
      BY <1>1
    <3> QED
      BY <3>1, <3>2, <3>3, Zenon
  <2>2. CASE x # new
    <3>1. /\ x \in tracked /\ x \notin lost /\ bucket'[x] = bucket[x] /\ left'[x] = left[x]
          /\ pinnedCount'[x] = pinnedCount[x] /\ (x \notin phantom' => x \notin phantom)
      BY <1>1, <2>2, Zenon DEF TypeOK
    <3> QED
      BY <3>1, Zenon DEF ExpiresOnTime
  <2> QED
    BY <2>1, <2>2, Zenon
<1> QED
  BY <1>2, <1>7, <1>8, <1>9, <1>10, <1>11, <1>12, <1>13, Zenon

\* shift() keeps the buckets distinct: the new back bucket is allocated while all
\* the others still are, and the old front bucket becomes the one tick() walks.
LEMMA ShiftStep == ASSUME IInv, Shift PROVE IInv'
<1> USE DEF IInv, Structure
<1>1. PICK fresh \in Addr \ Live :
         /\ m_buckets' = [i \in 1..BucketsCount |->
                            IF i = BucketsCount THEN fresh ELSE m_buckets[i + 1]]
         /\ contents' = [contents EXCEPT ![fresh] = {}]
  BY Zenon DEF Shift
<1>2. /\ expired = nullptr /\ expired' = Front
      /\ toVisit' = contents[Front]
      /\ left' = [k \in Key |-> IF left[k] > 0 THEN left[k] - 1 ELSE 0]
      /\ UNCHANGED <<tracked, pinnedCount, bucket, cached, status, phantom, lost>>
  BY Zenon DEF Shift
<1>3. /\ Live \subseteq Addr /\ Front \in Live /\ 1 \in 1..BucketsCount
      /\ BucketsCount \in 1..BucketsCount /\ nullptr \notin Live
      /\ Allocated = Live
  BY <1>2, Positions, Zenon DEF Allocated
<1>4. \A i \in 1..BucketsCount : i # BucketsCount => i + 1 \in 1..BucketsCount
  OBVIOUS
<1>5. \A b : b \in Live' <=> b = fresh \/ \E i \in 2..BucketsCount : b = m_buckets[i]
  <2>1. \A i \in 1..BucketsCount :
           m_buckets'[i] = IF i = BucketsCount THEN fresh ELSE m_buckets[i + 1]
    BY <1>1, Zenon
  <2>2. Live' = {m_buckets'[i] : i \in 1..BucketsCount}
    BY Zenon DEF Live
  <2>3. ASSUME NEW i \in 2..BucketsCount
        PROVE  i - 1 \in 1..BucketsCount /\ m_buckets'[i - 1] = m_buckets[i]
    BY <2>1
  <2>4. \A i \in 1..BucketsCount : i # BucketsCount => i + 1 \in 2..BucketsCount
    OBVIOUS
  <2>5. ASSUME NEW b, b \in Live'
        PROVE  b = fresh \/ \E i \in 2..BucketsCount : b = m_buckets[i]
    <3>1. PICK i \in 1..BucketsCount : b = m_buckets'[i]
      BY <2>2, <2>5, Zenon
    <3> QED
      BY <2>1, <2>4, <3>1, Zenon
  <2>6. m_buckets'[BucketsCount] = fresh
    BY <1>3, <2>1, Zenon
  <2> QED
    BY <1>3, <2>2, <2>3, <2>5, <2>6
<1>6. /\ \A i \in 2..BucketsCount : i \in 1..BucketsCount /\ m_buckets[i] \in Live
                                    /\ m_buckets[i] # Front
      /\ fresh # Front /\ fresh \notin Live
  BY <1>3 DEF DistinctBuckets, Front, Live
<1>7. Live' \subseteq Live \cup {fresh} /\ Front \notin Live'
  BY <1>5, <1>6, Zenon
<1>8. Allocated' = Live \cup {fresh}
  <2>1. Allocated' = Live' \cup {Front}
    BY <1>2, <1>3, Zenon DEF Allocated
  <2>2. \A b \in Live : b = Front \/ \E i \in 2..BucketsCount : b = m_buckets[i]
    BY DEF Live, Front
  <2> QED
    BY <1>3, <1>5, <1>7, <2>1, <2>2, Zenon
<1>9. DistinctBuckets'
  <2>1. ASSUME NEW i \in 1..BucketsCount, NEW j \in 1..BucketsCount,
               m_buckets'[i] = m_buckets'[j]
        PROVE  i = j
    <3>1. i # BucketsCount => m_buckets[i + 1] \in Live
      BY <1>4, Zenon DEF Live
    <3>2. j # BucketsCount => m_buckets[j + 1] \in Live
      BY <1>4, Zenon DEF Live
    <3>3. CASE i # BucketsCount /\ j # BucketsCount
      BY <1>1, <1>4, <2>1, <3>3 DEF DistinctBuckets
    <3> QED
      BY <1>1, <2>1, <3>1, <3>2, <3>3, Zenon
  <2> QED
    BY <1>2, <1>7, <2>1, Zenon DEF DistinctBuckets
<1>10. TypeOK'
  <2>1. m_buckets' \in [1..BucketsCount -> Addr]
    BY <1>1, <1>4, Zenon DEF TypeOK
  <2>2. contents' \in [Addr -> SUBSET Key]
    BY <1>1, Zenon DEF TypeOK
  <2>3. left' \in [Key -> 0..BucketsCount]
    BY <1>2 DEF TypeOK
  <2>4. toVisit' \in SUBSET Key /\ expired' \in Addr
    BY <1>2, <1>3, Zenon DEF TypeOK
  <2>5. UNCHANGED <<tracked, pinnedCount, bucket, cached, status, phantom, lost>>
    BY <1>2, Zenon
  <2> QED
    BY <2>1, <2>2, <2>3, <2>4, <2>5, Zenon DEF TypeOK
<1>11. \A b \in Addr : contents'[b] = IF b = fresh THEN {} ELSE contents[b]
  BY <1>1, Zenon DEF TypeOK
<1>12. HeldIsPointed'
  BY <1>2, <1>3, <1>7, <1>11, Zenon DEF HeldIsPointed
<1>13. FreedIsEmpty'
  BY <1>3, <1>8, <1>11, Zenon DEF FreedIsEmpty
<1>14. PointedIsHeld'
  BY <1>2, <1>3, <1>6, <1>8, <1>11, Zenon DEF PointedIsHeld
<1>15. HistoryTracked' /\ TrackedIsCached' /\ PinnedOutOfBuckets'
  BY <1>2, Zenon DEF HistoryTracked, TrackedIsCached, PinnedOutOfBuckets
<1>16. ExpiresOnTime'
  <2> SUFFICES ASSUME NEW x \in tracked, x \notin lost
               PROVE  /\ \A i \in 1..BucketsCount : bucket[x] = m_buckets'[i] => left'[x] = i
                      /\ bucket[x] = Front => left'[x] = 0
                      /\ x \notin phantom /\ pinnedCount[x] = 0 => bucket[x] # nullptr
    BY <1>2 DEF ExpiresOnTime
  <2>1. x \in Key /\ left[x] \in Nat
    BY DEF TypeOK
  <2>2. left'[x] = IF left[x] > 0 THEN left[x] - 1 ELSE 0
    BY <1>2, <2>1, Zenon
  <2>3. bucket[x] # fresh
    BY <1>3, <1>6, <2>1 DEF PointedIsHeld, TypeOK
  <2>4. ASSUME NEW i \in 1..BucketsCount, bucket[x] = m_buckets'[i] PROVE left'[x] = i
    <3>1. i # BucketsCount /\ bucket[x] = m_buckets[i + 1]
      BY <1>1, <2>3, <2>4, Zenon
    <3>2. left[x] = i + 1
      BY <1>4, <3>1, Zenon DEF ExpiresOnTime
    <3> QED
      BY <2>2, <3>2
  <2>5. bucket[x] = Front => left[x] = 1
    BY <1>3, Zenon DEF ExpiresOnTime, Front
  <2> QED
    BY <2>2, <2>4, <2>5 DEF ExpiresOnTime
<1> QED
  BY <1>9, <1>10, <1>12, <1>13, <1>14, <1>15, <1>16, Zenon

\* One turn of tick()'s loop takes a record out together with its cached entry.
LEMMA VisitStep == ASSUME IInv, NEW k \in Key, Visit(k) PROVE IInv'
<1> USE DEF IInv, Structure
<1>1. /\ toVisit' = toVisit \ {k}
      /\ UNCHANGED <<pinnedCount, m_buckets, contents, expired, status, left>>
  BY Zenon DEF Visit
<1>2. Live' = Live /\ Allocated' = Allocated /\ DistinctBuckets'
  BY <1>1, SameArray, Zenon
<1>3. CASE k \in tracked /\ bucket[k] = expired
  <2>1. /\ tracked' = tracked \ {k} /\ cached' = cached \ {k}
        /\ bucket' = [bucket EXCEPT ![k] = nullptr]
        /\ phantom' = phantom \ {k} /\ lost' = lost \ {k}
    BY <1>3, Zenon DEF Visit
  <2>2. \A x \in Key : bucket'[x] = IF x = k THEN nullptr ELSE bucket[x]
    BY <2>1, Zenon DEF TypeOK
  <2>3. TypeOK'
    BY <1>1, <2>1, Zenon DEF TypeOK
  <2>4. \A b \in Live : k \notin contents[b]
    BY <1>3, Zenon DEF HeldIsPointed, DistinctBuckets
  <2>5. HeldIsPointed' /\ FreedIsEmpty'
    BY <1>1, <1>2, <2>2, <2>4 DEF HeldIsPointed, FreedIsEmpty
  <2>6. PointedIsHeld'
    BY <1>1, <1>2, <2>1, <2>2 DEF PointedIsHeld
  <2>7. expired # nullptr => pinnedCount[k] = 0
    BY <1>3 DEF PinnedOutOfBuckets, TypeOK
  <2>8. expired # nullptr
    BY Zenon DEF Visit
  <2>9. HistoryTracked' /\ TrackedIsCached'
    BY <2>1, Zenon DEF HistoryTracked, TrackedIsCached
  <2>10. PinnedOutOfBuckets'
    BY <1>1, <2>1, <2>2, <2>7, <2>8, Zenon DEF PinnedOutOfBuckets
  <2>11. ExpiresOnTime'
    BY <1>1, <2>1, <2>2 DEF ExpiresOnTime, TypeOK
  <2> QED
    BY <1>2, <2>3, <2>5, <2>6, <2>9, <2>10, <2>11, Zenon
<1>4. CASE ~(k \in tracked /\ bucket[k] = expired)
  <2>1. UNCHANGED <<tracked, cached, bucket, phantom, lost>>
    BY <1>4, Zenon DEF Visit
  <2>2. TypeOK'
    BY <1>1, <2>1, Zenon DEF TypeOK
  <2> QED
    BY <1>1, <1>2, <2>1, <2>2, SMTT(40) DEF HeldIsPointed, FreedIsEmpty, PointedIsHeld,
       HistoryTracked, PinnedOutOfBuckets, ExpiresOnTime, TrackedIsCached
<1> QED
  BY <1>3, <1>4, Zenon

\* When tick() frees its bucket, the records still pointing to it become lost.
LEMMA TickEndStep == ASSUME IInv, TickEnd PROVE IInv'
<1> USE DEF IInv, Structure
<1>1. /\ expired # nullptr /\ expired' = nullptr
      /\ lost' = lost \cup {k \in tracked : bucket[k] = expired}
      /\ contents' = [contents EXCEPT ![expired] = {}]
      /\ UNCHANGED <<tracked, pinnedCount, bucket, m_buckets, toVisit, cached,
                     status, left, phantom>>
  BY Zenon DEF TickEnd
<1>2. Live' = Live /\ Live \subseteq Addr /\ nullptr \notin Live /\ expired \notin Live
      /\ expired \in Addr /\ Allocated = Live \cup {expired} /\ Allocated' = Live
  <2>1. Live' = Live
    BY <1>1, Zenon DEF Live
  <2> QED
    BY <1>1, <2>1, Positions, Zenon DEF Allocated, DistinctBuckets, TypeOK
<1>3. \A b \in Addr : contents'[b] = IF b = expired THEN {} ELSE contents[b]
  BY <1>1, Zenon DEF TypeOK
<1>4. TypeOK'
  <2>1. contents' \in [Addr -> SUBSET Key] /\ lost' \in SUBSET Key
    BY <1>1, Zenon DEF TypeOK
  <2> QED
    BY <1>1, <2>1, Zenon DEF TypeOK
<1>5. DistinctBuckets'
  BY <1>1, <1>2, Zenon DEF DistinctBuckets
<1>6. HeldIsPointed' /\ FreedIsEmpty'
  BY <1>1, <1>2, <1>3, Zenon DEF HeldIsPointed, FreedIsEmpty
<1>7. PointedIsHeld'
  <2> SUFFICES ASSUME NEW x \in Key, x \notin lost', bucket[x] # nullptr
               PROVE  bucket[x] \in Live /\ x \in contents'[bucket[x]]
    BY <1>1, <1>2, Zenon DEF PointedIsHeld
  <2>1. x \in tracked
    BY Zenon DEF PinnedOutOfBuckets
  <2>2. x \notin lost /\ bucket[x] # expired
    BY <1>1, <2>1, Zenon
  <2> QED
    BY <1>2, <1>3, <2>2, Zenon DEF PointedIsHeld
<1>8. HistoryTracked' /\ TrackedIsCached' /\ PinnedOutOfBuckets' /\ ExpiresOnTime'
  BY <1>1 DEF HistoryTracked, TrackedIsCached, PinnedOutOfBuckets, ExpiresOnTime
<1> QED
  BY <1>4, <1>5, <1>6, <1>7, <1>8, Zenon

\* Every step of the helper keeps the inductive invariant.
LEMMA NextStep == IInv /\ [Next]_vars => IInv'
<1> SUFFICES ASSUME IInv, [Next]_vars PROVE IInv'
  BY Zenon
<1>1. ASSUME NEW k \in Key, MarkInteresting(k) PROVE IInv'
  BY <1>1, MarkInterestingStep, Zenon
<1>2. ASSUME NEW k \in Key, Pin(k) PROVE IInv'
  BY <1>2, PinStep
<1>3. ASSUME NEW k \in Key, Unpin(k) PROVE IInv'
  BY <1>3, UnpinStep
<1>4. ASSUME NEW k \in Key, Expire(k) PROVE IInv'
  BY <1>4, ExpireStep
<1>5. ASSUME NEW k \in Key, Visit(k) PROVE IInv'
  BY <1>5, VisitStep
<1>6. ASSUME NEW old \in Key, NEW new \in Key, Rename(old, new) PROVE IInv'
  BY <1>6, RenameOntoTrackedStep, RenameToNewStep, AbortStep, CacheThrowsStep, Zenon
     DEF Rename, RenameFails
<1>7. CASE Shift
  BY <1>7, ShiftStep, Zenon
<1>8. CASE TickEnd
  BY <1>8, TickEndStep
<1>9. CASE UNCHANGED vars
  <2>1. Live' = Live /\ Allocated' = Allocated /\ DistinctBuckets'
    BY <1>9, SameArray, Zenon DEF IInv, Structure, vars
  <2> QED
    BY <1>9, <2>1, SMTT(40) DEF vars, IInv, Structure, TypeOK, HeldIsPointed, FreedIsEmpty,
       PointedIsHeld, HistoryTracked, PinnedOutOfBuckets, ExpiresOnTime, TrackedIsCached
<1> QED
  BY <1>1, <1>2, <1>3, <1>4, <1>5, <1>6, <1>7, <1>8, <1>9, Zenon DEF Next

\* IInv holds in every state the helper reaches.
LEMMA IInvHolds == Spec => []IInv
BY InitIInv, NextStep, PTL DEF Spec

\* The fields of the helper keep their types.
THEOREM TypeCorrect == Spec => []TypeOK
<1>1. IInv => TypeOK
  BY Zenon DEF IInv, Structure
<1> QED
  BY <1>1, IInvHolds, PTL

\* Whatever pin(), unpin(), markInteresting(), rename(), expire() and a running
\* tick() do concurrently, the buckets hold exactly the keys pointing to them.
THEOREM BucketsAgree == Spec => []BucketAgreement
<1>1. IInv => BucketAgreement
  BY StructureImpliesAgreement, Zenon DEF IInv
<1> QED
  BY <1>1, IInvHolds, PTL

\* A pinned record is in no bucket, whatever other threads and tick() do.
THEOREM PinnedStaysOut == Spec => []PinnedOutOfBuckets
<1>1. IInv => PinnedOutOfBuckets
  BY Zenon DEF IInv, Structure
<1> QED
  BY <1>1, IInvHolds, PTL

\* A record's bucket stands as far from the front as the record has ticks left.
THEOREM LivesForItsTicks == Spec => []ExpiresOnTime
<1>1. IInv => ExpiresOnTime
  BY Zenon DEF IInv
<1> QED
  BY <1>1, IInvHolds, PTL

\* No interleaving with tick() purges a record that stays tracked.
THEOREM TrackedStaysCached == Spec => []TrackedIsCached
<1>1. IInv => TrackedIsCached
  BY Zenon DEF IInv
<1> QED
  BY <1>1, IInvHolds, PTL

\* tick() purges a record only if it is unpinned and its ticks have run out.
THEOREM OnlyExpiredArePurged == Spec => PurgesOnlyExpired
<1> DEFINE Purged(k) == k \notin cached' => \/ pinnedCount[k] = 0 /\ left[k] = 0
                                           \/ tracked' \ tracked # {}
<1>1. ASSUME IInv, [Next]_vars, NEW k \in cached \ lost PROVE Purged(k)
  <2>1. ASSUME NEW j \in Key, MarkInteresting(j) \/ Pin(j) \/ Unpin(j) \/ Expire(j)
        PROVE  k \in cached'
    BY <2>1, Zenon DEF MarkInteresting, Pin, Unpin, Expire, EnsureTracked, CacheThrows, Abort
  <2>2. ASSUME NEW j \in Key, Visit(j) PROVE Purged(k)
    <3>1. CASE j = k /\ k \in tracked /\ bucket[k] = expired
      <4>1. expired # nullptr /\ k \in Key
        BY <2>2, <3>1, Zenon DEF Visit
      <4>2. left[k] = 0
        BY <1>1, <3>1, <4>1, Zenon DEF IInv, ExpiresOnTime
      <4>3. pinnedCount[k] = 0
        BY <1>1, <3>1, <4>1 DEF IInv, Structure, PinnedOutOfBuckets, TypeOK
      <4> QED
        BY <4>2, <4>3, Zenon
    <3>2. CASE ~(j = k /\ k \in tracked /\ bucket[k] = expired)
      BY <2>2, <3>2, Zenon DEF Visit
    <3> QED
      BY <3>1, <3>2, Zenon
  <2>3. ASSUME NEW old \in Key, NEW new \in Key, Rename(old, new) PROVE Purged(k)
    BY <2>3, Zenon DEF Rename, RenameOntoTracked, RenameToNew, RenameFails, Abort, CacheThrows
  <2>4. CASE Shift \/ TickEnd \/ UNCHANGED vars
    BY <2>4, Zenon DEF Shift, TickEnd, vars
  <2> QED
    BY <1>1, <2>1, <2>2, <2>3, <2>4, Zenon DEF Next
<1>2. IInv /\ [Next]_vars =>
        [\A k \in cached \ lost :
           k \notin cached' => \/ pinnedCount[k] = 0 /\ left[k] = 0
                               \/ tracked' \ tracked # {}]_vars
  BY <1>1, Zenon
<1> QED
  BY <1>2, IInvHolds, PTL DEF Spec, PurgesOnlyExpired

(***************************************************************************)
(* The helper implements ExpirationTracking.                               *)
(***************************************************************************)
\* The refinement mapping, and what a step of the helper is under it.
Entries == [k \in tracked |-> pinnedCount[k]]

Maps == Tracking!Next \/ UNCHANGED Entries

\* A step that changes neither the keys nor the pins is a stutter.
LEMMA Stutters == UNCHANGED <<tracked, pinnedCount>> => UNCHANGED Entries
BY Zenon DEF Entries

\* What PinnedOutOfBuckets says of the pins.
LEMMA PinFacts ==
    ASSUME IInv
    PROVE  /\ tracked \subseteq Key
           /\ \A k \in Key : pinnedCount[k] \in Nat
           /\ \A k \in Key \ tracked : pinnedCount[k] = 0
           /\ \A k \in Key : bucket[k] # nullptr => pinnedCount[k] = 0
BY DEF IInv, Structure, TypeOK, PinnedOutOfBuckets

\* A new record without pins is a key that is tracked now.
LEMMA Tracks ==
    ASSUME IInv, NEW k \in Key, k \notin tracked,
           tracked' = tracked \cup {k}, pinnedCount' = pinnedCount
    PROVE  Tracking!Next
<1>1. pinnedCount[k] = 0
  BY PinFacts, Zenon
<1>2. Entries' = [x \in tracked \cup {k} |-> IF x = k THEN 0 ELSE Entries[x]]
  BY <1>1, Zenon DEF Entries
<1>3. Tracking!Track(k)
  BY <1>2, Zenon DEF Tracking!Track, Tracking!Interest, Tracking!Put, Entries
<1> QED
  BY <1>3, Zenon DEF Tracking!Next

LEMMA MarkInterestingMaps == ASSUME IInv, NEW k \in Key, MarkInteresting(k) PROVE Maps
<1>1. pinnedCount' = pinnedCount /\ tracked' = tracked \cup {k}
  BY Zenon DEF MarkInteresting, CacheThrows, EnsureTracked, MoveTo
<1>2. CASE k \in tracked
  BY <1>1, <1>2, Stutters, Zenon DEF Maps
<1>3. CASE k \notin tracked
  BY <1>1, <1>3, Tracks, Zenon DEF Maps
<1> QED
  BY <1>2, <1>3, Zenon

\* pin() of a record counts one more pin; of a new one, the first.
LEMMA PinMaps == ASSUME IInv, NEW k \in Key, Pin(k) PROVE Maps
<1>1. CASE CacheThrows(k)
  <2>1. k \notin tracked /\ tracked' = tracked \cup {k} /\ pinnedCount' = pinnedCount
    BY <1>1, Zenon DEF CacheThrows
  <2> QED
    BY <2>1, Tracks, Zenon DEF Maps
<1>2. CASE ~CacheThrows(k)
  <2>1. tracked' = tracked \cup {k} /\ pinnedCount' = [pinnedCount EXCEPT ![k] = @ + 1]
    BY <1>2, Zenon DEF Pin, EnsureTracked
  <2>2. pinnedCount \in [Key -> Nat]
    BY Zenon DEF IInv, Structure, TypeOK
  <2>3. \A x \in Key : pinnedCount'[x] = IF x = k THEN pinnedCount[k] + 1 ELSE pinnedCount[x]
    BY <2>1, <2>2, Zenon
  <2>4. k \notin tracked => pinnedCount[k] = 0
    BY PinFacts, Zenon
  <2>5. pinnedCount'[k] = IF k \in tracked THEN Entries[k] + 1 ELSE 1
    BY <2>2, <2>3, <2>4 DEF Entries
  <2>6. Entries' = [x \in tracked \cup {k} |->
                       IF x = k THEN (IF k \in tracked THEN Entries[k] + 1 ELSE 1) ELSE Entries[x]]
    BY <2>1, <2>3, <2>5, PinFacts, Zenon DEF Entries
  <2>7. Tracking!Pin(k)
    BY <2>6, Zenon DEF Tracking!Pin, Tracking!Pinned, Tracking!Put, Entries
  <2> QED
    BY <2>7, Zenon DEF Maps, Tracking!Next
<1> QED
  BY <1>1, <1>2, Zenon

LEMMA UnpinMaps == ASSUME IInv, NEW k \in Key, Unpin(k) PROVE Maps
<1>1. CASE Abort
  BY <1>1, Stutters, Zenon DEF Abort, Maps
<1>2. CASE ~Abort
  <2>1. /\ k \in tracked /\ pinnedCount[k] > 0 /\ tracked' = tracked
        /\ pinnedCount' = [pinnedCount EXCEPT ![k] = @ - 1]
    BY <1>2, Zenon DEF Unpin
  <2>2. pinnedCount \in [Key -> Nat]
    BY DEF IInv, Structure, TypeOK
  <2>3. \A x \in Key : pinnedCount'[x] = IF x = k THEN pinnedCount[k] - 1 ELSE pinnedCount[x]
    BY <2>1, <2>2, Zenon
  <2>4. Entries' = [x \in tracked \cup {k} |-> IF x = k THEN Entries[k] - 1 ELSE Entries[x]]
    BY <2>1, <2>3, PinFacts, Zenon DEF Entries
  <2>5. k \in DOMAIN Entries /\ Entries[k] > 0
    BY <2>1, Zenon DEF Entries
  <2>6. Tracking!Unpin(k)
    BY <2>4, <2>5, Zenon DEF Tracking!Unpin, Tracking!Unpinned, Tracking!Put, Entries
  <2> QED
    BY <2>6, Zenon DEF Maps, Tracking!Next
<1> QED
  BY <1>1, <1>2, Zenon

\* expire() moves a record between buckets.
LEMMA ExpireMaps == ASSUME IInv, NEW k \in Key, Expire(k) PROVE Maps
<1>1. UNCHANGED <<tracked, pinnedCount>>
  BY Zenon DEF Expire, Abort
<1> QED
  BY <1>1, Stutters, Zenon DEF Maps

\* What the two outcomes of rename() have in common: the pins of both keys add up.
LEMMA Renames ==
    ASSUME IInv, NEW old \in Key, NEW new \in Key, old # new, old \in tracked,
           tracked' = (tracked \ {old}) \cup {new},
           pinnedCount' = [pinnedCount EXCEPT ![new] = pinnedCount[old] + pinnedCount[new],
                                              ![old] = 0]
    PROVE  Maps
<1>1. pinnedCount \in [Key -> Nat]
  BY Zenon DEF IInv, Structure, TypeOK
<1>2. \A x \in Key : pinnedCount'[x] = IF x = old THEN 0
                                       ELSE IF x = new THEN pinnedCount[old] + pinnedCount[new]
                                       ELSE pinnedCount[x]
  BY <1>1, Zenon
<1>3. pinnedCount[new] = IF new \in tracked THEN Entries[new] ELSE 0
  BY PinFacts, Zenon DEF Entries
<1>4. pinnedCount[old] = Entries[old]
  BY Zenon DEF Entries
<1>5. Entries' = [x \in (tracked \ {old}) \cup {new} |->
                     IF x = new THEN Entries[old] + (IF new \in tracked THEN Entries[new] ELSE 0)
                     ELSE Entries[x]]
  BY <1>2, <1>3, <1>4, PinFacts, Zenon DEF Entries
<1>6. Tracking!Rename(old, new)
  BY <1>5, Zenon
     DEF Tracking!Rename, Tracking!Renamed, Tracking!Put, Tracking!Drop, Tracking!Restrict,
              Entries
<1> QED
  BY <1>6, Zenon DEF Maps, Tracking!Next

LEMMA RenameMaps ==
    ASSUME IInv, NEW old \in Key, NEW new \in Key, Rename(old, new) PROVE Maps
<1>1. old # new /\ old \in tracked
  BY Zenon DEF Rename
<1>2. pinnedCount \in [Key -> Nat]
  BY Zenon DEF IInv, Structure, TypeOK
<1>3. CASE RenameOntoTracked(old, new)
  <2>1. tracked' = (tracked \ {old}) \cup {new}
    BY <1>1, <1>3, Zenon DEF RenameOntoTracked
  <2>2. pinnedCount' = [pinnedCount EXCEPT ![new] = pinnedCount[old] + pinnedCount[new],
                                           ![old] = 0]
    <3>1. pinnedCount' = [pinnedCount EXCEPT ![new] = pinnedCount[new] + pinnedCount[old],
                                             ![old] = 0]
      BY <1>3, Zenon DEF RenameOntoTracked
    <3>2. pinnedCount[new] + pinnedCount[old] = pinnedCount[old] + pinnedCount[new]
      BY <1>2
    <3> QED
      BY <3>1, <3>2, Zenon
  <2> QED
    BY <1>1, <2>1, <2>2, Renames, Zenon
<1>4. CASE RenameToNew(old, new)
  <2>1. tracked' = (tracked \ {old}) \cup {new}
    BY <1>4, Zenon DEF RenameToNew
  <2>2. pinnedCount[new] = 0 /\ pinnedCount[old] + pinnedCount[new] = pinnedCount[old]
    BY <1>2, <1>4, PinFacts DEF RenameToNew
  <2>3. pinnedCount' = [pinnedCount EXCEPT ![new] = pinnedCount[old], ![old] = 0]
    BY <1>4, Zenon DEF RenameToNew
  <2> QED
    BY <1>1, <2>1, <2>2, <2>3, Renames, Zenon
<1>5. CASE RenameFails(old, new)
  BY <1>5, Stutters, Zenon DEF RenameFails, Abort, Maps
<1>6. CASE CacheThrows(new)
  <2>1. new \notin tracked /\ tracked' = tracked \cup {new} /\ pinnedCount' = pinnedCount
    BY <1>6, Zenon DEF CacheThrows
  <2> QED
    BY <2>1, Tracks, Zenon DEF Maps
<1> QED
  BY <1>3, <1>4, <1>5, <1>6, Zenon DEF Rename

\* A purged record is in the bucket of the tick, and therefore has no pins.
LEMMA VisitMaps == ASSUME IInv, NEW k \in Key, Visit(k) PROVE Maps
<1>1. expired # nullptr /\ pinnedCount' = pinnedCount
  BY Zenon DEF Visit
<1>2. CASE k \in tracked /\ bucket[k] = expired
  <2>1. tracked' = tracked \ {k}
    BY <1>2, Zenon DEF Visit
  <2>2. Entries[k] = 0
    BY <1>1, <1>2, PinFacts, Zenon DEF Entries
  <2>3. Entries' = [x \in tracked \ {k} |-> Entries[x]]
    BY <1>1, <2>1, Zenon DEF Entries
  <2>4. Tracking!Purge(k)
    BY <1>2, <2>2, <2>3, Zenon DEF Tracking!Purge, Tracking!Drop, Tracking!Restrict, Entries
  <2> QED
    BY <2>4, Zenon DEF Maps, Tracking!Next
<1>3. CASE ~(k \in tracked /\ bucket[k] = expired)
  BY <1>1, <1>3, Stutters, Zenon DEF Visit, Maps
<1> QED
  BY <1>2, <1>3, Zenon

LEMMA StepMaps == IInv /\ [Next]_vars => Maps
<1> SUFFICES ASSUME IInv, [Next]_vars PROVE Maps
  BY Zenon
<1>1. ASSUME NEW k \in Key,
             MarkInteresting(k) \/ Pin(k) \/ Unpin(k) \/ Expire(k) \/ Visit(k)
      PROVE  Maps
  BY <1>1, MarkInterestingMaps, PinMaps, UnpinMaps, ExpireMaps, VisitMaps, Zenon
<1>2. ASSUME NEW old \in Key, NEW new \in Key, Rename(old, new) PROVE Maps
  BY <1>2, RenameMaps, Zenon
<1>3. CASE Shift
  BY <1>3, Stutters, Zenon DEF Shift, Maps
<1>4. CASE TickEnd
  BY <1>4, Stutters, Zenon DEF TickEnd, Maps
<1>5. CASE UNCHANGED vars
  BY <1>5, Stutters, Zenon DEF vars, Maps
<1> QED
  BY <1>1, <1>2, <1>3, <1>4, <1>5, Zenon DEF Next

LEMMA InitMaps == Init => Tracking!Init
BY Zenon DEF Init, Tracking!Init, Tracking!EmptyMap

\* Whatever a concurrent tick does, the helper keeps the promise its callers rely on:
\* it counts the pins of every tracked key, and tick() only lets unpinned keys go.
THEOREM Refinement == Spec => TracksAsPromised
<1>1. IInv /\ [Next]_vars => [Tracking!Next]_Entries
  BY StepMaps, Zenon DEF Maps
<1>2. Spec => []IInv
  BY IInvHolds, Zenon
<1> QED
  BY <1>1, <1>2, InitMaps, PTL DEF Spec, TracksAsPromised, Tracking!Spec, Entries
==============================================================================

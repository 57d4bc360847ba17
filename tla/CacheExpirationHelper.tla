------------------------ MODULE CacheExpirationHelper ------------------------
(***************************************************************************)
(* The expiration bookkeeping of the metadata cache                        *)
(* (src/src/cache/cacheExpirationHelper.h).  Every tracked key has a pin   *)
(* count and, while unpinned, a pointer to the bucket that holds it.       *)
(* tick() takes the front bucket out of the array under the exclusive lock *)
(* and then walks it WITHOUT any lock on the helper, while other threads   *)
(* go on pinning, marking, renaming and expiring keys.                     *)
(*                                                                         *)
(* All operations but tick() run under the shared lock and under the       *)
(* accessors (element locks) of the keys they touch, and touch nothing     *)
(* else, so each is one action.  tick() is three: Shift, Visit, TickEnd.   *)
(* Buckets are heap addresses, and a freed address may be handed out again.*)
(***************************************************************************)
EXTENDS Integers

CONSTANTS
    Key,          \* keys of the cached records (file uuids)
    BucketsCount, \* number of buckets, the ticks an unused entry lives
    Addr,         \* heap addresses a bucket may be allocated at
    nullptr,      \* the null bucket pointer
    MaxPins       \* bound of the model: pins one record may collect

ASSUME BucketsCountAssumption == BucketsCount \in Nat \ {0}
ASSUME MaxPinsAssumption == MaxPins \in Nat
ASSUME PointerAssumption == nullptr \notin Addr

VARIABLES
    tracked,     \* keys of m_expDetails
    pinnedCount, \* ExpirationDetails::pinnedCount, 0 for an untracked key
    bucket,      \* ExpirationDetails::bucket, nullptr for an untracked key
    m_buckets,   \* the array of buckets; index 1 is front(), BucketsCount back()
    contents,    \* the keys held by the set at each address
    expired,     \* tick's expiredBucket, nullptr when no tick is running
    toVisit,     \* keys the iteration of a running tick will still reach
    cached,      \* keys whose cache() ran and whose purge() has not
    status,      \* "aborted" once an assertion or a null dereference has struck
    left,        \* history: ticks the documentation still grants the record
    phantom,     \* history: records whose cache() threw
    lost         \* history: records a finished tick left in a freed bucket

vars == <<tracked, pinnedCount, bucket, m_buckets, contents, expired, toVisit,
          cached, status, left, phantom, lost>>

Front == m_buckets[1]
Back == m_buckets[BucketsCount]
Live == {m_buckets[i] : i \in 1..BucketsCount}
Allocated == Live \cup ({expired} \ {nullptr})

TypeOK ==
    /\ tracked \in SUBSET Key
    /\ pinnedCount \in [Key -> Nat]
    /\ bucket \in [Key -> Addr \cup {nullptr}]
    /\ m_buckets \in [1..BucketsCount -> Addr]
    /\ contents \in [Addr -> SUBSET Key]
    /\ expired \in Addr \cup {nullptr}
    /\ toVisit \in SUBSET Key
    /\ cached \in SUBSET Key
    /\ status \in {"running", "aborted"}
    /\ left \in [Key -> 0..BucketsCount]
    /\ phantom \in SUBSET Key
    /\ lost \in SUBSET Key

Init ==
    /\ tracked = {}
    /\ pinnedCount = [k \in Key |-> 0]
    /\ bucket = [k \in Key |-> nullptr]
    /\ m_buckets \in [1..BucketsCount -> Addr]
    /\ \A i, j \in 1..BucketsCount : i # j => m_buckets[i] # m_buckets[j]
    /\ contents = [a \in Addr |-> {}]
    /\ expired = nullptr
    /\ toVisit = {}
    /\ cached = {}
    /\ status = "running"
    /\ left = [k \in Key |-> 0]
    /\ phantom = {}
    /\ lost = {}

------------------------------------------------------------------------------
(* Effects shared by the operations.                                       *)

\* bucket->erase(k) for the keys in ks, through the pointers their records hold.
Without(ks) ==
    [a \in Addr |-> contents[a] \ {k \in ks : bucket[k] = a}]

\* Erasing a key from the bucket a running tick walks.  The tick may already stand
\* on that element and wait for its accessor, so that it still visits the key; and
\* its iterator goes on from a deleted node, so that any others may be skipped.
EraseUnderIterator(ks) ==
    IF expired # nullptr /\ \E k \in ks : k \in toVisit /\ bucket[k] = expired
    THEN toVisit' \in SUBSET toVisit
    ELSE UNCHANGED toVisit

\* The record of k moves to bucket a and is granted n more ticks.  The assertion
\* on insert(sacc, key) ends the process when the key is in the bucket already.
MoveTo(k, a, n) ==
    /\ contents' = [Without({k}) EXCEPT ![a] = @ \cup {k}]
    /\ bucket' = [bucket EXCEPT ![k] = a]
    /\ left' = [left EXCEPT ![k] = n]
    /\ lost' = lost \ {k}
    /\ status' = IF k \in contents[a] THEN "aborted" ELSE "running"
    /\ EraseUnderIterator({k})

\* An assertion fires or a null pointer is dereferenced: the process ends.
Abort ==
    /\ status' = "aborted"
    /\ UNCHANGED <<tracked, pinnedCount, bucket, m_buckets, contents, expired,
                   toVisit, cached, left, phantom, lost>>

\* m_expDetails.insert(acc, k) followed, for a new record, by cache().
EnsureTracked(k) ==
    /\ tracked' = tracked \cup {k}
    /\ cached' = IF k \in tracked THEN cached ELSE cached \cup {k}

\* cache() of a new record throws: the record inserted for it stays.
CacheThrows(k) ==
    /\ k \notin tracked
    /\ tracked' = tracked \cup {k}
    /\ phantom' = phantom \cup {k}
    /\ UNCHANGED <<pinnedCount, bucket, m_buckets, contents, expired, toVisit,
                   cached, status, left, lost>>

------------------------------------------------------------------------------
(* Operations.                                                             *)

MarkInteresting(k) ==
    /\ status = "running"
    /\ \/ CacheThrows(k)
       \/ /\ EnsureTracked(k)
          /\ IF pinnedCount[k] = 0 /\ bucket[k] # Back
             THEN MoveTo(k, Back, BucketsCount)
             ELSE UNCHANGED <<contents, bucket, left, lost, status, toVisit>>
          /\ UNCHANGED <<pinnedCount, m_buckets, expired, phantom>>

Pin(k) ==
    /\ status = "running"
    /\ \/ CacheThrows(k)
       \/ /\ pinnedCount[k] < MaxPins
          /\ EnsureTracked(k)
          /\ contents' = Without({k})
          /\ EraseUnderIterator({k})
          /\ bucket' = [bucket EXCEPT ![k] = nullptr]
          /\ pinnedCount' = [pinnedCount EXCEPT ![k] = @ + 1]
          /\ lost' = lost \ {k}
          /\ UNCHANGED <<m_buckets, expired, status, left, phantom>>

\* The callers match every unpin() with an earlier pin().
Unpin(k) ==
    /\ status = "running"
    /\ k \in tracked /\ pinnedCount[k] > 0
    /\ IF bucket[k] # nullptr
       THEN Abort
       ELSE /\ pinnedCount' = [pinnedCount EXCEPT ![k] = @ - 1]
            /\ IF pinnedCount[k] = 1
               THEN MoveTo(k, Back, BucketsCount)
               ELSE UNCHANGED <<contents, bucket, left, lost, status, toVisit>>
            /\ UNCHANGED <<tracked, m_buckets, expired, cached, phantom>>

Expire(k) ==
    /\ status = "running"
    /\ k \in tracked /\ pinnedCount[k] = 0
    /\ IF bucket[k] = nullptr
       THEN Abort
       ELSE /\ bucket[k] # Front
            /\ MoveTo(k, Front, 1)
            /\ UNCHANGED <<tracked, pinnedCount, m_buckets, expired, cached, phantom>>

\* rename() onto a record that exists: the pins add up, the new record keeps its
\* bucket unless it is pinned now, and cache() is not called.
RenameOntoTracked(old, new) ==
    LET pins == pinnedCount[new] + pinnedCount[old]
        gone == IF pins > 0 THEN {old, new} ELSE {old}
    IN  /\ new \in tracked
        /\ pins <= MaxPins
        /\ pinnedCount' = [pinnedCount EXCEPT ![new] = pins, ![old] = 0]
        /\ bucket' = [k \in Key |-> IF k \in gone THEN nullptr ELSE bucket[k]]
        /\ contents' = Without(gone)
        /\ EraseUnderIterator(gone)
        /\ tracked' = tracked \ {old}
        /\ phantom' = phantom \ {old}
        /\ lost' = lost \ gone
        /\ UNCHANGED <<m_buckets, expired, cached, status, left>>

\* rename() to a new key dereferences the old record's bucket, which may be null,
\* and asserts that the new key is not in it yet.
RenameFails(old, new) ==
    /\ new \notin tracked
    /\ pinnedCount[old] = 0
    /\ bucket[old] # nullptr => new \in contents[bucket[old]]
    /\ Abort

\* rename() to a new key: cache() runs, and the new record takes over the pins or
\* the bucket pointer of the old one.  A key put into the bucket a tick is walking
\* may or may not be reached.
RenameToNew(old, new) ==
    LET a == bucket[old]
        held == pinnedCount[old] > 0
    IN  /\ new \notin tracked
        /\ ~held => a # nullptr /\ new \notin contents[a]
        /\ tracked' = (tracked \ {old}) \cup {new}
        /\ cached' = (cached \ {old}) \cup {new}
        /\ pinnedCount' = [pinnedCount EXCEPT ![new] = pinnedCount[old], ![old] = 0]
        /\ bucket' = [bucket EXCEPT ![new] = a, ![old] = nullptr]
        /\ contents' = IF ~held /\ a \in Allocated
                       THEN [contents EXCEPT ![a] = (@ \ {old}) \cup {new}]
                       ELSE Without({old})
        /\ IF ~held /\ a = expired /\ a # nullptr
           THEN toVisit' \in SUBSET (toVisit \cup {new})
           ELSE EraseUnderIterator({old})
        /\ left' = [left EXCEPT ![new] = left[old]]
        /\ phantom' = phantom \ {old}
        /\ lost' = IF old \in lost THEN (lost \ {old}) \cup {new} ELSE lost
        /\ UNCHANGED <<m_buckets, expired, status>>

Rename(old, new) ==
    /\ status = "running"
    /\ old # new
    /\ old \in tracked
    /\ \/ RenameOntoTracked(old, new)
       \/ RenameToNew(old, new)
       \/ RenameFails(old, new)
       \/ CacheThrows(new)

------------------------------------------------------------------------------
(* tick()                                                                  *)

\* shift(), under the exclusive lock.  The new back bucket is allocated while the
\* old front bucket still exists.
Shift ==
    /\ status = "running"
    /\ expired = nullptr
    /\ \E fresh \in Addr \ Live :
         /\ m_buckets' = [i \in 1..BucketsCount |->
                            IF i = BucketsCount THEN fresh ELSE m_buckets[i + 1]]
         /\ contents' = [contents EXCEPT ![fresh] = {}]
    /\ expired' = Front
    /\ toVisit' = contents[Front]
    /\ left' = [k \in Key |-> IF left[k] > 0 THEN left[k] - 1 ELSE 0]
    /\ UNCHANGED <<tracked, pinnedCount, bucket, cached, status, phantom, lost>>

\* Variant: the loop purges without looking at the record's bucket again.
VisitWithoutRecheck(k) ==
    /\ status = "running"
    /\ expired # nullptr
    /\ k \in toVisit
    /\ toVisit' = toVisit \ {k}
    /\ tracked' = tracked \ {k}
    /\ cached' = cached \ {k}
    /\ bucket' = [bucket EXCEPT ![k] = nullptr]
    /\ phantom' = phantom \ {k}
    /\ lost' = lost \ {k}
    /\ UNCHANGED <<pinnedCount, m_buckets, contents, expired, status, left>>

\* One turn of the loop: the record is purged if it still is in this bucket.
Visit(k) ==
    /\ status = "running"
    /\ expired # nullptr
    /\ k \in toVisit
    /\ toVisit' = toVisit \ {k}
    /\ IF k \in tracked /\ bucket[k] = expired
       THEN /\ tracked' = tracked \ {k}
            /\ cached' = cached \ {k}
            /\ bucket' = [bucket EXCEPT ![k] = nullptr]
            /\ phantom' = phantom \ {k}
            /\ lost' = lost \ {k}
       ELSE UNCHANGED <<tracked, cached, bucket, phantom, lost>>
    /\ UNCHANGED <<pinnedCount, m_buckets, contents, expired, status, left>>

\* The loop ends and the bucket is freed; records that still point to it are lost.
TickEnd ==
    /\ status = "running"
    /\ expired # nullptr
    /\ toVisit = {}
    /\ lost' = lost \cup {k \in tracked : bucket[k] = expired}
    /\ contents' = [contents EXCEPT ![expired] = {}]
    /\ expired' = nullptr
    /\ UNCHANGED <<tracked, pinnedCount, bucket, m_buckets, toVisit, cached,
                   status, left, phantom>>

Next ==
    \/ \E k \in Key : MarkInteresting(k) \/ Pin(k) \/ Unpin(k) \/ Expire(k)
                      \/ Visit(k)
    \/ \E old, new \in Key : Rename(old, new)
    \/ Shift
    \/ TickEnd

Spec == Init /\ [][Next]_vars
------------------------------------------------------------------------------
(* Properties.                                                             *)

\* The buckets and the records agree: a live bucket holds exactly the keys whose
\* records point to it, and the bucket under a running tick holds at least those
\* (the purged ones stay in it).  bucket->erase(key) and insert(sacc, key) of the
\* operations have to be paired for this; records a tick left behind are excepted.
BucketAgreement ==
    \A k \in Key \ lost :
        /\ \A a \in Live : k \in contents[a] <=> bucket[k] = a
        /\ bucket[k] # nullptr => bucket[k] \in Allocated /\ k \in contents[bucket[k]]

\* A pinned record is in no bucket, so no tick, present or future, can purge it,
\* and an untracked key leaves no pins and no bucket pointer behind.
PinnedOutOfBuckets ==
    /\ \A k \in Key : pinnedCount[k] > 0 => bucket[k] = nullptr
    /\ \A k \in Key \ tracked : pinnedCount[k] = 0 /\ bucket[k] = nullptr

\* A record lives for as many ticks as the class comment promises: the position of
\* its bucket in the array is the number of ticks it has left, and an unpinned
\* record always is in some bucket.  Records without a bucket because cache() threw
\* and records left behind by a tick are excepted.
ExpiresOnTime ==
    \A k \in tracked \ lost :
        /\ \A i \in 1..BucketsCount : bucket[k] = m_buckets[i] => left[k] = i
        /\ bucket[k] = expired /\ expired # nullptr => left[k] = 0
        /\ k \notin phantom /\ pinnedCount[k] = 0 => bucket[k] # nullptr

\* What is tracked is in the cache, whatever a concurrent tick is purging: the
\* loop of tick() re-reads the record's bucket under its accessor before purge().
TrackedIsCached == tracked \ phantom \subseteq cached

\* tick() purges a record only when it is unpinned and its ticks have run out; the
\* only other way out of the cache is rename(), which starts to track a new key.
PurgesOnlyExpired ==
    [][\A k \in cached \ lost :
         k \notin cached' => \/ pinnedCount[k] = 0 /\ left[k] = 0
                             \/ tracked' \ tracked # {}]_vars

\* The helper does what its callers rely on, whatever the buckets and the concurrent
\* tick do: it counts the pins of every tracked key, and only unpinned keys go.
Tracking == INSTANCE ExpirationTracking
                WITH Key <- Key, entries <- [k \in tracked |-> pinnedCount[k]]
TracksAsPromised == Tracking!Spec

\* The assertions of the class never fire (and no null bucket is dereferenced).
AssertionsHold == status # "aborted"

\* "purge will be called for every entry that is considered to be expired": no
\* tick ends while a record still points to the bucket it is about to free.
EveryExpiredIsPurged == lost = {}
==============================================================================

-------------------------- MODULE ExpirationTracking --------------------------
(***************************************************************************)
(* What CacheExpirationHelper promises its callers: every tracked key has  *)
(* a number of pins, and a key that is not pinned may be purged by some    *)
(* later tick.  When that is, in which bucket the key waits and which tick *)
(* visits it is left to the implementation.                                *)
(***************************************************************************)
EXTENDS Integers, HashMaps

CONSTANT Key

VARIABLE entries  \* tracked key -> its pins

\* ------------------------------------------------ what an operation does to entries
Interest(e, k) == IF k \in DOMAIN e THEN e ELSE Put(e, k, 0)

Pinned(e, k) == Put(e, k, IF k \in DOMAIN e THEN e[k] + 1 ELSE 1)

Unpinned(e, k) == IF k \in DOMAIN e THEN Put(e, k, e[k] - 1) ELSE e

Renamed(e, old, new) ==
    Put(Drop(e, old), new, e[old] + IF new \in DOMAIN e THEN e[new] ELSE 0)

\* -------------------------------------------------------------- specification
Init == entries = EmptyMap

Track(k) == k \notin DOMAIN entries /\ entries' = Interest(entries, k)

Pin(k) == entries' = Pinned(entries, k)

Unpin(k) == k \in DOMAIN entries /\ entries[k] > 0 /\ entries' = Unpinned(entries, k)

Rename(old, new) ==
    /\ old # new
    /\ old \in DOMAIN entries
    /\ entries' = Renamed(entries, old, new)

Purge(k) == k \in DOMAIN entries /\ entries[k] = 0 /\ entries' = Drop(entries, k)

Next == \/ \E k \in Key : Track(k) \/ Pin(k) \/ Unpin(k) \/ Purge(k)
        \/ \E old, new \in Key : Rename(old, new)

Spec == Init /\ [][Next]_entries
===============================================================================

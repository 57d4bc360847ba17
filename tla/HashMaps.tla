------------------------------- MODULE HashMaps -------------------------------
(***************************************************************************)
(* Hash maps (std::unordered_map, tbb::concurrent_hash_map) as functions   *)
(* whose domain is the set of keys present.                                *)
(***************************************************************************)
EXTENDS Functions

EmptyMap == [x \in {} |-> x]

Put(f, k, v) == [x \in DOMAIN f \cup {k} |-> IF x = k THEN v ELSE f[x]]

Drop(f, k) == Restrict(f, (DOMAIN f) \ {k})
===============================================================================

----------------------- MODULE MCCacheExpirationHelper -----------------------
(* Model-checking instance of CacheExpirationHelper: keys and addresses are    *)
(* interchangeable model values.                                               *)
EXTENDS CacheExpirationHelper, TLC

Symmetry == Permutations(Key) \cup Permutations(Addr)
==============================================================================

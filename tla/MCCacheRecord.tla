--------------------------- MODULE MCCacheRecord ---------------------------
(* Small instances of CacheRecord for TLC.                                 *)
EXTENDS CacheRecord, TLC

CONSTANTS w1, w2, c1, c2, c3

OneEach == (c1 :> w1) @@ (c2 :> w2)
TwoAndOne == OneEach @@ (c3 :> w2)
UrlSymmetry == Permutations(Urls)
=============================================================================

----------------------------- MODULE MCCacheList -----------------------------
(* Instances of CacheList for TLC. *)
EXTENDS CacheList, TLC

CONSTANTS n1, n2, n3, k1, k2, k3, v1, one
=============================================================================

----------------------------- MODULE MCCacheStore -----------------------------
(* Instances of CacheStore for TLC.                                         *)
EXTENDS CacheStore

CONSTANTS t1, t2, v1, v2, a1, a2, nothing, none

\* Whole bodies only: no representation arrives in ranges.
NoSlices == [b \in Bodies |-> {}]

\* One representation that arrives in two ranges.
TwoSlices == [b \in Bodies |-> {a1, a2}]
=============================================================================

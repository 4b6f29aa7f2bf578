--------------------------- MODULE MCCacheCoherence ---------------------------
(***************************************************************************)
(* Two requests, two relays (a worker and its replacement during a         *)
(* restart, or two replicas), two or three stock changes, a few faults.    *)
(***************************************************************************)
EXTENDS CacheCoherence, TLC

CONSTANTS r1, r2, r3, l1, l2

Symmetry == Permutations(Requests) \cup Permutations(Relays)
=============================================================================

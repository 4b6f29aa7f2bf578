----------------------------- MODULE MCBenchmark -----------------------------
(***************************************************************************)
(* Two writers among three virtual users, two requests each, one unit.     *)
(***************************************************************************)
EXTENDS Benchmark

MCUsers == 1..3

\* Bound: a load that starts after a reset has failed is not followed further.  None
\* of the properties speaks of it: they are about the reset's end, about evidence
\* of runs whose reset has passed, and about benchmarks without a fault.
LoadsWorthFollowing == step = "burst" => passed \/ faults = 0
=============================================================================

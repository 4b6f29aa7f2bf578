---------------------------- MODULE MCOrderWorker ----------------------------
(***************************************************************************)
(* Two or three interchangeable jobs, batches of one, two or three.         *)
(***************************************************************************)
EXTENDS OrderWorker, TLC

CONSTANTS j1, j2, j3

Symmetry == Permutations(Jobs)
=============================================================================

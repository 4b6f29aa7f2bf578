--------------------------- MODULE MCBatchVersions ---------------------------
(***************************************************************************)
(* Product 1 has two units for three buyers, one of them (ann) with two    *)
(* job ids; product 2 has one unit; jX names a product that does not exist.*)
(* The batches contain a repeated job, both jobs of a pair, jobs out of    *)
(* job_id order, the empty array and one job more than MaxBatch.           *)
(***************************************************************************)
EXTENDS BatchVersions, TLC

CONSTANTS j1, j2, j3, j4, k1, jX

MCJobs       == {j1, j2, j3, j4, k1, jX}
MCProducts   == {1, 2}
MCJobUser    == j1 :> "ann" @@ j2 :> "bob" @@ j3 :> "ann" @@ j4 :> "cid"
             @@ k1 :> "ann" @@ jX :> "eve"
MCJobProduct == j1 :> 1 @@ j2 :> 1 @@ j3 :> 1 @@ j4 :> 1 @@ k1 :> 2 @@ jX :> 9
MCStock      == 1 :> 2 @@ 2 :> 1
MCJobRank    == j1 :> 1 @@ j2 :> 2 @@ j3 :> 3 @@ j4 :> 4 @@ k1 :> 5 @@ jX :> 6

MCBatches == {<< >>, <<j1>>, <<j3, j1>>, <<j4, j2, j1>>, <<j2, j2, k1>>,
              <<j1, j3, j4>>, <<jX, j2>>, <<j1, j2, j4, k1>>}

MCFlags == {[p \in MCProducts |-> TRUE], 1 :> FALSE @@ 2 :> TRUE}
=============================================================================

----------------------------- MODULE MCOrderStore -----------------------------
(***************************************************************************)
(* Small instances of OrderStore.  Product 1 has two units and three       *)
(* buyers' jobs, one of which (j3) repeats the pair of j1 under another id;*)
(* product 2 has one unit and two of those buyers; jX names a product that *)
(* does not exist.                                                         *)
(***************************************************************************)
EXTENDS OrderStore, TLC

CONSTANTS j1, j2, j3, k1, k2, jX, s1, s2

MCJobs       == {j1, j2, j3, k1, k2, jX}
MCProducts   == {1, 2}
MCJobUser    == j1 :> "ann" @@ j2 :> "bob" @@ j3 :> "ann"
             @@ k1 :> "ann" @@ k2 :> "bob" @@ jX :> "eve"
MCJobProduct == j1 :> 1 @@ j2 :> 1 @@ j3 :> 1 @@ k1 :> 2 @@ k2 :> 2 @@ jX :> 9
MCStock      == 1 :> 2 @@ 2 :> 1

\* A batch that lists a job twice, both jobs of one pair, two products in either
\* order (locking them in batch order would deadlock), a batch spoilt by an
\* unknown product.
MCBatches == {<<j3, j1, j2>>, <<j2, j2>>, <<j1, k1>>, <<k2, j2, k1>>, <<jX, j1>>}

OnAndOff == {[p \in MCProducts |-> TRUE], 1 :> FALSE @@ 2 :> TRUE}

MCSeedOrder == <<1, 2>>
=============================================================================

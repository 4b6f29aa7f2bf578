------------------------------ MODULE FlashSale ------------------------------
(***************************************************************************)
(* What the flash sale promises, with no database sessions, queues or      *)
(* retries in it: every accepted job is decided at most once, a product is *)
(* sold at most as often as it has units, a buyer gets at most one unit of *)
(* a product, and each rejection has its reason.  OrderStore is shown to   *)
(* implement this specification.                                           *)
(***************************************************************************)
EXTENDS Catalog

VARIABLES
  remaining,   \* products.remaining_stock
  active,      \* products.is_flash_sale_active
  results      \* order_results: the status of each job, or NoResult

vars == <<remaining, active, results>>

Winners == {j \in Jobs : results[j] = "SUCCESS"}

TypeOK ==
  /\ remaining \in [Products -> Nat]
  /\ active \in [Products -> BOOLEAN]
  /\ results \in [Jobs -> Outcomes]

Init ==
  /\ remaining = InitialStock
  /\ active \in [Products -> BOOLEAN]
  /\ results = [j \in Jobs |-> NoResult]

-----------------------------------------------------------------------------
(***************************************************************************)
(* One commit decides the jobs of some batch: those whose entry changes.   *)
(***************************************************************************)
DecidedNow == {j \in Jobs : results'[j] # results[j]}
SoldNow(p) == For(p, {j \in DecidedNow : results'[j] = "SUCCESS"})

\* A winner's product exists and is on sale, and its buyer never won it before.
WinIsFair(j) ==
  /\ JobProduct[j] \in Products
  /\ active[JobProduct[j]]
  /\ \A k \in Jobs \ {j} : SamePair(j, k) => results'[k] # "SUCCESS"

\* A rejection names a reason that is true when it is given.
RejectionIsFair(j) ==
  /\ results'[j] = "REJECTED_SOLD_OUT" => remaining'[JobProduct[j]] = 0
  /\ results'[j] = "REJECTED_INACTIVE" => ~ active[JobProduct[j]]
  /\ results'[j] = "REJECTED_DUPLICATE" =>
       \E k \in Jobs \ {j} : SamePair(j, k) /\ results'[k] # NoResult

Decide ==
  /\ results' \in [Jobs -> Outcomes]
  /\ \A j \in DecidedNow : results[j] = NoResult
  /\ \A p \in Products : Cardinality(SoldNow(p)) <= remaining[p]
  /\ remaining' = [p \in Products |-> remaining[p] - Cardinality(SoldNow(p))]
  /\ \A j \in DecidedNow :
       /\ JobProduct[j] \in Products
       /\ IF results'[j] = "SUCCESS" THEN WinIsFair(j) ELSE RejectionIsFair(j)
  /\ UNCHANGED active

\* The operator edits the seed file and runs it: flags change, sold stock does not.
Reseed ==
  /\ active' \in [Products -> BOOLEAN]
  /\ UNCHANGED <<remaining, results>>

Next == Decide \/ Reseed

Spec == Init /\ [][Next]_vars

-----------------------------------------------------------------------------
\* No unit is sold twice and none disappears: what place_order_batch takes from
\* remaining_stock is exactly what it hands out as orders.
StockConserved ==
  \A p \in Products :
    remaining[p] + Cardinality(For(p, Winners)) = InitialStock[p]

\* A buyer holds at most one unit of a product, whichever jobs asked for it and
\* in whichever batches they came (pair_rank and already_purchased).
OnePurchasePerPair ==
  \A j, k \in Winners : SamePair(j, k) => j = k

\* "Sold out" is never said of a product that still has units, then or later
\* (stock_rank against remaining_stock; a seed run does not restock).
SoldOutIsTrue ==
  \A j \in Jobs : results[j] = "REJECTED_SOLD_OUT" => remaining[JobProduct[j]] = 0
=============================================================================

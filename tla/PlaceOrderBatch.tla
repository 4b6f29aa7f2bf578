--------------------------- MODULE PlaceOrderBatch ---------------------------
(***************************************************************************)
(* The decision rule of the SQL function place_order_batch as installed by *)
(* migration 1760000003000: what the CTEs of its loop body compute for one *)
(* product, given the rows visible to the transaction.                     *)
(*                                                                         *)
(* A batch is the JSON array of the call, a sequence of jobs.  The order   *)
(* id 'o-' || substring(job_id FROM 5 FOR 62) is abstracted to the job     *)
(* itself: two SHA-256 job ids with a common prefix of 62 digits are taken *)
(* not to occur.  The shape checks on the payload's fields are left out.   *)
(***************************************************************************)
EXTENDS Catalog, Sequences

CONSTANT MaxBatch   \* 32, the length up to which a batch is accepted

ASSUME MaxBatchAssumption == MaxBatch \in Nat \ {0}

JobsIn(batch)     == {batch[i] : i \in DOMAIN batch}
ProductsIn(batch) == {JobProduct[j] : j \in JobsIn(batch)}

\* The checks before any row is locked: length, then unknown products.
Accepts(batch) ==
  /\ Len(batch) \in 1..MaxBatch
  /\ ProductsIn(batch) \subseteq Products

\* unique_jobs: a job listed twice counts once, at its first position.
Ordinal(batch, j) ==
  CHOOSE i \in DOMAIN batch : batch[i] = j /\ \A h \in 1..(i - 1) : batch[h] # j

\* pending_jobs: the batch's jobs for p that have no durable result yet.
PendingWithDecided(batch, p, res) == For(p, JobsIn(batch))  \* mutant: results not joined
PendingJobs(batch, p, res) == {j \in For(p, JobsIn(batch)) : res[j] = NoResult}

\* pair_rank = 1: no pending job of the same pair stands earlier.
FirstOfPair(batch, pending, j) ==
  \A k \in pending : SamePair(j, k) => Ordinal(batch, j) <= Ordinal(batch, k)

AlreadyPurchased(sold, j) == \E k \in sold : SamePair(j, k)

EligibleJobs(batch, pending, sold, isActive) ==
  {j \in pending : /\ FirstOfPair(batch, pending, j)
                   /\ ~ AlreadyPurchased(sold, j)
                   /\ isActive}

StockRankFromOne(batch, eligible, j) ==   \* mutant: the rank starts at two
  1 + Cardinality({k \in eligible : Ordinal(batch, k) <= Ordinal(batch, j)})
StockRank(batch, eligible, j) ==
  Cardinality({k \in eligible : Ordinal(batch, k) <= Ordinal(batch, j)})

\* ON CONFLICT DO NOTHING: the unique keys on the job and on the pair, against
\* the rows already there and those the same statement inserts earlier.
Conflicts(batch, chosen, sold, j) ==
  \/ j \in sold
  \/ AlreadyPurchased(sold, j)
  \/ \E k \in chosen : SamePair(j, k) /\ Ordinal(batch, k) < Ordinal(batch, j)

InsertedOrders(batch, eligible, sold, stock) ==
  LET chosen == {j \in eligible : StockRank(batch, eligible, j) <= stock}
  IN  {j \in chosen : ~ Conflicts(batch, chosen, sold, j)}

\* The CASE of inserted_results for one pending job.
OutcomeIgnoringStock(batch, pending, inserted, sold, isActive, j) ==   \* mutant
  IF ~ FirstOfPair(batch, pending, j) \/ AlreadyPurchased(sold, j) THEN "REJECTED_DUPLICATE"
  ELSE IF isActive THEN "SUCCESS" ELSE "REJECTED_INACTIVE"
Outcome(batch, pending, inserted, sold, isActive, j) ==
  CASE j \in inserted                                -> "SUCCESS"
    [] j \notin inserted /\ (~ FirstOfPair(batch, pending, j) \/ AlreadyPurchased(sold, j))
                                                     -> "REJECTED_DUPLICATE"
    [] j \notin inserted /\ FirstOfPair(batch, pending, j)
       /\ ~ AlreadyPurchased(sold, j) /\ ~ isActive  -> "REJECTED_INACTIVE"
    [] OTHER                                         -> "REJECTED_SOLD_OUT"

=============================================================================

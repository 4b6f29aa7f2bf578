---------------------------- MODULE BatchVersions ----------------------------
(***************************************************************************)
(* The versions of place_order_batch that the migrations install and a     *)
(* rollback brings back, called on the same tables.  Migration 1 and       *)
(* migration 2 install one rule: a loop over the jobs of each product in   *)
(* job_id order.  Migration 3 installs the set-based rule of               *)
(* PlaceOrderBatch.  CREATE OR REPLACE FUNCTION and each call are one      *)
(* step here: how calls interleave is OrderStore's subject.                *)
(***************************************************************************)
EXTENDS PlaceOrderBatch

CONSTANTS
  JobRank,     \* ORDER BY item->>'jobId': the position of each job id as text
  Batches,     \* batches a caller may send, the empty one and long ones included
  FlagSettings \* the flags a seed run may leave behind

ASSUME VersionsAssumption ==
  /\ JobRank \in [Jobs -> Nat]
  /\ \A j, k \in Jobs : JobRank[j] = JobRank[k] => j = k
  /\ Batches \subseteq Seq(Jobs)
  /\ FlagSettings \subseteq [Products -> BOOLEAN]

VARIABLES
  installed,   \* the migration whose function is installed; 0: there is none
  remaining, active, orders, results, outbox,   \* the tables, as in OrderStore
  asked,       \* the batch of the last call that returned rows
  answered     \* the rows it returned

tables == <<remaining, active, orders, results, outbox>>
vars   == <<installed, tables, asked, answered>>

NoRows == [j \in Jobs |-> NoResult]

Init ==
  /\ installed = 0
  /\ remaining = InitialStock
  /\ active \in FlagSettings
  /\ orders = {}
  /\ results = NoRows
  /\ outbox = [p \in Products |-> 0]
  /\ asked = << >>
  /\ answered = NoRows

-----------------------------------------------------------------------------
(***************************************************************************)
(* Migrations 1 and 2: one job after the other.                            *)
(***************************************************************************)
\* ORDER BY job_id: the one of the jobs S that the loop takes last.
LastJob(S) == CHOOSE j \in S : \A k \in S : JobRank[k] <= JobRank[j]

OldVerdictIgnoringBatch(p, acc, j) ==   \* mutant: the pair is looked up before the loop
  CASE ~ active[p]                       -> "REJECTED_INACTIVE"
    [] active[p] /\ AlreadyPurchased(orders, j) -> "REJECTED_DUPLICATE"
    [] active[p] /\ ~ AlreadyPurchased(orders, j) /\ acc.left <= 0 -> "REJECTED_SOLD_OUT"
    [] OTHER                             -> "SUCCESS"
OldVerdictOneTooMany(p, acc, j) ==      \* mutant: current_stock < 0
  CASE ~ active[p]                       -> "REJECTED_INACTIVE"
    [] active[p] /\ AlreadyPurchased(acc.orders, j) -> "REJECTED_DUPLICATE"
    [] active[p] /\ ~ AlreadyPurchased(acc.orders, j) /\ acc.left < 0 -> "REJECTED_SOLD_OUT"
    [] OTHER                             -> "SUCCESS"
OldVerdict(p, acc, j) ==
  CASE ~ active[p]                       -> "REJECTED_INACTIVE"
    [] active[p] /\ AlreadyPurchased(acc.orders, j) -> "REJECTED_DUPLICATE"
    [] active[p] /\ ~ AlreadyPurchased(acc.orders, j) /\ acc.left <= 0 -> "REJECTED_SOLD_OUT"
    [] OTHER                             -> "SUCCESS"

\* The body of the inner loop; a job with a durable result is passed over.
OldStep(p, acc, j) ==
  LET verdict == OldVerdict(p, acc, j)
  IN  IF acc.results[j] # NoResult THEN acc
      ELSE [left    |-> IF verdict = "SUCCESS" THEN acc.left - 1 ELSE acc.left,
            orders  |-> IF verdict = "SUCCESS" THEN acc.orders \cup {j} ELSE acc.orders,
            results |-> [acc.results EXCEPT ![j] = verdict]]

\* The outer loop's turn for product p: after[S] is where the inner loop stands
\* when it is through with the jobs S.  An unknown product has no turn.
OldTurn(b, p) ==
  LET after[S \in SUBSET For(p, JobsIn(b))] ==
        IF S = {} THEN [left |-> remaining[p], orders |-> orders, results |-> results]
        ELSE OldStep(p, after[S \ {LastJob(S)}], LastJob(S))
  IN  after[For(p, JobsIn(b))]

OldRule(b) ==
  [won     |-> UNION {OldTurn(b, p).orders \ orders : p \in Products},
   results |-> [j \in Jobs |-> IF JobProduct[j] \in Products
                               THEN OldTurn(b, JobProduct[j]).results[j] ELSE results[j]]]

(***************************************************************************)
(* Migration 3: the decision of PlaceOrderBatch for each product.          *)
(***************************************************************************)
NewTurn(b, p) ==
  LET pending  == PendingJobs(b, p, results)
      eligible == EligibleJobs(b, pending, orders, active[p])
      won      == InsertedOrders(b, eligible, orders, remaining[p])
  IN  [won |-> won, pending |-> pending,
       results |-> [j \in pending |-> Outcome(b, pending, won, orders, active[p], j)]]

NewRule(b) ==
  LET turn == [p \in Products |-> NewTurn(b, p)]
  IN  [won     |-> UNION {turn[p].won : p \in Products},
       results |-> [j \in Jobs |->
          IF JobProduct[j] \in Products /\ j \in turn[JobProduct[j]].pending
          THEN turn[JobProduct[j]].results[j] ELSE results[j]]]

-----------------------------------------------------------------------------
NewRowsOnly(b) ==   \* mutant: return only what this call has inserted
  [j \in Jobs |-> IF j \in JobsIn(b) /\ results[j] = NoResult THEN results'[j] ELSE NoResult]
Rows(b) == [j \in Jobs |-> IF j \in JobsIn(b) THEN results'[j] ELSE NoResult]

\* Sold units leave the stock, and a product that sold any gets an outbox row.
StockAfter(won)  == [p \in Products |-> remaining[p] - Cardinality(For(p, won))]
OutboxAfter(won) == [p \in Products |-> outbox[p] + IF For(p, won) # {} THEN 1 ELSE 0]

CallReturns(b, effect) ==
  /\ remaining' = StockAfter(effect.won)
  /\ orders' = orders \cup effect.won
  /\ results' = effect.results
  /\ outbox' = OutboxAfter(effect.won)
  /\ asked' = b
  /\ answered' = Rows(b)
  /\ UNCHANGED <<active, installed>>

\* Every array is accepted; an empty one returns no rows.
CallOld(b) == installed \in {1, 2} /\ CallReturns(b, OldRule(b))

CallNew(b) == installed = 3 /\ Accepts(b) /\ CallReturns(b, NewRule(b))

\* No such function, or the validation of migration 3 raises.
CallFails(b) ==
  /\ installed = 0 \/ (installed = 3 /\ ~ Accepts(b))
  /\ UNCHANGED vars

\* up() of the next migration; down() of the last one installs the function of
\* the migration before it, or drops it.
MigrateUp   == installed < 3 /\ installed' = installed + 1 /\ UNCHANGED <<tables, asked, answered>>
MigrateDown == installed > 0 /\ installed' = installed - 1 /\ UNCHANGED <<tables, asked, answered>>

RunSeed ==
  /\ active' \in FlagSettings
  /\ UNCHANGED <<installed, remaining, orders, results, outbox, asked, answered>>

Next ==
  \/ \E b \in Batches : CallOld(b) \/ CallNew(b) \/ CallFails(b)
  \/ MigrateUp \/ MigrateDown \/ RunSeed

Spec == Init /\ [][Next]_vars

-----------------------------------------------------------------------------
\* Whatever was sold before and whichever version sold it, a batch that the
\* installed version accepts moves the same number of units of every product and
\* announces the same products under each version: a rollback under load changes
\* who is told what, never how much is sold.
SameSalesInEveryVersion ==
  \A b \in Batches : Accepts(b) =>
    /\ StockAfter(OldRule(b).won) = StockAfter(NewRule(b).won)
    /\ OutboxAfter(OldRule(b).won) = OutboxAfter(NewRule(b).won)

\* A call that returns has a row for every job whose product exists, and the row
\* is the durable result, also of a job that another version has decided.
KnownJobsAreAnswered ==
  \A j \in JobsIn(asked) :
    JobProduct[j] \in Products => answered[j] # NoResult /\ answered[j] = results[j]

\* Under any sequence of migrations, rollbacks and calls the promise of the sale
\* is kept: nothing is decided twice, sold twice or refused without its reason.
Promise == INSTANCE FlashSale WITH
  remaining <- remaining, active <- active, results <- results
ImplementsFlashSale == Promise!Spec
=============================================================================

------------------------------ MODULE OrderStore ------------------------------
(***************************************************************************)
(* PostgreSQL as the order path uses it: concurrent calls of               *)
(* place_order_batch, each one transaction, next to a seed transaction     *)
(* that rewrites the sale flags.                                           *)
(*                                                                         *)
(* A call checks its batch, locks the product rows it needs one after the  *)
(* other in product_id order (FOR UPDATE; the row read is the one current  *)
(* when the lock is granted), runs the loop body for each locked product   *)
(* against the committed rows and its own, and commits everything at once. *)
(* plpgsql fetches the locking query in chunks, so a lock may be taken     *)
(* before or after the body of an earlier product: both orders are         *)
(* behaviours here.  A transaction may be aborted at any point before its  *)
(* commit (a lost connection, a crash of either side, a statement error),  *)
(* and the answer of a committed one may be lost.  What a caller calls     *)
(* next is up to the caller, so the same job may be sent again at any time.*)
(***************************************************************************)
EXTENDS PlaceOrderBatch

CONSTANTS
  Sessions,    \* database connections of the workers' pools
  Batches,     \* batches a caller may send
  SeedOrder,   \* the products of the seed file, in file order
  SeedFlags    \* the flag settings of the seed files that may be run

ASSUME StoreAssumption ==
  /\ Batches \subseteq Seq(Jobs)
  /\ SeedOrder \in Seq(Products)
  /\ \A i, k \in DOMAIN SeedOrder : i < k => SeedOrder[i] < SeedOrder[k]
  /\ SeedFlags \subseteq [Products -> BOOLEAN]

VARIABLES
  remaining,   \* products.remaining_stock, committed
  active,      \* products.is_flash_sale_active, committed
  orders,      \* the jobs with a committed row in orders
  results,     \* committed order_results
  outbox,      \* how many transactional_outbox rows were committed per product
  phase,       \* of each session: idle, running, replied or failed
  batch,       \* the argument of the call in progress
  locked,      \* the product rows the session has locked
  seen,        \* v_product of each locked row
  done,        \* the products whose loop body has run
  won,         \* orders inserted by the running transaction
  verdict,     \* results inserted by the running transaction; then the reply
  seedRows,    \* rows the running seed transaction has upserted; 0 when none runs
  seedFlags    \* the flags that seed transaction writes

tables  == <<remaining, active, orders, results, outbox>>
session == <<phase, batch, locked, seen, done, won, verdict>>
seed    == <<seedRows, seedFlags>>
vars    == <<tables, session, seed>>

Unread    == [p \in Products |-> [stock |-> 0, isActive |-> FALSE]]
NoVerdict == [j \in Jobs |-> NoResult]

TypeOK ==
  /\ remaining \in [Products -> Nat]
  /\ active \in [Products -> BOOLEAN]
  /\ orders \subseteq Jobs
  /\ results \in [Jobs -> Outcomes]
  /\ outbox \in [Products -> Nat]
  /\ phase \in [Sessions -> {"idle", "running", "replied", "failed"}]
  /\ batch \in [Sessions -> Seq(Jobs)]
  /\ locked \in [Sessions -> SUBSET Products]
  /\ seen \in [Sessions -> [Products -> [stock : Nat, isActive : BOOLEAN]]]
  /\ done \in [Sessions -> SUBSET Products]
  /\ won \in [Sessions -> SUBSET Jobs]
  /\ verdict \in [Sessions -> [Jobs -> Outcomes]]
  /\ seedRows \in 0..Len(SeedOrder)
  /\ seedFlags \in [Products -> BOOLEAN]

Init ==
  /\ remaining = InitialStock
  /\ active \in SeedFlags
  /\ orders = {}
  /\ results = NoVerdict
  /\ outbox = [p \in Products |-> 0]
  /\ phase = [s \in Sessions |-> "idle"]
  /\ batch = [s \in Sessions |-> << >>]
  /\ locked = [s \in Sessions |-> {}]
  /\ seen = [s \in Sessions |-> Unread]
  /\ done = [s \in Sessions |-> {}]
  /\ won = [s \in Sessions |-> {}]
  /\ verdict = [s \in Sessions |-> NoVerdict]
  /\ seedRows = 0
  /\ seedFlags = active

-----------------------------------------------------------------------------
(***************************************************************************)
(* Row locks.                                                              *)
(***************************************************************************)
SeedLocks == {SeedOrder[i] : i \in 1..seedRows}

\* Row p is locked by nobody but, possibly, session s itself.
FreeForAll(s, p)  == TRUE                                           \* mutant: no wait
FreeOfCalls(s, p) == \A t \in Sessions \ {s} : p \notin locked[t]   \* mutant: but for seeds
FreeFor(s, p) == p \notin SeedLocks /\ \A t \in Sessions \ {s} : p \notin locked[t]

\* ORDER BY product.product_id FOR UPDATE: the next row a running call locks.
Unlocked(s)  == ProductsIn(batch[s]) \ locked[s]
NextLockInBatchOrder(s) ==    \* mutant: no ORDER BY in the locking query
  LET first == CHOOSE i \in DOMAIN batch[s] :
                 /\ JobProduct[batch[s][i]] \in Unlocked(s)
                 /\ \A h \in 1..(i - 1) : JobProduct[batch[s][h]] \notin Unlocked(s)
  IN  JobProduct[batch[s][first]]
NextLock(s)  == CHOOSE p \in Unlocked(s) : \A q \in Unlocked(s) : p <= q

\* Rows visible to the running transaction: committed ones and its own.
VisibleOrders(s)  == orders \cup won[s]
VisibleResults(s) ==
  [j \in Jobs |-> IF verdict[s][j] # NoResult THEN verdict[s][j] ELSE results[j]]

\* The transaction of s is over; its locks and its private rows are gone.
EndTransaction(s) ==
  /\ locked' = [locked EXCEPT ![s] = {}]
  /\ seen' = [seen EXCEPT ![s] = Unread]
  /\ done' = [done EXCEPT ![s] = {}]
  /\ won' = [won EXCEPT ![s] = {}]

-----------------------------------------------------------------------------
(***************************************************************************)
(* One call of place_order_batch.                                          *)
(***************************************************************************)
Begin(s, b) ==
  /\ phase[s] = "idle"
  /\ Accepts(b)
  /\ phase' = [phase EXCEPT ![s] = "running"]
  /\ batch' = [batch EXCEPT ![s] = b]
  /\ UNCHANGED <<tables, locked, seen, done, won, verdict, seed>>

\* RAISE EXCEPTION before anything is locked: the whole batch is refused.
Refuse(s, b) ==
  /\ phase[s] = "idle"
  /\ ~ Accepts(b)
  /\ phase' = [phase EXCEPT ![s] = "failed"]
  /\ batch' = [batch EXCEPT ![s] = b]
  /\ UNCHANGED <<tables, locked, seen, done, won, verdict, seed>>

LockRow(s) ==
  /\ phase[s] = "running"
  /\ Unlocked(s) # {}
  /\ FreeFor(s, NextLock(s))
  /\ locked' = [locked EXCEPT ![s] = @ \cup {NextLock(s)}]
  /\ seen' = [seen EXCEPT ![s][NextLock(s)] =
                [stock |-> remaining[NextLock(s)], isActive |-> active[NextLock(s)]]]
  /\ UNCHANGED <<tables, phase, batch, done, won, verdict, seed>>

\* The loop body for one locked product.  The CHECK on remaining_stock refuses
\* an update below zero: such a transaction could only abort.
DecideProduct(s, p) ==
  LET pending  == PendingJobs(batch[s], p, VisibleResults(s))
      sold     == VisibleOrders(s)
      isActive == seen[s][p].isActive
      eligible == EligibleJobs(batch[s], pending, sold, isActive)
      inserted == InsertedOrders(batch[s], eligible, sold, seen[s][p].stock)
  IN  /\ phase[s] = "running"
      /\ p \in locked[s] \ done[s]
      /\ \A q \in locked[s] \ done[s] : p <= q
      /\ Cardinality(inserted) <= remaining[p]
      /\ done' = [done EXCEPT ![s] = @ \cup {p}]
      /\ won' = [won EXCEPT ![s] = @ \cup inserted]
      /\ verdict' = [verdict EXCEPT ![s] =
           [j \in Jobs |-> IF j \in pending
                           THEN Outcome(batch[s], pending, inserted, sold, isActive, j)
                           ELSE @[j]]]
      /\ UNCHANGED <<tables, phase, batch, locked, seen, seed>>

\* RETURN QUERY: the durable result of every job of the batch.
ReplyNewOnly(s) == verdict[s] \* mutant: return only the rows just inserted
Reply(s) ==
  [j \in Jobs |-> IF j \in JobsIn(batch[s]) THEN VisibleResults(s)[j] ELSE NoResult]

\* stock_update and inserted_outbox: a unit less for each order, and a row for each
\* product that has one.
StockPayingForAll(s) ==       \* mutant: decrement by decided jobs, not by orders
  [p \in Products |-> remaining[p] - Cardinality({j \in For(p, Jobs) : verdict[s][j] # NoResult})]
StockAfter(s) == [p \in Products |-> remaining[p] - Cardinality(For(p, won[s]))]
OutboxWhenSoldOut(s) ==       \* mutant: the outbox row only when stock runs out
  [p \in Products |-> outbox[p] + IF StockAfter(s)[p] = 0 /\ remaining[p] > 0 THEN 1 ELSE 0]
OutboxAfter(s) == [p \in Products |-> IF For(p, won[s]) # {} THEN outbox[p] + 1 ELSE outbox[p]]

Commit(s) ==
  /\ phase[s] = "running"
  /\ done[s] = ProductsIn(batch[s])
  /\ remaining' = StockAfter(s)
  /\ orders' = orders \cup won[s]
  /\ results' = VisibleResults(s)
  /\ outbox' = OutboxAfter(s)
  /\ verdict' = [verdict EXCEPT ![s] = Reply(s)]
  /\ phase' = [phase EXCEPT ![s] = "replied"]
  /\ EndTransaction(s)
  /\ UNCHANGED <<active, batch, seed>>

Abort(s) ==
  /\ phase[s] = "running"
  /\ phase' = [phase EXCEPT ![s] = "failed"]
  /\ verdict' = [verdict EXCEPT ![s] = NoVerdict]
  /\ EndTransaction(s)
  /\ UNCHANGED <<tables, batch, seed>>

\* The commit is durable but the caller sees its connection fail.
LoseReply(s) ==
  /\ phase[s] = "replied"
  /\ phase' = [phase EXCEPT ![s] = "failed"]
  /\ verdict' = [verdict EXCEPT ![s] = NoVerdict]
  /\ UNCHANGED <<tables, batch, locked, seen, done, won, seed>>

\* The caller has taken the rows or the error; the connection is free again.
Return(s) ==
  /\ phase[s] \in {"replied", "failed"}
  /\ phase' = [phase EXCEPT ![s] = "idle"]
  /\ batch' = [batch EXCEPT ![s] = << >>]
  /\ verdict' = [verdict EXCEPT ![s] = NoVerdict]
  /\ UNCHANGED <<tables, locked, seen, done, won, seed>>

-----------------------------------------------------------------------------
(***************************************************************************)
(* The seed transaction: one upsert per product in file order.  It sets    *)
(* the flags and leaves remaining_stock of an existing row alone.          *)
(***************************************************************************)
NextSeedRow == SeedOrder[seedRows + 1]

SeedRow ==
  /\ seedRows < Len(SeedOrder)
  /\ \A s \in Sessions : NextSeedRow \notin locked[s]
  /\ IF seedRows = 0 THEN seedFlags' \in SeedFlags ELSE UNCHANGED seedFlags
  /\ seedRows' = seedRows + 1
  /\ UNCHANGED <<tables, session>>

CommitSeed ==
  /\ seedRows > 0
  /\ seedRows = Len(SeedOrder)
  /\ active' = [p \in Products |-> IF p \in SeedLocks THEN seedFlags[p] ELSE active[p]]
  /\ seedRows' = 0
  /\ seedFlags' = active'
  /\ UNCHANGED <<remaining, orders, results, outbox, session>>

AbortSeed ==
  /\ seedRows > 0
  /\ seedRows' = 0
  /\ seedFlags' = active
  /\ UNCHANGED <<tables, session>>

-----------------------------------------------------------------------------
Work(s) ==
  \/ LockRow(s)
  \/ \E p \in Products : DecideProduct(s, p)
  \/ Commit(s)
  \/ Return(s)

Next ==
  \/ \E s \in Sessions, b \in Batches : Begin(s, b) \/ Refuse(s, b)
  \/ \E s \in Sessions : Work(s) \/ Abort(s) \/ LoseReply(s)
  \/ SeedRow \/ CommitSeed \/ AbortSeed

Spec == Init /\ [][Next]_vars

(***************************************************************************)
(* The server keeps running statements, and row locks are granted in the   *)
(* order in which they were asked for, so no waiter is passed over for     *)
(* ever.  Nothing obliges a caller to call, a seed to start or a fault to  *)
(* happen.                                                                 *)
(***************************************************************************)
Fairness ==
  /\ \A s \in Sessions : WF_vars(Work(s)) /\ SF_vars(LockRow(s))
  /\ SF_vars(seedRows > 0 /\ SeedRow) /\ WF_vars(CommitSeed)

FairSpec == Spec /\ Fairness

-----------------------------------------------------------------------------
Sold(p) == For(p, orders)

\* Every unit of a product is either still in remaining_stock or held by exactly
\* one committed order: no lost update between concurrent calls, no sale beyond
\* the stock, no unit lost by an abort (place_order_batch, stock_update).
StockConserved ==
  \A p \in Products : remaining[p] + Cardinality(Sold(p)) = InitialStock[p]

\* A buyer has at most one order of a product, even when several jobs ask for
\* it in different calls at once (unique_user_product).
OnePurchasePerPair ==
  \A j, k \in orders : SamePair(j, k) => j = k

\* A job has an order exactly when its durable result says SUCCESS: there is no
\* orphan order and no success without one (result_order_consistency).
VerdictsMatchOrders ==
  \A j \in Jobs : j \in orders <=> results[j] = "SUCCESS"

\* Who was told "sold out" will never see the product with units left, and who
\* was told "duplicate" shares the pair with another decided job.
RejectionsAreJustified ==
  \A j \in Jobs :
    /\ results[j] = "REJECTED_SOLD_OUT" => remaining[JobProduct[j]] = 0
    /\ results[j] = "REJECTED_DUPLICATE" =>
         \E k \in Jobs \ {j} : SamePair(j, k) /\ results[k] # NoResult

\* A reply on its way to the worker holds, for every job of the batch, the
\* durable result, so a redelivered job is answered as it was the first time.
RepliesAreDurable ==
  \A s \in Sessions : phase[s] = "replied" =>
    \A j \in JobsIn(batch[s]) : verdict[s][j] = results[j] /\ results[j] # NoResult

\* Whenever units of a product have been sold, an outbox row says so: at least
\* one, and no more than there were sales (inserted_outbox).
SalesAreAnnounced ==
  \A p \in Products :
    /\ outbox[p] <= Cardinality(Sold(p))
    /\ Sold(p) # {} => outbox[p] > 0

\* Who wants a row somebody else has locked.
Actors   == Sessions \cup {"seed"}
Holds(a) == IF a = "seed" THEN SeedLocks ELSE locked[a]
Wants(a) ==
  IF a = "seed" THEN IF seedRows \in 1..(Len(SeedOrder) - 1) THEN {NextSeedRow} ELSE {}
  ELSE IF phase[a] = "running" /\ Unlocked(a) # {} THEN {NextLock(a)} ELSE {}

\* No set of transactions waits for rows held inside that same set, so two
\* batches over several products, or a batch and a seed, never deadlock.
NoWaitCycle ==
  \A A \in (SUBSET Actors) \ {{}} :
    \E a \in A : \A b \in A : Wants(a) \cap Holds(b) = {}

\* A committed result is never changed or removed, whatever is redelivered.
ResultsAreFinal ==
  [][\A j \in Jobs : results[j] # NoResult => results'[j] = results[j]]_vars

\* An order is only ever committed while its product's sale is on: a flag that
\* a seed run turns off cannot change between the decision and the commit.
SalesOnlyWhileActive ==
  [][\A j \in orders' \ orders : active[JobProduct[j]]]_vars

\* Every call that was started comes back, with an answer or an error.
EveryCallReturns ==
  \A s \in Sessions : phase[s] = "running" ~> phase[s] # "running"

\* The store implements the promise of the flash sale.
Promise == INSTANCE FlashSale WITH
  remaining <- remaining, active <- active, results <- results
ImplementsFlashSale == Promise!Spec

=============================================================================

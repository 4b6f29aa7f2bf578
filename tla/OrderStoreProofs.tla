--------------------------- MODULE OrderStoreProofs ---------------------------
(***************************************************************************)
(* Machine-checked proofs about OrderStore, for any set of jobs, products, *)
(* sessions and batches, in three parts: stock and locks; what the results *)
(* table keeps and answers; the refinement of FlashSale.                   *)
(***************************************************************************)
EXTENDS OrderStore, PlaceOrderBatchProofs

-----------------------------------------------------------------------------
(***************************************************************************)
(* The inductive invariant.                                                *)
(***************************************************************************)
\* Row locks: only running transactions hold rows, rows that exist, and no row is
\* held by two of them.
LocksAreExclusive ==
  \A s \in Sessions :
    /\ phase[s] # "running" => locked[s] = {} /\ done[s] = {} /\ won[s] = {}
    /\ phase[s] = "running" => ProductsIn(batch[s]) \subseteq Products
    /\ locked[s] \subseteq Products
    /\ done[s] \subseteq locked[s]
    /\ \A t \in Sessions \ {s} : locked[s] \cap locked[t] = {}

\* Orders a transaction has inserted but not committed: they are for rows it has
\* locked, new, covered by the committed stock, and the only ones of their pairs.
SalesAreCovered ==
  \A s \in Sessions :
    /\ \A j \in won[s] : JobProduct[j] \in done[s]
    /\ won[s] \cap orders = {}
    /\ \A p \in Products : Cardinality(For(p, won[s])) <= remaining[p]
    /\ \A j \in won[s], k \in orders \cup won[s] : SamePair(j, k) => j = k

SafeStore == TypeOK /\ LocksAreExclusive /\ SalesAreCovered
             /\ StockConserved /\ OnePurchasePerPair

LEMMA SafeInitially == Init => SafeStore
<1> SUFFICES ASSUME Init PROVE SafeStore
  OBVIOUS
<1> USE DEF Init
<1>1. TypeOK
  <2>1. active \in [Products -> BOOLEAN] /\ seedFlags \in [Products -> BOOLEAN]
    BY StoreAssumption DEF StoreAssumption
  <2>2. remaining \in [Products -> Nat]
    BY CatalogAssumption DEF CatalogAssumption
  <2>3. results \in [Jobs -> Outcomes] /\ verdict \in [Sessions -> [Jobs -> Outcomes]]
    BY DEF NoVerdict, Outcomes
  <2>4. seen \in [Sessions -> [Products -> [stock : Nat, isActive : BOOLEAN]]]
    BY DEF Unread
  <2>5. seedRows \in 0..Len(SeedOrder)
    BY StoreAssumption, LenProperties DEF StoreAssumption
  <2>6. batch \in [Sessions -> Seq(Jobs)]
    OBVIOUS
  <2> QED BY <2>1, <2>2, <2>3, <2>4, <2>5, <2>6 DEF TypeOK
<1>2. LocksAreExclusive
  BY DEF LocksAreExclusive
<1>3. \A p : For(p, {}) = {}
  BY DEF For
<1>4. Cardinality({}) = 0
  BY FS_EmptySet
<1>5. \A p \in Products : remaining[p] \in Nat /\ remaining[p] = InitialStock[p]
  BY CatalogAssumption DEF CatalogAssumption
<1>6. SalesAreCovered
  <2>1. \A s \in Sessions : won[s] = {}
    OBVIOUS
  <2>2. \A p \in Products : 0 <= remaining[p]
    BY <1>5
  <2>3. \A s \in Sessions : \A p \in Products : Cardinality(For(p, won[s])) = 0
    BY <2>1, <1>3, <1>4
  <2> QED BY <2>1, <2>2, <2>3 DEF SalesAreCovered
<1>7. StockConserved
  <2>1. orders = {}
    OBVIOUS
  <2>2. \A p \in Products : Cardinality(For(p, orders)) = 0
    BY <2>1, <1>3, <1>4
  <2>3. \A p \in Products : remaining[p] + 0 = InitialStock[p]
    BY <1>5
  <2> QED BY <2>2, <2>3 DEF StockConserved, Sold
<1>8. OnePurchasePerPair
  BY DEF OnePurchasePerPair
<1> QED BY <1>1, <1>2, <1>6, <1>7, <1>8 DEF SafeStore

-----------------------------------------------------------------------------
(***************************************************************************)
(* What the steps of a call read and write, in states the invariant allows.*)
(***************************************************************************)
LEMMA VisibleIsTyped ==
  ASSUME TypeOK, NEW s \in Sessions
  PROVE  /\ VisibleResults(s) \in [Jobs -> Outcomes]
         /\ Reply(s) \in [Jobs -> Outcomes]
<1>1. VisibleResults(s) \in [Jobs -> Outcomes]
  BY DEF TypeOK, VisibleResults
<1> QED BY <1>1 DEF Reply, Outcomes

\* The locking query always finds the row it locks next among the batch's.
LEMMA NextLockIsWanted ==
  ASSUME TypeOK, LocksAreExclusive, NEW s \in Sessions,
         phase[s] = "running", Unlocked(s) # {}
  PROVE  NextLock(s) \in Unlocked(s) /\ NextLock(s) \in Products
<1>1. Unlocked(s) \subseteq Products
  BY DEF LocksAreExclusive, Unlocked
<1>2. Unlocked(s) \in SUBSET Nat
  BY <1>1, CatalogAssumption DEF CatalogAssumption
<1>3. PICK p \in Unlocked(s) : \A q \in Unlocked(s) : p <= q
  BY <1>2, LeastNatural
<1> QED BY <1>1, <1>3 DEF NextLock

LEMMA DecisionIsTyped ==
  ASSUME TypeOK, LocksAreExclusive, NEW s \in Sessions, NEW p \in Products, DecideProduct(s, p)
  PROVE  /\ won' \in [Sessions -> SUBSET Jobs]
         /\ verdict' \in [Sessions -> [Jobs -> Outcomes]]
<1> DEFINE pending  == PendingJobs(batch[s], p, VisibleResults(s))
           sold     == VisibleOrders(s)
           on       == seen[s][p].isActive
           eligible == EligibleJobs(batch[s], pending, sold, on)
           inserted == InsertedOrders(batch[s], eligible, sold, seen[s][p].stock)
           given    == [j \in Jobs |-> IF j \in pending
                          THEN Outcome(batch[s], pending, inserted, sold, on, j)
                          ELSE verdict[s][j]]
<1>1. batch[s] \in Seq(Jobs)
  BY DEF TypeOK
<1>2. inserted \subseteq For(p, JobsIn(batch[s]))
  BY <1>1, InsertedIsFair
<1>3. inserted \subseteq Jobs
  BY <1>1, <1>2, JobsInBatch DEF For
<1>4. won' = [won EXCEPT ![s] = @ \cup inserted] /\ verdict' = [verdict EXCEPT ![s] = given]
  BY DEF DecideProduct
<1> HIDE DEF pending, sold, on, inserted
<1>5. given \in [Jobs -> Outcomes]
  BY OutcomeIsStatus DEF TypeOK, Outcomes
<1> HIDE DEF given
<1> QED BY <1>3, <1>4, <1>5 DEF TypeOK

-----------------------------------------------------------------------------
(***************************************************************************)
(* Each part of the invariant is kept by every step.                       *)
(***************************************************************************)
LEMMA TypeStep ==
  ASSUME TypeOK, LocksAreExclusive, SalesAreCovered, [Next]_vars
  PROVE  TypeOK'
<1> USE DEF tables, session, seed
<1>1. ASSUME NEW s \in Sessions, NEW b \in Batches, Begin(s, b) \/ Refuse(s, b) PROVE TypeOK'
  <2>1. b \in Seq(Jobs)
    BY StoreAssumption DEF StoreAssumption
  <2>2. CASE Begin(s, b)
    BY <2>1, <2>2 DEF TypeOK, Begin
  <2>3. CASE Refuse(s, b)
    BY <2>1, <2>3 DEF TypeOK, Refuse
  <2> QED BY <1>1, <2>2, <2>3
<1>2. ASSUME NEW s \in Sessions, LockRow(s) PROVE TypeOK'
  <2>1. NextLock(s) \in Products
    BY <1>2, NextLockIsWanted DEF LockRow
  <2>2. [stock |-> remaining[NextLock(s)], isActive |-> active[NextLock(s)]]
          \in [stock : Nat, isActive : BOOLEAN]
    BY <2>1 DEF TypeOK
  <2> QED BY <1>2, <2>1, <2>2 DEF TypeOK, LockRow
<1>3. ASSUME NEW s \in Sessions, NEW p \in Products, DecideProduct(s, p) PROVE TypeOK'
  <2>1. won' \in [Sessions -> SUBSET Jobs] /\ verdict' \in [Sessions -> [Jobs -> Outcomes]]
    BY <1>3, DecisionIsTyped
  <2>2. /\ done' = [done EXCEPT ![s] = @ \cup {p}]
        /\ UNCHANGED <<tables, phase, batch, locked, seen, seed>>
    BY <1>3 DEF DecideProduct
  <2> QED BY <2>1, <2>2 DEF TypeOK
<1>4. ASSUME NEW s \in Sessions, Commit(s) PROVE TypeOK'
  <2>1. remaining' \in [Products -> Nat]
    <3>1. \A p \in Products : /\ remaining[p] \in Nat
                             /\ Cardinality(For(p, won[s])) \in Nat
                             /\ Cardinality(For(p, won[s])) <= remaining[p]
      BY CountFor DEF TypeOK, SalesAreCovered
    <3>2. \A p \in Products : remaining[p] - Cardinality(For(p, won[s])) \in Nat
      BY <3>1
    <3> QED BY <1>4, <3>2 DEF Commit, StockAfter
  <2>2. VisibleResults(s) \in [Jobs -> Outcomes] /\ Reply(s) \in [Jobs -> Outcomes]
    BY VisibleIsTyped
  <2>3. results' \in [Jobs -> Outcomes] /\ verdict' \in [Sessions -> [Jobs -> Outcomes]]
    BY <1>4, <2>2 DEF Commit, TypeOK
  <2>4. outbox' \in [Products -> Nat]
    BY <1>4 DEF Commit, OutboxAfter, TypeOK
  <2>5. orders' \subseteq Jobs
    BY <1>4 DEF Commit, TypeOK
  <2>6. /\ phase' \in [Sessions -> {"idle", "running", "replied", "failed"}]
        /\ UNCHANGED <<active, batch, seedRows, seedFlags>>
    BY <1>4 DEF Commit, TypeOK
  <2>7. /\ locked' \in [Sessions -> SUBSET Products]
        /\ seen' \in [Sessions -> [Products -> [stock : Nat, isActive : BOOLEAN]]]
        /\ done' \in [Sessions -> SUBSET Products]
        /\ won' \in [Sessions -> SUBSET Jobs]
    BY <1>4 DEF Commit, EndTransaction, TypeOK, Unread
  <2> QED BY <2>1, <2>3, <2>4, <2>5, <2>6, <2>7 DEF TypeOK
<1>5. NoVerdict \in [Jobs -> Outcomes] /\ << >> \in Seq(Jobs)
  BY DEF NoVerdict, Outcomes
<1>6. ASSUME NEW s \in Sessions, Abort(s) PROVE TypeOK'
  BY <1>5, <1>6 DEF TypeOK, Abort, EndTransaction, Unread
<1>7. ASSUME NEW s \in Sessions, LoseReply(s) \/ Return(s) PROVE TypeOK'
  <2>1. CASE LoseReply(s)
    BY <1>5, <2>1 DEF TypeOK, LoseReply
  <2>2. CASE Return(s)
    BY <1>5, <2>2 DEF TypeOK, Return
  <2> QED BY <1>7, <2>1, <2>2
<1>8. Len(SeedOrder) \in Nat /\ \A f \in SeedFlags : f \in [Products -> BOOLEAN]
  BY StoreAssumption, LenProperties DEF StoreAssumption
<1>9. CASE SeedRow
  <2>1. seedRows' \in 0..Len(SeedOrder)
    BY <1>8, <1>9 DEF TypeOK, SeedRow
  <2>2. seedFlags' \in [Products -> BOOLEAN]
    BY <1>8, <1>9 DEF TypeOK, SeedRow
  <2> QED BY <1>9, <2>1, <2>2 DEF TypeOK, SeedRow
<1>10. CASE CommitSeed
  BY <1>8, <1>10 DEF TypeOK, CommitSeed
<1>11. CASE AbortSeed
  BY <1>8, <1>11 DEF TypeOK, AbortSeed
<1>12. CASE UNCHANGED vars
  BY <1>12 DEF TypeOK, vars
<1> QED
  BY <1>1, <1>2, <1>3, <1>4, <1>6, <1>7, <1>9, <1>10, <1>11, <1>12 DEF Next, Work

LEMMA LocksStep ==
  ASSUME TypeOK, LocksAreExclusive, [Next]_vars
  PROVE  LocksAreExclusive'
<1> USE DEF tables, session, seed
<1>1. ASSUME NEW s \in Sessions, NEW b \in Batches, Begin(s, b) PROVE LocksAreExclusive'
  <2>1. /\ phase[s] = "idle" /\ ProductsIn(b) \subseteq Products
        /\ phase' = [phase EXCEPT ![s] = "running"]
        /\ batch' = [batch EXCEPT ![s] = b]
        /\ UNCHANGED <<locked, done, won>>
    BY <1>1 DEF Begin, Accepts
  <2> QED BY <2>1 DEF TypeOK, LocksAreExclusive
<1>2. ASSUME NEW s \in Sessions, NEW b \in Batches, Refuse(s, b) PROVE LocksAreExclusive'
  BY <1>2 DEF TypeOK, LocksAreExclusive, Refuse
<1>3. ASSUME NEW s \in Sessions, LockRow(s) PROVE LocksAreExclusive'
  <2>1. NextLock(s) \in Products
    BY <1>3, NextLockIsWanted DEF LockRow
  <2>2. \A t \in Sessions \ {s} : NextLock(s) \notin locked[t]
    BY <1>3 DEF LockRow, FreeFor
  <2>3. /\ phase[s] = "running"
        /\ locked' = [locked EXCEPT ![s] = @ \cup {NextLock(s)}]
        /\ UNCHANGED <<phase, batch, done, won>>
    BY <1>3 DEF LockRow
  <2> QED BY <2>1, <2>2, <2>3 DEF TypeOK, LocksAreExclusive
<1>4. ASSUME NEW s \in Sessions, NEW p \in Products, DecideProduct(s, p) PROVE LocksAreExclusive'
  <2>1. /\ phase[s] = "running" /\ p \in locked[s]
        /\ done' = [done EXCEPT ![s] = @ \cup {p}]
        /\ \A t \in Sessions \ {s} : won'[t] = won[t]
        /\ UNCHANGED <<phase, batch, locked>>
    BY <1>4 DEF DecideProduct, TypeOK
  <2> QED BY <2>1 DEF TypeOK, LocksAreExclusive
<1>5. ASSUME NEW s \in Sessions, Commit(s) \/ Abort(s) PROVE LocksAreExclusive'
  <2>1. /\ phase' \in {[phase EXCEPT ![s] = "replied"], [phase EXCEPT ![s] = "failed"]}
        /\ batch' = batch
        /\ locked' = [locked EXCEPT ![s] = {}]
        /\ done' = [done EXCEPT ![s] = {}]
        /\ won' = [won EXCEPT ![s] = {}]
    BY <1>5 DEF Commit, Abort, EndTransaction
  <2> QED BY <2>1 DEF TypeOK, LocksAreExclusive
<1>6. ASSUME NEW s \in Sessions, LoseReply(s) \/ Return(s) PROVE LocksAreExclusive'
  <2>1. /\ phase[s] # "running" /\ phase' = [phase EXCEPT ![s] = phase'[s]]
        /\ phase'[s] # "running"
        /\ \A t \in Sessions \ {s} : batch'[t] = batch[t]
        /\ UNCHANGED <<locked, done, won>>
    BY <1>6 DEF LoseReply, Return, TypeOK
  <2> QED BY <2>1 DEF TypeOK, LocksAreExclusive
<1>7. CASE SeedRow \/ CommitSeed \/ AbortSeed \/ UNCHANGED vars
  BY <1>7 DEF LocksAreExclusive, SeedRow, CommitSeed, AbortSeed, vars
<1> QED
  BY <1>1, <1>2, <1>3, <1>4, <1>5, <1>6, <1>7 DEF Next, Work

\* Deciding a product adds sales of that product only, and no more than are left.
LEMMA DecisionIsCovered ==
  ASSUME TypeOK, LocksAreExclusive, SalesAreCovered,
         NEW s \in Sessions, NEW p \in Products, DecideProduct(s, p)
  PROVE  SalesAreCovered'
<1> DEFINE sold     == orders \cup won[s]
           inserted == InsertedOrders(batch[s],
                         EligibleJobs(batch[s], PendingJobs(batch[s], p, VisibleResults(s)),
                                      sold, seen[s][p].isActive),
                         sold, seen[s][p].stock)
<1>1. batch[s] \in Seq(Jobs) /\ won[s] \subseteq Jobs
  BY DEF TypeOK
<1>2. /\ inserted \subseteq For(p, JobsIn(batch[s]))
      /\ inserted \cap sold = {}
      /\ \A j \in inserted, k \in sold : ~ SamePair(j, k)
      /\ \A j, k \in inserted : SamePair(j, k) => j = k
  <2> DEFINE res == VisibleResults(s)
             on  == seen[s][p].isActive
             stk == seen[s][p].stock
  <2> HIDE DEF sold, res, on, stk
  <2> QED BY <1>1, InsertedIsFair DEF res, on, stk
<1>3. /\ p \notin done[s]
      /\ Cardinality(inserted) <= remaining[p]
      /\ done' = [done EXCEPT ![s] = @ \cup {p}]
      /\ won' = [won EXCEPT ![s] = @ \cup inserted]
      /\ UNCHANGED <<orders, remaining>>
  BY DEF DecideProduct, VisibleOrders, tables
<1> HIDE DEF inserted
<1>4. inserted \subseteq Jobs /\ \A j \in inserted : JobProduct[j] = p
  BY <1>1, <1>2, JobsInBatch DEF For
<1>5. won'[s] = won[s] \cup inserted /\ done'[s] = done[s] \cup {p}
  BY <1>3 DEF TypeOK
<1>6. \A t \in Sessions \ {s} : won'[t] = won[t] /\ done'[t] = done[t]
  BY <1>3 DEF TypeOK
<1>7. \A j \in won'[s] : JobProduct[j] \in done'[s]
  BY <1>4, <1>5 DEF SalesAreCovered
<1>8. won'[s] \cap orders' = {}
  BY <1>2, <1>3, <1>5 DEF SalesAreCovered
<1>9. ASSUME NEW q \in Products PROVE Cardinality(For(q, won'[s])) <= remaining'[q]
  <2>1. CASE q = p
    <3>1. For(p, won[s]) = {} /\ For(p, won'[s]) = inserted
      BY <1>3, <1>4, <1>5 DEF For, SalesAreCovered
    <3> QED BY <1>3, <2>1, <3>1
  <2>2. CASE q # p
    <3>1. For(q, won'[s]) = For(q, won[s])
      BY <1>4, <1>5, <2>2 DEF For
    <3> QED BY <1>3, <3>1 DEF SalesAreCovered
  <2> QED BY <2>1, <2>2
<1>10. ASSUME NEW j \in won'[s], NEW k \in orders' \cup won'[s], SamePair(j, k) PROVE j = k
  <2>1. SamePair(k, j)
    BY <1>10 DEF SamePair
  <2>2. CASE j \in inserted
    BY <1>2, <1>3, <1>5, <1>10, <2>2
  <2>3. CASE j \in won[s] /\ k \in inserted
    BY <1>2, <2>1, <2>3
  <2>4. CASE j \in won[s] /\ k \in orders \cup won[s]
    BY <1>10, <2>4 DEF SalesAreCovered
  <2> QED BY <1>3, <1>5, <2>2, <2>3, <2>4
<1> HIDE DEF sold
<1>11. \A t \in Sessions \ {s} :
         /\ \A j \in won'[t] : JobProduct[j] \in done'[t]
         /\ won'[t] \cap orders' = {}
         /\ \A q \in Products : Cardinality(For(q, won'[t])) <= remaining'[q]
         /\ \A j \in won'[t], k \in orders' \cup won'[t] : SamePair(j, k) => j = k
  BY <1>3, <1>6 DEF SalesAreCovered
<1> QED BY <1>7, <1>8, <1>9, <1>10, <1>11 DEF SalesAreCovered

\* The rows a transaction sold from are its own until it ends, so what commits
\* beside another transaction takes nothing that one counts on.
LEMMA CommitIsCovered ==
  ASSUME TypeOK, LocksAreExclusive, SalesAreCovered, NEW s \in Sessions, Commit(s)
  PROVE  SalesAreCovered'
<1>1. /\ remaining' = [p \in Products |-> remaining[p] - Cardinality(For(p, won[s]))]
      /\ orders' = orders \cup won[s]
      /\ done' = [done EXCEPT ![s] = {}]
      /\ won' = [won EXCEPT ![s] = {}]
  BY DEF Commit, StockAfter, EndTransaction
<1>2. won'[s] = {} /\ \A t \in Sessions \ {s} : won'[t] = won[t] /\ done'[t] = done[t]
  BY <1>1 DEF TypeOK
<1>3. \A p \in Products : /\ remaining[p] \in Nat
                         /\ Cardinality(For(p, won[s])) \in Nat
                         /\ Cardinality(For(p, won[s])) <= remaining[p]
  BY CountFor DEF TypeOK, SalesAreCovered
<1>4. Cardinality({}) = 0 /\ \A p : For(p, {}) = {}
  BY FS_EmptySet DEF For
<1>5. /\ \A j \in won'[s] : JobProduct[j] \in done'[s]
      /\ won'[s] \cap orders' = {}
      /\ \A j \in won'[s], k \in orders' \cup won'[s] : SamePair(j, k) => j = k
  BY <1>2
<1>6. \A p \in Products : Cardinality(For(p, won'[s])) <= remaining'[p]
  <2> SUFFICES ASSUME NEW p \in Products PROVE Cardinality(For(p, won'[s])) <= remaining'[p]
    OBVIOUS
  <2>1. Cardinality(For(p, won'[s])) = 0
    BY <1>2, <1>4
  <2>2. remaining'[p] = remaining[p] - Cardinality(For(p, won[s]))
    BY <1>1
  <2> QED BY <1>3, <2>1, <2>2
<1>7. ASSUME NEW t \in Sessions \ {s}
      PROVE  /\ \A j \in won'[t] : JobProduct[j] \in done'[t]
             /\ won'[t] \cap orders' = {}
             /\ \A p \in Products : Cardinality(For(p, won'[t])) <= remaining'[p]
             /\ \A j \in won'[t], k \in orders' \cup won'[t] : SamePair(j, k) => j = k
  <2>1. done[t] \cap done[s] = {}
    BY DEF LocksAreExclusive
  <2>2. \A j \in won[t], k \in won[s] : JobProduct[j] # JobProduct[k]
    BY <2>1 DEF SalesAreCovered
  <2>3. \A j \in won'[t] : JobProduct[j] \in done'[t]
    BY <1>2 DEF SalesAreCovered
  <2>4. won'[t] \cap orders' = {}
    BY <1>1, <1>2, <2>2 DEF SalesAreCovered
  <2>5. ASSUME NEW p \in Products PROVE Cardinality(For(p, won'[t])) <= remaining'[p]
    <3>1. remaining'[p] = remaining[p] - Cardinality(For(p, won[s]))
      BY <1>1
    <3>2. CASE For(p, won[t]) = {}
      <4>1. Cardinality(For(p, won'[t])) = 0
        BY <1>2, <1>4, <3>2
      <4> QED BY <1>3, <3>1, <4>1
    <3>3. CASE For(p, won[t]) # {}
      <4>1. For(p, won[s]) = {}
        BY <2>2, <3>3 DEF For
      <4>2. Cardinality(For(p, won[s])) = 0
        BY <1>4, <4>1
      <4>3. remaining'[p] = remaining[p]
        BY <1>3, <3>1, <4>2
      <4> QED BY <1>2, <4>3 DEF SalesAreCovered
    <3> QED BY <3>2, <3>3
  <2>6. \A j \in won'[t], k \in orders' \cup won'[t] : SamePair(j, k) => j = k
    BY <1>1, <1>2, <2>2 DEF SalesAreCovered, SamePair
  <2> QED BY <2>3, <2>4, <2>5, <2>6
<1> QED BY <1>5, <1>6, <1>7 DEF SalesAreCovered

LEMMA SalesStep ==
  ASSUME TypeOK, LocksAreExclusive, SalesAreCovered, [Next]_vars
  PROVE  SalesAreCovered'
<1> USE DEF tables, session, seed
<1>1. ASSUME NEW s \in Sessions, NEW b \in Batches, Begin(s, b) \/ Refuse(s, b)
      PROVE  SalesAreCovered'
  BY <1>1 DEF SalesAreCovered, Begin, Refuse
<1>2. ASSUME NEW s \in Sessions, LockRow(s) \/ LoseReply(s) \/ Return(s) PROVE SalesAreCovered'
  BY <1>2 DEF SalesAreCovered, LockRow, LoseReply, Return
<1>3. ASSUME NEW s \in Sessions, NEW p \in Products, DecideProduct(s, p) PROVE SalesAreCovered'
  BY <1>3, DecisionIsCovered
<1>4. ASSUME NEW s \in Sessions, Commit(s) PROVE SalesAreCovered'
  BY <1>4, CommitIsCovered
<1>5. ASSUME NEW s \in Sessions, Abort(s) PROVE SalesAreCovered'
  <2>1. /\ UNCHANGED <<orders, remaining>>
        /\ won'[s] = {}
        /\ \A t \in Sessions \ {s} : won'[t] = won[t] /\ done'[t] = done[t]
    BY <1>5 DEF Abort, EndTransaction, TypeOK
  <2>2. \A p \in Products : Cardinality(For(p, won'[s])) = 0
    BY <2>1, FS_EmptySet DEF For
  <2>3. \A p \in Products : Cardinality(For(p, won'[s])) <= remaining'[p]
    BY <2>1, <2>2 DEF TypeOK
  <2> QED BY <2>1, <2>3 DEF SalesAreCovered
<1>6. CASE SeedRow \/ CommitSeed \/ AbortSeed \/ UNCHANGED vars
  BY <1>6 DEF SalesAreCovered, SeedRow, CommitSeed, AbortSeed, vars
<1> QED
  BY <1>1, <1>2, <1>3, <1>4, <1>5, <1>6 DEF Next, Work

\* Only a commit writes the stock and the orders.
LEMMA OnlyCommitSells ==
  ASSUME [Next]_vars
  PROVE  \/ UNCHANGED <<remaining, orders>>
         \/ \E s \in Sessions : Commit(s)
BY DEF Next, Work, Begin, Refuse, LockRow, DecideProduct, Abort, LoseReply, Return,
       SeedRow, CommitSeed, AbortSeed, vars, tables, session, seed

LEMMA StockStep ==
  ASSUME TypeOK, SalesAreCovered, StockConserved, [Next]_vars
  PROVE  StockConserved'
<1>1. CASE UNCHANGED <<remaining, orders>>
  BY <1>1 DEF StockConserved, Sold
<1>2. ASSUME NEW s \in Sessions, Commit(s), NEW p \in Products
      PROVE  remaining'[p] + Cardinality(For(p, orders')) = InitialStock[p]
  <2>1. orders \in SUBSET Jobs /\ won[s] \in SUBSET Jobs /\ orders \cap won[s] = {}
    BY DEF TypeOK, SalesAreCovered
  <2>2. Cardinality(For(p, orders \cup won[s]))
          = Cardinality(For(p, orders)) + Cardinality(For(p, won[s]))
    BY <2>1, CountForUnion
  <2>3. Cardinality(For(p, orders)) \in Nat /\ Cardinality(For(p, won[s])) \in Nat
    BY <2>1, CountFor
  <2>4. remaining'[p] = remaining[p] - Cardinality(For(p, won[s])) /\ orders' = orders \cup won[s]
    BY <1>2 DEF Commit, StockAfter
  <2>5. remaining[p] \in Nat /\ remaining[p] + Cardinality(For(p, orders)) = InitialStock[p]
    BY DEF TypeOK, StockConserved, Sold
  <2> QED BY <2>2, <2>3, <2>4, <2>5
<1> QED BY <1>1, <1>2, OnlyCommitSells DEF StockConserved, Sold

LEMMA PurchaseStep ==
  ASSUME SalesAreCovered, OnePurchasePerPair, [Next]_vars
  PROVE  OnePurchasePerPair'
<1>1. CASE UNCHANGED <<remaining, orders>>
  BY <1>1 DEF OnePurchasePerPair
<1>2. ASSUME NEW s \in Sessions, Commit(s) PROVE OnePurchasePerPair'
  <2>1. orders' = orders \cup won[s]
    BY <1>2 DEF Commit
  <2>2. \A j, k : SamePair(j, k) => SamePair(k, j)
    BY DEF SamePair
  <2> QED BY <2>1, <2>2 DEF OnePurchasePerPair, SalesAreCovered
<1> QED BY <1>1, <1>2, OnlyCommitSells

LEMMA SafeStep == SafeStore /\ [Next]_vars => SafeStore'
BY TypeStep, LocksStep, SalesStep, StockStep, PurchaseStep DEF SafeStore

-----------------------------------------------------------------------------
(***************************************************************************)
(* The theorems.                                                           *)
(***************************************************************************)
\* The invariant holds in every state of every behaviour of the store.
THEOREM StoreIsSafe == Spec => []SafeStore
BY SafeInitially, SafeStep, PTL DEF Spec

\* Every variable keeps its type; in particular remaining_stock never falls below
\* zero (the CHECK on products never has to refuse a commit).
THEOREM StoreIsTyped == Spec => []TypeOK
<1>1. SafeStore => TypeOK
  BY DEF SafeStore
<1> QED BY <1>1, StoreIsSafe, PTL

\* However many workers call place_order_batch at once and whatever is aborted or
\* sent again, units in stock and units sold always add up to the initial stock.
THEOREM StoreNeverOversells == Spec => []StockConserved
<1>1. SafeStore => StockConserved
  BY DEF SafeStore
<1> QED BY <1>1, StoreIsSafe, PTL

\* However many jobs ask for a pair of user and product, in one batch or in
\* concurrent ones, at most one of them ever gets an order.
THEOREM StoreSellsOnceToAPair == Spec => []OnePurchasePerPair
<1>1. SafeStore => OnePurchasePerPair
  BY DEF SafeStore
<1> QED BY <1>1, StoreIsSafe, PTL

\* No two calls ever hold the row lock of one product, and what a running call has
\* inserted for a locked row is covered by the stock committed for that row.
THEOREM LocksProtectSales == Spec => [](LocksAreExclusive /\ SalesAreCovered)
<1>1. SafeStore => LocksAreExclusive /\ SalesAreCovered
  BY DEF SafeStore
<1> QED BY <1>1, StoreIsSafe, PTL

-----------------------------------------------------------------------------
(***************************************************************************)
(* No deadlock: everybody locks rows in ascending order.                   *)
(***************************************************************************)
\* What a running call has locked precedes what it has still to lock.
LocksAscend ==
  \A s \in Sessions : phase[s] = "running" =>
    \A p \in locked[s], q \in Unlocked(s) : p < q

LEMMA AscendInitially == Init => LocksAscend
BY DEF Init, LocksAscend

LEMMA AscendStep ==
  ASSUME TypeOK, LocksAreExclusive, LocksAscend, [Next]_vars
  PROVE  LocksAscend'
<1> USE DEF tables, session, seed
<1>1. ASSUME NEW s \in Sessions, NEW b \in Batches, Begin(s, b) PROVE LocksAscend'
  <2>1. /\ phase[s] = "idle" /\ locked' = locked
        /\ \A t \in Sessions \ {s} : phase'[t] = phase[t] /\ batch'[t] = batch[t]
    BY <1>1 DEF Begin, TypeOK
  <2>2. locked[s] = {}
    BY <2>1 DEF LocksAreExclusive
  <2> QED BY <2>1, <2>2 DEF LocksAscend, Unlocked
<1>2. ASSUME NEW s \in Sessions, LockRow(s) PROVE LocksAscend'
  <2>1. NextLock(s) \in Unlocked(s) /\ NextLock(s) \in Products
    BY <1>2, NextLockIsWanted DEF LockRow
  <2>2. /\ phase[s] = "running"
        /\ locked' = [locked EXCEPT ![s] = @ \cup {NextLock(s)}]
        /\ UNCHANGED <<phase, batch>>
    BY <1>2 DEF LockRow
  <2>3. Unlocked(s) \in SUBSET Nat /\ locked[s] \in SUBSET Nat
    BY <2>2, CatalogAssumption DEF LocksAreExclusive, Unlocked, CatalogAssumption
  <2>4. PICK p \in Unlocked(s) : \A q \in Unlocked(s) : p <= q
    BY <2>1, <2>3, LeastNatural
  <2>5. \A q \in Unlocked(s) : NextLock(s) <= q
    BY <2>4 DEF NextLock
  <2>6. /\ locked'[s] = locked[s] \cup {NextLock(s)}
        /\ Unlocked(s)' = Unlocked(s) \ {NextLock(s)}
        /\ \A t \in Sessions \ {s} : locked'[t] = locked[t] /\ Unlocked(t)' = Unlocked(t)
    BY <2>2 DEF TypeOK, Unlocked
  <2>7. \A r \in locked'[s], q \in Unlocked(s)' : r < q
    <3>1. \A q \in Unlocked(s) \ {NextLock(s)} : NextLock(s) < q
      BY <2>1, <2>3, <2>5
    <3>2. \A r \in locked[s], q \in Unlocked(s) : r < q
      BY <2>2 DEF LocksAscend
    <3> QED BY <2>6, <3>1, <3>2
  <2> QED BY <2>2, <2>6, <2>7 DEF LocksAscend
<1>3. ASSUME NEW s \in Sessions,
             \/ \E b \in Batches : Refuse(s, b)
             \/ Commit(s) \/ Abort(s) \/ LoseReply(s) \/ Return(s)
      PROVE  LocksAscend'
  <2>1. /\ phase'[s] # "running"
        /\ \A t \in Sessions \ {s} : /\ phase'[t] = phase[t] /\ batch'[t] = batch[t]
                                     /\ locked'[t] = locked[t]
    BY <1>3 DEF Refuse, Commit, Abort, LoseReply, Return, EndTransaction, TypeOK
  <2> QED BY <2>1 DEF LocksAscend, Unlocked
<1>4. CASE UNCHANGED <<phase, batch, locked>>
  BY <1>4 DEF LocksAscend, Unlocked
<1> QED
  BY <1>1, <1>2, <1>3, <1>4
  DEF Next, Work, DecideProduct, SeedRow, CommitSeed, AbortSeed, vars

\* An actor that waits for a row holds only rows before it.
LEMMA WaitersHoldLess ==
  ASSUME TypeOK, LocksAreExclusive, LocksAscend, NEW a \in Actors, NEW w \in Wants(a)
  PROVE  w \in Products /\ \A p \in Holds(a) : p < w
<1>1. CASE a = "seed"
  <2>1. /\ seedRows \in 1..(Len(SeedOrder) - 1) /\ w = SeedOrder[seedRows + 1]
        /\ Holds(a) = {SeedOrder[i] : i \in 1..seedRows}
    BY <1>1 DEF Wants, Holds, NextSeedRow, SeedLocks
  <2>2. SeedOrder \in Seq(Products) /\ DOMAIN SeedOrder = 1..Len(SeedOrder)
        /\ Len(SeedOrder) \in Nat
    BY StoreAssumption, LenProperties DEF StoreAssumption
  <2>3. seedRows + 1 \in DOMAIN SeedOrder
        /\ \A i \in 1..seedRows : i \in DOMAIN SeedOrder /\ i < seedRows + 1
    BY <2>1, <2>2
  <2>4. \A i \in 1..seedRows : SeedOrder[i] < SeedOrder[seedRows + 1]
    BY <2>3, StoreAssumption DEF StoreAssumption
  <2> QED BY <2>1, <2>2, <2>3, <2>4
<1>2. CASE a # "seed"
  <2>1. /\ a \in Sessions /\ phase[a] = "running" /\ Unlocked(a) # {}
        /\ w = NextLock(a) /\ Holds(a) = locked[a]
    BY <1>2 DEF Actors, Wants, Holds
  <2>2. w \in Unlocked(a) /\ w \in Products
    BY <2>1, NextLockIsWanted
  <2> QED BY <2>1, <2>2 DEF LocksAscend
<1> QED BY <1>1, <1>2

\* In a cycle of waiters, the one waiting for the greatest row would wait for somebody
\* who waits for a greater one.
LEMMA NobodyWaitsInACycle ==
  ASSUME TypeOK, LocksAreExclusive, LocksAscend
  PROVE  NoWaitCycle
<1> SUFFICES ASSUME NEW A \in (SUBSET Actors) \ {{}},
                    \A a \in A : \E b \in A : Wants(a) \cap Holds(b) # {}
             PROVE  FALSE
  BY DEF NoWaitCycle
<1> DEFINE wanted == UNION {Wants(a) : a \in A}
<1>1. wanted \in SUBSET Products /\ wanted # {}
  <2>1. \A a \in A : Wants(a) \subseteq Products
    BY WaitersHoldLess
  <2>2. PICK a \in A : Wants(a) # {}
    OBVIOUS
  <2> QED BY <2>1, <2>2
<1>2. wanted \in SUBSET Nat /\ IsFiniteSet(wanted)
  BY <1>1, CatalogAssumption, FS_Subset DEF CatalogAssumption
<1>3. PICK w \in wanted : \A v \in wanted : v <= w
  BY <1>1, <1>2, GreatestNatural
<1>4. PICK a \in A : w \in Wants(a)
  BY <1>3
<1>5. PICK b \in A : Wants(a) \cap Holds(b) # {}
  OBVIOUS
<1>6. Wants(a) = {w}
  BY <1>4 DEF Wants
<1>7. w \in Holds(b)
  BY <1>5, <1>6
<1>8. PICK v \in Wants(b) : v \in wanted
  BY <1>5
<1>9. w < v
  BY <1>7, <1>8, WaitersHoldLess
<1>10. w \in Nat /\ v \in Nat /\ v <= w
  BY <1>2, <1>3, <1>8
<1> HIDE DEF wanted
<1> QED BY <1>9, <1>10

\* No set of calls and seeds ever waits for rows held inside that set, whatever products
\* their batches name and in whatever order.
THEOREM StoreNeverDeadlocks == Spec => []NoWaitCycle
<1>1. SafeStore /\ LocksAscend /\ [Next]_vars => LocksAscend'
  BY AscendStep DEF SafeStore
<1>2. SafeStore /\ LocksAscend => NoWaitCycle
  BY NobodyWaitsInACycle DEF SafeStore
<1> QED BY <1>1, <1>2, AscendInitially, StoreIsSafe, PTL DEF Spec

-----------------------------------------------------------------------------
(***************************************************************************)
(* Proofs about what a call of place_order_batch reads and answers: the    *)
(* locked rows stay as they were read, the stock rule never asks for more  *)
(* than there is, and durable results are final and agree with the orders. *)
(***************************************************************************)

-----------------------------------------------------------------------------
(***************************************************************************)
(* The inductive invariant.                                                *)
(***************************************************************************)
\* What a transaction read when it locked a row is what the row still holds, and no
\* seed has an uncommitted new version of that row.
RowsAreCurrent ==
  \A s \in Sessions : \A p \in locked[s] :
    /\ seen[s][p] = [stock |-> remaining[p], isActive |-> active[p]]
    /\ p \notin SeedLocks

\* A session with nothing to answer keeps no verdict.  A running transaction has
\* decided only jobs of the products it is done with, none of which had a durable
\* result, and has inserted the orders of those it granted, all of active sales.
VerdictsAreNew ==
  \A s \in Sessions :
    /\ phase[s] \in {"idle", "failed"} => verdict[s] = NoVerdict
    /\ phase[s] = "running" => \A j \in Jobs :
         /\ verdict[s][j] # NoResult => JobProduct[j] \in done[s] /\ results[j] = NoResult
         /\ j \in won[s] <=> verdict[s][j] = "SUCCESS"
    /\ \A j \in won[s] : active[JobProduct[j]]

\* When the body of a product has run, every job of the batch for it has a result.
AnswersAreComplete ==
  \A s \in Sessions : phase[s] = "running" => \A j \in JobsIn(batch[s]) :
    JobProduct[j] \in done[s] => verdict[s][j] # NoResult \/ results[j] # NoResult

DurableStore ==
  RowsAreCurrent /\ VerdictsAreNew /\ AnswersAreComplete
  /\ VerdictsMatchOrders /\ RepliesAreDurable

LEMMA DurableInitially == Init => DurableStore
<1> SUFFICES ASSUME Init PROVE DurableStore
  OBVIOUS
<1>1. RowsAreCurrent
  BY DEF Init, RowsAreCurrent
<1>2. VerdictsAreNew
  BY DEF Init, VerdictsAreNew
<1>3. VerdictsMatchOrders
  BY DEF Init, VerdictsMatchOrders, NoVerdict, NoResult
<1>4. AnswersAreComplete
  BY DEF Init, AnswersAreComplete
<1>5. RepliesAreDurable
  BY DEF Init, RepliesAreDurable
<1> QED BY <1>1, <1>2, <1>3, <1>4, <1>5 DEF DurableStore

\* A product is locked by one transaction at most, so a row that another one is
\* about to write or lock is not among these.
LEMMA RowsStep ==
  ASSUME SafeStore, RowsAreCurrent, [Next]_vars
  PROVE  RowsAreCurrent'
<1> USE DEF tables, session, seed
<1>0. TypeOK /\ LocksAreExclusive /\ SalesAreCovered
  BY DEF SafeStore
<1>1. ASSUME NEW s \in Sessions, LockRow(s) PROVE RowsAreCurrent'
  <2>1. NextLock(s) \in Products /\ NextLock(s) \in Unlocked(s)
    BY <1>0, <1>1, NextLockIsWanted DEF LockRow
  <2>2. /\ NextLock(s) \notin SeedLocks
        /\ locked' = [locked EXCEPT ![s] = @ \cup {NextLock(s)}]
        /\ seen' = [seen EXCEPT ![s][NextLock(s)] =
                      [stock |-> remaining[NextLock(s)], isActive |-> active[NextLock(s)]]]
        /\ UNCHANGED <<remaining, active, seedRows>>
    BY <1>1 DEF LockRow, FreeFor
  <2>3. \A t \in Sessions \ {s} : locked'[t] = locked[t] /\ seen'[t] = seen[t]
    BY <1>0, <2>2 DEF TypeOK
  <2>4. /\ locked'[s] = locked[s] \cup {NextLock(s)}
        /\ seen'[s] = [seen[s] EXCEPT ![NextLock(s)] =
                [stock |-> remaining[NextLock(s)], isActive |-> active[NextLock(s)]]]
    BY <1>0, <2>2 DEF TypeOK
  <2>5. seen[s] \in [Products -> [stock : Nat, isActive : BOOLEAN]]
    BY <1>0 DEF TypeOK
  <2>6. SeedLocks' = SeedLocks
    BY <2>2 DEF SeedLocks
  <2>7. \A p \in locked'[s] : /\ seen'[s][p] = [stock |-> remaining[p], isActive |-> active[p]]
                              /\ p \notin SeedLocks
    <3>1. \A p \in locked[s] : p \in Products /\ seen'[s][p] = seen[s][p]
      BY <1>0, <2>1, <2>4, <2>5 DEF LocksAreExclusive, Unlocked
    <3>2. seen'[s][NextLock(s)] =
            [stock |-> remaining[NextLock(s)], isActive |-> active[NextLock(s)]]
      BY <2>1, <2>4, <2>5
    <3> QED BY <2>2, <2>4, <3>1, <3>2 DEF RowsAreCurrent
  <2> QED BY <2>2, <2>3, <2>6, <2>7 DEF RowsAreCurrent
<1>2. ASSUME NEW s \in Sessions, Commit(s) PROVE RowsAreCurrent'
  <2>1. /\ remaining' = [p \in Products |-> remaining[p] - Cardinality(For(p, won[s]))]
        /\ locked' = [locked EXCEPT ![s] = {}]
        /\ seen' = [seen EXCEPT ![s] = Unread]
        /\ UNCHANGED <<active, seedRows>>
    BY <1>2 DEF Commit, StockAfter, EndTransaction
  <2>2. /\ locked'[s] = {}
        /\ \A t \in Sessions \ {s} : locked'[t] = locked[t] /\ seen'[t] = seen[t]
    BY <1>0, <2>1 DEF TypeOK
  <2>3. ASSUME NEW t \in Sessions \ {s}, NEW p \in locked[t] PROVE remaining'[p] = remaining[p]
    <3>1. p \in Products /\ p \notin done[s]
      BY <1>0 DEF LocksAreExclusive
    <3>2. For(p, won[s]) = {}
      BY <1>0, <3>1 DEF For, SalesAreCovered
    <3>3. remaining'[p] = remaining[p] - 0
      BY <2>1, <3>1, <3>2, FS_EmptySet
    <3> QED BY <1>0, <3>1, <3>3 DEF TypeOK
  <2>4. SeedLocks' = SeedLocks
    BY <2>1 DEF SeedLocks
  <2> QED BY <2>1, <2>2, <2>3, <2>4 DEF RowsAreCurrent
<1>3. ASSUME NEW s \in Sessions, Abort(s) PROVE RowsAreCurrent'
  <2>1. SeedLocks' = SeedLocks
    BY <1>3 DEF Abort, SeedLocks
  <2> QED BY <1>0, <1>3, <2>1 DEF Abort, EndTransaction, TypeOK, RowsAreCurrent
<1>4. ASSUME UNCHANGED <<remaining, active, locked, seen, seedRows>> PROVE RowsAreCurrent'
  <2>1. SeedLocks' = SeedLocks
    BY <1>4 DEF SeedLocks
  <2> QED BY <1>4, <2>1 DEF RowsAreCurrent
<1>5. CASE SeedRow
  <2>1. SeedLocks' \subseteq SeedLocks \cup {NextSeedRow}
    BY <1>0, <1>5, LenProperties, StoreAssumption
    DEF SeedRow, SeedLocks, NextSeedRow, TypeOK, StoreAssumption
  <2> QED BY <1>5, <2>1 DEF SeedRow, RowsAreCurrent
<1>6. CASE CommitSeed
  <2>1. SeedLocks' = {}
    BY <1>6 DEF CommitSeed, SeedLocks
  <2>2. \A s \in Sessions : \A p \in locked[s] : active'[p] = active[p]
    BY <1>0, <1>6 DEF CommitSeed, RowsAreCurrent, LocksAreExclusive
  <2>3. UNCHANGED <<remaining, locked, seen>>
    BY <1>6 DEF CommitSeed, tables, session
  <2> QED BY <2>1, <2>2, <2>3 DEF RowsAreCurrent
<1>7. CASE AbortSeed
  <2>1. SeedLocks' = {}
    BY <1>7 DEF AbortSeed, SeedLocks
  <2> QED BY <1>7, <2>1 DEF AbortSeed, RowsAreCurrent
<1> QED
  BY <1>1, <1>2, <1>3, <1>4, <1>5, <1>6, <1>7
  DEF Next, Work, Begin, Refuse, DecideProduct, LoseReply, Return, vars

LEMMA SeenIsCurrent ==
  ASSUME RowsAreCurrent, NEW s \in Sessions, NEW p \in locked[s]
  PROVE  seen[s][p].stock = remaining[p] /\ seen[s][p].isActive = active[p]
<1>1. seen[s][p] = [stock |-> remaining[p], isActive |-> active[p]]
  BY DEF RowsAreCurrent
<1>2. \A a, b : [stock |-> a, isActive |-> b].stock = a /\ [stock |-> a, isActive |-> b].isActive = b
  OBVIOUS
<1> QED BY <1>1, <1>2

\* What the loop body decides for one product: exactly the pending jobs, which had
\* no result anywhere, and SUCCESS for exactly the orders it inserts.
LEMMA DecisionIsNew ==
  ASSUME SafeStore, RowsAreCurrent, VerdictsAreNew,
         NEW s \in Sessions, NEW p \in Products, DecideProduct(s, p), NEW j \in Jobs
  PROVE  /\ verdict'[s][j] # verdict[s][j] =>
               /\ JobProduct[j] = p
               /\ verdict[s][j] = NoResult /\ results[j] = NoResult
               /\ verdict'[s][j] # NoResult
         /\ j \in JobsIn(batch[s]) /\ JobProduct[j] = p =>
               verdict'[s][j] # NoResult \/ results[j] # NoResult
         /\ j \in won'[s] <=> verdict'[s][j] = "SUCCESS"
         /\ j \in won'[s] \ won[s] => active[JobProduct[j]]
<1> DEFINE pending  == PendingJobs(batch[s], p, VisibleResults(s))
           sold     == VisibleOrders(s)
           on       == seen[s][p].isActive
           eligible == EligibleJobs(batch[s], pending, sold, on)
           inserted == InsertedOrders(batch[s], eligible, sold, seen[s][p].stock)
           given(k) == Outcome(batch[s], pending, inserted, sold, on, k)
<1>1. /\ phase[s] = "running" /\ p \in locked[s]
      /\ won' = [won EXCEPT ![s] = @ \cup inserted]
      /\ verdict' = [verdict EXCEPT ![s] =
                       [k \in Jobs |-> IF k \in pending THEN given(k) ELSE @[k]]]
  BY DEF DecideProduct
<1>2. inserted \subseteq eligible /\ eligible \subseteq pending /\ (eligible # {} => on)
  <2>1. inserted \subseteq eligible
    <3> HIDE DEF eligible, sold
    <3> QED BY DEF InsertedOrders
  <2>2. eligible \subseteq pending /\ (eligible # {} => on)
    <3> HIDE DEF pending, sold, on
    <3> QED BY DEF EligibleJobs
  <2> QED BY <2>1, <2>2
<1>3. on = active[p]
  BY <1>1, SeenIsCurrent
<1>4. j \in pending => /\ JobProduct[j] = p
                       /\ verdict[s][j] = NoResult /\ results[j] = NoResult
  BY DEF PendingJobs, For, VisibleResults
<1>5. j \in JobsIn(batch[s]) /\ JobProduct[j] = p /\ j \notin pending =>
        verdict[s][j] # NoResult \/ results[j] # NoResult
  BY DEF PendingJobs, For, VisibleResults
<1>6. given(j) \in Statuses
  BY OutcomeIsStatus
<1>7. given(j) = "SUCCESS" <=> j \in inserted
  <2> HIDE DEF pending, sold, on, eligible, inserted
  <2> QED BY DEF Outcome
<1> HIDE DEF pending, sold, on, eligible, inserted, given
<1>8. won'[s] = won[s] \cup inserted /\ TypeOK
  BY <1>1 DEF SafeStore, TypeOK
<1>9. verdict'[s][j] = IF j \in pending THEN given(j) ELSE verdict[s][j]
  BY <1>1, <1>8 DEF TypeOK
<1>10. given(j) # NoResult
  BY <1>6 DEF Statuses, NoResult
<1>11. j \in won[s] <=> verdict[s][j] = "SUCCESS"
  BY <1>1 DEF VerdictsAreNew
<1>12. "SUCCESS" # NoResult
  BY DEF NoResult
<1>13. j \in won'[s] <=> verdict'[s][j] = "SUCCESS"
  <2>1. CASE j \in pending
    BY <1>4, <1>7, <1>8, <1>9, <1>11, <1>12, <2>1
  <2>2. CASE j \notin pending
    BY <1>2, <1>8, <1>9, <1>11, <2>2
  <2> QED BY <2>1, <2>2
<1>14. j \in won'[s] \ won[s] => active[JobProduct[j]]
  BY <1>2, <1>3, <1>4, <1>8
<1> QED BY <1>4, <1>5, <1>9, <1>10, <1>13, <1>14

\* A commit adds results and replaces none.
LEMMA CommitAddsResults ==
  ASSUME VerdictsAreNew, NEW s \in Sessions, Commit(s), NEW j \in Jobs
  PROVE  /\ results'[j] = IF verdict[s][j] # NoResult THEN verdict[s][j] ELSE results[j]
         /\ results[j] # NoResult => results'[j] = results[j]
BY DEF Commit, VisibleResults, VerdictsAreNew

LEMMA VerdictsStep ==
  ASSUME SafeStore, RowsAreCurrent, VerdictsAreNew, [Next]_vars
  PROVE  VerdictsAreNew'
<1> USE DEF tables, session, seed
<1>0. TypeOK /\ LocksAreExclusive /\ SalesAreCovered
  BY DEF SafeStore
<1>1. ASSUME NEW s \in Sessions, NEW b \in Batches, Begin(s, b) PROVE VerdictsAreNew'
  <2>1. won[s] = {} /\ verdict[s] = NoVerdict
    BY <1>0, <1>1 DEF Begin, LocksAreExclusive, VerdictsAreNew
  <2>2. \A j \in Jobs : verdict[s][j] = NoResult
    BY <2>1 DEF NoVerdict
  <2>3. "SUCCESS" # NoResult
    BY DEF NoResult
  <2>4. phase'[s] = "running" /\ \A t \in Sessions \ {s} : phase'[t] = phase[t]
    BY <1>0, <1>1 DEF Begin, TypeOK
  <2>5. UNCHANGED <<verdict, results, won, active, done>>
    BY <1>1 DEF Begin
  <2> QED BY <2>1, <2>2, <2>3, <2>4, <2>5 DEF VerdictsAreNew
<1>2. ASSUME NEW s \in Sessions, NEW b \in Batches, Refuse(s, b) PROVE VerdictsAreNew'
  BY <1>0, <1>2 DEF Refuse, VerdictsAreNew, TypeOK
<1>3. ASSUME NEW s \in Sessions, LockRow(s) PROVE VerdictsAreNew'
  BY <1>3 DEF LockRow, VerdictsAreNew
<1>4. ASSUME NEW s \in Sessions, NEW p \in Products, DecideProduct(s, p) PROVE VerdictsAreNew'
  <2>1. /\ phase[s] = "running"
        /\ done' = [done EXCEPT ![s] = @ \cup {p}]
        /\ UNCHANGED <<results, active, phase>>
    BY <1>4 DEF DecideProduct
  <2>2. \A t \in Sessions \ {s} : verdict'[t] = verdict[t] /\ won'[t] = won[t]
                                  /\ done'[t] = done[t]
    BY <1>0, <1>4 DEF DecideProduct, TypeOK
  <2>3. done'[s] = done[s] \cup {p}
    BY <1>0, <2>1 DEF TypeOK
  <2>4. won'[s] \subseteq Jobs
    BY <1>0, <1>4, DecisionIsTyped
  <2>5. \A j \in Jobs :
          /\ verdict'[s][j] # NoResult => JobProduct[j] \in done'[s] /\ results'[j] = NoResult
          /\ j \in won'[s] <=> verdict'[s][j] = "SUCCESS"
          /\ j \in won'[s] => active'[JobProduct[j]]
    BY <1>4, <2>1, <2>3, DecisionIsNew DEF VerdictsAreNew
  <2> QED BY <2>1, <2>2, <2>4, <2>5 DEF VerdictsAreNew
<1>5. ASSUME NEW s \in Sessions, Commit(s) PROVE VerdictsAreNew'
  <2>1. /\ phase[s] = "running" /\ phase'[s] = "replied" /\ won'[s] = {}
        /\ active' = active
        /\ \A t \in Sessions \ {s} : /\ phase'[t] = phase[t] /\ verdict'[t] = verdict[t]
                                     /\ won'[t] = won[t] /\ done'[t] = done[t]
    BY <1>0, <1>5 DEF Commit, EndTransaction, TypeOK
  <2>2. ASSUME NEW t \in Sessions \ {s}, phase[t] = "running",
               NEW j \in Jobs, verdict[t][j] # NoResult
        PROVE  results'[j] = NoResult
    <3>1. JobProduct[j] \in done[t] /\ results[j] = NoResult
      BY <2>2 DEF VerdictsAreNew
    <3>2. JobProduct[j] \notin done[s]
      BY <1>0, <3>1 DEF LocksAreExclusive
    <3>3. verdict[s][j] = NoResult
      BY <2>1, <3>2 DEF VerdictsAreNew
    <3> QED BY <1>5, <3>1, <3>3, CommitAddsResults
  <2> QED BY <2>1, <2>2 DEF VerdictsAreNew
<1>6. ASSUME NEW s \in Sessions, Abort(s) PROVE VerdictsAreNew'
  <2>1. /\ phase'[s] = "failed" /\ won'[s] = {} /\ verdict'[s] = NoVerdict
        /\ \A t \in Sessions \ {s} : /\ phase'[t] = phase[t] /\ verdict'[t] = verdict[t]
                                     /\ won'[t] = won[t] /\ done'[t] = done[t]
        /\ UNCHANGED <<active, results>>
    BY <1>0, <1>6 DEF Abort, EndTransaction, TypeOK
  <2> QED BY <2>1 DEF VerdictsAreNew
<1>7. ASSUME NEW s \in Sessions, LoseReply(s) \/ Return(s) PROVE VerdictsAreNew'
  <2>1. /\ phase'[s] \in {"failed", "idle"} /\ verdict'[s] = NoVerdict
        /\ \A t \in Sessions \ {s} : phase'[t] = phase[t] /\ verdict'[t] = verdict[t]
        /\ UNCHANGED <<active, results, won, done>>
    BY <1>0, <1>7 DEF LoseReply, Return, TypeOK
  <2> QED BY <2>1 DEF VerdictsAreNew
<1>8. CASE SeedRow \/ AbortSeed \/ UNCHANGED vars
  BY <1>8 DEF SeedRow, AbortSeed, vars, VerdictsAreNew
<1>9. CASE CommitSeed
  <2>1. \A s \in Sessions : \A p \in locked[s] : active'[p] = active[p]
    BY <1>0, <1>9 DEF CommitSeed, RowsAreCurrent, LocksAreExclusive
  <2>2. \A s \in Sessions : \A j \in won[s] : active'[JobProduct[j]]
    BY <1>0, <2>1 DEF LocksAreExclusive, SalesAreCovered, VerdictsAreNew
  <2> QED BY <1>9, <2>2 DEF CommitSeed, VerdictsAreNew
<1> QED
  BY <1>1, <1>2, <1>3, <1>4, <1>5, <1>6, <1>7, <1>8, <1>9 DEF Next, Work

LEMMA CompleteStep ==
  ASSUME SafeStore, RowsAreCurrent, VerdictsAreNew, AnswersAreComplete, [Next]_vars
  PROVE  AnswersAreComplete'
<1> USE DEF tables, session, seed
<1>0. /\ TypeOK /\ LocksAreExclusive
      /\ \A s \in Sessions : JobsIn(batch[s]) \subseteq Jobs
  BY JobsInBatch DEF SafeStore, TypeOK
<1>1. ASSUME NEW s \in Sessions, NEW b \in Batches, Begin(s, b) PROVE AnswersAreComplete'
  <2>1. /\ phase[s] = "idle" /\ phase' = [phase EXCEPT ![s] = "running"]
        /\ batch' = [batch EXCEPT ![s] = b]
        /\ UNCHANGED <<done, verdict, results>>
    BY <1>1 DEF Begin
  <2>2. done'[s] = {}
    BY <1>0, <2>1 DEF LocksAreExclusive
  <2>3. \A t \in Sessions \ {s} : phase'[t] = phase[t] /\ batch'[t] = batch[t]
    BY <1>0, <2>1 DEF TypeOK
  <2> QED BY <2>1, <2>2, <2>3 DEF AnswersAreComplete
<1>2. ASSUME NEW s \in Sessions, NEW b \in Batches, Refuse(s, b) PROVE AnswersAreComplete'
  BY <1>0, <1>2 DEF Refuse, TypeOK, AnswersAreComplete
<1>3. ASSUME NEW s \in Sessions, LockRow(s) PROVE AnswersAreComplete'
  BY <1>3 DEF LockRow, AnswersAreComplete
<1>4. ASSUME NEW s \in Sessions, NEW p \in Products, DecideProduct(s, p) PROVE AnswersAreComplete'
  <2>1. done'[s] = done[s] \cup {p} /\ UNCHANGED <<results, phase, batch>>
    BY <1>0, <1>4 DEF DecideProduct, TypeOK
  <2>2. \A t \in Sessions \ {s} : verdict'[t] = verdict[t] /\ done'[t] = done[t]
    BY <1>0, <1>4 DEF DecideProduct, TypeOK
  <2>3. phase[s] = "running"
    BY <1>4 DEF DecideProduct
  <2>4. \A j \in JobsIn(batch[s]) :
          JobProduct[j] \in done'[s] => verdict'[s][j] # NoResult \/ results[j] # NoResult
    BY <1>0, <1>4, <2>1, <2>3, DecisionIsNew DEF AnswersAreComplete
  <2> QED BY <2>1, <2>2, <2>4 DEF AnswersAreComplete
<1>5. ASSUME NEW s \in Sessions, Commit(s) PROVE AnswersAreComplete'
  <2>1. /\ phase'[s] = "replied" /\ batch' = batch
        /\ \A t \in Sessions \ {s} : /\ phase'[t] = phase[t] /\ verdict'[t] = verdict[t]
                                     /\ done'[t] = done[t]
    BY <1>0, <1>5 DEF Commit, EndTransaction, TypeOK
  <2>2. \A j \in Jobs : results[j] # NoResult => results'[j] # NoResult
    BY <1>5, CommitAddsResults
  <2> QED BY <1>0, <2>1, <2>2 DEF AnswersAreComplete
<1>6. ASSUME NEW s \in Sessions, Abort(s) \/ LoseReply(s) \/ Return(s) PROVE AnswersAreComplete'
  <2>1. /\ phase'[s] \in {"failed", "idle"} /\ results' = results
        /\ \A t \in Sessions \ {s} : /\ phase'[t] = phase[t] /\ verdict'[t] = verdict[t]
                                     /\ done'[t] = done[t] /\ batch'[t] = batch[t]
    BY <1>0, <1>6 DEF Abort, LoseReply, Return, EndTransaction, TypeOK
  <2> QED BY <2>1 DEF AnswersAreComplete
<1>7. CASE SeedRow \/ CommitSeed \/ AbortSeed \/ UNCHANGED vars
  BY <1>7 DEF SeedRow, CommitSeed, AbortSeed, vars, AnswersAreComplete
<1> QED
  BY <1>1, <1>2, <1>3, <1>4, <1>5, <1>6, <1>7 DEF Next, Work

\* Only a commit writes results, orders and the seed's flags stay out of its way.
LEMMA MatchStep ==
  ASSUME SafeStore, VerdictsAreNew, VerdictsMatchOrders, [Next]_vars
  PROVE  VerdictsMatchOrders'
<1>1. ASSUME NEW s \in Sessions, Commit(s), NEW j \in Jobs
      PROVE  j \in orders' <=> results'[j] = "SUCCESS"
  <2>1. orders' = orders \cup won[s] /\ phase[s] = "running"
    BY <1>1 DEF Commit
  <2>2. /\ verdict[s][j] # NoResult => results[j] = NoResult
        /\ j \in won[s] <=> verdict[s][j] = "SUCCESS"
    BY <2>1 DEF VerdictsAreNew
  <2>3. j \in orders <=> results[j] = "SUCCESS"
    BY DEF VerdictsMatchOrders
  <2>4. results'[j] = IF verdict[s][j] # NoResult THEN verdict[s][j] ELSE results[j]
    BY <1>1, CommitAddsResults
  <2> QED BY <2>1, <2>2, <2>3, <2>4 DEF NoResult
<1>2. CASE UNCHANGED <<orders, results>>
  BY <1>2 DEF VerdictsMatchOrders
<1>3. UNCHANGED <<orders, results>> \/ \E s \in Sessions : Commit(s)
  BY DEF Next, Work, Begin, Refuse, LockRow, DecideProduct, Abort, LoseReply, Return,
         SeedRow, CommitSeed, AbortSeed, vars, tables, session, seed
<1> QED BY <1>1, <1>2, <1>3 DEF VerdictsMatchOrders

LEMMA RepliesStep ==
  ASSUME SafeStore, VerdictsAreNew, AnswersAreComplete, RepliesAreDurable, [Next]_vars
  PROVE  RepliesAreDurable'
<1> USE DEF tables, session, seed
<1>0. /\ TypeOK /\ \A s \in Sessions : JobsIn(batch[s]) \subseteq Jobs
  BY JobsInBatch DEF SafeStore, TypeOK
<1>1. ASSUME NEW s \in Sessions, Commit(s) PROVE RepliesAreDurable'
  <2>1. /\ batch' = batch /\ verdict'[s] = Reply(s) /\ results' = VisibleResults(s)
        /\ phase[s] = "running" /\ done[s] = ProductsIn(batch[s])
        /\ \A t \in Sessions \ {s} : phase'[t] = phase[t] /\ verdict'[t] = verdict[t]
    BY <1>0, <1>1 DEF Commit, TypeOK
  <2>2. ASSUME NEW j \in JobsIn(batch[s])
        PROVE  verdict'[s][j] = results'[j] /\ results'[j] # NoResult
    <3>1. j \in Jobs /\ JobProduct[j] \in done[s]
      BY <1>0, <2>1 DEF ProductsIn
    <3>2. verdict[s][j] # NoResult \/ results[j] # NoResult
      BY <2>1, <3>1 DEF AnswersAreComplete
    <3>3. verdict'[s][j] = VisibleResults(s)[j]
      BY <2>1, <3>1 DEF Reply
    <3> QED BY <2>1, <3>1, <3>2, <3>3 DEF VisibleResults
  <2>3. ASSUME NEW t \in Sessions \ {s}, phase[t] = "replied", NEW j \in JobsIn(batch[t])
        PROVE  verdict'[t][j] = results'[j] /\ results'[j] # NoResult
    <3>1. j \in Jobs /\ verdict[t][j] = results[j] /\ results[j] # NoResult
      BY <1>0, <2>3 DEF RepliesAreDurable
    <3> QED BY <1>1, <2>1, <3>1, CommitAddsResults
  <2> QED BY <2>1, <2>2, <2>3 DEF RepliesAreDurable
<1>2. ASSUME NEW s \in Sessions,
             \/ \E b \in Batches : Begin(s, b) \/ Refuse(s, b)
             \/ \E p \in Products : DecideProduct(s, p)
             \/ Abort(s) \/ LoseReply(s) \/ Return(s)
      PROVE  RepliesAreDurable'
  <2>1. /\ phase'[s] # "replied" /\ results' = results
        /\ \A t \in Sessions \ {s} : /\ phase'[t] = phase[t] /\ verdict'[t] = verdict[t]
                                     /\ batch'[t] = batch[t]
    BY <1>0, <1>2
    DEF Begin, Refuse, DecideProduct, Abort, LoseReply, Return, EndTransaction, TypeOK
  <2> QED BY <2>1 DEF RepliesAreDurable
<1>3. CASE UNCHANGED <<phase, batch, verdict, results>>
  BY <1>3 DEF RepliesAreDurable
<1> QED
  BY <1>1, <1>2, <1>3 DEF Next, Work, LockRow, SeedRow, CommitSeed, AbortSeed, vars

LEMMA DurableStep == SafeStore /\ DurableStore /\ [Next]_vars => DurableStore'
BY RowsStep, VerdictsStep, CompleteStep, MatchStep, RepliesStep DEF DurableStore

-----------------------------------------------------------------------------
(***************************************************************************)
(* The theorems.                                                           *)
(***************************************************************************)
\* The invariant holds in every state of every behaviour of the store.
THEOREM StoreIsDurable == Spec => [](SafeStore /\ DurableStore)
BY SafeInitially, SafeStep, DurableInitially, DurableStep, PTL DEF Spec

\* A job has an order exactly when its durable result is SUCCESS, whatever calls of
\* place_order_batch run at once, are aborted or are repeated.
THEOREM VerdictsAlwaysMatchOrders == Spec => []VerdictsMatchOrders
<1>1. DurableStore => VerdictsMatchOrders
  BY DEF DurableStore
<1> QED BY <1>1, StoreIsDurable, PTL

\* A committed call answers every job of its batch, also those decided by earlier
\* calls, and with the durable result.
THEOREM RepliesAreAlwaysDurable == Spec => []RepliesAreDurable
<1>1. DurableStore => RepliesAreDurable
  BY DEF DurableStore
<1> QED BY <1>1, StoreIsDurable, PTL

\* No step ever changes or removes a durable result.
THEOREM ResultsStayFinal == Spec => ResultsAreFinal
<1>1. SafeStore /\ DurableStore /\ [Next]_vars
        => [\A j \in Jobs : results[j] # NoResult => results'[j] = results[j]]_vars
  <2> SUFFICES ASSUME DurableStore, Next, NEW j \in Jobs, results[j] # NoResult
               PROVE  results'[j] = results[j]
    OBVIOUS
  <2>1. ASSUME NEW s \in Sessions, Commit(s) PROVE results'[j] = results[j]
    BY <2>1, CommitAddsResults DEF DurableStore
  <2> QED
    BY <2>1 DEF Next, Work, Begin, Refuse, LockRow, DecideProduct, Abort, LoseReply, Return,
                SeedRow, CommitSeed, AbortSeed, tables, session, seed
<1> QED BY <1>1, StoreIsDurable, PTL DEF Spec, ResultsAreFinal

\* An order is committed only while the sale of its product is on: the row lock keeps
\* a seed that turns the flag off from committing between the decision and the commit.
THEOREM SalesAlwaysActive == Spec => SalesOnlyWhileActive
<1>1. SafeStore /\ DurableStore /\ [Next]_vars
        => [\A j \in orders' \ orders : active[JobProduct[j]]]_vars
  <2> SUFFICES ASSUME DurableStore, Next, NEW j \in orders' \ orders
               PROVE  active[JobProduct[j]]
    OBVIOUS
  <2>1. PICK s \in Sessions : Commit(s)
    BY OnlyCommitSells
  <2> QED BY <2>1 DEF Commit, DurableStore, VerdictsAreNew
<1> QED BY <1>1, StoreIsDurable, PTL DEF Spec, SalesOnlyWhileActive

\* Whenever the loop body of a locked product runs, the orders it inserts are covered
\* by the committed stock: CHECK (remaining_stock >= 0) never refuses the update.
CheckHolds ==
  \A s \in Sessions : \A p \in locked[s] :
    LET sold     == VisibleOrders(s)
        eligible == EligibleJobs(batch[s], PendingJobs(batch[s], p, VisibleResults(s)),
                                 sold, seen[s][p].isActive)
    IN  Cardinality(InsertedOrders(batch[s], eligible, sold, seen[s][p].stock)) <= remaining[p]

THEOREM CheckNeverRefuses == Spec => []CheckHolds
<1>1. SafeStore /\ DurableStore => CheckHolds
  <2> SUFFICES ASSUME SafeStore, DurableStore, NEW s \in Sessions, NEW p \in locked[s],
                      NEW eligible,
                      eligible = EligibleJobs(batch[s],
                                              PendingJobs(batch[s], p, VisibleResults(s)),
                                              VisibleOrders(s), seen[s][p].isActive)
               PROVE  Cardinality(InsertedOrders(batch[s], eligible, VisibleOrders(s),
                                                 seen[s][p].stock)) <= remaining[p]
    BY DEF CheckHolds
  <2>1. batch[s] \in Seq(Jobs) /\ p \in Products /\ remaining[p] \in Nat
    BY DEF SafeStore, TypeOK, LocksAreExclusive
  <2>2. seen[s][p].stock = remaining[p]
    BY SeenIsCurrent DEF DurableStore
  <2>3. eligible \in SUBSET JobsIn(batch[s])
    BY DEF EligibleJobs, PendingJobs, For
  <2> QED BY <2>1, <2>2, <2>3, StockBoundsInserted
<1> QED BY <1>1, StoreIsDurable, PTL

-----------------------------------------------------------------------------
(***************************************************************************)
(* Proof that concurrent calls of place_order_batch implement the promise  *)
(* of the flash sale: the step that maps to FlashSale's Decide is Commit,  *)
(* the one that maps to Reseed is CommitSeed, and every other one stutters.*)
(***************************************************************************)

-----------------------------------------------------------------------------
(***************************************************************************)
(* The inductive invariant.                                                *)
(***************************************************************************)
\* The reasons of the rejections of a running transaction are true at its commit.
VerdictsAreJustified ==
  \A s \in Sessions : phase[s] = "running" => \A j \in Jobs :
    /\ verdict[s][j] = "REJECTED_SOLD_OUT" =>
         remaining[JobProduct[j]] = Cardinality(For(JobProduct[j], won[s]))
    /\ verdict[s][j] = "REJECTED_INACTIVE" => ~ active[JobProduct[j]]
    /\ verdict[s][j] = "REJECTED_DUPLICATE" =>
         \E k \in Jobs \ {j} : SamePair(j, k) /\ (verdict[s][k] # NoResult \/ results[k] # NoResult)

FairStore == SafeStore /\ DurableStore /\ VerdictsAreJustified

LEMMA JustifiedInitially == Init => VerdictsAreJustified
BY DEF Init, VerdictsAreJustified

\* The reason each branch of the CASE gives holds when the loop body gives it.
LEMMA DecisionIsJustified ==
  ASSUME FairStore, NEW s \in Sessions, NEW p \in Products, DecideProduct(s, p),
         NEW j \in Jobs, verdict'[s][j] # verdict[s][j]
  PROVE  /\ JobProduct[j] = p
         /\ verdict'[s][j] = "REJECTED_SOLD_OUT" => remaining[p] = Cardinality(For(p, won'[s]))
         /\ verdict'[s][j] = "REJECTED_INACTIVE" => ~ active[p]
         /\ verdict'[s][j] = "REJECTED_DUPLICATE" =>
              \E k \in Jobs \ {j} :
                SamePair(j, k) /\ (verdict'[s][k] # NoResult \/ results[k] # NoResult)
<1> DEFINE pending  == PendingJobs(batch[s], p, VisibleResults(s))
           sold     == VisibleOrders(s)
           on       == seen[s][p].isActive
           stock    == seen[s][p].stock
           eligible == EligibleJobs(batch[s], pending, sold, on)
           inserted == InsertedOrders(batch[s], eligible, sold, stock)
           given(k) == Outcome(batch[s], pending, inserted, sold, on, k)
<1>0. /\ TypeOK /\ LocksAreExclusive /\ SalesAreCovered
      /\ RowsAreCurrent /\ VerdictsAreNew /\ VerdictsMatchOrders
  BY DEF FairStore, SafeStore, DurableStore
<1>1. /\ phase[s] = "running" /\ p \in locked[s] /\ p \notin done[s]
      /\ Cardinality(inserted) <= remaining[p]
      /\ won' = [won EXCEPT ![s] = @ \cup inserted]
      /\ verdict' = [verdict EXCEPT ![s] =
                       [k \in Jobs |-> IF k \in pending THEN given(k) ELSE @[k]]]
  BY DEF DecideProduct
<1>2. batch[s] \in Seq(Jobs) /\ JobsIn(batch[s]) \subseteq Jobs
  BY <1>0, JobsInBatch DEF TypeOK
<1>3. stock = remaining[p] /\ on = active[p] /\ remaining[p] \in Nat
  BY <1>0, <1>1, SeenIsCurrent DEF TypeOK
<1>4. \A k \in pending : /\ k \in JobsIn(batch[s]) /\ JobProduct[k] = p
  BY DEF PendingJobs, For
<1>5. inserted = {k \in eligible : StockRank(batch[s], eligible, k) <= stock}
  BY <1>2, AllChosenAreInserted
<1>6. /\ eligible \in SUBSET JobsIn(batch[s])
      /\ inserted \subseteq For(p, JobsIn(batch[s]))
      /\ \A k \in pending : (/\ FirstOfPair(batch[s], pending, k)
                             /\ ~ AlreadyPurchased(sold, k)
                             /\ on) => k \in eligible
  <2>1. inserted \subseteq eligible
    BY <1>5
  <2>2. eligible \subseteq pending
    BY DEF EligibleJobs
  <2>3. pending \subseteq For(p, JobsIn(batch[s])) /\ pending \subseteq JobsIn(batch[s])
    BY DEF PendingJobs, For
  <2>4. \A k \in pending : (/\ FirstOfPair(batch[s], pending, k)
                           /\ ~ AlreadyPurchased(sold, k)
                           /\ on) => k \in eligible
    <3> HIDE DEF pending, sold, on
    <3> QED BY DEF EligibleJobs
  <2> HIDE DEF pending, eligible, inserted, sold, on
  <2> QED BY <2>1, <2>2, <2>3, <2>4
<1>7. \A k \in pending : Outcome(batch[s], pending, inserted, sold, on, k) \in Statuses
  BY OutcomeIsStatus
<1> DEFINE first(k) == FirstOfPair(batch[s], pending, k)
           bought(k) == AlreadyPurchased(sold, k)
<1>8. /\ given(j) = "REJECTED_SOLD_OUT" => j \notin inserted /\ first(j) /\ ~ bought(j) /\ on
      /\ given(j) = "REJECTED_INACTIVE" => ~ on
      /\ given(j) = "REJECTED_DUPLICATE" => ~ first(j) \/ bought(j)
  <2> HIDE DEF pending, inserted, sold, on
  <2> QED BY DEF Outcome
<1>9. j \in pending /\ verdict'[s][j] = given(j)
  <2> HIDE DEF pending, given
  <2> QED BY <1>0, <1>1 DEF TypeOK
<1>10. won'[s] = won[s] \cup inserted
  BY <1>0, <1>1 DEF TypeOK
<1>11. For(p, won'[s]) = inserted
  <2>1. For(p, won[s]) = {}
    BY <1>0, <1>1 DEF For, SalesAreCovered
  <2> HIDE DEF inserted
  <2> QED BY <1>6, <1>10, <2>1 DEF For
<1>12. ASSUME given(j) = "REJECTED_SOLD_OUT" PROVE remaining[p] = Cardinality(inserted)
  <2>1. j \in eligible /\ j \notin inserted
    BY <1>3, <1>6, <1>8, <1>9, <1>12
  <2>2. ~ (StockRank(batch[s], eligible, j) <= stock)
    BY <1>5, <2>1
  <2>3. stock \in Nat
    BY <1>3
  <2> HIDE DEF eligible, stock, inserted
  <2>4. Cardinality({k \in eligible : StockRank(batch[s], eligible, k) <= stock}) >= stock
    BY <1>2, <1>6, <2>1, <2>2, <2>3, StockIsUsedUp
  <2>5. Cardinality(inserted) >= remaining[p]
    BY <1>3, <1>5, <2>4
  <2>6. Cardinality(inserted) \in Nat
    BY <1>2, <1>6, <1>11, <1>10, <1>0, <1>1, CountFor, DecisionIsTyped
  <2> QED BY <1>1, <1>3, <2>5, <2>6 DEF inserted
<1>13. ASSUME given(j) = "REJECTED_DUPLICATE"
       PROVE  \E k \in Jobs \ {j} :
                SamePair(j, k) /\ (verdict'[s][k] # NoResult \/ results[k] # NoResult)
  <2>1. CASE ~ first(j)
    <3>1. PICK k \in pending : SamePair(j, k) /\ ~ (Ordinal(batch[s], j) <= Ordinal(batch[s], k))
      BY <2>1 DEF FirstOfPair
    <3>2. k # j /\ k \in Jobs
      BY <1>2, <1>4, <1>9, <3>1, OrdinalOfJob
    <3>3. verdict'[s][k] = given(k)
      <4> HIDE DEF pending, given
      <4> QED BY <1>0, <1>1, <3>1, <3>2 DEF TypeOK
    <3>4. verdict'[s][k] # NoResult
      BY <1>7, <3>1, <3>3 DEF Statuses, NoResult
    <3> QED BY <3>1, <3>2, <3>4
  <2>2. CASE bought(j)
    <3>1. PICK k \in orders \cup won[s] : SamePair(j, k)
      BY <2>2 DEF AlreadyPurchased, VisibleOrders
    <3>2. verdict[s][j] = NoResult /\ results[j] = NoResult
      BY <1>9 DEF PendingJobs, VisibleResults
    <3>3. k \in Jobs
      BY <1>0, <3>1 DEF TypeOK
    <3>4. results[k] = "SUCCESS" \/ verdict[s][k] = "SUCCESS"
      BY <1>0, <1>1, <3>1, <3>3 DEF VerdictsMatchOrders, VerdictsAreNew
    <3>5. k # j
      BY <3>2, <3>4 DEF NoResult
    <3>6. results[k] # NoResult \/ verdict'[s][k] # NoResult
      <4>1. CASE results[k] = "SUCCESS"
        BY <4>1 DEF NoResult
      <4>2. CASE verdict[s][k] = "SUCCESS"
        <5>1. verdict'[s][k] = verdict[s][k] \/ verdict'[s][k] # NoResult
          BY <1>0, <3>3, DecisionIsNew DEF FairStore
        <5> QED BY <4>2, <5>1 DEF NoResult
      <4> QED BY <3>4, <4>1, <4>2
    <3> QED BY <3>1, <3>3, <3>5, <3>6
  <2> QED BY <1>8, <1>13, <2>1, <2>2
<1> HIDE DEF pending, sold, on, stock, eligible, inserted, given
<1> QED BY <1>3, <1>4, <1>8, <1>9, <1>11, <1>12, <1>13

\* What a commit leaves to another running transaction: its rows, its flags and the
\* results its reasons point at.
LEMMA CommitKeepsReasons ==
  ASSUME FairStore, NEW s \in Sessions, Commit(s)
  PROVE  VerdictsAreJustified'
<1>0. /\ TypeOK /\ LocksAreExclusive /\ SalesAreCovered /\ VerdictsAreNew
  BY DEF FairStore, SafeStore, DurableStore
<1>1. /\ remaining' = [p \in Products |-> remaining[p] - Cardinality(For(p, won[s]))]
      /\ phase'[s] = "replied" /\ active' = active
      /\ \A t \in Sessions \ {s} : /\ phase'[t] = phase[t] /\ verdict'[t] = verdict[t]
                                   /\ won'[t] = won[t]
  BY <1>0 DEF Commit, StockAfter, EndTransaction, TypeOK, tables, session, seed
<1>2. \A j \in Jobs : results[j] # NoResult => results'[j] # NoResult
  BY <1>0, CommitAddsResults
<1>3. ASSUME NEW t \in Sessions \ {s}, phase[t] = "running", NEW j \in Jobs,
             verdict[t][j] = "REJECTED_SOLD_OUT"
      PROVE  remaining'[JobProduct[j]] = Cardinality(For(JobProduct[j], won[t]))
  <2>1. verdict[t][j] # NoResult
    BY <1>3 DEF NoResult
  <2>2. JobProduct[j] \in done[t]
    BY <1>0, <1>3, <2>1 DEF VerdictsAreNew
  <2>3. JobProduct[j] \in Products /\ JobProduct[j] \notin done[s]
    BY <1>0, <2>2 DEF LocksAreExclusive
  <2>4. For(JobProduct[j], won[s]) = {}
    BY <1>0, <2>3 DEF SalesAreCovered, For
  <2>5. remaining'[JobProduct[j]] = remaining[JobProduct[j]] - 0
    BY <1>1, <2>3, <2>4, FS_EmptySet
  <2>6. remaining[JobProduct[j]] \in Nat
    BY <1>0, <2>3 DEF TypeOK
  <2>7. remaining[JobProduct[j]] = Cardinality(For(JobProduct[j], won[t]))
    BY <1>3 DEF FairStore, VerdictsAreJustified
  <2> QED BY <2>5, <2>6, <2>7
<1> QED BY <1>1, <1>2, <1>3 DEF FairStore, VerdictsAreJustified

LEMMA JustifiedStep ==
  ASSUME FairStore, [Next]_vars
  PROVE  VerdictsAreJustified'
<1> USE DEF tables, session, seed
<1>0. /\ TypeOK /\ LocksAreExclusive /\ SalesAreCovered
      /\ RowsAreCurrent /\ VerdictsAreNew /\ VerdictsAreJustified
  BY DEF FairStore, SafeStore, DurableStore
<1>1. ASSUME NEW s \in Sessions, NEW b \in Batches, Begin(s, b) PROVE VerdictsAreJustified'
  <2>1. \A j \in Jobs : verdict[s][j] = NoResult
    BY <1>0, <1>1 DEF Begin, VerdictsAreNew, NoVerdict
  <2>2. \A t \in Sessions \ {s} : phase'[t] = phase[t]
    BY <1>0, <1>1 DEF Begin, TypeOK
  <2>3. UNCHANGED <<verdict, won, results, remaining, active>>
    BY <1>1 DEF Begin
  <2>4. \A j \in Jobs : verdict[s][j] \notin {"REJECTED_SOLD_OUT", "REJECTED_INACTIVE",
                                             "REJECTED_DUPLICATE"}
    BY <2>1 DEF NoResult
  <2> QED BY <1>0, <2>2, <2>3, <2>4 DEF VerdictsAreJustified
<1>2. ASSUME NEW s \in Sessions, NEW b \in Batches, Refuse(s, b) PROVE VerdictsAreJustified'
  BY <1>0, <1>2 DEF Refuse, VerdictsAreJustified, TypeOK
<1>3. ASSUME NEW s \in Sessions, LockRow(s) PROVE VerdictsAreJustified'
  BY <1>0, <1>3 DEF LockRow, VerdictsAreJustified
<1>4. ASSUME NEW s \in Sessions, NEW p \in Products, DecideProduct(s, p)
      PROVE  VerdictsAreJustified'
  <2>1. /\ phase[s] = "running" /\ p \notin done[s]
        /\ UNCHANGED <<results, active, remaining, phase>>
    BY <1>4 DEF DecideProduct
  <2>2. \A t \in Sessions \ {s} : verdict'[t] = verdict[t] /\ won'[t] = won[t]
    BY <1>0, <1>4 DEF DecideProduct, TypeOK
  <2>3. \A k \in Jobs : verdict[s][k] # NoResult => verdict'[s][k] # NoResult
    BY <1>0, <1>4, DecisionIsNew DEF FairStore
  <2>4. \A q : q # p => For(q, won'[s]) = For(q, won[s])
    <3>1. \A k \in Jobs : JobProduct[k] # p => (k \in won'[s] <=> k \in won[s])
      BY <1>0, <1>4, <2>1, DecisionIsNew DEF FairStore, VerdictsAreNew
    <3>2. won'[s] \subseteq Jobs /\ won[s] \subseteq Jobs
      BY <1>0, <1>4, DecisionIsTyped DEF TypeOK
    <3> QED BY <3>1, <3>2 DEF For
  <2>5. ASSUME NEW j \in Jobs
        PROVE  /\ verdict'[s][j] = "REJECTED_SOLD_OUT" =>
                    remaining[JobProduct[j]] = Cardinality(For(JobProduct[j], won'[s]))
               /\ verdict'[s][j] = "REJECTED_INACTIVE" => ~ active[JobProduct[j]]
               /\ verdict'[s][j] = "REJECTED_DUPLICATE" =>
                    \E k \in Jobs \ {j} :
                      SamePair(j, k) /\ (verdict'[s][k] # NoResult \/ results[k] # NoResult)
    <3>1. CASE verdict'[s][j] # verdict[s][j]
      BY <1>4, <3>1, DecisionIsJustified
    <3>2. CASE verdict'[s][j] = verdict[s][j]
      <4>1. CASE verdict[s][j] = NoResult
        BY <3>2, <4>1 DEF NoResult
      <4>2. CASE verdict[s][j] # NoResult
        <5>1. JobProduct[j] # p
          BY <1>0, <2>1, <4>2 DEF VerdictsAreNew
        <5>2. For(JobProduct[j], won'[s]) = For(JobProduct[j], won[s])
          BY <2>4, <5>1
        <5> QED BY <1>0, <2>1, <2>3, <3>2, <5>2 DEF VerdictsAreJustified
      <4> QED BY <4>1, <4>2
    <3> QED BY <3>1, <3>2
  <2> QED BY <1>0, <2>1, <2>2, <2>5 DEF VerdictsAreJustified
<1>5. ASSUME NEW s \in Sessions, Commit(s) PROVE VerdictsAreJustified'
  BY <1>5, CommitKeepsReasons
<1>6. ASSUME NEW s \in Sessions, Abort(s) \/ LoseReply(s) \/ Return(s)
      PROVE  VerdictsAreJustified'
  <2>1. /\ phase'[s] \in {"failed", "idle"}
        /\ \A t \in Sessions \ {s} : /\ phase'[t] = phase[t] /\ verdict'[t] = verdict[t]
                                     /\ won'[t] = won[t]
        /\ UNCHANGED <<active, results, remaining>>
    BY <1>0, <1>6 DEF Abort, LoseReply, Return, EndTransaction, TypeOK
  <2> QED BY <1>0, <2>1 DEF VerdictsAreJustified
<1>7. CASE SeedRow \/ AbortSeed \/ UNCHANGED vars
  BY <1>0, <1>7 DEF SeedRow, AbortSeed, vars, VerdictsAreJustified
<1>8. CASE CommitSeed
  <2>1. ASSUME NEW s \in Sessions, phase[s] = "running", NEW j \in Jobs,
               verdict[s][j] # NoResult
        PROVE  active'[JobProduct[j]] = active[JobProduct[j]]
    <3>1. JobProduct[j] \in done[s]
      BY <1>0, <2>1 DEF VerdictsAreNew
    <3>2. JobProduct[j] \in locked[s] /\ JobProduct[j] \in Products
      BY <1>0, <3>1 DEF LocksAreExclusive
    <3> QED BY <1>0, <1>8, <3>2 DEF RowsAreCurrent, CommitSeed
  <2>2. UNCHANGED <<verdict, won, results, remaining, phase>>
    BY <1>8 DEF CommitSeed
  <2>3. "REJECTED_INACTIVE" # NoResult
    BY DEF NoResult
  <2> QED BY <1>0, <2>1, <2>2, <2>3 DEF VerdictsAreJustified
<1> QED
  BY <1>1, <1>2, <1>3, <1>4, <1>5, <1>6, <1>7, <1>8 DEF Next, Work

\* The invariant holds in every state of every behaviour of the store.
THEOREM StoreIsFair == Spec => []FairStore
<1>1. Init => FairStore
  BY SafeInitially, DurableInitially, JustifiedInitially DEF FairStore
<1>2. FairStore /\ [Next]_vars => FairStore'
  BY SafeStep, DurableStep, JustifiedStep DEF FairStore
<1> QED BY <1>1, <1>2, PTL DEF Spec

-----------------------------------------------------------------------------
(***************************************************************************)
(* The steps of the store as steps of the promise.                         *)
(***************************************************************************)
LEMMA FairStoreNext ==
  ASSUME FairStore, [Next]_vars
  PROVE  FairStore'
BY SafeStep, DurableStep, JustifiedStep DEF FairStore

\* The promise speaks of the same catalog as the store.
LEMMA SameCatalog ==
  /\ Promise!Outcomes = Outcomes /\ Promise!NoResult = NoResult
  /\ \A j, k : Promise!SamePair(j, k) <=> SamePair(j, k)
  /\ \A p, S : Promise!For(p, S) = For(p, S)
BY DEF Promise!Outcomes, Outcomes, Promise!Statuses, Statuses, Promise!NoResult, NoResult,
       Promise!SamePair, SamePair, Promise!For, For

LEMMA SameCount == ASSUME NEW S PROVE Promise!Cardinality(S) = Cardinality(S)
BY DEF Promise!Cardinality, Cardinality

\* A commit decides jobs that had no result, sells what it takes from the stock, and
\* tells the truth about every rejection.
LEMMA CommitIsDecide ==
  ASSUME FairStore, NEW s \in Sessions, Commit(s)
  PROVE  Promise!Decide
<1>0. /\ TypeOK /\ LocksAreExclusive /\ SalesAreCovered
      /\ RowsAreCurrent /\ VerdictsAreNew /\ VerdictsAreJustified
  BY DEF FairStore, SafeStore, DurableStore
<1>1. TypeOK' /\ VerdictsMatchOrders' /\ OnePurchasePerPair'
  <2>1. Next
    BY DEF Next, Work
  <2> QED BY <2>1, FairStoreNext DEF FairStore, SafeStore, DurableStore
<1>2. /\ phase[s] = "running" /\ active' = active
      /\ remaining' = [p \in Products |-> remaining[p] - Cardinality(For(p, won[s]))]
      /\ orders' = orders \cup won[s]
  BY DEF Commit, StockAfter
<1>3. \A j \in Jobs :
        /\ verdict[s][j] # NoResult => /\ JobProduct[j] \in done[s] /\ results[j] = NoResult
                                       /\ results'[j] = verdict[s][j]
        /\ verdict[s][j] = NoResult => results'[j] = results[j]
        /\ j \in won[s] <=> verdict[s][j] = "SUCCESS"
  <2> TAKE j \in Jobs
  <2>1. results'[j] = IF verdict[s][j] # NoResult THEN verdict[s][j] ELSE results[j]
    BY <1>0, CommitAddsResults
  <2>2. /\ verdict[s][j] # NoResult => JobProduct[j] \in done[s] /\ results[j] = NoResult
        /\ j \in won[s] <=> verdict[s][j] = "SUCCESS"
    BY <1>0, <1>2 DEF VerdictsAreNew
  <2>3. verdict[s][j] # NoResult => results'[j] = verdict[s][j]
    BY <2>1
  <2>4. verdict[s][j] = NoResult => results'[j] = results[j]
    BY <2>1
  <2> QED BY <2>2, <2>3, <2>4
<1>4. results' \in [Jobs -> Outcomes]
  BY <1>1 DEF TypeOK
<1>5. \A j \in Promise!DecidedNow :
        /\ j \in Jobs /\ results[j] = NoResult
        /\ verdict[s][j] # NoResult /\ results'[j] = verdict[s][j]
        /\ JobProduct[j] \in Products /\ JobProduct[j] \in done[s]
  <2>1. \A j \in Promise!DecidedNow : j \in Jobs /\ results'[j] # results[j]
    BY DEF Promise!DecidedNow
  <2>2. \A j \in Promise!DecidedNow : verdict[s][j] # NoResult
    BY <1>3, <2>1
  <2>3. done[s] \subseteq Products
    BY <1>0 DEF LocksAreExclusive
  <2> QED BY <1>3, <2>1, <2>2, <2>3
<1>6. {j \in Promise!DecidedNow : results'[j] = "SUCCESS"} = won[s]
  <2>1. won[s] \subseteq Jobs
    BY <1>0 DEF TypeOK
  <2>2. \A j \in won[s] : j \in Jobs /\ results'[j] = "SUCCESS" /\ results[j] = NoResult
    BY <1>3, <2>1 DEF NoResult
  <2>3. won[s] \subseteq Promise!DecidedNow
    BY <2>2 DEF Promise!DecidedNow, NoResult
  <2>4. \A j \in Promise!DecidedNow : results'[j] = "SUCCESS" => j \in won[s]
    BY <1>3, <1>5
  <2> QED BY <2>2, <2>3, <2>4
<1>7. \A p \in Products : Promise!SoldNow(p) = For(p, won[s])
  BY <1>6, SameCatalog DEF Promise!SoldNow
<1>8. \A p \in Products : Cardinality(Promise!SoldNow(p)) <= remaining[p]
  BY <1>0, <1>7 DEF SalesAreCovered
<1>9. remaining' = [p \in Products |-> remaining[p] - Cardinality(Promise!SoldNow(p))]
  BY <1>2, <1>7
<1>10. ASSUME NEW j \in Promise!DecidedNow, results'[j] = "SUCCESS" PROVE Promise!WinIsFair(j)
  <2>1. j \in won[s] /\ j \in orders'
    BY <1>2, <1>6, <1>10
  <2>2. active[JobProduct[j]]
    BY <1>0, <2>1 DEF VerdictsAreNew
  <2>3. \A k \in Jobs \ {j} : SamePair(j, k) => results'[k] # "SUCCESS"
    BY <1>1, <2>1 DEF VerdictsMatchOrders, OnePurchasePerPair
  <2> QED BY <1>5, <2>2, <2>3, SameCatalog DEF Promise!WinIsFair
<1>11. ASSUME NEW j \in Promise!DecidedNow, results'[j] # "SUCCESS" PROVE Promise!RejectionIsFair(j)
  <2>1. /\ j \in Jobs /\ results'[j] = verdict[s][j] /\ JobProduct[j] \in Products
    BY <1>5
  <2>2. results'[j] = "REJECTED_SOLD_OUT" => remaining'[JobProduct[j]] = 0
    <3>1. remaining[JobProduct[j]] \in Nat
      BY <1>0, <2>1 DEF TypeOK
    <3>2. verdict[s][j] = "REJECTED_SOLD_OUT" =>
            remaining[JobProduct[j]] = Cardinality(For(JobProduct[j], won[s]))
      BY <1>0, <1>2, <2>1 DEF VerdictsAreJustified
    <3> QED BY <1>2, <2>1, <3>1, <3>2
  <2>3. results'[j] = "REJECTED_INACTIVE" => ~ active[JobProduct[j]]
    BY <1>0, <1>2, <2>1 DEF VerdictsAreJustified
  <2>4. results'[j] = "REJECTED_DUPLICATE" =>
          \E k \in Jobs \ {j} : SamePair(j, k) /\ results'[k] # NoResult
    <3>1. verdict[s][j] = "REJECTED_DUPLICATE" =>
            \E k \in Jobs \ {j} : SamePair(j, k) /\ (verdict[s][k] # NoResult \/ results[k] # NoResult)
      BY <1>0, <1>2, <2>1 DEF VerdictsAreJustified
    <3>2. \A k \in Jobs : (verdict[s][k] # NoResult \/ results[k] # NoResult) => results'[k] # NoResult
      BY <1>3
    <3> QED BY <2>1, <3>1, <3>2
  <2> QED BY <2>2, <2>3, <2>4, SameCatalog DEF Promise!RejectionIsFair
<1>12. \A j \in Promise!DecidedNow :
         /\ JobProduct[j] \in Products
         /\ IF results'[j] = "SUCCESS" THEN Promise!WinIsFair(j) ELSE Promise!RejectionIsFair(j)
  BY <1>5, <1>10, <1>11
<1>13. /\ results' \in [Jobs -> Promise!Outcomes]
       /\ \A j \in Promise!DecidedNow : results[j] = Promise!NoResult
  BY <1>4, <1>5, SameCatalog
<1> QED BY <1>2, <1>8, <1>9, <1>12, <1>13, SameCount DEF Promise!Decide

\* place_order_batch under any interleaving, with aborts, lost answers, repeated calls
\* and seeds, implements the abstract flash sale.
THEOREM StoreKeepsPromise == Spec => ImplementsFlashSale
<1>1. Init => Promise!Init
  BY StoreAssumption, SameCatalog DEF Init, Promise!Init, NoVerdict, StoreAssumption
<1>2. FairStore /\ [Next]_vars => [Promise!Next]_(Promise!vars)
  <2> SUFFICES ASSUME FairStore, [Next]_vars PROVE [Promise!Next]_(Promise!vars)
    OBVIOUS
  <2>1. ASSUME NEW s \in Sessions, Commit(s) PROVE Promise!Next
    BY <2>1, CommitIsDecide DEF Promise!Next
  <2>2. CASE CommitSeed
    <3>1. TypeOK'
      BY FairStoreNext DEF FairStore, SafeStore
    <3> QED BY <2>2, <3>1 DEF CommitSeed, TypeOK, Promise!Next, Promise!Reseed
  <2>3. UNCHANGED <<remaining, active, results>> \/ CommitSeed \/ \E s \in Sessions : Commit(s)
    BY DEF Next, Work, Begin, Refuse, LockRow, DecideProduct, Abort, LoseReply, Return,
           SeedRow, AbortSeed, vars, tables, session, seed
  <2> QED BY <2>1, <2>2, <2>3 DEF Promise!vars
<1> QED BY <1>1, <1>2, StoreIsFair, PTL DEF Spec, ImplementsFlashSale, Promise!Spec

-----------------------------------------------------------------------------
(***************************************************************************)
(* What callers and readers of the outbox can rely on.                     *)
(***************************************************************************)
ResultsAreKnown == \A j \in Jobs : results[j] # NoResult => JobProduct[j] \in Products

LEMMA OnlyCommitDecides ==
  ASSUME [Next]_vars
  PROVE  \/ UNCHANGED <<remaining, orders, results, outbox>>
         \/ \E s \in Sessions : Commit(s)
BY DEF Next, Work, Begin, Refuse, LockRow, DecideProduct, Abort, LoseReply, Return,
       SeedRow, CommitSeed, AbortSeed, vars, tables, session, seed

LEMMA ReasonsStayTrue ==
  ASSUME FairStore, ResultsAreKnown, RejectionsAreJustified, [Next]_vars
  PROVE  ResultsAreKnown' /\ RejectionsAreJustified'
<1>1. CASE UNCHANGED <<remaining, orders, results, outbox>>
  BY <1>1 DEF ResultsAreKnown, RejectionsAreJustified
<1>2. ASSUME NEW s \in Sessions, Commit(s) PROVE ResultsAreKnown' /\ RejectionsAreJustified'
  <2>1. TypeOK /\ SalesAreCovered /\ VerdictsAreNew
    BY DEF FairStore, SafeStore, DurableStore
  <2>2. remaining' = [p \in Products |-> remaining[p] - Cardinality(For(p, won[s]))]
    BY <1>2 DEF Commit, StockAfter
  <2>3. \A j \in Jobs : results[j] # NoResult => results'[j] = results[j]
    BY <1>2, <2>1, CommitAddsResults
  <2>4. ASSUME NEW j \in Jobs, results'[j] # results[j]
        PROVE  /\ JobProduct[j] \in Products
               /\ results'[j] = "REJECTED_SOLD_OUT" => remaining'[JobProduct[j]] = 0
               /\ results'[j] = "REJECTED_DUPLICATE" =>
                    \E k \in Jobs \ {j} : SamePair(j, k) /\ results'[k] # NoResult
    <3>1. Promise!Decide
      BY <1>2, CommitIsDecide
    <3>2. j \in Promise!DecidedNow
      BY <2>4 DEF Promise!DecidedNow
    <3>3. /\ JobProduct[j] \in Products
          /\ results'[j] # "SUCCESS" => Promise!RejectionIsFair(j)
      BY <3>1, <3>2 DEF Promise!Decide
    <3>4. /\ results'[j] = "REJECTED_SOLD_OUT" => remaining'[JobProduct[j]] = 0
          /\ results'[j] = "REJECTED_DUPLICATE" =>
               \E k \in Jobs \ {j} : SamePair(j, k) /\ results'[k] # NoResult
      BY <3>3, SameCatalog DEF Promise!RejectionIsFair
    <3> QED BY <3>3, <3>4
  <2>5. ASSUME NEW j \in Jobs, results[j] = "REJECTED_SOLD_OUT"
        PROVE  remaining'[JobProduct[j]] = 0
    <3>1. JobProduct[j] \in Products /\ remaining[JobProduct[j]] = 0
      BY <2>5 DEF ResultsAreKnown, RejectionsAreJustified, NoResult
    <3>2. Cardinality(For(JobProduct[j], won[s])) \in Nat
      BY <2>1, CountFor DEF TypeOK
    <3>3. Cardinality(For(JobProduct[j], won[s])) <= remaining[JobProduct[j]]
      BY <2>1, <3>1 DEF SalesAreCovered
    <3>4. remaining'[JobProduct[j]] =
            remaining[JobProduct[j]] - Cardinality(For(JobProduct[j], won[s]))
      BY <2>2, <3>1
    <3> QED BY <3>1, <3>2, <3>3, <3>4
  <2>6. ResultsAreKnown'
    BY <2>4 DEF ResultsAreKnown
  <2>7. ASSUME NEW j \in Jobs
        PROVE  /\ results'[j] = "REJECTED_SOLD_OUT" => remaining'[JobProduct[j]] = 0
               /\ results'[j] = "REJECTED_DUPLICATE" =>
                    \E k \in Jobs \ {j} : SamePair(j, k) /\ results'[k] # NoResult
    <3>1. CASE results'[j] # results[j]
      BY <2>4, <3>1
    <3>2. CASE results'[j] = results[j]
      <4>1. results[j] = "REJECTED_DUPLICATE" =>
              \E k \in Jobs \ {j} : SamePair(j, k) /\ results[k] # NoResult
        BY DEF RejectionsAreJustified
      <4>2. \A k \in Jobs : results[k] # NoResult => results'[k] # NoResult
        BY <2>3
      <4> QED BY <2>5, <3>2, <4>1, <4>2
    <3> QED BY <3>1, <3>2
  <2> QED BY <2>6, <2>7 DEF RejectionsAreJustified
<1> QED BY <1>1, <1>2, OnlyCommitDecides

\* Who was told "sold out" will never see the product with units left, and who was told
\* "duplicate" shares the pair with another decided job.
THEOREM RejectionsStayJustified == Spec => []RejectionsAreJustified
<1>1. Init => ResultsAreKnown /\ RejectionsAreJustified
  BY DEF Init, ResultsAreKnown, RejectionsAreJustified, NoVerdict, NoResult
<1>2. FairStore /\ ResultsAreKnown /\ RejectionsAreJustified /\ [Next]_vars
        => ResultsAreKnown' /\ RejectionsAreJustified'
  BY ReasonsStayTrue
<1> QED BY <1>1, <1>2, StoreIsFair, PTL DEF Spec

LEMMA AnnouncementStep ==
  ASSUME FairStore, SalesAreAnnounced, [Next]_vars
  PROVE  SalesAreAnnounced'
<1>1. CASE UNCHANGED <<remaining, orders, results, outbox>>
  BY <1>1 DEF SalesAreAnnounced, Sold
<1>2. ASSUME NEW s \in Sessions, Commit(s), NEW p \in Products
      PROVE  /\ outbox'[p] <= Cardinality(For(p, orders'))
             /\ For(p, orders') # {} => outbox'[p] > 0
  <2>1. /\ orders \in SUBSET Jobs /\ won[s] \in SUBSET Jobs /\ orders \cap won[s] = {}
        /\ outbox[p] \in Nat
    BY DEF FairStore, SafeStore, TypeOK, SalesAreCovered
  <2>2. /\ orders' = orders \cup won[s]
        /\ outbox'[p] = IF For(p, won[s]) # {} THEN outbox[p] + 1 ELSE outbox[p]
    BY <1>2 DEF Commit, OutboxAfter
  <2>3. Cardinality(For(p, orders')) = Cardinality(For(p, orders)) + Cardinality(For(p, won[s]))
    BY <2>1, <2>2, CountForUnion
  <2>4. /\ Cardinality(For(p, orders)) \in Nat /\ Cardinality(For(p, won[s])) \in Nat
        /\ IsFiniteSet(For(p, won[s]))
    BY <2>1, CountFor
  <2>5. Cardinality(For(p, won[s])) = 0 => For(p, won[s]) = {}
    BY <2>4, FS_EmptySet
  <2>6. /\ outbox[p] <= Cardinality(For(p, orders))
        /\ For(p, orders) # {} => outbox[p] > 0
    BY DEF SalesAreAnnounced, Sold
  <2>7. For(p, orders') = For(p, orders) \cup For(p, won[s])
    BY <2>2 DEF For
  <2>8. CASE For(p, won[s]) = {}
    <3>1. outbox'[p] = outbox[p] /\ For(p, orders') = For(p, orders)
      BY <2>2, <2>7, <2>8
    <3> QED BY <2>6, <3>1
  <2>9. CASE For(p, won[s]) # {}
    <3>1. outbox'[p] = outbox[p] + 1 /\ Cardinality(For(p, won[s])) >= 1
      BY <2>2, <2>4, <2>5, <2>9
    <3> QED BY <2>1, <2>3, <2>4, <2>6, <3>1
  <2> QED BY <2>8, <2>9
<1> QED BY <1>1, <1>2, OnlyCommitDecides DEF SalesAreAnnounced, Sold

\* The outbox has a row for every product that was sold, and never more rows than sales:
\* an event is committed with the sale it announces or not at all.
THEOREM SalesAreAlwaysAnnounced == Spec => []SalesAreAnnounced
<1>1. Init => SalesAreAnnounced
  <2>1. \A p : For(p, {}) = {}
    BY DEF For
  <2>2. Cardinality({}) = 0
    BY FS_EmptySet
  <2> SUFFICES ASSUME Init, NEW p \in Products
               PROVE  outbox[p] <= Cardinality(For(p, orders)) /\ For(p, orders) = {}
    BY DEF SalesAreAnnounced, Sold
  <2>3. outbox[p] = 0 /\ orders = {}
    BY DEF Init
  <2>4. Cardinality(For(p, orders)) = 0
    BY <2>1, <2>2, <2>3
  <2> QED BY <2>1, <2>3, <2>4
<1>2. FairStore /\ SalesAreAnnounced /\ [Next]_vars => SalesAreAnnounced'
  BY AnnouncementStep
<1> QED BY <1>1, <1>2, StoreIsFair, PTL DEF Spec

=============================================================================

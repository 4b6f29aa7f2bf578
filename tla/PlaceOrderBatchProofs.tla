------------------------ MODULE PlaceOrderBatchProofs ------------------------
(***************************************************************************)
(* What the operators of the catalog and of the decision rule return, for  *)
(* any batch: the lemmas that the proofs about OrderStore and about        *)
(* BatchVersions rest on.                                                  *)
(***************************************************************************)
EXTENDS PlaceOrderBatch, FiniteSetTheorems, SequenceTheorems, WellFoundedInduction, TLAPS

-----------------------------------------------------------------------------
(***************************************************************************)
(* Numbers and counts.                                                     *)
(***************************************************************************)
\* A nonempty set of natural numbers has a least element: rows can be locked and
\* decided in product_id order, and jobs have a first position in their batch.
LEMMA LeastNatural ==
  ASSUME NEW S \in SUBSET Nat, S # {}
  PROVE  \E x \in S : \A y \in S : x <= y
<1>1. \E x \in S : \A y \in S : ~ (<<y, x>> \in OpToRel(<, Nat))
  BY NatLessThanWellFounded, WFMin
<1>2. \A x, y \in Nat : ~ (<<y, x>> \in OpToRel(<, Nat)) => x <= y
  BY DEF OpToRel
<1> QED BY <1>1, <1>2

\* A nonempty finite set of natural numbers has a greatest element: the one with the
\* most elements up to it.
LEMMA GreatestNatural ==
  ASSUME NEW S \in SUBSET Nat, IsFiniteSet(S), S # {}
  PROVE  \E x \in S : \A y \in S : y <= x
<1> DEFINE upTo(x)  == {y \in S : y <= x}
           above(x) == Cardinality(S) - Cardinality(upTo(x))
<1>1. \A x \in S : /\ IsFiniteSet(upTo(x)) /\ Cardinality(upTo(x)) \in Nat
                  /\ Cardinality(upTo(x)) <= Cardinality(S)
  BY FS_Subset, FS_CardinalityType
<1>2. Cardinality(S) \in Nat
  BY FS_CardinalityType
<1>3. \A x \in S : above(x) \in Nat
  <2> HIDE DEF upTo
  <2> QED BY <1>1, <1>2
<1>4. {above(x) : x \in S} \in SUBSET Nat /\ {above(x) : x \in S} # {}
  <2> HIDE DEF above
  <2> QED BY <1>3
<1>5. PICK n \in {above(x) : x \in S} : \A m \in {above(x) : x \in S} : n <= m
  BY <1>4, LeastNatural
<1>6. PICK x \in S : n = above(x)
  BY <1>5
<1>7. ASSUME NEW y \in S PROVE y <= x
  <2> SUFFICES ASSUME ~ (y <= x) PROVE FALSE
    OBVIOUS
  <2>1. upTo(x) \subseteq upTo(y) /\ y \in upTo(y) /\ y \notin upTo(x)
    <3>1. x \in Nat /\ y \in Nat /\ x < y
      <4>1. x \in Nat /\ y \in Nat
        BY <1>6
      <4> QED BY <4>1
    <3>2. ASSUME NEW z \in S, z <= x PROVE z <= y
      BY <3>1, <3>2
    <3>3. upTo(x) \subseteq upTo(y)
      BY <3>2
    <3> QED BY <3>1, <3>3
  <2> HIDE DEF upTo
  <2>2. upTo(x) # upTo(y)
    BY <2>1
  <2>3. /\ Cardinality(upTo(x)) <= Cardinality(upTo(y))
        /\ Cardinality(upTo(x)) # Cardinality(upTo(y))
    BY <1>1, <2>1, <2>2, FS_Subset
  <2>4. above(x) <= above(y)
    BY <1>5, <1>6
  <2> QED BY <1>1, <1>2, <2>3, <2>4
<1> QED BY <1>7

\* Jobs are finitely many, so the jobs of a product can be counted.
LEMMA CountFor ==
  ASSUME NEW S \in SUBSET Jobs, NEW p
  PROVE  /\ IsFiniteSet(For(p, S))
         /\ Cardinality(For(p, S)) \in Nat
<1>1. For(p, S) \in SUBSET Jobs
  BY DEF For
<1> QED BY <1>1, CatalogAssumption, FS_Subset, FS_CardinalityType DEF CatalogAssumption

\* Jobs of two disjoint sets are counted apart: a commit adds its orders to the sold ones.
LEMMA CountForUnion ==
  ASSUME NEW S \in SUBSET Jobs, NEW T \in SUBSET Jobs, S \cap T = {}, NEW p
  PROVE  Cardinality(For(p, S \cup T)) = Cardinality(For(p, S)) + Cardinality(For(p, T))
<1>1. For(p, S \cup T) = For(p, S) \cup For(p, T)
  BY DEF For
<1>2. For(p, S) \cap For(p, T) = {}
  BY DEF For
<1>3. Cardinality({}) = 0
  BY FS_EmptySet
<1>4. IsFiniteSet(For(p, S)) /\ IsFiniteSet(For(p, T))
  BY CountFor
<1>5. Cardinality(For(p, S)) \in Nat /\ Cardinality(For(p, T)) \in Nat
  BY CountFor
<1>6. Cardinality(For(p, S) \cup For(p, T))
       = Cardinality(For(p, S)) + Cardinality(For(p, T)) - Cardinality(For(p, S) \cap For(p, T))
  BY <1>4, FS_Union
<1> DEFINE both == Cardinality(For(p, S) \cup For(p, T))
           a == Cardinality(For(p, S))
           b == Cardinality(For(p, T))
<1>7. both = a + b - 0
  BY <1>2, <1>3, <1>6
<1> HIDE DEF both, a, b
<1>8. both = a + b
  <2>1. a \in Nat /\ b \in Nat
    BY <1>5 DEF a, b
  <2> QED BY <2>1, <1>7
<1> QED BY <1>1, <1>8 DEF both, a, b

-----------------------------------------------------------------------------
(***************************************************************************)
(* Batches.                                                                *)
(***************************************************************************)
\* Ordinal is the position of a job of the batch, so two jobs have two ordinals.
LEMMA OrdinalOfJob ==
  ASSUME NEW batchOf \in Seq(Jobs), NEW j \in JobsIn(batchOf)
  PROVE  /\ Ordinal(batchOf, j) \in Nat
         /\ Ordinal(batchOf, j) \in DOMAIN batchOf
         /\ batchOf[Ordinal(batchOf, j)] = j
<1> DEFINE At == {i \in DOMAIN batchOf : batchOf[i] = j}
<1>1. At \in SUBSET Nat /\ At # {}
  BY DEF JobsIn
<1>2. PICK i \in At : \A k \in At : i <= k
  BY <1>1, LeastNatural
<1>3. \A h \in 1..(i - 1) : batchOf[h] # j
  <2> SUFFICES ASSUME NEW h \in 1..(i - 1), batchOf[h] = j PROVE FALSE
    OBVIOUS
  <2>1. h \in At
    BY <1>1, <1>2
  <2> QED BY <2>1, <1>1, <1>2
<1>4. \E n \in DOMAIN batchOf : batchOf[n] = j /\ \A h \in 1..(n - 1) : batchOf[h] # j
  BY <1>2, <1>3
<1> QED BY <1>1, <1>4 DEF Ordinal

LEMMA JobsInBatch ==
  ASSUME NEW batchOf \in Seq(Jobs)
  PROVE  JobsIn(batchOf) \subseteq Jobs
BY DEF JobsIn

-----------------------------------------------------------------------------
(***************************************************************************)
(* The decision for one product.                                           *)
(***************************************************************************)
\* What one execution of the loop body inserts: pending jobs of that product, none
\* already there, and no two of one pair.
LEMMA InsertedIsFair ==
  ASSUME NEW batchOf \in Seq(Jobs), NEW p, NEW res, NEW sold, NEW stock, NEW isActive
  PROVE  LET pending  == PendingJobs(batchOf, p, res)
             eligible == EligibleJobs(batchOf, pending, sold, isActive)
             inserted == InsertedOrders(batchOf, eligible, sold, stock)
         IN  /\ inserted \subseteq For(p, JobsIn(batchOf))
             /\ inserted \cap sold = {}
             /\ \A j \in inserted, k \in sold : ~ SamePair(j, k)
             /\ \A j, k \in inserted : SamePair(j, k) => j = k
<1> DEFINE pending  == PendingJobs(batchOf, p, res)
           eligible == EligibleJobs(batchOf, pending, sold, isActive)
           chosen   == {j \in eligible : StockRank(batchOf, eligible, j) <= stock}
           inserted == InsertedOrders(batchOf, eligible, sold, stock)
<1>1. inserted = {j \in chosen : ~ Conflicts(batchOf, chosen, sold, j)}
  BY DEF InsertedOrders
<1>2. pending \subseteq For(p, JobsIn(batchOf)) /\ chosen \subseteq pending
  BY DEF PendingJobs, EligibleJobs
<1>3. inserted \subseteq For(p, JobsIn(batchOf))
  BY <1>1, <1>2
<1>4. inserted \cap sold = {}
  BY <1>1 DEF Conflicts
<1>5. \A j \in inserted, k \in sold : ~ SamePair(j, k)
  <2>1. \A j, k : SamePair(j, k) => SamePair(k, j)
    BY DEF SamePair
  <2> QED BY <1>1, <2>1 DEF Conflicts, AlreadyPurchased
<1>6. ASSUME NEW j \in inserted, NEW k \in inserted, SamePair(j, k) PROVE j = k
  <2>1. j \in JobsIn(batchOf) /\ k \in JobsIn(batchOf)
    BY <1>3 DEF For
  <2>2. /\ Ordinal(batchOf, j) \in Nat /\ batchOf[Ordinal(batchOf, j)] = j
        /\ Ordinal(batchOf, k) \in Nat /\ batchOf[Ordinal(batchOf, k)] = k
    BY <2>1, OrdinalOfJob
  <2>3. ~ (Ordinal(batchOf, k) < Ordinal(batchOf, j))
    BY <1>1, <1>6 DEF Conflicts
  <2>4. ~ (Ordinal(batchOf, j) < Ordinal(batchOf, k))
    BY <1>1, <1>6 DEF Conflicts, SamePair
  <2> QED BY <2>2, <2>3, <2>4
<1> HIDE DEF pending, eligible, chosen, inserted
<1>7. /\ inserted \subseteq For(p, JobsIn(batchOf))
      /\ inserted \cap sold = {}
      /\ \A j \in inserted, k \in sold : ~ SamePair(j, k)
      /\ \A j, k \in inserted : SamePair(j, k) => j = k
  BY <1>3, <1>4, <1>5, <1>6
<1> QED BY <1>7 DEF pending, eligible, inserted

\* Among the eligible jobs no two are of one pair and none is sold, so the unique keys
\* refuse none of those within the stock.
LEMMA AllChosenAreInserted ==
  ASSUME NEW batchOf \in Seq(Jobs), NEW p, NEW res, NEW sold, NEW stock, NEW isActive
  PROVE  LET pending  == PendingJobs(batchOf, p, res)
             eligible == EligibleJobs(batchOf, pending, sold, isActive)
         IN  InsertedOrders(batchOf, eligible, sold, stock)
               = {j \in eligible : StockRank(batchOf, eligible, j) <= stock}
<1> DEFINE pending  == PendingJobs(batchOf, p, res)
           eligible == EligibleJobs(batchOf, pending, sold, isActive)
           chosen   == {j \in eligible : StockRank(batchOf, eligible, j) <= stock}
<1>1. \A j \in eligible : /\ j \in pending
                          /\ FirstOfPair(batchOf, pending, j)
                          /\ ~ AlreadyPurchased(sold, j)
  BY DEF EligibleJobs
<1>2. \A j \in pending : Ordinal(batchOf, j) \in Nat
  <2>1. \A j \in pending : j \in JobsIn(batchOf)
    BY DEF PendingJobs, For
  <2> QED BY <2>1, OrdinalOfJob
<1> HIDE DEF pending
<1>3. ASSUME NEW j \in chosen PROVE ~ Conflicts(batchOf, chosen, sold, j)
  <2>1. j \notin sold
    BY <1>1 DEF AlreadyPurchased, SamePair
  <2>2. ASSUME NEW k \in chosen, SamePair(j, k) PROVE ~ (Ordinal(batchOf, k) < Ordinal(batchOf, j))
    <3>1. Ordinal(batchOf, j) <= Ordinal(batchOf, k)
      BY <1>1, <2>2 DEF FirstOfPair
    <3> QED BY <1>1, <1>2, <3>1
  <2> QED BY <1>1, <2>1, <2>2 DEF Conflicts
<1> HIDE DEF eligible
<1>4. InsertedOrders(batchOf, eligible, sold, stock) = chosen
  BY <1>3 DEF InsertedOrders
<1> QED BY <1>4 DEF eligible, pending

\* The stock rank is a count of jobs up to a position, so no more than `stock` jobs
\* have a rank within the stock.
LEMMA StockBoundsInserted ==
  ASSUME NEW batchOf \in Seq(Jobs), NEW eligible \in SUBSET JobsIn(batchOf), NEW sold,
         NEW stock \in Nat
  PROVE  Cardinality(InsertedOrders(batchOf, eligible, sold, stock)) <= stock
<1> DEFINE chosen   == {j \in eligible : StockRank(batchOf, eligible, j) <= stock}
           inserted == InsertedOrders(batchOf, eligible, sold, stock)
           behind(j) == Len(batchOf) - Ordinal(batchOf, j)
<1>1. inserted \subseteq chosen /\ chosen \subseteq eligible
  BY DEF InsertedOrders
<1>2. CASE chosen = {}
  <2>1. inserted = {}
    BY <1>1, <1>2
  <2> QED BY <2>1, FS_EmptySet
<1>3. CASE chosen # {}
  <2>1. \A j \in chosen : Ordinal(batchOf, j) \in Nat /\ behind(j) \in Nat
    <3>1. \A j \in chosen : Ordinal(batchOf, j) \in DOMAIN batchOf
      BY <1>1, OrdinalOfJob
    <3>2. DOMAIN batchOf = 1..Len(batchOf) /\ Len(batchOf) \in Nat
      BY LenProperties
    <3> QED BY <3>1, <3>2
  <2>2. {behind(j) : j \in chosen} \in SUBSET Nat /\ {behind(j) : j \in chosen} # {}
    BY <1>3, <2>1
  <2>3. PICK d \in {behind(j) : j \in chosen} : \A e \in {behind(j) : j \in chosen} : d <= e
    BY <2>2, LeastNatural
  <2>4. PICK last \in chosen : d = behind(last)
    BY <2>3
  <2>5. \A k \in chosen : behind(last) <= behind(k)
    BY <2>3, <2>4
  <2>6. \A k \in chosen : Ordinal(batchOf, k) <= Ordinal(batchOf, last)
    <3>1. Len(batchOf) \in Nat
      BY LenProperties
    <3> QED BY <2>1, <2>5, <3>1
  <2> DEFINE upTo == {k \in eligible : Ordinal(batchOf, k) <= Ordinal(batchOf, last)}
  <2>7. inserted \subseteq upTo
    BY <1>1, <2>6
  <2>8. upTo \subseteq Jobs
    BY JobsInBatch
  <2>9. IsFiniteSet(upTo) /\ Cardinality(upTo) \in Nat /\ Cardinality(inserted) \in Nat
        /\ Cardinality(inserted) <= Cardinality(upTo)
    <3>1. IsFiniteSet(upTo)
      BY <2>8, CatalogAssumption, FS_Subset DEF CatalogAssumption
    <3> QED BY <3>1, <2>7, FS_Subset, FS_CardinalityType
  <2>10. Cardinality(upTo) <= stock
    BY <2>4 DEF StockRank
  <2> HIDE DEF inserted, upTo
  <2>11. Cardinality(inserted) <= stock
    BY <2>9, <2>10
  <2> QED BY <2>11 DEF inserted
<1> QED BY <1>2, <1>3

\* If some eligible job is beyond the stock, then as many as the stock are within it:
\* the jobs before the first one beyond it.
LEMMA StockIsUsedUp ==
  ASSUME NEW batchOf \in Seq(Jobs), NEW eligible \in SUBSET JobsIn(batchOf), NEW stock \in Nat,
         NEW beyond \in eligible, ~ (StockRank(batchOf, eligible, beyond) <= stock)
  PROVE  Cardinality({j \in eligible : StockRank(batchOf, eligible, j) <= stock}) >= stock
<1> DEFINE rank(j) == StockRank(batchOf, eligible, j)
           ord(j)  == Ordinal(batchOf, j)
           upTo(j) == {k \in eligible : ord(k) <= ord(j)}
           chosen  == {j \in eligible : rank(j) <= stock}
           late    == {j \in eligible : ~ (rank(j) <= stock)}
<1>1. eligible \subseteq Jobs /\ IsFiniteSet(eligible)
  BY JobsInBatch, CatalogAssumption, FS_Subset DEF CatalogAssumption
<1>2. \A j \in eligible : ord(j) \in Nat /\ batchOf[ord(j)] = j
  BY OrdinalOfJob
<1>3. {ord(j) : j \in late} \in SUBSET Nat /\ {ord(j) : j \in late} # {}
  BY <1>2
<1>4. PICK n \in {ord(j) : j \in late} : \A m \in {ord(j) : j \in late} : n <= m
  BY <1>3, LeastNatural
<1>5. PICK first \in late : n = ord(first)
  BY <1>4
<1>6. \A j \in late : ord(first) <= ord(j)
  BY <1>4, <1>5
<1>7. upTo(first) \subseteq chosen \cup {first}
  <2> SUFFICES ASSUME NEW j \in eligible, ord(j) <= ord(first), j \notin chosen PROVE j = first
    OBVIOUS
  <2>1. ord(first) <= ord(j)
    BY <1>6
  <2>2. ord(j) = ord(first)
    BY <1>2, <2>1
  <2> QED BY <1>2, <2>2
<1>8. IsFiniteSet(chosen) /\ IsFiniteSet(upTo(first))
  BY <1>1, FS_Subset
<1>9. first \notin chosen
  OBVIOUS
<1> HIDE DEF chosen
<1>10. IsFiniteSet(chosen \cup {first}) /\ Cardinality(chosen \cup {first}) = Cardinality(chosen) + 1
  BY <1>8, <1>9, FS_AddElement
<1>11. Cardinality(upTo(first)) <= Cardinality(chosen \cup {first})
  BY <1>7, <1>10, FS_Subset
<1>12. ~ (Cardinality(upTo(first)) <= stock)
  BY <1>5 DEF StockRank
<1>13. Cardinality(upTo(first)) \in Nat /\ Cardinality(chosen) \in Nat
  BY <1>8, FS_CardinalityType
<1> HIDE DEF upTo
<1>14. Cardinality(chosen) >= stock
  BY <1>10, <1>11, <1>12, <1>13
<1> QED BY <1>14 DEF chosen

\* Every job gets an outcome, whichever branch of the CASE it takes.
LEMMA OutcomeIsStatus ==
  ASSUME NEW b, NEW pending, NEW inserted, NEW sold, NEW isActive, NEW j
  PROVE  Outcome(b, pending, inserted, sold, isActive, j) \in Statuses
BY DEF Outcome, Statuses

=============================================================================

-------------------------- MODULE BatchVersionsProofs --------------------------
(***************************************************************************)
(* Machine-checked proofs about BatchVersions, for any catalog, batches    *)
(* and job_id order: the loop of migrations 1 and 2 and the set-based rule *)
(* of migration 3 both decide fairly, fair decisions sell equally much,    *)
(* and whichever version is installed keeps the promise of FlashSale, of   *)
(* which the last section shows what it is worth.                          *)
(***************************************************************************)
EXTENDS BatchVersions, PlaceOrderBatchProofs

-----------------------------------------------------------------------------
(***************************************************************************)
(* The loop of migrations 1 and 2 as a recursive function.                 *)
(***************************************************************************)
\* A nonempty set of jobs has a last one in job_id order.
LEMMA LastJobIsOneOf ==
  ASSUME NEW S \in SUBSET Jobs, S # {}
  PROVE  LastJob(S) \in S
<1> DEFINE ranks == {JobRank[j] : j \in S}
<1>1. IsFiniteSet(S)
  BY CatalogAssumption, FS_Subset DEF CatalogAssumption
<1>2. ranks \in SUBSET Nat /\ ranks # {} /\ IsFiniteSet(ranks)
  <2>1. \A j \in S : JobRank[j] \in Nat
    BY VersionsAssumption DEF VersionsAssumption
  <2>2. IsFiniteSet(ranks)
    <3> DEFINE rank == [j \in S |-> JobRank[j]]
    <3>1. rank \in Surjection(S, ranks)
      BY DEF Surjection
    <3> QED BY <1>1, <3>1, FS_Surjection
  <2> QED BY <2>1, <2>2
<1>3. PICK r \in ranks : \A q \in ranks : q <= r
  BY <1>2, GreatestNatural
<1>4. \E j \in S : \A k \in S : JobRank[k] <= JobRank[j]
  BY <1>3
<1> QED BY <1>4 DEF LastJob

\* The loop's turn is defined by recursion over the jobs it is through with: every set
\* of jobs has a state, and it is the one after its last job.
LEMMA TurnUnfolds ==
  ASSUME NEW b \in Seq(Jobs), NEW p
  PROVE  \E after :
           /\ OldTurn(b, p) = after[For(p, JobsIn(b))]
           /\ \A S \in SUBSET For(p, JobsIn(b)) : after[S] =
                IF S = {} THEN [left |-> remaining[p], orders |-> orders, results |-> results]
                ELSE OldStep(p, after[S \ {LastJob(S)}], LastJob(S))
<1> DEFINE jobs    == For(p, JobsIn(b))
           start   == [left |-> remaining[p], orders |-> orders, results |-> results]
           at(f, S) == IF S = {} THEN start ELSE OldStep(p, f[S \ {LastJob(S)}], LastJob(S))
           upTo(n) == {S \in SUBSET jobs : Cardinality(S) <= n}
           Good(n) == \E f : f = [S \in upTo(n) |-> at(f, S)]
<1>1. jobs \subseteq Jobs /\ IsFiniteSet(jobs)
  BY JobsInBatch, CatalogAssumption, FS_Subset DEF CatalogAssumption, For
<1>2. ASSUME NEW S \in SUBSET jobs
      PROVE  /\ Cardinality(S) \in Nat /\ Cardinality(S) <= Cardinality(jobs)
             /\ Cardinality(S) = 0 => S = {}
  BY <1>1, FS_Subset, FS_CardinalityType, FS_EmptySet
<1>3. \A S \in SUBSET jobs : S # {} =>
        /\ S \ {LastJob(S)} \in SUBSET jobs
        /\ Cardinality(S \ {LastJob(S)}) = Cardinality(S) - 1
  <2> TAKE S \in SUBSET jobs
  <2> HAVE S # {}
  <2>1. LastJob(S) \in S
    BY <1>1, LastJobIsOneOf
  <2>2. IsFiniteSet(S)
    BY <1>1, FS_Subset
  <2> QED BY <2>1, <2>2, FS_RemoveElement
<1> HIDE DEF jobs, start
<1>a. ASSUME NEW S \in SUBSET jobs, Cardinality(S) <= 0 PROVE S = {}
  <2>1. Cardinality(S) = 0
    BY <1>2, <1>a
  <2> QED BY <1>2, <2>1
<1>b. ASSUME NEW n \in Nat, NEW S \in SUBSET jobs
      PROVE  /\ Cardinality(S) <= n => Cardinality(S) <= n + 1
             /\ Cardinality(S) <= n + 1 /\ S # {} => Cardinality(S \ {LastJob(S)}) <= n
  <2>1. Cardinality(S) \in Nat
    BY <1>2
  <2>2. S # {} => Cardinality(S \ {LastJob(S)}) = Cardinality(S) - 1
    BY <1>3
  <2> QED BY <2>1, <2>2
<1>4. Good(0)
  <2> DEFINE f == [S \in upTo(0) |-> start]
  <2>1. \A S \in upTo(0) : S = {}
    BY <1>a
  <2>2. f = [S \in upTo(0) |-> at(f, S)]
    BY <2>1
  <2> QED BY <2>2
<1>5. ASSUME NEW n \in Nat, Good(n) PROVE Good(n + 1)
  <2>1. PICK f : f = [S \in upTo(n) |-> at(f, S)]
    BY <1>5
  <2> DEFINE g == [S \in upTo(n + 1) |-> IF S \in upTo(n) THEN f[S] ELSE at(f, S)]
  <2>2. ASSUME NEW S \in upTo(n + 1) PROVE g[S] = at(g, S)
    <3>1. g[S] = at(f, S)
      BY <2>1
    <3>2. CASE S = {}
      BY <3>1, <3>2
    <3>3. CASE S # {}
      <4>1. S \ {LastJob(S)} \in upTo(n)
        BY <1>b, <1>3, <3>3
      <4>2. upTo(n) \subseteq upTo(n + 1)
        BY <1>b
      <4>3. g[S \ {LastJob(S)}] = f[S \ {LastJob(S)}]
        BY <4>1, <4>2
      <4> QED BY <3>1, <3>3, <4>3
    <3> QED BY <3>2, <3>3
  <2>3. g = [S \in upTo(n + 1) |-> at(g, S)]
    BY <2>2
  <2> QED BY <2>3
<1> HIDE DEF Good
<1>6. Good(Cardinality(jobs))
  <2> DEFINE Bad == {n \in Nat : ~ Good(n)}
  <2>1. Cardinality(jobs) \in Nat
    BY <1>1, FS_CardinalityType
  <2>2. CASE Bad = {}
    BY <2>1, <2>2
  <2>3. CASE Bad # {}
    <3>1. PICK n \in Bad : \A m \in Bad : n <= m
      BY <2>3, LeastNatural
    <3>2. n # 0
      BY <1>4, <3>1
    <3>3. n - 1 \in Nat /\ n - 1 \notin Bad
      BY <3>1, <3>2
    <3>4. Good((n - 1) + 1)
      BY <1>5, <3>3
    <3>5. (n - 1) + 1 = n
      BY <3>1
    <3> QED BY <3>1, <3>4, <3>5
  <2> QED BY <2>2, <2>3
<1>7. upTo(Cardinality(jobs)) = SUBSET jobs
  <2>1. \A S \in SUBSET jobs : Cardinality(S) <= Cardinality(jobs)
    BY <1>2
  <2> QED BY <2>1
<1>8. PICK h : h = [S \in SUBSET jobs |-> at(h, S)]
  BY <1>6, <1>7 DEF Good
<1> DEFINE after == CHOOSE f : f = [S \in SUBSET jobs |-> at(f, S)]
<1>9. after = [S \in SUBSET jobs |-> at(after, S)]
  BY <1>8
<1>10. OldTurn(b, p) = after[jobs]
  BY DEF OldTurn, jobs, start
<1> HIDE DEF after
<1>11. \A S \in SUBSET jobs : after[S] = at(after, S)
  BY <1>9
<1> QED BY <1>10, <1>11 DEF jobs, start

-----------------------------------------------------------------------------
(***************************************************************************)
(* What a fair turn of a product is, whichever version takes it.           *)
(***************************************************************************)
\* The types of the tables, and that a job has an order exactly when its durable
\* result says SUCCESS.
VersionsTyped ==
  /\ installed \in 0..3
  /\ remaining \in [Products -> Nat]
  /\ active \in [Products -> BOOLEAN]
  /\ outbox \in [Products -> Nat]
  /\ orders \subseteq Jobs
  /\ results \in [Jobs -> Outcomes]
  /\ asked \in Seq(Jobs)
  /\ \A j \in Jobs : j \in orders <=> results[j] = "SUCCESS"

\* Of the undecided jobs P of product p the jobs W may be sold to and r may answer all:
\* W keeps to the stock, to the flag and to one order per pair, leaves out nobody while
\* units are left, and every reason in r is true.
TurnIsFair(p, P, W, r) ==
  /\ W \subseteq P
  /\ \A j \in W : ~ AlreadyPurchased(orders, j)
  /\ \A j, k \in W : SamePair(j, k) => j = k
  /\ W # {} => active[p]
  /\ Cardinality(W) <= remaining[p]
  /\ active[p] => \/ Cardinality(W) = remaining[p]
                  \/ \A j \in P : AlreadyPurchased(orders \cup W, j)
  /\ \A j \in P :
       /\ r[j] \in Statuses
       /\ r[j] = "SUCCESS" <=> j \in W
       /\ r[j] = "REJECTED_SOLD_OUT" => Cardinality(W) = remaining[p]
       /\ r[j] = "REJECTED_INACTIVE" => ~ active[p]
       /\ r[j] = "REJECTED_DUPLICATE" =>
            \E k \in Jobs \ {j} : SamePair(j, k) /\ (k \in P \/ results[k] # NoResult)

\* Where the loop stands when it has decided the jobs P of product p.
LoopIsFair(p, P, acc) ==
  LET W == acc.orders \ orders
  IN  /\ acc.orders = orders \cup W
      /\ acc.left \in Nat /\ acc.left + Cardinality(W) = remaining[p]
      /\ acc.results \in [Jobs -> Outcomes]
      /\ \A j \in Jobs \ P : acc.results[j] = results[j]
      /\ TurnIsFair(p, P, W, acc.results)

\* One more pending job is decided as fairly as those before it.
LEMMA VerdictIsFair ==
  ASSUME VersionsTyped, NEW p \in Products, NEW P \in SUBSET Jobs, NEW acc,
         LoopIsFair(p, P, acc), NEW j \in Jobs \ P, results[j] = NoResult
  PROVE  LoopIsFair(p, P \cup {j}, OldStep(p, acc, j))
<1> DEFINE W   == acc.orders \ orders
           v   == OldVerdict(p, acc, j)
           new == OldStep(p, acc, j)
           V   == new.orders \ orders
<1>1. /\ acc.orders = orders \cup W
      /\ acc.left \in Nat /\ acc.left + Cardinality(W) = remaining[p]
      /\ acc.results \in [Jobs -> Outcomes]
      /\ \A k \in Jobs \ P : acc.results[k] = results[k]
  BY DEF LoopIsFair
<1>2. TurnIsFair(p, P, W, acc.results)
  BY DEF LoopIsFair
<1>3. /\ W \subseteq P
      /\ \A k \in W : ~ AlreadyPurchased(orders, k)
      /\ \A i, k \in W : SamePair(i, k) => i = k
      /\ W # {} => active[p]
      /\ Cardinality(W) <= remaining[p]
      /\ active[p] => \/ Cardinality(W) = remaining[p]
                      \/ \A k \in P : AlreadyPurchased(orders \cup W, k)
  BY <1>2 DEF TurnIsFair
<1>4. \A k \in P :
       /\ acc.results[k] \in Statuses
       /\ acc.results[k] = "SUCCESS" <=> k \in W
       /\ acc.results[k] = "REJECTED_SOLD_OUT" => Cardinality(W) = remaining[p]
       /\ acc.results[k] = "REJECTED_INACTIVE" => ~ active[p]
       /\ acc.results[k] = "REJECTED_DUPLICATE" =>
            \E i \in Jobs \ {k} : SamePair(k, i) /\ (i \in P \/ results[i] # NoResult)
  BY <1>2 DEF TurnIsFair
<1>5. j \notin orders /\ j \notin W /\ acc.results[j] = NoResult
  BY <1>1, <1>3 DEF VersionsTyped, NoResult
<1>6. IsFiniteSet(W) /\ Cardinality(W) \in Nat
  BY <1>3, CatalogAssumption, FS_Subset, FS_CardinalityType DEF CatalogAssumption
<1>7. /\ new.left = IF v = "SUCCESS" THEN acc.left - 1 ELSE acc.left
      /\ new.orders = IF v = "SUCCESS" THEN acc.orders \cup {j} ELSE acc.orders
      /\ new.results = [acc.results EXCEPT ![j] = v]
  BY <1>5 DEF OldStep
<1>8. /\ v \in Statuses
      /\ v = "SUCCESS" => active[p] /\ ~ AlreadyPurchased(acc.orders, j) /\ ~ (acc.left <= 0)
      /\ v = "REJECTED_SOLD_OUT" => acc.left <= 0
      /\ v = "REJECTED_INACTIVE" => ~ active[p]
      /\ v = "REJECTED_DUPLICATE" => AlreadyPurchased(acc.orders, j)
  BY DEF OldVerdict, Statuses
<1> HIDE DEF W, v, new
<1>9. new.results \in [Jobs -> Outcomes] /\ new.results[j] = v
      /\ \A k \in Jobs \ {j} : new.results[k] = acc.results[k]
  BY <1>1, <1>7, <1>8 DEF Outcomes
<1>10. \A k \in Jobs \ (P \cup {j}) : new.results[k] = results[k]
  BY <1>1, <1>9
<1>11. CASE v = "SUCCESS"
  <2>1. V = W \cup {j} /\ new.orders = orders \cup V
    BY <1>1, <1>5, <1>7, <1>11 DEF W
  <2>2. Cardinality(V) = Cardinality(W) + 1
    BY <1>5, <1>6, <2>1, FS_AddElement
  <2>3. /\ active[p] /\ ~ (acc.left <= 0)
        /\ ~ AlreadyPurchased(orders, j)
        /\ \A k \in W : ~ SamePair(j, k) /\ ~ SamePair(k, j)
    BY <1>1, <1>8, <1>11 DEF AlreadyPurchased, SamePair
  <2>4. /\ new.left \in Nat /\ new.left + Cardinality(V) = remaining[p]
        /\ Cardinality(V) <= remaining[p] /\ Cardinality(W) # remaining[p]
    BY <1>1, <1>6, <1>7, <1>11, <2>2, <2>3
  <2> HIDE DEF V
  <2>5. \A k \in P \cup {j} : AlreadyPurchased(orders \cup V, k)
    BY <1>3, <2>1, <2>3, <2>4 DEF AlreadyPurchased, SamePair
  <2>6. \A k \in P \cup {j} :
          /\ new.results[k] \in Statuses
          /\ new.results[k] = "SUCCESS" <=> k \in V
          /\ new.results[k] = "REJECTED_SOLD_OUT" => Cardinality(V) = remaining[p]
          /\ new.results[k] = "REJECTED_INACTIVE" => ~ active[p]
          /\ new.results[k] = "REJECTED_DUPLICATE" =>
               \E i \in Jobs \ {k} : SamePair(k, i) /\ (i \in P \cup {j} \/ results[i] # NoResult)
    BY <1>4, <1>8, <1>9, <1>11, <2>1, <2>4
  <2>7. TurnIsFair(p, P \cup {j}, V, new.results)
    <3>1. V \subseteq P \cup {j} /\ \A k \in V : ~ AlreadyPurchased(orders, k)
      BY <1>3, <2>1, <2>3
    <3>2. \A i, k \in V : SamePair(i, k) => i = k
      BY <1>3, <2>1, <2>3
    <3> QED BY <2>3, <2>4, <2>5, <2>6, <3>1, <3>2 DEF TurnIsFair
  <2> QED BY <1>9, <1>10, <2>1, <2>4, <2>7 DEF LoopIsFair, V, new
<1>12. CASE v # "SUCCESS"
  <2>1. V = W /\ new.orders = orders \cup V
    BY <1>1, <1>7, <1>12 DEF W
  <2>2. new.left \in Nat /\ new.left + Cardinality(V) = remaining[p]
    BY <1>1, <1>7, <1>12, <2>1
  <2> HIDE DEF V
  <2>3. v = "REJECTED_SOLD_OUT" => Cardinality(W) = remaining[p]
    BY <1>1, <1>6, <1>8
  <2>4. v = "REJECTED_DUPLICATE" => 
               \E i \in Jobs \ {j} : SamePair(j, i) /\ (i \in P \cup {j} \/ results[i] # NoResult)
    <3>1. \A i \in orders : i \in Jobs /\ i # j /\ results[i] # NoResult
      BY <1>5 DEF VersionsTyped, NoResult
    <3>2. \A i \in W : i \in P /\ i \in Jobs /\ i # j
      BY <1>3
    <3> QED BY <1>1, <1>8, <3>1, <3>2 DEF AlreadyPurchased
  <2>5. v \in Statuses \ {"SUCCESS"}
    BY <1>8, <1>12
  <2>6. active[p] => \/ Cardinality(V) = remaining[p]
                     \/ \A k \in P \cup {j} : AlreadyPurchased(orders \cup V, k)
    BY <1>1, <1>3, <1>8, <2>1, <2>3, <2>5 DEF Statuses
  <2>7. \A k \in P \cup {j} :
          /\ new.results[k] \in Statuses
          /\ new.results[k] = "SUCCESS" <=> k \in V
          /\ new.results[k] = "REJECTED_SOLD_OUT" => Cardinality(V) = remaining[p]
          /\ new.results[k] = "REJECTED_INACTIVE" => ~ active[p]
          /\ new.results[k] = "REJECTED_DUPLICATE" =>
               \E i \in Jobs \ {k} : SamePair(k, i) /\ (i \in P \cup {j} \/ results[i] # NoResult)
    BY <1>4, <1>5, <1>8, <1>9, <1>12, <2>1, <2>3, <2>4
  <2>8. TurnIsFair(p, P \cup {j}, V, new.results)
    BY <1>3, <2>1, <2>6, <2>7 DEF TurnIsFair
  <2> QED BY <1>9, <1>10, <2>1, <2>2, <2>8 DEF LoopIsFair, V, new
<1> QED BY <1>11, <1>12

\* Migrations 1 and 2: after the whole loop, all pending jobs of the product are decided
\* and all are decided fairly.
LEMMA OldTurnIsFair ==
  ASSUME VersionsTyped, NEW b \in Seq(Jobs), NEW p \in Products
  PROVE  LoopIsFair(p, PendingJobs(b, p, results), OldTurn(b, p))
<1> DEFINE jobs    == For(p, JobsIn(b))
           open(S) == {j \in S : results[j] = NoResult}
<1>1. jobs \subseteq Jobs
  BY JobsInBatch DEF For
<1>2. PICK after :
        /\ OldTurn(b, p) = after[jobs]
        /\ \A S \in SUBSET jobs : after[S] =
             IF S = {} THEN [left |-> remaining[p], orders |-> orders, results |-> results]
             ELSE OldStep(p, after[S \ {LastJob(S)}], LastJob(S))
  BY TurnUnfolds
<1> HIDE DEF jobs
<1>3. ASSUME NEW acc, acc = [left |-> remaining[p], orders |-> orders, results |-> results]
      PROVE  LoopIsFair(p, {}, acc)
  <2>1. acc.left = remaining[p] /\ acc.orders = orders /\ acc.results = results
    BY <1>3
  <2>2. acc.orders \ orders = {} /\ Cardinality({}) = 0
    BY <2>1, FS_EmptySet
  <2>3. remaining[p] \in Nat /\ results \in [Jobs -> Outcomes]
    BY DEF VersionsTyped
  <2>4. TurnIsFair(p, {}, {}, results)
    BY <2>2, <2>3 DEF TurnIsFair
  <2>5. /\ acc.orders = orders \cup {} /\ acc.left \in Nat
        /\ acc.left + 0 = remaining[p]
    BY <2>1, <2>3
  <2> QED BY <2>1, <2>2, <2>3, <2>4, <2>5 DEF LoopIsFair
<1>4. ASSUME NEW S \in SUBSET Jobs, NEW j \in Jobs \ S, NEW acc, LoopIsFair(p, open(S), acc)
      PROVE  LoopIsFair(p, open(S \cup {j}), OldStep(p, acc, j))
  <2>1. CASE results[j] # NoResult
    <3>1. acc.results[j] = results[j]
      BY <1>4 DEF LoopIsFair
    <3>2. OldStep(p, acc, j) = acc
      BY <2>1, <3>1 DEF OldStep
    <3>3. open(S \cup {j}) = open(S)
      BY <2>1
    <3> QED BY <1>4, <3>2, <3>3
  <2>2. CASE results[j] = NoResult
    <3>1. PICK P : P = open(S)
      OBVIOUS
    <3>2. open(S \cup {j}) = P \cup {j} /\ j \in Jobs \ P /\ P \in SUBSET Jobs
      BY <2>2, <3>1
    <3>3. LoopIsFair(p, P, acc)
      BY <1>4, <3>1
    <3> HIDE DEF open
    <3>4. LoopIsFair(p, P \cup {j}, OldStep(p, acc, j))
      BY <2>2, <3>2, <3>3, VerdictIsFair
    <3> QED BY <3>2, <3>4
  <2> QED BY <2>1, <2>2
<1>5. ASSUME NEW S \in SUBSET jobs PROVE IsFiniteSet(S) /\ Cardinality(S) \in Nat
  BY <1>1, CatalogAssumption, FS_Subset, FS_CardinalityType DEF CatalogAssumption
<1> DEFINE Bad == {S \in SUBSET jobs : ~ LoopIsFair(p, open(S), after[S])}
<1>6. Bad = {}
  <2> SUFFICES ASSUME Bad # {} PROVE FALSE
    OBVIOUS
  <2>1. {Cardinality(S) : S \in Bad} \in SUBSET Nat /\ {Cardinality(S) : S \in Bad} # {}
    BY <1>5
  <2>2. PICK n \in {Cardinality(S) : S \in Bad} : \A m \in {Cardinality(S) : S \in Bad} : n <= m
    BY <2>1, LeastNatural
  <2>3. PICK S \in Bad : n = Cardinality(S)
    BY <2>2
  <2>4. S \in SUBSET jobs /\ ~ LoopIsFair(p, open(S), after[S])
    BY <2>3
  <2>5. S # {}
    <3>1. open({}) = {}
      OBVIOUS
    <3>2. LoopIsFair(p, {}, after[{}])
      BY <1>2, <1>3
    <3> QED BY <2>4, <3>1, <3>2
  <2>6. LastJob(S) \in S /\ LastJob(S) \in Jobs
    BY <1>1, <2>4, <2>5, LastJobIsOneOf
  <2>7. PICK before : before = S \ {LastJob(S)}
    OBVIOUS
  <2>8. /\ before \in SUBSET jobs /\ before \in SUBSET Jobs
        /\ LastJob(S) \notin before /\ S = before \cup {LastJob(S)}
    BY <1>1, <2>4, <2>6, <2>7
  <2>9. after[S] = OldStep(p, after[before], LastJob(S))
    BY <1>2, <2>4, <2>5, <2>7
  <2> HIDE DEF open
  <2>10. before \in Bad
    BY <1>4, <2>4, <2>6, <2>8, <2>9
  <2>11. n <= Cardinality(before)
    BY <2>2, <2>10
  <2>12. Cardinality(before) = Cardinality(S) - 1
    BY <1>5, <2>4, <2>6, <2>7, FS_RemoveElement
  <2> QED BY <1>5, <2>3, <2>4, <2>11, <2>12
<1>7. LoopIsFair(p, open(jobs), after[jobs])
  BY <1>6
<1>8. open(jobs) = PendingJobs(b, p, results)
  BY DEF PendingJobs, jobs
<1> QED BY <1>2, <1>7, <1>8

\* Of the pending jobs of one pair the one named first stands for the pair.
LEMMA PairHasFirst ==
  ASSUME NEW b \in Seq(Jobs), NEW pending \in SUBSET JobsIn(b), NEW j \in pending
  PROVE  \E k \in pending : SamePair(j, k) /\ FirstOfPair(b, pending, k)
<1> DEFINE rivals == {k \in pending : SamePair(j, k)}
<1>1. \A k \in rivals : Ordinal(b, k) \in Nat
  BY OrdinalOfJob
<1>2. j \in rivals
  BY DEF SamePair
<1>3. {Ordinal(b, k) : k \in rivals} \in SUBSET Nat /\ {Ordinal(b, k) : k \in rivals} # {}
  BY <1>1, <1>2
<1>4. PICK n \in {Ordinal(b, k) : k \in rivals} : \A m \in {Ordinal(b, k) : k \in rivals} : n <= m
  BY <1>3, LeastNatural
<1>5. PICK k \in rivals : n = Ordinal(b, k)
  BY <1>4
<1>6. \A i \in pending : SamePair(k, i) => i \in rivals
  BY <1>5 DEF SamePair
<1>7. \A i \in rivals : Ordinal(b, k) <= Ordinal(b, i)
  BY <1>4, <1>5
<1> QED BY <1>5, <1>6, <1>7 DEF FirstOfPair

\* Migration 3: the set-based decision is fair as well.
LEMMA NewTurnIsFair ==
  ASSUME VersionsTyped, NEW b \in Seq(Jobs), NEW p \in Products
  PROVE  LET turn == NewTurn(b, p)
         IN  /\ turn.pending = PendingJobs(b, p, results)
             /\ TurnIsFair(p, turn.pending, turn.won, turn.results)
<1> DEFINE pending  == PendingJobs(b, p, results)
           eligible == EligibleJobs(b, pending, orders, active[p])
           chosen   == {j \in eligible : StockRank(b, eligible, j) <= remaining[p]}
           won      == InsertedOrders(b, eligible, orders, remaining[p])
           given(j) == Outcome(b, pending, won, orders, active[p], j)
<1>1. pending \subseteq JobsIn(b) /\ pending \subseteq Jobs /\ eligible \subseteq pending
  BY JobsInBatch DEF PendingJobs, For, EligibleJobs
<1>2. /\ won \cap orders = {}
      /\ \A j \in won, k \in orders : ~ SamePair(j, k)
      /\ \A j, k \in won : SamePair(j, k) => j = k
  BY InsertedIsFair
<1>3. won = chosen
  BY AllChosenAreInserted
<1>4. \A j \in pending : j \in eligible <=>
        FirstOfPair(b, pending, j) /\ ~ AlreadyPurchased(orders, j) /\ active[p]
  BY DEF EligibleJobs
<1>5. remaining[p] \in Nat
  BY DEF VersionsTyped
<1> HIDE DEF pending, eligible, won
<1>6. Cardinality(won) \in Nat /\ Cardinality(won) <= remaining[p]
  <2>1. IsFiniteSet(won)
    BY <1>1, <1>3, CatalogAssumption, FS_Subset DEF CatalogAssumption
  <2>2. eligible \in SUBSET JobsIn(b)
    BY <1>1
  <2> QED BY <1>5, <2>1, <2>2, FS_CardinalityType, StockBoundsInserted DEF won
<1>7. ASSUME NEW j \in eligible, j \notin won PROVE Cardinality(won) = remaining[p]
  <2>1. ~ (StockRank(b, eligible, j) <= remaining[p])
    BY <1>3, <1>7
  <2>2. Cardinality(won) >= remaining[p]
    BY <1>1, <1>3, <1>5, <2>1, StockIsUsedUp
  <2> QED BY <1>5, <1>6, <2>2
<1>8. active[p] => \/ Cardinality(won) = remaining[p]
                   \/ \A j \in pending : AlreadyPurchased(orders \cup won, j)
  <2> SUFFICES ASSUME active[p], Cardinality(won) # remaining[p], NEW j \in pending
               PROVE  AlreadyPurchased(orders \cup won, j)
    OBVIOUS
  <2>1. PICK k \in pending : SamePair(j, k) /\ FirstOfPair(b, pending, k)
    BY <1>1, PairHasFirst
  <2>2. CASE AlreadyPurchased(orders, k)
    BY <2>1, <2>2 DEF AlreadyPurchased, SamePair
  <2>3. CASE ~ AlreadyPurchased(orders, k)
    BY <1>4, <1>7, <2>1, <2>3 DEF AlreadyPurchased
  <2> QED BY <2>2, <2>3
<1>9. ASSUME NEW j \in pending
      PROVE  /\ given(j) \in Statuses
             /\ given(j) = "SUCCESS" <=> j \in won
             /\ given(j) = "REJECTED_SOLD_OUT" => Cardinality(won) = remaining[p]
             /\ given(j) = "REJECTED_INACTIVE" => ~ active[p]
             /\ given(j) = "REJECTED_DUPLICATE" =>
                  \E k \in Jobs \ {j} : SamePair(j, k) /\ (k \in pending \/ results[k] # NoResult)
  <2>1. given(j) \in Statuses
    BY OutcomeIsStatus
  <2>2. given(j) = "SUCCESS" <=> j \in won
    BY DEF Outcome
  <2>3. given(j) = "REJECTED_SOLD_OUT" => Cardinality(won) = remaining[p]
    <3>1. given(j) = "REJECTED_SOLD_OUT" => j \notin won /\ j \in eligible
      BY <1>4 DEF Outcome
    <3> QED BY <1>7, <3>1
  <2>4. given(j) = "REJECTED_INACTIVE" => ~ active[p]
    BY DEF Outcome
  <2>5. given(j) = "REJECTED_DUPLICATE" =>
          \E k \in Jobs \ {j} : SamePair(j, k) /\ (k \in pending \/ results[k] # NoResult)
    <3>1. given(j) = "REJECTED_DUPLICATE" =>
            ~ FirstOfPair(b, pending, j) \/ AlreadyPurchased(orders, j)
      BY DEF Outcome
    <3>2. ~ FirstOfPair(b, pending, j) =>
            \E k \in Jobs \ {j} : SamePair(j, k) /\ k \in pending
      <4>1. Ordinal(b, j) \in Nat
        BY <1>1, OrdinalOfJob
      <4> QED BY <1>1, <4>1 DEF FirstOfPair
    <3>3. AlreadyPurchased(orders, j) =>
            \E k \in Jobs \ {j} : SamePair(j, k) /\ results[k] # NoResult
      <4>1. results[j] = NoResult
        BY DEF pending, PendingJobs
      <4> QED BY <4>1 DEF AlreadyPurchased, VersionsTyped, NoResult
    <3> QED BY <3>1, <3>2, <3>3
  <2> QED BY <2>1, <2>2, <2>3, <2>4, <2>5
<1> DEFINE r == [j \in pending |-> given(j)]
<1>10. TurnIsFair(p, pending, won, r)
  <2>1. /\ won \subseteq pending
        /\ \A j \in won : ~ AlreadyPurchased(orders, j)
        /\ won # {} => active[p]
    BY <1>1, <1>3, <1>4
  <2>2. \A j \in pending : r[j] = given(j)
    OBVIOUS
  <2> HIDE DEF r, given
  <2> QED BY <1>2, <1>6, <1>8, <1>9, <2>1, <2>2 DEF TurnIsFair
<1> QED BY <1>10 DEF NewTurn, pending, eligible, won

-----------------------------------------------------------------------------
(***************************************************************************)
(* What a fair call is.                                                    *)
(***************************************************************************)
\* A call that grants the orders e.won and leaves the results e.results is fair to every
\* product, and touches the results of pending jobs of existing products only.
EffectIsFair(b, e) ==
  /\ e.won \subseteq {j \in Jobs : JobProduct[j] \in Products}
  /\ e.results \in [Jobs -> Outcomes]
  /\ \A p \in Products : TurnIsFair(p, PendingJobs(b, p, results), For(p, e.won), e.results)
  /\ \A j \in Jobs : e.results[j] # results[j] =>
       JobProduct[j] \in Products /\ j \in PendingJobs(b, JobProduct[j], results)

\* Fair turns over all products, each with its own answers, make a fair call.
LEMMA TurnsMakeEffect ==
  ASSUME VersionsTyped, NEW b \in Seq(Jobs), NEW sold, NEW given, NEW e,
         \A p \in Products : TurnIsFair(p, PendingJobs(b, p, results), sold[p], given[p]),
         e.won = UNION {sold[p] : p \in Products},
         e.results = [j \in Jobs |->
            IF JobProduct[j] \in Products /\ j \in PendingJobs(b, JobProduct[j], results)
            THEN given[JobProduct[j]][j] ELSE results[j]]
  PROVE  EffectIsFair(b, e)
<1> DEFINE P(p) == PendingJobs(b, p, results)
<1>1. \A p : P(p) \subseteq Jobs /\ \A j \in P(p) : JobProduct[j] = p
  BY JobsInBatch DEF PendingJobs, For
<1> HIDE DEF P
<1>2. ASSUME NEW p \in Products
      PROVE  /\ sold[p] \subseteq P(p)
             /\ \A j \in P(p) : given[p][j] \in Statuses
  BY DEF TurnIsFair, P
<1>3. e.won \subseteq {j \in Jobs : JobProduct[j] \in Products}
  BY <1>1, <1>2
<1>4. \A p \in Products : For(p, e.won) = sold[p]
  BY <1>1, <1>2 DEF For
<1>5. \A j \in Jobs : e.results[j] = IF JobProduct[j] \in Products /\ j \in P(JobProduct[j])
                                     THEN given[JobProduct[j]][j] ELSE results[j]
  BY DEF P
<1>6. \A p \in Products : \A j \in P(p) : e.results[j] = given[p][j]
  BY <1>1, <1>5
<1>7. e.results \in [Jobs -> Outcomes]
  <2>1. \A j \in Jobs : e.results[j] \in Outcomes
    BY <1>2, <1>5 DEF Outcomes, VersionsTyped
  <2> QED BY <2>1
<1>8. ASSUME NEW p \in Products PROVE TurnIsFair(p, P(p), For(p, e.won), e.results)
  <2>1. TurnIsFair(p, P(p), sold[p], given[p])
    BY DEF P
  <2>2. \A j \in P(p) : e.results[j] = given[p][j]
    BY <1>6
  <2>3. For(p, e.won) = sold[p]
    BY <1>4
  <2> QED BY ONLY <2>1, <2>2, <2>3 DEF TurnIsFair
<1> QED BY <1>3, <1>5, <1>7, <1>8 DEF EffectIsFair, P

\* Migrations 1 and 2, over all products.
LEMMA OldRuleIsFair ==
  ASSUME VersionsTyped, NEW b \in Seq(Jobs)
  PROVE  EffectIsFair(b, OldRule(b))
<1> DEFINE sold  == [p \in Products |-> OldTurn(b, p).orders \ orders]
           given == [p \in Products |-> OldTurn(b, p).results]
<1>1. \A p \in Products : LoopIsFair(p, PendingJobs(b, p, results), OldTurn(b, p))
  BY OldTurnIsFair
<1>2. \A p \in Products : TurnIsFair(p, PendingJobs(b, p, results), sold[p], given[p])
  BY <1>1 DEF LoopIsFair
<1>3. OldRule(b).won = UNION {sold[p] : p \in Products}
  BY DEF OldRule
<1>4. \A j \in Jobs : JobProduct[j] \in Products =>
        (j \notin PendingJobs(b, JobProduct[j], results)
           => OldTurn(b, JobProduct[j]).results[j] = results[j])
  BY <1>1 DEF LoopIsFair
<1>5. OldRule(b).results = [j \in Jobs |->
         IF JobProduct[j] \in Products /\ j \in PendingJobs(b, JobProduct[j], results)
         THEN given[JobProduct[j]][j] ELSE results[j]]
  BY <1>4 DEF OldRule
<1> HIDE DEF sold, given
<1> QED BY <1>2, <1>3, <1>5, TurnsMakeEffect

\* Migration 3, over all products.
LEMMA NewRuleIsFair ==
  ASSUME VersionsTyped, NEW b \in Seq(Jobs)
  PROVE  EffectIsFair(b, NewRule(b))
<1> DEFINE sold  == [p \in Products |-> NewTurn(b, p).won]
           given == [p \in Products |-> NewTurn(b, p).results]
<1>1. \A p \in Products : /\ NewTurn(b, p).pending = PendingJobs(b, p, results)
                         /\ TurnIsFair(p, NewTurn(b, p).pending, NewTurn(b, p).won,
                                       NewTurn(b, p).results)
  BY NewTurnIsFair
<1>2. \A p \in Products : TurnIsFair(p, PendingJobs(b, p, results), sold[p], given[p])
  BY <1>1
<1>3. NewRule(b).won = UNION {sold[p] : p \in Products}
  BY DEF NewRule
<1>4. NewRule(b).results = [j \in Jobs |->
         IF JobProduct[j] \in Products /\ j \in PendingJobs(b, JobProduct[j], results)
         THEN given[JobProduct[j]][j] ELSE results[j]]
  BY <1>1 DEF NewRule
<1> HIDE DEF sold, given
<1> QED BY <1>2, <1>3, <1>4, TurnsMakeEffect

\* Two fair turns of one product in one state sell equally much: were there one that
\* sold less, stock would be left to it, so each buyer the other one served would have
\* been served by it, and by an order for each.
LEMMA FairTurnsSellAlike ==
  ASSUME VersionsTyped, NEW p \in Products, NEW P \in SUBSET Jobs,
         NEW X, NEW Y, NEW r, NEW s, TurnIsFair(p, P, X, r), TurnIsFair(p, P, Y, s)
  PROVE  Cardinality(Y) <= Cardinality(X)
<1>1. /\ X \subseteq P /\ Y \subseteq P
      /\ \A j \in Y : ~ AlreadyPurchased(orders, j)
      /\ \A j, k \in Y : SamePair(j, k) => j = k
      /\ Y # {} => active[p]
      /\ Cardinality(Y) <= remaining[p]
      /\ active[p] => \/ Cardinality(X) = remaining[p]
                      \/ \A j \in P : AlreadyPurchased(orders \cup X, j)
  BY DEF TurnIsFair
<1>2. IsFiniteSet(X) /\ Cardinality(X) \in Nat
  BY <1>1, CatalogAssumption, FS_Subset, FS_CardinalityType DEF CatalogAssumption
<1>3. CASE Y = {}
  BY <1>2, <1>3, FS_EmptySet
<1>4. CASE Y # {} /\ \A j \in P : AlreadyPurchased(orders \cup X, j)
  <2>1. \A j \in Y : \E k \in X : SamePair(j, k)
    BY <1>1, <1>4 DEF AlreadyPurchased
  <2> DEFINE f == [j \in Y |-> CHOOSE k \in X : SamePair(j, k)]
  <2>2. \A j \in Y : f[j] \in X /\ SamePair(j, f[j])
    BY <2>1
  <2>3. f \in [Y -> X]
    BY <2>2
  <2> HIDE DEF f
  <2>4. ASSUME NEW j \in Y, NEW k \in Y, f[j] = f[k] PROVE j = k
    BY <1>1, <2>2, <2>4 DEF SamePair
  <2>5. f \in Injection(Y, X)
    BY <2>3, <2>4 DEF Injection, IsInjective
  <2> QED BY <1>2, <2>5, FS_Injection
<1>5. CASE Y # {} /\ Cardinality(X) = remaining[p]
  BY <1>1, <1>5
<1> QED BY <1>1, <1>3, <1>4, <1>5

\* So do two fair calls with one batch in one state, product by product.
LEMMA FairEffectsSellAlike ==
  ASSUME VersionsTyped, NEW b \in Seq(Jobs), NEW e, NEW f,
         EffectIsFair(b, e), EffectIsFair(b, f)
  PROVE  StockAfter(e.won) = StockAfter(f.won) /\ OutboxAfter(e.won) = OutboxAfter(f.won)
<1>1. ASSUME NEW p \in Products
      PROVE  /\ Cardinality(For(p, e.won)) = Cardinality(For(p, f.won))
             /\ For(p, e.won) = {} <=> For(p, f.won) = {}
  <2>1. PICK P, X, Y : /\ P = PendingJobs(b, p, results)
                       /\ X = For(p, e.won) /\ Y = For(p, f.won)
    OBVIOUS
  <2>2. P \in SUBSET Jobs /\ X \in SUBSET Jobs /\ Y \in SUBSET Jobs
    BY <2>1, JobsInBatch DEF PendingJobs, EffectIsFair, For
  <2>3. TurnIsFair(p, P, X, e.results) /\ TurnIsFair(p, P, Y, f.results)
    BY <2>1 DEF EffectIsFair
  <2>4. Cardinality(Y) <= Cardinality(X) /\ Cardinality(X) <= Cardinality(Y)
    BY <2>2, <2>3, FairTurnsSellAlike
  <2>5. IsFiniteSet(X) /\ IsFiniteSet(Y)
    BY <2>2, CatalogAssumption, FS_Subset DEF CatalogAssumption
  <2>6. Cardinality(X) = Cardinality(Y)
    BY <2>4, <2>5, FS_CardinalityType
  <2>7. X = {} <=> Y = {}
    BY <2>5, <2>6, FS_EmptySet
  <2>8. /\ Cardinality(X) = Cardinality(Y)
        /\ X = {} <=> Y = {}
    BY <2>6, <2>7
  <2> QED BY ONLY <2>1, <2>8
<1> QED BY <1>1 DEF StockAfter, OutboxAfter

-----------------------------------------------------------------------------
(***************************************************************************)
(* The inductive invariant.                                                *)
(***************************************************************************)
\* Typing alone is what the rules need to be fair, so nothing else has to be added to
\* the answers for the conjunction to be inductive.
VersionsInv == VersionsTyped /\ KnownJobsAreAnswered

\* A call that returns is one of the two rules at work.
LEMMA CallIsFair ==
  ASSUME VersionsTyped, NEW b \in Batches, CallOld(b) \/ CallNew(b)
  PROVE  /\ b \in Seq(Jobs)
         /\ \E e : EffectIsFair(b, e) /\ CallReturns(b, e)
<1>1. b \in Seq(Jobs)
  BY VersionsAssumption DEF VersionsAssumption
<1>2. CASE CallOld(b)
  BY <1>1, <1>2, OldRuleIsFair DEF CallOld
<1>3. CASE CallNew(b)
  BY <1>1, <1>3, NewRuleIsFair DEF CallNew
<1> QED BY <1>1, <1>2, <1>3

\* What a fair call decides, job by job.
LEMMA DecidedByCall ==
  ASSUME VersionsTyped, NEW b \in Seq(Jobs), NEW e, EffectIsFair(b, e)
  PROVE  /\ \A j \in Jobs : results[j] # NoResult => e.results[j] = results[j]
         /\ \A j \in JobsIn(b) : JobProduct[j] \in Products => e.results[j] # NoResult
         /\ \A j \in Jobs : j \in e.won <=> results[j] = NoResult /\ e.results[j] = "SUCCESS"
<1> DEFINE P(p) == PendingJobs(b, p, results)
<1>1. \A p, j : j \in P(p) <=> j \in JobsIn(b) /\ JobProduct[j] = p /\ results[j] = NoResult
  BY DEF PendingJobs, For
<1> HIDE DEF P
<1>2. /\ e.won \subseteq {j \in Jobs : JobProduct[j] \in Products}
      /\ \A j \in Jobs : e.results[j] # results[j] =>
           JobProduct[j] \in Products /\ j \in P(JobProduct[j])
  BY DEF EffectIsFair, P
<1>3. ASSUME NEW p \in Products
      PROVE  /\ For(p, e.won) \subseteq P(p)
             /\ \A j \in P(p) : /\ e.results[j] \in Statuses
                                /\ e.results[j] = "SUCCESS" <=> j \in For(p, e.won)
  BY DEF EffectIsFair, TurnIsFair, P
<1>4. \A j \in Jobs : results[j] # NoResult => e.results[j] = results[j]
  BY <1>1, <1>2
<1>5. \A j \in JobsIn(b) : JobProduct[j] \in Products => e.results[j] # NoResult
  <2> SUFFICES ASSUME NEW j \in JobsIn(b), JobProduct[j] \in Products
               PROVE  e.results[j] # NoResult
    OBVIOUS
  <2>1. j \in Jobs
    BY JobsInBatch
  <2>2. CASE results[j] = NoResult
    BY <1>1, <1>3, <2>2 DEF Statuses, NoResult
  <2>3. CASE results[j] # NoResult
    BY <1>4, <2>1, <2>3
  <2> QED BY <2>2, <2>3
<1>6. ASSUME NEW j \in e.won PROVE results[j] = NoResult /\ e.results[j] = "SUCCESS"
  <2>1. JobProduct[j] \in Products /\ j \in For(JobProduct[j], e.won)
    BY <1>2 DEF For
  <2> QED BY <1>1, <1>3, <2>1
<1>7. ASSUME NEW j \in Jobs, results[j] = NoResult, e.results[j] = "SUCCESS" PROVE j \in e.won
  <2>1. JobProduct[j] \in Products /\ j \in P(JobProduct[j])
    BY <1>2, <1>7 DEF NoResult
  <2> QED BY <1>3, <1>7, <2>1 DEF For
<1>8. \A j \in Jobs : j \in e.won <=> results[j] = NoResult /\ e.results[j] = "SUCCESS"
  BY <1>6, <1>7
<1> QED BY <1>4, <1>5, <1>8

\* What a fair call sells of one product is there to be sold.
LEMMA SaleIsCovered ==
  ASSUME VersionsTyped, NEW b \in Seq(Jobs), NEW e, EffectIsFair(b, e), NEW p \in Products
  PROVE  /\ Cardinality(For(p, e.won)) \in Nat /\ remaining[p] \in Nat
         /\ Cardinality(For(p, e.won)) <= remaining[p]
<1>1. Cardinality(For(p, e.won)) <= remaining[p]
  BY DEF EffectIsFair, TurnIsFair
<1>2. e.won \in SUBSET Jobs
  BY DEF EffectIsFair
<1> QED BY <1>1, <1>2, CountFor DEF VersionsTyped

\* A fair call keeps the invariant, so every version does.
LEMMA CallKeepsInv ==
  ASSUME VersionsTyped, NEW b \in Seq(Jobs), NEW e, EffectIsFair(b, e), CallReturns(b, e)
  PROVE  VersionsInv'
<1>1. /\ \A j \in Jobs : results[j] # NoResult => e.results[j] = results[j]
      /\ \A j \in JobsIn(b) : JobProduct[j] \in Products => e.results[j] # NoResult
      /\ \A j \in Jobs : j \in e.won <=> results[j] = NoResult /\ e.results[j] = "SUCCESS"
  BY DecidedByCall
<1>2. /\ e.won \in SUBSET Jobs /\ e.results \in [Jobs -> Outcomes]
  BY DEF EffectIsFair
<1>3. /\ remaining' = StockAfter(e.won) /\ orders' = orders \cup e.won
      /\ results' = e.results /\ outbox' = OutboxAfter(e.won)
      /\ asked' = b /\ answered' = Rows(b)
      /\ active' = active /\ installed' = installed
  BY DEF CallReturns
<1>4. remaining' \in [Products -> Nat]
  <2>1. \A p \in Products : remaining[p] - Cardinality(For(p, e.won)) \in Nat
    <3> TAKE p \in Products
    <3>1. /\ Cardinality(For(p, e.won)) \in Nat /\ remaining[p] \in Nat
          /\ Cardinality(For(p, e.won)) <= remaining[p]
      BY SaleIsCovered
    <3> QED BY <3>1
  <2> QED BY <1>3, <2>1 DEF StockAfter
<1>5. outbox' \in [Products -> Nat]
  BY <1>3 DEF OutboxAfter, VersionsTyped
<1>6. \A j \in Jobs : j \in orders' <=> results'[j] = "SUCCESS"
  BY <1>1, <1>3 DEF VersionsTyped, NoResult
<1>7. VersionsTyped'
  BY <1>2, <1>3, <1>4, <1>5, <1>6 DEF VersionsTyped
<1>8. KnownJobsAreAnswered'
  <2> SUFFICES ASSUME NEW j \in JobsIn(asked)', JobProduct[j] \in Products
               PROVE  answered'[j] # NoResult /\ answered'[j] = results'[j]
    BY DEF KnownJobsAreAnswered
  <2>1. j \in JobsIn(b)
    BY <1>3 DEF JobsIn
  <2>2. j \in Jobs
    BY <2>1, JobsInBatch
  <2>3. answered'[j] = results'[j]
    BY <1>3, <2>1, <2>2 DEF Rows
  <2> QED BY <1>1, <1>3, <2>1, <2>3
<1> QED BY <1>7, <1>8 DEF VersionsInv

LEMMA InvInitially == Init => VersionsInv
<1> SUFFICES ASSUME Init PROVE VersionsInv
  OBVIOUS
<1>1. VersionsTyped
  BY CatalogAssumption, VersionsAssumption
     DEF Init, VersionsTyped, NoRows, NoResult, Outcomes, CatalogAssumption, VersionsAssumption
<1>2. JobsIn(asked) = {}
  BY DEF Init, JobsIn
<1> QED BY <1>1, <1>2 DEF VersionsInv, KnownJobsAreAnswered

LEMMA InvStep == VersionsInv /\ [Next]_vars => VersionsInv'
<1> SUFFICES ASSUME VersionsInv, [Next]_vars PROVE VersionsInv'
  OBVIOUS
<1>0. VersionsTyped /\ KnownJobsAreAnswered
  BY DEF VersionsInv
<1>1. ASSUME NEW b \in Batches, CallOld(b) \/ CallNew(b) PROVE VersionsInv'
  BY <1>0, <1>1, CallIsFair, CallKeepsInv
<1>2. CASE MigrateUp \/ MigrateDown
  <2>1. /\ UNCHANGED <<remaining, active, orders, results, outbox, asked, answered>>
        /\ installed' \in 0..3
    BY <1>0, <1>2 DEF MigrateUp, MigrateDown, tables, VersionsTyped
  <2> QED BY <1>0, <2>1 DEF VersionsInv, VersionsTyped, KnownJobsAreAnswered
<1>3. CASE RunSeed
  <2>1. active' \in [Products -> BOOLEAN]
    BY <1>3, VersionsAssumption DEF RunSeed, VersionsAssumption
  <2> QED BY <1>0, <1>3, <2>1 DEF VersionsInv, VersionsTyped, KnownJobsAreAnswered, RunSeed
<1>4. CASE UNCHANGED vars
  BY <1>0, <1>4 DEF VersionsInv, VersionsTyped, KnownJobsAreAnswered, vars, tables
<1>5. \A b \in Batches : CallFails(b) => UNCHANGED vars
  BY DEF CallFails
<1> QED BY <1>1, <1>2, <1>3, <1>4, <1>5 DEF Next

-----------------------------------------------------------------------------
(***************************************************************************)
(* The theorems.                                                           *)
(***************************************************************************)
\* The tables keep their types, and orders and results agree, whichever versions of
\* place_order_batch have run.
THEOREM VersionsAreTyped == Spec => []VersionsTyped
<1>1. VersionsInv => VersionsTyped
  BY DEF VersionsInv
<1> QED BY <1>1, InvInitially, InvStep, PTL DEF Spec

\* A call answers every job of an existing product with its durable result, under each
\* version and also for a job that another version has decided.
THEOREM KnownJobsAreAlwaysAnswered == Spec => []KnownJobsAreAnswered
<1>1. VersionsInv => KnownJobsAreAnswered
  BY DEF VersionsInv
<1> QED BY <1>1, InvInitially, InvStep, PTL DEF Spec

\* In every reachable state a batch that the installed version accepts sells as much of
\* each product, and announces as many products, under the loop of migrations 1 and 2
\* as under the rule of migration 3: an upgrade or a rollback never changes the sales.
THEOREM SalesNeverDependOnVersion == Spec => []SameSalesInEveryVersion
<1>1. VersionsTyped => SameSalesInEveryVersion
  <2> SUFFICES ASSUME VersionsTyped, NEW b \in Batches
               PROVE  /\ StockAfter(OldRule(b).won) = StockAfter(NewRule(b).won)
                      /\ OutboxAfter(OldRule(b).won) = OutboxAfter(NewRule(b).won)
    BY DEF SameSalesInEveryVersion
  <2>1. b \in Seq(Jobs)
    BY VersionsAssumption DEF VersionsAssumption
  <2>2. EffectIsFair(b, OldRule(b)) /\ EffectIsFair(b, NewRule(b))
    BY <2>1, OldRuleIsFair, NewRuleIsFair
  <2> QED BY <2>1, <2>2, FairEffectsSellAlike
<1> QED BY <1>1, VersionsAreTyped, PTL

-----------------------------------------------------------------------------
(***************************************************************************)
(* The refinement.                                                         *)
(***************************************************************************)
\* The promise speaks of the same catalog as the versions.
LEMMA SameCatalog ==
  /\ Promise!Outcomes = Outcomes /\ Promise!NoResult = NoResult
  /\ \A j, k : Promise!SamePair(j, k) <=> SamePair(j, k)
  /\ \A p, S : Promise!For(p, S) = For(p, S)
BY DEF Promise!Outcomes, Outcomes, Promise!Statuses, Statuses, Promise!NoResult, NoResult,
       Promise!SamePair, SamePair, Promise!For, For

LEMMA SameCount == ASSUME NEW S PROVE Promise!Cardinality(S) = Cardinality(S)
BY DEF Promise!Cardinality, Cardinality

\* A fair call decides jobs that had no result, sells what it takes from the stock, and
\* tells the truth about every rejection.
LEMMA CallIsDecide ==
  ASSUME VersionsTyped, NEW b \in Seq(Jobs), NEW e, EffectIsFair(b, e), CallReturns(b, e)
  PROVE  Promise!Decide
<1> DEFINE P(p) == PendingJobs(b, p, results)
           new  == Promise!DecidedNow
<1>1. /\ \A j \in Jobs : results[j] # NoResult => e.results[j] = results[j]
      /\ \A j \in JobsIn(b) : JobProduct[j] \in Products => e.results[j] # NoResult
      /\ \A j \in Jobs : j \in e.won <=> results[j] = NoResult /\ e.results[j] = "SUCCESS"
  BY DecidedByCall
<1>2. /\ e.won \in SUBSET Jobs /\ e.results \in [Jobs -> Outcomes]
      /\ \A j \in Jobs : e.results[j] # results[j] =>
           JobProduct[j] \in Products /\ j \in P(JobProduct[j])
  BY DEF EffectIsFair
<1>3. /\ remaining' = [p \in Products |-> remaining[p] - Cardinality(For(p, e.won))]
      /\ results' = e.results /\ active' = active
  BY DEF CallReturns, StockAfter
<1>4. \A p, j : j \in P(p) <=> j \in JobsIn(b) /\ JobProduct[j] = p /\ results[j] = NoResult
  BY DEF PendingJobs, For
<1>5. \A j : j \in new <=> j \in Jobs /\ e.results[j] # results[j]
  BY <1>3 DEF Promise!DecidedNow
<1>6. \A p : Promise!SoldNow(p) = For(p, {j \in new : e.results[j] = "SUCCESS"})
  BY <1>3, SameCatalog DEF Promise!SoldNow
<1> HIDE DEF P, new
<1>7. \A j \in new : /\ j \in Jobs /\ results[j] = NoResult
                     /\ JobProduct[j] \in Products /\ j \in P(JobProduct[j])
  BY <1>2, <1>4, <1>5
<1>8. {j \in new : e.results[j] = "SUCCESS"} = e.won
  BY <1>1, <1>2, <1>5, <1>7 DEF NoResult
<1>9. ASSUME NEW p \in Products
      PROVE  /\ \A j \in For(p, e.won) : ~ AlreadyPurchased(orders, j)
             /\ \A j, k \in For(p, e.won) : SamePair(j, k) => j = k
             /\ For(p, e.won) # {} => active[p]
  BY DEF EffectIsFair, TurnIsFair
<1>10. \A p \in Products : \A j \in P(p) :
         /\ e.results[j] = "REJECTED_SOLD_OUT" => Cardinality(For(p, e.won)) = remaining[p]
         /\ e.results[j] = "REJECTED_INACTIVE" => ~ active[p]
         /\ e.results[j] = "REJECTED_DUPLICATE" =>
              \E k \in Jobs \ {j} : SamePair(j, k) /\ (k \in P(p) \/ results[k] # NoResult)
  BY DEF EffectIsFair, TurnIsFair, P
<1>11. ASSUME NEW j \in new, e.results[j] = "SUCCESS" PROVE Promise!WinIsFair(j)
  <2>1. j \in e.won /\ j \in Jobs /\ JobProduct[j] \in Products /\ j \in For(JobProduct[j], e.won)
    BY <1>7, <1>8, <1>11 DEF For
  <2> DEFINE mine == For(JobProduct[j], e.won)
  <2>a. /\ j \in mine
        /\ \A i, k \in mine : SamePair(i, k) => i = k
        /\ ~ AlreadyPurchased(orders, j)
    BY <1>9, <2>1
  <2>2. ASSUME NEW k \in Jobs \ {j}, SamePair(j, k) PROVE e.results[k] # "SUCCESS"
    <3> SUFFICES ASSUME e.results[k] = "SUCCESS" PROVE FALSE
      OBVIOUS
    <3>1. CASE results[k] = NoResult
      <4>1. k \in mine
        BY <1>1, <2>2, <3>1 DEF For, SamePair
      <4> QED BY <2>a, <2>2, <4>1
    <3>2. CASE results[k] # NoResult
      <4>1. k \in orders
        BY <1>1, <3>2 DEF VersionsTyped
      <4> QED BY <2>a, <2>2, <4>1 DEF AlreadyPurchased
    <3> QED BY <3>1, <3>2
  <2>3. active[JobProduct[j]]
    <3>1. mine # {}
      BY <2>a
    <3> QED BY <1>9, <2>1, <3>1
  <2> QED BY <1>3, <2>1, <2>2, <2>3, SameCatalog DEF Promise!WinIsFair
<1>12. ASSUME NEW j \in new, e.results[j] # "SUCCESS" PROVE Promise!RejectionIsFair(j)
  <2> DEFINE p == JobProduct[j]
  <2>1. p \in Products /\ j \in P(p) /\ j \in Jobs
    BY <1>7
  <2>2. e.results[j] = "REJECTED_SOLD_OUT" => remaining'[p] = 0
    <3>1. /\ remaining[p] \in Nat /\ remaining'[p] = remaining[p] - Cardinality(For(p, e.won))
      BY <1>3, <2>1 DEF VersionsTyped
    <3>2. e.results[j] = "REJECTED_SOLD_OUT" => Cardinality(For(p, e.won)) = remaining[p]
      BY <1>10, <2>1
    <3> HIDE DEF p
    <3> QED BY <3>1, <3>2
  <2>3. e.results[j] = "REJECTED_INACTIVE" => ~ active[p]
    BY <1>10, <2>1
  <2>4. e.results[j] = "REJECTED_DUPLICATE" =>
          \E k \in Jobs \ {j} : SamePair(j, k) /\ e.results[k] # NoResult
    <3>1. \A k \in P(p) : e.results[k] # NoResult
      BY <1>1, <1>4, <2>1
    <3>2. \A k \in Jobs : results[k] # NoResult => e.results[k] # NoResult
      BY <1>1
    <3> HIDE DEF p
    <3> QED BY <1>10, <2>1, <3>1, <3>2
  <2> QED BY <1>3, <2>2, <2>3, <2>4, SameCatalog DEF Promise!RejectionIsFair
<1>13. \A p \in Products : Promise!SoldNow(p) = For(p, e.won)
  BY <1>6, <1>8
<1>14. \A p \in Products : Cardinality(Promise!SoldNow(p)) <= remaining[p]
  BY <1>13, SaleIsCovered
<1>15. remaining' = [p \in Products |-> remaining[p] - Cardinality(Promise!SoldNow(p))]
  BY <1>3, <1>13
<1>16. \A j \in new :
         /\ JobProduct[j] \in Products
         /\ IF results'[j] = "SUCCESS" THEN Promise!WinIsFair(j) ELSE Promise!RejectionIsFair(j)
  BY <1>3, <1>7, <1>11, <1>12
<1>17. /\ results' \in [Jobs -> Promise!Outcomes]
       /\ \A j \in new : results[j] = Promise!NoResult
  BY <1>2, <1>3, <1>7, SameCatalog
<1> QED BY <1>3, <1>14, <1>15, <1>16, <1>17, SameCount DEF Promise!Decide, new

\* Calls, seeds, upgrades and rollbacks in any order keep the promise of the flash sale.
THEOREM VersionsKeepPromise == Spec => ImplementsFlashSale
<1>1. Init => Promise!Init
  BY VersionsAssumption, SameCatalog DEF Init, Promise!Init, NoRows, VersionsAssumption
<1>2. VersionsTyped /\ [Next]_vars => [Promise!Next]_(Promise!vars)
  <2> SUFFICES ASSUME VersionsTyped, [Next]_vars PROVE [Promise!Next]_(Promise!vars)
    OBVIOUS
  <2>1. ASSUME NEW b \in Batches, CallOld(b) \/ CallNew(b) PROVE Promise!Next
    BY <2>1, CallIsFair, CallIsDecide DEF Promise!Next
  <2>2. CASE RunSeed
    BY <2>2, VersionsAssumption DEF RunSeed, Promise!Next, Promise!Reseed, VersionsAssumption
  <2>3. \/ UNCHANGED <<remaining, active, results>> \/ RunSeed
        \/ \E b \in Batches : CallOld(b) \/ CallNew(b)
    BY DEF Next, CallFails, MigrateUp, MigrateDown, vars, tables
  <2> QED BY <2>1, <2>2, <2>3 DEF Promise!vars
<1> QED BY <1>1, <1>2, VersionsAreTyped, PTL DEF Spec, ImplementsFlashSale, Promise!Spec

-----------------------------------------------------------------------------
(***************************************************************************)
(* What follows from the promise alone, whoever keeps it.                  *)
(***************************************************************************)
\* Only jobs that ask for an existing product are ever decided.
DecidedAreKnown == \A j \in Jobs : results[j] # NoResult => JobProduct[j] \in Products

PromiseKept ==
  Promise!TypeOK /\ DecidedAreKnown /\ Promise!StockConserved
  /\ Promise!OnePurchasePerPair /\ Promise!SoldOutIsTrue

LEMMA KeptInitially == Promise!Init => PromiseKept
<1> SUFFICES ASSUME Promise!Init PROVE PromiseKept
  OBVIOUS
<1>0. /\ remaining = InitialStock /\ active \in [Products -> BOOLEAN]
      /\ results = [j \in Jobs |-> NoResult]
  BY SameCatalog DEF Promise!Init
<1>1. Promise!TypeOK
  BY <1>0, SameCatalog, CatalogAssumption DEF Promise!TypeOK, Outcomes, CatalogAssumption
<1>2. Promise!Winners = {}
  BY <1>0 DEF Promise!Winners, NoResult
<1>3. Promise!StockConserved
  <2> SUFFICES ASSUME NEW p \in Products
               PROVE  remaining[p] + Cardinality(For(p, Promise!Winners)) = InitialStock[p]
    BY SameCatalog, SameCount DEF Promise!StockConserved
  <2>1. Cardinality(For(p, Promise!Winners)) = 0
    BY <1>2, FS_EmptySet DEF For
  <2>2. remaining[p] = InitialStock[p] /\ remaining[p] \in Nat
    BY <1>0, CatalogAssumption DEF CatalogAssumption
  <2> QED BY <2>1, <2>2
<1>4. Promise!OnePurchasePerPair
  BY <1>2 DEF Promise!OnePurchasePerPair
<1>5. Promise!SoldOutIsTrue /\ DecidedAreKnown
  BY <1>0 DEF Promise!SoldOutIsTrue, DecidedAreKnown, NoResult
<1> QED BY <1>1, <1>3, <1>4, <1>5 DEF PromiseKept

LEMMA KeptByDecide ==
  ASSUME PromiseKept, Promise!Decide
  PROVE  PromiseKept'
<1> DEFINE old == {j \in Jobs : results[j] = "SUCCESS"}
           won == {j \in Jobs : results'[j] # results[j] /\ results'[j] = "SUCCESS"}
<1>0. /\ Promise!TypeOK /\ DecidedAreKnown /\ Promise!StockConserved
      /\ Promise!OnePurchasePerPair /\ Promise!SoldOutIsTrue
  BY DEF PromiseKept
<1>1. \A j \in Jobs : results'[j] # results[j] =>
        /\ results[j] = NoResult /\ JobProduct[j] \in Products
        /\ results'[j] = "SUCCESS" => Promise!WinIsFair(j)
        /\ results'[j] # "SUCCESS" => Promise!RejectionIsFair(j)
  BY SameCatalog DEF Promise!Decide, Promise!DecidedNow
\* The winners after a commit are the earlier ones and, apart from them, the new ones.
<1>2. /\ Promise!Winners = old /\ Promise!Winners' = old \cup won /\ old \cap won = {}
      /\ old \in SUBSET Jobs /\ won \in SUBSET Jobs
  BY <1>1 DEF Promise!Winners, NoResult
<1>3. \A p \in Products : Promise!SoldNow(p) = For(p, won)
  BY SameCatalog DEF Promise!SoldNow, Promise!DecidedNow, For
<1>4. /\ remaining' = [p \in Products |-> remaining[p] - Cardinality(For(p, won))]
      /\ \A p \in Products : Cardinality(For(p, won)) <= remaining[p]
      /\ results' \in [Jobs -> Outcomes] /\ active' = active
  BY <1>3, SameCatalog, SameCount DEF Promise!Decide
<1> HIDE DEF old, won
<1>5. \A p \in Products : /\ Cardinality(For(p, won)) \in Nat
                         /\ Cardinality(For(p, won)) <= remaining[p]
                         /\ remaining'[p] = remaining[p] - Cardinality(For(p, won))
                         /\ remaining[p] \in Nat
  BY <1>0, <1>2, <1>4, CountFor DEF Promise!TypeOK
<1>6. Promise!TypeOK'
  <2>1. \A p \in Products : remaining'[p] \in Nat
    BY <1>5
  <2> QED BY <1>0, <1>4, <2>1, SameCatalog DEF Promise!TypeOK
<1>7. DecidedAreKnown'
  BY <1>0, <1>1 DEF DecidedAreKnown
<1>8. Promise!StockConserved'
  <2> SUFFICES ASSUME NEW p \in Products
               PROVE  remaining'[p] + Cardinality(For(p, old \cup won)) = InitialStock[p]
    BY <1>2, SameCatalog, SameCount DEF Promise!StockConserved
  <2>1. Cardinality(For(p, old \cup won)) = Cardinality(For(p, old)) + Cardinality(For(p, won))
    BY <1>2, CountForUnion
  <2>2. remaining[p] + Cardinality(For(p, old)) = InitialStock[p]
    BY <1>0, <1>2, SameCatalog, SameCount DEF Promise!StockConserved
  <2>3. Cardinality(For(p, old)) \in Nat
    BY <1>2, CountFor
  <2> QED BY <1>5, <2>1, <2>2, <2>3
<1>9. Promise!OnePurchasePerPair'
  <2> SUFFICES ASSUME NEW j \in old \cup won, NEW k \in old \cup won, SamePair(j, k) PROVE j = k
    BY <1>2, SameCatalog DEF Promise!OnePurchasePerPair
  <2>1. /\ j \in Jobs /\ k \in Jobs /\ SamePair(k, j)
        /\ results'[j] = "SUCCESS" /\ results'[k] = "SUCCESS"
    BY <1>1 DEF SamePair, old, won, NoResult
  <2>2. CASE results'[j] # results[j]
    BY <1>1, <2>1, <2>2, SameCatalog DEF Promise!WinIsFair
  <2>3. CASE results'[k] # results[k]
    BY <1>1, <2>1, <2>3, SameCatalog DEF Promise!WinIsFair
  <2>4. CASE results'[j] = results[j] /\ results'[k] = results[k]
    BY <1>0, <2>1, <2>4, SameCatalog DEF Promise!OnePurchasePerPair, Promise!Winners
  <2> QED BY <2>2, <2>3, <2>4
<1>10. Promise!SoldOutIsTrue'
  <2> SUFFICES ASSUME NEW j \in Jobs, results'[j] = "REJECTED_SOLD_OUT"
               PROVE  remaining'[JobProduct[j]] = 0
    BY DEF Promise!SoldOutIsTrue
  <2>1. CASE results'[j] # results[j]
    BY <1>1, <2>1 DEF Promise!RejectionIsFair
  <2>2. CASE results'[j] = results[j]
    <3>1. JobProduct[j] \in Products /\ remaining[JobProduct[j]] = 0
      BY <1>0, <2>2 DEF DecidedAreKnown, Promise!SoldOutIsTrue, NoResult
    <3> QED BY <1>5, <3>1
  <2> QED BY <2>1, <2>2
<1> QED BY <1>6, <1>7, <1>8, <1>9, <1>10 DEF PromiseKept

LEMMA KeptByNext == PromiseKept /\ [Promise!Next]_(Promise!vars) => PromiseKept'
<1> SUFFICES ASSUME PromiseKept, [Promise!Next]_(Promise!vars) PROVE PromiseKept'
  OBVIOUS
<1>1. CASE Promise!Decide
  BY <1>1, KeptByDecide
<1>2. CASE Promise!Reseed \/ UNCHANGED Promise!vars
  <2>1. /\ UNCHANGED <<remaining, results>>
        /\ active' \in [Products -> BOOLEAN]
    BY <1>2 DEF Promise!Reseed, Promise!vars, PromiseKept, Promise!TypeOK
  <2> QED BY <2>1 DEF PromiseKept, Promise!TypeOK, DecidedAreKnown, Promise!StockConserved,
                      Promise!OnePurchasePerPair, Promise!SoldOutIsTrue, Promise!Winners
<1> QED BY <1>1, <1>2 DEF Promise!Next

\* Whoever keeps the promise sells every unit at most once, loses none, sells at most
\* one of a product to a buyer, and says "sold out" only when it is so for good.
THEOREM PromiseIsSafe ==
  Promise!Spec => [](/\ Promise!TypeOK /\ Promise!StockConserved
                     /\ Promise!OnePurchasePerPair /\ Promise!SoldOutIsTrue)
<1>1. PromiseKept => /\ Promise!TypeOK /\ Promise!StockConserved
                     /\ Promise!OnePurchasePerPair /\ Promise!SoldOutIsTrue
  BY DEF PromiseKept
<1> QED BY <1>1, KeptInitially, KeptByNext, PTL DEF Promise!Spec

\* So every unit is sold at most once, to a buyer who has none yet, under every sequence
\* of versions.
THEOREM VersionsAreSafe ==
  Spec => [](/\ Promise!StockConserved /\ Promise!OnePurchasePerPair /\ Promise!SoldOutIsTrue)
BY VersionsKeepPromise, PromiseIsSafe, PTL DEF ImplementsFlashSale
=============================================================================

-------------------------- MODULE OrderWorkerProofs --------------------------
(***************************************************************************)
(* Machine-checked proofs about OrderWorker, for any number of jobs, any   *)
(* batch size, concurrency and number of attempts, and any number of       *)
(* crashes, lost locks, failed batches and shutdowns.                      *)
(***************************************************************************)
EXTENDS OrderWorker, FiniteSetTheorems, SequenceTheorems, WellFoundedInduction, TLAPS

USE WorkerAssumption

-----------------------------------------------------------------------------
(***************************************************************************)
(* The rows place_order_batch returns: one per distinct job of the batch.  *)
(***************************************************************************)
\* The entry of the batch that the n-th row answers.
FirstAt(n) == CHOOSE k \in FirstEntries : RowPosition(k) = n

LEMMA FirstEntriesAreFinite ==
  ASSUME batch \in Seq(Delivery)
  PROVE  /\ FirstEntries \subseteq 1..Len(batch) /\ DOMAIN batch = 1..Len(batch)
         /\ IsFiniteSet(FirstEntries) /\ Cardinality(FirstEntries) \in Nat
<1>1. Len(batch) \in Nat /\ DOMAIN batch = 1..Len(batch)
  BY LenProperties
<1>2. FirstEntries \subseteq 1..Len(batch)
  BY <1>1 DEF FirstEntries
<1>3. IsFiniteSet(1..Len(batch))
  BY <1>1, FS_Interval
<1> QED BY <1>1, <1>2, <1>3, FS_Subset, FS_CardinalityType

\* A later first entry has a later row.
LEMMA RowPositionIsInjective ==
  ASSUME batch \in Seq(Delivery), NEW i \in FirstEntries, NEW k \in FirstEntries,
         RowPosition(i) = RowPosition(k)
  PROVE  i = k
<1> DEFINE U == {m \in FirstEntries : m <= i}
           V == {m \in FirstEntries : m <= k}
<1>1. i \in Nat /\ k \in Nat /\ \A m \in FirstEntries : m \in Nat
  BY FirstEntriesAreFinite, LenProperties
<1>2. IsFiniteSet(U) /\ IsFiniteSet(V) /\ Cardinality(U) = Cardinality(V)
  BY FirstEntriesAreFinite, FS_Subset DEF RowPosition
<1>3. CASE i <= k
  <2>1. \A m \in U : m \in V
    BY <1>1, <1>3
  <2>2. U = V
    BY <1>2, <2>1, FS_Subset
  <2> QED BY <1>1, <1>3, <2>2
<1>4. CASE k <= i
  <2>1. \A m \in V : m \in U
    BY <1>1, <1>4
  <2>2. U = V
    BY <1>2, <2>1, FS_Subset
  <2> QED BY <1>1, <1>4, <2>2
<1> QED BY <1>1, <1>3, <1>4

\* Row positions number the first entries from 1 without a gap.
LEMMA RowPositionsAreDense ==
  ASSUME batch \in Seq(Delivery)
  PROVE  /\ \A i \in FirstEntries : RowPosition(i) \in 1..Cardinality(FirstEntries)
         /\ \A n \in 1..Cardinality(FirstEntries) : FirstAt(n) \in FirstEntries /\ RowPosition(FirstAt(n)) = n
<1> DEFINE T == 1..Cardinality(FirstEntries)
           f == [i \in FirstEntries |-> RowPosition(i)]
<1>1. ASSUME NEW i \in FirstEntries PROVE RowPosition(i) \in T
  <2> DEFINE upTo == {m \in FirstEntries : m <= i}
  <2>1. IsFiniteSet(upTo) /\ Cardinality(upTo) <= Cardinality(FirstEntries) /\ Cardinality(upTo) \in Nat
    BY FirstEntriesAreFinite, FS_Subset, FS_CardinalityType
  <2>2. i \in upTo
    BY FirstEntriesAreFinite, LenProperties
  <2>3. Cardinality(upTo) # 0
    BY <2>1, <2>2, FS_EmptySet
  <2> QED BY <2>1, <2>3, FirstEntriesAreFinite DEF RowPosition
<1>2. f \in Injection(FirstEntries, T)
  <2>1. f \in [FirstEntries -> T]
    BY <1>1
  <2>2. \A i, k \in FirstEntries : f[i] = f[k] => i = k
    BY RowPositionIsInjective
  <2> QED BY <2>1, <2>2 DEF Injection, IsInjective
<1>3. IsFiniteSet(T) /\ Cardinality(T) = Cardinality(FirstEntries)
  BY FirstEntriesAreFinite, FS_Interval
<1>4. f \in Surjection(FirstEntries, T)
  BY <1>2, <1>3, FS_Injection
<1>5. \A n \in T : \E k \in FirstEntries : RowPosition(k) = n
  BY <1>4 DEF Surjection
<1> QED BY <1>1, <1>5 DEF FirstAt

\* Every delivery of the batch is preceded by a first entry of its job.
LEMMA EveryJobHasAFirstEntry ==
  ASSUME batch \in Seq(Delivery), NEW d \in Entries(batch)
  PROVE  \E i \in FirstEntries : batch[i].job = d.job
<1> DEFINE same == {i \in DOMAIN batch : batch[i].job = d.job}
<1>1. DOMAIN batch = 1..Len(batch) /\ Len(batch) \in Nat
  BY LenProperties
<1>2. same \in SUBSET Nat /\ same # {}
  BY <1>1 DEF Entries
<1>3. PICK i \in same : \A k \in same : ~ (<<k, i>> \in OpToRel(<, Nat))
  BY <1>2, NatLessThanWellFounded, WFMin
<1>4. ASSUME NEW k \in 1..(i - 1), batch[k].job = batch[i].job PROVE FALSE
  <2>1. k \in same /\ k \in Nat /\ i \in Nat /\ k < i
    BY <1>1, <1>4
  <2> QED BY <1>3, <2>1 DEF OpToRel
<1> QED BY <1>4 DEF FirstEntries

LEMMA EveryJobHasARow ==
  ASSUME batch \in Seq(Delivery), NEW d \in Entries(batch)
  PROVE  \E n \in 1..Cardinality(FirstEntries) : batch[FirstAt(n)].job = d.job
<1>1. PICK i \in FirstEntries : batch[i].job = d.job
  BY EveryJobHasAFirstEntry
<1>2. RowPosition(i) \in 1..Cardinality(FirstEntries)
  BY RowPositionsAreDense
<1>3. FirstAt(RowPosition(i)) = i
  BY <1>2, RowPositionsAreDense, RowPositionIsInjective
<1> QED BY <1>1, <1>2, <1>3

-----------------------------------------------------------------------------
(***************************************************************************)
(* Types, and that no delivery is forgotten.                               *)
(***************************************************************************)
\* A job that may still run has attempts left.
JobsHaveAttemptsLeft ==
  \A j \in Jobs : state[j] \in {"waiting", "active", "delayed"} => failures[j] < Attempts

\* The jobs, as BullMQ and the database see them.
JobsTyped ==
  /\ state \in [Jobs -> {"waiting", "active", "delayed", "completed", "failed"}]
  /\ starts \in [Jobs -> Nat]
  /\ failures \in [Jobs -> 0..Attempts]
  /\ stalls \in [Jobs -> 0..1]
  /\ returned \in [Jobs -> Results \cup {NoResult}]
  /\ decided \in [Jobs -> Results \cup {NoResult}]
  /\ JobsHaveAttemptsLeft

\* The running flush, which a batch belongs to; while the batch is answered every
\* job of it has a row.
FlushTyped ==
  /\ flushes \in Nat
  /\ batch \in Seq(Delivery)
  /\ rows \in Seq([job : Jobs, status : Results])
  /\ next \in 0..Len(batch)
  /\ batch # << >> => flushes > 0
  /\ next > 0 => \A d \in Entries(batch) : \E row \in Entries(rows) : row.job = d.job

\* The rest of the process.
ProcessTyped ==
  /\ up \in {"running", "stopping", "stopped"}
  /\ pending \in Seq(Delivery)
  /\ timer \in BOOLEAN
  /\ faults \in 0..MaxFaults

Typed == JobsTyped /\ FlushTyped /\ ProcessTyped

LEMMA TypedIsTypeOK == Typed => TypeOK
BY DEF Typed, JobsTyped, FlushTyped, ProcessTyped, TypeOK

LEMMA JobsStayTyped == ASSUME Typed, UNCHANGED <<bull, decided>> PROVE JobsTyped'
BY DEF Typed, JobsTyped, JobsHaveAttemptsLeft, bull

LEMMA FlushStaysTyped == ASSUME Typed, UNCHANGED <<flushes, batch, rows, next>> PROVE FlushTyped'
BY DEF Typed, FlushTyped

LEMMA FaultIsTyped == ASSUME Typed, Fault PROVE faults' \in 0..MaxFaults
BY DEF Typed, ProcessTyped, Fault

LEMMA EntriesOfSeq ==
  ASSUME NEW S, NEW s \in Seq(S)
  PROVE  /\ DOMAIN s = 1..Len(s) /\ Len(s) \in Nat
         /\ Entries(s) \subseteq S
         /\ s # << >> => Len(s) > 0 /\ Entries(s) # {}
<1>1. DOMAIN s = 1..Len(s) /\ Len(s) \in Nat
  BY LenProperties
<1>2. \A i \in 1..Len(s) : s[i] \in S
  BY ElementOfSeq
<1>3. s # << >> => Len(s) > 0
  BY <1>1, EmptySeq
<1>4. Entries(s) = {s[i] : i \in 1..Len(s)}
  BY <1>1 DEF Entries
<1> QED BY <1>1, <1>2, <1>3, <1>4

LEMMA RejectIsTyped ==
  ASSUME Typed, NEW D \in SUBSET Delivery, Reject(D), UNCHANGED <<starts, stalls, returned>>,
         decided' \in [Jobs -> Results \cup {NoResult}]
  PROVE  JobsTyped'
<1> DEFINE hit == {d.job : d \in {e \in D : HoldsLock(e)}}
<1>1. \A j \in hit : j \in Jobs /\ state[j] = "active"
  BY DEF HoldsLock, Delivery
<1>2. failures' = [j \in Jobs |-> IF j \in hit THEN failures[j] + 1 ELSE failures[j]]
  BY DEF Reject
<1>3. state' = [j \in Jobs |-> IF j \notin hit THEN state[j]
                               ELSE IF failures'[j] < Attempts THEN "delayed" ELSE "failed"]
  BY DEF Reject
<1> HIDE DEF hit
<1>4. \A j \in Jobs : j \in hit => failures[j] < Attempts
  BY <1>1 DEF Typed, JobsTyped, JobsHaveAttemptsLeft
<1>5. failures' \in [Jobs -> 0..Attempts]
  BY <1>2, <1>4 DEF Typed, JobsTyped
<1>6. state' \in [Jobs -> {"waiting", "active", "delayed", "completed", "failed"}]
  BY <1>3 DEF Typed, JobsTyped
<1>7. ASSUME NEW j \in Jobs, state'[j] \in {"waiting", "active", "delayed"} PROVE failures'[j] < Attempts
  <2>1. CASE j \in hit
    BY <1>3, <1>7, <2>1
  <2>2. CASE j \notin hit
    BY <1>2, <1>3, <1>7, <2>2 DEF Typed, JobsTyped, JobsHaveAttemptsLeft
  <2> QED BY <2>1, <2>2
<1> QED BY <1>5, <1>6, <1>7 DEF Typed, JobsTyped, JobsHaveAttemptsLeft

LEMMA CommitsIsTyped ==
  ASSUME Typed, Commits
  PROVE  /\ decided' \in [Jobs -> Results \cup {NoResult}]
         /\ \A j \in Jobs : decided[j] # NoResult => decided'[j] = decided[j]
         /\ BatchJobs \subseteq Jobs
         /\ \A j \in BatchJobs : decided'[j] \in Results
<1> DEFINE decides == {j \in BatchJobs : decided[j] = NoResult}
<1>1. BatchJobs \subseteq Jobs
  <2>1. Entries(batch) \subseteq Delivery
    BY EntriesOfSeq DEF Typed, FlushTyped
  <2> QED BY <2>1 DEF BatchJobs, Delivery
<1>2. PICK f \in [decides -> Results] : decided' = [j \in Jobs |-> IF j \in decides THEN f[j] ELSE decided[j]]
  BY DEF Commits
<1> QED BY <1>1, <1>2 DEF Typed, JobsTyped

\* The rows of a batch that commits: all its jobs, each with its durable result.
LEMMA RowsAreTyped ==
  ASSUME Typed, ProcessBatch
  PROVE  /\ rows' \in Seq([job : Jobs, status : Results])
         /\ \A d \in Entries(batch) : \E row \in Entries(rows') : row.job = d.job
         /\ \A row \in Entries(rows') : row.status = decided'[row.job]
<1> DEFINE N == Cardinality(FirstEntries)
           rowAt(n) == [job |-> batch[FirstAt(n)].job, status |-> decided'[batch[FirstAt(n)].job]]
           Row == [job : Jobs, status : Results]
<1>1. batch \in Seq(Delivery) /\ N \in Nat
  BY FirstEntriesAreFinite DEF Typed, FlushTyped
<1>2. rows' = [n \in 1..N |-> rowAt(n)]
  BY DEF ProcessBatch, FirstAt
<1>3. ASSUME NEW n \in 1..N PROVE batch[FirstAt(n)].job \in BatchJobs
  <2>1. FirstAt(n) \in DOMAIN batch
    BY <1>1, RowPositionsAreDense, FirstEntriesAreFinite
  <2> QED BY <2>1 DEF BatchJobs, Entries
<1>4. \A n \in 1..N : rowAt(n) \in Row
  BY <1>3, CommitsIsTyped DEF ProcessBatch
<1> HIDE DEF N, Row, rowAt
<1>5. rows' \in [1..N -> Row]
  BY <1>2, <1>4
<1>6. rows' \in Seq(Row)
  BY <1>1, <1>5, SeqDef
<1>7. \A row \in Entries(rows') : \E n \in 1..N : row = rowAt(n)
  BY <1>2, <1>5 DEF Entries
<1>8. \A n \in 1..N : rowAt(n) \in Entries(rows')
  BY <1>2, <1>5 DEF Entries
<1>9. ASSUME NEW d \in Entries(batch) PROVE \E row \in Entries(rows') : row.job = d.job
  <2>1. PICK n \in 1..N : batch[FirstAt(n)].job = d.job
    BY <1>1, EveryJobHasARow DEF N
  <2>2. rowAt(n).job = d.job
    BY <2>1 DEF rowAt
  <2> QED BY <1>8, <2>2
<1>10. \A n \in 1..N : rowAt(n).status = decided'[rowAt(n).job]
  BY DEF rowAt
<1> QED BY <1>6, <1>7, <1>9, <1>10 DEF Row

LEMMA EndFlushIsTyped ==
  ASSUME Typed, EndFlush, flushes > 0
  PROVE  FlushTyped' /\ timer' \in BOOLEAN
<1>1. batch' = << >> /\ rows' = << >> /\ next' = 0 /\ flushes' = flushes - 1 /\ timer' \in BOOLEAN
  BY DEF EndFlush, Typed, ProcessTyped
<1>2. << >> \in Seq(Delivery) /\ << >> \in Seq([job : Jobs, status : Results]) /\ Len(<< >>) = 0
  BY EmptySeq
<1> QED BY <1>1, <1>2 DEF Typed, FlushTyped

LEMMA DeliveryKeepsTypes ==
  ASSUME Typed, \E j \in Jobs : Deliver(j) \/ DeliverTooLate(j) \/ Promote(j) \/ Stalled(j)
  PROVE  Typed'
<1> PICK j \in Jobs : Deliver(j) \/ DeliverTooLate(j) \/ Promote(j) \/ Stalled(j)
  OBVIOUS
<1> USE DEF Typed
<1>1. FlushTyped'
  BY FlushStaysTyped DEF Deliver, DeliverTooLate, Promote, Stalled, process
<1>2. CASE Deliver(j)
  <2>1. Started(j) \in Delivery
    BY DEF Started, Delivery, JobsTyped
  <2>2. pending' \in Seq(Delivery) /\ timer' \in BOOLEAN
    BY <1>2, <2>1, AppendProperties DEF Deliver, Add, ProcessTyped
  <2>3. JobsTyped'
    BY <1>2 DEF Deliver, JobsTyped, JobsHaveAttemptsLeft
  <2> QED BY <1>1, <1>2, <2>2, <2>3 DEF Deliver, ProcessTyped
<1>3. CASE ~ Deliver(j)
  <2>1. ProcessTyped'
    BY <1>3, FaultIsTyped DEF DeliverTooLate, Promote, Stalled, process, ProcessTyped
  <2>2. JobsTyped'
    <3> USE DEF JobsTyped, JobsHaveAttemptsLeft
    <3>1. CASE DeliverTooLate(j)
      BY <3>1 DEF DeliverTooLate
    <3>2. CASE Promote(j)
      BY <3>2 DEF Promote
    <3>3. CASE Stalled(j)
      BY <3>3 DEF Stalled
    <3> QED BY <1>3, <3>1, <3>2, <3>3
  <2> QED BY <1>1, <2>1, <2>2
<1> QED BY <1>2, <1>3

LEMMA BeginFlushKeepsTypes ==
  ASSUME Typed, BeginFlush
  PROVE  Typed' /\ (pending' = << >> \/ flushes' > 0)
<1> DEFINE size == IF Len(pending) < BatchSize THEN Len(pending) ELSE BatchSize
<1>1. /\ pending \in Seq(Delivery) /\ Len(pending) \in Nat /\ size \in 0..Len(pending)
      /\ size = 0 => Len(pending) = 0
  BY EntriesOfSeq DEF Typed, ProcessTyped
<1>2. \A i \in 1..Len(pending) : pending[i] \in Delivery
  BY <1>1, ElementOfSeq
<1>3. batch' = SubSeq(pending, 1, size) /\ pending' = SubSeq(pending, size + 1, Len(pending))
      /\ flushes' = (IF size = 0 THEN flushes - 1 ELSE flushes) /\ flushes > 0 /\ batch = << >>
      /\ UNCHANGED <<bull, decided, up, timer, rows, next, faults>>
  BY DEF BeginFlush
<1> HIDE DEF size
<1>4. size \in Int /\ size + 1 \in Int /\ Len(pending) \in Int /\ 1 \in Int
  BY <1>1
<1>5. batch' \in Seq(Delivery) /\ Len(batch') = size
  <2>1. \A i \in 1..size : pending[i] \in Delivery
    BY <1>1, <1>2
  <2>2. SubSeq(pending, 1, size) \in Seq(Delivery)
    BY <1>4, <2>1, SubSeqProperties, Zenon
  <2>3. Len(SubSeq(pending, 1, size)) = size
    BY <1>1, <1>4
  <2> QED BY <1>3, <2>2, <2>3
<1>6. pending' \in Seq(Delivery)
  <2>1. \A i \in (size + 1)..Len(pending) : pending[i] \in Delivery
    BY <1>1, <1>2
  <2> QED BY <1>3, <1>4, <2>1, SubSeqProperties, Zenon
<1>7. ASSUME size = 0 PROVE batch' = << >> /\ pending' = << >>
  BY <1>1, <1>3, <1>4, <1>7, SubSeqEmpty
<1>8. flushes' \in Nat /\ (size # 0 => flushes' > 0)
  BY <1>3 DEF Typed, FlushTyped
<1>9. FlushTyped'
  <2>1. next' = 0 /\ rows' \in Seq([job : Jobs, status : Results])
    BY <1>3, EmptySeq DEF Typed, FlushTyped
  <2> QED BY <1>1, <1>5, <1>7, <1>8, <2>1 DEF FlushTyped
<1>10. ProcessTyped' /\ JobsTyped'
  BY <1>3, <1>6, JobsStayTyped DEF Typed, ProcessTyped
<1> QED BY <1>7, <1>8, <1>9, <1>10 DEF Typed

\* The row looked up for a delivery of the batch is one of that very job.
LEMMA RowIsOfItsJob ==
  ASSUME Typed, Answer
  PROVE  /\ next \in 1..Len(batch) /\ batch # << >> /\ flushes > 0
         /\ batch[next] \in Entries(batch) /\ batch[next] \in Delivery
         /\ RowOf(batch[next]) \in Entries(rows) /\ RowOf(batch[next]).job = batch[next].job
         /\ RowOf(batch[next]).status \in Results
<1>1. batch \in Seq(Delivery) /\ rows \in Seq([job : Jobs, status : Results])
  BY DEF Typed, FlushTyped
<1>2. DOMAIN batch = 1..Len(batch) /\ next \in 1..Len(batch)
  BY <1>1, EntriesOfSeq DEF Answer, Typed, FlushTyped
<1>3. batch # << >> /\ flushes > 0
  BY <1>2, EmptySeq DEF Typed, FlushTyped
<1>4. batch[next] \in Entries(batch) /\ batch[next] \in Delivery
  BY <1>1, <1>2, ElementOfSeq DEF Entries
<1>5. \E row \in Entries(rows) : row.job = batch[next].job
  BY <1>2, <1>4 DEF Typed, FlushTyped
<1>6. RowOf(batch[next]) \in Entries(rows) /\ RowOf(batch[next]).job = batch[next].job
  BY <1>5 DEF RowOf
<1>7. RowOf(batch[next]) \in [job : Jobs, status : Results]
  BY <1>1, <1>6, EntriesOfSeq
<1> QED BY <1>2, <1>3, <1>4, <1>6, <1>7

LEMMA ProcessorKeepsTypes ==
  ASSUME Typed, ProcessBatch \/ ProcessRefuses \/ ProcessFails \/ Answer
  PROVE  Typed'
<1>0. /\ Len(batch) \in Nat /\ (batch # << >> => Len(batch) > 0 /\ flushes > 0)
      /\ Entries(batch) \in SUBSET Delivery /\ DOMAIN batch = 1..Len(batch)
      /\ decided \in [Jobs -> Results \cup {NoResult}]
  BY EntriesOfSeq DEF Typed, FlushTyped, JobsTyped
<1>1. CASE ProcessBatch
  <2>1. JobsTyped'
    BY <1>1, CommitsIsTyped DEF ProcessBatch, bull, Typed, JobsTyped, JobsHaveAttemptsLeft
  <2>2. FlushTyped'
    <3>1. UNCHANGED <<batch, flushes>> /\ next' = 1 /\ 1 \in 0..Len(batch)
      BY <1>0, <1>1 DEF ProcessBatch
    <3> QED BY <1>1, <3>1, RowsAreTyped DEF Typed, FlushTyped
  <2> QED BY <1>1, <2>1, <2>2 DEF ProcessBatch, Typed, ProcessTyped
<1>2. CASE ProcessRefuses \/ ProcessFails
  <2>1. JobsTyped'
    BY <1>0, <1>2, RejectIsTyped, CommitsIsTyped DEF ProcessRefuses, ProcessFails, RejectBatch
  <2>2. FlushTyped' /\ timer' \in BOOLEAN
    BY <1>0, <1>2, EndFlushIsTyped DEF ProcessRefuses, ProcessFails, RejectBatch
  <2>3. ProcessTyped'
    BY <1>2, <2>2, FaultIsTyped DEF ProcessRefuses, ProcessFails, Typed, ProcessTyped
  <2> QED BY <2>1, <2>2, <2>3 DEF Typed
<1>3. CASE Answer
  <2>1. batch # << >> /\ flushes > 0 /\ next \in 1..Len(batch)
    BY <1>3, RowIsOfItsJob
  <2>2. JobsTyped'
    <3>1. batch[next].job \in Jobs /\ RowOf(batch[next]).status \in Results
      BY <1>3, RowIsOfItsJob DEF Delivery
    <3> QED BY <1>3, <3>1 DEF Answer, Typed, JobsTyped, JobsHaveAttemptsLeft
  <2>3. FlushTyped' /\ timer' \in BOOLEAN
    <3>1. CASE next < Len(batch)
      BY <1>0, <1>3, <2>1, <3>1 DEF Answer, Typed, FlushTyped, ProcessTyped
    <3>2. CASE ~ (next < Len(batch))
      BY <1>3, <2>1, <3>2, EndFlushIsTyped DEF Answer
    <3> QED BY <3>1, <3>2
  <2> QED BY <1>3, <2>2, <2>3 DEF Answer, Typed, ProcessTyped
<1> QED BY <1>1, <1>2, <1>3

LEMMA ProcessLifeKeepsTypes ==
  ASSUME Typed, TimerFires \/ Stop \/ Stopped \/ Crash \/ Restart
  PROVE  Typed'
<1>1. JobsTyped'
  BY JobsStayTyped DEF TimerFires, Stop, Stopped, Crash, Restart
<1>2. << >> \in Seq(Delivery) /\ << >> \in Seq([job : Jobs, status : Results]) /\ Len(<< >>) = 0
  BY EmptySeq
<1>3. ProcessTyped'
  BY <1>2, FaultIsTyped DEF TimerFires, Stop, Stopped, Crash, Restart, Typed, ProcessTyped
<1>4. FlushTyped'
  <2>1. CASE TimerFires \/ Stop
    <3>1. UNCHANGED <<batch, rows, next>> /\ flushes' \in {flushes, flushes + 1}
      BY <2>1 DEF TimerFires, Stop
    <3> QED BY <3>1 DEF Typed, FlushTyped
  <2>2. CASE Crash
    <3>1. batch' = << >> /\ rows' = << >> /\ next' = 0 /\ flushes' = 0
      BY <2>2 DEF Crash
    <3> QED BY <1>2, <3>1 DEF FlushTyped
  <2>3. CASE Stopped \/ Restart
    BY <2>3, FlushStaysTyped DEF Stopped, Restart
  <2> QED BY <2>1, <2>2, <2>3
<1> QED BY <1>1, <1>3, <1>4 DEF Typed

LEMMA InitIsTyped == Init => Typed
<1> SUFFICES ASSUME Init PROVE Typed
  OBVIOUS
<1>1. << >> \in Seq(Delivery) /\ << >> \in Seq([job : Jobs, status : Results]) /\ Len(<< >>) = 0
  BY EmptySeq
<1>2. JobsTyped
  BY DEF Init, JobsTyped, JobsHaveAttemptsLeft
<1>3. FlushTyped
  <2>1. batch = << >> /\ rows = << >> /\ next = 0 /\ flushes = 0
    BY DEF Init
  <2> QED BY <1>1, <2>1 DEF FlushTyped
<1>4. ProcessTyped
  <2>1. up = "running" /\ pending = << >> /\ timer = FALSE /\ faults = 0
    BY DEF Init
  <2>2. 0 \in 0..MaxFaults
    OBVIOUS
  <2> QED BY <1>1, <2>1, <2>2 DEF ProcessTyped
<1> QED BY <1>2, <1>3, <1>4 DEF Typed

LEMMA NextKeepsTypes == Typed /\ [Next]_vars => Typed'
<1>1. Typed /\ UNCHANGED vars => Typed'
  BY JobsStayTyped, FlushStaysTyped DEF Typed, ProcessTyped, vars, process
<1> QED BY <1>1, DeliveryKeepsTypes, BeginFlushKeepsTypes, ProcessorKeepsTypes, ProcessLifeKeepsTypes DEF Next

\* Jobs, deliveries, batches and rows keep their types; in particular a job is
\* never tried more often than it has attempts, and the chain of flushes is never
\* shortened below zero.
THEOREM WorkerIsTyped == Spec => []TypeOK
BY TypedIsTypeOK, InitIsTyped, NextKeepsTypes, PTL DEF Spec

LEMMA NextKeepsWakeup == Typed /\ NoLostWakeup /\ [Next]_vars => NoLostWakeup'
<1> SUFFICES ASSUME Typed, NoLostWakeup, [Next]_vars PROVE NoLostWakeup'
  OBVIOUS
<1> USE DEF NoLostWakeup
<1>1. CASE UNCHANGED vars
  BY <1>1 DEF vars, process
<1>2. CASE \E j \in Jobs : Deliver(j) \/ DeliverTooLate(j) \/ Promote(j) \/ Stalled(j)
  BY <1>2 DEF Deliver, Add, DeliverTooLate, Promote, Stalled, process
<1>3. CASE BeginFlush
  BY <1>3, BeginFlushKeepsTypes
<1>4. CASE ProcessBatch \/ ProcessRefuses \/ ProcessFails \/ Answer
  BY <1>4 DEF ProcessBatch, ProcessRefuses, ProcessFails, RejectBatch, Answer, EndFlush
<1>5. CASE Stopped
  <2>1. Entries(pending) = {}
    BY <1>5 DEF Stopped, Unsettled
  <2>2. pending = << >>
    BY <2>1, EntriesOfSeq DEF Typed, FlushTyped, ProcessTyped
  <2> QED BY <1>5, <2>2 DEF Stopped
<1>6. CASE TimerFires \/ Stop \/ Crash \/ Restart
  BY <1>6 DEF TimerFires, Stop, Crash, Restart, Typed, FlushTyped
<1> QED BY <1>1, <1>2, <1>3, <1>4, <1>5, <1>6 DEF Next

\* A delivery that waits for a batch always has a timer or a flush that will look
\* at it, in every interleaving of pushes, timers, flushes and a shutdown.
THEOREM WakeupIsNeverLost == Spec => []NoLostWakeup
<1>1. Init => Typed /\ NoLostWakeup
  BY InitIsTyped DEF Init, NoLostWakeup
<1>2. Typed /\ NoLostWakeup /\ [Next]_vars => (Typed /\ NoLostWakeup)'
  BY NextKeepsTypes, NextKeepsWakeup
<1> QED BY <1>1, <1>2, PTL DEF Spec

-----------------------------------------------------------------------------
(***************************************************************************)
(* Results.                                                                *)
(***************************************************************************)
\* While a batch is being answered every row is what the database holds.
RowsAreDurable == next > 0 => \A row \in Entries(rows) : row.status = decided[row.job]

Settled == RowsAreDurable /\ CompletedAsDecided

\* A step that completes no job and takes no result back.
LEMMA QuietStepIsSettled ==
  ASSUME Typed, Settled,
         \A j \in Jobs : /\ state'[j] = "completed" => state[j] = "completed" /\ returned'[j] = returned[j]
                         /\ decided[j] # NoResult => decided'[j] = decided[j]
  PROVE  CompletedAsDecided'
BY DEF Settled, CompletedAsDecided

LEMMA RejectCompletesNothing ==
  ASSUME Typed, NEW D \in SUBSET Delivery, Reject(D)
  PROVE  \A j \in Jobs : state'[j] = "completed" => state[j] = "completed"
BY DEF Reject, Typed, JobsTyped

LEMMA AnswerIsSettled ==
  ASSUME Typed, Settled, Answer
  PROVE  Settled'
<1> DEFINE d == batch[next]
<1>1. d.job \in Jobs /\ RowOf(d).status \in Results /\ RowOf(d).status = decided[d.job]
  BY RowIsOfItsJob DEF Settled, RowsAreDurable, Delivery
<1>2. RowsAreDurable'
  <2>1. UNCHANGED decided /\ (next' = 0 \/ UNCHANGED rows) /\ next > 0
    BY DEF Answer, EndFlush
  <2> QED BY <2>1 DEF Settled, RowsAreDurable
<1>3. UNCHANGED decided
  BY DEF Answer
<1>4. CASE HoldsLock(d)
  <2>1. state' = [state EXCEPT ![d.job] = "completed"] /\ returned' = [returned EXCEPT ![d.job] = RowOf(d).status]
    BY <1>4 DEF Answer
  <2> HIDE DEF d
  <2>2. CompletedAsDecided'
    BY <1>1, <1>3, <2>1 DEF Settled, CompletedAsDecided, Typed, JobsTyped, Results, NoResult
  <2> QED BY <1>2, <2>2 DEF Settled
<1>5. CASE ~ HoldsLock(d)
  <2>1. UNCHANGED <<state, returned>>
    BY <1>5 DEF Answer
  <2> QED BY <1>2, <1>3, <2>1, QuietStepIsSettled DEF Settled
<1> QED BY <1>4, <1>5

LEMMA NextIsSettled == Typed /\ Settled /\ [Next]_vars => Settled'
<1> SUFFICES ASSUME Typed, Settled, [Next]_vars PROVE Settled'
  OBVIOUS
<1>0. Entries(batch) \in SUBSET Delivery
  BY EntriesOfSeq DEF Typed, FlushTyped, ProcessTyped
<1>1. CASE UNCHANGED vars
  BY <1>1 DEF Settled, RowsAreDurable, CompletedAsDecided, vars, bull, process
<1>2. CASE \E j \in Jobs : Deliver(j) \/ DeliverTooLate(j) \/ Promote(j) \/ Stalled(j)
  <2>1. UNCHANGED <<returned, decided, batch, rows, next>>
    BY <1>2 DEF Deliver, DeliverTooLate, Promote, Stalled, process
  <2>2. \A j \in Jobs : state'[j] = "completed" => state[j] = "completed"
    BY <1>2 DEF Deliver, DeliverTooLate, Promote, Stalled, Typed, JobsTyped
  <2> QED BY <2>1, <2>2, QuietStepIsSettled DEF Settled, RowsAreDurable
<1>3. CASE ProcessBatch
  <2>1. RowsAreDurable'
    BY <1>3, RowsAreTyped DEF RowsAreDurable, ProcessBatch
  <2>2. CompletedAsDecided'
    BY <1>3, CommitsIsTyped, QuietStepIsSettled DEF ProcessBatch, bull
  <2> QED BY <2>1, <2>2 DEF Settled
<1>4. CASE ProcessRefuses \/ ProcessFails
  <2>1. next' = 0
    BY <1>4 DEF ProcessRefuses, ProcessFails, RejectBatch, EndFlush
  <2>2. \A j \in Jobs : state'[j] = "completed" => state[j] = "completed"
    BY <1>0, <1>4, RejectCompletesNothing DEF ProcessRefuses, ProcessFails, RejectBatch
  <2>3. returned' = returned /\ \A j \in Jobs : decided[j] # NoResult => decided'[j] = decided[j]
    BY <1>4, CommitsIsTyped DEF ProcessRefuses, ProcessFails
  <2> QED BY <2>1, <2>2, <2>3, QuietStepIsSettled DEF Settled, RowsAreDurable
<1>5. CASE Answer
  BY <1>5, AnswerIsSettled
<1>6. CASE TimerFires \/ BeginFlush \/ Stop \/ Stopped \/ Crash \/ Restart
  <2>1. UNCHANGED <<bull, decided>>
    BY <1>6 DEF TimerFires, BeginFlush, Stop, Stopped, Crash, Restart
  <2>2. RowsAreDurable'
    <3>1. CASE BeginFlush
      <4>1. next = 0
        BY <3>1 DEF BeginFlush, Typed, FlushTyped
      <4> QED BY <3>1, <4>1 DEF BeginFlush, RowsAreDurable
    <3>2. CASE Crash
      BY <3>2 DEF Crash, RowsAreDurable
    <3>3. CASE TimerFires \/ Stop \/ Stopped \/ Restart
      BY <3>3 DEF TimerFires, Stop, Stopped, Restart, Settled, RowsAreDurable
    <3> QED BY <1>6, <3>1, <3>2, <3>3
  <2> QED BY <2>1, <2>2, QuietStepIsSettled DEF Settled, bull
<1> QED BY <1>1, <1>2, <1>3, <1>4, <1>5, <1>6 DEF Next

\* BullMQ reports a job completed only with the durable result of that job: also
\* when one batch holds the job twice, two batches hold it, a batch failed after
\* its commit, or the worker died while it was answering.
THEOREM ResultsAreTheDecidedOnes == Spec => []CompletedAsDecided
<1>1. Init => Typed /\ Settled
  BY InitIsTyped DEF Init, Settled, RowsAreDurable, CompletedAsDecided
<1>2. Typed /\ Settled /\ [Next]_vars => (Typed /\ Settled)'
  BY NextKeepsTypes, NextIsSettled
<1>3. Settled => CompletedAsDecided
  BY DEF Settled
<1> QED BY <1>1, <1>2, <1>3, PTL DEF Spec

-----------------------------------------------------------------------------
(***************************************************************************)
(* What a failed job has cost.                                             *)
(***************************************************************************)
\* An unsettled delivery holds the lock of the job.
Held(j) == \E d \in Unsettled : HoldsLock(d) /\ d.job = j

\* The process that held the lock is gone, and BullMQ has not noticed yet.
Orphaned(j) == IF state[j] = "active" /\ ~ Held(j) THEN 1 ELSE 0

\* The job failed for its stalls, not for its attempts.
GivenUp(j) == IF state[j] = "failed" /\ failures[j] < Attempts THEN 1 ELSE 0

\* Every failed attempt, every stall and every lock without a holder goes back to
\* a fault of its own, and a job is given up only on its second stall.
Accounted(j) ==
  /\ failures[j] + stalls[j] + GivenUp(j) + Orphaned(j) <= faults
  /\ state[j] = "failed" /\ failures[j] < Attempts => stalls[j] = 1

MishapsAreFaults == \A j \in Jobs : Accounted(j)

LEMMA CountersAreNumbers ==
  ASSUME Typed, NEW j \in Jobs
  PROVE  failures[j] \in Nat /\ stalls[j] \in 0..1 /\ faults \in Nat /\ Attempts \in Nat
BY DEF Typed, JobsTyped, ProcessTyped

\* A job whose own record a step leaves alone, and whose holder stays.
LEMMA OthersStayAccounted ==
  ASSUME Typed, Typed', MishapsAreFaults, NEW j \in Jobs, faults <= faults',
         state'[j] = state[j], failures'[j] = failures[j], stalls'[j] = stalls[j],
         Held(j) => Held(j)' \/ faults < faults'
  PROVE  Accounted(j)'
<1>1. failures[j] \in Nat /\ stalls[j] \in 0..1 /\ faults \in Nat /\ faults' \in Nat
  BY CountersAreNumbers DEF Typed, ProcessTyped
<1>2. Orphaned(j)' <= Orphaned(j) \/ (Orphaned(j)' <= Orphaned(j) + 1 /\ faults + 1 <= faults')
  BY <1>1 DEF Orphaned
<1>3. GivenUp(j)' = GivenUp(j) /\ GivenUp(j) \in 0..1 /\ Orphaned(j) \in 0..1 /\ Orphaned(j)' \in 0..1
  BY DEF GivenUp, Orphaned
<1> QED BY <1>1, <1>2, <1>3 DEF MishapsAreFaults, Accounted

LEMMA DeliveryIsAccounted ==
  ASSUME Typed, Typed', MishapsAreFaults,
         \E j \in Jobs : Deliver(j) \/ DeliverTooLate(j) \/ Promote(j) \/ Stalled(j)
  PROVE  MishapsAreFaults'
<1> PICK j \in Jobs : Deliver(j) \/ DeliverTooLate(j) \/ Promote(j) \/ Stalled(j)
  OBVIOUS
<1>1. failures[j] \in Nat /\ stalls[j] \in 0..1 /\ faults \in Nat /\ faults' \in Nat /\ Attempts \in Nat
  BY CountersAreNumbers DEF Typed, ProcessTyped
<1>2. Unsettled \subseteq Unsettled'
  <2>1. CASE Deliver(j)
    <3>1. Started(j) \in Delivery /\ pending' = Append(pending, Started(j)) /\ UNCHANGED <<batch, next>>
      BY <2>1 DEF Deliver, Add, Started, Delivery, Typed, JobsTyped
    <3>2. Entries(pending) \subseteq Entries(pending')
      <4>1. pending \in Seq(Delivery) /\ DOMAIN pending = 1..Len(pending) /\ Len(pending) \in Nat
        BY EntriesOfSeq DEF Typed, ProcessTyped
      <4>2. pending' \in Seq(Delivery) /\ DOMAIN pending' = 1..Len(pending') /\ Len(pending') = Len(pending) + 1
        BY <3>1, <4>1, AppendProperties, EntriesOfSeq
      <4>3. \A i \in 1..Len(pending) : pending'[i] = pending[i]
        BY <3>1, <4>1, AppendProperties
      <4> QED BY <4>1, <4>2, <4>3 DEF Entries
    <3> QED BY <3>1, <3>2 DEF Unsettled
  <2>2. CASE ~ Deliver(j)
    BY <2>2 DEF DeliverTooLate, Promote, Stalled, process, Unsettled
  <2> QED BY <2>1, <2>2
<1>3. ASSUME NEW q \in Jobs, q # j PROVE Accounted(q)'
  <2>1. state'[q] = state[q] /\ starts'[q] = starts[q] /\ failures'[q] = failures[q] /\ stalls'[q] = stalls[q]
    BY <1>3 DEF Deliver, DeliverTooLate, Promote, Stalled, Typed, JobsTyped
  <2>2. faults <= faults'
    BY <1>1 DEF Deliver, DeliverTooLate, Promote, Stalled, Fault
  <2>3. Held(q) => Held(q)'
    BY <1>2, <2>1 DEF Held, HoldsLock
  <2> QED BY <2>1, <2>2, <2>3, OthersStayAccounted
<1>4. failures[j] + stalls[j] + GivenUp(j) + Orphaned(j) <= faults
  BY DEF MishapsAreFaults, Accounted
<1>5. CASE Deliver(j)
  <2>1. Started(j) \in Entries(pending')
    <3>1. Started(j) \in Delivery /\ pending' = Append(pending, Started(j)) /\ pending \in Seq(Delivery)
      BY <1>5 DEF Deliver, Add, Started, Delivery, Typed, JobsTyped, ProcessTyped
    <3>2. Len(pending) \in Nat /\ Len(pending') = Len(pending) + 1 /\ pending'[Len(pending) + 1] = Started(j)
          /\ pending' \in Seq(Delivery)
      BY <3>1, AppendProperties, LenProperties
    <3>3. DOMAIN pending' = 1..Len(pending')
      BY <3>2, LenProperties
    <3> QED BY <3>2, <3>3 DEF Entries
  <2>2. state'[j] = "active" /\ starts'[j] = starts[j] + 1 /\ state[j] = "waiting"
    BY <1>5 DEF Deliver, Typed, JobsTyped
  <2>3. Held(j)'
    BY <2>1, <2>2 DEF Held, HoldsLock, Unsettled, Started
  <2>4. UNCHANGED <<failures, stalls, faults>>
    BY <1>5 DEF Deliver
  <2>5. Accounted(j)'
    BY <1>1, <1>4, <2>2, <2>3, <2>4 DEF Accounted, GivenUp, Orphaned
  <2> QED BY <1>3, <2>5 DEF MishapsAreFaults
<1>6. CASE DeliverTooLate(j)
  <2>1. faults' = faults + 1 /\ failures'[j] = failures[j] + 1 /\ UNCHANGED stalls /\ state[j] = "waiting"
        /\ state'[j] = IF failures'[j] < Attempts THEN "delayed" ELSE "failed"
    BY <1>6 DEF DeliverTooLate, Fault, Typed, JobsTyped
  <2>2. Accounted(j)'
    BY <1>1, <1>4, <2>1 DEF Accounted, GivenUp, Orphaned
  <2> QED BY <1>3, <2>2 DEF MishapsAreFaults
<1>7. CASE Promote(j)
  <2>1. UNCHANGED <<failures, stalls, faults>> /\ state[j] = "delayed" /\ state'[j] = "waiting"
    BY <1>7 DEF Promote, Typed, JobsTyped
  <2>2. Accounted(j)'
    BY <1>1, <1>4, <2>1 DEF Accounted, GivenUp, Orphaned
  <2> QED BY <1>3, <2>2 DEF MishapsAreFaults
<1>8. CASE Stalled(j)
  <2>1. UNCHANGED failures /\ state[j] = "active" /\ failures[j] < Attempts
    BY <1>8 DEF Stalled, Typed, JobsTyped, JobsHaveAttemptsLeft
  <2>2. faults' = faults + 1 - Orphaned(j)
    BY <1>1, <1>8, <2>1 DEF Stalled, Fault, Held, Orphaned
  <2>3. \/ stalls[j] = 0 /\ stalls'[j] = 1 /\ state'[j] = "waiting"
        \/ stalls[j] = 1 /\ stalls'[j] = 1 /\ state'[j] = "failed"
    BY <1>1, <1>8 DEF Stalled, Typed, JobsTyped
  <2>4. Accounted(j)'
    BY <1>1, <1>4, <2>1, <2>2, <2>3 DEF Accounted, GivenUp, Orphaned
  <2> QED BY <1>3, <2>4 DEF MishapsAreFaults
<1> QED BY <1>5, <1>6, <1>7, <1>8

\* The split of pending into a batch and the rest loses nobody.
LEMMA BeginFlushKeepsUnsettled ==
  ASSUME Typed, BeginFlush
  PROVE  Unsettled \subseteq Unsettled'
<1> DEFINE size == IF Len(pending) < BatchSize THEN Len(pending) ELSE BatchSize
<1>1. Len(pending) \in Nat /\ size \in 0..Len(pending) /\ DOMAIN pending = 1..Len(pending)
  BY EntriesOfSeq DEF Typed, ProcessTyped
<1>2. batch' = SubSeq(pending, 1, size) /\ pending' = SubSeq(pending, size + 1, Len(pending))
      /\ batch = << >> /\ next' = 0 /\ next = 0
  BY DEF BeginFlush, Typed, FlushTyped
<1> HIDE DEF size
<1>3. DOMAIN batch' = 1..size /\ \A i \in 1..size : batch'[i] = pending[i]
  BY <1>1, <1>2
<1>4. DOMAIN pending' = 1..(Len(pending) - size)
      /\ \A i \in 1..(Len(pending) - size) : pending'[i] = pending[size + i]
  BY <1>1, <1>2
<1>5. ASSUME NEW i \in 1..Len(pending) PROVE pending[i] \in Unsettled'
  <2>1. CASE i <= size
    <3>1. i \in DOMAIN batch' /\ batch'[i] = pending[i] /\ i >= next'
      BY <1>1, <1>2, <1>3, <2>1
    <3> QED BY <3>1 DEF Unsettled
  <2>2. CASE ~ (i <= size)
    <3>1. i - size \in DOMAIN pending' /\ pending'[i - size] = pending[i]
      BY <1>1, <1>4, <2>2
    <3> QED BY <3>1 DEF Unsettled, Entries
  <2> QED BY <2>1, <2>2
<1>6. Unsettled \subseteq Entries(pending)
  <2>1. DOMAIN batch = {}
    BY <1>2, EntriesOfSeq, EmptySeq DEF Typed, FlushTyped
  <2> QED BY <2>1 DEF Unsettled
<1> QED BY <1>1, <1>5, <1>6 DEF Entries

LEMMA AnswerIsAccounted ==
  ASSUME Typed, Typed', MishapsAreFaults, Answer
  PROVE  MishapsAreFaults'
<1> DEFINE d == batch[next]
<1>1. next \in 1..Len(batch) /\ d.job \in Jobs /\ DOMAIN batch = 1..Len(batch) /\ Len(batch) \in Nat
  <2>1. batch \in Seq(Delivery)
    BY DEF Typed, FlushTyped
  <2>2. DOMAIN batch = 1..Len(batch) /\ Len(batch) \in Nat
    BY <2>1, EntriesOfSeq
  <2>3. next \in 1..Len(batch) /\ d \in Delivery
    BY RowIsOfItsJob
  <2>4. d.job \in Jobs
    BY <2>3 DEF Delivery
  <2> QED BY <2>2, <2>3, <2>4
<1>2. Unsettled \ {d} \subseteq Unsettled'
  <2>1. UNCHANGED pending
    BY DEF Answer
  <2>2. ASSUME NEW k \in DOMAIN batch, k >= next, batch[k] # d PROVE batch[k] \in Unsettled'
    <3>1. k > next /\ next < Len(batch)
      BY <1>1, <2>2
    <3>2. next' = next + 1 /\ UNCHANGED batch
      BY <3>1 DEF Answer
    <3>3. k >= next'
      BY <1>1, <3>1, <3>2
    <3> QED BY <3>2, <3>3 DEF Unsettled
  <2> QED BY <2>1, <2>2 DEF Unsettled
<1>3. UNCHANGED <<starts, failures, stalls, faults>>
  BY DEF Answer
<1> HIDE DEF d
<1>4. ASSUME NEW j \in Jobs, state'[j] = state[j], ~ (HoldsLock(d) /\ d.job = j) PROVE Accounted(j)'
  <2>1. Held(j) => Held(j)'
    BY <1>2, <1>3, <1>4 DEF Held, HoldsLock
  <2> QED BY <1>3, <1>4, <2>1, CountersAreNumbers, OthersStayAccounted
<1>5. CASE HoldsLock(d)
  <2>1. state' = [state EXCEPT ![d.job] = "completed"]
    BY <1>5 DEF Answer, d
  <2>2. state'[d.job] = "completed" /\ \A j \in Jobs : j # d.job => state'[j] = state[j]
    BY <1>1, <2>1 DEF Typed, JobsTyped
  <2>3. ASSUME NEW j \in Jobs, j = d.job PROVE Accounted(j)'
    <3>1. failures[j] \in Nat /\ stalls[j] \in 0..1 /\ faults \in Nat
      BY CountersAreNumbers
    <3>2. failures[j] + stalls[j] <= faults
      BY <3>1 DEF MishapsAreFaults, Accounted, GivenUp, Orphaned
    <3> QED BY <1>3, <2>2, <2>3, <3>1, <3>2 DEF Accounted, GivenUp, Orphaned
  <2>4. ASSUME NEW j \in Jobs, j # d.job PROVE Accounted(j)'
    BY <1>4, <2>2, <2>4
  <2> QED BY <2>3, <2>4 DEF MishapsAreFaults
<1>6. CASE ~ HoldsLock(d)
  BY <1>4, <1>6 DEF Answer, d, MishapsAreFaults
<1> QED BY <1>5, <1>6

LEMMA FailedBatchIsAccounted ==
  ASSUME Typed, Typed', MishapsAreFaults, ProcessFails
  PROVE  MishapsAreFaults'
<1> DEFINE hit == {d.job : d \in {e \in Entries(batch) : HoldsLock(e)}}
<1>1. faults' = faults + 1 /\ UNCHANGED stalls /\ faults \in Nat /\ faults' \in Nat
  BY CountersAreNumbers DEF ProcessFails, Fault, Typed, ProcessTyped
<1>2. \A j \in hit : state[j] = "active"
  BY DEF HoldsLock
<1>3. /\ failures' = [j \in Jobs |-> IF j \in hit THEN failures[j] + 1 ELSE failures[j]]
      /\ state' = [j \in Jobs |-> IF j \notin hit THEN state[j]
                                  ELSE IF failures'[j] < Attempts THEN "delayed" ELSE "failed"]
  BY DEF ProcessFails, RejectBatch, Reject
<1> HIDE DEF hit
<1>4. ASSUME NEW j \in Jobs, j \in hit PROVE Accounted(j)'
  <2>1. failures'[j] = failures[j] + 1 /\ state'[j] = IF failures'[j] < Attempts THEN "delayed" ELSE "failed"
    BY <1>3, <1>4
  <2>2. failures[j] \in Nat /\ stalls[j] \in 0..1 /\ failures[j] + stalls[j] <= faults
    BY <1>1, CountersAreNumbers DEF MishapsAreFaults, Accounted, GivenUp, Orphaned
  <2> QED BY <1>1, <2>1, <2>2 DEF Accounted, GivenUp, Orphaned
<1>5. ASSUME NEW j \in Jobs, j \notin hit PROVE Accounted(j)'
  BY <1>1, <1>3, <1>5, OthersStayAccounted
<1> QED BY <1>4, <1>5 DEF MishapsAreFaults

LEMMA NextIsAccounted ==
  ASSUME UnknownJobs = {}, Typed, Typed', MishapsAreFaults, [Next]_vars
  PROVE  MishapsAreFaults'
<1>1. faults \in Nat /\ faults' \in Nat
  BY DEF Typed, ProcessTyped
<1>2. ASSUME UNCHANGED bull, faults <= faults', Unsettled \subseteq Unsettled' \/ faults < faults'
      PROVE  MishapsAreFaults'
  <2>1. \A j \in Jobs : Held(j) => Held(j)' \/ faults < faults'
    BY <1>2 DEF Held, HoldsLock, bull
  <2> QED BY <1>2, <2>1, OthersStayAccounted DEF bull, MishapsAreFaults
<1>3. CASE UNCHANGED vars
  BY <1>1, <1>2, <1>3 DEF vars, process, Unsettled
<1>4. CASE BeginFlush
  BY <1>1, <1>2, <1>4, BeginFlushKeepsUnsettled DEF BeginFlush
<1>5. CASE ProcessBatch
  <2>1. Unsettled \subseteq Unsettled'
    <3>1. UNCHANGED <<pending, batch>> /\ next' = 1 /\ DOMAIN batch = 1..Len(batch) /\ Len(batch) \in Nat
      BY <1>5, EntriesOfSeq DEF ProcessBatch, Typed, FlushTyped
    <3>2. \A k \in DOMAIN batch : k >= next'
      BY <3>1
    <3> QED BY <3>1, <3>2 DEF Unsettled
  <2> QED BY <1>1, <1>2, <1>5, <2>1 DEF ProcessBatch
<1>6. ~ ProcessRefuses
  BY DEF ProcessRefuses
<1>7. CASE TimerFires \/ Stop \/ Stopped \/ Crash \/ Restart
  BY <1>1, <1>2, <1>7 DEF TimerFires, Stop, Stopped, Crash, Restart, Fault, Unsettled
<1> QED BY <1>3, <1>4, <1>5, <1>6, <1>7, DeliveryIsAccounted, AnswerIsAccounted, FailedBatchIsAccounted DEF Next

\* With known products and at least two attempts, no single crash, lost lock,
\* failed batch or shutdown makes a job fail for good.
THEOREM OneFaultFailsNoJob ==
  ASSUME UnknownJobs = {}, Attempts > 1
  PROVE  Spec => []OneFaultIsSurvived
<1>1. Init => Typed /\ MishapsAreFaults
  BY InitIsTyped DEF Init, MishapsAreFaults, Accounted, GivenUp, Orphaned
<1>2. Typed /\ MishapsAreFaults /\ [Next]_vars => (Typed /\ MishapsAreFaults)'
  BY NextKeepsTypes, NextIsAccounted
<1>3. Typed /\ MishapsAreFaults => OneFaultIsSurvived
  <2> SUFFICES ASSUME Typed, MishapsAreFaults, NEW j \in Jobs, state[j] = "failed" PROVE faults >= 2
    BY DEF OneFaultIsSurvived
  <2>1. Orphaned(j) \in 0..1 /\ GivenUp(j) \in 0..1 /\ failures[j] \in 0..Attempts /\ stalls[j] \in 0..1
        /\ faults \in Nat /\ Attempts \in Nat
    BY CountersAreNumbers DEF Orphaned, GivenUp, Typed, JobsTyped
  <2>2. failures[j] + stalls[j] + GivenUp(j) + Orphaned(j) <= faults
    BY DEF MishapsAreFaults, Accounted
  <2>3. CASE failures[j] < Attempts
    <3>1. stalls[j] = 1 /\ GivenUp(j) = 1
      BY <2>3 DEF MishapsAreFaults, Accounted, GivenUp
    <3> QED BY <2>1, <2>2, <3>1
  <2>4. CASE ~ (failures[j] < Attempts)
    BY <2>1, <2>2, <2>4
  <2> QED BY <2>3, <2>4
<1> QED BY <1>1, <1>2, <1>3, PTL DEF Spec
=============================================================================

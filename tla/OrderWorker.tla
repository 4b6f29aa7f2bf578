------------------------------ MODULE OrderWorker ------------------------------
(***************************************************************************)
(* One worker process between the BullMQ queue and place_order_batch: jobs *)
(* are delivered to MicroBatchCoordinatorService.add, collected, flushed   *)
(* in batches by a timer and a chain of promises, and settled one by one.  *)
(*                                                                         *)
(* The event loop runs one callback at a time; an action is what happens   *)
(* between two awaits.  A delivery is one start of a job: BullMQ accepts   *)
(* its result only while the delivery still holds the job's lock, so the   *)
(* late result of a delivery that lost its lock changes nothing.  The      *)
(* database is reduced to the durable result of each job; it refuses a     *)
(* batch that names an unknown productId.  Delays last any time.           *)
(***************************************************************************)
EXTENDS Naturals, Sequences, FiniteSets

CONSTANTS
  Jobs,         \* jobs in the orders queue
  UnknownJobs,  \* those whose productId is not in the products table
  BatchSize,    \* WORKER_BATCH_SIZE
  Concurrency,  \* WORKER_CONCURRENCY
  Attempts,     \* attempts of ORDER_JOB_OPTIONS
  MaxFaults     \* bound: failures, crashes, lost locks and shutdowns

ASSUME WorkerAssumption ==
  /\ IsFiniteSet(Jobs) /\ UnknownJobs \subseteq Jobs
  /\ {BatchSize, Concurrency, Attempts} \subseteq Nat \ {0}
  /\ MaxFaults \in Nat

VARIABLES
  state,     \* BullMQ state of each job
  starts,    \* how often it was started; names the delivery that holds the lock
  failures,  \* attemptsMade
  stalls,    \* stalledCounter
  returned,  \* return value of a completed job
  decided,   \* durable result in order_results
  up,        \* running, stopping (onModuleDestroy was called) or stopped
  pending,   \* this.pending: deliveries not yet in a batch
  timer,     \* whether this.timer is set
  flushes,   \* flushes on this.flushChain that are not over
  batch,     \* the batch of the running flush; empty when none runs
  rows,      \* rows place_order_batch returned for it
  next,      \* the entry of the batch to be answered next; 0 while processing
  faults

bull    == <<state, starts, failures, stalls, returned>>
process == <<up, pending, timer, flushes, batch, rows, next>>
vars    == <<bull, decided, process, faults>>

Results  == {"SUCCESS", "REJECTED"}
NoResult == "NONE"
Delivery == [job : Jobs, start : Nat]
Entries(s) == {s[i] : i \in DOMAIN s}

TypeOK ==
  /\ state \in [Jobs -> {"waiting", "active", "delayed", "completed", "failed"}]
  /\ starts \in [Jobs -> Nat]
  /\ failures \in [Jobs -> 0..Attempts]
  /\ stalls \in [Jobs -> 0..1]
  /\ returned \in [Jobs -> Results \cup {NoResult}]
  /\ decided \in [Jobs -> Results \cup {NoResult}]
  /\ up \in {"running", "stopping", "stopped"}
  /\ pending \in Seq(Delivery)
  /\ timer \in BOOLEAN
  /\ flushes \in Nat
  /\ batch \in Seq(Delivery)
  /\ rows \in Seq([job : Jobs, status : Results])
  /\ next \in 0..Len(batch)
  /\ faults \in 0..MaxFaults

Init ==
  /\ state = [j \in Jobs |-> "waiting"]
  /\ starts = [j \in Jobs |-> 0]
  /\ failures = [j \in Jobs |-> 0]
  /\ stalls = [j \in Jobs |-> 0]
  /\ returned = [j \in Jobs |-> NoResult]
  /\ decided = [j \in Jobs |-> NoResult]
  /\ up = "running"
  /\ pending = << >> /\ timer = FALSE /\ flushes = 0
  /\ batch = << >> /\ rows = << >> /\ next = 0
  /\ faults = 0

Fault == faults < MaxFaults /\ faults' = faults + 1

HoldsLock(d) == state[d.job] = "active" /\ starts[d.job] = d.start

\* Deliveries whose promise is not settled: each keeps a slot of the worker.
Unsettled == Entries(pending) \cup {batch[i] : i \in {k \in DOMAIN batch : k >= next}}

\* The promises of these deliveries are rejected: BullMQ counts the attempt of
\* those that hold their lock, and delays or gives up the job.
RejectOnce(D) ==              \* mutant: give up after the first failure
  LET hit == {d.job : d \in {e \in D : HoldsLock(e)}}
  IN  /\ failures' = [j \in Jobs |-> IF j \in hit THEN failures[j] + 1 ELSE failures[j]]
      /\ state' = [j \in Jobs |-> IF j \in hit THEN "failed" ELSE state[j]]

Reject(D) ==
  LET hit == {d.job : d \in {e \in D : HoldsLock(e)}}
  IN  /\ failures' = [j \in Jobs |-> IF j \in hit THEN failures[j] + 1 ELSE failures[j]]
      /\ state' = [j \in Jobs |-> IF j \notin hit THEN state[j]
                                  ELSE IF failures'[j] < Attempts THEN "delayed" ELSE "failed"]

-----------------------------------------------------------------------------
(***************************************************************************)
(* BullMQ hands a job to the handler, which calls add.                     *)
(***************************************************************************)
Started(j) == [job |-> j, start |-> starts[j] + 1]

\* After a push: a full batch is flushed at once, otherwise the timer runs.
AddWithoutTimer(j) ==         \* mutant: no flush is scheduled for the delivery
  /\ pending' = Append(pending, Started(j))
  /\ UNCHANGED timer
Add(j) ==
  /\ pending' = Append(pending, Started(j))
  /\ timer' = TRUE

Deliver(j) ==
  /\ up = "running"
  /\ state[j] = "waiting"
  /\ Cardinality(Unsettled) < Concurrency
  /\ state' = [state EXCEPT ![j] = "active"]
  /\ starts' = [starts EXCEPT ![j] = @ + 1]
  /\ Add(j)
  /\ UNCHANGED <<failures, stalls, returned, decided, up, flushes, batch, rows, next, faults>>

\* A job that was being fetched when the coordinator stopped is turned away.
DeliverTooLate(j) ==
  /\ up = "stopping"
  /\ state[j] = "waiting"
  /\ Fault
  /\ starts' = [starts EXCEPT ![j] = @ + 1]
  /\ failures' = [failures EXCEPT ![j] = @ + 1]
  /\ state' = [state EXCEPT ![j] = IF failures'[j] < Attempts THEN "delayed" ELSE "failed"]
  /\ UNCHANGED <<stalls, returned, decided, process>>

\* The back-off of a failed attempt is over.
Promote(j) ==
  /\ state[j] = "delayed"
  /\ state' = [state EXCEPT ![j] = "waiting"]
  /\ UNCHANGED <<starts, failures, stalls, returned, decided, process, faults>>

\* The lock of an active job ran out: its process is gone, or too late to renew
\* it.  maxStalledCount is 1.
Stalled(j) ==
  /\ state[j] = "active"
  /\ IF \E d \in Unsettled : HoldsLock(d) /\ d.job = j THEN Fault ELSE UNCHANGED faults
  /\ IF stalls[j] = 0
     THEN /\ stalls' = [stalls EXCEPT ![j] = 1]
          /\ state' = [state EXCEPT ![j] = "waiting"]
     ELSE /\ state' = [state EXCEPT ![j] = "failed"]
          /\ UNCHANGED stalls
  /\ UNCHANGED <<starts, failures, returned, decided, process>>

-----------------------------------------------------------------------------
(***************************************************************************)
(* MicroBatchCoordinatorService                                            *)
(***************************************************************************)
\* The callback of setTimeout.
TimerFires ==
  /\ timer
  /\ timer' = FALSE
  /\ flushes' = flushes + 1
  /\ UNCHANGED <<bull, decided, up, pending, batch, rows, next, faults>>

\* flushCurrentBatch, to the call of the processor; the chain runs one at a time.
\* With nothing pending it returns before its try block.
BeginFlush ==
  LET size == IF Len(pending) < BatchSize THEN Len(pending) ELSE BatchSize
  IN  /\ flushes > 0
      /\ batch = << >>
      /\ batch' = SubSeq(pending, 1, size)
      /\ pending' = SubSeq(pending, size + 1, Len(pending))
      /\ flushes' = IF size = 0 THEN flushes - 1 ELSE flushes
      /\ UNCHANGED <<bull, decided, up, timer, rows, next, faults>>

\* The finally block: what is still pending gets a timer.
EndFlushForgetting ==         \* mutant: nothing is rescheduled in finally
  /\ batch' = << >> /\ rows' = << >> /\ next' = 0
  /\ flushes' = flushes - 1
  /\ UNCHANGED timer
EndFlushKeepingCursor ==      \* mutant: the cursor is not reset
  /\ batch' = << >> /\ rows' = << >>
  /\ next' = next + 1
  /\ flushes' = flushes - 1
  /\ timer' = (timer \/ pending # << >>)
EndFlush ==
  /\ batch' = << >> /\ rows' = << >> /\ next' = 0
  /\ flushes' = flushes - 1
  /\ timer' = (timer \/ pending # << >>)

\* place_order_batch commits: every job of the batch has a durable result now,
\* and keeps the one it had.
BatchJobs == {d.job : d \in Entries(batch)}
Commits ==
  LET decides == {j \in BatchJobs : decided[j] = NoResult}
  IN  \E f \in [decides -> Results] :
        decided' = [j \in Jobs |-> IF j \in decides THEN f[j] ELSE decided[j]]

\* One row per distinct job, in the order in which the batch names them first.
FirstEntries == {i \in DOMAIN batch : \A k \in 1..(i - 1) : batch[k].job # batch[i].job}
RowPosition(i) == Cardinality({k \in FirstEntries : k <= i})

ProcessBatch ==
  /\ batch # << >> /\ next = 0
  /\ BatchJobs \cap UnknownJobs = {}
  /\ Commits
  /\ rows' = [n \in 1..Cardinality(FirstEntries) |->
                LET i == CHOOSE k \in FirstEntries : RowPosition(k) = n
                IN  [job |-> batch[i].job, status |-> decided'[batch[i].job]]]
  /\ next' = 1
  /\ UNCHANGED <<bull, up, pending, timer, flushes, batch, faults>>

RejectBatch == Reject(Entries(batch)) /\ EndFlush

\* "place_order_batch received an unknown productId": the whole batch is refused.
ProcessRefuses ==
  /\ batch # << >> /\ next = 0
  /\ BatchJobs \cap UnknownJobs # {}
  /\ RejectBatch
  /\ UNCHANGED <<starts, stalls, returned, decided, up, pending, faults>>

\* The call fails, before its commit or after it.
ProcessFails ==
  /\ batch # << >> /\ next = 0
  /\ Fault
  /\ UNCHANGED decided \/ (BatchJobs \cap UnknownJobs = {} /\ Commits)
  /\ RejectBatch
  /\ UNCHANGED <<starts, stalls, returned, up, pending>>

\* One turn of the answering loop: the row is looked up by job id.
RowByPosition(d) ==           \* mutant: the row at the delivery's own position
  rows[IF next <= Len(rows) THEN next ELSE Len(rows)]
RowOf(d) == CHOOSE row \in Entries(rows) : row.job = d.job

Answer ==
  LET d == batch[next]
  IN  /\ next > 0
      /\ IF HoldsLock(d)
         THEN /\ state' = [state EXCEPT ![d.job] = "completed"]
              /\ returned' = [returned EXCEPT ![d.job] = RowOf(d).status]
         ELSE UNCHANGED <<state, returned>>
      /\ IF next < Len(batch)
         THEN next' = next + 1 /\ UNCHANGED <<timer, flushes, batch, rows>>
         ELSE EndFlush
      /\ UNCHANGED <<starts, failures, stalls, decided, up, pending, faults>>

-----------------------------------------------------------------------------
(***************************************************************************)
(* Shutdown, crash and restart of the process.                             *)
(***************************************************************************)
\* Both onModuleDestroy hooks are called: the coordinator drops its timer and
\* queues a flush, the BullMQ worker waits for the handlers still running.
StopWithoutFlush ==           \* mutant: the timer is dropped, nothing is queued
  /\ up = "running"
  /\ Fault
  /\ up' = "stopping"
  /\ timer' = FALSE
  /\ UNCHANGED <<bull, decided, pending, flushes, batch, rows, next>>

Stop ==
  /\ up = "running"
  /\ Fault
  /\ up' = "stopping"
  /\ timer' = FALSE
  /\ flushes' = IF pending # << >> THEN flushes + 1 ELSE flushes
  /\ UNCHANGED <<bull, decided, pending, batch, rows, next>>

Stopped ==
  /\ up = "stopping"
  /\ flushes = 0 /\ Unsettled = {}
  /\ up' = "stopped"
  /\ timer' = FALSE
  /\ UNCHANGED <<bull, decided, pending, flushes, batch, rows, next, faults>>

Crash ==
  /\ up # "stopped"
  /\ Fault
  /\ up' = "stopped"
  /\ pending' = << >> /\ timer' = FALSE /\ flushes' = 0
  /\ batch' = << >> /\ rows' = << >> /\ next' = 0
  /\ UNCHANGED <<bull, decided>>

Restart ==
  /\ up = "stopped"
  /\ up' = "running"
  /\ UNCHANGED <<bull, decided, pending, timer, flushes, batch, rows, next, faults>>

-----------------------------------------------------------------------------
Next ==
  \/ \E j \in Jobs : Deliver(j) \/ DeliverTooLate(j) \/ Promote(j) \/ Stalled(j)
  \/ TimerFires \/ BeginFlush \/ ProcessBatch \/ ProcessRefuses \/ ProcessFails \/ Answer
  \/ Stop \/ Stopped \/ Crash \/ Restart

Spec == Init /\ [][Next]_vars

\* Timers fire, promises run, the database answers, BullMQ delivers, promotes
\* and checks for stalled jobs, and the container is restarted.
Fairness ==
  /\ \A j \in Jobs :
       WF_vars(Deliver(j)) /\ WF_vars(Promote(j)) /\ WF_vars(Stalled(j) /\ UNCHANGED faults)
  /\ WF_vars(TimerFires) /\ WF_vars(BeginFlush)
  /\ WF_vars(ProcessBatch) /\ WF_vars(ProcessRefuses) /\ WF_vars(Answer)
  /\ WF_vars(Stopped) /\ WF_vars(Restart)

FairSpec == Spec /\ Fairness

-----------------------------------------------------------------------------
\* A delivery that waits for a batch is never forgotten: a timer is set, or a
\* flush is queued or running that will look at pending again, also while the
\* process is stopping with more deliveries than one batch takes.
NoLostWakeup ==
  pending # << >> => timer \/ flushes > 0

\* BullMQ reports a job completed only with the result the database has for that
\* very job, also when a redelivery puts the job into one batch twice, or into
\* two batches.
CompletedAsDecided ==
  \A j \in Jobs : state[j] = "completed" => returned[j] # NoResult /\ returned[j] = decided[j]

\* Every job ends completed or failed, across lost locks, failed batches,
\* shutdowns and crashes.
EveryJobEnds ==
  \A j \in Jobs : state[j] = "waiting" ~> state[j] \in {"completed", "failed"}

\* A shutdown comes to its end: what is pending is flushed first, so the BullMQ
\* worker does not wait for handlers that nobody will answer.
ShutdownEnds == up = "stopping" ~> up # "stopping"

\* No single mishap makes a job fail for good: three failed attempts, or a second
\* lost lock, are needed (attempts of ORDER_JOB_OPTIONS).  It is stated for jobs
\* whose products exist: FailedMeansInfrastructure says what the others do.
OneFaultIsSurvived ==
  \A j \in Jobs : state[j] = "failed" => faults >= 2

\* queue-contract.md, section 6.1: a job is failed when infrastructure exceptions
\* used up its retries.  Here for the jobs whose own payload is in order.
FailedMeansInfrastructure ==
  \A j \in Jobs \ UnknownJobs : state[j] = "failed" => faults > 0

=============================================================================

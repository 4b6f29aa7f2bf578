---------------------------- MODULE CacheCoherence ----------------------------
(***************************************************************************)
(* How the product pages cached in Redis follow PostgreSQL: order commits  *)
(* leave rows in transactional_outbox, relays turn them into increments of *)
(* the cache epoch, and API requests read, fill and write the page of the  *)
(* epoch they saw.                                                         *)
(*                                                                         *)
(* The database content is its version, the number of stock changes        *)
(* committed so far; the outbox row of the change to version v is row v.   *)
(* One page stands for all of them, since pages share nothing but the      *)
(* epoch.  Epoch 0 is also what a missing epoch key reads as.  Time is     *)
(* abstracted to expirations that may happen at any moment.                *)
(***************************************************************************)
EXTENDS Naturals, FiniteSets

CONSTANTS
  Requests,         \* GET /products requests; each one also names its fill token
  Relays,           \* worker processes that run an OutboxRelayService
  Nobody,           \* no request
  NoAnswer,         \* not answered yet
  DbError,          \* answered with the error of a database read
  CacheError,       \* answered with the error of a cache write
  MaxWrites,        \* bound: committed stock changes
  MaxFaults,        \* bound: failed calls and crashes
  MaxEpoch,         \* bound of the epoch, never reached for want of changes and faults
  RelayBatchSize,   \* RELAY_BATCH_SIZE
  FollowerAttempts, \* FOLLOWER_ATTEMPTS
  CacheForgets      \* whether Redis Cache may lose its epoch key

ASSUME CacheAssumption ==
  /\ Nobody \notin Requests
  /\ {NoAnswer, DbError, CacheError} \cap (0..MaxWrites) = {}
  /\ {MaxWrites, MaxFaults, MaxEpoch} \subseteq Nat
  /\ {RelayBatchSize, FollowerAttempts} \subseteq Nat \ {0}
  /\ CacheForgets \in BOOLEAN

VARIABLES
  db,           \* committed version of the products table
  unpublished,  \* outbox rows with published_at IS NULL
  postponed,    \* unpublished rows whose next_attempt_at lies in the future
  epoch,        \* fs:cache:products:epoch
  page,         \* the cached page of each epoch: a version, or NoPage
  fill,         \* fs:fill key of each epoch: its token, or Nobody
  relayPc,      \* idle, selected (rows locked) or bumped (epoch incremented)
  relayRows,    \* the outbox rows the relay's transaction has locked
  pc,           \* where each request is in getOrLoad
  sawEpoch,     \* initial.epoch of the request
  data,         \* the version it loaded from the database
  tries,        \* follower reads done
  floor,        \* newest change already published when the request first read
  answer,       \* what it returned
  faults        \* faults so far

store == <<db, unpublished, postponed>>
redis == <<epoch, page, fill>>
relay == <<relayPc, relayRows>>
reads == <<pc, sawEpoch, data, tries, floor, answer>>
vars  == <<store, redis, relay, reads, faults>>

Rows    == 1..MaxWrites
Epochs  == 0..MaxEpoch
NoPage  == MaxWrites + 1          \* no version of the table
Version == 0..MaxWrites

Published      == (1..db) \ unpublished
LastPublished  == CHOOSE v \in Published \cup {0} : \A w \in Published : w <= v
LockedRows     == UNION {relayRows[l] : l \in Relays}

TypeOK ==
  /\ db \in Version
  /\ unpublished \subseteq 1..db
  /\ postponed \subseteq unpublished
  /\ epoch \in Epochs
  /\ page \in [Epochs -> Version \cup {NoPage}]
  /\ fill \in [Epochs -> Requests \cup {Nobody}]
  /\ relayPc \in [Relays -> {"idle", "selected", "bumped"}]
  /\ relayRows \in [Relays -> SUBSET Rows]
  /\ pc \in [Requests -> {"start", "missed", "follower", "winner", "loaded",
                          "releasing", "fallback", "done", "dead"}]
  /\ sawEpoch \in [Requests -> Epochs]
  /\ data \in [Requests -> Version]
  /\ tries \in [Requests -> 0..FollowerAttempts]
  /\ floor \in [Requests -> Version]
  /\ answer \in [Requests -> Version \cup {NoAnswer, DbError, CacheError}]
  /\ faults \in 0..MaxFaults

Init ==
  /\ db = 0 /\ unpublished = {} /\ postponed = {}
  /\ epoch = 0
  /\ page = [e \in Epochs |-> NoPage]
  /\ fill = [e \in Epochs |-> Nobody]
  /\ relayPc = [l \in Relays |-> "idle"]
  /\ relayRows = [l \in Relays |-> {}]
  /\ pc = [r \in Requests |-> "start"]
  /\ sawEpoch = [r \in Requests |-> 0]
  /\ data = [r \in Requests |-> 0]
  /\ tries = [r \in Requests |-> 0]
  /\ floor = [r \in Requests |-> 0]
  /\ answer = [r \in Requests |-> NoAnswer]
  /\ faults = 0

Fault == faults < MaxFaults /\ faults' = faults + 1

Goto(r, to) == pc' = [pc EXCEPT ![r] = to]

\* The request is over with the given answer.
Answered(r, what) ==
  /\ answer' = [answer EXCEPT ![r] = what]
  /\ Goto(r, "done")

-----------------------------------------------------------------------------
(***************************************************************************)
(* PostgreSQL: an order transaction commits with its outbox row.           *)
(***************************************************************************)
CommitOrder ==
  /\ db < MaxWrites
  /\ db' = db + 1
  /\ unpublished' = unpublished \cup {db + 1}
  /\ UNCHANGED <<postponed, redis, relay, reads, faults>>

\* A second passes and next_attempt_at of a row is reached.
BecomeDue(row) ==
  /\ row \in postponed
  /\ postponed' = postponed \ {row}
  /\ UNCHANGED <<db, unpublished, redis, relay, reads, faults>>

-----------------------------------------------------------------------------
(***************************************************************************)
(* OutboxRelayService.flushOnce: one transaction of one relay.  The chain  *)
(* of promises keeps a process to one flush at a time.                     *)
(***************************************************************************)
Due == unpublished \ (postponed \cup LockedRows)   \* FOR UPDATE SKIP LOCKED

SelectFullBatch(l) ==          \* mutant: wait until a whole batch is there
  /\ relayPc[l] = "idle"
  /\ \E S \in SUBSET Due :
       /\ Cardinality(S) = RelayBatchSize
       /\ relayRows' = [relayRows EXCEPT ![l] = S]
  /\ relayPc' = [relayPc EXCEPT ![l] = "selected"]
  /\ UNCHANGED <<store, redis, reads, faults>>

SelectRows(l) ==
  /\ relayPc[l] = "idle"
  /\ Due # {}
  /\ \E S \in SUBSET Due :
       /\ S # {}
       /\ Cardinality(S) = RelayBatchSize \/ (S = Due /\ Cardinality(S) < RelayBatchSize)
       /\ relayRows' = [relayRows EXCEPT ![l] = S]
  /\ relayPc' = [relayPc EXCEPT ![l] = "selected"]
  /\ UNCHANGED <<store, redis, reads, faults>>

\* INCRBY fs:cache:products:epoch by the number of rows.
BumpEpoch(l) ==
  /\ relayPc[l] = "selected"
  /\ epoch + Cardinality(relayRows[l]) <= MaxEpoch
  /\ epoch' = epoch + Cardinality(relayRows[l])
  /\ relayPc' = [relayPc EXCEPT ![l] = "bumped"]
  /\ UNCHANGED <<store, page, fill, relayRows, reads, faults>>

\* UPDATE ... SET published_at, then COMMIT.
PublishBeforeBump(l) ==        \* mutant: rows may be marked before the increment
  /\ relayPc[l] \in {"selected", "bumped"}
  /\ unpublished' = unpublished \ relayRows[l]
  /\ relayPc' = [relayPc EXCEPT ![l] = "idle"]
  /\ relayRows' = [relayRows EXCEPT ![l] = {}]
  /\ UNCHANGED <<db, postponed, redis, reads, faults>>

PublishRows(l) ==
  /\ relayPc[l] = "bumped"
  /\ unpublished' = unpublished \ relayRows[l]
  /\ relayPc' = [relayPc EXCEPT ![l] = "idle"]
  /\ relayRows' = [relayRows EXCEPT ![l] = {}]
  /\ UNCHANGED <<db, postponed, redis, reads, faults>>

\* A step failed: roll back, and put the rows off unless that fails as well.
\* The increment may have reached Redis although the client saw an error.
FlushFails(l) ==
  /\ Fault
  /\ \/ relayPc[l] = "selected" /\ UNCHANGED epoch
     \/ /\ relayPc[l] = "selected"
        /\ epoch + Cardinality(relayRows[l]) <= MaxEpoch
        /\ epoch' = epoch + Cardinality(relayRows[l])
     \/ relayPc[l] = "bumped" /\ UNCHANGED epoch
  /\ postponed' \in {postponed, postponed \cup (relayRows[l] \cap unpublished)}
  /\ relayPc' = [relayPc EXCEPT ![l] = "idle"]
  /\ relayRows' = [relayRows EXCEPT ![l] = {}]
  /\ UNCHANGED <<db, unpublished, page, fill, reads>>

\* The worker dies; the server ends its transaction and frees the rows.
RelayCrashes(l) ==
  /\ relayPc[l] # "idle"
  /\ Fault
  /\ relayPc' = [relayPc EXCEPT ![l] = "idle"]
  /\ relayRows' = [relayRows EXCEPT ![l] = {}]
  /\ UNCHANGED <<store, redis, reads>>

-----------------------------------------------------------------------------
(***************************************************************************)
(* ProductsCacheService.getOrLoad over VersionedProductsCache.             *)
(***************************************************************************)
\* READ_SCRIPT: the epoch and its page in one atomic script.
Read(r) ==
  /\ pc[r] = "start"
  /\ floor' = [floor EXCEPT ![r] = LastPublished]
  /\ IF page[epoch] # NoPage
     THEN Answered(r, page[epoch]) /\ UNCHANGED sawEpoch
     ELSE /\ Goto(r, "missed")
          /\ sawEpoch' = [sawEpoch EXCEPT ![r] = epoch]
          /\ UNCHANGED answer
  /\ UNCHANGED <<store, redis, relay, data, tries, faults>>

\* SET fill-key token PX 1000 NX
AcquireFill(r) ==
  /\ pc[r] = "missed"
  /\ IF fill[sawEpoch[r]] = Nobody
     THEN Goto(r, "winner") /\ fill' = [fill EXCEPT ![sawEpoch[r]] = r]
     ELSE Goto(r, "follower") /\ UNCHANGED fill
  /\ UNCHANGED <<store, epoch, page, relay, sawEpoch, data, tries, floor, answer, faults>>

\* One round of the follower's loop: wait, read again, give up after the last.
FollowOnceMore(r) ==           \* mutant: <= where < is meant in the loop's bound
  /\ pc[r] = "follower"
  /\ tries' = [tries EXCEPT ![r] = @ + 1]
  /\ \/ page[epoch] # NoPage /\ Answered(r, page[epoch])
     \/ /\ page[epoch] = NoPage
        /\ Goto(r, IF epoch # sawEpoch[r] \/ tries[r] = FollowerAttempts
                   THEN "fallback" ELSE "follower")
        /\ UNCHANGED answer
  /\ UNCHANGED <<store, redis, relay, sawEpoch, data, floor, faults>>

FollowForever(r) ==            \* mutant: the follower trusts the winner to finish
  /\ pc[r] = "follower"
  /\ \/ page[epoch] # NoPage /\ Answered(r, page[epoch])
     \/ /\ page[epoch] = NoPage
        /\ Goto(r, IF epoch # sawEpoch[r] THEN "fallback" ELSE "follower")
        /\ UNCHANGED answer
  /\ UNCHANGED <<store, redis, relay, sawEpoch, data, tries, floor, faults>>

Follow(r) ==
  /\ pc[r] = "follower"
  /\ tries' = [tries EXCEPT ![r] = @ + 1]
  /\ \/ page[epoch] # NoPage /\ Answered(r, page[epoch])
     \/ /\ page[epoch] = NoPage
        /\ Goto(r, IF epoch # sawEpoch[r] \/ tries'[r] = FollowerAttempts
                   THEN "fallback" ELSE "follower")
        /\ UNCHANGED answer
  /\ UNCHANGED <<store, redis, relay, sawEpoch, data, floor, faults>>

LoadAsWinner(r) ==
  /\ pc[r] = "winner"
  /\ data' = [data EXCEPT ![r] = db]
  /\ Goto(r, "loaded")
  /\ UNCHANGED <<store, redis, relay, sawEpoch, tries, floor, answer, faults>>

\* WRITE_IF_CURRENT_SCRIPT: the page of the epoch seen, if it is still the epoch.
WriteUnconditionally(r) ==     \* mutant: the script does not compare the epochs
  page' = [page EXCEPT ![epoch] = data[r]]
WriteIfCurrent(r) ==
  page' = IF epoch = sawEpoch[r] THEN [page EXCEPT ![epoch] = data[r]] ELSE page

Write(r) ==
  /\ pc[r] = "loaded"
  /\ WriteIfCurrent(r)
  /\ answer' = [answer EXCEPT ![r] = data[r]]
  /\ Goto(r, "releasing")
  /\ UNCHANGED <<store, epoch, fill, relay, sawEpoch, data, tries, floor, faults>>

\* COMPARE_AND_DELETE_SCRIPT in the finally block.
ReleaseUnchecked(r) ==         \* mutant: DEL without comparing the token
  /\ pc[r] = "releasing"
  /\ fill' = [fill EXCEPT ![sawEpoch[r]] = Nobody]
  /\ Goto(r, "done")
  /\ UNCHANGED <<store, epoch, page, relay, sawEpoch, data, tries, floor, answer, faults>>

Release(r) ==
  /\ pc[r] = "releasing"
  /\ fill' = [fill EXCEPT ![sawEpoch[r]] = IF @ = r THEN Nobody ELSE @]
  /\ Goto(r, "done")
  /\ UNCHANGED <<store, epoch, page, relay, sawEpoch, data, tries, floor, answer, faults>>

LoadAsFallback(r) ==
  /\ pc[r] = "fallback"
  /\ Answered(r, db)
  /\ UNCHANGED <<store, redis, relay, sawEpoch, data, tries, floor, faults>>

\* Redis Cache does not answer: before the fill the request falls back, and
\* the claim may or may not have been stored.
CacheReadFails(r) ==
  /\ pc[r] \in {"start", "missed", "follower"}
  /\ Fault
  /\ Goto(r, "fallback")
  /\ floor' = IF pc[r] = "start" THEN [floor EXCEPT ![r] = LastPublished] ELSE floor
  /\ \/ UNCHANGED fill
     \/ /\ pc[r] = "missed" /\ fill[sawEpoch[r]] = Nobody
        /\ fill' = [fill EXCEPT ![sawEpoch[r]] = r]
  /\ UNCHANGED <<store, epoch, page, relay, sawEpoch, data, tries, answer>>

\* While the winner writes, the error is rethrown; the write may have happened.
CacheWriteFails(r) ==
  /\ pc[r] = "loaded"
  /\ Fault
  /\ WriteIfCurrent(r) \/ UNCHANGED page
  /\ answer' = [answer EXCEPT ![r] = CacheError]
  /\ Goto(r, "releasing")
  /\ UNCHANGED <<store, epoch, fill, relay, sawEpoch, data, tries, floor>>

\* A failed release is ignored; the key expires on its own.
ReleaseFails(r) ==
  /\ pc[r] = "releasing"
  /\ Fault
  /\ Goto(r, "done")
  /\ UNCHANGED <<store, redis, relay, sawEpoch, data, tries, floor, answer>>

LoadFails(r) ==
  /\ pc[r] \in {"winner", "fallback"}
  /\ Fault
  /\ answer' = [answer EXCEPT ![r] = DbError]
  /\ Goto(r, IF pc[r] = "winner" THEN "releasing" ELSE "done")
  /\ UNCHANGED <<store, redis, relay, sawEpoch, data, tries, floor>>

RequestCrashes(r) ==
  /\ pc[r] \notin {"start", "done", "dead"}
  /\ Fault
  /\ Goto(r, "dead")
  /\ UNCHANGED <<store, redis, relay, sawEpoch, data, tries, floor, answer>>

-----------------------------------------------------------------------------
(***************************************************************************)
(* Redis Cache: keys expire or are evicted.  It keeps nothing on disk and  *)
(* evicts under allkeys-lru, so the epoch key itself may go.               *)
(***************************************************************************)
DropPage(e) ==
  /\ page[e] # NoPage
  /\ page' = [page EXCEPT ![e] = NoPage]
  /\ UNCHANGED <<store, epoch, fill, relay, reads, faults>>

DropFill(e) ==
  /\ fill[e] # Nobody
  /\ fill' = [fill EXCEPT ![e] = Nobody]
  /\ UNCHANGED <<store, epoch, page, relay, reads, faults>>

EvictEpoch ==
  /\ CacheForgets /\ Fault
  /\ epoch' = 0
  /\ UNCHANGED <<store, page, fill, relay, reads>>

CacheRestarts ==
  /\ CacheForgets /\ Fault
  /\ epoch' = 0
  /\ page' = [e \in Epochs |-> NoPage]
  /\ fill' = [e \in Epochs |-> Nobody]
  /\ UNCHANGED <<store, relay, reads>>

-----------------------------------------------------------------------------
Flush(l) == SelectRows(l) \/ BumpEpoch(l) \/ PublishRows(l)

Serve(r) ==
  Read(r) \/ AcquireFill(r) \/ Follow(r) \/ LoadAsWinner(r) \/ Write(r)
  \/ Release(r) \/ LoadAsFallback(r)

RequestFault(r) ==
  CacheReadFails(r) \/ CacheWriteFails(r) \/ ReleaseFails(r) \/ LoadFails(r)
  \/ RequestCrashes(r)

Next ==
  \/ CommitOrder
  \/ \E row \in Rows : BecomeDue(row)
  \/ \E l \in Relays : Flush(l) \/ FlushFails(l) \/ RelayCrashes(l)
  \/ \E r \in Requests : Serve(r) \/ RequestFault(r)
  \/ \E e \in Epochs : DropPage(e) \/ DropFill(e)
  \/ EvictEpoch \/ CacheRestarts

Spec == Init /\ [][Next]_vars

(***************************************************************************)
(* Each relay's 250 ms timer keeps calling it, postponed rows become due,  *)
(* and a request that was received is worked on.  Nothing obliges an order *)
(* to commit, a page to expire or a fault to happen.                       *)
(***************************************************************************)
Fairness ==
  /\ \A l \in Relays : WF_vars(Flush(l))
  /\ \A row \in Rows : WF_vars(BecomeDue(row))
  /\ \A r \in Requests : WF_vars(pc[r] # "start" /\ Serve(r))

FairSpec == Spec /\ Fairness

-----------------------------------------------------------------------------
\* The page a reader would hit now shows every change whose outbox row has been
\* published: a fill that overlaps an invalidation never survives it, whatever
\* the interleaving of fills, relays, failures and retries.
CurrentPageIsCurrent ==
  page[epoch] # NoPage => page[epoch] >= LastPublished

\* A request never answers with data older than a change that was published
\* before it started, by whichever path it got the data.
ReadsSeePublished ==
  \A r \in Requests : answer[r] \in Version => answer[r] >= floor[r]

\* Unless it expires, a fill claim is removed only by the request that owns it:
\* a slow winner whose claim expired does not delete its successor's claim.
OnlyOwnerReleasesFill ==
  [][\A e \in Epochs :
       fill[e] # Nobody /\ fill'[e] # fill[e] /\ pc' # pc =>
         pc[fill[e]] = "releasing" /\ pc'[fill[e]] # "releasing"]_vars

\* Every committed change is published in the end, although Redis calls fail,
\* relays die in between, putting the rows off fails, or the cache loses its
\* epoch (the retry of OutboxRelayService).
EveryChangeIsPublished ==
  \A row \in Rows : row \in unpublished ~> row \notin unpublished

\* A request that missed gets an answer even if the winner of the fill dies,
\* unless its own process dies.
EveryReadAnswered ==
  \A r \in Requests : pc[r] = "missed" ~> pc[r] \in {"done", "dead"}

\* doc/contracts/redis-contract.md: the cache may be lost, since it is rebuilt
\* from PostgreSQL.  So what it holds after a loss is not older than what was
\* published before.
LossIsRepaired == CurrentPageIsCurrent

\* doc/architecture/cache-strategy.md, section 7: when Redis Cache fails, the
\* API falls back to PostgreSQL.  So no request fails because of the cache.
CacheFailureFallsBack == \A r \in Requests : answer[r] # CacheError

=============================================================================

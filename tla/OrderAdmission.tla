---------------------------- MODULE OrderAdmission ----------------------------
(***************************************************************************)
(* POST /orders up to its answer: a claim in Redis Operations, the job in  *)
(* the orders queue, and the lookup that answers a repeated request.       *)
(*                                                                         *)
(* A pair is a (userId, productId); createOrderJobId makes one job id of   *)
(* it, so the queue holds at most one job of a pair.  The worker's side of *)
(* the queue is reduced to what a lookup can see of it: a job is live      *)
(* (waiting, active or delayed), completed, failed, or not there, which is *)
(* also what a removal by the retention settings leaves.                   *)
(* A failed Redis call may have been applied or not.  The client's         *)
(* connection has no retry limit, so an unanswered command is sent again   *)
(* after a reconnect, and SET NX may then meet the claim it set itself.    *)
(***************************************************************************)
EXTENDS Naturals

CONSTANTS
  Requests,    \* HTTP requests; each one also names its random claim token
  Pairs,       \* (userId, productId) pairs
  PairOf,      \* the pair each request asks for
  Nobody,      \* no request
  MaxFaults,   \* bound: failed calls, crashes and queue losses
  OpsForgets   \* whether Redis Operations may lose the last second of its AOF

ASSUME AdmissionAssumption ==
  /\ PairOf \in [Requests -> Pairs]
  /\ Nobody \notin Requests
  /\ MaxFaults \in Nat
  /\ OpsForgets \in BOOLEAN

VARIABLES
  claim,    \* fs:claim:order key of each pair: its token, or Nobody
  job,      \* the pair's job in the orders queue
  created,  \* the pairs whose job has ever been created
  decided,  \* the pairs whose order has a durable result
  pc,       \* where each request is in OrdersService.admit
  answer,   \* its HTTP status, 0 before there is one
  faults

queue    == <<job, created, decided>>
requests == <<pc, answer>>
vars     == <<claim, queue, requests, faults>>

JobStates == {"absent", "live", "completed", "failed"}

TypeOK ==
  /\ claim \in [Pairs -> Requests \cup {Nobody}]
  /\ job \in [Pairs -> JobStates]
  /\ created \subseteq Pairs
  /\ decided \subseteq created
  /\ pc \in [Requests -> {"start", "claimed", "releasing", "lookup", "again", "done", "dead"}]
  /\ answer \in [Requests -> {0, 202, 409, 503}]
  /\ \A r \in Requests : answer[r] # 0 <=> pc[r] = "done"
  /\ faults \in 0..MaxFaults

Init ==
  /\ claim = [p \in Pairs |-> Nobody]
  /\ job = [p \in Pairs |-> "absent"]
  /\ created = {}
  /\ decided = {}
  /\ pc = [r \in Requests |-> "start"]
  /\ answer = [r \in Requests |-> 0]
  /\ faults = 0

Fault == faults < MaxFaults /\ faults' = faults + 1

Goto(r, to) == pc' = [pc EXCEPT ![r] = to] /\ UNCHANGED answer

Respond(r, status) ==
  /\ answer' = [answer EXCEPT ![r] = status]
  /\ pc' = [pc EXCEPT ![r] = "done"]

\* SET key token EX 60 NX
SetClaim(r) == claim' = [claim EXCEPT ![PairOf[r]] = IF @ = Nobody THEN r ELSE @]

\* queue.add with the pair's job id: a job that is still kept is not added again.
AddJob(p) ==
  /\ job' = [job EXCEPT ![p] = IF @ = "absent" THEN "live" ELSE @]
  /\ created' = created \cup {p}
  /\ UNCHANGED decided

-----------------------------------------------------------------------------
(***************************************************************************)
(* OrdersService.admit                                                     *)
(***************************************************************************)
Acquire(r) ==
  /\ pc[r] = "start"
  /\ SetClaim(r)
  /\ Goto(r, IF claim[PairOf[r]] = Nobody THEN "claimed" ELSE "lookup")
  /\ UNCHANGED <<queue, faults>>

\* The first SET was applied, its reply lost, the second one answered nil.
AcquireTwice(r) ==
  /\ pc[r] = "start"
  /\ Fault
  /\ SetClaim(r)
  /\ Goto(r, "lookup")
  /\ UNCHANGED queue

AcquireFails(r) ==
  /\ pc[r] = "start"
  /\ Fault
  /\ SetClaim(r) \/ UNCHANGED claim
  /\ Respond(r, 503)
  /\ UNCHANGED queue

Enqueue(r) ==
  /\ pc[r] = "claimed"
  /\ AddJob(PairOf[r])
  /\ Respond(r, 202)
  /\ UNCHANGED <<claim, faults>>

EnqueueFailsAnswered(r) ==    \* mutant: the error is answered before the release
  /\ pc[r] = "claimed"
  /\ Fault
  /\ pc' = [pc EXCEPT ![r] = "releasing"]
  /\ answer' = [answer EXCEPT ![r] = 503]
  /\ UNCHANGED <<claim, queue>>

EnqueueFails(r) ==
  /\ pc[r] = "claimed"
  /\ Fault
  /\ AddJob(PairOf[r]) \/ UNCHANGED queue
  /\ Goto(r, "releasing")
  /\ UNCHANGED claim

\* releaseIfOwned: compare and delete, then the error is answered.
DropClaimUnchecked(r) ==      \* mutant: DEL without comparing the token
  claim' = [claim EXCEPT ![PairOf[r]] = Nobody]
DropClaimByPair(r) ==         \* mutant: the token is compared with the pair's name
  UNCHANGED claim
DropClaim(r) ==
  claim' = [claim EXCEPT ![PairOf[r]] = IF @ = r THEN Nobody ELSE @]

Release(r) ==
  /\ pc[r] = "releasing"
  /\ DropClaim(r)
  /\ Respond(r, 503)
  /\ UNCHANGED <<queue, faults>>

\* A failed release is swallowed.
ReleaseFails(r) ==
  /\ pc[r] = "releasing"
  /\ Fault
  /\ DropClaim(r) \/ UNCHANGED claim
  /\ Respond(r, 503)
  /\ UNCHANGED queue

\* confirmDuplicate: look for the job, wait 10 ms, look once more.
LookupTrustingClaim(r) ==     \* mutant: the claim is taken for a proof of the job
  /\ pc[r] = "lookup"
  /\ Respond(r, 202)
  /\ UNCHANGED <<claim, queue, faults>>

LookupUntilFound(r) ==        \* mutant: keep polling while the job is not there
  /\ pc[r] = "lookup"
  /\ job[PairOf[r]] # "absent"
  /\ Respond(r, 202)
  /\ UNCHANGED <<claim, queue, faults>>

Lookup(r) ==
  /\ pc[r] = "lookup"
  /\ IF job[PairOf[r]] # "absent" THEN Respond(r, 202) ELSE Goto(r, "again")
  /\ UNCHANGED <<claim, queue, faults>>

LookupAgain(r) ==
  /\ pc[r] = "again"
  /\ Respond(r, IF job[PairOf[r]] # "absent" THEN 202 ELSE 409)
  /\ UNCHANGED <<claim, queue, faults>>

LookupFails(r) ==
  /\ pc[r] \in {"lookup", "again"}
  /\ Fault
  /\ Respond(r, 503)
  /\ UNCHANGED <<claim, queue>>

\* The API process dies, or the client's connection does, in mid-request.
RequestDies(r) ==
  /\ pc[r] \notin {"start", "done", "dead"}
  /\ Fault
  /\ Goto(r, "dead")
  /\ UNCHANGED <<claim, queue>>

-----------------------------------------------------------------------------
(***************************************************************************)
(* Redis Operations and the worker.                                        *)
(***************************************************************************)
ClaimExpires(p) ==
  /\ claim[p] # Nobody
  /\ claim' = [claim EXCEPT ![p] = Nobody]
  /\ UNCHANGED <<queue, requests, faults>>

\* The order's transaction commits; the job is reported later, or again.
DecideOrder(p) ==
  /\ job[p] = "live"
  /\ p \notin decided
  /\ decided' = decided \cup {p}
  /\ UNCHANGED <<claim, job, created, requests, faults>>

CompleteJob(p) ==
  /\ job[p] = "live"
  /\ p \in decided
  /\ job' = [job EXCEPT ![p] = "completed"]
  /\ UNCHANGED <<claim, created, decided, requests, faults>>

\* Its last attempt failed.
ExhaustJob(p) ==
  /\ job[p] = "live"
  /\ Fault
  /\ job' = [job EXCEPT ![p] = "failed"]
  /\ UNCHANGED <<claim, created, decided, requests>>

\* removeOnComplete and removeOnFail
RemoveJob(p) ==
  /\ job[p] \in {"completed", "failed"}
  /\ job' = [job EXCEPT ![p] = "absent"]
  /\ UNCHANGED <<claim, created, decided, requests, faults>>

\* appendfsync everysec: a crash may lose the newest claims and jobs.
OpsCrashes ==
  /\ OpsForgets /\ Fault
  /\ \E lost \in SUBSET Pairs :
       /\ claim' = [p \in Pairs |-> IF p \in lost THEN Nobody ELSE claim[p]]
       /\ job' = [p \in Pairs |-> IF p \in lost THEN "absent" ELSE job[p]]
  /\ UNCHANGED <<created, decided, requests>>

-----------------------------------------------------------------------------
Admit(r) ==
  Acquire(r) \/ Enqueue(r) \/ Release(r) \/ Lookup(r) \/ LookupAgain(r)

AdmissionFault(r) ==
  \/ AcquireTwice(r) \/ AcquireFails(r) \/ EnqueueFails(r) \/ ReleaseFails(r)
  \/ LookupFails(r) \/ RequestDies(r)

Environment ==
  \/ \E p \in Pairs :
       \/ ClaimExpires(p) \/ DecideOrder(p) \/ CompleteJob(p)
       \/ ExhaustJob(p) \/ RemoveJob(p)
  \/ OpsCrashes

Next ==
  \/ \E r \in Requests : Admit(r) \/ AdmissionFault(r)
  \/ Environment

Spec == Init /\ [][Next]_vars

\* The event loop works on the requests it has received.  Nothing is assumed of
\* clients, workers, expirations or faults.
Fairness == \A r \in Requests : WF_vars(pc[r] # "start" /\ Admit(r))

FairSpec == Spec /\ Fairness

-----------------------------------------------------------------------------
\* A request is answered 202 only if a job of its pair has been created, by
\* itself or by the request it repeats, however claims expire and calls fail
\* (api-contract.md, section 9: never a false 202).
AcceptedWasCreated ==
  \A r \in Requests : answer[r] = 202 => PairOf[r] \in created

\* A request whose enqueue failed late, after its claim expired and a newer
\* request claimed the pair, does not remove the newer claim.
OnlyOwnerReleases ==
  [][\A p \in Pairs :
       claim[p] # Nobody /\ claim'[p] # claim[p] /\ pc' # pc =>
         pc[claim[p]] = "releasing" /\ pc'[claim[p]] = "done"]_vars

\* Every request that was received is answered, repeated ones included, unless
\* its process dies.
EveryAdmissionAnswered ==
  \A r \in Requests : pc[r] \in {"claimed", "lookup"} ~> pc[r] \in {"done", "dead"}

=============================================================================

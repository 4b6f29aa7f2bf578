--------------------------- MODULE BenchmarkTarget ---------------------------
(***************************************************************************)
(* The system as the benchmark's scripts meet it: the public edge, the     *)
(* worker, the orders queue through queue-admin.mjs, the admission claims, *)
(* and the durable results of one product.                                 *)
(*                                                                         *)
(* Every user orders the same product, so a user names its pair, job,      *)
(* claim and result.  What other modules show is taken as given here: a    *)
(* job is decided once and stock is what was not sold (OrderStore), and a  *)
(* request claims, then enqueues, or finds the claim taken and looks for   *)
(* the job (OrderAdmission, which has its failures in detail).  A handler  *)
(* nobody waits for any more, because its client or the edge timed out,    *)
(* still runs to its end.                                                  *)
(***************************************************************************)
EXTENDS Naturals, FiniteSets

CONSTANTS
  Users,     \* user ids
  Stock,     \* RESET_STOCK: the units a benchmark starts with
  MaxFaults  \* bound: failed commands, timeouts, retries and losses

ASSUME TargetAssumption ==
  /\ Users \subseteq Nat \ {0}
  /\ IsFiniteSet(Users)
  /\ Stock \in Nat \ {0}
  /\ MaxFaults \in Nat

VARIABLES
  edge,    \* whether nginx lets requests in
  worker,  \* whether the worker container runs
  paused,  \* whether the orders queue is paused
  job,     \* the state of each user's job
  claims,  \* the users whose admission claim is set
  result,  \* the durable result of each user's order
  late,    \* handlers nobody waits for, with what they do next
  faults

services == <<edge, worker, paused>>
orders   == <<job, claims, result, late>>
target   == <<services, orders, faults>>

JobStates == {"absent", "waiting", "active", "delayed", "completed", "failed"}
Verdicts  == {"none", "SUCCESS", "SOLD_OUT"}

TargetTypeOK ==
  /\ {edge, worker, paused} \subseteq BOOLEAN
  /\ job \in [Users -> JobStates]
  /\ claims \subseteq Users
  /\ result \in [Users -> Verdicts]
  /\ late \subseteq Users \X {"claim", "add"}
  /\ faults \in 0..MaxFaults

\* What an earlier benchmark may have left: one order's job at rest, its claim and
\* its result, and a request still on its way.
TargetInit ==
  /\ edge = TRUE /\ worker = TRUE /\ paused = FALSE
  /\ result \in [Users -> {"none", "SUCCESS"}]
  /\ job \in [Users -> {"absent", "delayed", "completed"}]
  /\ Cardinality({u \in Users : job[u] # "absent"}) <= 1
  /\ \A u \in Users : job[u] = "completed" <=> result[u] # "none"
  /\ claims = {u \in Users : job[u] # "absent"}
  /\ late \in {{}} \cup {{<<u, "claim">>} : u \in Users}
  /\ faults = 0

Fault == faults < MaxFaults /\ faults' = faults + 1

In(state) == {u \in Users : job[u] = state}

\* getJobCounts: the waiting jobs of a paused queue are counted as paused.
Waiting == IF paused THEN {} ELSE In("waiting")

Decided   == {u \in Users : result[u] # "none"}
Sold      == {u \in Users : result[u] = "SUCCESS"}
Remaining == Stock - Cardinality(Sold)

Move(u, from, to) == job[u] = from /\ job' = [job EXCEPT ![u] = to]

\* queue.add under the pair's job id
AddJob(u) == job' = [job EXCEPT ![u] = IF @ = "absent" THEN "waiting" ELSE @]

-----------------------------------------------------------------------------
(***************************************************************************)
(* The worker and its queue.                                               *)
(***************************************************************************)
Take(u) ==
  /\ worker /\ ~paused
  /\ Move(u, "waiting", "active")
  /\ UNCHANGED <<services, claims, result, late, faults>>

Decide(u) ==
  result' = [result EXCEPT ![u] = IF @ # "none"      THEN @
                             ELSE IF Remaining > 0 THEN "SUCCESS" ELSE "SOLD_OUT"]

Complete(u) ==
  /\ worker
  /\ Move(u, "active", "completed")
  /\ Decide(u)
  /\ UNCHANGED <<services, claims, late, faults>>

\* An attempt fails: the job backs off, or has used up its attempts.
AttemptFails(u) ==
  /\ Fault
  /\ Move(u, "active", "delayed") \/ Move(u, "active", "failed")
  /\ UNCHANGED <<services, claims, result, late>>

Promote(u) ==
  /\ worker /\ ~paused
  /\ Move(u, "delayed", "waiting")
  /\ UNCHANGED <<services, claims, result, late, faults>>

\* Redis Operations restarts without the last second of its append-only file.
JobLost(u) ==
  /\ Fault
  /\ Move(u, "waiting", "absent")
  /\ UNCHANGED <<services, claims, result, late>>

ClaimExpires(u) ==
  /\ u \in claims
  /\ claims' = claims \ {u}
  /\ UNCHANGED <<services, job, result, late, faults>>

-----------------------------------------------------------------------------
(***************************************************************************)
(* Handlers that nobody waits for.                                         *)
(***************************************************************************)
LateClaim(u) ==
  /\ <<u, "claim">> \in late
  /\ claims' = claims \cup {u}
  /\ late' = (late \ {<<u, "claim">>}) \cup (IF u \in claims THEN {} ELSE {<<u, "add">>})
  /\ UNCHANGED <<services, job, result, faults>>

LateAdd(u) ==
  /\ <<u, "add">> \in late
  /\ AddJob(u)
  /\ late' = late \ {<<u, "add">>}
  /\ UNCHANGED <<services, claims, result, faults>>

TargetNext ==
  \E u \in Users :
    \/ Take(u) \/ Complete(u) \/ AttemptFails(u) \/ Promote(u)
    \/ JobLost(u) \/ ClaimExpires(u)
    \/ LateClaim(u) \/ LateAdd(u)
=============================================================================

------------------------------ MODULE Benchmark ------------------------------
(***************************************************************************)
(* A benchmark from its reset to its evidence.                             *)
(*                                                                         *)
(* scripts/reset-db.sh empties the queue, the claims and the product's     *)
(* rows while the edge and the worker are stopped; its EXIT trap starts    *)
(* again what the script stopped, whichever command failed.  Then one of   *)
(* the load scripts runs, and its wrapper judges the run:                  *)
(*   "mixed"      run-mixed-stress.sh: LoadtestO.js or LoadtestNAC.js, then*)
(*                wait-drain and verify-integrity, then mixed-metadata.mjs *)
(*                gives VALID or INVALID;                                  *)
(*   "write",     run-external.sh: competition.js, then a wait on the      *)
(*   "duplicate"  public queue metrics, then metadata.mjs gives INVALID or *)
(*                leaves AWAITING_INTEGRITY_VERIFICATION, and the operator *)
(*                runs verify-integrity before marking the run valid.      *)
(* A command of the reset that fails may still have had its effect, or a   *)
(* part of it.  Signals that do not end the script are left out, and       *)
(* nobody but the benchmark orders while it runs.                          *)
(***************************************************************************)
EXTENDS BenchmarkTarget, FiniteSetsExt

CONSTANTS
  Scripts,   \* the load scripts that may be chosen
  ReadVus,   \* READ_VUS: virtual users that only read
  WriteVus,  \* WRITE_VUS, WRITE_USERS or DUPLICATE_USERS
  Requests   \* requests of each writer: WRITE_ITERATIONS or DUPLICATE_REQUESTS

ASSUME BenchmarkAssumption ==
  /\ Scripts \subseteq {"mixed", "write", "duplicate"}
  /\ ReadVus \in Nat
  /\ WriteVus \in Nat \ {0}
  /\ Requests \in Nat \ {0}
  /\ Users = 1..(ReadVus + WriteVus)  \* USER_COUNT covers the VU ids of both scenarios

VARIABLES
  script,    \* the load script of this benchmark
  step,      \* the command that runs
  stopped,   \* worker_stopped and edge_stopped: what the reset owes a start
  passed,    \* whether the reset printed its PASS
  vus,       \* the ids k6 gave the writing virtual users
  call,      \* each of their requests: where it is, or its answer
  exits,     \* the gates of the evidence that failed
  replay,    \* the retry proof: the replayed user, and the state before
  evidence   \* validityStatus of metadata.json

progress == <<script, stopped, passed>>
load     == <<vus, call>>
verdict  == <<exits, replay, evidence>>
vars     == <<target, step, progress, load, verdict>>

Answers  == {"202", "409", "503", "504"}
Handling == {"claiming", "adding", "checking"}
Slots    == 1..Requests
Calls    == Users \X Slots
Nothing  == [user |-> 0]

Init ==
  /\ TargetInit
  /\ script \in Scripts
  /\ step = "stopEdge"
  /\ stopped = {}
  /\ passed = FALSE
  /\ vus = {}
  /\ call = [c \in Calls |-> "unsent"]
  /\ exits = {}
  /\ replay = Nothing
  /\ evidence = "none"

GoFrom(here, there) == step = here /\ step' = there

Drained == Waiting = {} /\ In("active") = {} /\ In("delayed") = {}

\* waitDrain: poll until nothing is left or the time is up, then look for failed
\* jobs.  Running out of time is a fault unless the jobs cannot move at all.
DrainPasses == Drained /\ In("failed") = {} /\ UNCHANGED faults
DrainFails ==
  \/ /\ Drained /\ In("failed") # {}
     /\ UNCHANGED faults
  \/ /\ ~Drained
     /\ IF worker /\ ~paused THEN Fault ELSE UNCHANGED faults

-----------------------------------------------------------------------------
(***************************************************************************)
(* reset-db.sh                                                             *)
(***************************************************************************)
ResetSteps == {"stopEdge", "pause", "drainActive", "stopWorker", "obliterate", "resume",
               "checkEmpty", "clearClaims", "resetRows", "restartApis", "startWorker",
               "startEdge", "waitDrain", "verifyReset"}

\* nginx stops once its requests are answered, or is killed when they take too long.
StopEdge ==
  /\ GoFrom("stopEdge", "pause")
  /\ edge' = FALSE
  /\ stopped' = {"edge"}
  /\ IF late = {} THEN UNCHANGED faults ELSE Fault
  /\ UNCHANGED <<worker, paused, orders, script, passed, load, verdict>>

\* pauseAndDrainActive
Pause ==
  /\ GoFrom("pause", "drainActive")
  /\ paused' = TRUE
  /\ UNCHANGED <<edge, worker, orders, faults, progress, load, verdict>>

ActiveDrained ==
  /\ GoFrom("drainActive", "stopWorker")
  /\ In("active") = {}
  /\ UNCHANGED <<target, progress, load, verdict>>

StopWorker ==
  /\ GoFrom("stopWorker", "obliterate")
  /\ worker' = FALSE
  /\ stopped' = stopped \cup {"worker"}
  /\ UNCHANGED <<edge, paused, orders, faults, script, passed, load, verdict>>

\* resetQueue: refuse active jobs, obliterate, resume, look again.
Obliterate ==
  /\ GoFrom("obliterate", "resume")
  /\ In("active") = {}
  /\ job' = [u \in Users |-> "absent"]
  /\ UNCHANGED <<services, claims, result, late, faults, progress, load, verdict>>

Resume ==
  /\ GoFrom("resume", "checkEmpty")
  /\ paused' = FALSE
  /\ UNCHANGED <<edge, worker, orders, faults, progress, load, verdict>>

QueueIsEmpty ==
  /\ GoFrom("checkEmpty", "clearClaims")
  /\ In("absent") = Users
  /\ UNCHANGED <<target, progress, load, verdict>>

ClearClaims ==
  /\ GoFrom("clearClaims", "resetRows")
  /\ claims' = {}
  /\ UNCHANGED <<services, job, result, late, faults, progress, load, verdict>>

\* reset-state.sql, one transaction
ResetRows ==
  /\ GoFrom("resetRows", "restartApis")
  /\ result' = [u \in Users |-> "none"]
  /\ UNCHANGED <<services, job, claims, late, faults, progress, load, verdict>>

\* A restarted API has no handler any more.
RestartApis ==
  /\ GoFrom("restartApis", "startWorker")
  /\ late' = {}
  /\ UNCHANGED <<services, job, claims, result, faults, progress, load, verdict>>

StartWorker ==
  /\ GoFrom("startWorker", "startEdge")
  /\ worker' = TRUE
  /\ stopped' = stopped \ {"worker"}
  /\ UNCHANGED <<edge, paused, orders, faults, script, passed, load, verdict>>

StartEdge ==
  /\ GoFrom("startEdge", "waitDrain")
  /\ edge' = TRUE
  /\ stopped' = stopped \ {"edge"}
  /\ UNCHANGED <<worker, paused, orders, faults, script, passed, load, verdict>>

ResetDrained ==
  /\ GoFrom("waitDrain", "verifyReset")
  /\ DrainPasses
  /\ UNCHANGED <<services, orders, progress, load, verdict>>

\* verify-reset.sql: the stock is back, and there are no orders and no results.
ResetVerified ==
  /\ GoFrom("verifyReset", "cleanWorker")
  /\ Decided = {}
  /\ passed' = TRUE
  /\ UNCHANGED <<target, script, stopped, load, verdict>>

\* What a failing command has done to the services: nothing, or all it should.  The
\* flags worker_stopped and edge_stopped are set by the command after it.
Serves(e, w, q) == edge' = e /\ worker' = w /\ paused' = q
Switches(command) ==
  \/ UNCHANGED services
  \/ command = "stopEdge"    /\ Serves(FALSE, worker, paused)
  \/ command = "pause"       /\ Serves(edge, worker, TRUE)
  \/ command = "stopWorker"  /\ Serves(edge, FALSE, paused)
  \/ command = "resume"      /\ Serves(edge, worker, FALSE)
  \/ command = "startWorker" /\ Serves(edge, TRUE, paused)
  \/ command = "startEdge"   /\ Serves(TRUE, worker, paused)

\* And to the orders: some of the jobs, claims and handlers are gone, or the
\* transaction of reset-state.sql is committed.
Clears(command) ==
  /\ \E gone \in SUBSET Users :
       /\ command # "obliterate" => gone = {}
       /\ job' = [u \in Users |-> IF u \in gone THEN "absent" ELSE job[u]]
  /\ IF command = "clearClaims" THEN claims' \in SUBSET claims ELSE UNCHANGED claims
  /\ IF command = "restartApis" THEN late' \in SUBSET late ELSE UNCHANGED late
  /\ \/ UNCHANGED result
     \/ command = "resetRows" /\ result' = [u \in Users |-> "none"]

\* set -e: whatever fails, the script ends in its EXIT trap.  A check may also fail
\* because it is right.
CommandFails ==
  /\ step \in ResetSteps
  /\ step' = "cleanWorker"
  /\ Switches(step)
  /\ Clears(step)
  /\ Fault
  /\ UNCHANGED <<progress, load, verdict>>

CheckRefuses ==
  /\ step' = "cleanWorker"
  /\ \/ step = "checkEmpty" /\ In("absent") # Users /\ UNCHANGED faults
     \/ step = "waitDrain" /\ DrainFails
     \/ step = "verifyReset" /\ Decided # {} /\ UNCHANGED faults
  /\ UNCHANGED <<services, orders, progress, load, verdict>>

\* cleanup: a failed start aborts the trap, a failed resume does not.
CleanWorker ==
  /\ GoFrom("cleanWorker", "cleanQueue")
  /\ worker' = (worker \/ "worker" \in stopped)
  /\ UNCHANGED <<edge, paused, orders, faults, progress, load, verdict>>

CleanQueueIfStopped ==        \* mutant: resume only along with the worker
  /\ GoFrom("cleanQueue", "cleanEdge")
  /\ paused' = (paused /\ "worker" \notin stopped)
  /\ UNCHANGED <<edge, worker, orders, faults, progress, load, verdict>>
CleanQueue ==
  /\ GoFrom("cleanQueue", "cleanEdge")
  /\ \/ paused' = FALSE /\ UNCHANGED faults
     \/ UNCHANGED paused /\ Fault
  /\ UNCHANGED <<edge, worker, orders, progress, load, verdict>>

CleanEdge ==
  /\ GoFrom("cleanEdge", "resetEnded")
  /\ edge' = (edge \/ "edge" \in stopped)
  /\ UNCHANGED <<worker, paused, orders, faults, progress, load, verdict>>

\* docker compose up --wait may have started what it then found unhealthy.
CleanupFails ==
  /\ \/ step = "cleanWorker" /\ "worker" \in stopped /\ Switches("startWorker")
     \/ step = "cleanEdge" /\ "edge" \in stopped /\ Switches("startEdge")
  /\ Fault
  /\ step' = "resetEnded"
  /\ UNCHANGED <<orders, progress, load, verdict>>

ResetStep ==
  \/ StopEdge \/ Pause \/ ActiveDrained \/ StopWorker
  \/ Obliterate \/ Resume \/ QueueIsEmpty \/ ClearClaims \/ ResetRows \/ RestartApis
  \/ StartWorker \/ StartEdge \/ ResetDrained \/ ResetVerified
  \/ CommandFails \/ CheckRefuses
  \/ CleanWorker \/ CleanQueue \/ CleanEdge \/ CleanupFails

-----------------------------------------------------------------------------
(***************************************************************************)
(* The load: setup and the writing virtual users.                          *)
(***************************************************************************)
\* The wrapper of a mixed run starts whatever the reset did; its precondition
\* is there to find out.  metadata.json is written first.
StartRun ==
  /\ step = "resetEnded"
  /\ script = "mixed" \/ passed
  /\ step' = IF script = "mixed" THEN "drainBefore" ELSE "setup"
  /\ evidence' = IF script = "mixed" THEN "RUNNING" ELSE "AWAITING"
  /\ UNCHANGED <<target, progress, load, exits, replay>>

\* A failed first wait-drain ends the wrapper, and metadata.json stays RUNNING.
DrainBefore ==
  /\ step = "drainBefore"
  /\ \/ DrainPasses /\ step' = "precondition"
     \/ DrainFails /\ step' = "exited"
  /\ UNCHANGED <<services, orders, progress, load, verdict>>

\* The facts of verify-integrity.sql and verifyDurableResults, for that many jobs.
FactsHold(jobs) ==
  /\ Cardinality(Decided) = jobs
  /\ Cardinality(Sold) = Min({jobs, Stock})
  /\ Cardinality(In("completed")) = jobs
  /\ In("completed") \subseteq Decided

IntegrityPasses(jobs) == DrainPasses /\ FactsHold(jobs)
IntegrityFails(jobs)  == DrainFails \/ (DrainPasses /\ ~FactsHold(jobs))

Precondition ==
  /\ step = "precondition"
  /\ \/ IntegrityPasses(0) /\ step' = "setup" /\ UNCHANGED verdict
     \/ /\ IntegrityFails(0)
        /\ step' = "exited"
        /\ evidence' = "INVALID"
        /\ UNCHANGED <<exits, replay>>
  /\ UNCHANGED <<services, orders, progress, load>>

\* The writers of a mixed run get any ids of the joint domain; competition.js
\* runs one scenario, whose ids are 1..WriteVus.
VuIds == IF script = "mixed" THEN kSubset(WriteVus, Users) ELSE {1..WriteVus}

\* The token of a virtual user is tokens[id - 1], of the user with that number.
UserOfModulo(id) == ((id - 1) % WriteVus) + 1  \* mutant: as many tokens as writers
UserOf(id) == id

AfterLoad == IF script = "mixed" THEN "drainAfter" ELSE "poll"

Setup ==
  /\ GoFrom("setup", "burst")
  /\ vus' \in VuIds
  /\ UNCHANGED <<target, progress, call, verdict>>

\* A token that cannot be minted aborts the test.
SetupFails ==
  /\ step = "setup"
  /\ Fault
  /\ step' = AfterLoad
  /\ exits' = {"k6"}
  /\ UNCHANGED <<services, orders, progress, load, replay, evidence>>

Put(c, where) == call' = [call EXCEPT ![c] = where]

\* The write profile has a single iteration.
Writing == {c \in Calls : c[1] \in vus /\ (script = "write" => c[2] = 1)}

\* An iteration waits for the one before it; http.batch sends a burst at once.
Send(c) ==
  /\ step = "burst" /\ edge
  /\ c \in Writing
  /\ call[c] = "unsent"
  /\ \A k \in 1..(c[2] - 1) :
       IF script = "duplicate" THEN call[<<c[1], k>>] # "unsent"
                               ELSE call[<<c[1], k>>] \in Answers
  /\ Put(c, "claiming")
  /\ UNCHANGED <<target, step, progress, vus, verdict>>

Claim(c) ==
  LET u == UserOf(c[1]) IN
  /\ call[c] = "claiming"
  /\ claims' = claims \cup {u}
  /\ Put(c, IF u \in claims THEN "checking" ELSE "adding")
  /\ UNCHANGED <<services, job, result, late, faults, step, progress, vus, verdict>>

Add(c) ==
  /\ call[c] = "adding"
  /\ AddJob(UserOf(c[1]))
  /\ Put(c, "202")
  /\ UNCHANGED <<services, claims, result, late, faults, step, progress, vus, verdict>>

Check(c) ==
  /\ call[c] = "checking"
  /\ Put(c, IF job[UserOf(c[1])] # "absent" THEN "202" ELSE "409")
  /\ UNCHANGED <<target, step, progress, vus, verdict>>

\* nginx passes an order that got 503 or no answer to a second instance, or
\* lets the failure through when there is none.
Unavailable(c) ==
  LET u == UserOf(c[1]) IN
  /\ call[c] \in Handling
  /\ Fault
  /\ IF call[c] = "adding"
       THEN claims' = claims \ {u} /\ (AddJob(u) \/ UNCHANGED job)
       ELSE UNCHANGED <<claims, job>>
  /\ Put(c, "claiming") \/ Put(c, "503")
  /\ UNCHANGED <<services, result, late, step, progress, vus, verdict>>

Left(c) == IF call[c] = "claiming" THEN {<<UserOf(c[1]), "claim">>}
           ELSE IF call[c] = "adding" THEN {<<UserOf(c[1]), "add">>} ELSE {}

TimesOut(c) ==
  /\ call[c] \in Handling
  /\ Fault
  /\ late' = late \cup Left(c)
  /\ Put(c, "claiming") \/ Put(c, "504")
  /\ UNCHANGED <<services, job, claims, result, step, progress, vus, verdict>>

\* The checks of competition.js, made by the iterations that come to their end:
\* writeCompetition wants a 202, duplicateBurst 202 or 409 and one 202 among them.
\* A failed check makes k6 exit with 99.
Ended == {v \in vus : \A c \in Writing : c[1] = v => call[c] \in Answers}
ChecksPass ==
  /\ script = "write" => \A v \in Ended : call[<<v, 1>>] = "202"
  /\ script = "duplicate" =>
       \A v \in Ended :
         /\ \A k \in Slots : call[<<v, k>>] \in {"202", "409"}
         /\ \E k \in Slots : call[<<v, k>>] = "202"

\* 99 is a failed threshold: mixed-metadata.mjs lets it pass, run-external.sh does not.
LoadEnds ==
  /\ GoFrom("burst", AfterLoad)
  /\ \A c \in Writing : call[c] \in Answers
  /\ exits' = IF ChecksPass THEN {} ELSE {"k6"}
  /\ UNCHANGED <<target, progress, load, replay, evidence>>

\* maxDuration: what is on its way is cut off without a check, and k6 drops the
\* iterations not yet begun, which only the evidence of a mixed run counts.
LoadCutOff ==
  /\ GoFrom("burst", AfterLoad)
  /\ Fault
  /\ late' = late \cup UNION {Left(c) : c \in Writing}
  /\ call' = [c \in Calls |-> IF call[c] \in Handling THEN "504" ELSE call[c]]
  /\ exits' = (IF ChecksPass THEN {} ELSE {"k6"})
              \cup (IF script = "mixed" /\ \E c \in Writing : call[c] = "unsent"
                     THEN {"dropped_iterations"} ELSE {})
  /\ UNCHANGED <<services, job, claims, result, progress, vus, replay, evidence>>

LoadStep ==
  \/ StartRun \/ DrainBefore \/ Precondition
  \/ Setup \/ SetupFails
  \/ \E c \in Calls : Send(c) \/ Claim(c) \/ Add(c) \/ Check(c) \/ Unavailable(c) \/ TimesOut(c)
  \/ LoadEnds \/ LoadCutOff

-----------------------------------------------------------------------------
(***************************************************************************)
(* The evidence.                                                           *)
(***************************************************************************)
FailGate(gate) == exits' = exits \cup {gate}

DrainAfter ==
  /\ GoFrom("drainAfter", "integrity")
  /\ \/ DrainPasses /\ UNCHANGED exits
     \/ DrainFails /\ FailGate("queueDrain")
  /\ UNCHANGED <<services, orders, progress, load, replay, evidence>>

\* run-external.sh polls the gauges of /metrics, which keep their last values
\* when the API cannot reach Redis Operations.
PollMetrics ==
  /\ GoFrom("poll", "finish")
  /\ \/ DrainPasses /\ UNCHANGED exits
     \/ DrainFails /\ FailGate("queue")
     \/ ~Drained /\ Fault /\ UNCHANGED exits
  /\ UNCHANGED <<services, orders, progress, load, replay, evidence>>

Integrity ==
  /\ step = "integrity"
  /\ \/ IntegrityPasses(WriteVus) /\ step' = "selectReplay" /\ UNCHANGED exits
     \/ IntegrityFails(WriteVus) /\ step' = "judge" /\ FailGate("integrity")
  /\ UNCHANGED <<services, orders, progress, load, replay, evidence>>

\* retryProof: take a successful job out of the queue, put it back, and compare.
\* There is one: the integrity check has just found every job completed, and
\* with stock to sell the first one decided was successful.
Snapshot == [result |-> result, failed |-> In("failed")]

SelectReplay(u) ==
  /\ GoFrom("selectReplay", "replay")
  /\ u \in Sold
  /\ Move(u, "completed", "absent")
  /\ replay' = [user |-> u, before |-> Snapshot]
  /\ UNCHANGED <<services, claims, result, late, faults, progress, load, exits, evidence>>

Replay ==
  /\ GoFrom("replay", "awaitReplay")
  /\ AddJob(replay.user)
  /\ UNCHANGED <<services, claims, result, late, faults, progress, load, verdict>>

AwaitReplay ==
  /\ GoFrom("awaitReplay", "judge")
  /\ LET state == job[replay.user] IN
       \/ /\ state = "completed" /\ Snapshot = replay.before
          /\ UNCHANGED <<exits, faults>>
       \/ /\ state = "failed" \/ (state = "completed" /\ Snapshot # replay.before)
          /\ FailGate("integrity") /\ UNCHANGED faults
       \/ /\ state \notin {"completed", "failed"} /\ FailGate("integrity") /\ Fault
  /\ UNCHANGED <<services, orders, progress, load, replay, evidence>>

\* mixed-metadata.mjs finish: any other gate, of the monitor, the reads or the
\* secret scan, may fail too.
OtherGateFails ==
  /\ step = "judge" /\ script = "mixed"
  /\ "other" \notin exits
  /\ Fault
  /\ FailGate("other")
  /\ UNCHANGED <<services, orders, step, progress, load, replay, evidence>>

JudgeByQueue ==               \* mutant: the exit of verify-integrity is not looked at
  IF exits \ {"integrity"} = {} THEN "VALID" ELSE "INVALID"
Judgement == IF exits = {} THEN "VALID" ELSE "INVALID"

Judge ==
  /\ GoFrom("judge", "exited")
  /\ evidence' = Judgement
  /\ UNCHANGED <<target, progress, load, exits, replay>>

\* metadata.mjs finish: a failed run is INVALID, another one awaits its integrity check.
FinishExternal ==
  /\ step = "finish"
  /\ IF exits = {} THEN (step' = "integrity" /\ UNCHANGED evidence)
                   ELSE (step' = "exited" /\ evidence' = "INVALID")
  /\ UNCHANGED <<target, progress, load, exits, replay>>

EvidenceStep ==
  \/ DrainAfter \/ PollMetrics \/ Integrity
  \/ (\E u \in Users : SelectReplay(u)) \/ Replay \/ AwaitReplay
  \/ OtherGateFails \/ Judge \/ FinishExternal

Next ==
  \/ (TargetNext /\ UNCHANGED <<step, progress, load, verdict>>)
  \/ ResetStep
  \/ LoadStep
  \/ EvidenceStep

Spec == Init /\ [][Next]_vars

-----------------------------------------------------------------------------
(***************************************************************************)
(* Properties.                                                             *)
(***************************************************************************)
\* The script and the target keep to their states.
TypeOK ==
  /\ TargetTypeOK
  /\ stopped \subseteq {"edge", "worker"}
  /\ vus \subseteq Users
  /\ call \in [Calls -> {"unsent"} \cup Handling \cup Answers]
  /\ evidence \in {"none", "RUNNING", "AWAITING", "VALID", "INVALID"}

\* Whichever command of reset-db.sh fails, and however much of it was done, the trap
\* leaves the queue running and a service down only if the failed command is the one
\* that stopped it, before its flag was set (nothing is noted as stopped then, or
\* the edge alone): to leave anything else stopped takes a second failure, in the
\* trap itself.  A reset that prints PASS leaves all running, however much failed.
ResetLeavesServiceRunning ==
  step = "resetEnded" =>
    /\ faults <= 1 => /\ ~paused
                      /\ edge \/ stopped = {}
                      /\ worker \/ stopped = {"edge"}
    /\ passed => edge /\ worker /\ ~paused

\* Evidence marked VALID tells the truth about the orders, whatever was lost,
\* repeated, late or left over before the run: every writer's order has its
\* durable result, nobody else's has one, the stock is sold to as many users as
\* there can be, and so every order answered 202 was decided.
EvidenceIsSound ==
  evidence = "VALID" /\ passed =>
    /\ Decided = {UserOf(v) : v \in vus}
    /\ Cardinality(Sold) = Min({WriteVus, Stock})
    /\ \A c \in Writing : call[c] = "202" => result[UserOf(c[1])] # "none"

\* No false alarm: a benchmark in which nothing failed, however its requests,
\* duplicates, jobs and commands interleave and whatever jobs, claims and results
\* the last benchmark left behind, ends with VALID evidence.  A handler of the last
\* benchmark that is still running when the edge is stopped counts as a failure.
HealthyRunIsValid ==
  step = "exited" /\ faults = 0 => evidence = "VALID"
=============================================================================

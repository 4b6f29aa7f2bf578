--------------------------- MODULE BenchmarkProofs ---------------------------
(***************************************************************************)
(* Machine-checked proofs about Benchmark, for any number of users,        *)
(* writers, requests and units, and any number of failed commands, timeouts, *)
(* lost jobs and failed attempts.                                          *)
(***************************************************************************)
EXTENDS Benchmark, FiniteSetTheorems, TLAPS

USE TargetAssumption, BenchmarkAssumption

-----------------------------------------------------------------------------
(***************************************************************************)
(* Types.                                                                  *)
(***************************************************************************)
LEMMA TargetKeepsTypes ==
  ASSUME TypeOK, TargetNext
  PROVE  TargetTypeOK'
<1>1. PICK u \in Users : \/ Take(u) \/ Complete(u) \/ AttemptFails(u) \/ Promote(u)
                         \/ JobLost(u) \/ ClaimExpires(u)
                         \/ LateClaim(u) \/ LateAdd(u)
  BY DEF TargetNext
<1>2. CASE Take(u)
  BY <1>2 DEF Take, Move, services, TypeOK, TargetTypeOK, JobStates
<1>3. CASE Complete(u)
  BY <1>3 DEF Complete, Move, Decide, services, TypeOK, TargetTypeOK, JobStates, Verdicts
<1>4. CASE AttemptFails(u)
  BY <1>4 DEF Fault, AttemptFails, Move, services, TypeOK, TargetTypeOK, JobStates
<1>5. CASE Promote(u)
  BY <1>5 DEF Promote, Move, services, TypeOK, TargetTypeOK, JobStates
<1>6. CASE JobLost(u)
  BY <1>6 DEF Fault, JobLost, Move, services, TypeOK, TargetTypeOK, JobStates
<1>7. CASE ClaimExpires(u)
  BY <1>7 DEF ClaimExpires, services, TypeOK, TargetTypeOK
<1>8. CASE LateClaim(u)
  BY <1>8 DEF LateClaim, services, TypeOK, TargetTypeOK
<1>9. CASE LateAdd(u)
  BY <1>9 DEF LateAdd, AddJob, services, TypeOK, TargetTypeOK, JobStates
<1> QED BY <1>1, <1>2, <1>3, <1>4, <1>5, <1>6, <1>7, <1>8, <1>9

LEMMA DrainKeepsFaults ==
  ASSUME TypeOK, DrainPasses \/ DrainFails
  PROVE  faults' \in 0..MaxFaults
BY DEF Fault, DrainPasses, DrainFails, TypeOK, TargetTypeOK

LEMMA ResetKeepsTypes ==
  ASSUME TypeOK, ResetStep
  PROVE  TypeOK'
<1>1. CASE StopEdge
  <2>1. faults' \in 0..MaxFaults
    BY <1>1 DEF StopEdge, Fault, TypeOK, TargetTypeOK
  <2> QED BY <1>1, <2>1 DEF StopEdge, TypeOK, TargetTypeOK, orders, load, verdict
<1>2. CASE Pause \/ ActiveDrained \/ StopWorker \/ Resume \/ QueueIsEmpty \/ StartWorker \/ StartEdge
  BY <1>2 DEF Pause, ActiveDrained, StopWorker, Resume, QueueIsEmpty, StartWorker, StartEdge,
     TypeOK, TargetTypeOK, target, services, orders, progress, load, verdict
<1>3. CASE Obliterate \/ ClearClaims \/ ResetRows \/ RestartApis
  BY <1>3 DEF Obliterate, ClearClaims, ResetRows, RestartApis, JobStates, Verdicts,
     TypeOK, TargetTypeOK, services, progress, load, verdict
<1>4. CASE ResetDrained \/ ResetVerified
  BY <1>4 DEF ResetDrained, DrainPasses, ResetVerified, TypeOK, TargetTypeOK, target, services, orders,
     progress, load, verdict
<1>5. CASE CommandFails \/ CheckRefuses
  <2>1. faults' \in 0..MaxFaults
    BY <1>5, DrainKeepsFaults DEF CommandFails, CheckRefuses, Fault, TypeOK, TargetTypeOK
  <2>2. edge' \in BOOLEAN /\ worker' \in BOOLEAN /\ paused' \in BOOLEAN
    BY <1>5 DEF CommandFails, CheckRefuses, Switches, Serves, TypeOK, TargetTypeOK, services
  <2>3. job' \in [Users -> JobStates]
    BY <1>5 DEF CommandFails, CheckRefuses, Clears, JobStates, TypeOK, TargetTypeOK, orders
  <2>4. claims' \subseteq Users /\ late' \subseteq Users \X {"claim", "add"}
    <3>1. claims' \subseteq claims /\ late' \subseteq late
      BY <1>5 DEF CommandFails, CheckRefuses, Clears, orders
    <3> QED BY <3>1 DEF TypeOK, TargetTypeOK
  <2>5. result' \in [Users -> Verdicts]
    BY <1>5 DEF CommandFails, CheckRefuses, Clears, Verdicts, TypeOK, TargetTypeOK, orders
  <2> QED BY <1>5, <2>1, <2>2, <2>3, <2>4, <2>5 DEF CommandFails, CheckRefuses, TypeOK, TargetTypeOK,
     progress, load, verdict
<1>6. CASE CleanWorker \/ CleanEdge
  BY <1>6 DEF CleanWorker, CleanEdge, TypeOK, TargetTypeOK, orders, progress, load, verdict
<1>7. CASE CleanQueue \/ CleanupFails
  <2>1. faults' \in 0..MaxFaults
    BY <1>7 DEF CleanQueue, CleanupFails, Fault, TypeOK, TargetTypeOK
  <2>2. edge' \in BOOLEAN /\ worker' \in BOOLEAN /\ paused' \in BOOLEAN
    BY <1>7 DEF CleanQueue, CleanupFails, Switches, Serves, TypeOK, TargetTypeOK, services
  <2> QED BY <1>7, <2>1, <2>2 DEF CleanQueue, CleanupFails, TypeOK, TargetTypeOK, orders, progress,
     load, verdict
<1> QED BY <1>1, <1>2, <1>3, <1>4, <1>5, <1>6, <1>7 DEF ResetStep

LEMMA VuIdsAreUsers == VuIds \subseteq SUBSET Users
BY DEF VuIds, kSubset

\* What a request or its handler does.
CallStep == \E c \in Calls : Send(c) \/ Claim(c) \/ Add(c) \/ Check(c) \/ Unavailable(c) \/ TimesOut(c)

LEMMA LoadKeepsTypes ==
  ASSUME TypeOK, LoadStep
  PROVE  TypeOK'
<1>1. CASE StartRun
  BY <1>1 DEF StartRun, TypeOK, TargetTypeOK, target, services, orders, progress, load
<1>2. CASE DrainBefore \/ Precondition
  BY <1>2, DrainKeepsFaults DEF DrainBefore, Precondition, IntegrityPasses, IntegrityFails, TypeOK,
     TargetTypeOK, services, orders, progress, load, verdict
<1>3. CASE Setup
  BY <1>3, VuIdsAreUsers DEF Setup, TypeOK, TargetTypeOK, target, services, orders, progress, load, verdict
<1>4. CASE SetupFails
  BY <1>4 DEF Fault, SetupFails, TypeOK, TargetTypeOK, services, orders, progress, load
<1>5. CASE CallStep
  <2>1. PICK c \in Calls : Send(c) \/ Claim(c) \/ Add(c) \/ Check(c) \/ Unavailable(c) \/ TimesOut(c)
    BY <1>5 DEF CallStep
  <2>2. UserOf(c[1]) \in Users
    BY <2>1 DEF Calls, UserOf
  <2>3. CASE Send(c) \/ Claim(c) \/ Add(c) \/ Check(c)
    BY <2>1, <2>2, <2>3 DEF Send, Claim, Add, Check, Put, AddJob, Handling, Answers, JobStates, TypeOK,
       TargetTypeOK, target, services, orders, progress, verdict
  <2>4. CASE Unavailable(c)
    <3>1. faults' \in 0..MaxFaults
      BY <2>4 DEF Unavailable, Fault, TypeOK, TargetTypeOK
    <3>2. job' \in [Users -> JobStates] /\ claims' \subseteq Users
      BY <2>2, <2>4 DEF Unavailable, AddJob, JobStates, TypeOK, TargetTypeOK
    <3>3. call' \in [Calls -> {"unsent"} \cup Handling \cup Answers]
      BY <2>4 DEF Unavailable, Put, Handling, Answers, TypeOK
    <3> QED BY <2>4, <3>1, <3>2, <3>3 DEF Unavailable, TypeOK, TargetTypeOK, services, progress, verdict
  <2>5. CASE TimesOut(c)
    <3>1. Left(c) \subseteq Users \X {"claim", "add"}
      BY <2>2 DEF Left
    <3> QED BY <2>1, <2>5, <3>1 DEF Fault, TimesOut, Put, Handling, Answers, TypeOK, TargetTypeOK,
         services, progress, verdict
  <2> QED BY <2>1, <2>3, <2>4, <2>5
<1>6. CASE LoadEnds
  BY <1>6 DEF LoadEnds, TypeOK, TargetTypeOK, target, services, orders, progress, load
<1>7. CASE LoadCutOff
  <2>1. \A c \in Calls : Left(c) \subseteq Users \X {"claim", "add"}
    BY DEF Left, Calls, UserOf
  <2>2. late' \subseteq Users \X {"claim", "add"}
    BY <1>7, <2>1 DEF LoadCutOff, Writing, TypeOK, TargetTypeOK
  <2>3. call' \in [Calls -> {"unsent"} \cup Handling \cup Answers]
    BY <1>7 DEF LoadCutOff, TypeOK, Answers
  <2> QED BY <1>7, <2>2, <2>3 DEF Fault, LoadCutOff, TypeOK, TargetTypeOK, services, progress
<1> QED BY <1>1, <1>2, <1>3, <1>4, <1>5, <1>6, <1>7 DEF LoadStep, CallStep

LEMMA EvidenceKeepsTypes ==
  ASSUME TypeOK, EvidenceStep
  PROVE  TypeOK'
<1>1. CASE DrainAfter \/ PollMetrics \/ Integrity
  <2>1. faults' \in 0..MaxFaults
    BY <1>1, DrainKeepsFaults DEF DrainAfter, PollMetrics, Integrity, IntegrityPasses, IntegrityFails,
       Fault, TypeOK, TargetTypeOK
  <2> QED BY <1>1, <2>1 DEF DrainAfter, PollMetrics, Integrity, TypeOK, TargetTypeOK, services, orders,
       progress, load
<1>2. CASE \E u \in Users : SelectReplay(u)
  BY <1>2 DEF SelectReplay, Move, JobStates, TypeOK, TargetTypeOK, services, progress, load
<1>3. CASE Replay
  BY <1>3 DEF Replay, AddJob, JobStates, TypeOK, TargetTypeOK, services, progress, load, verdict
<1>4. CASE AwaitReplay \/ OtherGateFails
  <2>1. faults' \in 0..MaxFaults
    BY <1>4 DEF AwaitReplay, OtherGateFails, Fault, TypeOK, TargetTypeOK
  <2> QED BY <1>4, <2>1 DEF AwaitReplay, OtherGateFails, TypeOK, TargetTypeOK, services, orders, progress,
     load
<1>5. CASE Judge \/ FinishExternal
  BY <1>5 DEF Judge, Judgement, FinishExternal, TypeOK, TargetTypeOK, target, services, orders, progress, load
<1> QED BY <1>1, <1>2, <1>3, <1>4, <1>5 DEF EvidenceStep

LEMMA InitIsTyped == Init => TypeOK
<1> SUFFICES ASSUME Init PROVE TypeOK
  OBVIOUS
<1>1. TargetTypeOK
  <2>1. late \subseteq Users \X {"claim", "add"}
    BY DEF Init, TargetInit
  <2>2. job \in [Users -> JobStates] /\ claims \subseteq Users /\ result \in [Users -> Verdicts]
    BY DEF Init, TargetInit, JobStates, Verdicts
  <2>3. edge \in BOOLEAN /\ worker \in BOOLEAN /\ paused \in BOOLEAN
    BY DEF Init, TargetInit
  <2>4. faults \in 0..MaxFaults
    BY DEF Init, TargetInit
  <2> QED BY <2>1, <2>2, <2>3, <2>4 DEF TargetTypeOK
<1> QED BY <1>1 DEF Init, TypeOK

LEMMA StepKeepsTypes == TypeOK /\ [Next]_vars => TypeOK'
<1> SUFFICES ASSUME TypeOK, [Next]_vars PROVE TypeOK'
  OBVIOUS
<1>1. CASE TargetNext /\ UNCHANGED <<step, progress, load, verdict>>
  BY <1>1, TargetKeepsTypes DEF TypeOK, progress, load, verdict
<1>2. CASE UNCHANGED vars
  BY <1>2 DEF vars, target, services, orders, progress, load, verdict, TypeOK, TargetTypeOK
<1> QED BY <1>1, <1>2, ResetKeepsTypes, LoadKeepsTypes, EvidenceKeepsTypes DEF Next

\* Every variable of the scripts and of the target keeps its type, whatever fails; the
\* steps, the gates and the replay are typed by the invariants below where they matter.
THEOREM BenchmarkIsTyped == Spec => []TypeOK
BY InitIsTyped, StepKeepsTypes, PTL DEF Spec

-----------------------------------------------------------------------------
(***************************************************************************)
(* The reset: what the script has stopped is started again, but for a stop  *)
(* that failed after its effect and for a second failure in the trap.       *)
(***************************************************************************)
\* The commands of the trap, all commands of the script, and all before the first request.
Cleaning == {"cleanWorker", "cleanQueue", "cleanEdge"}
InReset  == ResetSteps \cup Cleaning
PreLoad  == InReset \cup {"resetEnded", "drainBefore", "precondition", "setup"}

\* No request is sent before the load's setup.
Unsent == step \in PreLoad => vus = {} /\ \A c \in Calls : call[c] = "unsent"

\* What the script has stopped it owes a start; it stops the edge before the worker and
\* starts it after.
Owed ==
  /\ step \in ResetSteps => (edge \/ "edge" \in stopped) /\ (worker \/ "worker" \in stopped)
  /\ step \in InReset /\ "worker" \in stopped => "edge" \in stopped
  /\ step \in {"stopEdge", "waitDrain", "verifyReset"} => stopped = {}
  /\ step \in {"pause", "drainActive", "stopWorker", "startEdge"} => stopped = {"edge"}
  /\ step \in {"obliterate", "resume", "checkEmpty", "clearClaims", "resetRows", "restartApis",
               "startWorker"} => stopped = {"edge", "worker"}

\* In the trap a service is down that is owed a start, or whose own stop has failed: the
\* edge's with nothing stopped, the worker's with the edge stopped.  Whatever is still
\* stopped then has cost a fault.
Restartable ==
  /\ step = "cleanWorker" => worker \/ stopped # {}
  /\ step \in {"cleanQueue", "cleanEdge"} => worker \/ stopped = {"edge"}
  /\ step \in Cleaning /\ stopped # {} => faults >= 1

\* A reset that has passed owes nothing to the trap.
Passing ==
  /\ passed => step \notin ResetSteps
  /\ passed /\ step \in Cleaning => stopped = {} /\ edge /\ worker /\ ~paused

\* The queue is paused only on the stretch that empties it, or after a failure there.
Resumable ==
  /\ step \in ResetSteps /\ paused => step \in {"drainActive", "stopWorker", "obliterate", "resume"}
  /\ step \in {"cleanWorker", "cleanQueue"} /\ paused => faults >= 1
  /\ step = "cleanEdge" /\ paused => faults >= 2

\* Handlers outlive the edge only by a fault, and no other job can enter the emptied queue.
Emptied ==
  /\ step \in ResetSteps \ {"stopEdge"} /\ late # {} => faults >= 1
  /\ step \in {"resume", "checkEmpty"} /\ In("absent") # Users => faults >= 1

ResetInv == Owed /\ Restartable /\ Passing /\ Resumable /\ Emptied /\ ResetLeavesServiceRunning

\* Every step has at most one fault.
LEMMA FaultsOnlyGrow ==
  ASSUME TypeOK, Next
  PROVE  /\ faults \in Nat /\ faults' \in Nat
         /\ faults' = faults \/ (Fault /\ faults' = faults + 1)
<1>1. TypeOK'
  BY StepKeepsTypes
<1>2. faults \in Nat /\ faults' \in Nat
  BY <1>1 DEF TypeOK, TargetTypeOK
<1>3. CASE TargetNext
  BY <1>2, <1>3 DEF TargetNext, Take, Complete, AttemptFails, Promote, JobLost, ClaimExpires, LateClaim,
     LateAdd, Fault
<1>4. CASE ResetStep
  <2>1. CASE StopEdge \/ ResetDrained \/ CommandFails \/ CheckRefuses \/ CleanQueue \/ CleanupFails
    BY <1>2, <2>1 DEF StopEdge, ResetDrained, DrainPasses, CommandFails, CheckRefuses, DrainFails, CleanQueue,
       CleanupFails, Fault
  <2>2. CASE ~(StopEdge \/ ResetDrained \/ CommandFails \/ CheckRefuses \/ CleanQueue \/ CleanupFails)
    BY <1>2, <1>4, <2>2 DEF ResetStep, Pause, ActiveDrained, StopWorker,
       Obliterate, Resume, QueueIsEmpty, ClearClaims, ResetRows, RestartApis,
       StartWorker, StartEdge, ResetVerified, CleanWorker, CleanEdge, target
  <2> QED BY <2>1, <2>2
<1>5. CASE LoadStep
  <2>1. CASE DrainBefore \/ Precondition \/ SetupFails \/ LoadCutOff \/ \E c \in Calls : Unavailable(c) \/ TimesOut(c)
    BY <1>2, <2>1 DEF DrainBefore, Precondition, IntegrityPasses, IntegrityFails, DrainPasses, DrainFails,
       SetupFails, LoadCutOff, Unavailable, TimesOut, Fault
  <2>2. CASE StartRun \/ Setup \/ LoadEnds \/ \E c \in Calls : Send(c) \/ Claim(c) \/ Add(c) \/ Check(c)
    BY <1>2, <2>2 DEF StartRun, Setup, LoadEnds, Send, Claim, Add, Check, target
  <2> QED BY <1>5, <2>1, <2>2 DEF LoadStep
<1>6. CASE EvidenceStep
  BY <1>2, <1>6 DEF EvidenceStep, DrainAfter, PollMetrics, Integrity, IntegrityPasses, IntegrityFails,
     DrainPasses, DrainFails, SelectReplay, Replay, AwaitReplay, OtherGateFails, Judge, FinishExternal,
     Fault, target
<1> QED BY <1>2, <1>3, <1>4, <1>5, <1>6 DEF Next

\* The steps of the reset, of the load and of the evidence do not mix.
LEMMA ResetStaysInReset ==
  ASSUME ResetStep
  PROVE  /\ step \in InReset /\ step' \in InReset \cup {"resetEnded"}
         /\ UNCHANGED <<script, load, exits, replay, evidence>>
BY DEF ResetStep, StopEdge, Pause, ActiveDrained, StopWorker, Obliterate, Resume, QueueIsEmpty, ClearClaims,
   ResetRows, RestartApis, StartWorker, StartEdge, ResetDrained, ResetVerified, CommandFails, CheckRefuses,
   CleanWorker, CleanQueue, CleanEdge, CleanupFails, GoFrom, ResetSteps, InReset, Cleaning, progress, load, verdict

LEMMA LoadStartsAfterReset ==
  ASSUME TypeOK, Unsent, LoadStep \/ EvidenceStep
  PROVE  step \notin InReset /\ step' \notin InReset \cup {"resetEnded"}
<1>1. CASE CallStep
  BY <1>1 DEF CallStep, Send, Claim, Add, Check, Unavailable, TimesOut, Handling, Unsent, PreLoad, InReset,
     Cleaning, ResetSteps, progress
<1>2. CASE LoadStep /\ ~CallStep
  BY <1>2 DEF LoadStep, CallStep, StartRun, DrainBefore, Precondition, Setup, SetupFails, LoadEnds,
     LoadCutOff, AfterLoad, GoFrom, InReset, Cleaning, ResetSteps
<1>3. CASE EvidenceStep
  BY <1>3 DEF EvidenceStep, DrainAfter, PollMetrics, Integrity, SelectReplay, Replay, AwaitReplay,
     OtherGateFails, Judge, FinishExternal, GoFrom, InReset, Cleaning, ResetSteps
<1> QED BY <1>1, <1>2, <1>3

LEMMA StepKeepsUnsent ==
  ASSUME TypeOK, Unsent, Next
  PROVE  Unsent'
<1>1. CASE TargetNext /\ UNCHANGED <<step, progress, load, verdict>>
  BY <1>1 DEF Unsent, load
<1>2. CASE ResetStep
  BY <1>2, ResetStaysInReset DEF Unsent, PreLoad, load
<1>3. CASE LoadStep
  <2>1. CASE CallStep
    BY <2>1 DEF CallStep, Send, Claim, Add, Check, Unavailable, TimesOut, Handling, Unsent, PreLoad,
       InReset, Cleaning, ResetSteps, progress
  <2>2. CASE LoadStep /\ ~CallStep
    BY <2>2 DEF LoadStep, CallStep, StartRun, DrainBefore, Precondition, Setup, SetupFails, LoadEnds,
       LoadCutOff, AfterLoad, GoFrom, Unsent, PreLoad, InReset, Cleaning, ResetSteps, load
  <2> QED BY <1>3, <2>1, <2>2
<1>4. CASE EvidenceStep
  BY <1>4 DEF EvidenceStep, DrainAfter, PollMetrics, Integrity, SelectReplay, Replay, AwaitReplay,
     OtherGateFails, Judge, FinishExternal, GoFrom, Unsent, PreLoad, InReset, Cleaning, ResetSteps, load
<1> QED BY <1>1, <1>2, <1>3, <1>4 DEF Next

\* Only a late handler gives a job to a user that has none.
LEMMA TargetAddsOnlyLate ==
  ASSUME TypeOK, TargetNext
  PROVE  /\ UNCHANGED services
         /\ late = {} => late' = {} /\ \A u \in Users : job[u] = "absent" => job'[u] = "absent"
BY DEF TargetNext, Take, Complete, AttemptFails, Promote, JobLost, ClaimExpires, LateClaim, LateAdd, Move,
   TypeOK, TargetTypeOK

LEMMA TargetKeepsReset ==
  ASSUME TypeOK, ResetInv, TargetNext, UNCHANGED <<step, progress, load, verdict>>,
         faults \in Nat, faults' \in Nat, faults' = faults \/ faults' = faults + 1
  PROVE  ResetInv'
<1>1. UNCHANGED <<edge, worker, paused, stopped, passed, step>>
  BY TargetAddsOnlyLate DEF services, progress
<1>2. faults' >= faults
  OBVIOUS
<1>3. Owed' /\ Restartable' /\ Passing'
  BY <1>1, <1>2 DEF ResetInv, Owed, Restartable, Passing
<1>4. Resumable'
  BY <1>1, <1>2 DEF ResetInv, Resumable
<1>5. Emptied'
  BY <1>1, <1>2, TargetAddsOnlyLate DEF ResetInv, Emptied, In, ResetSteps
<1>6. ResetLeavesServiceRunning'
  BY <1>1, <1>2 DEF ResetInv, ResetLeavesServiceRunning
<1> QED BY <1>3, <1>4, <1>5, <1>6 DEF ResetInv

\* Each command of the reset, and of its trap, keeps the debts of the script.
LEMMA ResetKeepsReset ==
  ASSUME TypeOK, Unsent, ResetInv, ResetStep,
         faults \in Nat, faults' \in Nat, faults' = faults \/ (Fault /\ faults' = faults + 1)
  PROVE  ResetInv'
<1>0. /\ stopped \subseteq {"edge", "worker"}
      /\ edge \in BOOLEAN /\ worker \in BOOLEAN /\ paused \in BOOLEAN
  BY DEF TypeOK, TargetTypeOK
<1>1. CASE StopEdge
  BY <1>1 DEF StopEdge, ResetInv, Owed, Restartable, Passing, Resumable, Emptied, ResetLeavesServiceRunning, ResetSteps,
     InReset, Cleaning, GoFrom, Fault, orders
<1>2. CASE Pause \/ ActiveDrained \/ StopWorker
  BY <1>2 DEF Pause, ActiveDrained, StopWorker, ResetInv, Owed, Restartable, Passing, Resumable, Emptied,
     ResetLeavesServiceRunning, ResetSteps, InReset, Cleaning, GoFrom, In, target, services, orders,
     progress
<1>3. CASE Obliterate \/ Resume \/ QueueIsEmpty
  BY <1>3 DEF Obliterate, Resume, QueueIsEmpty, ResetInv, Owed, Restartable, Passing, Resumable, Emptied,
     ResetLeavesServiceRunning, ResetSteps, InReset, Cleaning, GoFrom, In, target, services, orders,
     progress
<1>4. CASE ClearClaims \/ ResetRows \/ RestartApis
  BY <1>4 DEF ClearClaims, ResetRows, RestartApis, ResetInv, Owed, Restartable, Passing, Resumable, Emptied,
     ResetLeavesServiceRunning, ResetSteps, InReset, Cleaning, GoFrom, In, target, services, orders,
     progress
<1>5. CASE StartWorker
  BY <1>0, <1>5 DEF StartWorker, ResetInv, Owed, Restartable, Passing, Resumable, Emptied, ResetLeavesServiceRunning,
     ResetSteps, InReset, Cleaning, GoFrom, orders
<1>6. CASE StartEdge
  BY <1>0, <1>6 DEF StartEdge, ResetInv, Owed, Restartable, Passing, Resumable, Emptied, ResetLeavesServiceRunning,
     ResetSteps, InReset, Cleaning, GoFrom, In, target, services, orders, progress
<1>7. CASE ResetDrained \/ ResetVerified
  BY <1>7 DEF ResetDrained, ResetVerified, DrainPasses, ResetInv, Owed, Restartable, Passing, Resumable, Emptied,
     ResetLeavesServiceRunning, ResetSteps, InReset, Cleaning, GoFrom, In, target, services, orders,
     progress
<1>8. CASE CommandFails
  <2>1. faults' >= 1 /\ step' = "cleanWorker" /\ step \in ResetSteps /\ ~passed'
        /\ UNCHANGED stopped
    BY <1>8 DEF CommandFails, Fault, ResetInv, Passing, progress
  <2>2. "worker" \in stopped => "edge" \in stopped
    BY <2>1 DEF ResetInv, Owed, InReset
  <2>3. worker' \/ stopped # {}
    BY <1>0, <1>8, <2>1 DEF CommandFails, Switches, Serves, ResetInv, Owed, services
  <2> QED BY <2>1, <2>2, <2>3 DEF ResetInv, Owed, Restartable, Passing, Resumable, Emptied,
     ResetLeavesServiceRunning, ResetSteps, InReset, Cleaning
<1>9. CASE CheckRefuses
  <2>1. /\ step \in {"checkEmpty", "waitDrain", "verifyReset"} /\ step' = "cleanWorker" /\ ~passed'
        /\ UNCHANGED <<stopped, edge, worker, paused>> /\ ~paused
    BY <1>9 DEF CheckRefuses, ResetInv, Passing, Resumable, ResetSteps, progress, services
  <2>2. step = "checkEmpty" => faults >= 1
    BY <1>9 DEF CheckRefuses, ResetInv, Emptied
  <2>3. "worker" \in stopped => "edge" \in stopped
    BY <2>1 DEF ResetInv, Owed, InReset, ResetSteps
  <2>4. worker \/ stopped # {}
    BY <2>1 DEF ResetInv, Owed, ResetSteps
  <2>5. step # "checkEmpty" => stopped = {}
    BY <2>1 DEF ResetInv, Owed
  <2> QED BY <2>1, <2>2, <2>3, <2>4, <2>5 DEF ResetInv, Owed, Restartable, Passing, Resumable, Emptied,
     ResetLeavesServiceRunning, ResetSteps, InReset, Cleaning
<1>10. CASE CleanWorker
  <2>1. worker' \/ stopped = {"edge"}
    BY <1>0, <1>10 DEF CleanWorker, GoFrom, ResetInv, Owed, Restartable, InReset, Cleaning
  <2> QED BY <1>0, <1>10, <2>1 DEF CleanWorker, ResetInv, Owed, Restartable, Passing, Resumable, Emptied,
     ResetLeavesServiceRunning, ResetSteps, InReset, Cleaning, GoFrom, orders, progress
<1>11. CASE CleanQueue
  BY <1>0, <1>11 DEF CleanQueue, ResetInv, Owed, Restartable, Passing, Resumable, Emptied,
     ResetLeavesServiceRunning, ResetSteps, InReset, Cleaning, GoFrom, Fault, orders, progress
<1>12. CASE CleanEdge
  <2>1. edge' \/ stopped = {}
    BY <1>0, <1>12 DEF CleanEdge, GoFrom, ResetInv, Owed, InReset, Cleaning
  <2>2. worker' \/ stopped = {"edge"}
    BY <1>12 DEF CleanEdge, GoFrom, ResetInv, Restartable
  <2>3. faults' <= 1 => ~paused'
    BY <1>12 DEF CleanEdge, GoFrom, ResetInv, Resumable
  <2>4. passed' => edge' /\ worker' /\ ~paused'
    BY <1>12 DEF CleanEdge, GoFrom, ResetInv, Passing, Cleaning, progress
  <2>5. stopped' = stopped /\ step' = "resetEnded"
    BY <1>12 DEF CleanEdge, GoFrom, progress
  <2> QED BY <2>1, <2>2, <2>3, <2>4, <2>5 DEF ResetInv, Owed, Restartable, Passing, Resumable, Emptied,
     ResetLeavesServiceRunning, ResetSteps, InReset, Cleaning
<1>13. CASE CleanupFails
  <2>1. step \in Cleaning /\ stopped # {} /\ step' = "resetEnded" /\ faults' = faults + 1
        /\ UNCHANGED passed
    BY <1>13 DEF CleanupFails, Fault, Cleaning, progress
  <2>2. faults' >= 2 /\ ~passed'
    BY <2>1 DEF ResetInv, Restartable, Passing
  <2> QED BY <2>1, <2>2 DEF ResetInv, Owed, Restartable, Passing, Resumable, Emptied,
     ResetLeavesServiceRunning, ResetSteps, InReset, Cleaning
<1> QED BY <1>1, <1>2, <1>3, <1>4, <1>5, <1>6, <1>7,
        <1>8, <1>9, <1>10, <1>11, <1>12, <1>13 DEF ResetStep

LEMMA StepKeepsReset == TypeOK /\ Unsent /\ ResetInv /\ [Next]_vars => Unsent' /\ ResetInv'
<1> SUFFICES ASSUME TypeOK, Unsent, ResetInv, [Next]_vars PROVE Unsent' /\ ResetInv'
  OBVIOUS
<1>1. CASE UNCHANGED vars
  BY <1>1 DEF vars, target, services, orders, progress, load, verdict, Unsent, ResetInv, Owed,
     Restartable, Passing, Resumable, Emptied, ResetLeavesServiceRunning, In
<1>2. CASE TargetNext /\ UNCHANGED <<step, progress, load, verdict>>
  BY <1>2, TargetKeepsReset, StepKeepsUnsent, FaultsOnlyGrow DEF Next
<1>3. CASE ResetStep
  BY <1>3, ResetKeepsReset, StepKeepsUnsent, FaultsOnlyGrow DEF Next
<1>4. CASE LoadStep \/ EvidenceStep
  <2>1. ResetInv'
    BY <1>4, LoadStartsAfterReset DEF ResetInv, Owed, Restartable, Passing, Resumable, Emptied, ResetLeavesServiceRunning,
       InReset, Cleaning, ResetSteps
  <2> QED BY <1>4, <2>1, StepKeepsUnsent DEF Next
<1> QED BY <1>1, <1>2, <1>3, <1>4 DEF Next

LEMMA InitHasReset == Init => Unsent /\ ResetInv
BY DEF Init, TargetInit, Unsent, ResetInv, Owed, Restartable, Passing, Resumable, Emptied, ResetLeavesServiceRunning,
   InReset, Cleaning, ResetSteps

\* Whichever command of reset-db.sh fails, and however much of it was done, its trap
\* leaves nothing stopped but the service whose own stop failed before its flag was
\* set, for any number of users and whatever the last benchmark left behind; more
\* takes a second failure, and a reset that passed leaves everything running.
THEOREM ResetAlwaysLeavesServiceRunning == Spec => []ResetLeavesServiceRunning
<1>1. ResetInv => ResetLeavesServiceRunning
  BY DEF ResetInv
<1> QED BY <1>1, InitHasReset, StepKeepsReset, BenchmarkIsTyped, PTL DEF Spec

-----------------------------------------------------------------------------
(***************************************************************************)
(* The evidence: from a reset that passed on, whoever has a job or a result *)
(* is a writer of this benchmark, so counting results is enough.           *)
(***************************************************************************)
\* The user has a job, a result, or a handler that will make one.
Touched(u) == \/ job[u] # "absent" \/ result[u] # "none"
              \/ <<u, "claim">> \in late \/ <<u, "add">> \in late

\* After a reset that passed, only users of this benchmark's writers are touched.
Confined == passed => \A u \in Users : Touched(u) => u \in vus

\* As many writers as asked for, and requests of theirs only.
Senders ==
  /\ vus = {} \/ Cardinality(vus) = WriteVus
  /\ \A c \in Calls : call[c] # "unsent" => c[1] \in vus

\* What the reset has emptied, command by command: while the worker is down no job leaves
\* "waiting", once the handlers are gone nothing is added, and what is then completed has
\* a result that verify-reset.sql would see.
Emptying ==
  /\ step \in ResetSteps => ~passed
  /\ step \in {"obliterate", "resume", "checkEmpty", "clearClaims", "resetRows", "restartApis",
               "startWorker"} => ~worker
  /\ step \in {"resume", "checkEmpty", "clearClaims", "resetRows", "restartApis", "startWorker"} =>
       \A u \in Users : job[u] \in {"absent", "waiting"}
  /\ step \in {"startWorker", "startEdge", "waitDrain", "verifyReset"} => late = {}
  /\ step \in {"startEdge", "waitDrain", "verifyReset"} =>
       \A u \in Users : job[u] = "completed" => result[u] # "none"
  /\ step = "verifyReset" => \A u \in Users : job[u] \in {"absent", "completed"}

\* The job of the retry proof is one that was decided.
Replaying == step \in {"replay", "awaitReplay"} => replay.user \in Users /\ result[replay.user] # "none"

\* What VALID says, and the places that may only be reached when it is true.
FactsAreTrue == Decided = vus /\ Cardinality(Sold) = Min({WriteVus, Stock})

Proven ==
  /\ evidence = "VALID" => step = "exited"
  /\ passed /\ (\/ step \in {"selectReplay", "replay", "awaitReplay"}
                \/ step = "judge" /\ exits = {}
                \/ evidence = "VALID") => FactsAreTrue

EvidenceInv == Confined /\ Senders /\ Emptying /\ Replaying /\ Proven

\* The target works on what it has: it starts nothing for an untouched user and keeps
\* every result.
LEMMA TargetTouchesNobodyNew ==
  ASSUME TypeOK, TargetNext
  PROVE  /\ \A u \in Users : Touched(u)' => Touched(u)
         /\ \A u \in Users : result[u] # "none" => result'[u] = result[u]
<1>1. PICK u \in Users : \/ Take(u) \/ Complete(u) \/ AttemptFails(u) \/ Promote(u)
                         \/ JobLost(u) \/ ClaimExpires(u)
                         \/ LateClaim(u) \/ LateAdd(u)
  BY DEF TargetNext
<1>2. CASE Complete(u)
  BY <1>2 DEF Complete, Move, Decide, Touched, TypeOK, TargetTypeOK
<1>3. CASE Take(u) \/ AttemptFails(u) \/ Promote(u) \/ JobLost(u) \/ ClaimExpires(u)
  BY <1>3 DEF Take, AttemptFails, Promote, JobLost, ClaimExpires, Move, Touched, TypeOK, TargetTypeOK
<1>4. CASE LateClaim(u) \/ LateAdd(u)
  BY <1>4 DEF LateClaim, LateAdd, AddJob, Touched, TypeOK, TargetTypeOK
<1> QED BY <1>1, <1>2, <1>3, <1>4

\* When every job's user has a result, completing a job decides nothing.
LEMMA TargetKeepsDecided ==
  ASSUME TypeOK, TargetNext, \A u \in Users : job[u] # "absent" => result[u] # "none"
  PROVE  result' = result
BY DEF TargetNext, Take, Complete, AttemptFails, Promote, JobLost, ClaimExpires, LateClaim, LateAdd, Move,
   Decide, TypeOK, TargetTypeOK

LEMMA TargetKeepsEmptying ==
  ASSUME TypeOK, Emptying, TargetNext, UNCHANGED <<step, progress, load, verdict>>
  PROVE  Emptying'
<1>1. UNCHANGED <<step, passed, worker>>
  BY TargetAddsOnlyLate DEF progress, services
<1>2. late = {} => late' = {} /\ \A u \in Users : job[u] = "absent" => job'[u] = "absent"
  BY TargetAddsOnlyLate
<1>3. PICK u \in Users : \/ Take(u) \/ Complete(u) \/ AttemptFails(u) \/ Promote(u)
                         \/ JobLost(u) \/ ClaimExpires(u)
                         \/ LateClaim(u) \/ LateAdd(u)
  BY DEF TargetNext
<1>4. ~worker /\ (\A v \in Users : job[v] \in {"absent", "waiting"}) =>
        \A v \in Users : job'[v] \in {"absent", "waiting"}
  BY <1>3 DEF Take, Complete, AttemptFails, Promote, JobLost, ClaimExpires, LateClaim, LateAdd, Move, AddJob,
     TypeOK, TargetTypeOK
<1>5. (\A v \in Users : job[v] = "completed" => result[v] # "none") =>
        \A v \in Users : job'[v] = "completed" => result'[v] # "none"
  BY <1>3 DEF Take, Complete, AttemptFails, Promote, JobLost, ClaimExpires, LateClaim, LateAdd, Move,
     AddJob, Decide, TypeOK, TargetTypeOK
<1>6. late = {} /\ (\A v \in Users : job[v] \in {"absent", "completed"}) =>
        \A v \in Users : job'[v] \in {"absent", "completed"}
  BY <1>3 DEF Take, Complete, AttemptFails, Promote, JobLost, ClaimExpires, LateClaim, LateAdd, Move,
     TypeOK, TargetTypeOK
<1> QED BY <1>1, <1>2, <1>4, <1>5, <1>6 DEF Emptying, ResetSteps

LEMMA TargetKeepsEvidence ==
  ASSUME TypeOK, EvidenceInv, TargetNext, UNCHANGED <<step, progress, load, verdict>>
  PROVE  EvidenceInv'
<1>0. UNCHANGED <<step, passed, vus, call, exits, replay, evidence>>
  BY DEF progress, load, verdict
<1>1. Confined'
  BY <1>0, TargetTouchesNobodyNew DEF EvidenceInv, Confined
<1>2. Senders'
  BY <1>0 DEF EvidenceInv, Senders
<1>3. Replaying'
  BY <1>0, TargetTouchesNobodyNew DEF EvidenceInv, Replaying
<1>4. Proven'
  <2>1. FactsAreTrue /\ passed => result' = result
    BY TargetKeepsDecided DEF EvidenceInv, Confined, Touched, FactsAreTrue, Decided
  <2>2. FactsAreTrue /\ passed => FactsAreTrue'
    BY <1>0, <2>1 DEF FactsAreTrue, Decided, Sold
  <2> QED BY <1>0, <2>2 DEF EvidenceInv, Proven
<1> QED BY <1>1, <1>2, <1>3, <1>4, TargetKeepsEmptying DEF EvidenceInv

\* verify-reset.sql passes only over an untouched product.
LEMMA ResetKeepsConfined ==
  ASSUME TypeOK, Unsent, Resumable, EvidenceInv, ResetStep
  PROVE  Confined'
<1>1. CASE ResetVerified
  BY <1>1 DEF ResetVerified, GoFrom, EvidenceInv, Emptying, Confined, Touched, Decided, target, orders
<1>2. CASE CheckRefuses \/ CleanWorker \/ CleanQueue \/ CleanEdge \/ CleanupFails
  BY <1>2 DEF CheckRefuses, CleanWorker, CleanQueue, CleanEdge, CleanupFails, EvidenceInv, Confined, Touched,
     orders, progress, load
<1>3. CASE ~(ResetVerified \/ CheckRefuses \/ CleanWorker \/ CleanQueue \/ CleanEdge \/ CleanupFails)
  <2>1. ~passed /\ ~passed'
    BY <1>3 DEF ResetStep, StopEdge, Pause, ActiveDrained, StopWorker, Obliterate, Resume, QueueIsEmpty,
       ClearClaims, ResetRows, RestartApis, StartWorker, StartEdge, ResetDrained, CommandFails, GoFrom,
       EvidenceInv, Emptying, ResetSteps, progress
  <2> QED BY <2>1 DEF Confined
<1> QED BY <1>1, <1>2, <1>3

LEMMA ResetKeepsEmptying ==
  ASSUME TypeOK, Resumable, Emptying, ResetStep
  PROVE  Emptying'
<1>1. CASE StopEdge \/ Pause \/ ActiveDrained \/ StopWorker
  BY <1>1 DEF StopEdge, Pause, ActiveDrained, StopWorker, GoFrom, Emptying, ResetSteps, target, services,
     orders, progress
<1>2. CASE Obliterate
  BY <1>2 DEF Obliterate, GoFrom, Emptying, ResetSteps, services, progress
<1>3. CASE Resume \/ QueueIsEmpty \/ ClearClaims
  BY <1>3 DEF Resume, QueueIsEmpty, ClearClaims, GoFrom, Emptying, ResetSteps, target, services, orders,
     progress
<1>4. CASE ResetRows \/ RestartApis
  BY <1>4 DEF ResetRows, RestartApis, GoFrom, Emptying, ResetSteps, services, progress
<1>5. CASE StartWorker \/ StartEdge
  BY <1>5 DEF StartWorker, StartEdge, GoFrom, Emptying, ResetSteps, services, orders, progress
<1>6. CASE ResetDrained
  <2>1. ~paused
    BY <1>6 DEF ResetDrained, GoFrom, Resumable, ResetSteps
  <2>2. \A u \in Users : job[u] \notin {"waiting", "active", "delayed", "failed"}
    BY <1>6, <2>1 DEF ResetDrained, DrainPasses, Drained, Waiting, In
  <2>3. \A u \in Users : job[u] \in {"absent", "completed"}
    BY <2>2 DEF TypeOK, TargetTypeOK, JobStates
  <2> QED BY <1>6, <2>3 DEF ResetDrained, GoFrom, Emptying, ResetSteps, services, orders, progress
<1>7. CASE ~(StopEdge \/ Pause \/ ActiveDrained \/ StopWorker \/ Obliterate \/ Resume \/ QueueIsEmpty \/ ClearClaims
             \/ ResetRows \/ RestartApis \/ StartWorker \/ StartEdge \/ ResetDrained)
  BY <1>7 DEF ResetStep, ResetVerified, CommandFails, CheckRefuses, CleanWorker, CleanQueue, CleanEdge, CleanupFails,
     GoFrom, Emptying, ResetSteps
<1> QED BY <1>1, <1>2, <1>3, <1>4, <1>5, <1>6, <1>7

LEMMA ResetKeepsEvidence ==
  ASSUME TypeOK, Unsent, Resumable, EvidenceInv, ResetStep
  PROVE  EvidenceInv'
<1>1. /\ step \in InReset /\ step' \in InReset \cup {"resetEnded"}
      /\ UNCHANGED <<vus, call, exits, replay, evidence>>
  BY ResetStaysInReset DEF load
<1>2. Senders'
  BY <1>1 DEF EvidenceInv, Senders
<1>3. Replaying' /\ Proven'
  BY <1>1 DEF EvidenceInv, Replaying, Proven, InReset, Cleaning, ResetSteps
<1> QED BY <1>2, <1>3, ResetKeepsConfined, ResetKeepsEmptying DEF EvidenceInv

LEMMA CallsTouchOnlyTheirUser ==
  ASSUME TypeOK, Senders, CallStep
  PROVE  /\ \A u \in Users : Touched(u)' => Touched(u) \/ u \in vus
         /\ \A c \in Calls : call'[c] # "unsent" => c[1] \in vus
         /\ UNCHANGED <<services, step, progress, vus, verdict, result>>
<1>1. PICK c \in Calls : Send(c) \/ Claim(c) \/ Add(c) \/ Check(c) \/ Unavailable(c) \/ TimesOut(c)
  BY DEF CallStep
<1>2. UNCHANGED <<services, step, progress, vus, verdict, result>>
  BY <1>1 DEF Send, Claim, Add, Check, Unavailable, TimesOut, target, orders
<1>3. c[1] \in Users /\ c[1] \in vus
  BY <1>1 DEF Send, Claim, Add, Check, Unavailable, TimesOut, Senders, Handling, Writing, Calls
<1>4. \A d \in Calls : call'[d] # "unsent" => d[1] \in vus
  BY <1>1, <1>3 DEF Send, Claim, Add, Check, Unavailable, TimesOut, Put, Senders, TypeOK
<1>5. /\ \A u \in Users : job'[u] = job[u] \/ u = c[1]
      /\ late' \subseteq late \cup ({c[1]} \X {"claim", "add"})
  BY <1>1, <1>3 DEF Send, Claim, Add, Check, Unavailable, TimesOut, AddJob, Left, UserOf, TypeOK,
     TargetTypeOK, target, orders
<1> QED BY <1>2, <1>3, <1>4, <1>5 DEF Touched

\* The ids of one scenario.
LEMMA WritersAreCounted == Cardinality(1..WriteVus) = WriteVus
<1>1. Cardinality(1..WriteVus) = IF 1 > WriteVus THEN 0 ELSE WriteVus - 1 + 1
  BY FS_Interval
<1> QED BY <1>1

LEMMA LoadKeepsEvidence ==
  ASSUME TypeOK, Unsent, EvidenceInv, LoadStep
  PROVE  EvidenceInv'
<1>0. step \notin InReset /\ step' \notin InReset \cup {"resetEnded"}
  BY LoadStartsAfterReset
<1>1. Emptying'
  BY <1>0 DEF Emptying, InReset, ResetSteps
<1>2. CASE CallStep
  <2>1. Confined' /\ Senders'
    BY <1>2, CallsTouchOnlyTheirUser DEF EvidenceInv, Confined, Senders, progress
  <2>2. UNCHANGED <<result, step, passed, vus, exits, replay, evidence>>
    BY <1>2, CallsTouchOnlyTheirUser DEF EvidenceInv, progress, verdict
  <2>3. FactsAreTrue => FactsAreTrue'
    BY <2>2 DEF FactsAreTrue, Decided, Sold
  <2>4. Replaying' /\ Proven'
    BY <2>2, <2>3 DEF EvidenceInv, Replaying, Proven
  <2> QED BY <1>1, <2>1, <2>4 DEF EvidenceInv
<1>3. CASE StartRun \/ DrainBefore \/ Precondition
  <2>1. UNCHANGED <<orders, passed, load, replay>>
    BY <1>3 DEF StartRun, DrainBefore, Precondition, target, progress, verdict
  <2>2. Confined' /\ Senders'
    BY <2>1 DEF EvidenceInv, Confined, Senders, Touched, orders, load
  <2>3. step' \in {"drainBefore", "setup", "precondition", "exited"} /\ evidence' # "VALID"
    BY <1>3 DEF StartRun, DrainBefore, Precondition, EvidenceInv, Proven, verdict
  <2> QED BY <1>1, <2>2, <2>3 DEF EvidenceInv, Replaying, Proven
<1>4. CASE Setup \/ SetupFails
  <2>1. vus = {} /\ evidence # "VALID"
    BY <1>4 DEF Setup, SetupFails, GoFrom, Unsent, PreLoad, EvidenceInv, Proven
  <2>2. UNCHANGED <<orders, passed, call, replay, evidence>>
    BY <1>4 DEF Setup, SetupFails, target, progress, load, verdict
  <2>3. Confined'
    BY <2>1, <2>2 DEF EvidenceInv, Confined, Touched, orders
  <2>4. vus' = {} \/ Cardinality(vus') = WriteVus
    BY <1>4, <2>1, WritersAreCounted DEF Setup, SetupFails, VuIds, kSubset, load
  <2>5. Senders'
    BY <2>1, <2>2, <2>4 DEF EvidenceInv, Senders
  <2>6. step' \in {"burst", "drainAfter", "poll"}
    BY <1>4 DEF Setup, SetupFails, GoFrom, AfterLoad
  <2> QED BY <1>1, <2>1, <2>2, <2>3, <2>5, <2>6 DEF EvidenceInv, Replaying, Proven
<1>5. CASE LoadEnds \/ LoadCutOff
  <2>1. /\ UNCHANGED <<job, result, passed, vus, replay, evidence>>
        /\ late' \subseteq late \cup UNION {Left(c) : c \in Writing}
    BY <1>5 DEF LoadEnds, LoadCutOff, target, orders, progress, load
  <2>2. \A c \in Writing : Left(c) \subseteq vus \X {"claim", "add"}
    BY DEF Writing, Left, UserOf
  <2>3. Confined'
    BY <2>1, <2>2 DEF EvidenceInv, Confined, Touched
  <2>4. \A c \in Calls : call'[c] # "unsent" => call[c] # "unsent"
    BY <1>5 DEF LoadEnds, LoadCutOff, load, Handling
  <2>5. Senders'
    BY <2>1, <2>4 DEF EvidenceInv, Senders
  <2>6. step' \in {"drainAfter", "poll"} /\ evidence # "VALID"
    BY <1>5 DEF LoadEnds, LoadCutOff, GoFrom, AfterLoad, EvidenceInv, Proven
  <2> QED BY <1>1, <2>1, <2>3, <2>5, <2>6 DEF EvidenceInv, Replaying, Proven
<1> QED BY <1>2, <1>3, <1>4, <1>5 DEF LoadStep, CallStep

\* The integrity check counts as many decided users as there are writers, so they are
\* the writers.
LEMMA CheckedFactsAreTrue ==
  ASSUME TypeOK, Confined, Senders, passed, FactsHold(WriteVus)
  PROVE  FactsAreTrue
<1>1. Decided \subseteq vus
  BY DEF Confined, Decided, Touched
<1>2. vus \in SUBSET Users
  BY DEF TypeOK
<1>3. vus # {} /\ IsFiniteSet(vus)
  <2>1. Decided # {}
    BY FS_EmptySet DEF FactsHold
  <2> QED BY <1>1, <1>2, <2>1, FS_Subset
<1>4. Decided = vus
  BY <1>1, <1>2, <1>3, FS_Subset DEF Senders, FactsHold
<1> QED BY <1>4 DEF FactsAreTrue, FactsHold

LEMMA EvidenceKeepsEvidence ==
  ASSUME TypeOK, Unsent, EvidenceInv, EvidenceStep
  PROVE  EvidenceInv'
<1>0. step \notin InReset /\ step' \notin InReset \cup {"resetEnded"}
  BY LoadStartsAfterReset
<1>1. Emptying'
  BY <1>0 DEF Emptying, InReset, ResetSteps
<1>2. UNCHANGED <<result, late, passed, vus, call>>
  BY DEF EvidenceStep, DrainAfter, PollMetrics, Integrity, SelectReplay, Replay, AwaitReplay, OtherGateFails,
     Judge, FinishExternal, target, orders, progress, load
<1>3. Senders'
  BY <1>2 DEF EvidenceInv, Senders
<1>4. FactsAreTrue => FactsAreTrue'
  BY <1>2 DEF FactsAreTrue, Decided, Sold
<1>5. \A u \in Users : job'[u] # "absent" => job[u] # "absent" \/ result[u] # "none"
  BY DEF EvidenceStep, DrainAfter, PollMetrics, Integrity, SelectReplay, Replay, AwaitReplay, OtherGateFails,
     Judge, FinishExternal, Move, AddJob, GoFrom, EvidenceInv, Replaying, TypeOK, TargetTypeOK, target, orders
<1>6. Confined'
  BY <1>2, <1>5 DEF EvidenceInv, Confined, Touched
<1>7. CASE DrainAfter \/ PollMetrics \/ Integrity
  <2>1. evidence' # "VALID" /\ step' \in {"integrity", "finish", "selectReplay", "judge"}
    BY <1>7 DEF DrainAfter, PollMetrics, Integrity, GoFrom, EvidenceInv, Proven
  <2>2. passed /\ (step' = "selectReplay" \/ (step' = "judge" /\ exits' = {})) => FactsAreTrue
    BY <1>7, CheckedFactsAreTrue DEF DrainAfter, PollMetrics, Integrity, IntegrityPasses, FailGate, GoFrom,
       EvidenceInv
  <2> QED BY <1>1, <1>2, <1>3, <1>4, <1>6, <2>1, <2>2 DEF EvidenceInv, Replaying, Proven
<1>8. CASE (\E u \in Users : SelectReplay(u)) \/ Replay
  <2>1. evidence' # "VALID" /\ step' \in {"replay", "awaitReplay"} /\ (passed => FactsAreTrue)
    BY <1>8 DEF SelectReplay, Replay, GoFrom, EvidenceInv, Proven, verdict
  <2>2. replay'.user \in Users /\ result'[replay'.user] # "none"
    BY <1>2, <1>8 DEF SelectReplay, Replay, GoFrom, EvidenceInv, Replaying, Sold, verdict
  <2> QED BY <1>1, <1>2, <1>3, <1>4, <1>6, <2>1, <2>2 DEF EvidenceInv, Replaying, Proven
<1>9. CASE AwaitReplay \/ OtherGateFails
  <2>1. evidence' # "VALID" /\ step' = "judge" /\ (passed /\ exits' = {} => FactsAreTrue)
    BY <1>9 DEF AwaitReplay, OtherGateFails, FailGate, GoFrom, EvidenceInv, Proven
  <2> QED BY <1>1, <1>2, <1>3, <1>4, <1>6, <2>1 DEF EvidenceInv, Replaying, Proven
<1>10. CASE Judge \/ FinishExternal
  <2>1. step' \in {"exited", "integrity"} /\ (passed /\ evidence' = "VALID" => FactsAreTrue)
        /\ (evidence' = "VALID" => step' = "exited")
    BY <1>10 DEF Judge, Judgement, FinishExternal, GoFrom, EvidenceInv, Proven
  <2> QED BY <1>1, <1>2, <1>3, <1>4, <1>6, <2>1 DEF EvidenceInv, Replaying, Proven
<1> QED BY <1>7, <1>8, <1>9, <1>10 DEF EvidenceStep

LEMMA StepKeepsEvidence ==
  TypeOK /\ Unsent /\ Resumable /\ EvidenceInv /\ [Next]_vars => EvidenceInv'
<1> SUFFICES ASSUME TypeOK, Unsent, Resumable, EvidenceInv, [Next]_vars PROVE EvidenceInv'
  OBVIOUS
<1>1. CASE UNCHANGED vars
  BY <1>1 DEF vars, target, services, orders, progress, load, verdict, EvidenceInv, Confined, Touched,
     Senders, Emptying, Replaying, Proven, FactsAreTrue, Decided, Sold
<1> QED BY <1>1, TargetKeepsEvidence, ResetKeepsEvidence, LoadKeepsEvidence, EvidenceKeepsEvidence DEF Next

LEMMA InitHasEvidence == Init => EvidenceInv
BY DEF Init, EvidenceInv, Confined, Senders, Emptying, Replaying, Proven, ResetSteps

LEMMA EvidenceInvHolds == Spec => []EvidenceInv
<1>1. ResetInv => Resumable
  BY DEF ResetInv
<1> QED BY <1>1, InitHasEvidence, StepKeepsEvidence, InitHasReset, StepKeepsReset, BenchmarkIsTyped, PTL DEF
   Spec

\* Evidence marked VALID after a reset that passed tells the truth about the orders,
\* for any number of users, requests and units and any number of failures.
THEOREM EvidenceIsAlwaysSound == Spec => []EvidenceIsSound
<1>1. TypeOK /\ EvidenceInv => EvidenceIsSound
  BY DEF EvidenceInv, Proven, FactsAreTrue, EvidenceIsSound, Decided, Writing, UserOf, TypeOK
<1> QED BY <1>1, EvidenceInvHolds, BenchmarkIsTyped, PTL

-----------------------------------------------------------------------------
(***************************************************************************)
(* The healthy run: without a fault every command does what it is for, so  *)
(* every gate is passed.                                                   *)
(***************************************************************************)
\* The commands before the queue is emptied: what was left behind is still there.
Leftovers == {"stopEdge", "pause", "drainActive", "stopWorker", "obliterate"}

\* Each command of a reset that works leaves its part of the state empty for good.
Fresh ==
  /\ step \in PreLoad \ Leftovers => \A u \in Users : job[u] = "absent"
  /\ step \in PreLoad \ (Leftovers \cup {"resume", "checkEmpty", "clearClaims"}) => claims = {}
  /\ step \in PreLoad \ (Leftovers \cup {"resume", "checkEmpty", "clearClaims", "resetRows"}) =>
       \A u \in Users : result[u] = "none"

\* Nothing has failed: no job did, no handler is left alone, and the system is up again.
Quiet ==
  /\ script \in Scripts
  /\ \A u \in Users : job[u] # "failed"
  /\ step # "stopEdge" => late = {}
  /\ step \notin ResetSteps => passed
  /\ step \notin InReset => worker /\ ~paused

\* A user with a job, or with a request that has the claim and is about to add one.
Reached(v) == job[v] # "absent" \/ \E k \in Slots : call[<<v, k>>] = "adding"

\* Every request past its claim has a user that is reached, and every job a 202.
Loading ==
  /\ \A c \in Calls : call[c] \notin {"503", "504"}
  /\ \A c \in Calls : call[c] # "unsent" => c \in Writing
  /\ script = "write" => \A c \in Calls : call[c] \notin {"checking", "409"}
  /\ step \notin PreLoad => Cardinality(vus) = WriteVus
  /\ step = "burst" =>
       /\ \A v \in claims : Reached(v)
       /\ \A c \in Calls : call[c] \notin {"unsent", "claiming"} => Reached(c[1])
       /\ \A v \in Users : job[v] # "absent" => \E k \in Slots : call[<<v, k>>] = "202"

\* After the load no request is on its way, and every writer has its job.
Loaded ==
  /\ step \notin PreLoad \cup {"burst"} => exits = {} /\ \A c \in Calls : call[c] \notin Handling
  /\ step \in {"drainAfter", "poll", "finish", "integrity"} => \A v \in vus : job[v] # "absent"

\* As many units are sold as there are users decided, or all of them.
StockSold == Cardinality(Sold) = Min({Cardinality(Decided), Stock})

Sales ==
  step \notin PreLoad =>
    /\ \A u \in Users : job[u] = "completed" => result[u] # "none"
    /\ StockSold

\* The retry proof compares with the state it found, and nothing fails a gate.
Judging ==
  /\ step \in {"replay", "awaitReplay"} => replay.before = Snapshot
  /\ step = "exited" => evidence = "VALID"

Healthy == Fresh /\ Quiet /\ Loading /\ Loaded /\ Sales /\ Judging

\* What the invariants above establish.
Proved == TypeOK /\ Unsent /\ ResetInv /\ EvidenceInv

LEMMA MinOfTwo ==
  ASSUME NEW a \in Nat, NEW b \in Nat
  PROVE  Min({a, b}) = IF a <= b THEN a ELSE b
<1>1. \E x \in {a, b} : \A y \in {a, b} : x =< y
  OBVIOUS
<1>2. Min({a, b}) \in {a, b} /\ \A y \in {a, b} : Min({a, b}) =< y
  BY <1>1 DEF Min
<1> QED BY <1>2

LEMMA UserSetsAreCounted ==
  ASSUME NEW S \in SUBSET Users
  PROVE  IsFiniteSet(S) /\ Cardinality(S) \in Nat
BY FS_Subset, FS_CardinalityType

LEMMA NothingSold ==
  ASSUME TypeOK, \A u \in Users : result[u] = "none"
  PROVE  Decided = {} /\ Sold = {} /\ Cardinality(Decided) = 0 /\ Cardinality(Sold) = 0 /\ StockSold
<1>1. Decided = {} /\ Sold = {}
  BY DEF Decided, Sold
<1>2. Cardinality({}) = 0 /\ Min({0, Stock}) = 0
  BY FS_EmptySet, MinOfTwo
<1> QED BY <1>1, <1>2 DEF StockSold

\* A first decision sells a unit exactly when one remains.
LEMMA DecidingKeepsStockSold ==
  ASSUME TypeOK, StockSold, NEW u \in Users, Decide(u)
  PROVE  StockSold'
<1>1. CASE result[u] # "none"
  <2>1. result' = result
    BY <1>1 DEF Decide, TypeOK, TargetTypeOK
  <2> QED BY <2>1 DEF StockSold, Sold, Decided
<1>2. CASE result[u] = "none"
  <2>1. /\ IsFiniteSet(Decided) /\ IsFiniteSet(Sold)
        /\ Cardinality(Decided) \in Nat /\ Cardinality(Sold) \in Nat
    BY UserSetsAreCounted DEF Decided, Sold
  <2>2. PICK d \in Nat, s \in Nat : d = Cardinality(Decided) /\ s = Cardinality(Sold)
    BY <2>1
  <2>3. s = IF d <= Stock THEN d ELSE Stock
    BY <2>2, MinOfTwo DEF StockSold
  <2>4. Decided' = Decided \cup {u} /\ u \notin Decided /\ u \notin Sold
    BY <1>2 DEF Decide, Decided, Sold, TypeOK, TargetTypeOK
  <2>5. Cardinality(Decided') = d + 1
    BY <2>1, <2>2, <2>4, FS_AddElement
  <2>6. Min({d + 1, Stock}) = IF d + 1 <= Stock THEN d + 1 ELSE Stock
    BY MinOfTwo
  <2>7. CASE s < Stock
    <3>1. Remaining > 0
      BY <2>2, <2>7 DEF Remaining
    <3>2. Sold' = Sold \cup {u}
      BY <1>2, <3>1 DEF Decide, Sold, TypeOK, TargetTypeOK
    <3>3. Cardinality(Sold') = s + 1
      BY <2>1, <2>2, <2>4, <3>2, FS_AddElement
    <3> QED BY <2>3, <2>5, <2>6, <2>7, <3>3 DEF StockSold
  <2>8. CASE s >= Stock
    <3>1. ~(Remaining > 0)
      BY <2>2, <2>8 DEF Remaining
    <3>2. Sold' = Sold
      BY <1>2, <3>1 DEF Decide, Sold, TypeOK, TargetTypeOK
    <3> QED BY <2>2, <2>3, <2>5, <2>6, <2>8, <3>2 DEF StockSold
  <2> QED BY <2>7, <2>8
<1> QED BY <1>1, <1>2

\* With the worker up, the queue running and no job failed, only a fault keeps the queue
\* from draining.
LEMMA HealthyDrainPasses ==
  ASSUME Quiet, step \notin InReset, ~Fault
  PROVE  ~DrainFails
BY DEF Quiet, DrainFails, In

LEMMA DrainedIsCompleted ==
  ASSUME TypeOK, Quiet, step \notin InReset, DrainPasses, NEW u \in Users, job[u] # "absent"
  PROVE  job[u] = "completed"
BY DEF Quiet, DrainPasses, Drained, Waiting, In, TypeOK, TargetTypeOK, JobStates

\* Without a fault no job fails and none is lost.
LEMMA HealthyTargetMoves ==
  ASSUME TypeOK, TargetNext, ~Fault, Quiet
  PROVE  /\ \A u \in Users : job'[u] # "failed"
         /\ \A u \in Users : job[u] # "absent" => job'[u] # "absent"
         /\ late = {} => /\ late' = {} /\ claims' \subseteq claims
                         /\ \A u \in Users : job[u] = "absent" => job'[u] = "absent"
         /\ (\A u \in Users : job[u] = "completed" => result[u] # "none") =>
              \A u \in Users : job'[u] = "completed" => result'[u] # "none"
         /\ StockSold => StockSold'
<1>1. PICK u \in Users : \/ Take(u) \/ Complete(u) \/ Promote(u) \/ ClaimExpires(u)
                         \/ LateClaim(u) \/ LateAdd(u)
  BY DEF TargetNext, AttemptFails, JobLost
<1>2. StockSold => StockSold'
  <2>1. CASE Complete(u)
    BY <2>1, DecidingKeepsStockSold DEF Complete
  <2>2. CASE ~Complete(u)
    BY <1>1, <2>2 DEF Take, Promote, ClaimExpires, LateClaim, LateAdd, StockSold, Sold, Decided
  <2> QED BY <2>1, <2>2
<1>3. \A v \in Users : /\ job'[v] # "failed"
                       /\ job[v] # "absent" => job'[v] # "absent"
  BY <1>1 DEF Take, Complete, Promote, ClaimExpires, LateClaim, LateAdd, Move, AddJob, Quiet, TypeOK,
     TargetTypeOK
<1>4. late = {} => late' = {} /\ claims' \subseteq claims /\ \A v \in Users : job[v] = "absent" => job'[v] = "absent"
  BY <1>1 DEF Take, Complete, Promote, ClaimExpires, LateClaim, LateAdd, Move, TypeOK, TargetTypeOK
<1>5. (\A v \in Users : job[v] = "completed" => result[v] # "none") =>
        \A v \in Users : job'[v] = "completed" => result'[v] # "none"
  BY <1>1 DEF Take, Complete, Promote, ClaimExpires, LateClaim, LateAdd, Move, AddJob, Decide, TypeOK,
     TargetTypeOK
<1> QED BY <1>2, <1>3, <1>4, <1>5

LEMMA TargetKeepsHealthy ==
  ASSUME Proved, Healthy, TargetNext, UNCHANGED <<step, progress, load, verdict>>, ~Fault
  PROVE  Healthy'
<1>0. UNCHANGED <<script, step, passed, vus, call, exits, replay, evidence, worker, paused>>
  BY TargetAddsOnlyLate DEF progress, load, verdict, services, Proved
<1>1. /\ \A u \in Users : job'[u] # "failed"
      /\ \A u \in Users : job[u] # "absent" => job'[u] # "absent"
      /\ late = {} => late' = {} /\ claims' \subseteq claims /\ \A u \in Users : job[u] = "absent" => job'[u] = "absent"
      /\ (\A u \in Users : job[u] = "completed" => result[u] # "none") =>
           \A u \in Users : job'[u] = "completed" => result'[u] # "none"
      /\ StockSold => StockSold'
  BY HealthyTargetMoves DEF Healthy, Proved
<1>2. (\A u \in Users : job[u] = "absent") => result' = result
  BY TargetKeepsDecided DEF Proved
<1>3. Fresh'
  BY <1>0, <1>1, <1>2 DEF Healthy, Fresh, Quiet, Leftovers
<1>4. Quiet'
  BY <1>0, <1>1 DEF Healthy, Quiet
<1>5. Loading'
  <2>1. Writing' = Writing
    BY <1>0 DEF Writing
  <2>2. step = "burst" => \A v \in Users : Reached(v) => Reached(v)'
    BY <1>0, <1>1 DEF Reached
  <2>3. step = "burst" => claims' \subseteq claims /\ \A u \in Users : job'[u] # "absent" => job[u] # "absent"
    BY <1>1 DEF Healthy, Quiet
  <2>4. claims \subseteq Users /\ \A c \in Calls : c[1] \in Users
    BY DEF Proved, TypeOK, TargetTypeOK, Calls
  <2> QED BY <1>0, <2>1, <2>2, <2>3, <2>4 DEF Healthy, Loading
<1>6. Loaded'
  BY <1>0, <1>1 DEF Healthy, Loaded, Proved, TypeOK
<1>7. Sales'
  BY <1>0, <1>1 DEF Healthy, Sales
<1>8. Judging'
  <2>1. step \in {"replay", "awaitReplay"} => result' = result
    BY TargetKeepsDecided DEF Proved, EvidenceInv, Proven, FactsAreTrue, Decided, Confined, Touched,
       Healthy, Quiet, ResetSteps
  <2>2. In("failed") = {} /\ In("failed")' = {}
    BY <1>1 DEF In, Healthy, Quiet
  <2> QED BY <1>0, <2>1, <2>2 DEF Healthy, Judging, Snapshot
<1> QED BY <1>3, <1>4, <1>5, <1>6, <1>7, <1>8 DEF Healthy

\* A reset without a fault finds what it looks for.
LEMMA HealthyResetNeverFails ==
  ASSUME Proved, Healthy, ResetStep, ~Fault
  PROVE  ~CommandFails /\ ~CheckRefuses /\ ~CleanupFails
<1>1. ~CommandFails /\ ~CleanupFails
  BY DEF CommandFails, CleanupFails
<1>2. ASSUME CheckRefuses PROVE FALSE
  <2>1. step # "checkEmpty"
    BY <1>2 DEF CheckRefuses, Healthy, Fresh, PreLoad, InReset, ResetSteps, Leftovers, In
  <2>2. step # "verifyReset"
    BY <1>2 DEF CheckRefuses, Healthy, Fresh, PreLoad, InReset, ResetSteps, Leftovers, Decided
  <2>3. step = "waitDrain" => ~DrainFails
    BY DEF DrainFails, Drained, Waiting, In, Healthy, Fresh, PreLoad, InReset, ResetSteps, Leftovers
  <2> QED BY <1>2, <2>1, <2>2, <2>3 DEF CheckRefuses
<1> QED BY <1>1, <1>2

LEMMA ResetKeepsHealthy ==
  ASSUME Proved, Healthy, ResetStep, ~Fault, faults' = 0, ResetInv'
  PROVE  Healthy'
<1>0. /\ step \in InReset /\ step' \in InReset \cup {"resetEnded"}
      /\ UNCHANGED <<script, vus, call, exits, replay, evidence>>
  BY ResetStaysInReset DEF load
<1>1. Loading' /\ Loaded' /\ Sales' /\ Judging'
  <2>1. Writing' = Writing
    BY <1>0 DEF Writing
  <2> QED BY <1>0, <2>1 DEF Healthy, Loading, Loaded, Sales, Judging, PreLoad, InReset, Cleaning, ResetSteps
<1>2. Quiet'
  <2>1. \A u \in Users : job'[u] # "failed"
    BY HealthyResetNeverFails DEF ResetStep, StopEdge, Pause, ActiveDrained, StopWorker, Obliterate, Resume,
       QueueIsEmpty, ClearClaims, ResetRows, RestartApis, StartWorker, StartEdge, ResetDrained,
       ResetVerified, CleanWorker, CleanQueue, CleanEdge, Healthy, Quiet, target, orders
  <2>2. step' # "stopEdge" => late' = {}
    BY HealthyResetNeverFails DEF ResetStep, StopEdge, Pause, ActiveDrained, StopWorker, Obliterate, Resume,
       QueueIsEmpty, ClearClaims, ResetRows, RestartApis, StartWorker, StartEdge, ResetDrained,
       ResetVerified, CleanWorker, CleanQueue, CleanEdge, GoFrom, Healthy, Quiet, target, orders
  <2>3. step' \notin ResetSteps => passed'
    BY HealthyResetNeverFails DEF ResetStep, StopEdge, Pause, ActiveDrained, StopWorker, Obliterate, Resume,
       QueueIsEmpty, ClearClaims, ResetRows, RestartApis, StartWorker, StartEdge, ResetDrained,
       ResetVerified, CleanWorker, CleanQueue, CleanEdge, GoFrom, Healthy, Quiet, ResetSteps, progress
  <2>4. step' \notin InReset => worker' /\ ~paused'
    BY <1>0, <2>3 DEF ResetInv, ResetLeavesServiceRunning, InReset
  <2> QED BY <1>0, <2>1, <2>2, <2>3, <2>4 DEF Healthy, Quiet
<1>3. Fresh'
  <2>1. CASE StopEdge \/ Pause \/ ActiveDrained \/ StopWorker
    BY <2>1 DEF StopEdge, Pause, ActiveDrained, StopWorker, GoFrom, Fresh, Leftovers
  <2>2. CASE Obliterate
    BY <2>2 DEF Obliterate, GoFrom, Fresh, Leftovers
  <2>3. CASE Resume \/ QueueIsEmpty \/ ClearClaims
    BY <2>3 DEF Resume, QueueIsEmpty, ClearClaims, GoFrom, Healthy, Fresh, PreLoad, InReset,
       ResetSteps, Leftovers, target, orders
  <2>4. CASE ResetRows
    BY <2>4 DEF ResetRows, GoFrom, Healthy, Fresh, PreLoad, InReset, ResetSteps, Leftovers
  <2>5. CASE ~(StopEdge \/ Pause \/ ActiveDrained \/ StopWorker \/ Obliterate \/ Resume \/ QueueIsEmpty
               \/ ClearClaims \/ ResetRows)
    <3>1. /\ step \in PreLoad \ (Leftovers \cup {"resume", "checkEmpty", "clearClaims", "resetRows"})
          /\ UNCHANGED <<job, claims, result>>
      BY <2>5, HealthyResetNeverFails DEF ResetStep, RestartApis, StartWorker, StartEdge, ResetDrained,
         ResetVerified, CleanWorker, CleanQueue, CleanEdge, GoFrom, PreLoad, InReset, Cleaning, ResetSteps,
         Leftovers, target, orders
    <3> QED BY <3>1 DEF Healthy, Fresh
  <2> QED BY <2>1, <2>2, <2>3, <2>4, <2>5
<1> QED BY <1>1, <1>2, <1>3 DEF Healthy

LEMMA CallsAreInBurst ==
  ASSUME Proved, Healthy, CallStep
  PROVE  step = "burst"
BY DEF CallStep, Send, Claim, Add, Check, Unavailable, TimesOut, Proved, Unsent, Healthy, Loaded, Handling

\* A request either takes the claim and adds the job, or finds a claim whose owner is
\* about to add it or has: the user stays reached.
LEMMA CallKeepsHealthy ==
  ASSUME Proved, Healthy, CallStep, ~Fault
  PROVE  Healthy'
<1>1. PICK c \in Calls : Send(c) \/ Claim(c) \/ Add(c) \/ Check(c)
  BY DEF CallStep, Unavailable, TimesOut
<1>2. step = "burst" /\ UNCHANGED <<worker, paused, step, script, passed, vus, exits, replay, evidence, result>>
  BY CallsAreInBurst, CallsTouchOnlyTheirUser DEF Proved, EvidenceInv, services, progress, verdict
<1>3. PICK v \in Users, n \in Slots : c = <<v, n>> /\ c[1] = v /\ c[2] = n
  BY DEF Calls
<1>4. Writing' = Writing
  BY <1>2 DEF Writing
<1>5. UserOf(c[1]) = v
  BY <1>3 DEF UserOf
<1>6. call \in [Calls -> {"unsent"} \cup Handling \cup Answers] /\ job \in [Users -> JobStates]
  BY DEF Proved, TypeOK, TargetTypeOK
<1>7. /\ \A u \in Users : job[u] # "absent" => job'[u] = job[u]
      /\ \A u \in Users : job'[u] \in {job[u], "waiting"}
      /\ late' = late
  BY <1>1, <1>5, <1>6 DEF Send, Claim, Add, Check, AddJob, target, orders
<1>8. Fresh'
  BY <1>2 DEF Fresh, PreLoad, InReset, Cleaning, ResetSteps
<1>9. Quiet'
  BY <1>2, <1>7 DEF Healthy, Quiet
<1>10. Loaded'
  BY <1>2 DEF Loaded
<1>11. Sales'
  BY <1>2, <1>7 DEF Healthy, Sales, StockSold, Sold, Decided
<1>12. Judging'
  BY <1>2 DEF Judging
<1>13. \A d \in Calls : d # c => call'[d] = call[d]
  BY <1>1, <1>6 DEF Send, Claim, Add, Check, Put
<1>14. c \in Writing
  BY <1>1 DEF Send, Claim, Add, Check, Healthy, Loading
<1>15. \A u \in Users : Reached(u) => Reached(u)'
  <2> SUFFICES ASSUME NEW u \in Users, Reached(u) PROVE Reached(u)'
    OBVIOUS
  <2>1. CASE job[u] # "absent"
    BY <1>7, <2>1 DEF Reached
  <2>2. CASE \E k \in Slots : call[<<u, k>>] = "adding"
    <3>1. PICK k \in Slots : call[<<u, k>>] = "adding"
      BY <2>2
    <3>2. <<u, k>> \in Calls
      BY DEF Calls
    <3>3. CASE <<u, k>> = c
      <4>1. Add(c) /\ u = v
        BY <1>1, <1>3, <3>1, <3>3 DEF Send, Claim, Check
      <4>2. job'[u] # "absent"
        BY <1>5, <1>6, <4>1 DEF Add, AddJob
      <4> QED BY <4>2 DEF Reached
    <3>4. CASE <<u, k>> # c
      BY <1>13, <3>1, <3>2, <3>4 DEF Reached
    <3> QED BY <3>3, <3>4
  <2> QED BY <2>1, <2>2 DEF Reached
<1>16. \A u \in claims' : Reached(u)'
  <2>1. \A u \in claims : u \in Users /\ Reached(u)'
    BY <1>2, <1>15 DEF Healthy, Loading, Proved, TypeOK, TargetTypeOK
  <2>2. CASE claims' = claims
    BY <2>1, <2>2
  <2>3. CASE Claim(c) /\ v \notin claims
    <3>1. call'[c] = "adding"
      BY <1>5, <1>6, <2>3 DEF Claim, Put
    <3>2. Reached(v)'
      BY <1>3, <3>1 DEF Reached
    <3> QED BY <1>5, <2>1, <2>3, <3>2 DEF Claim
  <2> QED BY <1>1, <1>5, <2>2, <2>3 DEF Send, Claim, Add, Check, target, orders
<1>17. call'[c] \notin {"unsent", "claiming"} => Reached(v)'
  <2>1. CASE Send(c)
    BY <1>6, <2>1 DEF Send, Put
  <2>2. CASE Claim(c)
    BY <1>5, <1>16, <2>2 DEF Claim
  <2>3. CASE Add(c) \/ Check(c)
    BY <1>2, <1>3, <1>15, <2>3 DEF Add, Check, Healthy, Loading
  <2> QED BY <1>1, <2>1, <2>2, <2>3
<1>18. \A d \in Calls : call'[d] \notin {"unsent", "claiming"} => Reached(d[1])'
  <2> SUFFICES ASSUME NEW d \in Calls, d # c, call'[d] \notin {"unsent", "claiming"} PROVE Reached(d[1])'
    BY <1>3, <1>17
  <2>1. d[1] \in Users
    BY DEF Calls
  <2> QED BY <1>2, <1>13, <1>15, <2>1 DEF Healthy, Loading
<1>19. \A u \in Users : job'[u] # "absent" => \E k \in Slots : call'[<<u, k>>] = "202"
  <2> SUFFICES ASSUME NEW u \in Users, job'[u] # "absent" PROVE \E k \in Slots : call'[<<u, k>>] = "202"
    OBVIOUS
  <2>1. CASE job[u] # "absent"
    <3>1. PICK k \in Slots : call[<<u, k>>] = "202"
      BY <1>2, <2>1 DEF Healthy, Loading
    <3>2. <<u, k>> \in Calls /\ <<u, k>> # c
      BY <1>1, <3>1 DEF Calls, Send, Claim, Add, Check
    <3> QED BY <1>13, <3>1, <3>2
  <2>2. CASE job[u] = "absent"
    <3>1. Add(c) /\ u = v
      BY <1>1, <1>5, <1>6, <2>2 DEF Send, Claim, Add, Check, AddJob, target, orders
    <3>2. call'[c] = "202"
      BY <1>6, <3>1 DEF Add, Put
    <3> QED BY <1>3, <3>1, <3>2
  <2> QED BY <2>1, <2>2
<1>20. call'[c] \notin {"unsent", "503", "504"}
  BY <1>1, <1>6 DEF Send, Claim, Add, Check, Put
<1>21. script = "write" => call'[c] \notin {"checking", "409"}
  <2> SUFFICES ASSUME script = "write" PROVE call'[c] \notin {"checking", "409"}
    OBVIOUS
  <2>1. ~Check(c)
    BY DEF Check, Healthy, Loading
  <2>2. CASE Send(c) \/ Add(c)
    BY <1>6, <2>2 DEF Send, Add, Put
  <2>3. CASE Claim(c)
    <3>1. SUFFICES ASSUME v \in claims PROVE FALSE
      BY <1>5, <1>6, <2>3 DEF Claim, Put
    <3>2. \A k \in Slots : call[<<v, k>>] # "unsent" => k = n
      <4>1. \A k \in Slots : <<v, k>> \in Calls /\ <<v, k>>[2] = k
        BY DEF Calls
      <4> QED BY <1>3, <1>14, <4>1 DEF Healthy, Loading, Writing
    <3>3. call[<<v, n>>] = "claiming"
      BY <1>3, <2>3 DEF Claim
    <3>4. Reached(v) /\ (job[v] # "absent" => \E k \in Slots : call[<<v, k>>] = "202")
      BY <1>2, <3>1 DEF Healthy, Loading
    <3> QED BY <3>2, <3>3, <3>4 DEF Reached
  <2> QED BY <1>1, <2>1, <2>2, <2>3
<1>22. Loading'
  BY <1>2, <1>4, <1>13, <1>14, <1>16, <1>18, <1>19, <1>20, <1>21 DEF Healthy, Loading
<1> QED BY <1>8, <1>9, <1>10, <1>11, <1>12, <1>22 DEF Healthy

\* A healthy load ends with an answer to every writer and a job of each.
LEMMA AnsweredLoad ==
  ASSUME Proved, Healthy, step = "burst", \A c \in Writing : call[c] \in Answers
  PROVE  /\ \A v \in vus : job[v] # "absent"
         /\ \A c \in Calls : call[c] \notin Handling
         /\ ChecksPass
<1>1. \A c \in Calls : call[c] \notin Handling
  BY DEF Handling, Answers, Healthy, Loading
<1>2. \A v \in vus : v \in Users /\ <<v, 1>> \in Writing /\ <<v, 1>> \in Calls /\ 1 \in Slots
  BY DEF Writing, Calls, Slots, Proved, TypeOK
<1>3. \A v \in vus : job[v] # "absent"
  <2> SUFFICES ASSUME NEW v \in vus PROVE job[v] # "absent"
    OBVIOUS
  <2>1. Reached(v)
    BY <1>2 DEF Healthy, Loading, Answers
  <2>2. \A k \in Slots : <<v, k>> \in Calls
    BY <1>2 DEF Calls
  <2> QED BY <1>1, <2>1, <2>2 DEF Reached, Handling
<1>4. \A v \in Ended : v \in vus /\ v \in Users
  BY <1>2 DEF Ended
<1>5. script = "write" => \A v \in Ended : call[<<v, 1>>] = "202"
  BY <1>2, <1>4 DEF Healthy, Loading, Answers
<1>6. script = "duplicate" =>
        \A v \in Ended : /\ \A k \in Slots : call[<<v, k>>] \in {"202", "409"}
                         /\ \E k \in Slots : call[<<v, k>>] = "202"
  <2> SUFFICES ASSUME script = "duplicate", NEW v \in Ended
               PROVE  /\ \A k \in Slots : call[<<v, k>>] \in {"202", "409"}
                      /\ \E k \in Slots : call[<<v, k>>] = "202"
    OBVIOUS
  <2>1. \A k \in Slots : <<v, k>> \in Writing /\ <<v, k>> \in Calls
    BY <1>4 DEF Writing, Calls
  <2>2. \A k \in Slots : call[<<v, k>>] \in {"202", "409"}
    BY <2>1 DEF Healthy, Loading, Answers
  <2>3. \E k \in Slots : call[<<v, k>>] = "202"
    BY <1>3, <1>4 DEF Healthy, Loading
  <2> QED BY <2>2, <2>3
<1> QED BY <1>1, <1>3, <1>5, <1>6 DEF ChecksPass

LEMMA LoadKeepsHealthy ==
  ASSUME Proved, Healthy, LoadStep, ~Fault
  PROVE  Healthy'
<1>0. step \notin InReset /\ step' \notin InReset \cup {"resetEnded"}
  BY LoadStartsAfterReset DEF Proved
<1>1. CASE StartRun
  <2>1. /\ step = "resetEnded" /\ step' \in {"drainBefore", "setup"}
        /\ UNCHANGED <<worker, paused, job, claims, result, late, script, passed, vus, call, exits, replay>>
    BY <1>1 DEF StartRun, target, services, orders, progress, load
  <2>2. Fresh' /\ Quiet'
    BY <2>1 DEF Healthy, Fresh, Quiet, PreLoad, InReset, Cleaning, ResetSteps, Leftovers
  <2>3. Writing' = Writing
    BY <2>1 DEF Writing
  <2>4. Loading' /\ Loaded' /\ Sales' /\ Judging'
    BY <2>1, <2>3 DEF Healthy, Loading, Loaded, Sales, Judging, PreLoad
  <2> QED BY <2>2, <2>4 DEF Healthy
<1>2. CASE DrainBefore \/ Precondition
  <2>1. step \in {"drainBefore", "precondition"}
    BY <1>2 DEF DrainBefore, Precondition
  <2>2. /\ \A u \in Users : job[u] = "absent" /\ result[u] = "none"
        /\ step \in PreLoad
    BY <2>1 DEF Healthy, Fresh, PreLoad, InReset, Cleaning, ResetSteps, Leftovers
  <2>3. ~DrainFails
    BY <1>0, HealthyDrainPasses DEF Healthy
  <2>4. FactsHold(0)
    <3>1. In("completed") = {}
      BY <2>2 DEF In
    <3>2. Cardinality({}) = 0 /\ Min({0, Stock}) = 0
      BY FS_EmptySet, MinOfTwo
    <3>3. Decided = {} /\ Sold = {}
      BY <2>2 DEF Decided, Sold
    <3> QED BY <3>1, <3>2, <3>3 DEF FactsHold
  <2>5. /\ step' \in {"precondition", "setup"}
        /\ UNCHANGED <<worker, paused, job, claims, result, late, script, passed, vus, call, exits, replay, evidence>>
    BY <1>2, <2>3, <2>4 DEF DrainBefore, Precondition, IntegrityPasses, IntegrityFails, services, orders,
       progress, load, verdict
  <2>6. Fresh' /\ Quiet'
    BY <2>1, <2>5 DEF Healthy, Fresh, Quiet, PreLoad, InReset, Cleaning, ResetSteps, Leftovers
  <2>7. Writing' = Writing
    BY <2>5 DEF Writing
  <2>8. Loading' /\ Loaded' /\ Sales' /\ Judging'
    BY <2>1, <2>5, <2>7 DEF Healthy, Loading, Loaded, Sales, Judging, PreLoad
  <2> QED BY <2>6, <2>8 DEF Healthy
<1>3. CASE Setup
  <2>1. /\ step = "setup" /\ step' = "burst" /\ step \in PreLoad
        /\ UNCHANGED <<worker, paused, job, claims, result, late, script, passed, call, exits, replay, evidence>>
    BY <1>3 DEF Setup, GoFrom, target, services, orders, progress, verdict, PreLoad
  <2>2. /\ \A u \in Users : job[u] = "absent" /\ result[u] = "none"
        /\ claims = {}
    BY <2>1 DEF Healthy, Fresh, PreLoad, InReset, Cleaning, ResetSteps, Leftovers
  <2>3. \A c \in Calls : call[c] = "unsent"
    BY <2>1 DEF Proved, Unsent
  <2>4. Cardinality(vus') = WriteVus
    BY <1>3, WritersAreCounted DEF Setup, VuIds, kSubset
  <2>5. step' \notin PreLoad
    BY <2>1 DEF PreLoad, InReset, Cleaning, ResetSteps
  <2>6. Fresh' /\ Quiet'
    BY <2>1, <2>5 DEF Healthy, Fresh, Quiet, InReset, Cleaning, ResetSteps
  <2>7. Loading'
    BY <2>1, <2>2, <2>3, <2>4 DEF Loading
  <2>8. StockSold'
    <3>1. StockSold
      BY <2>2, NothingSold DEF Proved
    <3> QED BY <2>1, <3>1 DEF StockSold, Sold, Decided
  <2>9. Loaded' /\ Sales' /\ Judging'
    BY <2>1, <2>2, <2>8 DEF Loaded, Sales, Judging
  <2> QED BY <2>6, <2>7, <2>9 DEF Healthy
<1>4. CASE LoadEnds
  <2>1. /\ step = "burst" /\ step' \in {"drainAfter", "poll"} /\ exits' = {}
        /\ UNCHANGED <<worker, paused, job, claims, result, late, script, passed, vus, call, replay, evidence>>
    BY <1>4, AnsweredLoad DEF LoadEnds, AfterLoad, GoFrom, target, services, orders, progress, load
  <2>2. (\A v \in vus : job[v] # "absent") /\ \A c \in Calls : call[c] \notin Handling
    BY <1>4, AnsweredLoad DEF LoadEnds, GoFrom
  <2>3. step' \notin PreLoad /\ step \notin PreLoad
    BY <2>1 DEF PreLoad, InReset, Cleaning, ResetSteps
  <2>4. Fresh' /\ Quiet'
    BY <1>0, <2>1, <2>3 DEF Healthy, Fresh, Quiet, InReset, Cleaning, ResetSteps
  <2>5. Writing' = Writing
    BY <2>1 DEF Writing
  <2>6. Loading' /\ Loaded'
    BY <2>1, <2>2, <2>3, <2>5 DEF Healthy, Loading, Loaded
  <2>7. Sales' /\ Judging'
    BY <2>1, <2>3 DEF Healthy, Sales, StockSold, Sold, Decided, Judging
  <2> QED BY <2>4, <2>6, <2>7 DEF Healthy
<1> QED BY <1>1, <1>2, <1>3, <1>4, CallKeepsHealthy DEF LoadStep, CallStep, SetupFails, LoadCutOff

\* The drained queue holds the writers' jobs and no others, all of them decided.
LEMMA HealthyFactsHold ==
  ASSUME Proved, Healthy, step = "integrity", DrainPasses
  PROVE  FactsHold(WriteVus)
<1>1. passed /\ step \notin InReset /\ step \notin PreLoad
  BY DEF Healthy, Quiet, ResetSteps, InReset, Cleaning, PreLoad
<1>2. \A u \in vus : u \in Users /\ job[u] = "completed"
  BY <1>1, DrainedIsCompleted DEF Healthy, Loaded, Proved, TypeOK
<1>3. In("completed") = vus
  BY <1>1, <1>2 DEF In, Proved, EvidenceInv, Confined, Touched
<1>4. Decided = vus
  BY <1>1, <1>2 DEF Decided, Healthy, Sales, Proved, EvidenceInv, Confined, Touched
<1>5. Cardinality(vus) = WriteVus
  BY <1>1 DEF Healthy, Loading
<1>6. Cardinality(Sold) = Min({WriteVus, Stock})
  BY <1>1, <1>4, <1>5 DEF Healthy, Sales, StockSold
<1> QED BY <1>3, <1>4, <1>5, <1>6 DEF FactsHold

LEMMA HealthyReplayPasses ==
  ASSUME Proved, Healthy, AwaitReplay, ~Fault
  PROVE  UNCHANGED exits
BY DEF AwaitReplay, GoFrom, Healthy, Judging, Quiet, Proved, EvidenceInv, Replaying

LEMMA EvidenceKeepsHealthy ==
  ASSUME Proved, Healthy, EvidenceStep, ~Fault
  PROVE  Healthy'
<1>1. step \notin PreLoad \cup {"burst"} /\ step' \notin PreLoad \cup {"burst"} /\ step \notin InReset
  BY DEF EvidenceStep, DrainAfter, PollMetrics, Integrity, SelectReplay, Replay, AwaitReplay, OtherGateFails,
     Judge, FinishExternal, GoFrom, PreLoad, InReset, Cleaning, ResetSteps
<1>2. UNCHANGED <<worker, paused, claims, result, late, script, passed, vus, call>>
  BY DEF EvidenceStep, DrainAfter, PollMetrics, Integrity, SelectReplay, Replay, AwaitReplay, OtherGateFails,
     Judge, FinishExternal, target, services, orders, progress, load
<1>3. \A u \in Users : job'[u] \in {job[u], "absent", "waiting"}
  BY DEF EvidenceStep, DrainAfter, PollMetrics, Integrity, SelectReplay, Replay, AwaitReplay, OtherGateFails,
     Judge, FinishExternal, Move, AddJob, Proved, TypeOK, TargetTypeOK, target, orders
<1>4. Fresh'
  BY <1>1 DEF Fresh
<1>5. Quiet'
  <2>1. step \notin ResetSteps /\ step \notin InReset /\ step # "stopEdge"
    BY <1>1 DEF PreLoad, InReset, ResetSteps
  <2>2. \A u \in Users : job'[u] # "failed"
    BY <1>3 DEF Healthy, Quiet
  <2>3. passed' /\ worker' /\ ~paused' /\ late' = {} /\ script' \in Scripts
    BY <1>2, <2>1 DEF Healthy, Quiet
  <2> QED BY <2>2, <2>3 DEF Quiet
<1>6. Loading'
  <2>1. Writing' = Writing
    BY <1>2 DEF Writing
  <2> QED BY <1>1, <1>2, <2>1 DEF Healthy, Loading
<1>7. Sales'
  BY <1>1, <1>2, <1>3 DEF Healthy, Sales, StockSold, Sold, Decided
<1>8. ~DrainFails
  BY <1>1, HealthyDrainPasses DEF Healthy
<1>9. exits' = {}
  <2>1. CASE DrainAfter \/ PollMetrics
    BY <1>1, <1>8, <2>1 DEF DrainAfter, PollMetrics, Healthy, Loaded
  <2>2. CASE Integrity
    BY <1>1, <1>8, <2>2, HealthyFactsHold DEF Integrity, IntegrityFails, Healthy, Loaded
  <2>3. CASE AwaitReplay
    BY <1>1, <2>3, HealthyReplayPasses DEF Healthy, Loaded
  <2>4. CASE (\E u \in Users : SelectReplay(u)) \/ Replay \/ Judge \/ FinishExternal
    BY <1>1, <2>4 DEF SelectReplay, Replay, Judge, FinishExternal, verdict, Healthy, Loaded
  <2> QED BY <2>1, <2>2, <2>3, <2>4 DEF EvidenceStep, OtherGateFails
<1>10. Loaded'
  <2>1. step' \in {"drainAfter", "poll", "finish", "integrity"} =>
          step \in {"drainAfter", "poll", "finish", "integrity"} /\ UNCHANGED job
    BY DEF EvidenceStep, DrainAfter, PollMetrics, Integrity, SelectReplay, Replay, AwaitReplay,
       OtherGateFails, Judge, FinishExternal, GoFrom, target, orders
  <2> QED BY <1>1, <1>2, <1>9, <2>1 DEF Healthy, Loaded
<1>11. Judging'
  <2>1. In("failed") = {} /\ In("failed")' = {}
    BY <1>5 DEF In, Healthy, Quiet
  <2>2. Snapshot' = Snapshot
    BY <1>2, <2>1 DEF Snapshot
  <2>3. CASE (\E u \in Users : SelectReplay(u)) \/ Replay
    BY <2>2, <2>3 DEF SelectReplay, Replay, GoFrom, verdict, Healthy, Judging
  <2>4. CASE Judge \/ FinishExternal
    BY <1>1, <2>4 DEF Judge, Judgement, FinishExternal, GoFrom, Healthy, Loaded, Judging
  <2>5. CASE DrainAfter \/ PollMetrics \/ Integrity \/ AwaitReplay
    BY <2>5 DEF DrainAfter, PollMetrics, Integrity, AwaitReplay, GoFrom, Judging
  <2> QED BY <2>3, <2>4, <2>5 DEF EvidenceStep, OtherGateFails
<1> QED BY <1>4, <1>5, <1>6, <1>7, <1>10, <1>11 DEF Healthy

\* Nothing failed before a state without faults.
HealthyInv == faults = 0 => Healthy

LEMMA StepKeepsHealthy == Proved /\ HealthyInv /\ [Next]_vars /\ ResetInv' => HealthyInv'
<1> SUFFICES ASSUME Proved, HealthyInv, [Next]_vars, ResetInv', faults' = 0 PROVE Healthy'
  BY DEF HealthyInv
<1>1. CASE UNCHANGED vars
  <2>1. Writing' = Writing
    BY <1>1 DEF vars, progress, load, Writing
  <2> QED BY <1>1, <2>1 DEF vars, target, services, orders, progress, load, verdict, HealthyInv, Healthy,
     Fresh, Quiet, Loading, Reached, Loaded, Sales, StockSold, Sold, Decided, Judging, Snapshot, In
<1>2. CASE Next
  <2>1. faults = 0 /\ ~Fault
    BY <1>2, FaultsOnlyGrow DEF Proved, Fault
  <2>2. Healthy
    BY <2>1 DEF HealthyInv
  <2>3. CASE TargetNext /\ UNCHANGED <<step, progress, load, verdict>>
    BY <2>1, <2>2, <2>3, TargetKeepsHealthy
  <2> QED BY <1>2, <2>1, <2>2, <2>3, ResetKeepsHealthy, LoadKeepsHealthy, EvidenceKeepsHealthy DEF Next
<1> QED BY <1>1, <1>2

LEMMA InitIsHealthy == Init => HealthyInv
<1> SUFFICES ASSUME Init PROVE Healthy
  BY DEF HealthyInv
<1>1. Fresh /\ Loaded /\ Sales /\ Judging
  BY DEF Init, Fresh, Loaded, Sales, Judging, Leftovers, PreLoad, InReset, ResetSteps
<1>2. Quiet
  BY DEF Init, TargetInit, Quiet, InReset, ResetSteps
<1>3. Loading
  BY DEF Init, Loading, PreLoad, InReset, ResetSteps
<1> QED BY <1>1, <1>2, <1>3 DEF Healthy

\* A benchmark in which nothing failed ends with VALID evidence, for any number of
\* users, requests and units, however they interleave and whatever was left behind.
THEOREM HealthyRunIsAlwaysValid == Spec => []HealthyRunIsValid
<1>1. HealthyInv => HealthyRunIsValid
  BY DEF HealthyInv, Healthy, Judging, HealthyRunIsValid
<1>2. TypeOK /\ Unsent /\ ResetInv /\ EvidenceInv => Proved
  BY DEF Proved
<1> QED BY <1>1, <1>2, InitIsHealthy, StepKeepsHealthy, InitHasReset, StepKeepsReset, EvidenceInvHolds,
   BenchmarkIsTyped, PTL DEF Spec
=============================================================================

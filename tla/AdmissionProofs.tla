--------------------------- MODULE AdmissionProofs ---------------------------
(***************************************************************************)
(* Machine-checked proofs about OrderAdmission and AdmissionMetrics, for   *)
(* any requests, pairs and bounds.                                         *)
(***************************************************************************)
EXTENDS AdmissionMetrics, FiniteSetTheorems, TLAPS

USE AdmissionAssumption

-----------------------------------------------------------------------------
(***************************************************************************)
(* Types, and what a live job or a 202 says about the jobs ever created.   *)
(***************************************************************************)
\* A job that is there was created, and so was the job of every accepted request.
JobsWereCreated == \A p \in Pairs : job[p] # "absent" => p \in created

SafeAdmission == TypeOK /\ JobsWereCreated /\ AcceptedWasCreated

LEMMA InitIsSafe == Init => SafeAdmission
BY DEF Init, SafeAdmission, TypeOK, JobStates, JobsWereCreated, AcceptedWasCreated

\* What a response does: the request is done with that status.
LEMMA ResponseIsTyped ==
  ASSUME TypeOK, NEW r \in Requests, NEW status \in {202, 409, 503}, Respond(r, status)
  PROVE  /\ pc' \in [Requests -> {"start", "claimed", "releasing", "lookup", "again", "done", "dead"}]
         /\ answer' \in [Requests -> {0, 202, 409, 503}]
         /\ \A q \in Requests : answer'[q] # 0 <=> pc'[q] = "done"
         /\ answer'[r] = status
         /\ \A q \in Requests : q # r => answer'[q] = answer[q]
BY DEF TypeOK, Respond

\* Going on to another await leaves all answers alone.
LEMMA GoingOnIsTyped ==
  ASSUME TypeOK, NEW r \in Requests, pc[r] # "done",
         NEW to \in {"claimed", "releasing", "lookup", "again", "dead"}, Goto(r, to)
  PROVE  /\ pc' \in [Requests -> {"start", "claimed", "releasing", "lookup", "again", "done", "dead"}]
         /\ \A q \in Requests : answer'[q] # 0 <=> pc'[q] = "done"
         /\ answer' = answer
BY DEF TypeOK, Goto

LEMMA FaultIsTyped ==
  ASSUME TypeOK, Fault
  PROVE  faults' \in 0..MaxFaults
BY DEF TypeOK, Fault

\* Adding a job creates it, and forgets none.
LEMMA AddedJobIsCreated ==
  ASSUME TypeOK, JobsWereCreated, NEW p \in Pairs, AddJob(p)
  PROVE  /\ job' \in [Pairs -> JobStates]
         /\ created' \subseteq Pairs /\ decided' \subseteq created'
         /\ created \subseteq created' /\ p \in created'
         /\ JobsWereCreated'
BY DEF TypeOK, JobStates, JobsWereCreated, AddJob

LEMMA ClaimsAreTyped ==
  ASSUME TypeOK, NEW r \in Requests,
         SetClaim(r) \/ DropClaim(r) \/ UNCHANGED claim
  PROVE  claim' \in [Pairs -> Requests \cup {Nobody}]
BY DEF TypeOK, SetClaim, DropClaim

-----------------------------------------------------------------------------
\* Every step of a request keeps the invariant.
LEMMA RequestStepIsSafe ==
  ASSUME SafeAdmission, NEW r \in Requests, Admit(r) \/ AdmissionFault(r)
  PROVE  SafeAdmission'
<1> USE DEF SafeAdmission
<1>0. PairOf[r] \in Pairs
  OBVIOUS
<1>1. ASSUME Goto(r, "claimed") \/ Goto(r, "lookup"), pc[r] = "start",
             SetClaim(r), UNCHANGED queue, Fault \/ UNCHANGED faults
      PROVE  SafeAdmission'
  BY <1>1, GoingOnIsTyped, FaultIsTyped, ClaimsAreTyped
     DEF TypeOK, JobsWereCreated, AcceptedWasCreated, queue
<1>2. CASE Acquire(r)
  BY <1>2, <1>1 DEF Acquire, queue
<1>3. CASE AcquireTwice(r)
  BY <1>3, <1>1 DEF AcquireTwice
<1>4. ASSUME NEW status \in {409, 503}, Respond(r, status), UNCHANGED queue,
             SetClaim(r) \/ DropClaim(r) \/ UNCHANGED claim, Fault \/ UNCHANGED faults
      PROVE  SafeAdmission'
  BY <1>4, ResponseIsTyped, FaultIsTyped, ClaimsAreTyped
     DEF TypeOK, JobsWereCreated, AcceptedWasCreated, queue
<1>5. CASE AcquireFails(r)
  BY <1>5, <1>4 DEF AcquireFails
<1>6. CASE Enqueue(r)
  BY <1>6, <1>0, ResponseIsTyped, AddedJobIsCreated
     DEF Enqueue, TypeOK, AcceptedWasCreated
<1>7. CASE EnqueueFails(r)
  <2>1. Goto(r, "releasing") /\ pc[r] # "done" /\ Fault /\ UNCHANGED claim
    BY <1>7 DEF EnqueueFails
  <2>2. CASE AddJob(PairOf[r])
    BY <2>1, <2>2, <1>0, GoingOnIsTyped, FaultIsTyped, AddedJobIsCreated
       DEF TypeOK, AcceptedWasCreated
  <2>3. CASE UNCHANGED queue
    BY <2>1, <2>3, GoingOnIsTyped, FaultIsTyped
       DEF TypeOK, JobsWereCreated, AcceptedWasCreated, queue
  <2> QED BY <1>7, <2>2, <2>3 DEF EnqueueFails
<1>8. CASE Release(r)
  BY <1>8, <1>4 DEF Release, queue
<1>9. CASE ReleaseFails(r)
  BY <1>9, <1>4 DEF ReleaseFails
<1>10. ASSUME Respond(r, 202), job[PairOf[r]] # "absent", UNCHANGED <<claim, queue, faults>>
       PROVE  SafeAdmission'
  BY <1>10, <1>0, ResponseIsTyped DEF TypeOK, JobsWereCreated, AcceptedWasCreated, queue
<1>11. CASE Lookup(r)
  <2>1. CASE job[PairOf[r]] # "absent"
    BY <1>11, <2>1, <1>10 DEF Lookup
  <2>2. CASE job[PairOf[r]] = "absent"
    <3>1. Goto(r, "again") /\ pc[r] # "done" /\ UNCHANGED <<claim, queue, faults>>
      BY <1>11, <2>2 DEF Lookup
    <3> QED BY <3>1, GoingOnIsTyped DEF TypeOK, JobsWereCreated, AcceptedWasCreated, queue
  <2> QED BY <2>1, <2>2
<1>12. CASE LookupAgain(r)
  <2>1. CASE job[PairOf[r]] # "absent"
    BY <1>12, <2>1, <1>10 DEF LookupAgain
  <2>2. CASE job[PairOf[r]] = "absent"
    BY <1>12, <2>2, <1>4 DEF LookupAgain, queue
  <2> QED BY <2>1, <2>2
<1>13. CASE LookupFails(r)
  BY <1>13, <1>4 DEF LookupFails, queue
<1>14. CASE RequestDies(r)
  <2>1. Goto(r, "dead") /\ pc[r] # "done" /\ Fault /\ UNCHANGED <<claim, queue>>
    BY <1>14 DEF RequestDies
  <2> QED BY <2>1, GoingOnIsTyped, FaultIsTyped
          DEF TypeOK, JobsWereCreated, AcceptedWasCreated, queue
<1> QED BY <1>2, <1>3, <1>5, <1>6, <1>7, <1>8, <1>9, <1>11, <1>12, <1>13, <1>14
        DEF Admit, AdmissionFault

\* So does the environment: a job that completes, fails or disappears was created.
LEMMA EnvironmentIsSafe ==
  ASSUME SafeAdmission, Environment
  PROVE  SafeAdmission'
<1> USE DEF SafeAdmission, TypeOK, JobStates, JobsWereCreated, AcceptedWasCreated, queue, requests
<1>1. ASSUME NEW p \in Pairs, ClaimExpires(p) PROVE SafeAdmission'
  BY <1>1 DEF ClaimExpires
<1>2. ASSUME NEW p \in Pairs, DecideOrder(p) PROVE SafeAdmission'
  BY <1>2 DEF DecideOrder
<1>3. ASSUME NEW p \in Pairs, CompleteJob(p) PROVE SafeAdmission'
  BY <1>3 DEF CompleteJob
<1>4. ASSUME NEW p \in Pairs, ExhaustJob(p) PROVE SafeAdmission'
  BY <1>4 DEF ExhaustJob, Fault
<1>5. ASSUME NEW p \in Pairs, RemoveJob(p) PROVE SafeAdmission'
  BY <1>5 DEF RemoveJob
<1>6. CASE OpsCrashes
  BY <1>6 DEF OpsCrashes, Fault
<1> QED BY <1>1, <1>2, <1>3, <1>4, <1>5, <1>6 DEF Environment

LEMMA NextIsSafe == SafeAdmission /\ [Next]_vars => SafeAdmission'
<1>1. SafeAdmission /\ Next => SafeAdmission'
  BY RequestStepIsSafe, EnvironmentIsSafe DEF Next
<1>2. SafeAdmission /\ UNCHANGED vars => SafeAdmission'
  BY DEF SafeAdmission, TypeOK, JobStates, JobsWereCreated, AcceptedWasCreated,
         vars, queue, requests
<1> QED BY <1>1, <1>2

LEMMA AdmissionIsSafe == Spec => []SafeAdmission
BY InitIsSafe, NextIsSafe, PTL DEF Spec

-----------------------------------------------------------------------------
(***************************************************************************)
(* The metrics.                                                            *)
(***************************************************************************)
\* Counting changes nothing that is counted: whatever guard, controller, filter,
\* hooks and counters do, the handler behaves as OrderAdmission says.
THEOREM MetricsOnlyObserve == ObservedSpec => Spec
<1>1. ObservedInit => Init
  BY DEF ObservedInit
<1>2. [ObservedNext]_allVars => [Next]_vars
  BY DEF ObservedNext, Handle, OnResponse, Refuse, Next, allVars
<1> QED BY <1>1, <1>2, PTL DEF ObservedSpec, Spec

\* The handler with its metrics keeps its types.
THEOREM AdmissionIsTyped == ObservedSpec => []TypeOK
<1>1. SafeAdmission => TypeOK
  BY DEF SafeAdmission
<1> QED BY <1>1, AdmissionIsSafe, MetricsOnlyObserve, PTL

\* Never a false 202, however many requests of however many pairs meet expiring
\* claims, failing calls and a queue that loses what it was given.
THEOREM AcceptedAlwaysCreated == ObservedSpec => []AcceptedWasCreated
<1>1. SafeAdmission => AcceptedWasCreated
  BY DEF SafeAdmission
<1> QED BY <1>1, AdmissionIsSafe, MetricsOnlyObserve, PTL

-----------------------------------------------------------------------------
(***************************************************************************)
(* Claims.                                                                 *)
(***************************************************************************)
\* Only the release of its owner, an expiry or a loss takes a claim away.
OwnerReleases ==
  \A p \in Pairs :
    claim[p] # Nobody /\ claim'[p] # claim[p] /\ pc' # pc =>
      pc[claim[p]] = "releasing" /\ pc'[claim[p]] = "done"

\* A SET NX that meets a claim leaves it alone.
LEMMA ClaimIsKept ==
  ASSUME TypeOK, NEW r \in Requests, SetClaim(r), NEW p \in Pairs, claim[p] # Nobody
  PROVE  claim'[p] = claim[p]
BY DEF TypeOK, SetClaim

\* A compare-and-delete in the release takes only the request's own claim.
LEMMA OwnClaimIsDropped ==
  ASSUME TypeOK, NEW r \in Requests, pc[r] = "releasing", DropClaim(r), Respond(r, 503),
         NEW p \in Pairs, claim[p] # Nobody, claim'[p] # claim[p]
  PROVE  pc[claim[p]] = "releasing" /\ pc'[claim[p]] = "done"
<1>1. claim[p] = r
  BY DEF TypeOK, DropClaim
<1> QED BY <1>1 DEF TypeOK, Respond

LEMMA StepOfOwner == TypeOK /\ [Next]_vars => OwnerReleases
<1> SUFFICES ASSUME TypeOK, [Next]_vars, NEW p \in Pairs,
                    claim[p] # Nobody, claim'[p] # claim[p], pc' # pc
             PROVE  pc[claim[p]] = "releasing" /\ pc'[claim[p]] = "done"
  BY DEF OwnerReleases
<1>1. ~ UNCHANGED vars /\ ~ Environment
  BY DEF vars, requests, Environment, ClaimExpires, DecideOrder, CompleteJob, ExhaustJob,
         RemoveJob, OpsCrashes
<1>2. PICK r \in Requests : Admit(r) \/ AdmissionFault(r)
  BY <1>1 DEF Next
<1>3. ~ SetClaim(r)
  BY ClaimIsKept
<1>4. Release(r) \/ ReleaseFails(r)
  BY <1>2, <1>3 DEF Admit, AdmissionFault, Acquire, AcquireTwice, AcquireFails, Enqueue,
     EnqueueFails, Lookup, LookupAgain, LookupFails, RequestDies
<1>5. pc[r] = "releasing" /\ DropClaim(r) /\ Respond(r, 503)
  BY <1>4 DEF Release, ReleaseFails
<1> QED BY <1>5, OwnClaimIsDropped

\* A late failure never removes the claim of a newer request.
THEOREM OnlyOwnersRelease == ObservedSpec => OnlyOwnerReleases
<1>1. TypeOK /\ [Next]_vars => [OwnerReleases]_vars
  BY StepOfOwner
<1> QED BY <1>1, AdmissionIsTyped, MetricsOnlyObserve, PTL
        DEF Spec, OnlyOwnerReleases, OwnerReleases

-----------------------------------------------------------------------------
(***************************************************************************)
(* The counters: an inductive invariant that relates them to the sets of   *)
(* requests they count.                                                    *)
(***************************************************************************)
Counters ==
  [jwt      : [success : Nat, error : Nat, missing : Nat],
   claim    : [acquired : Nat, already_exists : Nat, error : Nat],
   lookup   : [resolved : Nat, in_progress : Nat, error : Nat],
   enqueue  : [success : Nat, error : Nat],
   total    : [success : Nat, duplicate : Nat, error : Nat],
   response : [success : Nat, duplicate : Nat, error : Nat]]

Outcomes == {"success", "duplicate", "error"}
Timings  == [outcome : Outcomes, timed : BOOLEAN]

ObservedTyped ==
  /\ life \in [Requests -> {"away", "open", "answered", "closed"}]
  /\ timing \in [Requests -> Timings]
  /\ counts \in Counters

\* Where a request's life, its timing record and its handler stand together.
Phases ==
  \A r \in Requests :
    /\ timing[r].timed <=> life[r] \in {"answered", "closed"}
    /\ ~ timing[r].timed => timing[r].outcome = "error"
    /\ life[r] = "away" => pc[r] = "start"
    /\ life[r] = "open" => pc[r] \notin {"start", "done"}
    /\ life[r] \in {"answered", "closed"} => pc[r] \in {"start", "done"}
    /\ answer[r] = 409 => timing[r].outcome = "error"

Received           == {r \in Requests : life[r] # "away"}
Completed(outcome) == {r \in Requests : timing[r].timed /\ timing[r].outcome = outcome}
Closed(outcome)    == {r \in Requests : life[r] = "closed" /\ timing[r].outcome = outcome}
At(S)              == {r \in Requests : pc[r] \in S}

\* The totals count the completed admissions, with the 409s under duplicates, and
\* the responses count the closed requests, by outcome.
Tallies ==
  /\ counts.total.success = Cardinality(Completed("success"))
  /\ counts.total.duplicate = Cardinality(Completed("duplicate")) + With(409)
  /\ counts.total.error + With(409) = Cardinality(Completed("error"))
  /\ \A o \in Outcomes : counts.response[o] = Cardinality(Closed(o))

-----------------------------------------------------------------------------
\* One more element in a finite set.
LEMMA CountGrows ==
  ASSUME NEW S, IsFiniteSet(S), NEW x, x \notin S, NEW T, T = S \cup {x}
  PROVE  IsFiniteSet(T) /\ Cardinality(T) = Cardinality(S) + 1 /\ Cardinality(S) \in Nat
BY FS_AddElement, FS_CardinalityType

LEMMA SubsetsAreCounted ==
  ASSUME NEW S, IsFiniteSet(S), NEW T, T \subseteq S
  PROVE  IsFiniteSet(T) /\ Cardinality(T) \in Nat
BY FS_Subset, FS_CardinalityType

\* A request on its handler's way.
Moved(r, from, to, status) ==
  /\ pc[r] \in from
  /\ pc' = [pc EXCEPT ![r] = to]
  /\ answer' = [answer EXCEPT ![r] = status]

HandlerMoves(r) ==
  \/ Moved(r, {"start"}, "claimed", 0) \/ Moved(r, {"start"}, "lookup", 0)
  \/ Moved(r, {"start"}, "done", 503)
  \/ Moved(r, {"claimed"}, "done", 202) \/ Moved(r, {"claimed"}, "releasing", 0)
  \/ Moved(r, {"releasing"}, "done", 503)
  \/ Moved(r, {"lookup"}, "again", 0)
  \/ Moved(r, {"lookup", "again"}, "done", 202)
  \/ Moved(r, {"again"}, "done", 409)
  \/ Moved(r, {"lookup", "again"}, "done", 503)
  \/ Moved(r, {"claimed", "releasing", "lookup", "again"}, "dead", 0)

\* Every step of OrdersService.admit is one of these moves.
LEMMA HandlerStepMoves ==
  ASSUME TypeOK, NEW r \in Requests, Admit(r) \/ AdmissionFault(r)
  PROVE  HandlerMoves(r)
<1> USE DEF HandlerMoves, Moved
<1>1. ASSUME NEW to, Goto(r, to), pc[r] # "done"
      PROVE  pc' = [pc EXCEPT ![r] = to] /\ answer' = [answer EXCEPT ![r] = 0]
  BY <1>1 DEF Goto, TypeOK
<1>2. CASE Acquire(r)
  BY <1>2, <1>1 DEF Acquire
<1>3. CASE AcquireTwice(r)
  BY <1>3, <1>1 DEF AcquireTwice
<1>4. CASE AcquireFails(r)
  BY <1>4 DEF AcquireFails, Respond
<1>5. CASE Enqueue(r)
  BY <1>5 DEF Enqueue, Respond
<1>6. CASE EnqueueFails(r)
  BY <1>6, <1>1 DEF EnqueueFails
<1>7. CASE Release(r) \/ ReleaseFails(r)
  BY <1>7 DEF Release, ReleaseFails, Respond
<1>8. CASE Lookup(r)
  BY <1>8, <1>1 DEF Lookup, Respond
<1>9. CASE LookupAgain(r)
  BY <1>9 DEF LookupAgain, Respond
<1>10. CASE LookupFails(r)
  BY <1>10 DEF LookupFails, Respond
<1>11. CASE RequestDies(r)
  BY <1>11, <1>1 DEF RequestDies, TypeOK
<1> QED BY <1>2, <1>3, <1>4, <1>5, <1>6, <1>7, <1>8, <1>9, <1>10, <1>11
        DEF Admit, AdmissionFault

-----------------------------------------------------------------------------
(***************************************************************************)
(* How the counted sets change when one request moves.                     *)
(***************************************************************************)
\* Requests may be infinite: only finitely many are ever received.
Metered == TypeOK /\ ObservedTyped /\ Phases /\ IsFiniteSet(Received)

One(b) == IF b THEN 1 ELSE 0

\* Only received requests have left "start": there are finitely many of them.
LEMMA PlacesAreCounted ==
  ASSUME Metered, NEW S, "start" \notin S
  PROVE  IsFiniteSet(At(S)) /\ Cardinality(At(S)) \in Nat
<1>1. At(S) \subseteq Received
  BY DEF At, Received, Metered, Phases
<1> QED BY <1>1, SubsetsAreCounted DEF Metered

\* A move takes r out of the places it was in and into those it goes to.
LEMMA PlacesAfterMove ==
  ASSUME Metered, NEW r \in Requests, NEW to, pc' = [pc EXCEPT ![r] = to],
         NEW S, "start" \notin S
  PROVE  /\ Cardinality(At(S))' + One(pc[r] \in S) = Cardinality(At(S)) + One(to \in S)
         /\ Cardinality(At(S))' \in Nat
<1>0. IsFiniteSet(At(S)) /\ Cardinality(At(S)) \in Nat
  BY PlacesAreCounted
<1>1. PICK rest : rest = At(S) \ {r}
  OBVIOUS
<1>2. IsFiniteSet(rest) /\ Cardinality(rest) \in Nat /\ r \notin rest
  BY <1>0, <1>1, FS_RemoveElement, FS_CardinalityType
<1>3. IsFiniteSet(rest \cup {r}) /\ Cardinality(rest \cup {r}) = Cardinality(rest) + 1
  BY <1>2, FS_AddElement
<1>4. At(S) = IF pc[r] \in S THEN rest \cup {r} ELSE rest
  BY <1>1 DEF At
<1>5. At(S)' = IF to \in S THEN rest \cup {r} ELSE rest
  BY <1>1 DEF At, Metered, TypeOK
<1>6. Cardinality(At(S)) = Cardinality(rest) + One(pc[r] \in S)
  BY <1>2, <1>3, <1>4 DEF One
<1>7. Cardinality(At(S)') = Cardinality(rest) + One(to \in S)
  BY <1>2, <1>3, <1>5 DEF One
<1> QED BY <1>2, <1>6, <1>7 DEF One

-----------------------------------------------------------------------------
(***************************************************************************)
(* The three ways in which a step touches the life and the timing of r.    *)
(***************************************************************************)
SameCounts(metric) == counts'[metric] = counts[metric]

\* d has one observation of the metric more than c, under that label.
More(c, d, metric, label) ==
  /\ d[metric][label] = c[metric][label] + 1
  /\ \A l \in DOMAIN c[metric] : l # label => d[metric][l] = c[metric][l]

OneMore(metric, label) == More(counts, counts', metric, label)

\* r goes on to another await, or dies.
Continues(r) ==
  /\ life' = [life EXCEPT ![r] = "open"]
  /\ UNCHANGED <<timing, answer>>
  /\ SameCounts("total") /\ SameCounts("response")

\* r is answered: its timing is closed with an outcome, its total is recorded
\* under a label, its status may be 0 when the handler was never entered.
Finishes(r, outcome, label, status) ==
  /\ life[r] \in {"away", "open"}
  /\ life' = [life EXCEPT ![r] = "answered"]
  /\ timing' = [timing EXCEPT ![r] = [outcome |-> outcome, timed |-> TRUE]]
  /\ answer[r] = 0
  /\ answer' = [answer EXCEPT ![r] = status]
  /\ OneMore("total", label) /\ SameCounts("response")

\* The outcomes, labels and statuses that go together.
Finished(r) ==
  \/ Finishes(r, "success", "success", 202)
  \/ Finishes(r, "duplicate", "duplicate", 202)
  \/ Finishes(r, "error", "duplicate", 409)
  \/ \E status \in {0, 503} : Finishes(r, "error", "error", status)

Closes(r) ==
  /\ life[r] = "answered"
  /\ life' = [life EXCEPT ![r] = "closed"]
  /\ UNCHANGED <<timing, answer>>
  /\ SameCounts("total") /\ OneMore("response", timing[r].outcome)

\* Only received requests have an outcome that counts.
LEMMA OutcomesAreCounted ==
  ASSUME Metered
  PROVE  /\ \A o \in Outcomes : IsFiniteSet(Completed(o)) /\ Cardinality(Completed(o)) \in Nat
         /\ \A o \in Outcomes : IsFiniteSet(Closed(o)) /\ Cardinality(Closed(o)) \in Nat
         /\ IsFiniteSet({r \in Requests : answer[r] = 409}) /\ With(409) \in Nat
<1>1. \A o \in Outcomes : Completed(o) \subseteq Received /\ Closed(o) \subseteq Received
  BY DEF Completed, Closed, Received, Metered, Phases
<1>2. {r \in Requests : answer[r] = 409} \subseteq Received
  BY DEF Received, Metered, Phases, TypeOK
<1> QED BY <1>1, <1>2, SubsetsAreCounted DEF Metered, With

\* Each of the three kinds of steps keeps the tallies.
LEMMA ContinuingKeepsTallies ==
  ASSUME Metered, Tallies, NEW r \in Requests, Continues(r), life[r] \in {"away", "open"}
  PROVE  Tallies'
<1>1. \A o \in Outcomes : Completed(o)' = Completed(o)
  BY DEF Completed, Continues
<1>2. \A o \in Outcomes : Closed(o)' = Closed(o)
  BY DEF Closed, Continues, Metered, ObservedTyped
<1>3. With(409)' = With(409)
  BY DEF With, Continues
<1>4. counts'.total = counts.total /\ counts'.response = counts.response
  BY DEF Continues, SameCounts
<1> QED BY <1>1, <1>2, <1>3, <1>4 DEF Tallies, Outcomes

LEMMA FinishingKeepsTallies ==
  ASSUME Metered, Tallies, NEW r \in Requests, Finished(r)
  PROVE  Tallies'
<1>0. PICK outcome \in Outcomes, label \in Outcomes, status \in {0, 202, 409, 503} :
        /\ Finishes(r, outcome, label, status)
        /\ label = IF status = 409 THEN "duplicate" ELSE outcome
        /\ status = 409 => outcome = "error"
  BY DEF Finished, Outcomes
<1>1. \A o \in Outcomes \ {outcome} : Completed(o)' = Completed(o)
  BY <1>0 DEF Completed, Finishes, Metered, Phases, ObservedTyped
<1>2. Completed(outcome)' = Completed(outcome) \cup {r} /\ r \notin Completed(outcome)
  BY <1>0 DEF Completed, Finishes, Metered, Phases, ObservedTyped
<1>3. \A o \in Outcomes : Closed(o)' = Closed(o)
  BY <1>0 DEF Closed, Finishes, Metered, ObservedTyped
<1>4. Cardinality(Completed(outcome)') = Cardinality(Completed(outcome)) + 1
  BY <1>2, CountGrows, OutcomesAreCounted
<1>5. With(409)' = With(409) + One(status = 409)
  <2> DEFINE found == {q \in Requests : answer[q] = 409}
  <2>1. found' = IF status = 409 THEN found \cup {r} ELSE found
    BY <1>0 DEF Finishes, Metered, TypeOK
  <2>2. r \notin found
    BY <1>0 DEF Finishes
  <2>3. IsFiniteSet(found)
    BY OutcomesAreCounted
  <2>4. Cardinality(found \cup {r}) = Cardinality(found) + 1 /\ Cardinality(found) \in Nat
    BY <2>2, <2>3, CountGrows
  <2>5. With(409) = Cardinality(found) /\ With(409)' = Cardinality(found')
    BY DEF With
  <2> HIDE DEF found
  <2> QED BY <2>1, <2>4, <2>5 DEF One
<1>6. counts'.response = counts.response
  BY <1>0 DEF Finishes, SameCounts
<1>7. counts.total \in [success : Nat, duplicate : Nat, error : Nat]
  BY DEF Metered, ObservedTyped, Counters
<1>8. /\ counts'.total[label] = counts.total[label] + 1
      /\ \A l \in Outcomes \ {label} : counts'.total[l] = counts.total[l]
  BY <1>0, <1>7 DEF Finishes, OneMore, More, Outcomes
<1>9. \A o \in Outcomes : Cardinality(Completed(o)) \in Nat /\ With(409) \in Nat
  BY OutcomesAreCounted
<1>10. \A o \in Outcomes : counts'.response[o] = Cardinality(Closed(o)')
  BY <1>3, <1>6 DEF Tallies
<1>11. \A o \in Outcomes : Cardinality(Completed(o)') = Cardinality(Completed(o)) + One(o = outcome)
  BY <1>1, <1>4, <1>9 DEF One
<1>12. \A o \in Outcomes : counts'.total[o] = counts.total[o] + One(o = label)
  BY <1>7, <1>8 DEF One, Outcomes
<1>13. /\ counts'.total.success = Cardinality(Completed("success")')
       /\ counts'.total.duplicate = Cardinality(Completed("duplicate")') + With(409)'
       /\ counts'.total.error + With(409)' = Cardinality(Completed("error")')
  BY <1>0, <1>5, <1>7, <1>9, <1>11, <1>12 DEF Tallies, Outcomes, One
<1> QED BY <1>10, <1>13 DEF Tallies

LEMMA ClosingKeepsTallies ==
  ASSUME Metered, Tallies, NEW r \in Requests, Closes(r)
  PROVE  Tallies'
<1>0. PICK outcome \in Outcomes : outcome = timing[r].outcome
  BY DEF Metered, ObservedTyped, Timings
<1>1. \A o \in Outcomes : Completed(o)' = Completed(o)
  BY DEF Completed, Closes
<1>2. With(409)' = With(409) /\ counts'.total = counts.total
  BY DEF With, Closes, SameCounts
<1>3. Closed(outcome)' = Closed(outcome) \cup {r} /\ r \notin Closed(outcome)
  BY <1>0 DEF Closed, Closes, Metered, ObservedTyped
<1>4. \A o \in Outcomes \ {outcome} : Closed(o)' = Closed(o)
  BY <1>0 DEF Closed, Closes, Metered, ObservedTyped
<1>5. Cardinality(Closed(outcome)') = Cardinality(Closed(outcome)) + 1
  BY <1>0, <1>3, CountGrows, OutcomesAreCounted
<1>6. \A o \in Outcomes : counts'.response[o] = IF o = outcome THEN counts.response[o] + 1
                                                               ELSE counts.response[o]
  BY <1>0 DEF Closes, OneMore, More, Metered, ObservedTyped, Counters, Outcomes
<1>7. counts.response[outcome] = Cardinality(Closed(outcome))
  BY <1>0 DEF Tallies
<1>8. \A o \in Outcomes : counts'.response[o] = Cardinality(Closed(o)')
  BY <1>4, <1>5, <1>6, <1>7 DEF Tallies
<1>9. /\ counts'.total.success = Cardinality(Completed("success")')
      /\ counts'.total.duplicate = Cardinality(Completed("duplicate")') + With(409)'
      /\ counts'.total.error + With(409)' = Cardinality(Completed("error")')
  BY <1>1, <1>2 DEF Tallies, Outcomes
<1> QED BY <1>8, <1>9 DEF Tallies

-----------------------------------------------------------------------------
(***************************************************************************)
(* What each handler step does to the timing and the counters.             *)
(***************************************************************************)
Bump(c, metric, label) == [c EXCEPT ![metric][label] = @ + 1]

\* r moves, its timing is closed with an outcome if it is answered, c are the counts.
Effect(r, from, to, status, outcome, c) ==
  /\ Moved(r, from, to, status)
  /\ life' = [life EXCEPT ![r] = IF to = "done" THEN "answered" ELSE "open"]
  /\ timing' = IF to = "done" THEN [timing EXCEPT ![r] = [outcome |-> outcome, timed |-> TRUE]]
                             ELSE timing
  /\ counts' = c

\* The counts once the guard has let a request pass.
Past(c) == Bump(c, "jwt", "success")

\* The handler's steps as the metrics see them.
Acquires(r)       == Effect(r, {"start"}, "claimed", 0, "error",
                            Bump(Past(counts), "claim", "acquired"))
MeetsClaim(r)     == Effect(r, {"start"}, "lookup", 0, "error",
                            Bump(Past(counts), "claim", "already_exists"))
FailsToClaim(r)   == Effect(r, {"start"}, "done", 503, "error",
                            Bump(Bump(Past(counts), "claim", "error"), "total", "error"))
Enqueued(r)       == Effect(r, {"claimed"}, "done", 202, "success",
                            Bump(Bump(counts, "enqueue", "success"), "total", "success"))
FailsToEnqueue(r) == Effect(r, {"claimed"}, "releasing", 0, "error",
                            Bump(counts, "enqueue", "error"))
Released(r)       == Effect(r, {"releasing"}, "done", 503, "error",
                            Bump(counts, "total", "error"))
LooksAgain(r)     == Effect(r, {"lookup"}, "again", 0, "error", counts)
Finds(r)          == Effect(r, {"lookup", "again"}, "done", 202, "duplicate",
                            Bump(Bump(counts, "lookup", "resolved"), "total", "duplicate"))
FindsNothing(r)   == Effect(r, {"again"}, "done", 409, "error",
                            Bump(Bump(counts, "lookup", "in_progress"), "total", "duplicate"))
FailsToLookUp(r)  == Effect(r, {"lookup", "again"}, "done", 503, "error",
                            Bump(Bump(counts, "lookup", "error"), "total", "error"))
Dies(r)           == Effect(r, {"claimed", "releasing", "lookup", "again"}, "dead", 0, "error", counts)

HandlerEffects(r) ==
  \/ Acquires(r) \/ MeetsClaim(r) \/ FailsToClaim(r)
  \/ Enqueued(r) \/ FailsToEnqueue(r) \/ Released(r)
  \/ LooksAgain(r) \/ Finds(r) \/ FindsNothing(r) \/ FailsToLookUp(r)
  \/ Dies(r)

\* A timing record with the counters.
Record(o, b, c) == [outcome |-> o, timed |-> b, counts |-> c]

\* The service's operations on a record, for any values of its fields.
LEMMA RecordFields ==
  ASSUME NEW o, NEW b, NEW c, NEW t, t = Record(o, b, c)
  PROVE  t.outcome = o /\ t.timed = b
BY DEF Record

LEMMA RecordCounts ==
  ASSUME NEW o, NEW b, NEW c, NEW t, t = Record(o, b, c), NEW m, NEW l
  PROVE  Count(t, m, l) = Record(o, b, Bump(c, m, l))
BY DEF Record, Count, Bump

LEMMA RecordGetsOutcome ==
  ASSUME NEW o, NEW b, NEW c, NEW t, t = Record(o, b, c), NEW p
  PROVE  SetOutcome(t, p) = Record(p, b, c)
BY DEF Record, SetOutcome

\* A timing still open, and one whose totalMs is set.
Open(o, c) == Record(o, FALSE, c)
Done(o, c) == Record(o, TRUE, c)

LEMMA OpenCounts ==
  ASSUME NEW o, NEW c, NEW m, NEW l
  PROVE  Count(Open(o, c), m, l) = Open(o, Bump(c, m, l))
<1>1. PICK no : no = FALSE
  OBVIOUS
<1>2. Count(Record(o, no, c), m, l) = Record(o, no, Bump(c, m, l))
  BY RecordCounts
<1> QED BY <1>1, <1>2 DEF Open

LEMMA OpenGetsOutcome ==
  ASSUME NEW o, NEW c, NEW p
  PROVE  SetOutcome(Open(o, c), p) = Open(p, c)
<1>1. PICK no : no = FALSE
  OBVIOUS
<1>2. SetOutcome(Record(o, no, c), p) = Record(p, no, c)
  BY RecordGetsOutcome
<1> QED BY <1>1, <1>2 DEF Open

LEMMA DoneGetsOutcome ==
  ASSUME NEW o, NEW c, NEW p
  PROVE  SetOutcome(Done(o, c), p) = Done(p, c)
<1>1. PICK yes : yes = TRUE
  OBVIOUS
<1>2. SetOutcome(Record(o, yes, c), p) = Record(p, yes, c)
  BY RecordGetsOutcome
<1> QED BY <1>1, <1>2 DEF Done

\* Completing an open admission keeps the outcome that was set, and counts it.
LEMMA Completing ==
  ASSUME NEW c, NEW o \in Outcomes
  PROVE  CompleteAdmission(Open(o, c), "error") = Done(o, Bump(c, "total", o))
<1>1. PICK no, yes : no = FALSE /\ yes = TRUE
  OBVIOUS
<1>2. PICK t : t = Record(o, no, c)
  OBVIOUS
<1>3. t.outcome = o /\ t.timed = no
  BY <1>2, RecordFields
<1>4. (IF t.outcome = "error" THEN "error" ELSE t.outcome) = o /\ ~ t.timed
  BY <1>1, <1>3
<1>5. CompleteAdmission(t, "error") = Count([t EXCEPT !.outcome = o, !.timed = TRUE], "total", o)
  BY <1>4, Zenon DEF CompleteAdmission
<1>6. PICK s : s = [t EXCEPT !.outcome = o]
  OBVIOUS
<1>7. s = [outcome |-> o, timed |-> no, counts |-> c]
  BY <1>2, <1>6 DEF Record
<1>8. [s EXCEPT !.timed = yes] = [outcome |-> o, timed |-> yes, counts |-> c]
  BY <1>7
<1>9. [t EXCEPT !.outcome = o, !.timed = TRUE] = Record(o, yes, c)
  BY <1>1, <1>6, <1>8 DEF Record
<1>10. Count(Record(o, yes, c), "total", o) = Record(o, yes, Bump(c, "total", o))
  BY RecordCounts
<1> QED BY <1>1, <1>2, <1>5, <1>9, <1>10 DEF Open, Done

\* A throw completes the admission under the outcome the service has set; the
\* filter makes an error of it, and finds nothing left to record.
LEMMA Throwing ==
  ASSUME NEW c, NEW o \in Outcomes
  PROVE  Thrown(Open(o, c)) = Done("error", Bump(c, "total", o))
<1> DEFINE d == Bump(c, "total", o)
<1>1. SetOutcome(Done(o, d), "error") = Done("error", d)
  BY DoneGetsOutcome
<1>2. PICK yes : yes = TRUE
  OBVIOUS
<1>3. Record("error", yes, d).timed = yes
  BY RecordFields
<1>4. CompleteAdmission(Done("error", d), "error") = Done("error", d)
  BY <1>2, <1>3 DEF CompleteAdmission, Done
<1> QED BY <1>1, <1>4, Completing DEF Thrown, Filtered

\* Each step of the handler has one of these effects.
LEMMA HandlerStepEffects ==
  ASSUME Metered, NEW r \in Requests, Handle(r)
  PROVE  HandlerEffects(r)
<1>0. /\ HandlerMoves(r) /\ Store(r, Observe(r))
      /\ life' = [life EXCEPT ![r] = IF pc'[r] = "done" THEN "answered" ELSE "open"]
      /\ life[r] = IF pc[r] = "start" THEN "away" ELSE "open"
  BY HandlerStepMoves DEF Handle, Metered
<1>1. /\ timing[r] = [outcome |-> "error", timed |-> FALSE]
      /\ timing \in [Requests -> Timings]
  BY <1>0 DEF Metered, Phases, ObservedTyped, Timings
<1>2. pc \in [Requests -> {"start", "claimed", "releasing", "lookup", "again", "done", "dead"}]
      /\ answer \in [Requests -> {0, 202, 409, 503}]
  BY DEF Metered, TypeOK
<1> DEFINE t0 == Open("error", counts)
<1>3. Timing(r) = t0
  BY <1>1 DEF Timing, Open, Record
<1>4. [timing EXCEPT ![r] = [outcome |-> "error", timed |-> FALSE]] = timing
  BY <1>1
<1>5. ASSUME NEW from, NEW to, NEW status, NEW outcome \in Outcomes, NEW c, NEW t,
             t = [outcome |-> outcome, timed |-> (to = "done"), counts |-> c],
             to # "done" => outcome = "error", Observe(r) = t, Moved(r, from, to, status)
      PROVE  Effect(r, from, to, status, outcome, c)
  <2>1. pc'[r] = to
    BY <1>2, <1>5 DEF Moved
  <2>2. timing' = [timing EXCEPT ![r] = [outcome |-> outcome, timed |-> (to = "done")]]
        /\ counts' = c
    BY <1>0, <1>5 DEF Store
  <2> QED BY <1>0, <1>4, <1>5, <2>1, <2>2 DEF Open, Done, Record, Effect
<1> USE DEF Past, Verified, Outcomes
<1>6. CASE Moved(r, {"start"}, "claimed", 0)
  <2>1. Observe(r) = Count(Count(t0, "jwt", "success"), "claim", "acquired")
    BY <1>2, <1>3, <1>6 DEF Moved, Observe, ObserveClaim
  <2>2. Observe(r) = Open("error", Bump(Past(counts), "claim", "acquired"))
    BY <2>1, OpenCounts
  <2> QED BY <1>5, <1>6, <2>2 DEF Open, Done, Record, Acquires, HandlerEffects
<1>7. CASE Moved(r, {"start"}, "lookup", 0)
  <2>1. Observe(r) = Count(Count(t0, "jwt", "success"), "claim", "already_exists")
    BY <1>2, <1>3, <1>7 DEF Moved, Observe, ObserveClaim
  <2>2. Observe(r) = Open("error", Bump(Past(counts), "claim", "already_exists"))
    BY <2>1, OpenCounts
  <2> QED BY <1>5, <1>7, <2>2 DEF Open, Done, Record, MeetsClaim, HandlerEffects
<1>8. CASE Moved(r, {"start"}, "done", 503)
  <2>1. Observe(r) = Thrown(SetOutcome(Count(Count(t0, "jwt", "success"), "claim", "error"), "error"))
    BY <1>2, <1>3, <1>8 DEF Moved, Observe, ObserveClaim
  <2>2. Observe(r) = Done("error", Bump(Bump(Past(counts), "claim", "error"), "total", "error"))
    BY <2>1, OpenCounts, OpenGetsOutcome, Throwing
  <2> QED BY <1>5, <1>8, <2>2 DEF Open, Done, Record, FailsToClaim, HandlerEffects
<1>9. CASE Moved(r, {"claimed"}, "done", 202)
  <2>1. Observe(r) = Returned(SetOutcome(Count(t0, "enqueue", "success"), "success"))
    BY <1>2, <1>3, <1>9 DEF Moved, Observe, ObserveEnqueue
  <2>2. Observe(r) = Done("success", Bump(Bump(counts, "enqueue", "success"), "total", "success"))
    BY <2>1, OpenCounts, OpenGetsOutcome, Completing DEF Returned
  <2> QED BY <1>5, <1>9, <2>2 DEF Open, Done, Record, Enqueued, HandlerEffects
<1>10. CASE Moved(r, {"claimed"}, "releasing", 0)
  <2>1. Observe(r) = SetOutcome(Count(t0, "enqueue", "error"), "error")
    BY <1>2, <1>3, <1>10 DEF Moved, Observe, ObserveEnqueue
  <2>2. Observe(r) = Open("error", Bump(counts, "enqueue", "error"))
    BY <2>1, OpenCounts, OpenGetsOutcome
  <2> QED BY <1>5, <1>10, <2>2 DEF Open, Done, Record, FailsToEnqueue, HandlerEffects
<1>11. CASE Moved(r, {"releasing"}, "done", 503)
  <2>1. Observe(r) = Thrown(t0)
    BY <1>2, <1>3, <1>11 DEF Moved, Observe
  <2>2. Observe(r) = Done("error", Bump(counts, "total", "error"))
    BY <2>1, OpenCounts, Throwing
  <2> QED BY <1>5, <1>11, <2>2 DEF Open, Done, Record, Released, HandlerEffects
<1>12. CASE Moved(r, {"lookup"}, "again", 0)
  <2>1. Observe(r) = t0
    BY <1>2, <1>3, <1>12 DEF Moved, Observe, ObserveLookup
  <2>2. Observe(r) = Open("error", counts)
    BY <2>1, OpenCounts
  <2> QED BY <1>5, <1>12, <2>2 DEF Open, Done, Record, LooksAgain, HandlerEffects
<1>13. CASE Moved(r, {"lookup", "again"}, "done", 202)
  <2>1. Observe(r) = Returned(SetOutcome(Count(t0, "lookup", "resolved"), "duplicate"))
    BY <1>2, <1>3, <1>13 DEF Moved, Observe, ObserveLookup
  <2>2. Observe(r) = Done("duplicate", Bump(Bump(counts, "lookup", "resolved"), "total", "duplicate"))
    BY <2>1, OpenCounts, OpenGetsOutcome, Completing DEF Returned
  <2> QED BY <1>5, <1>13, <2>2 DEF Open, Done, Record, Finds, HandlerEffects
<1>14. CASE Moved(r, {"again"}, "done", 409)
  <2>1. Observe(r) = Thrown(SetOutcome(Count(t0, "lookup", "in_progress"), "duplicate"))
    BY <1>2, <1>3, <1>14 DEF Moved, Observe, ObserveLookup
  <2>2. Observe(r) = Done("error", Bump(Bump(counts, "lookup", "in_progress"), "total", "duplicate"))
    BY <2>1, OpenCounts, OpenGetsOutcome, Throwing
  <2> QED BY <1>5, <1>14, <2>2 DEF Open, Done, Record, FindsNothing, HandlerEffects
<1>15. CASE Moved(r, {"lookup", "again"}, "done", 503)
  <2>1. Observe(r) = Thrown(SetOutcome(Count(t0, "lookup", "error"), "error"))
    BY <1>2, <1>3, <1>15 DEF Moved, Observe, ObserveLookup
  <2>2. Observe(r) = Done("error", Bump(Bump(counts, "lookup", "error"), "total", "error"))
    BY <2>1, OpenCounts, OpenGetsOutcome, Throwing
  <2> QED BY <1>5, <1>15, <2>2 DEF Open, Done, Record, FailsToLookUp, HandlerEffects
<1>16. CASE Moved(r, {"claimed", "releasing", "lookup", "again"}, "dead", 0)
  <2>1. Observe(r) = t0
    BY <1>2, <1>3, <1>16 DEF Moved, Observe
  <2>2. Observe(r) = Open("error", counts)
    BY <2>1, OpenCounts
  <2> QED BY <1>5, <1>16, <2>2 DEF Open, Done, Record, Dies, HandlerEffects
<1> QED BY <1>0, <1>6, <1>7, <1>8, <1>9, <1>10, <1>11, <1>12, <1>13, <1>14, <1>15, <1>16
        DEF HandlerMoves

-----------------------------------------------------------------------------
(***************************************************************************)
(* What the counters look like after an effect.                            *)
(***************************************************************************)
Metrics == {"jwt", "claim", "lookup", "enqueue", "total", "response"}

LEMMA CountersHaveLabels ==
  ASSUME NEW c \in Counters
  PROVE  /\ DOMAIN c = Metrics
         /\ DOMAIN c.jwt = {"success", "error", "missing"}
         /\ DOMAIN c.claim = {"acquired", "already_exists", "error"}
         /\ DOMAIN c.lookup = {"resolved", "in_progress", "error"}
         /\ DOMAIN c.enqueue = {"success", "error"}
         /\ DOMAIN c.total = Outcomes /\ DOMAIN c.response = Outcomes
BY DEF Counters, Metrics, Outcomes

LEMMA BumpIsMore ==
  ASSUME NEW c \in Counters, NEW m \in Metrics, NEW l \in DOMAIN c[m], NEW d, d = Bump(c, m, l)
  PROVE  d \in Counters /\ More(c, d, m, l) /\ \A n \in Metrics \ {m} : d[n] = c[n]
BY DEF Bump, Counters, Metrics, More

LEMMA BumpsAreMore ==
  ASSUME NEW c \in Counters,
         NEW m \in Metrics, NEW l \in DOMAIN c[m],
         NEW n \in Metrics \ {m}, NEW k \in DOMAIN c[n],
         NEW d, d = Bump(Bump(c, m, l), n, k)
  PROVE  /\ d \in Counters
         /\ More(c, d, m, l) /\ More(c, d, n, k)
         /\ \A p \in Metrics \ {m, n} : d[p] = c[p]
<1>1. PICK b : b = Bump(c, m, l)
  OBVIOUS
<1>2. b \in Counters /\ More(c, b, m, l) /\ \A p \in Metrics \ {m} : b[p] = c[p]
  BY <1>1, BumpIsMore
<1>3. d \in Counters /\ More(b, d, n, k) /\ \A p \in Metrics \ {n} : d[p] = b[p]
  BY <1>1, <1>2, BumpIsMore
<1> QED BY <1>2, <1>3 DEF More

\* The counters after the effects, metric by metric.
Same(S) == \A m \in S : SameCounts(m)

Tallied(r) ==
  \/ /\ Acquires(r)
     /\ OneMore("jwt", "success") /\ OneMore("claim", "acquired")
     /\ Same({"lookup", "enqueue", "total", "response"})
  \/ /\ MeetsClaim(r)
     /\ OneMore("jwt", "success") /\ OneMore("claim", "already_exists")
     /\ Same({"lookup", "enqueue", "total", "response"})
  \/ /\ FailsToClaim(r)
     /\ OneMore("jwt", "success") /\ OneMore("claim", "error") /\ OneMore("total", "error")
     /\ Same({"lookup", "enqueue", "response"})
  \/ /\ Enqueued(r)
     /\ OneMore("enqueue", "success") /\ OneMore("total", "success")
     /\ Same({"jwt", "claim", "lookup", "response"})
  \/ /\ FailsToEnqueue(r)
     /\ OneMore("enqueue", "error")
     /\ Same({"jwt", "claim", "lookup", "total", "response"})
  \/ /\ Released(r)
     /\ OneMore("total", "error")
     /\ Same({"jwt", "claim", "lookup", "enqueue", "response"})
  \/ /\ LooksAgain(r) \/ Dies(r)
     /\ counts' = counts
  \/ /\ Finds(r)
     /\ OneMore("lookup", "resolved") /\ OneMore("total", "duplicate")
     /\ Same({"jwt", "claim", "enqueue", "response"})
  \/ /\ FindsNothing(r)
     /\ OneMore("lookup", "in_progress") /\ OneMore("total", "duplicate")
     /\ Same({"jwt", "claim", "enqueue", "response"})
  \/ /\ FailsToLookUp(r)
     /\ OneMore("lookup", "error") /\ OneMore("total", "error")
     /\ Same({"jwt", "claim", "enqueue", "response"})

\* Each effect adds the observations that belong to it.
LEMMA EffectsAreTallied ==
  ASSUME Metered, NEW r \in Requests, HandlerEffects(r)
  PROVE  counts' \in Counters /\ Tallied(r)
<1>0. /\ counts \in Counters
      /\ \A m \in {"jwt"} : "success" \in DOMAIN counts[m]
      /\ \A l \in {"acquired", "already_exists", "error"} : l \in DOMAIN counts["claim"]
      /\ \A l \in {"resolved", "in_progress", "error"} : l \in DOMAIN counts["lookup"]
      /\ \A l \in {"success", "error"} : l \in DOMAIN counts["enqueue"]
      /\ \A l \in Outcomes : l \in DOMAIN counts["total"]
  BY CountersHaveLabels DEF Metered, ObservedTyped
<1>1. ASSUME NEW m \in Metrics, NEW l \in DOMAIN counts[m],
             NEW n \in Metrics \ {m}, NEW k \in DOMAIN counts[n],
             counts' = Bump(Bump(counts, m, l), n, k)
      PROVE  /\ counts' \in Counters
             /\ OneMore(m, l) /\ OneMore(n, k) /\ Same(Metrics \ {m, n})
  BY <1>0, <1>1, BumpsAreMore DEF OneMore, Same, SameCounts
<1>2. ASSUME NEW m \in Metrics, NEW l \in DOMAIN counts[m], counts' = Bump(counts, m, l)
      PROVE  counts' \in Counters /\ OneMore(m, l) /\ Same(Metrics \ {m})
  BY <1>0, <1>2, BumpIsMore DEF OneMore, Same, SameCounts
<1> USE DEF Effect, Past, Metrics, Outcomes
<1>3. CASE Acquires(r)
  BY <1>0, <1>1, <1>3 DEF Acquires, Tallied, Same
<1>4. CASE MeetsClaim(r)
  BY <1>0, <1>1, <1>4 DEF MeetsClaim, Tallied, Same
<1>5. CASE FailsToClaim(r)
  <2>1. PICK b : b = Bump(counts, "jwt", "success")
    OBVIOUS
  <2>2. b \in Counters /\ More(counts, b, "jwt", "success")
        /\ b["claim"] = counts["claim"] /\ \A n \in Metrics \ {"jwt"} : b[n] = counts[n]
    BY <1>0, <2>1, BumpIsMore
  <2>3. counts' = Bump(Bump(b, "claim", "error"), "total", "error")
    BY <1>5, <2>1 DEF FailsToClaim
  <2>4. /\ counts' \in Counters
        /\ More(b, counts', "claim", "error") /\ More(b, counts', "total", "error")
        /\ \A p \in Metrics \ {"claim", "total"} : counts'[p] = b[p]
    <3>1. "error" \in DOMAIN b["claim"] /\ "error" \in DOMAIN b["total"]
      BY <1>0, <2>2
    <3> QED BY <2>2, <2>3, <3>1, BumpsAreMore
  <2>5. /\ OneMore("jwt", "success") /\ OneMore("claim", "error") /\ OneMore("total", "error")
        /\ Same({"lookup", "enqueue", "response"})
    BY <2>2, <2>4 DEF More, OneMore, Same, SameCounts
  <2> QED BY <1>5, <2>4, <2>5 DEF Tallied
<1>6. CASE Enqueued(r)
  BY <1>0, <1>1, <1>6 DEF Enqueued, Tallied, Same
<1>7. CASE FailsToEnqueue(r)
  BY <1>0, <1>2, <1>7 DEF FailsToEnqueue, Tallied, Same
<1>8. CASE Released(r)
  BY <1>0, <1>2, <1>8 DEF Released, Tallied, Same
<1>9. CASE LooksAgain(r) \/ Dies(r)
  BY <1>0, <1>9 DEF LooksAgain, Dies, Tallied
<1>10. CASE Finds(r)
  BY <1>0, <1>1, <1>10 DEF Finds, Tallied, Same
<1>11. CASE FindsNothing(r)
  BY <1>0, <1>1, <1>11 DEF FindsNothing, Tallied, Same
<1>12. CASE FailsToLookUp(r)
  BY <1>0, <1>1, <1>12 DEF FailsToLookUp, Tallied, Same
<1> QED BY <1>3, <1>4, <1>5, <1>6, <1>7, <1>8, <1>9, <1>10, <1>11, <1>12 DEF HandlerEffects

-----------------------------------------------------------------------------
(***************************************************************************)
(* Every step keeps the books.                                             *)
(***************************************************************************)
\* A handler's step goes on without a total, or finishes with exactly one.
LEMMA HandlerContinuesOrFinishes ==
  ASSUME Metered, NEW r \in Requests, Tallied(r), life[r] \in {"away", "open"}
  PROVE  Continues(r) \/ Finished(r)
<1> USE DEF Effect, Moved, Finished, Finishes, Continues, Same
<1>0. /\ answer \in [Requests -> {0, 202, 409, 503}]
      /\ \A q \in Requests : answer[q] # 0 <=> pc[q] = "done"
  BY DEF Metered, TypeOK
<1>1. ASSUME answer' = [answer EXCEPT ![r] = 0], pc[r] # "done"
      PROVE  answer' = answer
  BY <1>0, <1>1
<1>2. CASE Acquires(r) /\ Same({"lookup", "enqueue", "total", "response"})
  BY <1>1, <1>2 DEF Acquires
<1>3. CASE MeetsClaim(r) /\ Same({"lookup", "enqueue", "total", "response"})
  BY <1>1, <1>3 DEF MeetsClaim
<1>4. CASE FailsToEnqueue(r) /\ Same({"jwt", "claim", "lookup", "total", "response"})
  BY <1>1, <1>4 DEF FailsToEnqueue
<1>5. CASE (LooksAgain(r) \/ Dies(r)) /\ counts' = counts
  BY <1>1, <1>5 DEF LooksAgain, Dies, SameCounts
<1>6. CASE FailsToClaim(r) /\ OneMore("total", "error") /\ Same({"lookup", "enqueue", "response"})
  BY <1>0, <1>6 DEF FailsToClaim
<1>7. CASE Enqueued(r) /\ OneMore("total", "success") /\ Same({"jwt", "claim", "lookup", "response"})
  BY <1>0, <1>7 DEF Enqueued
<1>8. CASE Released(r) /\ OneMore("total", "error")
           /\ Same({"jwt", "claim", "lookup", "enqueue", "response"})
  BY <1>0, <1>8 DEF Released
<1>9. CASE Finds(r) /\ OneMore("total", "duplicate") /\ Same({"jwt", "claim", "enqueue", "response"})
  BY <1>0, <1>9 DEF Finds
<1>10. CASE FindsNothing(r) /\ OneMore("total", "duplicate")
            /\ Same({"jwt", "claim", "enqueue", "response"})
  BY <1>0, <1>10 DEF FindsNothing
<1>11. CASE FailsToLookUp(r) /\ OneMore("total", "error")
            /\ Same({"jwt", "claim", "enqueue", "response"})
  BY <1>0, <1>11 DEF FailsToLookUp
<1> QED BY <1>2, <1>3, <1>4, <1>5, <1>6, <1>7, <1>8, <1>9, <1>10, <1>11 DEF Tallied

\* A refused request is counted by the guard and in the total.
\* A completed record is stored as it is.
LEMMA DoneIsStored ==
  ASSUME NEW r, NEW o, NEW c, Store(r, Done(o, c))
  PROVE  timing' = [timing EXCEPT ![r] = [outcome |-> o, timed |-> TRUE]] /\ counts' = c
<1>1. PICK yes : yes = TRUE
  OBVIOUS
<1>2. PICK t : t = [outcome |-> o, timed |-> yes, counts |-> c]
  OBVIOUS
<1>3. t.outcome = o /\ t.timed = yes /\ t.counts = c
  BY <1>2
<1>4. Store(r, t)
  BY <1>1, <1>2 DEF Done, Record
<1> QED BY <1>1, <1>3, <1>4 DEF Store

LEMMA RefusalFinishes ==
  ASSUME Metered, NEW r \in Requests, NEW jwt \in {"missing", "error", "success"}, Refuse(r, jwt)
  PROVE  /\ counts' \in Counters /\ Finished(r)
         /\ OneMore("jwt", jwt) /\ Same({"claim", "lookup", "enqueue"})
         /\ OneMore("total", "error")
<1>1. /\ timing[r] = [outcome |-> "error", timed |-> FALSE]
      /\ counts \in Counters /\ answer[r] = 0
      /\ answer \in [Requests -> {0, 202, 409, 503}]
  BY DEF Refuse, Metered, Phases, ObservedTyped, Timings, TypeOK
<1>2. Timing(r) = Open("error", counts)
  BY <1>1 DEF Timing, Open, Record
<1>3. Count(Timing(r), "jwt", jwt) = Open("error", Bump(counts, "jwt", jwt))
  BY <1>2, OpenCounts
<1>4. SetOutcome(Count(Timing(r), "jwt", jwt), "error") = Open("error", Bump(counts, "jwt", jwt))
  BY <1>3, OpenGetsOutcome
<1>5. Filtered(Count(Timing(r), "jwt", jwt)) =
        Done("error", Bump(Bump(counts, "jwt", jwt), "total", "error"))
  BY <1>4, Completing DEF Filtered, Outcomes
<1>6. /\ timing' = [timing EXCEPT ![r] = [outcome |-> "error", timed |-> TRUE]]
      /\ counts' = Bump(Bump(counts, "jwt", jwt), "total", "error")
  BY <1>5, DoneIsStored DEF Refuse
<1>7. jwt \in DOMAIN counts["jwt"] /\ "error" \in DOMAIN counts["total"]
  BY <1>1, CountersHaveLabels DEF Outcomes
<1>8. /\ counts' \in Counters /\ OneMore("jwt", jwt) /\ OneMore("total", "error")
      /\ \A m \in Metrics \ {"jwt", "total"} : counts'[m] = counts[m]
  BY <1>1, <1>6, <1>7, BumpsAreMore DEF OneMore, Metrics
<1>9. Same({"claim", "lookup", "enqueue"}) /\ SameCounts("response")
  BY <1>8 DEF Same, SameCounts, Metrics
<1>10. answer' = [answer EXCEPT ![r] = 0]
  BY <1>1 DEF Refuse, vars, requests
<1>11. Finishes(r, "error", "error", 0)
  BY <1>1, <1>6, <1>8, <1>9, <1>10 DEF Finishes, Refuse
<1> QED BY <1>8, <1>9, <1>11 DEF Finished

\* onResponse finds the admission complete and counts the response.
LEMMA ResponseCloses ==
  ASSUME Metered, NEW r \in Requests, OnResponse(r)
  PROVE  /\ counts' \in Counters /\ Closes(r)
         /\ Same({"jwt", "claim", "lookup", "enqueue", "total"})
<1>1. /\ timing[r] \in Timings /\ timing[r].timed
      /\ timing \in [Requests -> Timings] /\ counts \in Counters
  BY DEF OnResponse, Metered, Phases, ObservedTyped
<1>2. PICK o \in Outcomes : timing[r] = [outcome |-> o, timed |-> TRUE] /\ timing[r].outcome = o
  BY <1>1 DEF Timings
<1>3. PICK yes : yes = TRUE
  OBVIOUS
<1>4. PICK t : t = Timing(r)
  OBVIOUS
<1>5. t = Record(o, yes, counts)
  BY <1>2, <1>3, <1>4 DEF Timing, Record
<1>6. t.outcome = o /\ t.timed = yes
  BY <1>5, RecordFields
<1>7. CompleteAdmission(t, "error") = t
  BY <1>3, <1>6 DEF CompleteAdmission
<1>8. Count(t, "response", t.outcome) = Record(o, yes, Bump(counts, "response", o))
  BY <1>5, <1>6, RecordCounts
<1>9. Store(r, Record(o, yes, Bump(counts, "response", o)))
  BY <1>4, <1>7, <1>8 DEF OnResponse
<1>10. timing' = timing /\ counts' = Bump(counts, "response", o)
  BY <1>1, <1>2, <1>3, <1>9 DEF Store, Record
<1>11. "response" \in Metrics /\ o \in DOMAIN counts["response"]
  BY <1>1, <1>2, CountersHaveLabels DEF Metrics
<1>12. /\ counts' \in Counters /\ OneMore("response", o)
       /\ \A m \in Metrics \ {"response"} : counts'[m] = counts[m]
  BY <1>1, <1>10, <1>11, BumpIsMore DEF OneMore
<1>13. Same({"jwt", "claim", "lookup", "enqueue", "total"})
  BY <1>12 DEF Same, SameCounts, Metrics
<1> QED BY <1>2, <1>10, <1>12, <1>13 DEF Closes, OnResponse, vars, requests, Same, Metrics

\* The phases, and with them what is finite, survive the three kinds of steps.
LEMMA MeteredIsKept ==
  ASSUME Metered, TypeOK', counts' \in Counters, NEW r \in Requests,
         \A q \in Requests : q # r => pc'[q] = pc[q],
         \/ Continues(r) /\ life[r] \in {"away", "open"} /\ pc'[r] \notin {"start", "done"}
         \/ Finished(r) /\ pc'[r] \in {"start", "done"}
         \/ Closes(r) /\ pc'[r] = pc[r]
  PROVE  Metered'
<1>1. /\ life \in [Requests -> {"away", "open", "answered", "closed"}]
      /\ timing \in [Requests -> Timings]
      /\ answer \in [Requests -> {0, 202, 409, 503}]
  BY DEF Metered, ObservedTyped, TypeOK
<1>2. IsFiniteSet(Received)'
  <2>1. IsFiniteSet(Received \cup {r})
    BY FS_AddElement DEF Metered
  <2>2. Received' \subseteq Received \cup {r}
    BY <1>1 DEF Received, Continues, Finished, Finishes, Closes
  <2> QED BY <2>1, <2>2, SubsetsAreCounted
<1>3. CASE Continues(r) /\ life[r] \in {"away", "open"} /\ pc'[r] \notin {"start", "done"}
  BY <1>1, <1>2, <1>3 DEF Metered, ObservedTyped, Phases, Continues
<1>4. CASE Finished(r) /\ pc'[r] \in {"start", "done"}
  <2>1. PICK outcome \in Outcomes, label \in Outcomes, status \in {0, 202, 409, 503} :
          Finishes(r, outcome, label, status) /\ (status = 409 => outcome = "error")
    BY <1>4 DEF Finished, Outcomes
  <2>2. ObservedTyped'
    BY <1>1, <2>1 DEF ObservedTyped, Finishes, Timings
  <2>3. Phases'
    BY <1>1, <1>4, <2>1 DEF Metered, Phases, Finishes, Timings
  <2> QED BY <1>2, <2>2, <2>3 DEF Metered
<1>5. CASE Closes(r) /\ pc'[r] = pc[r]
  BY <1>1, <1>2, <1>5 DEF Metered, ObservedTyped, Phases, Closes
<1> QED BY <1>3, <1>4, <1>5

-----------------------------------------------------------------------------
(***************************************************************************)
(* The stages.                                                             *)
(***************************************************************************)
Stages(claimed, looking, dead) ==
  /\ counts.total.success = counts.enqueue.success
  /\ counts.total.duplicate = counts.lookup.resolved + counts.lookup.in_progress
  /\ counts.claim.acquired - (Enqueues + claimed) \in 0..dead
  /\ counts.claim.already_exists - (Lookups + looking) \in 0..dead
  /\ Claims <= counts.jwt.success

Claimed == Cardinality(At({"claimed"}))
Looking == Cardinality(At({"lookup", "again"}))
Dead    == Cardinality(At({"dead"}))

\* StagesAddUp, with the requests in each place counted by name.
LEMMA StagesCountPlaces == StagesAddUp <=> Stages(Claimed, Looking, Dead)
BY DEF StagesAddUp, Stages, Claimed, Looking, Dead, At

LEMMA Cancelling ==
  ASSUME NEW m \in Nat, NEW n \in Nat
  PROVE  (m + 1 = n + 0 => m = n - 1) /\ (m + 0 = n + 0 => m = n)
OBVIOUS

\* Whatever a step counts, the place it comes from or goes to accounts for.
LEMMA StagesAfterEffect ==
  ASSUME Metered, Stages(Claimed, Looking, Dead), NEW r \in Requests, Tallied(r), counts' \in Counters
  PROVE  Stages(Claimed, Looking, Dead)'
<1>1. Claimed \in Nat /\ Looking \in Nat /\ Dead \in Nat
  BY PlacesAreCounted DEF Claimed, Looking, Dead
<1>2. ASSUME NEW from, NEW to, NEW status, Moved(r, from, to, status)
      PROVE  /\ pc[r] \in from
             /\ Claimed' + One(pc[r] = "claimed") = Claimed + One(to = "claimed")
             /\ Looking' + One(pc[r] \in {"lookup", "again"}) = Looking + One(to \in {"lookup", "again"})
             /\ Dead' + One(pc[r] = "dead") = Dead + One(to = "dead")
             /\ Claimed' \in Nat /\ Looking' \in Nat /\ Dead' \in Nat
  <2>1. pc' = [pc EXCEPT ![r] = to] /\ pc[r] \in from
    BY <1>2 DEF Moved
  <2>2. Claimed' + One(pc[r] \in {"claimed"}) = Claimed + One(to \in {"claimed"}) /\ Claimed' \in Nat
    BY <2>1, PlacesAfterMove DEF Claimed
  <2>3. Looking' + One(pc[r] \in {"lookup", "again"}) = Looking + One(to \in {"lookup", "again"})
        /\ Looking' \in Nat
    BY <2>1, PlacesAfterMove DEF Looking
  <2>4. Dead' + One(pc[r] \in {"dead"}) = Dead + One(to \in {"dead"}) /\ Dead' \in Nat
    BY <2>1, PlacesAfterMove DEF Dead
  <2> QED BY <2>1, <2>2, <2>3, <2>4 DEF One
<1>3. ASSUME NEW from, from \subseteq {"lookup", "again"}, NEW status, Moved(r, from, "done", status)
       PROVE  Claimed' = Claimed /\ Looking' = Looking - 1 /\ Dead' = Dead
  <2>1. /\ pc[r] \in {"lookup", "again"}
        /\ Claimed' + One(pc[r] = "claimed") = Claimed + One("done" = "claimed")
        /\ Looking' + One(pc[r] \in {"lookup", "again"}) = Looking + One("done" \in {"lookup", "again"})
        /\ Dead' + One(pc[r] = "dead") = Dead + One("done" = "dead")
        /\ Claimed' \in Nat /\ Looking' \in Nat /\ Dead' \in Nat
    BY <1>2, <1>3
  <2>2. /\ One(pc[r] = "claimed") = 0 /\ One("done" = "claimed") = 0
        /\ One(pc[r] \in {"lookup", "again"}) = 1 /\ One("done" \in {"lookup", "again"}) = 0
        /\ One(pc[r] = "dead") = 0 /\ One("done" = "dead") = 0
    BY <2>1 DEF One
  <2>3. Claimed' + 0 = Claimed + 0 /\ Looking' + 1 = Looking + 0 /\ Dead' + 0 = Dead + 0
    BY <2>1, <2>2
  <2>4. Looking' = Looking - 1
    BY <1>1, <2>1, <2>3, Cancelling
  <2>5. Claimed' = Claimed
    BY <1>1, <2>1, <2>3, Cancelling
  <2>6. Dead' = Dead
    BY <1>1, <2>1, <2>3, Cancelling
  <2> QED BY <2>4, <2>5, <2>6
<1>4. counts \in Counters
  BY DEF Metered, ObservedTyped
<1> USE DEF Stages, Claims, Enqueues, Lookups, One, Same, SameCounts, OneMore, More, Counters
<1>5. CASE Acquires(r) /\ OneMore("jwt", "success") /\ OneMore("claim", "acquired")
           /\ Same({"lookup", "enqueue", "total", "response"})
  BY <1>1, <1>2, <1>4, <1>5 DEF Acquires, Effect
<1>6. CASE MeetsClaim(r) /\ OneMore("jwt", "success") /\ OneMore("claim", "already_exists")
           /\ Same({"lookup", "enqueue", "total", "response"})
  BY <1>1, <1>2, <1>4, <1>6 DEF MeetsClaim, Effect
<1>7. CASE FailsToClaim(r) /\ OneMore("jwt", "success") /\ OneMore("claim", "error")
           /\ OneMore("total", "error") /\ Same({"lookup", "enqueue", "response"})
  BY <1>1, <1>2, <1>4, <1>7 DEF FailsToClaim, Effect
<1>8. CASE Enqueued(r) /\ OneMore("enqueue", "success") /\ OneMore("total", "success")
           /\ Same({"jwt", "claim", "lookup", "response"})
  BY <1>1, <1>2, <1>4, <1>8 DEF Enqueued, Effect
<1>9. CASE FailsToEnqueue(r) /\ OneMore("enqueue", "error")
           /\ Same({"jwt", "claim", "lookup", "total", "response"})
  BY <1>1, <1>2, <1>4, <1>9 DEF FailsToEnqueue, Effect
<1>10. CASE Released(r) /\ OneMore("total", "error")
           /\ Same({"jwt", "claim", "lookup", "enqueue", "response"})
  BY <1>1, <1>2, <1>4, <1>10 DEF Released, Effect
<1>11. CASE LooksAgain(r) /\ counts' = counts
  BY <1>1, <1>2, <1>4, <1>11 DEF LooksAgain, Effect
<1>12. CASE Dies(r) /\ counts' = counts
  BY <1>1, <1>2, <1>4, <1>12 DEF Dies, Effect
<1>13. CASE Finds(r) /\ OneMore("lookup", "resolved") /\ OneMore("total", "duplicate")
            /\ Same({"jwt", "claim", "enqueue", "response"})
  <2>1. Claimed' = Claimed /\ Looking' = Looking - 1 /\ Dead' = Dead
    BY <1>3, <1>13 DEF Finds, Effect
  <2> QED BY <1>1, <1>4, <1>13, <2>1
<1>14. CASE FindsNothing(r) /\ OneMore("lookup", "in_progress") /\ OneMore("total", "duplicate")
            /\ Same({"jwt", "claim", "enqueue", "response"})
  <2>1. Claimed' = Claimed /\ Looking' = Looking - 1 /\ Dead' = Dead
    BY <1>3, <1>14 DEF FindsNothing, Effect
  <2> QED BY <1>1, <1>4, <1>14, <2>1
<1>15. CASE FailsToLookUp(r) /\ OneMore("lookup", "error") /\ OneMore("total", "error")
            /\ Same({"jwt", "claim", "enqueue", "response"})
  <2>1. Claimed' = Claimed /\ Looking' = Looking - 1 /\ Dead' = Dead
    BY <1>3, <1>15 DEF FailsToLookUp, Effect
  <2> QED BY <1>1, <1>4, <1>15, <2>1
<1> QED BY <1>5, <1>6, <1>7, <1>8, <1>9, <1>10, <1>11, <1>12, <1>13, <1>14, <1>15 DEF Tallied

\* Refusals and responses leave the handler's stages alone.
LEMMA StagesOutsideHandler ==
  ASSUME Metered, Stages(Claimed, Looking, Dead), counts' \in Counters, UNCHANGED pc,
         Same({"claim", "lookup", "enqueue"}),
         \/ OneMore("total", "error") /\ \E jwt \in {"missing", "error", "success"} : OneMore("jwt", jwt)
         \/ Same({"total", "jwt"})
  PROVE  Stages(Claimed, Looking, Dead)'
<1>1. Claimed' = Claimed /\ Looking' = Looking /\ Dead' = Dead
  BY DEF Claimed, Looking, Dead, At
<1>2. counts \in Counters
  BY DEF Metered, ObservedTyped
<1> QED BY <1>1, <1>2 DEF Stages, Claims, Enqueues, Lookups, Same, SameCounts, OneMore, More, Counters

-----------------------------------------------------------------------------
(***************************************************************************)
(* The invariant.                                                          *)
(***************************************************************************)
\* Metered and Tallies make StagesAddUp inductive and imply TotalsMatchResponses.
Books == Metered /\ Tallies /\ StagesAddUp

LEMMA InitHasBooks == ObservedInit => Books
<1> SUFFICES ASSUME ObservedInit PROVE Books
  OBVIOUS
<1>1. TypeOK
  BY InitIsSafe DEF ObservedInit, SafeAdmission
<1>2. ObservedTyped
  BY DEF ObservedInit, ObservedTyped, Timings, Outcomes, Counters
<1>3. Phases
  BY DEF ObservedInit, Init, Phases
<1>4. Received = {}
  BY DEF ObservedInit, Received
<1>5. Metered
  BY <1>1, <1>2, <1>3, <1>4, FS_EmptySet DEF Metered
<1>6. Tallies
  <2>1. \A o \in Outcomes : Completed(o) = {} /\ Closed(o) = {}
    BY DEF ObservedInit, Completed, Closed
  <2>2. {r \in Requests : answer[r] = 409} = {}
    BY DEF ObservedInit, Init
  <2>3. With(409) = 0 /\ \A o \in Outcomes : Cardinality(Completed(o)) = 0 /\ Cardinality(Closed(o)) = 0
    BY <2>1, <2>2, FS_EmptySet DEF With
  <2>4. /\ counts.total = [success |-> 0, duplicate |-> 0, error |-> 0]
        /\ counts.response = [success |-> 0, duplicate |-> 0, error |-> 0]
    BY DEF ObservedInit
  <2> QED BY <2>3, <2>4 DEF Tallies, Outcomes
<1>7. StagesAddUp
  <2>1. At({"claimed"}) = {} /\ At({"lookup", "again"}) = {} /\ At({"dead"}) = {}
    BY DEF ObservedInit, Init, At
  <2>2. Claimed = 0 /\ Looking = 0 /\ Dead = 0
    BY <2>1, FS_EmptySet DEF Claimed, Looking, Dead
  <2> QED BY <2>2, StagesCountPlaces DEF ObservedInit, Stages, Claims, Enqueues, Lookups
<1> QED BY <1>5, <1>6, <1>7 DEF Books

LEMMA StepKeepsBooks ==
  ASSUME Books, TypeOK', [ObservedNext]_allVars
  PROVE  Books'
<1>0. Metered /\ Tallies /\ Stages(Claimed, Looking, Dead)
  BY StagesCountPlaces DEF Books
<1>1. Stages(Claimed, Looking, Dead)' => StagesAddUp'
  BY StagesCountPlaces, PTL
<1>2. ASSUME NEW r \in Requests, Handle(r) PROVE Books'
  <2>1. HandlerEffects(r) /\ life[r] \in {"away", "open"}
    BY <1>0, <1>2, HandlerStepEffects DEF Handle
  <2>2. counts' \in Counters /\ Tallied(r)
    BY <1>0, <2>1, EffectsAreTallied
  <2>3. Continues(r) \/ Finished(r)
    BY <1>0, <2>1, <2>2, HandlerContinuesOrFinishes
  <2>4. Stages(Claimed, Looking, Dead)'
    BY <1>0, <2>2, StagesAfterEffect
  <2>5. Tallies'
    BY <1>0, <2>1, <2>3, ContinuingKeepsTallies, FinishingKeepsTallies
  <2>6. Metered'
    <3>1. PICK from, to, status : Moved(r, from, to, status)
            /\ life' = [life EXCEPT ![r] = IF to = "done" THEN "answered" ELSE "open"]
            /\ to # "start"
      BY <2>1 DEF HandlerEffects, Effect, Acquires, MeetsClaim, FailsToClaim, Enqueued,
         FailsToEnqueue, Released, LooksAgain, Finds, FindsNothing, FailsToLookUp, Dies
    <3>2. pc'[r] = to /\ \A q \in Requests : q # r => pc'[q] = pc[q]
      BY <1>0, <3>1 DEF Moved, Metered, TypeOK
    <3>3. life'[r] = (IF to = "done" THEN "answered" ELSE "open")
      BY <1>0, <3>1 DEF Metered, ObservedTyped
    <3>4. Continues(r) => life'[r] = "open"
      BY <1>0 DEF Continues, Metered, ObservedTyped
    <3>5. Finished(r) => life'[r] = "answered"
      BY <1>0 DEF Finished, Finishes, Metered, ObservedTyped
    <3> QED BY <1>0, <2>1, <2>2, <2>3, <3>1, <3>2, <3>3, <3>4, <3>5, MeteredIsKept
  <2> QED BY <1>1, <2>4, <2>5, <2>6 DEF Books
<1>3. ASSUME NEW r \in Requests, NEW jwt \in {"missing", "error", "success"}, Refuse(r, jwt)
      PROVE  Books'
  <2>1. /\ counts' \in Counters /\ Finished(r)
        /\ OneMore("jwt", jwt) /\ Same({"claim", "lookup", "enqueue"}) /\ OneMore("total", "error")
    BY <1>0, <1>3, RefusalFinishes
  <2>2. pc' = pc /\ pc[r] = "start"
    BY <1>0, <1>3 DEF Refuse, vars, requests, Metered, Phases
  <2> QED BY <1>0, <1>1, <2>1, <2>2, FinishingKeepsTallies, MeteredIsKept, StagesOutsideHandler DEF Books
<1>4. ASSUME NEW r \in Requests, OnResponse(r) PROVE Books'
  <2>1. counts' \in Counters /\ Closes(r) /\ Same({"jwt", "claim", "lookup", "enqueue", "total"})
    BY <1>0, <1>4, ResponseCloses
  <2>2. pc' = pc
    BY <1>4 DEF OnResponse, vars, requests
  <2>3. Same({"claim", "lookup", "enqueue"}) /\ Same({"total", "jwt"})
    BY <2>1 DEF Same
  <2> QED BY <1>0, <1>1, <2>1, <2>2, <2>3, ClosingKeepsTallies, MeteredIsKept, StagesOutsideHandler
          DEF Books
<1>5. ASSUME UNCHANGED <<observed, requests>> PROVE Books'
  <2>1. UNCHANGED <<life, timing, counts, pc, answer>>
    BY <1>5 DEF observed, requests
  <2>2. Metered'
    BY <1>0, <2>1 DEF Metered, ObservedTyped, Phases, Received
  <2>3. Tallies'
    BY <1>0, <2>1 DEF Tallies, Completed, Closed, With
  <2>4. StagesAddUp'
    BY <2>1 DEF Books, StagesAddUp, Claims, Enqueues, Lookups
  <2> QED BY <2>2, <2>3, <2>4 DEF Books
<1>6. CASE Environment /\ UNCHANGED observed
  BY <1>5, <1>6 DEF Environment, ClaimExpires, DecideOrder, CompleteJob, ExhaustJob, RemoveJob,
     OpsCrashes, requests
<1>7. CASE UNCHANGED allVars
  BY <1>5, <1>7 DEF allVars, vars
<1> QED BY <1>2, <1>3, <1>4, <1>6, <1>7 DEF ObservedNext

LEMMA BooksAreKept == ObservedSpec => []Books
BY InitHasBooks, StepKeepsBooks, AdmissionIsTyped, PTL DEF ObservedSpec

\* Stages account for each other and totals for enqueues and lookups, for any
\* number of requests, whatever fails or dies between two stages.
THEOREM StagesAlwaysAddUp == ObservedSpec => []StagesAddUp
<1>1. Books => StagesAddUp
  BY DEF Books
<1> QED BY <1>1, BooksAreKept, PTL

\* Every request is counted once in the total and once in the response, and the
\* two agree but for the 409s, although three places complete an admission.
THEOREM TotalsAlwaysMatch == ObservedSpec => []TotalsMatchResponses
<1>1. Books => TotalsMatchResponses
  <2> SUFFICES ASSUME Books, \A r \in Requests : life[r] \in {"away", "closed"}
               PROVE  /\ Responses = Cardinality({r \in Requests : life[r] = "closed"})
                      /\ counts.response.success = counts.total.success
                      /\ counts.response.duplicate + With(409) = counts.total.duplicate
                      /\ counts.response.error = counts.total.error + With(409)
    BY DEF TotalsMatchResponses
  <2>1. Metered /\ Tallies
    BY DEF Books
  <2>2. \A o \in Outcomes : Completed(o) = Closed(o)
    BY <2>1 DEF Completed, Closed, Metered, Phases
  <2>3. \A o \in Outcomes : counts.response[o] = Cardinality(Completed(o))
    BY <2>1, <2>2 DEF Tallies
  <2>4. \A o \in Outcomes : IsFiniteSet(Closed(o)) /\ Cardinality(Closed(o)) \in Nat
    BY <2>1, OutcomesAreCounted
  <2>5. Responses = Cardinality({r \in Requests : life[r] = "closed"})
    <3>0. PICK two : two = Closed("success") \cup Closed("duplicate")
      OBVIOUS
    <3>1. {r \in Requests : life[r] = "closed"} = two \cup Closed("error")
      BY <2>1, <3>0 DEF Closed, Metered, ObservedTyped, Timings, Outcomes
    <3>2. Closed("success") \cap Closed("duplicate") = {} /\ two \cap Closed("error") = {}
      BY <3>0 DEF Closed
    <3>3. /\ IsFiniteSet(two)
          /\ Cardinality(two) = Cardinality(Closed("success")) + Cardinality(Closed("duplicate"))
      <4>1. IsFiniteSet(Closed("success")) /\ IsFiniteSet(Closed("duplicate"))
            /\ Cardinality(Closed("success")) \in Nat /\ Cardinality(Closed("duplicate")) \in Nat
        BY <2>4 DEF Outcomes
      <4>2. /\ IsFiniteSet(Closed("success") \cup Closed("duplicate"))
            /\ Cardinality(Closed("success") \cup Closed("duplicate")) =
                 Cardinality(Closed("success")) + Cardinality(Closed("duplicate"))
                 - Cardinality(Closed("success") \cap Closed("duplicate"))
        BY <4>1, FS_Union
      <4>3. Cardinality(Closed("success") \cap Closed("duplicate")) = 0
        BY <3>2, FS_EmptySet
      <4> QED BY <3>0, <4>1, <4>2, <4>3
    <3>4. Cardinality(two \cup Closed("error")) = Cardinality(two) + Cardinality(Closed("error"))
      BY <2>4, <3>2, <3>3, FS_Union, FS_EmptySet DEF Outcomes
    <3> QED BY <2>1, <2>4, <3>1, <3>3, <3>4 DEF Responses, Tallies, Outcomes
  <2> QED BY <2>1, <2>3, <2>5 DEF Tallies, Outcomes
<1> QED BY <1>1, BooksAreKept, PTL

-----------------------------------------------------------------------------
(***************************************************************************)
(* Pairs that are locked out.                                              *)
(***************************************************************************)
\* A claim is held by a request of its own pair.  With it the count of locked out
\* pairs is inductive: only the owner's step can leave a claim without a job.
ClaimsAreOwn == \A p \in Pairs : claim[p] # Nobody => PairOf[claim[p]] = p

Lockouts == ClaimsAreOwn /\ IsFiniteSet(LockedOut) /\ FailedEnqueuesLockNobodyOut

FailsEnqueue(r) == pc[r] = "claimed" /\ pc'[r] = "releasing"

\* A step of the handler counts a failed enqueue exactly when its enqueue fails.
LEMMA EnqueueErrorsAreCounted ==
  ASSUME Metered, NEW r \in Requests, Tallied(r)
  PROVE  counts'.enqueue.error = counts.enqueue.error + One(FailsEnqueue(r))
<1>0. counts.enqueue.error \in Nat /\ "error" \in DOMAIN counts.enqueue
  BY DEF Metered, ObservedTyped, Counters
<1>1. ASSUME NEW from, NEW to, NEW status, Moved(r, from, to, status)
      PROVE  pc[r] \in from /\ pc'[r] = to
  BY <1>1 DEF Moved, Metered, TypeOK
<1>2. CASE FailsToEnqueue(r) /\ OneMore("enqueue", "error")
  BY <1>0, <1>1, <1>2 DEF FailsToEnqueue, Effect, FailsEnqueue, One, OneMore, More
<1>3. CASE Enqueued(r) /\ OneMore("enqueue", "success")
  BY <1>0, <1>1, <1>3 DEF Enqueued, Effect, FailsEnqueue, One, OneMore, More
<1>4. ASSUME counts'.enqueue = counts.enqueue, NEW from, NEW to, NEW status,
             Moved(r, from, to, status), "claimed" \notin from \/ to # "releasing"
      PROVE  counts'.enqueue.error = counts.enqueue.error + One(FailsEnqueue(r))
  BY <1>0, <1>1, <1>4 DEF FailsEnqueue, One
<1>5. CASE /\ \/ Acquires(r) \/ MeetsClaim(r) \/ FailsToClaim(r) \/ Released(r)
              \/ LooksAgain(r) \/ Dies(r) \/ Finds(r) \/ FindsNothing(r) \/ FailsToLookUp(r)
           /\ counts'.enqueue = counts.enqueue
  BY <1>4, <1>5 DEF Effect, Acquires, MeetsClaim, FailsToClaim, Released, LooksAgain,
     Dies, Finds, FindsNothing, FailsToLookUp
<1> QED BY <1>2, <1>3, <1>5 DEF Tallied, Same, SameCounts

\* A step of r touches the pair of r at most, and that one is not locked out when
\* the step is no fault or is a failed enqueue.
LEMMA HandlerLocksOut ==
  ASSUME TypeOK, ClaimsAreOwn, NEW r \in Requests, Admit(r) \/ AdmissionFault(r)
  PROVE  /\ ClaimsAreOwn'
         /\ LockedOut' \subseteq LockedOut \cup {PairOf[r]}
         /\ \/ LockedOut' \subseteq LockedOut /\ faults' = faults + One(FailsEnqueue(r))
            \/ faults' = faults + 1 /\ ~ FailsEnqueue(r)
<1>0. /\ PairOf[r] \in Pairs /\ r # Nobody /\ faults \in Nat
      /\ claim \in [Pairs -> Requests \cup {Nobody}]
      /\ pc \in [Requests -> {"start", "claimed", "releasing", "lookup", "again", "done", "dead"}]
  BY DEF TypeOK
<1>1. PICK to : pc' = [pc EXCEPT ![r] = to]
  BY HandlerStepMoves DEF HandlerMoves, Moved
<1>2. pc'[r] = to /\ \A q \in Requests : q # r => pc'[q] = pc[q]
  BY <1>0, <1>1
<1>3. /\ created \subseteq created'
      /\ SetClaim(r) \/ DropClaim(r) \/ UNCHANGED claim
  BY DEF Admit, AdmissionFault, Acquire, AcquireTwice, AcquireFails, Enqueue, EnqueueFails, AddJob,
     Release, ReleaseFails, Lookup, LookupAgain, LookupFails, RequestDies, queue
<1>4. /\ \A p \in Pairs : p # PairOf[r] => claim'[p] = claim[p]
      /\ claim'[PairOf[r]] \in {claim[PairOf[r]], r, Nobody}
      /\ claim[PairOf[r]] \notin {r, Nobody} => claim'[PairOf[r]] = claim[PairOf[r]]
  BY <1>0, <1>3 DEF SetClaim, DropClaim
<1>5. ClaimsAreOwn'
  BY <1>0, <1>4 DEF ClaimsAreOwn
<1>6. ASSUME NEW p \in Pairs, p \in LockedOut', p # PairOf[r]
      PROVE  p \in LockedOut
  BY <1>0, <1>2, <1>3, <1>4, <1>6 DEF LockedOut, ClaimsAreOwn
<1>7. LockedOut' \subseteq Pairs
  BY DEF LockedOut
<1>8. LockedOut' \subseteq LockedOut \cup {PairOf[r]}
  BY <1>6, <1>7
<1>9. ASSUME PairOf[r] \in LockedOut' => PairOf[r] \in LockedOut
      PROVE  LockedOut' \subseteq LockedOut
  BY <1>8, <1>9
<1>10. ASSUME Fault, ~ FailsEnqueue(r)
       PROVE  faults' = faults + 1 /\ ~ FailsEnqueue(r)
  BY <1>10 DEF Fault
<1>11. CASE AcquireTwice(r) \/ AcquireFails(r) \/ ReleaseFails(r) \/ LookupFails(r)
  <2>1. Fault /\ pc[r] # "claimed"
    BY <1>11 DEF AcquireTwice, AcquireFails, ReleaseFails, LookupFails
  <2> QED BY <1>5, <1>8, <1>10, <2>1 DEF FailsEnqueue
<1>12. CASE RequestDies(r)
  <2>1. Fault /\ pc'[r] = "dead"
    BY <1>0, <1>12 DEF RequestDies, Goto
  <2> QED BY <1>5, <1>8, <1>10, <2>1 DEF FailsEnqueue
<1>13. ASSUME UNCHANGED faults, ~ FailsEnqueue(r)
       PROVE  faults' = faults + One(FailsEnqueue(r))
  BY <1>0, <1>13 DEF One
<1>14. CASE Acquire(r)
  <2>1. /\ pc[r] = "start" /\ UNCHANGED <<created, faults>> /\ SetClaim(r)
        /\ to = IF claim[PairOf[r]] = Nobody THEN "claimed" ELSE "lookup"
    BY <1>0, <1>2, <1>14 DEF Acquire, Goto, queue
  <2>2. CASE claim[PairOf[r]] = Nobody
    <3>1. claim'[PairOf[r]] = r
      BY <1>0, <2>1, <2>2 DEF SetClaim
    <3>2. PairOf[r] \notin LockedOut'
      BY <1>2, <2>1, <2>2, <3>1 DEF LockedOut
    <3> QED BY <1>5, <1>8, <1>9, <1>13, <2>1, <3>2 DEF FailsEnqueue
  <2>3. CASE claim[PairOf[r]] # Nobody
    <3>1. claim'[PairOf[r]] = claim[PairOf[r]]
      BY <1>0, <2>1, <2>3 DEF SetClaim
    <3>2. PairOf[r] \in LockedOut' => PairOf[r] \in LockedOut
      BY <1>0, <1>2, <2>1, <2>3, <3>1 DEF LockedOut
    <3> QED BY <1>5, <1>8, <1>9, <1>13, <2>1, <3>2 DEF FailsEnqueue
  <2> QED BY <2>2, <2>3
<1>15. CASE Enqueue(r)
  <2>1. PairOf[r] \in created' /\ UNCHANGED faults /\ to = "done"
    BY <1>0, <1>2, <1>15 DEF Enqueue, AddJob, Respond
  <2>2. PairOf[r] \notin LockedOut'
    BY <2>1 DEF LockedOut
  <2> QED BY <1>2, <1>5, <1>8, <1>9, <1>13, <2>1, <2>2 DEF FailsEnqueue
<1>16. CASE EnqueueFails(r)
  <2>1. pc[r] = "claimed" /\ Fault /\ UNCHANGED claim /\ to = "releasing"
    BY <1>0, <1>2, <1>16 DEF EnqueueFails, Goto
  <2>2. PairOf[r] \in LockedOut' => PairOf[r] \in LockedOut
    BY <1>0, <1>2, <1>3, <2>1 DEF LockedOut
  <2>3. faults' = faults + One(FailsEnqueue(r))
    BY <1>2, <2>1 DEF Fault, FailsEnqueue, One
  <2> QED BY <1>5, <1>8, <1>9, <2>2, <2>3
<1>17. CASE Release(r)
  <2>1. pc[r] = "releasing" /\ DropClaim(r) /\ UNCHANGED <<created, faults>> /\ to = "done"
    BY <1>0, <1>2, <1>17 DEF Release, Respond, queue
  <2>2. claim'[PairOf[r]] # r /\ claim'[PairOf[r]] \in {claim[PairOf[r]], Nobody}
    BY <1>0, <2>1 DEF DropClaim
  <2>3. PairOf[r] \in LockedOut' => PairOf[r] \in LockedOut
    BY <1>0, <1>2, <2>1, <2>2 DEF LockedOut
  <2> QED BY <1>5, <1>8, <1>9, <1>13, <2>1, <2>3 DEF FailsEnqueue
<1>18. CASE Lookup(r) \/ LookupAgain(r)
  <2>1. pc[r] \in {"lookup", "again"} /\ UNCHANGED <<claim, created, faults>>
    BY <1>18 DEF Lookup, LookupAgain, queue
  <2>2. PairOf[r] \in LockedOut' => PairOf[r] \in LockedOut
    BY <1>0, <1>2, <2>1 DEF LockedOut
  <2> QED BY <1>5, <1>8, <1>9, <1>13, <2>1, <2>2 DEF FailsEnqueue
<1> QED BY <1>11, <1>12, <1>14, <1>15, <1>16, <1>17, <1>18 DEF Admit, AdmissionFault

\* Losses and expirations free pairs, and no job that was created is forgotten.
LEMMA EnvironmentLocksNobodyOut ==
  ASSUME TypeOK, ClaimsAreOwn, Environment \/ UNCHANGED vars
  PROVE  ClaimsAreOwn' /\ LockedOut' \subseteq LockedOut /\ faults' \in {faults, faults + 1}
<1>1. /\ UNCHANGED <<pc, created>>
      /\ \A p \in Pairs : claim'[p] \in {claim[p], Nobody}
      /\ faults' \in {faults, faults + 1}
  BY DEF Environment, ClaimExpires, DecideOrder, CompleteJob, ExhaustJob, RemoveJob, OpsCrashes,
     Fault, TypeOK, vars, queue, requests
<1> QED BY <1>1 DEF ClaimsAreOwn, LockedOut

LEMMA FewerAreCounted ==
  ASSUME NEW S, IsFiniteSet(S), NEW T, T \subseteq S
  PROVE  /\ IsFiniteSet(T) /\ Cardinality(T) \in Nat /\ Cardinality(S) \in Nat
         /\ Cardinality(T) <= Cardinality(S)
BY FS_Subset, FS_CardinalityType

LEMMA OneMoreIsCounted ==
  ASSUME NEW S, IsFiniteSet(S), NEW x, NEW T, T \subseteq S \cup {x}
  PROVE  /\ IsFiniteSet(T) /\ Cardinality(T) \in Nat /\ Cardinality(S) \in Nat
         /\ Cardinality(T) <= Cardinality(S) + 1
<1>0. Cardinality(S) \in Nat
  BY FS_CardinalityType
<1>1. IsFiniteSet(S \cup {x}) /\ Cardinality(S \cup {x}) <= Cardinality(S) + 1
  <2>1. CASE x \in S
    <3>1. S \cup {x} = S
      BY <2>1
    <3> QED BY <1>0, <3>1
  <2>2. CASE x \notin S
    BY <1>0, <2>2, CountGrows
  <2> QED BY <2>1, <2>2
<1>2. Cardinality(S) \in Nat /\ Cardinality(S \cup {x}) \in Nat
  BY <1>1, FS_CardinalityType
<1> QED BY <1>1, <1>2, FewerAreCounted

LEMMA StepKeepsLockouts ==
  ASSUME Books, Lockouts, TypeOK', [ObservedNext]_allVars
  PROVE  Lockouts'
<1>0. Metered /\ TypeOK /\ faults \in Nat /\ counts.enqueue.error \in Nat /\ ClaimsAreOwn
      /\ IsFiniteSet(LockedOut)
  BY DEF Books, Lockouts, Metered, TypeOK, ObservedTyped, Counters
<1>1. Cardinality(LockedOut) + counts.enqueue.error <= faults
  BY DEF Lockouts, FailedEnqueuesLockNobodyOut
<1>2. ASSUME ClaimsAreOwn', LockedOut' \subseteq LockedOut, faults' \in {faults, faults + 1},
             counts'.enqueue = counts.enqueue
      PROVE  Lockouts'
  <2>1. /\ IsFiniteSet(LockedOut') /\ Cardinality(LockedOut') \in Nat
        /\ Cardinality(LockedOut) \in Nat /\ Cardinality(LockedOut') <= Cardinality(LockedOut)
    BY <1>0, <1>2, FewerAreCounted
  <2>2. Cardinality(LockedOut') + counts'.enqueue.error <= faults'
    BY <1>0, <1>1, <1>2, <2>1
  <2> QED BY <1>2, <2>1, <2>2 DEF Lockouts, FailedEnqueuesLockNobodyOut
<1>3. ASSUME NEW r \in Requests, Handle(r) PROVE Lockouts'
  <2>1. Tallied(r)
    BY <1>0, <1>3, HandlerStepEffects, EffectsAreTallied
  <2>2. counts'.enqueue.error = counts.enqueue.error + One(FailsEnqueue(r))
    BY <1>0, <2>1, EnqueueErrorsAreCounted
  <2>3. /\ ClaimsAreOwn'
        /\ LockedOut' \subseteq LockedOut \cup {PairOf[r]}
        /\ \/ LockedOut' \subseteq LockedOut /\ faults' = faults + One(FailsEnqueue(r))
           \/ faults' = faults + 1 /\ ~ FailsEnqueue(r)
    BY <1>0, <1>3, HandlerLocksOut DEF Handle
  <2>4. CASE LockedOut' \subseteq LockedOut /\ faults' = faults + One(FailsEnqueue(r))
    <3>1. /\ IsFiniteSet(LockedOut') /\ Cardinality(LockedOut') \in Nat
          /\ Cardinality(LockedOut) \in Nat /\ Cardinality(LockedOut') <= Cardinality(LockedOut)
      BY <1>0, <2>4, FewerAreCounted
    <3>2. Cardinality(LockedOut') + counts'.enqueue.error <= faults'
      BY <1>0, <1>1, <2>2, <2>4, <3>1 DEF One
    <3> QED BY <2>3, <3>1, <3>2 DEF Lockouts, FailedEnqueuesLockNobodyOut
  <2>5. CASE faults' = faults + 1 /\ ~ FailsEnqueue(r)
    <3>1. /\ IsFiniteSet(LockedOut') /\ Cardinality(LockedOut') \in Nat
          /\ Cardinality(LockedOut) \in Nat /\ Cardinality(LockedOut') <= Cardinality(LockedOut) + 1
      BY <1>0, <2>3, OneMoreIsCounted
    <3>2. Cardinality(LockedOut') + counts'.enqueue.error <= faults'
      BY <1>0, <1>1, <2>2, <2>5, <3>1 DEF One
    <3> QED BY <2>3, <3>1, <3>2 DEF Lockouts, FailedEnqueuesLockNobodyOut
  <2> QED BY <2>3, <2>4, <2>5
<1>4. CASE Environment /\ UNCHANGED observed
  BY <1>0, <1>2, <1>4, EnvironmentLocksNobodyOut DEF observed
<1>5. ASSUME UNCHANGED vars, counts'.enqueue = counts.enqueue PROVE Lockouts'
  BY <1>0, <1>2, <1>5, EnvironmentLocksNobodyOut
<1>6. ASSUME NEW r \in Requests, NEW jwt \in {"missing", "error", "success"}, Refuse(r, jwt)
      PROVE  Lockouts'
  BY <1>0, <1>5, <1>6, RefusalFinishes DEF Refuse, Same, SameCounts
<1>7. ASSUME NEW r \in Requests, OnResponse(r) PROVE Lockouts'
  BY <1>0, <1>5, <1>7, ResponseCloses DEF OnResponse, Same, SameCounts
<1>8. CASE UNCHANGED allVars
  BY <1>5, <1>8 DEF allVars, observed
<1> QED BY <1>3, <1>4, <1>6, <1>7, <1>8 DEF ObservedNext

\* A failed enqueue locks no pair out: those whose claim outlives its request
\* without a job never outnumber the faults of the other kinds, for any number of
\* requests and pairs, whatever expires or is lost in between.
THEOREM FailedEnqueuesNeverLockOut == ObservedSpec => []FailedEnqueuesLockNobodyOut
<1>1. ObservedInit => Lockouts
  <2> SUFFICES ASSUME ObservedInit PROVE Lockouts
    OBVIOUS
  <2>1. claim = [p \in Pairs |-> Nobody] /\ faults = 0 /\ counts.enqueue.error = 0
    BY DEF ObservedInit, Init
  <2>2. LockedOut = {} /\ ClaimsAreOwn
    BY <2>1 DEF LockedOut, ClaimsAreOwn
  <2>3. IsFiniteSet(LockedOut) /\ Cardinality(LockedOut) = 0
    BY <2>2, FS_EmptySet
  <2> QED BY <2>1, <2>2, <2>3 DEF Lockouts, FailedEnqueuesLockNobodyOut
<1>2. Lockouts => FailedEnqueuesLockNobodyOut
  BY DEF Lockouts
<1> QED BY <1>1, <1>2, StepKeepsLockouts, BooksAreKept, AdmissionIsTyped, PTL DEF ObservedSpec
=============================================================================

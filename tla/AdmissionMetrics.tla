--------------------------- MODULE AdmissionMetrics ---------------------------
(***************************************************************************)
(* A POST /orders from its arrival to onResponse, as the API counts it: a  *)
(* timing record per request and the labelled counters of ApiMetricsService*)
(* (a histogram is its number of observations).  OrderAdmission is the     *)
(* handler inside; the guard, the validation pipe, the controller's try    *)
(* block, the exception filter and the Fastify hooks are around it.        *)
(*                                                                         *)
(* What runs between two awaits is one step: the service's last await up   *)
(* to the controller and, after a throw, the filter.  The arrival and the  *)
(* guard touch nothing another request sees; they are joined to the first  *)
(* step of the handler.                                                    *)
(***************************************************************************)
EXTENDS OrderAdmission, FiniteSets

VARIABLES
  life,     \* of each request: away, open, answered (its response is sent), closed
  timing,   \* OrderAdmissionTiming: outcome, and whether totalMs is set
  counts    \* observations per metric and label

observed == <<life, timing, counts>>
allVars  == <<vars, observed>>

ObservedInit ==
  /\ Init
  /\ life = [r \in Requests |-> "away"]
  /\ timing = [r \in Requests |-> [outcome |-> "error", timed |-> FALSE]]
  /\ counts = [jwt      |-> [success |-> 0, error |-> 0, missing |-> 0],
               claim    |-> [acquired |-> 0, already_exists |-> 0, error |-> 0],
               lookup   |-> [resolved |-> 0, in_progress |-> 0, error |-> 0],
               enqueue  |-> [success |-> 0, error |-> 0],
               total    |-> [success |-> 0, duplicate |-> 0, error |-> 0],
               response |-> [success |-> 0, duplicate |-> 0, error |-> 0]]

-----------------------------------------------------------------------------
(***************************************************************************)
(* OrderAdmissionObservabilityService.  t is a timing with the counters.   *)
(***************************************************************************)
Timing(r) == [outcome |-> timing[r].outcome, timed |-> timing[r].timed, counts |-> counts]

Count(t, metric, label) == [t EXCEPT !.counts[metric][label] = @ + 1]

SetOutcome(t, outcome) == [t EXCEPT !.outcome = outcome]

CompleteEveryTime(t, fallback) ==   \* mutant: totalMs is not looked at
  LET outcome == IF t.outcome = "error" THEN fallback ELSE t.outcome
  IN  Count([t EXCEPT !.outcome = outcome, !.timed = TRUE], "total", outcome)
CompleteAdmission(t, fallback) ==
  LET outcome == IF t.outcome = "error" THEN fallback ELSE t.outcome
  IN  IF t.timed THEN t
      ELSE Count([t EXCEPT !.outcome = outcome, !.timed = TRUE], "total", outcome)

\* ApiExceptionFilter.catch
Filtered(t) == CompleteAdmission(SetOutcome(t, "error"), "error")

\* The controller's try block around a return and around a throw.
Returned(t) == CompleteAdmission(t, "error")
Thrown(t)   == Filtered(CompleteAdmission(t, "error"))

Store(r, t) ==
  /\ timing' = [timing EXCEPT ![r] = [outcome |-> t.outcome, timed |-> t.timed]]
  /\ counts' = t.counts

-----------------------------------------------------------------------------
\* The guard finds no token or a bad one (401), or the pipe refuses the body of
\* an authenticated request (400): the filter answers.
Refuse(r, jwt) ==
  /\ life[r] = "away"
  /\ life' = [life EXCEPT ![r] = "answered"]
  /\ Store(r, Filtered(Count(Timing(r), "jwt", jwt)))
  /\ UNCHANGED vars

(***************************************************************************)
(* A step of the handler and what is observed in it.                       *)
(***************************************************************************)
Verified(r) == Count(Timing(r), "jwt", "success")

ObserveClaim(r) ==
  CASE pc'[r] = "claimed" -> Count(Verified(r), "claim", "acquired")
    [] pc'[r] = "lookup"  -> Count(Verified(r), "claim", "already_exists")
    [] pc'[r] = "done"    -> Thrown(SetOutcome(Count(Verified(r), "claim", "error"), "error"))

ObserveEnqueue(r) ==
  CASE pc'[r] = "done"      -> Returned(SetOutcome(Count(Timing(r), "enqueue", "success"), "success"))
    [] pc'[r] = "releasing" -> SetOutcome(Count(Timing(r), "enqueue", "error"), "error")

ObserveLookupAsSuccess(r) ==   \* mutant: a repeated request is recorded like a first one
  CASE pc'[r] = "again"  -> Timing(r)
    [] answer'[r] = 202  -> Returned(SetOutcome(Count(Timing(r), "lookup", "resolved"), "success"))
    [] answer'[r] = 409  -> Thrown(SetOutcome(Count(Timing(r), "lookup", "in_progress"), "duplicate"))
    [] answer'[r] = 503  -> Thrown(SetOutcome(Count(Timing(r), "lookup", "error"), "error"))
ObserveLookup(r) ==
  CASE pc'[r] = "again"  -> Timing(r)
    [] answer'[r] = 202  -> Returned(SetOutcome(Count(Timing(r), "lookup", "resolved"), "duplicate"))
    [] answer'[r] = 409  -> Thrown(SetOutcome(Count(Timing(r), "lookup", "in_progress"), "duplicate"))
    [] answer'[r] = 503  -> Thrown(SetOutcome(Count(Timing(r), "lookup", "error"), "error"))

Observe(r) ==
  CASE pc'[r] = "dead"                         -> Timing(r)
    [] pc'[r] # "dead" /\ pc[r] = "start"      -> ObserveClaim(r)
    [] pc'[r] # "dead" /\ pc[r] = "claimed"    -> ObserveEnqueue(r)
    [] pc'[r] # "dead" /\ pc[r] = "releasing"  -> Thrown(Timing(r))
    [] OTHER                                   -> ObserveLookup(r)

Handle(r) ==
  /\ life[r] = IF pc[r] = "start" THEN "away" ELSE "open"
  /\ Admit(r) \/ AdmissionFault(r)
  /\ life' = [life EXCEPT ![r] = IF pc'[r] = "done" THEN "answered" ELSE "open"]
  /\ Store(r, Observe(r))

\* onResponse: completeResponse of a request whose admission is complete.
OnResponse(r) ==
  LET t == CompleteAdmission(Timing(r), "error")
  IN  /\ life[r] = "answered"
      /\ life' = [life EXCEPT ![r] = "closed"]
      /\ Store(r, Count(t, "response", t.outcome))
      /\ UNCHANGED vars

ObservedNext ==
  \/ \E r \in Requests :
       \/ Handle(r) \/ OnResponse(r)
       \/ \E jwt \in {"missing", "error", "success"} : Refuse(r, jwt)
  \/ Environment /\ UNCHANGED observed

ObservedSpec == ObservedInit /\ [][ObservedNext]_allVars

FairObservedSpec == ObservedSpec /\ Fairness

-----------------------------------------------------------------------------
Claims    == counts.claim.acquired + counts.claim.already_exists + counts.claim.error
Lookups   == counts.lookup.resolved + counts.lookup.in_progress + counts.lookup.error
Enqueues  == counts.enqueue.success + counts.enqueue.error
Responses == counts.response.success + counts.response.duplicate + counts.response.error

With(status) == Cardinality({r \in Requests : answer[r] = status})

\* The stages account for each other: who passed the guard and the pipe made one
\* claim, who won it one enqueue, who lost it one lookup, except those on the way
\* or dead in mid-call; and the totals tell first from repeated requests: every
\* success is an enqueue, every duplicate a lookup that failed or not.
StagesAddUp ==
  LET at(S) == Cardinality({r \in Requests : pc[r] \in S})
      dead  == at({"dead"})
  IN  /\ counts.total.success = counts.enqueue.success
      /\ counts.total.duplicate =
           counts.lookup.resolved + counts.lookup.in_progress
      /\ counts.claim.acquired - (Enqueues + at({"claimed"})) \in 0..dead
      /\ counts.claim.already_exists - (Lookups + at({"lookup", "again"})) \in 0..dead
      /\ Claims <= counts.jwt.success

\* A pair is locked out while its claim is set, its job was never created, and the
\* claim's owner will neither create it nor give the claim back any more.
LockedOut ==
  {p \in Pairs : /\ claim[p] # Nobody /\ p \notin created
                 /\ pc[claim[p]] \notin {"claimed", "releasing"}}

\* A failed enqueue alone locks nobody out until the claim expires: every pair that
\* is locked out has cost a fault of another kind (its SET failed or was sent twice,
\* its release failed, its process died), however requests of the pair overlap and
\* claims expire, and no fault has locked out two pairs.
FailedEnqueuesLockNobodyOut ==
  Cardinality(LockedOut) + counts.enqueue.error <= faults

\* Although the controller, the filter and onResponse all complete an admission,
\* every request is counted once in the total and once in the response.  When all
\* responses are sent the two tell the same story but for the 409s: the filter
\* turns their outcome into an error after the total has recorded a duplicate.
TotalsMatchResponses ==
  (\A r \in Requests : life[r] \in {"away", "closed"}) =>
    /\ Responses = Cardinality({r \in Requests : life[r] = "closed"})
    /\ counts.response.success = counts.total.success
    /\ counts.response.duplicate + With(409) = counts.total.duplicate
    /\ counts.response.error = counts.total.error + With(409)
=============================================================================

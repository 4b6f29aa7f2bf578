\* Repeated requests against expiring claims, failures and queue losses.
SPECIFICATION FairObservedSpec
CONSTANTS
  r1 = r1  r2 = r2  r3 = r3  p1 = p1
  Nobody = Nobody
  Requests = {r1, r2, r3}
  Pairs = {p1}
  PairOf <- AllForOnePair
  MaxFaults = 3
  OpsForgets = TRUE
INVARIANTS
  TypeOK
  AcceptedWasCreated
  StagesAddUp
  TotalsMatchResponses
  FailedEnqueuesLockNobodyOut
PROPERTIES
  OnlyOwnerReleases
  EveryAdmissionAnswered
\* Once every request is answered nothing is left to do.
CHECK_DEADLOCK FALSE

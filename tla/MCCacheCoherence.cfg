\* Safety: fills against invalidations, with faults.
SPECIFICATION Spec
CONSTANTS
  r1 = r1  r2 = r2  r3 = r3  l1 = l1  l2 = l2
  Nobody = Nobody
  NoAnswer = NoAnswer  DbError = DbError  CacheError = CacheError
  Requests = {r1, r2}
  Relays = {l1, l2}
  MaxWrites = 2
  MaxFaults = 2
  MaxEpoch = 6
  RelayBatchSize = 2
  FollowerAttempts = 2
  CacheForgets = FALSE
SYMMETRY Symmetry
INVARIANTS
  TypeOK
  CurrentPageIsCurrent
  ReadsSeePublished
PROPERTIES
  OnlyOwnerReleasesFill
\* Once every request is answered and every row published, nothing is left to do.
CHECK_DEADLOCK FALSE

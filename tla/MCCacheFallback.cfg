\* The claim that a cache failure falls back to PostgreSQL.
SPECIFICATION Spec
CONSTANTS
  r1 = r1  r2 = r2  r3 = r3  l1 = l1  l2 = l2
  Nobody = Nobody
  NoAnswer = NoAnswer  DbError = DbError  CacheError = CacheError
  Requests = {r1, r2}
  Relays = {l1}
  MaxWrites = 1
  MaxFaults = 1
  MaxEpoch = 4
  RelayBatchSize = 2
  FollowerAttempts = 2
  CacheForgets = FALSE
INVARIANTS
  CacheFailureFallsBack
\* Once every request is answered and every row published, nothing is left to do.
CHECK_DEADLOCK FALSE

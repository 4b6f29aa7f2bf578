\* Progress: relays retry, followers give up waiting, also when the cache loses its epoch.
SPECIFICATION FairSpec
CONSTANTS
  r1 = r1  r2 = r2  r3 = r3  l1 = l1  l2 = l2
  Nobody = Nobody
  NoAnswer = NoAnswer  DbError = DbError  CacheError = CacheError
  Requests = {r1, r2}
  Relays = {l1}
  MaxWrites = 1
  MaxFaults = 2
  MaxEpoch = 3
  RelayBatchSize = 2
  FollowerAttempts = 2
  CacheForgets = TRUE
PROPERTIES
  EveryChangeIsPublished
  EveryReadAnswered
\* Once every request is answered and every row published, nothing is left to do.
CHECK_DEADLOCK FALSE

\* Calls, seeds, upgrades and rollbacks in any order.
SPECIFICATION Spec
CONSTANTS
  j1 = j1  j2 = j2  j3 = j3  j4 = j4  k1 = k1  jX = jX
  Jobs <- MCJobs
  Products <- MCProducts
  JobUser <- MCJobUser
  JobProduct <- MCJobProduct
  InitialStock <- MCStock
  MaxBatch = 3
  JobRank <- MCJobRank
  Batches <- MCBatches
  FlagSettings <- MCFlags
INVARIANTS
  SameSalesInEveryVersion
  KnownJobsAreAnswered
PROPERTIES
  ImplementsFlashSale

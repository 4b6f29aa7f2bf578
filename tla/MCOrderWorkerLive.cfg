\* Progress: two jobs, one of an unknown product, batches of one.
SPECIFICATION FairSpec
CONSTANTS
  j1 = j1  j2 = j2  j3 = j3
  Jobs = {j1, j2}
  UnknownJobs = {j2}
  BatchSize = 1
  Concurrency = 2
  Attempts = 3
  MaxFaults = 2
PROPERTIES
  EveryJobEnds
  ShutdownEnds
\* Once every job has ended and the process is up, nothing is left to do.
CHECK_DEADLOCK FALSE

\* The claim that only infrastructure exceptions make a job fail.
SPECIFICATION Spec
CONSTANTS
  j1 = j1  j2 = j2  j3 = j3
  Jobs = {j1, j2}
  UnknownJobs = {j2}
  BatchSize = 2
  Concurrency = 2
  Attempts = 3
  MaxFaults = 1
INVARIANTS
  FailedMeansInfrastructure
\* Once every job has ended and the process is up, nothing is left to do.
CHECK_DEADLOCK FALSE

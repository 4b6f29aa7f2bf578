\* Safety: redeliveries in one batch and overflowing it, failures, shutdowns.
SPECIFICATION Spec
CONSTANTS
  j1 = j1  j2 = j2  j3 = j3
  Jobs = {j1, j2, j3}
  UnknownJobs = {}
  BatchSize = 3
  Concurrency = 4
  Attempts = 3
  MaxFaults = 2
SYMMETRY Symmetry
INVARIANTS
  TypeOK
  NoLostWakeup
  CompletedAsDecided
  OneFaultIsSurvived
\* Once every job has ended and the process is up, nothing is left to do.
CHECK_DEADLOCK FALSE

\* From any leftovers through the reset and a load to its evidence, with up to two faults.
SPECIFICATION Spec
CONSTANTS
  Users <- MCUsers
  Stock = 1
  MaxFaults = 2
  Scripts = {"mixed", "write", "duplicate"}
  ReadVus = 1
  WriteVus = 2
  Requests = 2
CONSTRAINT
  LoadsWorthFollowing
INVARIANTS
  ResetLeavesServiceRunning
  EvidenceIsSound
  HealthyRunIsValid
\* A benchmark ends with its evidence.
CHECK_DEADLOCK FALSE

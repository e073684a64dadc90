SPECIFICATION Spec
CONSTANTS
  j1 = j1
  w1 = w1
  w2 = w2
  c1 = c1
  c2 = c2
  NoJob = NoJob
  Jobs <- MCJobs
  Workers <- TwoWorkers
  Clients <- TwoClients
  Ops = {"cancel", "delete"}
  Modes = {"run", "batch"}
  MaxAttempts = 2
  MaxOps = 1
  MaxProgress = 0
  MaxCrashes = 1
INVARIANTS
  TypeOK
  LeaseInv
  ExclusiveExecution
  NoOrphan
  AttemptsBounded
  DeadLetterExhausted
PROPERTIES
  SettledStays
  LeaseSpec
CHECK_DEADLOCK FALSE

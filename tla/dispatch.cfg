SPECIFICATION DispatchLiveSpec
CONSTANTS
  j1 = j1
  w1 = w1
  w2 = w2
  c1 = c1
  c2 = c2
  NoJob = NoJob
  NoThread = NoThread
  Jobs <- MCJobs
  Workers <- TwoWorkers
  Clients <- TwoClients
  Ops = {"cancel", "retry", "delete"}
  Modes = {"run"}
  MaxAttempts = 2
  MaxOps = 1
  MaxProgress = 1
  MaxCrashes = 0
CHECK_DEADLOCK FALSE
INVARIANTS
  OneThreadPerJob
  ExclusiveExecution
PROPERTIES
  UnretriedJobRuns

SPECIFICATION LiveSpec
CONSTANTS
  j1 = j1
  w1 = w1
  w2 = w2
  c1 = c1
  c2 = c2
  NoJob = NoJob
  Jobs <- MCJobs
  Workers <- OneWorker
  Clients <- TwoClients
  Ops = {"cancel", "retry", "delete"}
  Modes = {"run", "batch"}
  MaxAttempts = 2
  MaxOps = 1
  MaxProgress = 1
  MaxCrashes = 0
PROPERTIES
  CallsReturn
  RunSettles
CHECK_DEADLOCK FALSE

SPECIFICATION Spec
CONSTANTS
  j1 = j1
  w1 = w1
  w2 = w2
  c1 = c1
  c2 = c2
  NoJob = NoJob
  Jobs <- MCJobs
  Workers <- OneWorker
  Clients <- TwoClients
  Ops = {"cancel"}
  Modes = {"run"}
  MaxAttempts = 1
  MaxOps = 1
  MaxProgress = 0
  MaxCrashes = 0
PROPERTIES
  SettledNeverCancelled
CHECK_DEADLOCK FALSE

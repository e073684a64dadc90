SPECIFICATION Spec
CONSTANTS
  p1 = p1
  s1 = s1
  a = a
  b = b
  j1 = j1
  j2 = j2
  j3 = j3
  c1 = c1
  c2 = c2
  None = None
  Places <- OnePlace
  Profile <- OwnProfile
  Sources <- OneSource
  Contents <- TwoContents
  Chunked = {}
  Jobs <- TwoJobs
  Clients <- OneClient
  Permits = 1
  MaxAttempts = 1
  Faults = {"vector"}
  MaxFaults = 0
  MaxCancels = 1
  MaxDeletes = 0
  MaxRestarts = 0
INVARIANTS
  IsLatest
CHECK_DEADLOCK FALSE

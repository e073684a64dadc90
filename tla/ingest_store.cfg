SPECIFICATION Spec
CONSTANTS
  p1 = p1
  s1 = s1
  a = a
  b = b
  j1 = j1
  j2 = j2
  j3 = j3
  c1 = c1
  c2 = c2
  None = None
  Places <- OnePlace
  Profile <- OwnProfile
  Sources <- OneSource
  Contents <- TwoContents
  Chunked <- LongContent
  Jobs <- ThreeJobs
  Clients <- TwoClients
  Permits = 1
  MaxAttempts = 2
  Faults = {"vector", "queue"}
  MaxFaults = 1
  MaxCancels = 1
  MaxDeletes = 1
  MaxRestarts = 0
INVARIANTS
  PermitsConserved
  OneActiveVersion
  LineageHasLatest
  CommittedStays
  SearchFindsActive
CHECK_DEADLOCK FALSE
SYMMETRY Symmetry

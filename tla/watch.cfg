SPECIFICATION Spec
CONSTANTS
  t1 = t1
  t2 = t2
  t3 = t3
  x1 = x1
  x2 = x2
  g = g
  h = h
  None = None
  Threads <- ThreeThreads
  Watches <- TwoWatches
  Changes <- TwoChanges
  Matching <- SomeMatching
  Ops = {"create", "pause", "resume", "delete", "observe"}
  MaxCalls = 2
SYMMETRY Symmetry
CHECK_DEADLOCK FALSE
INVARIANTS
  SpecsMatchCoordinator
  NoMissedEvent

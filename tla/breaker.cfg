SPECIFICATION Spec
CONSTANTS
  k1 = k1
  k2 = k2
  k3 = k3
  Callers <- ThreeCallers
  FailureThreshold = 3
  ResetSeconds = 2
  MaxTime = 8
  MaxCount = 6
SYMMETRY Symmetry
CHECK_DEADLOCK FALSE
INVARIANTS
  BreakerTypeOK
  OpenAtThreshold
  PeerSpared

SPECIFICATION Spec
CONSTANTS
  Requests = {1, 2, 3}
  SessionTtl = 1
  AccessTtl = 2
  MaxLatency = 1
  CoolingOff = 2
  ExportCooldown = 2
  MaxFaults = 1
INVARIANTS AccessEndsSoon ErasedForGood ExportsSpaced
PROPERTIES NobodyErasedUnasked
CHECK_DEADLOCK FALSE

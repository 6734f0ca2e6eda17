SPECIFICATION Spec
CONSTANTS
  k1 = k1
  k2 = k2
  f1 = f1
  f2 = f2
  Creators = {k1, k2}
  Fans = {f1, f2}
  Log <- TwoOwners
  MaxLedger = 2
  PageLimit = 4
  MaxRange = 2
  Jobs = {j1}
  Faults = {"rpc", "db"}
  MaxRestarts = 1
  Registered = {k1}
  TrialTiers <- FirstTrial
  Blockable <- FirstBlock
INVARIANTS TrialSharedByOverlapOnly
PROPERTIES ImplementsProjection
CHECK_DEADLOCK FALSE

SPECIFICATION FairSpec
CONSTANTS
  k1 = k1
  k2 = k2
  f1 = f1
  f2 = f2
  Creators = {k1}
  Fans = {f1, f2}
  Log <- TierLife
  MaxLedger = 3
  PageLimit = 9
  MaxRange = 2
  Jobs = {j1}
  Faults = {}
  MaxRestarts = 1
  Registered = {k1}
  TrialTiers = {}
  Blockable = {}
INVARIANTS TypeOK CheckpointCovers EarnedOnce
PROPERTIES EventuallyIndexed JobsEnd
CHECK_DEADLOCK FALSE

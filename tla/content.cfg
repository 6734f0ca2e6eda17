SPECIFICATION FairSpec
CONSTANTS
  Tiers = {1, 2}
  Requests = {1, 2, 3}
  FirstTiers = {1}
  Passes = {1}
  FanOf <- OneFan
  TierOf <- FirstTier
  UnlockTtl = 1
  MaxLatency = 1
  Delays = {1}
  BatchSize = 2
  MaxFaults = 1
INVARIANTS KeysSound AccessEndsSoon NoticesRight OrderOfOneRequest
PROPERTIES EveryRequestEnds
CHECK_DEADLOCK FALSE

SPECIFICATION FairSpec
CONSTANTS
  k1 = k1
  k2 = k2
  t1 = t1
  t2 = t2
  t3 = t3
  f1 = f1
  f2 = f2
  Purchasers = {w1}
  Changers = {}
  Renewers = {r1}
  Erasers = {}
  Fans = {f1}
  Tiers = {t1}
  Creators = {k1}
  CreatorOf <- SoleCreatorOf
  OnChainId <- SoleOne
  Price <- SoleOne
  Duration <- SoleOne
  TrialDays <- SoleZero
  Blockable = {}
  Synced = {}
  Togglers = {f1}
  MaxSales = 1
  MaxPasses = 2
  MaxNow = 3
  MaxAttempts = 1
  Periods = {1, 2, 3}
  DailyUpTo = 2
  Week = 2
PROPERTIES AutoRenewServed
CHECK_DEADLOCK FALSE

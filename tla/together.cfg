SPECIFICATION Spec
CONSTANTS
  k1 = k1
  k2 = k2
  t1 = t1
  t2 = t2
  t3 = t3
  f1 = f1
  f2 = f2
  Purchasers = {w1}
  Changers = {c1}
  Renewers = {r1}
  Erasers = {e1}
  Fans = {f1}
  Tiers = {t1, t2}
  Creators = {k1}
  CreatorOf <- OneCreatorOf
  OnChainId <- TwoIds
  Price <- TwoPrices
  Duration <- LongAndShort
  TrialDays <- TrialOnSecond
  Blockable = {}
  Synced = {}
  Togglers = {f1}
  MaxSales = 1
  MaxPasses = 3
  MaxNow = 3
  MaxAttempts = 1
  Periods = {1, 3}
  DailyUpTo = 2
  Week = 2
INVARIANTS TypeOK  SupersededConsistent ForkedByOverlapOnly
PROPERTIES ClosedStaysClosed 
CHECK_DEADLOCK FALSE

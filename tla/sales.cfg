SPECIFICATION Spec
CONSTANTS
  k1 = k1
  k2 = k2
  t1 = t1
  t2 = t2
  t3 = t3
  f1 = f1
  f2 = f2
  Purchasers = {w1, w2}
  Changers = {c1}
  Renewers = {}
  Erasers = {}
  Fans = {f1, f2}
  Tiers = {t1, t2, t3}
  Creators = {k1, k2}
  CreatorOf <- TwoCreatorsOf
  OnChainId <- SharedIds
  Price <- ThreePrices
  Duration <- ThreeDurations
  TrialDays <- ThreeTrials
  Blockable = {}
  Synced = {t2}
  Togglers = {}
  MaxSales = 3
  MaxPasses = 3
  MaxNow = 1
  MaxAttempts = 1
  Periods = {1, 2, 3}
  DailyUpTo = 2
  Week = 2
SYMMETRY PurchaserSymmetry
INVARIANTS BooksRight TrialClosesTier
PROPERTIES BundleWhole
CHECK_DEADLOCK FALSE

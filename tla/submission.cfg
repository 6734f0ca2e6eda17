SPECIFICATION Spec
CONSTANTS
  Renewals = {1, 2}
  MaxRetries = 3
  MaxPolls = 2
  MaxOthers = 2
INVARIANTS ChargedOnce ClientTruthful
PROPERTIES ImplementsCharge
CHECK_DEADLOCK FALSE

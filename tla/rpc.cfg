SPECIFICATION FairSpec
CONSTANTS
  Callers = {1, 2}
  MaxRetries = 3
  Threshold = 5
  MaxRequests = 1
  Window = 2
  InitialDelay = 1
INVARIANTS OpenMeansFailures OverrunBounded
PROPERTIES OpenForGood EveryCallEnds

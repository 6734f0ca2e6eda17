SPECIFICATION Spec
CONSTANTS
  Requests = {1, 2, 3, 4}
  CacheTtl = 1
  MaxLatency = 1
  MaxFaults = 1
  DailyReports = 2
INVARIANTS ProfileFresh RemovedHookFades ReportsBounded
CHECK_DEADLOCK FALSE

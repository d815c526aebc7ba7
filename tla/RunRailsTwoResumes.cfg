CONSTANTS
  s1 = s1
  s2 = s2
  Session <- TwoSessions
  Questions = 2
  NodeCalls = 2
  RunBudget = 3
  DailyBudget = 6
  Estimate = 1
  MaxDay = 1
  MaxRows = 7
SPECIFICATION RailsSpec
INVARIANT QuotaResumeProgresses
CHECK_DEADLOCK FALSE

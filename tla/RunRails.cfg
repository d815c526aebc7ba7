CONSTANTS
  s1 = s1
  s2 = s2
  Session <- TwoSessions
  Questions = 2
  NodeCalls = 2
  RunBudget = 2
  DailyBudget = 4
  Estimate = 1
  MaxDay = 2
  MaxRows = 5
SPECIFICATION RailsSpec
INVARIANTS LatchIsLatestEvidence RunawayBounded RunawayResumeProgresses
CHECK_DEADLOCK FALSE

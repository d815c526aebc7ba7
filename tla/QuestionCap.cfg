CONSTANTS
  s1 = s1
  s2 = s2
  s3 = s3
  Session <- ThreeSessions
  Size <- Sizes
  Cap = 4
  MaxDay = 2
  MaxBooked = 5
  MayCrash = TRUE
  MayMisread = FALSE
SPECIFICATION CapSpec
INVARIANTS CapHoldsBeforeMidnight BooksCoverSessions
CHECK_DEADLOCK FALSE

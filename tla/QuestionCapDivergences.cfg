CONSTANTS
  s1 = s1
  s2 = s2
  s3 = s3
  Session <- TwoSessions
  Size <- Sizes
  Cap = 3
  MaxDay = 2
  MaxBooked = 6
  MayCrash = FALSE
  MayMisread = TRUE
SPECIFICATION CapSpec
INVARIANTS CapHolds CompletedPayForWhatTheyAsked OvershootIsGivenBack
CHECK_DEADLOCK FALSE

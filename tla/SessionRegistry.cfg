CONSTANTS
  c1 = c1
  c2 = c2
  c3 = c3
  c4 = c4
  i1 = i1
  i2 = i2
  None = None
  Socket <- FourSockets
  Id <- TwoIds
  Named <- NamedByClient
  MaxStaleJoins = 1
  Hung = {c1}
SPECIFICATION FairSpec
INVARIANTS OneOwnerPerId WaitersAccounted
PROPERTIES LeaseSpec ClosedIsReleased ClaimAnswered

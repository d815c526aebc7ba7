CONSTANTS
  a = a
  b = b
  Caller <- Callers
  Requester <- Requesters
  Threshold = 2
  Cooldown = 1
  Attempts = 2
  Replies = 2
SPECIFICATION TransportSpec
INVARIANTS OneProbePerWindow NoCallAfterTheUnrecorded

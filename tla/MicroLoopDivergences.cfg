SPECIFICATION Spec
CONSTANTS
  a = a
  b = b
  seed = seed
  rendered = rendered
  f = f
  g = g
  Session <- MCSession
  Self <- a
  Seed <- seed
  Rendered <- rendered
  Text <- MCText
  MaxTurns = 3
  Escalations = 1
  JudgeRetries = 2
  Retries = 1
  ToolAttempts = 2
  Dims = 2
  Stated <- MCStated
  Split <- MCSplit
INVARIANTS
  AskedOnce ScoredTurnKept
CHECK_DEADLOCK FALSE

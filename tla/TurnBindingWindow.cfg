CONSTANTS
  MaxTurn = 4
  QueueMax = 8
  CANCEL = CANCEL
SPECIFICATION Spec
INVARIANT PendingTurnAnswerable

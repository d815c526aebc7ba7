CONSTANTS
  MaxTurn = 4
  QueueMax = 8
  CANCEL = CANCEL
SPECIFICATION Spec
INVARIANTS AnswersItsOwnQuestion LateAnswersNeverScored StoppedByOwnCancel
PROPERTIES CancelEndsRun

CONSTANTS
  a = a
  b = b
  r1 = r1
  r2 = r2
  Caller <- TwoCallers
  Reconciler <- OneReconciler
  MaxCalls = 2
  MaxCrashes = 0
  MaxMisreads = 1
  MayTear = TRUE
SPECIFICATION Spec
INVARIANTS LatchBlocks BilledOnce ReplayedNotForgiven

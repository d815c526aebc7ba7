CONSTANTS
  a = a
  b = b
  r1 = r1
  r2 = r2
  Caller <- TwoCallers
  Reconciler <- OneReconciler
  MaxCalls = 1
  MaxCrashes = 0
  MaxMisreads = 0
  MayTear = FALSE
SPECIFICATION Spec
INVARIANT SpendAccounted

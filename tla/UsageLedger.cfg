CONSTANTS
  a = a
  b = b
  r1 = r1
  r2 = r2
  Caller <- TwoCallers
  Reconciler <- TwoReconcilers
  MaxCalls = 1
  MaxCrashes = 2
  MaxMisreads = 1
  MayTear = FALSE
SPECIFICATION Spec
SYMMETRY Symmetric
INVARIANTS SpendCountedOnce ReplayedNotForgiven

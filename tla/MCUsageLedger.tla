--------------------------- MODULE MCUsageLedger ---------------------------
(* UsageLedger with one or two calling threads and one or two reconciles:  *)
(* the counts of calls and crashes are what lets a call fault, be half     *)
(* reconciled, crash and be reconciled again while another call is made.   *)
EXTENDS UsageLedger, TLC

CONSTANTS a, b, r1, r2

OneCaller == {a}
TwoCallers == {a, b}
OneReconciler == {r1}
TwoReconcilers == {r1, r2}

Symmetric == Permutations(TwoCallers) \cup Permutations(TwoReconcilers)
=============================================================================

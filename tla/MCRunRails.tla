----------------------------- MODULE MCRunRails -----------------------------
(* RunRails with one or two Sessions, a ceiling two calls high, nodes of   *)
(* one or two calls, and a ledger long enough to cross it and be resumed.  *)
EXTENDS RunRails

CONSTANTS s1, s2

OneSession == {s1}
TwoSessions == {s1, s2}
=============================================================================

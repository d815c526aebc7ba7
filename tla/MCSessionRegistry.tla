------------------------- MODULE MCSessionRegistry -------------------------
(* SessionRegistry on four connections and two ids, with a join pool of    *)
(* one. Three connections reach the first id, so that a third party may    *)
(* take it while a claim waits; two reach the second, so that its          *)
(* reconnect may find the pool full.                                       *)
EXTENDS SessionRegistry, TLC

CONSTANTS c1, c2, c3, c4, i1, i2

FourSockets == {c1, c2, c3, c4}
TwoIds == {i1, i2}
NamedByClient == (c1 :> {i1}) @@ (c2 :> {i1}) @@ (c3 :> {i1, i2}) @@ (c4 :> {i2})
=============================================================================

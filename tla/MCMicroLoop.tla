---------------------------- MODULE MCMicroLoop ----------------------------
(* One question of a Session of two, with a committee of one sitting.      *)
EXTENDS MicroLoop

CONSTANTS a, b, seed, rendered, f, g

MCSession == {a, b}
MCText == {seed, rendered, f, g}
MCStated == {30, 95}
MCSplit == {0, 4}

\* calls only counts: no guard reads it, nor does a property checked under this view.
Uncounted == <<context, pc, attempt, put, following, judging, scored, moved, ended>>
=============================================================================

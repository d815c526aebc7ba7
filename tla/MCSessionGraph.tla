--------------------------- MODULE MCSessionGraph ---------------------------
(* SessionGraph with a plan of three Skills, one of them with a spare      *)
(* seed, and an unplanned one to switch to; four questions are enough to   *)
(* deviate and still walk off the plan's end.                              *)
EXTENDS SessionGraph

CONSTANTS ml, dl, ops, nlp

Skills == {ml, dl, ops, nlp}
PlanOfThree == <<ml, dl, ops>>
SeedCounts == [k \in Skills |-> IF k \in {ml, dl} THEN 2 ELSE 1]
Both == {"web", "cli"}
CliOnly == {"cli"}
=============================================================================

--------------------------- MODULE MCQuestionCap ---------------------------
(* QuestionCap with three Sessions of one, two and two questions under a   *)
(* cap of four: any two fit, all three do not.                             *)
EXTENDS QuestionCap

CONSTANTS s1, s2, s3

ThreeSessions == {s1, s2, s3}
OneSession == {s2}
TwoSessions == {s2, s3}
Sizes == [s \in Session |-> IF s = s1 THEN 1 ELSE 2]
=============================================================================

---------------------------- MODULE MCPostMortem ----------------------------
(* Two Sessions of one server process, of two Candidates, and a post-      *)
(* mortem of the first Candidate in a second process; a debrief of one to  *)
(* two answers can be cut short, ended early or run to its end.            *)
EXTENDS PostMortem

CONSTANTS s, t, pm, ann, ben, sql, go

Writers == {s, t, pm}
PostMortems == {pm}
Processes == [w \in Writers |-> IF w = pm THEN "cli" ELSE "server"]
Candidates == {ann, ben}
Owners == [w \in Writers |-> IF w = t THEN ben ELSE ann]
Skills == {sql, go}
Evidences == [w \in Writers |-> IF w = s THEN {sql} ELSE IF w = pm THEN {sql, go} ELSE {go}]
=============================================================================

--------------------------- MODULE MCLlmTransport ---------------------------
(* LlmTransport with one coarse caller, one request in detail, two sends   *)
(* per _create and two replies per chat_json, over a threshold of two      *)
(* outages; a window elapses with one tick and is renewed by a probe.      *)
EXTENDS LlmTransport

CONSTANTS a, b

Callers == {a, b}
Requesters == {b}
=============================================================================

------------------------- MODULE MCInferenceServer -------------------------
(***************************************************************************)
(* Instances of InferenceServer for TLC: which requests the clients send.  *)
(***************************************************************************)
EXTENDS InferenceServer

CONSTANTS c1, c2

Request(route) ==
  [route |-> route, url |-> FALSE, upload |-> FALSE, edit |-> FALSE, fault |-> "none"]
Generation == Request("generations")
Edit == [Request("edits") EXCEPT !.upload = TRUE, !.edit = TRUE]
LateEdit == [Edit EXCEPT !.fault = "late"]

TwoConns == {c1, c2}

Edits == {Edit}
LateEdits == {Edit, LateEdit}
Generations == {Generation}

=============================================================================

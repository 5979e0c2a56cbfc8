------------------------------ MODULE MCVgfServe ------------------------------
(***************************************************************************)
(* Instances of VgfServe for TLC: which requests the clients send.         *)
(***************************************************************************)
EXTENDS VgfServe, TLC

CONSTANTS c1, c2

TwoConns == {c1, c2}
Symmetry2 == Permutations(TwoConns)

Request(route) ==
  [route |-> route, url |-> FALSE, upload |-> FALSE, edit |-> FALSE, fault |-> "none"]
KeptGeneration == [Request("generations") EXCEPT !.url = TRUE]
Edit == [Request("edits") EXCEPT !.upload = TRUE, !.edit = TRUE]
IgnoredImage == [Edit EXCEPT !.edit = FALSE]
LateEdit == [Edit EXCEPT !.fault = "late"]
TextEdit == [Edit EXCEPT !.fault = "text"]
BadEdit == [Request("edits") EXCEPT !.fault = "rejected"]

\* Requests whose files are also fetched, and an edit that fails at the very end.
ServiceRequests == {KeptGeneration, Edit, TextEdit, Request("images")}

\* Every route, and every way a request can fail on it.
AllRequests ==
  {KeptGeneration, Edit, IgnoredImage, LateEdit, TextEdit, BadEdit,
   Request("txt2img"), Request("images"), Request("chat")}

=============================================================================

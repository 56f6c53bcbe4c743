---------------------------- MODULE MCGitOutput ----------------------------
(***************************************************************************)
(* Small outputs over a plain path, one that reads like a rename of git    *)
(* status and one that reads like a line of numstat.                       *)
(***************************************************************************)
EXTENDS GitOutputProps

MCPaths == {<<"b">>, <<"R", " ", <<"b">>>>, <<"2", "0", <<"b">>>>}
MCNumber == [n \in {"0", "2"} |-> IF n = "0" THEN 0 ELSE 2]
=============================================================================

--------------------------- MODULE MCToolInstall ---------------------------
(***************************************************************************)
(* One tool of each method, in the order of .tool-versions.                *)
(***************************************************************************)
EXTENDS ToolInstall

Pinned == <<"golang", "jq", "python", "govulncheck">>
MethodOf == [golang |-> "tree", jq |-> "member", python |-> "external", govulncheck |-> "go-install"]
=============================================================================

---------------------------- MODULE MCScopeGates ----------------------------
(***************************************************************************)
(* Two pull requests, two modules, a directory of fixtures beside them and *)
(* the live tree.                                                          *)
(***************************************************************************)
EXTENDS ScopeGates

MCFiles == {"a/main.tf", "a/VERSION", "b/main.tf", "tests/fixture", "live.hcl", "live.md", "Makefile"}
MCModuleOf == [f \in MCFiles |-> CASE f \in {"a/main.tf", "a/VERSION"} -> "a"
                                   [] f = "b/main.tf" -> "b"
                                   [] f = "tests/fixture" -> "tests"
                                   [] OTHER -> "none"]

Listed(files) == [listed |-> files, moved |-> {}]
\* A module's VERSION alone; two modules and a fixture; a move from one module to the
\* other, with documentation of the live tree.
MCChanges == {Listed({"a/VERSION"}), Listed({"a/main.tf", "b/main.tf", "tests/fixture"}),
              [listed |-> {"b/main.tf", "live.md"}, moved |-> {"a/main.tf"}]}
=============================================================================

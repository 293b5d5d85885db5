-------------------------- MODULE MCTerragruntLane --------------------------
(***************************************************************************)
(* A cut of the live tree: the prod data lake, its collector (whose        *)
(* dependency is interpolated), a DNS unit of the DNS owner's account,     *)
(* the sandbox data lake, and a bootstrap unit of each account.            *)
(***************************************************************************)
EXTENDS TerragruntLane

TheUnits == {"lake", "collector", "delegation", "sandboxLake", "prodBoot", "sandboxBoot", "qaBoot", "dnsBoot"}
TheShared == {"envcommon", "service", "registry"}
TheReads == [u \in TheUnits \cup TheShared |->
  CASE u \in {"lake", "sandboxLake"} -> {"envcommon"}
    [] u = "envcommon" -> {"service", "registry"}
    [] OTHER -> {}]
TheDependencies == [u \in TheUnits |->
  CASE u = "collector" -> {"lake"} [] u = "delegation" -> {"collector"} [] OTHER -> {}]
TheSpelled == [TheDependencies EXCEPT !["collector"] = {}]
TheEnv == [u \in TheUnits |->
  CASE u \in {"sandboxLake", "sandboxBoot"} -> "sandbox" [] u = "qaBoot" -> "qa" [] u = "dnsBoot" -> "dns_owner" [] OTHER -> "prod"]
TheTier == [u \in TheUnits |->
  CASE u \in {"prodBoot", "sandboxBoot", "qaBoot", "dnsBoot"} -> "bootstrap" [] u = "delegation" -> "pretty" [] OTHER -> "service"]
TheAccounts == [prod |-> "a1", sandbox |-> "a2", qa |-> "a3"]

Ch(changed, deleted) == [changed |-> changed, deleted |-> deleted]
TheChanges == {Ch({"envcommon"}, {}), Ch({"collector"}, {}), Ch({"collector"}, {"collector"})}
DataChange == {Ch({"registry"}, {})}
TheDispatches == {{"lake", "sandboxLake"}, {"lake", "qaBoot"}}
=============================================================================

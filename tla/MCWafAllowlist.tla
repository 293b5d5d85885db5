--------------------------- MODULE MCWafAllowlist ---------------------------
(***************************************************************************)
(* The jobs of perf-test.yml with two shards, while somebody applies by    *)
(* hand; and two applies by hand that name the IPSet differently.          *)
(***************************************************************************)
EXTENDS WafAllowlist

LaneJobs == {"waf-allowlist", "shard1", "shard2", "hand", "cleanup"}
LaneAction == [j \in LaneJobs |-> IF j = "cleanup" THEN "remove" ELSE "apply"]
LaneCidrs == [j \in LaneJobs |-> IF j \in {"shard1", "shard2", "hand"} THEN {j} ELSE {}]
LaneIpSet == [j \in LaneJobs |-> "perf-allow-ipset"]
LaneNeeds == [j \in LaneJobs |->
  CASE j \in {"waf-allowlist", "hand"} -> {}
    [] j = "cleanup" -> LaneJobs \ {j}
    [] OTHER -> {"waf-allowlist"}]

\* One apply lets the WebACL be discovered, the other names it: the name of the
\* IPSet is derived from the rule in one case and from the WebACL in the other.
\* RuleReferencesIpSet does not hold of this pair.
HandJobs == {"discovered", "named"}
HandAction == [j \in HandJobs |-> "apply"]
HandCidrs == [j \in HandJobs |-> {j}]
HandIpSet == [j \in HandJobs |-> IF j = "named" THEN "web-acl-ipset" ELSE "perf-allow-ipset"]
HandNeeds == [j \in HandJobs |-> {}]

\* The rate rule, and somebody's rule on the priority the allow rule wants.
MCForeign == {[name |-> "rate", priority |-> 100, arn |-> 0],
              [name |-> "block", priority |-> 0, arn |-> 0]}
=============================================================================

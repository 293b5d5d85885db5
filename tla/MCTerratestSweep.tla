-------------------------- MODULE MCTerratestSweep --------------------------
(***************************************************************************)
(* One run and the daily sweep, for several modules under test.            *)
(***************************************************************************)
EXTENDS TerratestSweep

KindOf == [vpc |-> "plain", nat |-> "slow", default_sg |-> "default_sg",
           service |-> "ecs", role |-> "parts", monitor |-> "dated", named |-> "undated",
           stream |-> "no_handler", group |-> "no_branch"]
TierOf == [r \in DOMAIN KindOf |->
             CASE r = "vpc" -> 3 [] r = "default_sg" -> 2 [] r = "nat" -> 1 [] OTHER -> 0]

\* A network with a NAT gateway that drains; a network with its default security group;
\* what the sweep cannot delete, beside a monitor of Cost Explorer; a monitor without a
\* time in its name; what the sweep takes for deleted without a call; an ECS service, and
\* a role with its policies.
OurFixtures == {{"vpc", "nat"}, {"vpc", "default_sg"}, {"stream", "monitor"}, {"named"},
                {"group"}, {"service"}, {"role"}}

Ours      == [r \in Resources |-> "tt1"]
OurKinds  == [r \in Resources |-> KindOf[r]]
OurTiers  == [r \in Resources |-> TierOf[r]]
InsideVpc == [r \in Resources |-> IF r \in {"nat", "default_sg"} THEN {"vpc"} ELSE {}]
=============================================================================

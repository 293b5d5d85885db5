-------------------------- MODULE MCSweepHandlers --------------------------
(***************************************************************************)
(* Two sweeps on one target of each kind; two zones under one parent.      *)
(***************************************************************************)
EXTENDS SweepHandlers

KindOf ==
  [topic |-> "plain", task |-> "service", cluster |-> "cluster", bucket |-> "bucket",
   key |-> "key", role |-> "listed", nat |-> "drained", cdn |-> "distribution",
   zone1 |-> "zone", zone2 |-> "zone", acl |-> "acl", pool |-> "pool",
   group |-> "no_branch", check |-> "raises"]

TwoParts == {"key", "role", "bucket", "pool"}
OnePart  == {"zone1", "task"}

OurParts == [r \in Resources |-> IF r \in TwoParts THEN {1, 2} ELSE IF r \in OnePart THEN {1} ELSE {}]

OurFixtures ==
  {{"topic"}, {"task"}, {"cluster"}, {"bucket"}, {"key"}, {"role"}, {"nat"}, {"cdn"},
   {"zone1", "zone2"}, {"acl"}, {"pool"}, {"group"}, {"check"}}
=============================================================================

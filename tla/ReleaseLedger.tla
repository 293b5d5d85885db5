---------------------------- MODULE ReleaseLedger ----------------------------
(***************************************************************************)
(* What the release pipeline promises, without branches, locks, runs or    *)
(* watchdogs: a ledger of published versions in which every new entry of a *)
(* unit is exactly one SemVer bump above the unit's latest entry, and      *)
(* nothing is ever withdrawn (docs/release-pipeline.md, "Version check").  *)
(***************************************************************************)
EXTENDS Semver

CONSTANT Units          \* what has its own tag prefix: the modules and the config

VARIABLE released       \* the set of [unit, ver] published so far

VersionsOf(u) == {e.ver : e \in {x \in released : x.unit = u}}

Init == released = {}

Publish(u, bump) ==
  released' = released \cup {[unit |-> u, ver |-> NextVersion(VersionsOf(u), bump)]}

Next == \E u \in Units, bump \in Bumps : Publish(u, bump)

Spec == Init /\ [][Next]_released
=============================================================================

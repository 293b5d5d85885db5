------------------------------- MODULE Semver -------------------------------
(***************************************************************************)
(* The version arithmetic of scripts/calculate_version.py: the bump read   *)
(* from a conventional-commit title, the latest version among the tags of  *)
(* one prefix and the next version derived from it.                        *)
(*                                                                         *)
(* A version is a (major, minor, patch) tuple and Python compares tuples   *)
(* lexicographically, which is what max(versions) uses.  Tags of one       *)
(* prefix are represented by the set of the versions they parse to.        *)
(***************************************************************************)
EXTENDS Naturals

\* BumpType of scripts/validate_pr_title.py.
Bumps == {"major", "minor", "patch"}

\* What _parse_semver returns for a valid tag.
Versions == Nat \X Nat \X Nat

\* Tuple comparison: v comes strictly before w.
Less(v, w) ==
  \/ v[1] < w[1]
  \/ v[1] = w[1] /\ v[2] < w[2]
  \/ v[1] = w[1] /\ v[2] = w[2] /\ v[3] < w[3]

\* _apply_bump.
ApplyBump(v, bump) ==
  CASE bump = "major" -> <<v[1] + 1, 0, 0>>
    [] bump = "minor" -> <<v[1], v[2] + 1, 0>>
    [] OTHER          -> <<v[1], v[2], v[3] + 1>>

\* v is the greatest of the versions in vs.
IsLatest(v, vs) == v \in vs /\ \A w \in vs : w = v \/ Less(w, v)

\* Mutant of FindLatest: the prefix is stripped wrongly and no tag parses (B26).
FindLatestParsesNothing(vs) == <<0, 0, 0>>

\* find_latest_version, with the 0.0.0 that calculate_next_version starts an
\* untagged module from.
FindLatest(vs) == IF vs = {} THEN <<0, 0, 0>> ELSE CHOOSE v \in vs : IsLatest(v, vs)

\* calculate_next_version, without its collision check.
NextVersion(vs, bump) == ApplyBump(FindLatest(vs), bump)
=============================================================================

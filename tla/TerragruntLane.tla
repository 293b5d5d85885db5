--------------------------- MODULE TerragruntLane ---------------------------
(***************************************************************************)
(* From a change of the Terragrunt tree to what is deployed: the plan lane *)
(* of a pull request (terragrunt-pr.yml), the serialized apply lane        *)
(* (terragrunt-apply.yml), the on-demand lane of the perf test             *)
(* (perf-test.yml) and the scripts that compute what each of them works    *)
(* on: changed files to units, units to accounts, accounts to roles.       *)
(*                                                                         *)
(* A push has its own diff only.  What its run does not apply is left to a *)
(* later change of the same units.                                         *)
(***************************************************************************)
EXTENDS Integers, Sequences, FiniteSets

CONSTANTS
  Units,       \* directories with a terragrunt.hcl
  Shared,      \* files of the tree outside of all units
  Hcl,         \* those of them whose name ends in .hcl
  Reads,       \* what a unit, or a shared file, includes or reads itself
  DependsOn,   \* the dependency blocks of a unit
  Spelled,     \* those whose config_path has no interpolation in it
  Env,         \* the environment, or the role of a bootstrap unit
  Tier,        \* see Tiers
  EnvAccount,  \* env_accounts.json: the account of each environment
  DnsOwner,    \* env_accounts.json: the shared DNS account
  OwnZone,     \* domains.json: environments whose pretty and service apex are the same
  CiDeploy,    \* accounts.json: ci_deploy
  OnDemand,    \* accounts.json: ci_deploy_on_demand
  PerfEnv,     \* the environment the perf test stands up
  FirstLive,   \* the units in the tree at first
  Deployed,    \* the units that are deployed at first
  Changes,     \* what a pull request may change and delete
  Dispatches,  \* the scopes somebody may apply by hand
  MaxRuns,     \* bound: runs of the apply lane
  MaxFaults    \* bound: failing calls and lost runners

Tiers == {"service", "dns_owner", "pretty", "bootstrap"}
Accounts == {EnvAccount[e] : e \in DOMAIN EnvAccount} \cup {DnsOwner}

ASSUME TreeAssumption ==
  /\ Hcl \subseteq Shared /\ Units \cap Shared = {}
  /\ Reads \in [Units \cup Shared -> SUBSET Shared]
  /\ DependsOn \in [Units -> SUBSET Units] /\ Spelled \in [Units -> SUBSET Units]
  /\ \A u \in Units : Spelled[u] \subseteq DependsOn[u]
  /\ FirstLive \subseteq Units /\ Deployed \subseteq FirstLive
  /\ \A c \in Changes : c.changed \subseteq Units \cup Shared /\ c.deleted \subseteq c.changed \cap Units
ASSUME AccountsAssumption ==
  /\ Tier \in [Units -> Tiers]
  /\ Env \in [Units -> DOMAIN EnvAccount \cup {"dns_owner"}]
  /\ \A u \in Units : Env[u] = "dns_owner" => Tier[u] # "service"
  /\ PerfEnv \in DOMAIN EnvAccount /\ OwnZone \subseteq DOMAIN EnvAccount
  /\ CiDeploy \subseteq Accounts /\ OnDemand \subseteq Accounts \ CiDeploy
ASSUME BoundsAssumption == MaxRuns \in Nat /\ MaxFaults \in Nat

-----------------------------------------------------------------------------
VARIABLES
  main,     \* the commits of main: the diff of each and the units in its tree
  applied,  \* the commit each unit was last applied from, 0 if it has no state; of a
            \* unit that CI does not deploy, only whether it has state
  locked,   \* units whose state lock was left behind
  run,      \* the runs of the apply lane
  pr,       \* the open pull request and its plan lane
  faults    \* how many faults there were

vars == <<main, applied, locked, run, pr, faults>>

\* The steps of a run that hold the lane.
InProgress == {"gate", "preflight", "apply", "validate"}
\* behind: it was dispatched from a ref that main had left behind.
NoRun == [push |-> FALSE, commit |-> 0, behind |-> FALSE, scope |-> {}, step |-> "none",
          primary |-> DnsOwner, todo |-> {}, bad |-> FALSE]

\* had: the units of the plan that had state when it began.
NoPr == [step |-> "none", changed |-> {}, deleted |-> {}, scope |-> {}, rows |-> {},
         planned |-> {}, had |-> {}, bad |-> FALSE]

TypeOK ==
  /\ main \in Seq([changed : SUBSET (Units \cup Shared), deleted : SUBSET Units, live : SUBSET Units])
  /\ applied \in [Units -> 0..Len(main)]
  /\ locked \subseteq Units
  /\ run \in [1..MaxRuns -> [push : BOOLEAN, commit : 0..Len(main), behind : BOOLEAN, scope : SUBSET Units,
                             step : {"none", "queued", "superseded", "green", "red"} \cup InProgress,
                             primary : Accounts, todo : SUBSET Units, bad : BOOLEAN]]
  /\ pr \in [step : {"none", "open", "rows", "done"}, changed : SUBSET (Units \cup Shared),
             deleted : SUBSET Units, scope : SUBSET Units, rows : SUBSET Accounts,
             planned : SUBSET Units, had : SUBSET Units, bad : BOOLEAN]
  /\ faults \in 0..MaxFaults

Init ==
  /\ main = <<[changed |-> {}, deleted |-> {}, live |-> FirstLive]>>
  /\ applied = [u \in Units |-> IF u \in Deployed THEN 1 ELSE 0]
  /\ locked = {}
  /\ run = [i \in 1..MaxRuns |-> NoRun]
  /\ pr = NoPr
  /\ faults = 0

Fault == faults < MaxFaults /\ faults' = faults + 1
Live == main[Len(main)].live

-----------------------------------------------------------------------------
(***************************************************************************)
(* The scope of a diff (detect_terragrunt_units).                          *)
(***************************************************************************)

\* detect_unit_dir: a file of a unit that is still there.
OwnUnit(f, live) == {f} \cap live

IsSharedParentConfig(f) == f \in Hcl

\* find_units_affected_by_parent_config: the units whose own terragrunt.hcl refers
\* to the file.
UnitsReading(f, live) == {u \in live : f \in Reads[u]}

UnitsOf(f, live) == IF IsSharedParentConfig(f) THEN UnitsReading(f, live) ELSE OwnUnit(f, live)

\* find_dependent_units: the raw config_path is compared, one level deep.
Dependents(units, live) == {u \in live \ units : Spelled[u] \cap units # {}}

\* run_detect up to the two uses of the result.
Detected(changed, live) ==
  LET units == UNION {UnitsOf(f, live) : f \in changed}
  IN  units \cup Dependents(units, live)

\* is_deletion_only_changeset
DeletionOnly(c) == c.changed # {} /\ c.changed = c.deleted

\* build_include_dir_flags: an empty scope is an error of the plan lane, unless there
\* is nothing left to plan.
EmptyScopeFails(c, scope) == scope = {} /\ ~DeletionOnly(c)

-----------------------------------------------------------------------------
(***************************************************************************)
(* The account of a unit and who may apply there (resolve_deploy_role,     *)
(* filter_ci_deployable_units, partition_units_by_account).                *)
(***************************************************************************)

InDnsOwner(u) ==
  \/ Tier[u] = "dns_owner"
  \/ Tier[u] = "bootstrap" /\ Env[u] = "dns_owner"
  \/ Tier[u] = "pretty" /\ Env[u] \notin OwnZone

ResolveAccountId(u) == IF InDnsOwner(u) THEN DnsOwner ELSE EnvAccount[Env[u]]

IsBootstrapUnit(u) == Tier[u] = "bootstrap"

\* account_allows_ci_apply
AllowsCiApply(a, onDemand) == a \in CiDeploy \/ (onDemand /\ a \in OnDemand)

IsAccountCiDeployable(a) == AllowsCiApply(a, FALSE)

\* partition_by_ci_deploy: what remains of a scope.
CiDeployable(units) == {u \in units : IsAccountCiDeployable(ResolveAccountId(u))}

\* What CI alone deploys.
CiUnits == {u \in CiDeployable(Units) : ~IsBootstrapUnit(u)}

AccountsOf(units) == {ResolveAccountId(u) : u \in units}

\* resolve_deploy_role: at most one account besides the DNS owner's.
ServiceAccounts(units) == AccountsOf(units) \ {DnsOwner}
MixedScope(units) == Cardinality(ServiceAccounts(units)) > 1
Primary(units) ==
  IF ServiceAccounts(units) = {} THEN DnsOwner ELSE CHOOSE a \in ServiceAccounts(units) : TRUE

\* load_account_entry refuses an account that CI may not apply to.
RoleRefused(units) == ~AllowsCiApply(Primary(units), FALSE)

\* partition: the units of one account.
Row(units, a) == {u \in units : ResolveAccountId(u) = a}

\* The state key that tf_state_preflight looks for is made by a bootstrap unit.
StateReady(a) == \E u \in Units : IsBootstrapUnit(u) /\ ResolveAccountId(u) = a /\ applied[u] > 0

-----------------------------------------------------------------------------
(***************************************************************************)
(* The plan lane of a pull request.                                        *)
(***************************************************************************)

\* A pull request is opened or pushed to; a plan that was running is cancelled.
PushToPr(c) ==
  /\ pr' = [NoPr EXCEPT !.step = "open", !.changed = c.changed, !.deleted = c.deleted]
  /\ UNCHANGED <<main, applied, locked, run, faults>>

\* The answer of HeadObject on the state of a unit, if there is one.
StateExists(u) == applied[u] > 0

\* partition_by_state_existence
HaveState(units) == {u \in units : StateExists(u)}

TreeWith(c) == (Live \cup (c.changed \cap Units)) \ c.deleted

\* setup: an empty scope fails unless there were only deletions.
DetectAndPartition ==
  LET scope == Detected(pr.changed, TreeWith(pr))
  IN  /\ pr.step = "open"
      /\ pr' = [pr EXCEPT !.scope = scope, !.rows = AccountsOf(scope),
                          !.step = IF scope = {} THEN "done" ELSE "rows",
                          !.bad = EmptyScopeFails(pr, scope),
                          !.had = HaveState(scope)]
      /\ UNCHANGED <<main, applied, locked, run, faults>>

\* The job of an account: the guards, filter_units_with_state, and tg-plan of what
\* has state, which takes no lock.
PlanRow(a) ==
  /\ pr.step = "rows" /\ a \in pr.rows /\ StateReady(a)
  /\ pr' = [pr EXCEPT !.rows = @ \ {a}, !.planned = @ \cup HaveState(Row(pr.scope, a))]
  /\ UNCHANGED <<main, applied, locked, run, faults>>

\* Mutant of PlanRowFails: an error passes for "never deployed".
PlanRowPassesOver(a) ==
  /\ pr.step = "rows" /\ a \in pr.rows /\ Fault
  /\ pr' = [pr EXCEPT !.rows = @ \ {a}]
  /\ UNCHANGED <<main, applied, locked, run>>

\* A render, a state check that is neither found nor not found, or the plan fails,
\* and the job with it; the jobs of the other accounts go on.
PlanRowFails(a) ==
  /\ pr.step = "rows" /\ a \in pr.rows /\ Fault
  /\ pr' = [pr EXCEPT !.rows = @ \ {a}, !.bad = TRUE]
  /\ UNCHANGED <<main, applied, locked, run>>

\* The preflight of an account that was never bootstrapped fails.
PreflightOfRowFails(a) ==
  /\ pr.step = "rows" /\ a \in pr.rows /\ ~StateReady(a)
  /\ pr' = [pr EXCEPT !.rows = @ \ {a}, !.bad = TRUE]
  /\ UNCHANGED <<main, applied, locked, run, faults>>

PlanEnds ==
  /\ pr.step = "rows" /\ pr.rows = {}
  /\ pr' = [pr EXCEPT !.step = "done"]
  /\ UNCHANGED <<main, applied, locked, run, faults>>

-----------------------------------------------------------------------------
(***************************************************************************)
(* The apply lane.                                                         *)
(***************************************************************************)

Created == {i \in 1..MaxRuns : run[i].step # "none"}
MayCreate == Cardinality(Created) < MaxRuns

\* The concurrency group: a new run waits, and takes the place of one that waits.
Queued(r) ==
  [i \in 1..MaxRuns |->
    IF i = Cardinality(Created) + 1 THEN [r EXCEPT !.step = "queued"]
    ELSE IF run[i].step = "queued" THEN [run[i] EXCEPT !.step = "superseded", !.scope = {}] ELSE run[i]]

\* A run that ended keeps its verdict only.
Ended(i, verdict) ==
  run' = [run EXCEPT ![i] = [NoRun EXCEPT !.push = run[i].push, !.commit = run[i].commit, !.step = verdict]]

\* The plan is no required check: a pull request merges whatever became of it.
Merge ==
  /\ pr.step # "none" /\ MayCreate
  /\ main' = Append(main, [changed |-> pr.changed, deleted |-> pr.deleted, live |-> TreeWith(pr)])
  /\ run' = Queued([NoRun EXCEPT !.push = TRUE, !.commit = Len(main) + 1])
  /\ pr' = NoPr
  /\ UNCHANGED <<applied, locked, faults>>

\* workflow_dispatch, from any ref: a tag or a branch stands for the last commit of main
\* that it has.
Dispatch(c, scope) ==
  /\ MayCreate /\ scope \subseteq main[c].live
  /\ run' = Queued([NoRun EXCEPT !.commit = c, !.behind = c < Len(main), !.scope = scope])
  /\ UNCHANGED <<main, applied, locked, pr, faults>>

\* Mutant of Start: there is no concurrency group.
StartAtOnce(i) ==
  /\ run[i].step = "queued"
  /\ run' = [run EXCEPT ![i].step = "gate"]
  /\ UNCHANGED <<main, applied, locked, pr, faults>>

\* Mutant of Start: a run that failed keeps the lane.
StartUnlessFailed(i) ==
  /\ run[i].step = "queued" /\ \A j \in 1..MaxRuns : run[j].step \notin InProgress \cup {"red"}
  /\ run' = [run EXCEPT ![i].step = "gate"]
  /\ UNCHANGED <<main, applied, locked, pr, faults>>

\* The lane is free.
Start(i) ==
  /\ run[i].step = "queued" /\ \A j \in 1..MaxRuns : run[j].step \notin InProgress
  /\ run' = [run EXCEPT ![i].step = "gate"]
  /\ UNCHANGED <<main, applied, locked, pr, faults>>

\* git diff of the push: event.before...sha, and nothing of an earlier push.
ListChangedFiles(i) == main[run[i].commit].changed

\* --exclude-bootstrap
ExcludeBootstrap(units) == {u \in units : ~IsBootstrapUnit(u)}

\* The units of a run: of its diff, or what it was given.
RunScope(i) ==
  CiDeployable(IF run[i].push THEN ExcludeBootstrap(Detected(ListChangedFiles(i), main[run[i].commit].live))
               ELSE run[i].scope)

\* A reviewer of prod-apply lets the run go on, up to its credentials.
Approve(i) ==
  LET scope == RunScope(i)
  IN  /\ run[i].step = "gate"
      /\ IF scope = {} THEN Ended(i, "green")
         ELSE IF MixedScope(scope) \/ RoleRefused(scope) THEN Ended(i, "red")
         ELSE run' = [run EXCEPT ![i].step = "preflight", ![i].todo = scope, ![i].primary = Primary(scope)]
      /\ UNCHANGED <<main, applied, locked, pr, faults>>

Reject(i) ==
  /\ run[i].step = "gate"
  /\ Ended(i, "red")
  /\ UNCHANGED <<main, applied, locked, pr, faults>>

\* make tf-state-preflight under the primary role.
Preflight(i) ==
  /\ run[i].step = "preflight"
  /\ IF StateReady(run[i].primary) THEN run' = [run EXCEPT ![i].step = "apply"] ELSE Ended(i, "red")
  /\ UNCHANGED <<main, applied, locked, pr, faults>>

\* The units that `run --all' may apply next: after what they depend on.
Ready(i) == {u \in run[i].todo : DependsOn[u] \cap run[i].todo = {}}

\* A unit that failed, and all that wait for it.
Skipped(u, todo) ==
  LET one == {v \in todo : u \in DependsOn[v]}
  IN  {u} \cup one \cup {v \in todo : DependsOn[v] \cap one # {}}

\* Mutant of ApplyUnit: a unit that fails does not count.
ApplyUnitQuiet(i, u) ==
  /\ run[i].step = "apply" /\ u \in Ready(i)
  /\ \/ /\ u \notin locked /\ UNCHANGED faults
        /\ applied' = [applied EXCEPT ![u] = IF u \in CiUnits THEN run[i].commit ELSE 1]
        /\ run' = [run EXCEPT ![i].todo = @ \ {u}]
     \/ /\ (u \in locked /\ UNCHANGED faults) \/ Fault
        /\ run' = [run EXCEPT ![i].todo = @ \ Skipped(u, @)]
        /\ UNCHANGED applied
  /\ UNCHANGED <<main, locked, pr>>

\* terraform apply of a unit from the run's commit: done, or failed, as it is
\* bound to if the lock of its state was left behind.
ApplyUnit(i, u) ==
  /\ run[i].step = "apply" /\ u \in Ready(i)
  /\ \/ /\ u \notin locked /\ UNCHANGED faults
        /\ applied' = [applied EXCEPT ![u] = IF u \in CiUnits THEN run[i].commit ELSE 1]
        /\ run' = [run EXCEPT ![i].todo = @ \ {u}]
     \/ /\ (u \in locked /\ UNCHANGED faults) \/ Fault
        /\ run' = [run EXCEPT ![i].todo = @ \ Skipped(u, @), ![i].bad = TRUE]
        /\ UNCHANGED applied
  /\ UNCHANGED <<main, locked, pr>>

\* make tg-apply returns; a failure ends the run.
ApplyEnds(i) ==
  /\ run[i].step = "apply" /\ run[i].todo = {}
  /\ IF run[i].bad THEN Ended(i, "red") ELSE run' = [run EXCEPT ![i].step = "validate"]
  /\ UNCHANGED <<main, applied, locked, pr, faults>>

\* The post-deploy validation, which finds the pipeline in order or not.
Validate(i) ==
  /\ run[i].step = "validate"
  /\ (Ended(i, "green") /\ UNCHANGED faults) \/ (Ended(i, "red") /\ Fault)
  /\ UNCHANGED <<main, applied, locked, pr>>

\* The runner is lost; the lock of the unit it was applying stays.
RunnerLost(i) ==
  /\ run[i].step \in InProgress \ {"gate"} /\ Fault
  /\ \/ UNCHANGED locked
     \/ run[i].step = "apply" /\ \E u \in Ready(i) : locked' = locked \cup {u}
  /\ Ended(i, "red")
  /\ UNCHANGED <<main, applied, pr>>

LaneStep(i) ==
  \/ Start(i) \/ Approve(i) \/ Reject(i) \/ Preflight(i) \/ ApplyEnds(i) \/ Validate(i)
  \/ \E u \in Units : ApplyUnit(i, u)

-----------------------------------------------------------------------------
(***************************************************************************)
(* What is applied outside of the lane.                                    *)
(***************************************************************************)

\* An operator applies bootstrap and local-only units from main, and removes
\* locks that were left behind.
OperatorApplies(u) ==
  /\ u \in Live \ (locked \cup CiUnits) /\ applied[u] = 0
  /\ applied' = [applied EXCEPT ![u] = 1]
  /\ UNCHANGED <<main, locked, run, pr, faults>>

ForceUnlock(u) ==
  /\ u \in locked
  /\ locked' = locked \ {u}
  /\ UNCHANGED <<main, applied, run, pr, faults>>

\* _load_role_name in apply mode, with the opt-in, for every account of a scope.
RolesLoad(units) == \A a \in AccountsOf(units) : AllowsCiApply(a, TRUE)

\* select_row
SelectRow(units, a) == Row(units, a)

\* resolve-scope: all units of the environment's tree are partitioned for apply,
\* and the row of its own account selected.
PerfScope ==
  LET units == ExcludeBootstrap({u \in Live : Env[u] = PerfEnv})
  IN  IF RolesLoad(units) THEN SelectRow(units, EnvAccount[PerfEnv]) ELSE {}

\* stand-up and, always(), clean-up of the perf test, in the order of the units.
PerfStandsUp(u) ==
  /\ u \in PerfScope /\ applied[u] = 0 /\ \A v \in DependsOn[u] \cap PerfScope : applied[v] > 0
  /\ applied' = [applied EXCEPT ![u] = 1]
  /\ UNCHANGED <<main, locked, run, pr, faults>>

PerfTearsDown(u) ==
  /\ u \in PerfScope /\ applied[u] > 0 /\ \A v \in PerfScope : u \in DependsOn[v] => applied[v] = 0
  /\ applied' = [applied EXCEPT ![u] = 0]
  /\ UNCHANGED <<main, locked, run, pr, faults>>

-----------------------------------------------------------------------------
Next ==
  \/ \E c \in Changes : PushToPr(c)
  \/ DetectAndPartition \/ PlanEnds \/ Merge
  \/ \E a \in Accounts : PlanRow(a) \/ PlanRowFails(a) \/ PreflightOfRowFails(a)
  \/ \E c \in 1..Len(main), scope \in Dispatches : Dispatch(c, scope)
  \/ \E i \in 1..MaxRuns : LaneStep(i) \/ RunnerLost(i)
  \/ \E u \in Units : OperatorApplies(u) \/ ForceUnlock(u) \/ PerfStandsUp(u) \/ PerfTearsDown(u)

Spec == Init /\ [][Next]_vars

\* Runners keep working and reviewers decide.
FairSpec == Spec /\ WF_vars(\E i \in 1..MaxRuns : LaneStep(i))

-----------------------------------------------------------------------------
(***************************************************************************)
(* Properties.                                                             *)
(***************************************************************************)

\* The run was dispatched from an older ref and applies the unit from it.
TakesBack(i, u) ==
  run[i].behind /\ run[i].step = "apply" /\ u \in run[i].todo /\ applied'[u] = run[i].commit

\* Prod applies are serialized and a run applies its own commit: whatever order
\* merges, dispatches, approvals and failures come in, no unit that CI deploys is
\* taken back to an older commit, except by a run that somebody dispatched from a ref
\* which was behind main already: the workflow takes any ref.
NoRollback ==
  [][\A u \in CiUnits : applied'[u] >= applied[u] \/ \E i \in 1..MaxRuns : TakesBack(i, u)]_vars

\* The units of a commit whose own files changed, or an .hcl file they name.
Addressed(c) == {u \in main[c].live : u \in main[c].changed \/ Reads[u] \cap Hcl \cap main[c].changed # {}}

EndsGreen(i) == run[i].push /\ run[i].step # "green" /\ run'[i].step = "green"

\* When the run of a push ends green, every CI unit its commit addresses is deployed
\* from that commit or a later one, whatever failed or was skipped on the way and
\* whatever was dispatched before.
GreenRunApplied ==
  [][\A i \in 1..MaxRuns : EndsGreen(i) =>
       \A u \in Addressed(run[i].commit) \cap CiUnits : applied[u] >= run[i].commit]_vars

\* A merged change is deployed in the end, unless its run is visibly red or was
\* superseded while it waited.
MergedChangeSettles ==
  \A i \in 1..MaxRuns :
    (run[i].push /\ run[i].step \in InProgress \cup {"queued"}) ~>
      (\/ run[i].step \in {"none", "red", "superseded"}
       \/ \A u \in Addressed(run[i].commit) \cap CiUnits : applied[u] >= run[i].commit)

\* A plan lane that ends green planned every unit of the change that had state when
\* it began, in all accounts, although applies go on meanwhile; a failing state
\* check never passes for "never deployed".
GreenPlanCoversState ==
  pr.step = "done" /\ ~pr.bad => \A u \in pr.had \cap CiUnits : u \in pr.planned

\* All that a commit affects: what reads a changed file, however indirectly, and
\* what depends on a changed unit.
ReadsAll(u) == Reads[u] \cup UNION {Reads[s] : s \in Reads[u]}
Affected(c) ==
  {u \in main[c].live : \/ u \in main[c].changed \/ ReadsAll(u) \cap main[c].changed # {}
                        \/ DependsOn[u] \cap main[c].live \cap main[c].changed # {}}

\* "The change is applied to every unit it actually affects, never silently
\* dropped from the scope": a run that ends green has applied all of them.
GreenRunReachesAffected ==
  [][\A i \in 1..MaxRuns : EndsGreen(i) =>
       \A u \in Affected(run[i].commit) \cap CiUnits : applied[u] >= run[i].commit]_vars
=============================================================================

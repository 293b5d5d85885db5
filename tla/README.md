# Formal models of the telemetry platform

TLA+ models, TLC runs and TLAPS proofs for the parts of the telemetry platform
whose behaviour depends on the order in which things happen or on what fails in
between: the release pipeline, the gates in front of it, the Terragrunt lanes behind
it, the log-splitting Lambda, the end-to-end gate, and the scripts that change shared
cloud resources and tool installations from CI jobs. Everything is written from the code under `src/`;
`PROJECT.json` maps each definition to the lines it models.

## 1. Inventory

The repository is a Terraform/Terragrunt platform for OTLP telemetry (collector,
CloudWatch, Firehose, S3, Athena) together with the Python scripts and GitHub
workflows that validate, release, deploy and exercise it. The program's own logic
is in `scripts/`, `.github/workflows/` and one Lambda; the Terraform modules are
declarations.

| Component | State it keeps | Operations | Hard behaviour |
|---|---|---|---|
| Release pipeline (`main-validation.yml`, `lock_branch.py`, `release_steps.py`, `check_staleness.py`, `check_release_commit.py`, `ci_calculate_version.py`) | `main`, tags, GitHub releases, the lock marker variable, `lock_branch` of the protection rule, the workflow runs and their concurrency group | skip check, validations, version check, lock, fetch, staleness check, reset, commit and push with tag, GitHub release, unlock | pushes by people and by the release itself during a release; runs lost between any two calls; values read several jobs before they are used |
| Versioning (`calculate_version.py`) | none: a function of the tags | latest tag of a unit, bump, title against squash subject | maximum over tags, forged squash subjects |
| Safety-net watchdog (`safety_net_unlock.py`, `safety-net.yml`) | none of its own; reads and deletes the marker | read, count runs, delete | a scheduled actor that decides on three reads taken at different times |
| cwl-split Lambda (`cwl_split/index.py`) and its delivery stream | the stream's buffers, `raw/` and `errors/` in S3 | pass through, drop, split and re-ingest | re-ingests into the stream that invokes it; partial puts; at-least-once invocation |
| Perf-test WAF allowlist (`perf_waf_allowlist.py`, `perf-test.yml`) | a WebACL and an IPSet shared by all jobs | apply, remove | parallel shards, optimistic locking, lost replies, an always-run cleanup |
| Terratest sweep (`terratest_sweep.py`, `terratest-sweep.yml`) | the tagged resources of the test accounts | enumerate, delete in dependency tiers, check | a lagging tag index, resources of runs in flight, dependency violations, exit status |
| Terratest runner (`run_terratest.py`, `validations.yml`) | resources, Terraform state files, plugin cache of a run | run suite, destroy retry, run-scoped sweep | a run killed anywhere; destroy that fails half-way |
| Terragrunt lanes (`terragrunt-pr.yml`, `terragrunt-apply.yml`, `perf-test.yml`, `detect_terragrunt_units.py`, `partition_units_by_account.py`, `filter_*`, `run_terragrunt.py`) | remote state and state lock per unit, the lane's concurrency group | detect units, partition, plan, approve, apply, stand up and tear down | units that a diff does not name, superseded applies, locks left behind, operators at work by hand |
| Scope detection and merge gates (`detect_scope.py`, `check_scope_override.py`, `check_merged_pr_override.py`, `aggregate_required_checks.py`, `pr-validation.yml`) | none of their own; pull requests, labels, roles, the merge queue | classify, override, aggregate, on the pull request, in the queue and after the push | three answers to one question at three times; entries built on top of each other; skipped jobs that count as passed |
| Load generation and perf report (`perf_loadgen.py`, `perf_merge_results.py`, `perf_readiness.py`, `perf_report.py`) | shard results, counters | send load, merge, wait for readiness, report | deadlines, partial shard results |
| End-to-end verification (`otlp_e2e_loadgen.py`, `e2e_verify.py`, `e2e_common.py`, `e2e_queryability_check.py`) | a manifest; synthetic objects in the lake | plan, send, poll, query, reconcile, clean up, verdict | polling budgets against a pipeline that is late, loses and doubles; midnight; leftovers of earlier runs |
| Tool installation (`ensure_tools.py`) | installed binaries and trees | probe, download, verify, install, link | a kill between any two changes of the file system, seen by the next run only |
| Bootstrap and cleanup helpers | OIDC provider, Athena workgroups | create or adopt, empty and delete | idempotency |
| Static guards, tool wrappers, generators, OPA policies, Terraform modules | none | scan, call, format, declare | none that depends on order |

How the parts interact: a push to `main` starts the release pipeline, whose scope
comes from scope detection and whose own push starts the pipeline again; the
watchdog shares the lock marker with it. Services log to CloudWatch, a
subscription filter feeds the delivery stream, the stream invokes the splitter,
and the splitter puts rows back into the same stream, which partitions them into
`raw/<tool>/` for Athena. The perf workflow deploys a stack, opens the WAF for its
shards with the allowlist script, runs the load and cleans up. The Terratest lane
creates resources that the sweep deletes if the run did not. The merge gates decide
what reaches `main`; the apply lane then deploys what a push to `main` changed and
ends with the end-to-end gate.

What makes each part correct is stated below with its module; the hazards behind
those statements are listed line by line under `hazards` in `PROJECT.json`.

## 2. Modules

| Module | Models | Kind |
|---|---|---|
| `Semver` | versions, bumps, order, latest (`calculate_version.py`) | operators |
| `ReleaseLedger` | what the pipeline promises: an append-only ledger in which every entry of a unit is one bump above its latest | abstract specification |
| `ReleaseLane` | the release pipeline, the lane, the lock, the watchdog | component, composed with `Semver` and mapped to `ReleaseLedger` |
| `ReleaseLaneProofs` | inductive invariant and proofs about `ReleaseLane` | proofs |
| `CwlSplit` | the Lambda call by call and the stream around it | component |
| `WafAllowlist` | apply and remove call by call, in the workflow's job graph | component |
| `TerratestSweep` | a test run, its sweeps and clean-up, the daily sweep, the account and its tag index | component |
| `SweepHandlers` | the deletion handlers of the sweep, call by call | component, the detail of one step of `TerratestSweep` |
| `ScopeGates` | scope detection, override and required checks, the merge queue | component |
| `TerragruntLane` | from a changed file to a deployed unit: plan lane, apply lane, perf lane | component |
| `E2EHarness` | load generator, verifier and clean-up against the pipeline | component |
| `ToolInstall` | provisioning of the pinned tools | component |
| `CwlSplitProofs`, `WafAllowlistProofs`, `TerratestSweepProofs`, `SweepHandlersProofs`, `ScopeGatesProofs`, `TerragruntLaneProofs` | inductive invariant and proofs about the component of that name | proofs |
| `E2EHarnessProofs` | inductive invariants and proofs about `E2EHarness` and about `ToolInstall`, which the jobs of the gate run first | proofs |
| `MC...`, one per component | the instances TLC checks | model-checking modules |

`TypeOK` in each module (`ToolTypeOK` in `ToolInstall`) states what the variables hold.
Definitions introduced with "Mutant of" are wrong versions of the one that follows: each
breaks the property it was written for, which shows that the property depends on that code.

### ReleaseLane

`main` is the sequence of commits. Every push starts one workflow run, so commit
`i` and run `i` share an index, which is also the run's `github.sha` and
`github.run_id`. `running` and `pending` are GitHub's concurrency group
`release-pipeline` (one run in progress, one kept pending, a newer one supersedes
it; external behaviour). `stage[r]` is the step run `r` stands before. `marker` is
the repository variable `BRANCH_LOCK_RUN_ID_MAIN` with its age, `protection` is
`lock_branch` of the protection rule, `head`, `origin` and `next` are the checkout,
`origin/main` and the version output of a run, and `wd` is the watchdog.

Each action is one remote call, or the local steps up to it, so that anything can
come between two calls:

- people: `MergePullRequest` (through the queue, which the lock stops) and
  `AdminPush` (past it);
- a run: `SkipCheck`, `Validations`, `VersionCheck`, `WriteLockMarker`,
  `EnableProtection`, `GitFetch`, `CheckStaleness`, `GitReset`, `Push` (branch and
  tag, by either bot identity), `GhRelease`, `UnlockFindsMarker`, `UnlockNoOp`,
  `DeleteLockMarker`, `DisableBranchLock`;
- faults: `StepFails` (the step exits non-zero; the unlock job runs `always()`),
  `RunLost` (the runner dies), `UnlockReadFails` (a failed read taken for an absent
  marker);
- the watchdog: `WatchdogRead`, `WatchdogDecide`, `PerformUnlock`, `WatchdogFails`,
  and `Tick` for the age of the marker. Its count of the runs in progress
  (`safety_net_unlock.py:133`) is a `gh api` call with `--field` and without `--method
  GET`, which `gh` sends as a POST and GitHub refuses: on every tick that finds a marker
  the watchdog ends with exit status 1. `CountAnswered = FALSE` is the code as it is;
  `TRUE` adds a watchdog whose count is answered, a larger set of behaviours, in which
  the safety of the lock is checked and proved as well.

The validation jobs are one step that passes or fails. Changelog text, version
file contents and git plumbing that has no remote effect are left out. A manual
re-run of a failed run and the approval of the release environment are not
modelled.

Properties: a release works under a locked `main` from lock to push
(`ReleaseUnderProtection`); only admins can move the base it fetched
(`LockedBaseMovedOnlyByAdmins`); tags sit on their own release commits on `main`
(`NoDanglingTag`); versions increase along `main` (`VersionsFollowMain`); the
version derived before the lock is still the next one at the push
(`VersionStaysNext`); one release per reviewed pull request and none of anything
else (`OneReleasePerPullRequest`); the tags implement the ledger
(`ImplementsLedger`); the lane drains (`LaneDrains`). Nothing is claimed of the marker
of a dead run: the watchdog does not get as far as clearing it.

### CwlSplit

A message is a record of what the classifier tests (top-level `tool`, EMF block,
OTLP fields, service, declared metric names); a row is a message with the form and
tool it was given. `envelope` is what each CloudWatch delivery holds, chosen at the
start among the `Envelopes`: events, a control message or a garbled record. `where` is the place of each CloudWatch delivery, `stream`,
`raw` and `errors` count the copies of each row, `inv` is the invocation in
progress and `put` the `_reingest` in progress: the positions of its chunk that are
still to put, where the next chunk starts, and the attempt. The actions are `Invoke`,
`PassThrough`, `DropControl`, `Split`, `PutRecordBatch` (any subset of the records
fails), `PutRaises` (any subset landed), `Malformed`, `Return`, `InvocationLost`.
The stream (batching, retries, partitioning by tool) is external and modelled from
how the handler and `data-lake/main.tf` use it. Timestamps, field renaming and
JSON encoding are abstracted: no property depends on them.

### WafAllowlist

`job[j]` is each command's position, retry budget and what it read last; `acl` and
`ipSets` are the remote objects with their lock tokens; `foreign` is the rules of
others as they left them. There is one action per WAFv2 call of `apply` and
`remove`. Each mutation may lose the token race, fail, or land with its reply lost.
`Init` includes what an earlier run may have left behind. `Start` follows `needs:`
of `perf-test.yml`, where the cleanup runs `always()`.

### TerratestSweep

`account` is how `accounts.json` lists the account (swept, denied to runs,
neither). `res` is each resource as it is, `index` what the tagging API shows of
it: the two agree only sooner or later. `age` is the age of each run id, `stage`
where each run's job and the daily workflow stand, `red` whether a runner has a
reason to exit non-zero, and `cmd[s]` the sweep command caller `s` is in: its
step, pass, worklist, deferred and bad resources, what its enumerations returned,
what its calls wrongly took for gone (`missed`), and its exit status.

- the account: `Drain`, `Index`, `Deindex`, `Tick`;
- a run: `StartRun`, `Creates`, `Destroys`, `GoTestEnds`, `RetryEnds`, `CleanUp`,
  and `RunnerReturns` (check, delete on residue, re-check, report);
- the daily workflow: `Cron`, and its part of `Return` (a check follows a delete
  that succeeded);
- the command: `Enumerate`, `Probe`, `DispatchDelete`, `PassEnds`, `DeleteEnds`;
- faults: `RunnerDies`, `JobLost`, `CommandFails` and a delete that fails.

Here a delete handler is one step. What the sweep makes of the handlers is nine
kinds: deleted at once (`plain`) or draining (`slow`), an ECS service, whose describe
call in a check takes any error for gone (`ecs`), a target whose handler first deletes
parts of it, so that a part that another sweep removed passes for the target (`parts`),
the default security group that
only goes with its VPC, a service without a handler, a handler without a branch for
the type, and Cost Explorer objects, found by name, with and without a creation time
in it. Argument validation, the plugin cache and the runner's suite mode (the same
sequence for several directories) are left out.

Properties: exit status 0 hides nothing live that the command enumerated
(`NoMaskedLeak`); a green run could sweep its account and its last check found nothing
of what it enumerated alive (`GreenRunIsProven`); the daily sweep
leaves runs in flight alone (`GlobalSweepSparesInFlight`); orphans go in the end
(`OrphansSwept`). What they exclude is stated in them: a delete returns 0 past a
default security group or a type its handler has no branch for (the check that
follows finds them), an ECS describe that failed and a part that was gone pass for the
target's absence (`missed`), a run id supplied from outside and an undated Cost Explorer
object have no age and are not spared, and what has no handler is reported and never
deleted.

### SweepHandlers

Most targets are not deleted by one call. `res` is each target, `parts` what must go
before it and carries no tag of its own (aliases, attachments, listeners, log
deliveries, a deletion protection), `delegated` the zones with a record in the shared
parent zone, `version` the ETag or lock token that a call must present, `listed` what
the tag index returns, and `h[s]` the handler sweep `s` is in: its step, the parts its
listing returned, the token it read, and its answer. The handlers of the script are
grouped by the shape of their call sequence (`Kinds`): a single call; list the parts,
remove them one by one, delete the target; disable, wait, read the token again,
delete; schedule a deletion; delete a zone and then its delegation; and the ones that
raise or have no branch. Two sweeps, a job's own and the daily one, work on the same
targets; `CallFails`, `Lost` and `Others` are failing calls, killed sweeps and changes
from outside.

Properties: an answer of success leaves nothing behind that no tag leads to
(`SuccessIsWhole`); a target is taken for gone only when it is (`TakenForGoneIsGone`,
except when two sweeps meet in handlers of one target, and for ECS); the shared zone
keeps the records of others (`DelegationsOfOthersStay`); every target with a branch
goes in the end, whatever state the sweeps left it in (`TargetsGo`).

### ScopeGates

`content` is what each pull request changes, `label` and `admins` the override label
and the role of its author, `event` the newest event without a run, `run` and `gate`
its newest run and the result of its head, `queue` and `group` the merge queue and the
run of each entry, `main` what landed, with what each gate made of it. Scope
detection, the two override checks and the aggregate are operators and one step of a
run each; a pull request's run knows the labels of the event that started it, the
queue and the push ask for them when they get there. Actions: `Push`, `Label`,
`ChangeRole`, `Enqueue` and `MainMoves` by people; `StartRun`, `PullRun`, `Terratest`
for the pull request; `GroupRun` and `Land` for the queue, which builds entries on top
of each other and rebuilds what stood behind one that left; `DetectScopeOfPush` for
the push. The validation jobs are a step that passes or fails. Each answer about the label
may be that of a label, of none, of an API that failed, or, on a push, of a commit for
which no merged pull request is found (`PushOverride`). The `github.actor` guards of
`pr-validation.yml` (lines 41 to 165) skip jobs for the repository's own bot, whose pushes
with `GITHUB_TOKEN` start no pull request runs; they are left out.

`Touched` is what a change is about: the paths that `git diff --name-only` prints and the
old paths of renamed files, which it does not print.

Properties: what lands touches one scope, or carries an authorized label, or is hidden by
a move (`LandedIsOneScope`, stated by what the touched files are about, not by the decision
table; `HiddenByAMove` names the exception: what git prints is of one scope and the old
paths of moved files are of another, see Findings); every module of the tree
whose code lands was tested with this very content (`LandedWasTested`), although the
queue does not test, where a directory of a module root without a `main.tf`, such as
`primitives/tests`, is no module; the push is judged as the queue entry was (`PushAgreesWithQueue`);
no entry waits for ever (`QueueDrains`).

### TerragruntLane

`main` is the commits with their diffs and the units in their tree, `applied` the
commit each unit was last applied from, `locked` the state locks left behind, `run` the
runs of the apply lane and `pr` the pull request and its plan lane. The scripts are
operators: changed files to units (own files, the `.hcl` files a unit names, spelled
dependencies), deleted units to their dependents, units to accounts, accounts to roles.
The actions are the steps of the lanes: `PushToPr`, `DetectAndPartition`, `PlanRow`,
`PlanEnds`, `Merge`; `Dispatch` (of any commit of `main`, since `workflow_dispatch` takes
any ref and no job looks at it; `behind` says that the ref was not the newest commit), and the steps of a run that holds the lane (start,
approval, preflight, apply unit by unit, validate); `PerfStandsUp`, `PerfTearsDown`;
`OperatorApplies` and `ForceUnlock`. Failing calls and lost runners are `PlanRowFails`,
`PreflightOfRowFails` and `RunnerLost`. What `terragrunt` itself does to a unit is
external.

Properties: no unit that CI deploys goes back to an older commit, except by a run that
somebody dispatched from a ref behind `main` (`NoRollback`, `TakesBack`); when the run of a
push turns green, what its commit addresses is applied from it or a later commit
(`GreenRunApplied`; a later dispatch of an older ref may take it back); a green plan has
covered what had state (`GreenPlanCoversState`); every merged change is applied,
visibly red or superseded (`MergedChangeSettles`).

### E2EHarness

`gate` is the modes to run and `run` the current one, `pc` the step of the harness;
`plans`, `answers` and `manifest` belong to the load generator, `polls`, `query`,
`fails`, `listed` and `token` to the verifier, `collector`, `cwl`, `stream`, `lake` and
`errors` are where records are, `day` is the date. The load generator's plans (what is
sent, how records are packed into requests, which answers are expected) are operators;
the packing is evaluated against its reference over all inputs of up to four records
(`ChunkingIsExact`) and proved for all inputs (`ChunkingIsComplete`). Each check of the verifier is an action that consumes polls; the
clean-up deletes page by page, each page listed from the continuation token of the one
before: an object that arrives meanwhile comes before the token's place or behind it
(`Flush` on a date for which `BeingListed`), and behind it no later page has it. Around the harness records are late, lost (`Drop`),
doubled (`Flush` with a second copy) or end as error objects (`FlushError`), and
midnight passes. `stack` leaves out parts of the deployment, so that each check has
something to miss.

Properties: a run that passes lost nothing unless a duplicate filled the gap
(`GreenRunLostNothing`); what the clean-up leaves of a date came when the listing of
that date had begun or later, or was refused (`ResidueIsLate`); it takes only synthetic objects of its own date and run, or of runs
that are over (`CleanupTouchesOwnData`); the gate ends (`GateEnds`).

### ToolInstall

`pin` is `.tool-versions`, `disk` what is installed of each tool (the binary's version
or cut off, its mode, the rest of its tree, its link), `at` and `step` where a run is,
`outcome` its exit status. A step is one change of the file system, so a run that is
killed (`Interrupted`) leaves what was done so far; the pins go up between runs
(`RaisePin`).

Properties: exit 0 means that every managed tool answers with its pin
(`ExitZeroReportsPins`); running the target again repairs what an interrupted run
left, except after an interrupted upgrade, which the property names (`RerunsRepair`).

## 3. Runs

Sizes are distinct states.

| Run | Shows | Size |
|---|---|---|
| `release_lane` | the seven invariants and the refinement of `ReleaseLedger`, with faults, lost runs and a watchdog whose count is answered | 1 114 137 |
| `release_lane_live` | the lane drains, with the watchdog as it is: its count is never answered | 185 321 |
| `orphaned_lock` (violation) | a crashed release leaves `main` locked for ever | |
| `cwl_split` | no event lost, no duplicates in a pass, `raw/` attributed, and the re-ingestion loop ends | 440 229 |
| `waf_allowlist` | no clobbered update, a cleanup that cleans, every job ends | 438 460 |
| `terratest_sweep` | exit status 0 and a green run mean what they say, runs in flight are spared and orphans swept, with two sweeps at once, a lagging index and a fault anywhere | 349 371 |
| `sweep_handlers` | success is whole, gone means gone, others keep their records, every target goes, call by call with two sweeps | 381 935 |
| `scope_gates` | nothing lands untested, or spanning scopes unauthorized unless a move hides it, the push agrees with the queue, the queue drains | 331 608 |
| `terragrunt_lane` | no rollback but by a dispatch of an older ref, green applies and plans cover what they should, merged changes settle | 222 392 |
| `change_dropped` (violation) | a green run leaves out a unit that its change affects | |
| `e2e_gate` | a pass means nothing was lost, the clean-up takes what was there when its listing began and nothing else, the gate ends | 539 091 |
| `tool_install` | exit 0 means the pins are met, and re-runs repair | 6 812 |

`CHECK_DEADLOCK FALSE` stands in every configuration because each of these systems
may come to rest: nobody pushes, the stream is empty, all jobs have ended, the account
is clean, the gate is over. That they do not rest too early is what the liveness
properties say.

### Bounds

- Release lane: two pushes by people and four commits, so that two releases of the
  same module overlap, a release's own commit enters the lane behind or in front
  of a waiting merge, and the pending slot is contended. `LockMaxAge = 1` gives the
  watchdog a fresh and an expired marker. One module plus the scope `all`, which
  releases nothing; tags of different units do not interact. The proofs remove all
  of these bounds.
- Splitter: two deliveries with one of three contents: the three events the classifier
  can confuse beside a control message; two rows beside a garbled record; an event
  without any row beside a healthy one. `PutRecordBatchMax = 2` gives a full and a
  partial chunk, two attempts give a retry and its exhaustion, one stream retry gives
  a second pass over the same delivery, `MaxBatch = 2` puts a healthy record beside a
  malformed one.
- WAF: the skeleton job, two shards, one apply by hand outside the workflow, the
  cleanup, one edit by others and one retry of each attempt. Two shards are the
  smallest number that can clobber each other.
- Sweep: one run and the daily sweep, which are two commands at once on the same
  resources, and one fault. Seven fixtures: a network with something in it that drains
  (the shortest chain that forces a second pass, and `MaxPasses = 2` makes that pass
  the last), one with a default security group, a resource without a handler
  beside a dated Cost Explorer object, an undated one, one without a branch in its
  handler, an ECS service, and a role with parts of its own. With
  `MinAge = 2` and `GoTimeout = 1` a run is young, then at its time limit, then old.
  The exit status is taken modulo 256 as the shell does; the instance does not reach
  that.
- Handlers: two sweeps, a target of each kind in turn, two zones under one parent, two
  parts at most: one that somebody removes between the listing and its call, and one
  that is left.
- Merge gates: two pull requests, two modules, a directory of fixtures beside them and the
  live tree; contents of one scope, of two with a fixture, and a move between modules; two entries built at once, one edit (of
  content, label or role) and one push past the queue.
- Terragrunt: the prod data lake, its collector (an interpolated dependency), a DNS
  unit, the sandbox data lake and a bootstrap unit for each of four accounts, shared
  files read directly and indirectly, two runs and one fault: the second run is the one
  that waits, is superseded or meets the lock of the first.
- End-to-end gate: two records, two polls, listing pages of one key, one midnight, two
  copies, two faults; gates of two modes on a whole stack and of one mode on stacks
  without one part.
- Tools: one tool for each method of provisioning, pins 1 and 2, two faults: one
  interrupted installation and one interrupted upgrade.

### Fairness

- `ReleaseLane!Fairness`: weak fairness of the run in progress (GitHub keeps
  running a started job), of time and of the watchdog (cron). Nothing is assumed of
  people or of faults, and not that any call of the watchdog succeeds.
- `CwlSplit!FairSpec`: the stream invokes while it holds records and the Lambda
  runs. Puts may still fail on every attempt.
- `WafAllowlist!FairSpec`: each job takes its steps. Lost races and lost replies
  may recur; the retry budget bounds them.
- `TerratestSweep!FairSpec`: every job and every command takes its steps, the daily
  schedule keeps coming, AWS finishes deletions and catches up its index, and time
  passes. Faults are at most `MaxFaults`.
- `SweepHandlers!FairSpec`: each sweep keeps running and AWS finishes what it accepted;
  strong fairness of starting in delete mode, because the daily workflow deletes
  before it checks every time, so sweeps are not checks for ever.
- `ScopeGates!FairSpec`: GitHub runs the checks of queue entries and merges. Nothing is
  assumed of authors and of the runs on pull requests.
- `TerragruntLane!FairSpec`: some run of the lane takes its next step: runners work and
  reviewers decide, either way.
- `E2EHarness!Spec`: the harness runs. Nothing is assumed of the pipeline: it may
  never deliver.
- `ToolInstall!FairSpec`: the target is run again.

### Findings

Shown by a run:

- `safety_net_unlock.py:231`: nothing frees the `main` that a dead run left locked
  (`orphaned_lock`). The watchdog's unlock deletes the marker and leaves `lock_branch`
  set, after which every unlock is a no-op; and it does not get that far, since the count
  at `:133` is sent as a POST and fails on every tick that finds a marker (the tests
  replace `gh`, so they do not see it).
- `detect_terragrunt_units.py:296`: only `.hcl` files a unit names itself and
  dependencies spelled without interpolation are followed, so a unit can be affected
  by a change and be missing from its scope; the documentation says it is never
  silently dropped (`change_dropped`).

Stated in a module as what the documentation says; adding the definition to the
module's configuration produces the counterexample:

- `ReleasedBaseFresh`, `main-validation.yml:235`: the staleness check diffs the merge
  commit against the checkout of that same commit, because `git fetch` moves
  `origin/main` and not `HEAD`. It cannot fail, and the release goes out on whatever is
  on `main`.
- `NoReleaseRunSuperseded`, `main-validation.yml:28`: with two merges only, the run
  created by the first release's commit supersedes the pending run of the second merge,
  whose release never happens; the documentation expects this only in larger bursts.
- `RuleReferencesIpSet`, `perf_waf_allowlist.py:352`: an existing allow rule is accepted
  whatever IPSet it refers to, although the docstring promises a rule that refers to the
  given one. The instance is the pair of jobs `HandJobs` in `MCWafAllowlist`.
- `ExitZeroIsWhole`, `ensure_tools.py:706`: an upgrade of the Go tree that is cut off
  after its binary leaves a tree that probes as current and is not whole, for good.
- `GroupSeesItsPull`, `pr-validation.yml:112`: the diff of a queue entry built on top of
  another contains both, although the comment says it is exactly the PR's changes.
- `FreshErrorsFail`, `e2e_verify.py:458`: `str(LastModified)` has a blank where the
  manifest's ISO time has a `T`, so an error object of the same day never counts as
  fresh.
- `AlreadyDeletedIsGone`, `terratest_sweep.py:2189`: a NotFound of any call of a handler
  passes for the target's absence; when two sweeps meet it may be a part's.

Met while modelling, part of the models or excluded by name in a property:

- `terratest_sweep.py:683`: a Cost Explorer monitor or subscription that matches by its
  suffix has no time in its name and is deleted at any age, although the age guard is
  documented (`constants.py:128`) to protect jobs in flight; the one fixture that creates
  a monitor names it that way (`observability/examples/default/main.tf:215`).
- `terratest_sweep.py:1334`: the ECS probe takes every error for gone; `:1363`: the
  IAM, ELB and Athena handlers answer deleted for a type they have no branch for;
  `:1079`: a zone whose name cannot be read loses its delegation silently;
  `NoSuchHostedZone` is not among the benign codes, so a zone that went meanwhile
  fails the sweep. A check, or a runner, whose describe call of a live ECS service failed
  exits 0 beside it (`missed`).
- `terratest_sweep.py:2461`, `run_terratest.py:1043`: the number of matches, or of
  residual resources, is the exit status, which a process keeps modulo 256: 256 of them
  end green, after a failed `go test` too.
- `terragrunt-apply.yml:10`: a dispatch from a ref behind `main` applies the older commit,
  and nothing in the workflow asks for the ref.
- `cwl_split/index.py:81`: `REINGEST_MAX_ATTEMPTS` of 0 or less drops deliveries without
  an error; `:296`: an EMF event without a usable metric vanishes.
- `release_steps.py:162`: the GitHub release follows the push, so a failure there leaves a
  tag without a release, and no later run creates it.
- `ci_detect_scope.py:58`: `git diff --name-only` hides the old path of a rename, so a
  module that only lost files is neither classified nor tested: a file moved out of one
  module together with a change of another lands as one scope, without a label, although
  `detect_scope.py:3-5` and AC-15 ask for exactly one scope of what changed
  (`HiddenByAMove`).
- `check_merged_pr_override.py:352`: a label or role that changes between the queue and
  the push changes the answer, and the push of what was allowed in is refused.
- `e2e_verify.py:417`: an object of an earlier run satisfies the wait for objects, after
  which the reconciliation looks once: a false alarm, not a missed loss.
  `reconcile_counts` says exact and asks for at least. Errors per key of the quiet
  `delete_objects` are ignored, although the docstring says never silent. Objects that
  arrive after midnight are never cleaned up. `docs/e2e-harness.md` names
  `tool="synthetic-e2e-<run-id>"`; the code uses `e2e-smoke`.
- `otlp_e2e_loadgen.py:855`: a rate burst in which nothing is limited exits with 0, and
  the modes that send no data always fail the verifier, whose expected count is at
  least one.

## 4. Proofs

Each proof module EXTENDS its component (`E2EHarnessProofs` two of them) and proves its theorems for every value of the
constants: any number of actors, resources, commits, retries and faults. A theorem
`Spec => []P` rests on an inductive invariant, proved action by action
(the lemmas `...Keeps`) and checked by TLC on the instance of the run before it was proved. The
assumptions are the named `ASSUME`s of the component, which TLC evaluates in every run,
and a hypothesis where one is written in the theorem.

### ReleaseLaneProofs

| Theorem | States |
|---|---|
| `TypeCorrect` | `Spec => []TypeOK` |
| `LockHolds` | `Spec => []ReleaseUnderProtection` |
| `BaseIsHeld` | `Spec => []LockedBaseMovedOnlyByAdmins` |
| `TagsAreOnMain` | `Spec => []NoDanglingTag` |
| `VersionsIncrease` | `Spec => []VersionsFollowMain` |
| `VersionIsFresh` | `Spec => []VersionStaysNext` |
| `ReleasedOnce` | `Spec => []OneReleasePerPullRequest` |
| `Refinement` | `Spec => Ledger!Spec` |

None of the properties is inductive alone. `IInv` adds the reasons they hold:

- `LaneInv`: a run stands before a step iff it is the run in progress, is pending
  iff it is the pending one, and exists iff its commit does. It makes the lock's
  missing owner check harmless: there is no other run whose unlock could interfere.
- `ReviewedInv`: what the version check established about a run's commit is still
  true when the run releases.
- `BotInv`: a release commit has no pull request, so it is never released.
- `LatestInv`: the tags of a unit have a greatest version, which `NextVersion`
  chooses; without it `CHOOSE` would say nothing.
- `SourceInv`: a run whose tag exists is past its push, so it does not push again.

`ReleaseUnderProtection` is inductive with these because only `DisableBranchLock`
clears the protection and only the run in progress takes that step: the watchdog
deletes the marker alone. (The same fact is why it cannot recover an orphaned
lock.) The version lemmas (`ApplyBumpFacts`, `LessTransitive` and the lemmas on the
latest version) are stated once. The refinement maps a tag to its ledger entry; `Push`
is the only step that is not a stutter, and it is a `Publish` because of
`VersionStaysNext`.

### CwlSplitProofs

| Theorem | States |
|---|---|
| `TypeCorrect` | `Spec => []TypeOK`, with the limits of a put and of its attempts |
| `NothingIsLost` | `Spec => []NoEventLost` |
| `NoRowTwice` | `Spec => []NoRowTwicePerPass` |
| `RawIsAttributed` | `Spec => []RawRowsAttributed` |

`SplitInv` says why dropping the original is safe. A row of the delivery at hand is
`Kept` (somewhere in the stream, an invocation or the lake) or `Due` (in the chunk, or
after it), and `Answer("Dropped")` is taken only when nothing is due. A row that is due
counts as a copy of the pass that will put it (`Once`): a put moves rows from due to
the stream, a retry keeps only the failed positions due, and so no count grows except
at `Split`, which also counts a start. `InvocationInv` says that the batch has no record
twice and that the answers so far are right, because the stream acts on them only at
`Return`.

What `FlattenSeq`, `SetToSeq` and `Count` compute is proved, not assumed.
`FlattenSeq` is a recursive function; the induction over its argument uses the
least-number principle (`LeastNat`, from the well-foundedness of `<` on `Nat`): the set
of lengths at which the claim fails is a set, has no least member, and so is empty.
Assumed of the events is that an event is in one delivery, once, which is what its id
stands for (`EnvelopeAssumption`), and that compressed records and rows can be told
apart (`RecordsAssumption`).

### WafAllowlistProofs

| Theorem | States |
|---|---|
| `TypeCorrect` | `Spec => []TypeOK` |
| `OthersRulesStay` | `Spec => []ForeignRulesPreserved` |
| `CleanupIsComplete` | `Spec => []RemoveLeavesNothing` |
| `ShardsStayAllowed` | `OneName => (Spec => []AppliedStaysAllowed)` |

`LockInv` says why optimistic locking is enough: a job whose token is current holds the
current contents (`AclRead`, `SetRead`), so what it writes differs from what is there by
its own rule only. `CleanupInv` adds what the last job has removed so far when every
other job has ended, `Allowed` that before a removal the one ALLOW rule refers to the
one set, which only grows until then. `OneName` (all jobs name the same IPSet) is what
`perf-test.yml` does; without it an existing rule is kept whatever set it refers to
(`RuleReferencesIpSet` under Findings) and the property is false.

### TerratestSweepProofs

| Theorem | States |
|---|---|
| `TypeCorrect` | `Spec => []TypeOK` |
| `NothingIsMasked` | `FitsStatus => (Spec => []NoMaskedLeak)` |
| `GreenIsProven` | `FitsStatus => (Spec => []GreenRunIsProven)` |
| `InFlightIsSpared` | `Spec => GlobalSweepSparesInFlight` |

`SweepInv` follows a command from its enumeration to its exit: what it has seen is
gone or on its way, or on one of its lists (`Accounts`), and a status of 0 comes from
empty lists (`ExitIsTrue`). `InTime` and `OldEnough` relate the age of a run to its
stage and to what a daily sweep remembers of it: what was old enough when it was listed
still is when it is deleted. `FitsStatus` (fewer than 256 resources) is needed because a
number of resources is an exit status, of the daily check and of the runner: 256 of them
exit with 0. What a sweep wrongly took for gone (`missed`) is carried along with what it
has seen, and both theorems except it by name.

### SweepHandlersProofs

| Theorem | States |
|---|---|
| `TypeCorrect` | `Spec => []TypeOK` |
| `NothingLeftBehind` | `Spec => []SuccessIsWhole` |
| `GoneIsGone` | `Spec => []TakenForGoneIsGone` |
| `OthersDelegationsStay` | `Spec => DelegationsOfOthersStay` |

`HandlerInv` says what each step of a handler knows of its target (`OwnCalls`: whose
calls they are, which of the listed parts are still there), in which states the account
can be (`AccountInv`: a target is accepted for deletion after its parts only), and that
two sweeps in a handler of one target know of each other (`Meet`). Nothing of a target
comes back (`Forward`), so what a sweep knows stays true whatever the others do.

### ScopeGatesProofs

| Theorem | States |
|---|---|
| `TypeCorrect` | `Spec => []TypeOK` |
| `NothingMixedLands` | `Spec => []LandedIsOneScope` |
| `PushIsAccepted` | `Spec => []PushAgreesWithQueue` |
| `DiscoveredWereTested` | `Spec => []LandedWasTested` |

`GateInv` says what a green check stands for: the check of a queue entry passes for what
its own pull request changes, whatever else is in its diff (`GroupSees`), a run that can
still pass has chosen every module its head makes due (`RunSees`), and a head with a
green gate or a place in the queue was tested as it is (`HeadTested`). The decision table is reduced to one fact, `NoMix`, which a larger diff
can only make harder to satisfy: that is why the queue may classify an entry together
with the entries under it. A module that
a change deletes as a whole, and a directory of a module root without a `main.tf`, are not
discovered and not tested: `CodeModules` are the ones that `discover_all_modules` finds,
and `DiscoveredWereTested` is about those.

### TerragruntLaneProofs

| Theorem | States |
|---|---|
| `TypeCorrect` | `PerfIsOnDemand => (Spec => []TypeOK)` |
| `NeverRollsBack` | `PerfIsOnDemand => (Spec => NoRollback)`, dispatches from older refs excepted |
| `GreenMeansApplied` | `PerfIsOnDemand => (Spec => GreenRunApplied)` |
| `GreenPlanIsComplete` | `PerfIsOnDemand => (Spec => []GreenPlanCoversState)` |

`LaneInv`: one run is in the lane (`OneAtATime`), no unit is ahead of the run that holds
it (`NotAhead`), the two but for runs dispatched from an older ref, and what the run of a push
no longer has to do is applied from its commit or a later one (`Covered`: nothing
else applies a unit that CI deploys while a run holds the lane). `Forward` is what every step does: units go
forward, or back by such a dispatch, and a run turns green only when it is covered.
`PlanCovers` is the same for the accounts a plan lane has been through.
`PerfIsOnDemand` is the split `accounts.json` makes: the account of the perf environment
is not one CI deploys, otherwise the perf clean-up would destroy what the lane applied.

### E2EHarnessProofs

| Theorem | States |
|---|---|
| `ChunkingIsComplete` | `chunk_into_requests` carries every record in order and once; no request is empty, and one of several records is within the cap |
| `GateTypeCorrect` | `Spec => []TypeOK` |
| `GreenLostNothing` | `Spec => []GreenRunLostNothing` |
| `ResidueCameLate` | `Spec => []ResidueIsLate` |
| `CleanupIsOwn` | `Spec => CleanupTouchesOwnData` |
| `ToolTypeCorrect` | `EnsureSpec => []ToolTypeOK` |
| `ExitZeroIsPinned` | `EnsureSpec => []ExitZeroReportsPins` |

`ChunkingIsComplete` is about a loop, so it needs an induction over the records packed so
far. The loop is a recursive function on `0..Len(specs)`, and the set of the positions up
to which the packing is right has no least missing element, by the well-foundedness of
the naturals: an induction without an operator as a parameter.

`GreenRunLostNothing` compares numbers (the manifest's counts with the rows of an Athena
query), and says something about records. `GateInv` has what leads from one to the other:

- `RunsInv`: a run id belongs to one run, and no record has it before that run sends.
- `FlowInv`, `OnceInv`: a record comes from the stage before, is in one place, and its
  copies are numbered, so an object of the lake is known by its record and its copy.
- `SentInv`, `CountedInv`: the accepted records of the run are those of the requests
  answered 200, and the manifest counts exactly these.
- `RowsInv`: unless a record of the run was doubled, the rows of a type are at most the
  accepted records of that type that arrived (an injection from objects to records).
- `VerdictInv`: when no probe failed, at least as many rows as counted were read, so the
  records that arrived, a subset of the accepted ones, are all of them. A doubled record
  is what breaks the argument, and `GreenRunLostNothing` names that case.
- `CleanupInv`: an object behind the place the listing has reached that is still there was
  refused by S3, or came while the listing was going on. Both count as residue, so what the
  last page does not take is residue, and what comes afterwards is too.

`GatesAssumption` says that a gate has a run and that its modes are those of
`constants.E2E_MODES` (the load generator exits on any other), `EventsAssumption` that
event types are names and that a data mode has one to give, `BoundsAssumption` that the
budgets are numbers. The sizes, the cap, the deployments and which faults happen are free.

`EnsureSpec` is the specification of `ToolInstall`, whose names differ from those of
`E2EHarness` so that one module can extend both; the two share no variable. `ToolsInv`:
the tools a run is through with answer with their pins, and no later step of the run
touches them. `ToolsAssumption` and `PinsAssumption`: the tools are different names, each
with a method, and the bounds are numbers.

### Only model-checked

Liveness: `LaneDrains`, `StreamDrains`, `JobsEnd`, `OrphansSwept`,
`TargetsGo`, `QueueDrains`, `MergedChangeSettles`, `GateEnds`, `RerunsRepair`. The prover
handles neither fairness nor `ENABLED`. Every safety property of the passing runs is
proved.

## 5. Not modelled

- Load generation and perf report: statistics and formatting over measured latencies.
  Their outcome depends on numbers that a model would have to invent; the job graph
  around them, with the shared WebACL, is in `WafAllowlist`, their stack in
  `TerragruntLane`.
- `live_verify.py`: a read-only report, for a person to read, without a decision that
  anything acts on.
- Bootstrap and cleanup helpers: short sequences of idempotent calls, each followed by
  nothing that could be left half done.
- Static guards and OPA policies: predicates over text and plans, without state, with
  unit tests of their own; a model would repeat the text matching.
- Tool wrappers, generators, `binary_runner.py`, `tg_output.py`: command lines and
  formatting.
- Terraform modules: declarations. What `CwlSplit`, `E2EHarness` and `WafAllowlist` rely
  on is read from them.
- Within modelled parts: changelog text, the validation jobs' contents, payload formats,
  timestamps (except where they are compared), the runner's suite mode, a manual re-run
  of a workflow run.

## 6. Plan

Done: `Semver` and `ReleaseLedger`; `ReleaseLane`, `CwlSplit`, `WafAllowlist`,
`TerratestSweep`, `SweepHandlers`, `ScopeGates`, `TerragruntLane`, `E2EHarness` and
`ToolInstall`, with the proofs of their safety properties.

Models to come: two Terratest runs at once, the merge of perf shard results, and
`ReleaseLane` with the scope that `ScopeGates` gives a push.

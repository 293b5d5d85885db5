--------------------------- MODULE TerratestSweep ---------------------------
(***************************************************************************)
(* The Terratest runs and the sweeps that clean up behind them: the runner *)
(* (scripts/run_terratest.py) with its own check, delete and re-check, the *)
(* clean-up step of its CI job (validations.yml), the daily global sweep   *)
(* (terratest-sweep.yml) and the sweep command they all call               *)
(* (scripts/terratest_sweep.py), in one account.                           *)
(*                                                                         *)
(* The command knows only what the tag index shows, which lags behind the  *)
(* account in both directions; runs create and destroy resources, other    *)
(* sweeps delete them and deletions finish while it works.                 *)
(***************************************************************************)
EXTENDS Integers, FiniteSets

CONSTANTS
  Runs,          \* run ids
  AutoId,        \* the run ids of the generated shape, whose age can be parsed
  Resources,     \* what the runs may create
  Fixtures,      \* what the module under test really creates, one of these
  RunOf,         \* each resource's terratest-run tag, or the run that creates it
  Kind,          \* how the sweep treats it, see Kinds
  Tier,          \* its place in the order of a pass
  Needs,         \* what it needs: those cannot be deleted while it exists
  MinAge,        \* TT_SWEEP_MIN_AGE_MINUTES, in ticks
  GoTimeout,     \* GO_TEST_TIMEOUT, in ticks
  MaxPasses,     \* TT_SWEEP_MAX_DELETE_PASSES
  MaxFaults      \* bound: failing calls and lost processes

\* plain, slow: deleted at once, or after a while in which the check sees it is
\* going.  ecs: slow, and any failure of the check's describe passes for gone.  parts:
\* its handler deletes parts of it first, with calls of their own.  default_sg: goes
\* with its VPC only.  no_handler: no handler for the service.  no_branch: a handler
\* that does nothing for this type.  dated, undated: Cost Explorer monitors and
\* subscriptions, which have no tags, with or without a creation time in their names.
Kinds == {"plain", "slow", "ecs", "parts", "default_sg", "no_handler", "no_branch", "dated", "undated"}

Untagged(r) == Kind[r] \in {"dated", "undated"}

ASSUME ResourcesAssumption ==
  /\ AutoId \subseteq Runs /\ "global" \notin Runs
  /\ IsFiniteSet(Resources) /\ RunOf \in [Resources -> Runs]
  /\ Fixtures \subseteq SUBSET Resources
  /\ Kind \in [Resources -> Kinds]
  /\ Tier \in [Resources -> 0..3]
  /\ Needs \in [Resources -> SUBSET Resources]
  \* What a run creates needs only what it created itself; a default group needs its VPC.
  /\ \A r \in Resources : \A q \in Needs[r] : RunOf[q] = RunOf[r]
  /\ \A r \in Resources : Kind[r] = "default_sg" => \A q \in Needs[r] : ~Untagged(q)
\* Every test.config allows go test less time than the age the sweep spares.
ASSUME TimesAssumption == MinAge \in Nat /\ GoTimeout \in Nat /\ GoTimeout < MinAge
ASSUME BudgetAssumption == MaxPasses \in Nat \ {0} /\ MaxFaults \in Nat

-----------------------------------------------------------------------------
VARIABLES
  fixture,   \* what the tests create
  account,   \* what accounts.json says of it: swept, denied to runs, or neither
  res,       \* each resource in the account
  index,     \* the resources the tagging API returns
  age,       \* each run id's age, up to MinAge
  stage,     \* where each run's job is, and the daily workflow
  red,       \* each run: the runner's exit status is, or is going to be, non-zero
  cmd,       \* the sweep command each of them is in
  faults     \* how many faults there were

vars == <<fixture, account, res, index, age, stage, red, cmd, faults>>

Callers == Runs \cup {"global"}

Checking == {"check", "recheck"}
Deleting == {"delete", "cleanup"}

\* seen: what any enumeration returned and is live.  missed: what a call wrongly took
\* for gone.  young: the run ids too young when the command started (now_utc).  bad:
\* unsupported or failed in this pass.
NoCmd == [step |-> "start", pass |-> 0, todo |-> {}, pending |-> {}, bad |-> {},
          seen |-> {}, missed |-> {}, young |-> {}, code |-> 0]

TypeOK ==
  /\ fixture \in Fixtures
  /\ account \in {"swept", "denied", "other"}
  /\ res \in [Resources -> {"none", "live", "deleting", "gone"}]
  /\ index \subseteq {r \in Resources : ~Untagged(r) /\ res[r] # "none"}
  /\ age \in [Runs -> 0..MinAge]
  /\ stage \in [Callers -> {"new", "testing", "retry", "reported", "ended", "lost", "idle"}
                           \cup Checking \cup Deleting]
  /\ red \in [Runs -> BOOLEAN]
  /\ cmd \in [Callers -> [step : {"start", "probe", "pass", "ce", "exit"}, pass : 0..MaxPasses,
                          todo : SUBSET Resources, pending : SUBSET Resources,
                          bad : SUBSET Resources, seen : SUBSET Resources,
                          missed : SUBSET Resources, young : SUBSET Runs, code : Nat]]
  /\ faults \in 0..MaxFaults

Init ==
  /\ fixture \in Fixtures
  /\ account \in {"swept", "denied", "other"}
  /\ res = [r \in Resources |-> "none"]
  /\ index = {}
  /\ age = [u \in Runs |-> 0]
  /\ stage = [s \in Callers |-> IF s = "global" THEN "idle" ELSE "new"]
  /\ red = [u \in Runs |-> FALSE]
  /\ cmd = [s \in Callers |-> NoCmd]
  /\ faults = 0

Fault == faults < MaxFaults /\ faults' = faults + 1

-----------------------------------------------------------------------------
(***************************************************************************)
(* The account.                                                            *)
(***************************************************************************)

Exists(r) == res[r] \in {"live", "deleting"}

\* Something that needs r is still there; a default security group is no obstacle.
Blocked(r) == \E q \in Resources : r \in Needs[q] /\ Exists(q) /\ Kind[q] # "default_sg"

\* The account after a delete of r was accepted: default groups go with their VPC.
Deleted(r) == [q \in Resources |->
  IF q = r THEN IF Kind[r] \in {"slow", "ecs"} THEN "deleting" ELSE "gone"
  ELSE IF Kind[q] = "default_sg" /\ r \in Needs[q] /\ Exists(q) THEN "gone"
  ELSE res[q]]

Drain(r) ==
  /\ res[r] = "deleting"
  /\ res' = [res EXCEPT ![r] = "gone"]
  /\ UNCHANGED <<fixture, account, index, age, stage, red, cmd, faults>>

\* The tag index catches up.
Index(r) ==
  /\ Exists(r) /\ ~Untagged(r) /\ r \notin index
  /\ index' = index \cup {r}
  /\ UNCHANGED <<fixture, account, res, age, stage, red, cmd, faults>>

Deindex(r) ==
  /\ res[r] = "gone" /\ r \in index
  /\ index' = index \ {r}
  /\ UNCHANGED <<fixture, account, res, age, stage, red, cmd, faults>>

\* Time passes for all run ids; go test is killed when its time is up.
Tick ==
  /\ \E u \in Runs : stage[u] # "new" /\ age[u] < MinAge
  /\ \A u \in Runs : stage[u] = "testing" => age[u] < GoTimeout
  /\ age' = [u \in Runs |-> IF stage[u] # "new" /\ age[u] < MinAge THEN age[u] + 1 ELSE age[u]]
  /\ UNCHANGED <<fixture, account, res, index, stage, red, cmd, faults>>

-----------------------------------------------------------------------------
(***************************************************************************)
(* The runner, up to its sweeps.                                           *)
(***************************************************************************)

\* s goes on to stage to, with a new sweep command if that is one.
Enter(s, to) == stage' = [stage EXCEPT ![s] = to] /\ cmd' = [cmd EXCEPT ![s] = NoCmd]

\* _check_deny_set refuses before there is a run id for anybody to sweep.
StartRun(u) ==
  /\ stage[u] = "new"
  /\ Enter(u, IF account = "denied" THEN "ended" ELSE "testing")
  /\ UNCHANGED <<fixture, account, res, index, age, red, faults>>

\* terraform apply in go test.
Creates(r) ==
  /\ r \in fixture /\ stage[RunOf[r]] = "testing" /\ res[r] = "none"
  /\ \A q \in Needs[r] : res[q] = "live"
  /\ res' = [res EXCEPT ![r] = "live"]
  /\ UNCHANGED <<fixture, account, index, age, stage, red, cmd, faults>>

\* terraform destroy, in go test or in _retry_terraform_destroy.
Destroys(r) ==
  /\ stage[RunOf[r]] \in {"testing", "retry"} /\ res[r] = "live" /\ ~Blocked(r)
  /\ Kind[r] # "default_sg"
  /\ res' = Deleted(r)
  /\ UNCHANGED <<fixture, account, index, age, stage, red, cmd, faults>>

\* go test ends, whatever it left behind; its failure calls for the retry.
GoTestEnds(u) ==
  /\ stage[u] = "testing"
  /\ \/ Enter(u, "check") /\ UNCHANGED red
     \/ Enter(u, "retry") /\ red' = [red EXCEPT ![u] = TRUE]
  /\ UNCHANGED <<fixture, account, res, index, age, faults>>

\* The retry gives up or is done, and the state files are deleted.
RetryEnds(u) ==
  /\ stage[u] = "retry"
  /\ Enter(u, "check")
  /\ UNCHANGED <<fixture, account, res, index, age, red, faults>>

\* The runner's process ends early: an exception, a cancelled step.  The job's
\* clean-up runs always().
RunnerDies(u) ==
  /\ stage[u] \in {"testing", "retry", "check", "delete", "recheck"}
  /\ Fault
  /\ Enter(u, "reported") /\ red' = [red EXCEPT ![u] = TRUE]
  /\ UNCHANGED <<fixture, account, res, index, age>>

\* The machine is lost, and the clean-up with it; or the daily workflow's.
JobLost(s) ==
  /\ stage[s] \notin {"new", "ended", "lost", "idle"}
  /\ Fault
  /\ Enter(s, IF s = "global" THEN "idle" ELSE "lost")
  /\ UNCHANGED <<fixture, account, res, index, age, red>>

\* The clean-up step of the job.
CleanUp(u) ==
  /\ stage[u] = "reported"
  /\ Enter(u, "cleanup")
  /\ UNCHANGED <<fixture, account, res, index, age, red, faults>>

\* The daily schedule; the workflow's concurrency group allows one at a time.
Cron ==
  /\ stage["global"] = "idle"
  /\ Enter("global", "delete")
  /\ UNCHANGED <<fixture, account, res, index, age, red, faults>>

-----------------------------------------------------------------------------
(***************************************************************************)
(* The sweep command.                                                      *)
(***************************************************************************)

At(s, step) == stage[s] \in Checking \cup Deleting /\ cmd[s].step = step

\* Mutant of Young: the age a run id may reach counts as young.
YoungForEver == {u \in AutoId : age[u] <= MinAge}

\* _run_id_age_minutes and _partition_by_min_age: the run ids to be spared.
Young == {u \in AutoId : age[u] < MinAge}

\* Mutant of Inventory: nothing is spared.
InventoryUnspared(s) == {r \in index : s = "global" \/ RunOf[r] = s}

\* _enumerate_and_spare: a run's own resources, or those of every run that is
\* not known to be young.
Inventory(s) ==
  {r \in index : IF s = "global" THEN RunOf[r] \notin Young ELSE RunOf[r] = s}

\* Monitors and subscriptions by name; only a dated name can be too young.
CostExplorer(s) ==
  {r \in Resources : /\ s = "global" /\ Untagged(r) /\ res[r] = "live"
                     /\ Kind[r] = "dated" => RunOf[r] \notin cmd[s].young}

\* The command goes on; of what it saw only what is still live is of interest.
Set(s, c) == cmd' = [cmd EXCEPT ![s] = [c EXCEPT !.seen   = {r \in @ : res'[r] = "live"},
                                                 !.missed = {r \in @ : res'[r] = "live"}]]

\* The command ends; what it saw is kept for the properties.
Exit(s, status) == Set(s, [NoCmd EXCEPT !.step = "exit", !.code = status,
                                        !.seen = cmd[s].seen, !.missed = cmd[s].missed])

\* main up to the first inventory.  An account that is not on the allowlist is
\* refused before anything is enumerated.
Enumerate(s) ==
  /\ At(s, "start") /\ UNCHANGED res
  /\ IF account # "swept" THEN Exit(s, 1)
     ELSE Set(s, [NoCmd EXCEPT !.step = IF stage[s] \in Checking THEN "probe" ELSE "pass",
                               !.pass = 1, !.todo = Inventory(s), !.seen = Inventory(s),
                               !.young = Young])
  /\ UNCHANGED <<fixture, account, index, age, stage, red, faults>>

\* What the check counts: all but what a probe of its service proves is gone.
Residue(r) == ~(Kind[r] \in {"slow", "ecs"} /\ res[r] # "live")

\* Check mode: the number of matches is the result, which the runner reads in
\* its own process and the workflow as the exit status of another.  The describe
\* calls of some ECS resources may fail, and those are not counted; a failure of
\* another probe counts the resource, or ends the command (CommandFails).
Probe(s) ==
  \E missed \in SUBSET {r \in cmd[s].todo : Kind[r] = "ecs" /\ res[r] = "live"} :
    LET found == {r \in cmd[s].todo \ missed : Residue(r)} \cup CostExplorer(s)
    IN  /\ At(s, "probe") /\ UNCHANGED res
        /\ IF missed = {} THEN UNCHANGED faults ELSE Fault
        /\ Set(s, [NoCmd EXCEPT !.step = "exit", !.seen = cmd[s].seen \cup CostExplorer(s),
                                !.missed = missed,
                                !.code = IF s = "global" THEN Cardinality(found) % 256
                                         ELSE Cardinality(found)])
        /\ UNCHANGED <<fixture, account, index, age, stage, red>>

\* A dependency violation can no longer be deferred.
FinalPass(s) == cmd[s].pass = MaxPasses \/ cmd[s].step = "ce"

\* The command after a delete that something still prevents.
Deferred(s, r) ==
  IF FinalPass(s) THEN [cmd[s] EXCEPT !.todo = @ \ {r}, !.bad = @ \cup {r}]
  ELSE [cmd[s] EXCEPT !.todo = @ \ {r}, !.pending = @ \cup {r}]

\* Another caller's handler or terraform may be at work on r.
Contended(s, r) ==
  \/ stage[RunOf[r]] \in {"testing", "retry"}
  \/ \E t \in Callers \ {s} : (At(t, "pass") \/ At(t, "ce")) /\ r \in cmd[t].todo

\* _dispatch_delete: tier by tier, in any order within a tier.  When the other takes
\* a part away first, the handler meets a NotFound for the part and r, which is
\* still there, passes for deleted.
DispatchDelete(s, r) ==
  LET done == [cmd[s] EXCEPT !.todo = @ \ {r}]
      Bad  == [done EXCEPT !.bad = @ \cup {r}]
  IN  /\ At(s, "pass") \/ At(s, "ce")
      /\ r \in cmd[s].todo /\ \A q \in cmd[s].todo : Tier[r] <= Tier[q]
      /\ \/ /\ Kind[r] = "no_handler"
            /\ UNCHANGED <<res, faults>> /\ Set(s, Bad)
         \/ /\ Kind[r] \in {"default_sg", "no_branch"} \/ (Kind[r] # "no_handler" /\ res[r] # "live")
            /\ UNCHANGED <<res, faults>> /\ Set(s, done)
         \/ /\ Kind[r] = "parts" /\ res[r] = "live" /\ Contended(s, r)
            /\ UNCHANGED <<res, faults>> /\ Set(s, [done EXCEPT !.missed = @ \cup {r}])
         \/ /\ Kind[r] \in {"plain", "slow", "ecs", "parts", "dated", "undated"}
            /\ res[r] = "live"
            /\ \/ Blocked(r) /\ UNCHANGED <<res, faults>> /\ Set(s, Deferred(s, r))
               \/ ~Blocked(r) /\ res' = Deleted(r) /\ Set(s, done) /\ UNCHANGED faults
               \/ Fault /\ UNCHANGED res /\ Set(s, Bad)
      /\ UNCHANGED <<fixture, account, index, age, stage, red>>

\* Mutant of Again: the passes stop with the first.
AgainNever(s) == FALSE

\* Another pass is due: something was deferred.
Again(s) == cmd[s].pending # {} /\ ~FinalPass(s)

Status(s) == IF cmd[s].bad = {} THEN 0 ELSE 1

\* The end of a pass: a fresh inventory and another pass; the end; or, in the
\* global sweep, what has no tags.  Only the last pass counts.
PassEnds(s) ==
  /\ At(s, "pass") /\ cmd[s].todo = {} /\ UNCHANGED res
  /\ IF Again(s)
     THEN Set(s, [cmd[s] EXCEPT !.pass = @ + 1, !.todo = Inventory(s), !.pending = {},
                                !.bad = {}, !.missed = {}, !.seen = @ \cup Inventory(s)])
     ELSE IF s # "global" THEN Exit(s, Status(s))
     ELSE Set(s, [cmd[s] EXCEPT !.step = "ce", !.todo = CostExplorer(s), !.pending = {},
                                !.seen = @ \cup CostExplorer(s)])
  /\ UNCHANGED <<fixture, account, index, age, stage, red, faults>>

DeleteEnds(s) ==
  /\ At(s, "ce") /\ cmd[s].todo = {} /\ UNCHANGED res
  /\ Exit(s, Status(s))
  /\ UNCHANGED <<fixture, account, index, age, stage, red, faults>>

\* The tagging API stays throttled, or another read fails: exit 1.
CommandFails(s) ==
  /\ At(s, "start") \/ At(s, "probe") \/ At(s, "pass") \/ At(s, "ce")
  /\ Fault /\ UNCHANGED res
  /\ Exit(s, 1)
  /\ UNCHANGED <<fixture, account, index, age, stage, red>>

-----------------------------------------------------------------------------
(***************************************************************************)
(* What the callers make of the exit status.                               *)
(***************************************************************************)

\* Mutant of RunnerReturns: the outcome of the re-check is not used.
RunnerReturnsGreen(u) ==
  \/ stage[u] = "check" /\ cmd[u].code # 0 /\ Enter(u, "delete") /\ UNCHANGED red
  \/ stage[u] = "delete" /\ Enter(u, "recheck") /\ UNCHANGED red
  \/ /\ stage[u] = "recheck" \/ (stage[u] = "check" /\ cmd[u].code = 0)
     /\ stage' = [stage EXCEPT ![u] = "reported"]
     /\ UNCHANGED <<red, cmd>>

\* The runner: check, delete if there is residue, re-check, report.  Its exit status
\* is the residue when there is any, as sys.exit hands it to the shell: modulo 256.
RunnerReturns(u) ==
  \/ stage[u] = "check" /\ cmd[u].code # 0 /\ Enter(u, "delete") /\ UNCHANGED red
  \/ stage[u] = "delete" /\ Enter(u, "recheck") /\ UNCHANGED red
  \/ /\ stage[u] = "recheck" \/ (stage[u] = "check" /\ cmd[u].code = 0)
     /\ stage' = [stage EXCEPT ![u] = "reported"]
     /\ red' = [red EXCEPT ![u] = IF cmd[u].code = 0 THEN @ ELSE cmd[u].code % 256 # 0]
     /\ UNCHANGED cmd

\* The job of a run, and the daily workflow: the check follows a delete that
\* succeeded.
Return(s) ==
  /\ At(s, "exit")
  /\ \/ s \in Runs /\ RunnerReturns(s)
     \/ stage[s] = "cleanup" /\ Enter(s, "ended") /\ UNCHANGED red
     \/ /\ s = "global" /\ UNCHANGED red
        /\ Enter(s, IF stage[s] = "delete" /\ cmd[s].code = 0 THEN "check" ELSE "idle")
  /\ UNCHANGED <<fixture, account, res, index, age, faults>>

Sweep(s) ==
  \/ Enumerate(s) \/ Probe(s) \/ PassEnds(s) \/ DeleteEnds(s) \/ Return(s)
  \/ \E r \in Resources : DispatchDelete(s, r)

RunStep(u) ==
  \/ StartRun(u) \/ GoTestEnds(u) \/ RetryEnds(u) \/ CleanUp(u)
  \/ \E r \in Resources : RunOf[r] = u /\ (Creates(r) \/ Destroys(r))

Aws(r) == Drain(r) \/ Index(r) \/ Deindex(r)

Next ==
  \/ \E u \in Runs : RunStep(u) \/ RunnerDies(u)
  \/ \E s \in Callers : Sweep(s) \/ CommandFails(s) \/ JobLost(s)
  \/ \E r \in Resources : Aws(r)
  \/ Cron
  \/ Tick

Spec == Init /\ [][Next]_vars

\* Jobs and commands keep running, the schedule keeps coming, AWS gets round to
\* what it has accepted, and time passes.
FairSpec ==
  /\ Spec
  /\ \A u \in Runs : WF_vars(RunStep(u))
  /\ \A s \in Callers : WF_vars(Sweep(s))
  /\ WF_vars(\E r \in Resources : Aws(r))
  /\ WF_vars(Cron) /\ WF_vars(Tick)

-----------------------------------------------------------------------------
(***************************************************************************)
(* Properties.                                                             *)
(***************************************************************************)

\* The min-age guard: a step of the daily sweep never takes a resource away from
\* a run whose go test is still running, however old its inventory has become.
\* A run id given from outside has no age and is not spared, and neither is a Cost
\* Explorer object whose name has no time in it.
GlobalSweepSparesInFlight ==
  [][\A r \in Resources :
       (cmd["global"]' # cmd["global"] /\ res[r] = "live" /\ res'[r] # "live") =>
         RunOf[r] \notin AutoId \/ Kind[r] = "undated" \/ stage[RunOf[r]] # "testing"]_vars

\* The delete cannot get rid of these and does not report them.
Unreported(r) == Kind[r] \in {"default_sg", "no_branch"}

\* The fail-safe invariant: a sweep that exits 0 leaves nothing live that any of
\* its enumerations returned, whatever was deferred, failed, spared, created or
\* deleted meanwhile.  Not so for what one of its own calls took for gone: an ECS
\* describe that failed, a part that somebody else deleted first.
NoMaskedLeak ==
  \A s \in Callers : (At(s, "exit") /\ cmd[s].code = 0) =>
    \A r \in cmd[s].seen \ cmd[s].missed :
      res[r] = "live" => stage[s] \in Deleting /\ Unreported(r)

\* A runner that reports success could sweep this account, and nothing that its
\* last check enumerated is live, but for what an ECS describe that failed hid.
GreenRunIsProven ==
  \A u \in Runs : (stage[u] = "reported" /\ ~red[u]) =>
    /\ account = "swept"
    /\ \A r \in cmd[u].seen \ cmd[u].missed : res[r] # "live"

\* What no delete of the sweep can remove, or what needs such a thing.
Stuck(r) == \E q \in Resources : Kind[q] \in {"no_handler", "no_branch"} /\ (q = r \/ r \in Needs[q])

\* Real orphans are cleaned: whatever the runs leave behind, and however they
\* end, is deleted for good sooner or later, although some of it never can be.
OrphansSwept ==
  <>[](account = "swept" => \A r \in Resources : res[r] = "live" => Stuck(r))
=============================================================================

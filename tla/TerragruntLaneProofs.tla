------------------------ MODULE TerragruntLaneProofs ------------------------
(***************************************************************************)
(* TLAPS proofs about TerragruntLane, for every tree of units, every map   *)
(* of accounts and any number of runs and faults.                          *)
(***************************************************************************)
EXTENDS TerragruntLane, TLAPS

\* The perf test stands up an account that the apply lane does not deploy, as accounts.json
\* has it: otherwise its clean-up would destroy what the lane applied.
PerfIsOnDemand == EnvAccount[PerfEnv] \notin CiDeploy

Commits == [changed : SUBSET (Units \cup Shared), deleted : SUBSET Units, live : SUBSET Units]
RunSteps == {"none", "queued", "superseded", "green", "red"} \cup InProgress
RunType == [push : BOOLEAN, commit : 0..Len(main), behind : BOOLEAN, scope : SUBSET Units,
            step : RunSteps, primary : Accounts, todo : SUBSET Units, bad : BOOLEAN]
PrType == [step : {"none", "open", "rows", "done"}, changed : SUBSET (Units \cup Shared),
           deleted : SUBSET Units, scope : SUBSET Units, rows : SUBSET Accounts,
           planned : SUBSET Units, had : SUBSET Units, bad : BOOLEAN]

\* main has a commit, and so has every run.
HasCommit ==
  /\ Len(main) >= 1
  /\ \A i \in 1..MaxRuns : run[i].step # "none" \/ run[i].push => run[i].commit \in 1..Len(main)

\* The concurrency group: one run works, one waits, and the one that waits is not older,
\* unless it was dispatched from an older ref.
OneAtATime ==
  \A i, j \in 1..MaxRuns :
    /\ run[i].step \in InProgress /\ run[j].step \in InProgress => i = j
    /\ run[i].step = "queued" /\ run[j].step = "queued" => i = j
    /\ run[i].step \in InProgress /\ run[j].step = "queued" /\ ~run[j].behind =>
         run[i].commit <= run[j].commit

\* Nothing is deployed from a commit that is newer than that of a run still to come,
\* unless that was dispatched from an older ref.
NotAhead ==
  \A i \in 1..MaxRuns : run[i].step \in InProgress \cup {"queued"} /\ ~run[i].behind =>
    \A u \in CiUnits : applied[u] <= run[i].commit

\* The units a run of a push answers for are applied, or still to do as long as none failed.
Owes(i) == Addressed(run[i].commit) \cap CiUnits
Covered(i) ==
  run[i].push =>
    /\ run[i].step \in {"preflight", "apply"} /\ ~run[i].bad =>
         \A u \in Owes(i) : u \in run[i].todo \/ applied[u] >= run[i].commit
    /\ run[i].step = "validate" => \A u \in Owes(i) : applied[u] >= run[i].commit

LaneInv == TypeOK /\ HasCommit /\ OneAtATime /\ NotAhead /\ \A i \in 1..MaxRuns : Covered(i)

\* What was planned so far of the units that had state.
PlanCovers ==
  /\ pr.step = "rows" =>
       \A u \in pr.had \cap CiUnits :
         /\ u \in pr.scope /\ applied[u] > 0
         /\ ~pr.bad => ResolveAccountId(u) \in pr.rows \/ u \in pr.planned
  /\ GreenPlanCoversState

-----------------------------------------------------------------------------
LEMMA AccountOfUnit == \A u \in Units : ResolveAccountId(u) \in Accounts
<1> SUFFICES ASSUME NEW u \in Units PROVE ResolveAccountId(u) \in Accounts
  OBVIOUS
<1>1. CASE InDnsOwner(u)
  BY <1>1 DEF ResolveAccountId, Accounts
<1>2. CASE ~InDnsOwner(u)
  <2>1. Env[u] \in DOMAIN EnvAccount
    BY <1>2, AccountsAssumption DEF InDnsOwner, Tiers
  <2> QED BY <1>2, <2>1 DEF ResolveAccountId, Accounts
<1> QED BY <1>1, <1>2

LEMMA AccountsOfUnits ==
  ASSUME NEW units \in SUBSET Units
  PROVE  AccountsOf(units) \subseteq Accounts /\ Primary(units) \in Accounts
<1>1. AccountsOf(units) \subseteq Accounts
  BY AccountOfUnit DEF AccountsOf
<1>2. ServiceAccounts(units) \subseteq Accounts /\ DnsOwner \in Accounts
  BY <1>1 DEF ServiceAccounts, Accounts
<1>3. Primary(units) \in Accounts
  BY <1>2 DEF Primary
<1> QED BY <1>1, <1>3

\* The scope of a diff contains what the diff addresses: its own units and the units that
\* name a changed .hcl file.
LEMMA DetectedContains ==
  ASSUME NEW changed \in SUBSET (Units \cup Shared), NEW live \in SUBSET Units,
         NEW u \in live, u \in changed \/ Reads[u] \cap Hcl \cap changed # {}
  PROVE  u \in Detected(changed, live)
<1>1. \E f \in changed : u \in UnitsOf(f, live)
  <2>1. CASE u \in changed
    <3>1. ~IsSharedParentConfig(u)
      BY TreeAssumption DEF IsSharedParentConfig
    <3>2. u \in UnitsOf(u, live)
      BY <3>1 DEF UnitsOf, OwnUnit
    <3> QED BY <2>1, <3>2
  <2>2. CASE Reads[u] \cap Hcl \cap changed # {}
    <3>1. PICK f \in changed : f \in Reads[u] /\ f \in Hcl
      BY <2>2
    <3>2. u \in UnitsOf(f, live)
      BY <3>1 DEF UnitsOf, IsSharedParentConfig, UnitsReading
    <3> QED BY <3>2
  <2> QED BY <2>1, <2>2
<1> QED BY <1>1 DEF Detected

LEMMA DetectedType ==
  ASSUME NEW changed, NEW live \in SUBSET Units
  PROVE  Detected(changed, live) \in SUBSET Units
<1>1. \A f : UnitsOf(f, live) \subseteq live
  <2> SUFFICES ASSUME NEW f PROVE UnitsOf(f, live) \subseteq live
    OBVIOUS
  <2>1. OwnUnit(f, live) \subseteq live /\ UnitsReading(f, live) \subseteq live
    BY DEF OwnUnit, UnitsReading
  <2> QED BY <2>1 DEF UnitsOf
<1>2. \A units : Dependents(units, live) \subseteq live
  BY DEF Dependents
<1>3. \A f : UnitsOf(f, live) \subseteq Units
  BY <1>1
<1>4. UNION {UnitsOf(f, live) : f \in changed} \subseteq Units
  BY <1>3
<1>5. \A units : Dependents(units, live) \subseteq Units
  BY <1>2
<1> QED BY <1>4, <1>5 DEF Detected

LEMMA MainFacts ==
  ASSUME TypeOK
  PROVE  /\ Len(main) \in Nat
         /\ \A c \in 1..Len(main) : main[c] \in Commits
<1>1. main \in Seq(Commits)
  BY DEF TypeOK, Commits
<1> QED BY <1>1

\* What the run of a push answers for is in its scope.
LEMMA ScopeCovers ==
  ASSUME LaneInv, NEW i \in 1..MaxRuns, run[i].push
  PROVE  Owes(i) \subseteq RunScope(i)
<1> SUFFICES ASSUME NEW u \in Owes(i) PROVE u \in RunScope(i)
  OBVIOUS
<1> DEFINE c == main[run[i].commit]
<1>1. c \in Commits
  BY MainFacts DEF LaneInv, HasCommit
<1>2. u \in c.live /\ u \in CiUnits /\ (u \in c.changed \/ Reads[u] \cap Hcl \cap c.changed # {})
  BY DEF Owes, Addressed
<1>3. c.changed \in SUBSET (Units \cup Shared) /\ c.live \in SUBSET Units
  BY <1>1 DEF Commits
<1>4. u \in Detected(c.changed, c.live)
  BY <1>2, <1>3, DetectedContains
<1>5. u \in ExcludeBootstrap(Detected(c.changed, c.live)) /\ IsAccountCiDeployable(ResolveAccountId(u))
  BY <1>2, <1>4 DEF CiUnits, CiDeployable, ExcludeBootstrap
<1> QED BY <1>5 DEF RunScope, CiDeployable, ListChangedFiles

LEMMA RunScopeType ==
  ASSUME LaneInv, NEW i \in 1..MaxRuns
  PROVE  RunScope(i) \in SUBSET Units
<1>1. CASE run[i].push
  <2>1. main[run[i].commit].live \in SUBSET Units
    BY <1>1, MainFacts DEF LaneInv, HasCommit, Commits
  <2>2. Detected(ListChangedFiles(i), main[run[i].commit].live) \in SUBSET Units
    BY <2>1, DetectedType
  <2> QED BY <1>1, <2>2 DEF RunScope, CiDeployable, ExcludeBootstrap
<1>2. CASE ~run[i].push
  BY <1>2 DEF RunScope, CiDeployable, LaneInv, TypeOK
<1> QED BY <1>1, <1>2

-----------------------------------------------------------------------------
(***************************************************************************)
(* Types.                                                                  *)
(***************************************************************************)

\* The types of the parts, as the lemmas below need them.
LEMMA TypeParts ==
  TypeOK <=> /\ main \in Seq(Commits) /\ applied \in [Units -> 0..Len(main)] /\ locked \subseteq Units
             /\ run \in [1..MaxRuns -> RunType] /\ pr \in PrType /\ faults \in 0..MaxFaults
  BY DEF TypeOK, Commits, RunType, RunSteps, PrType

LEMMA NoRunType ==
  /\ NoRun.push = FALSE /\ NoRun.step = "none" /\ NoRun.todo = {} /\ NoRun.bad = FALSE
  /\ NoRun \in [push : BOOLEAN, commit : {0}, behind : BOOLEAN, scope : SUBSET Units, step : {"none"},
                primary : Accounts, todo : SUBSET Units, bad : BOOLEAN]
<1>1. DnsOwner \in Accounts
  BY DEF Accounts
<1> QED BY <1>1 DEF NoRun

\* The end of a run.
LEMMA EndedRun ==
  ASSUME TypeOK, NEW i \in 1..MaxRuns, NEW verdict \in {"green", "red"}, Ended(i, verdict), main' = main
  PROVE  /\ run' \in [1..MaxRuns -> RunType']
         /\ run'[i].push = run[i].push /\ run'[i].commit = run[i].commit /\ run'[i].step = verdict
         /\ \A k \in 1..MaxRuns \ {i} : run'[k] = run[k]
<1>1. run \in [1..MaxRuns -> RunType] /\ RunType' = RunType /\ DnsOwner \in Accounts
  BY TypeParts DEF RunType, Accounts
<1> DEFINE r == [NoRun EXCEPT !.push = run[i].push, !.commit = run[i].commit, !.step = verdict]
<1>3. run[i].push \in BOOLEAN /\ run[i].commit \in 0..Len(main) /\ verdict \in RunSteps
  BY <1>1 DEF RunType, RunSteps
<1>4. r \in RunType
  BY <1>1, <1>3 DEF RunType, NoRun
<1>5. run' = [run EXCEPT ![i] = r]
  BY DEF Ended
<1>6. r.push = run[i].push /\ r.commit = run[i].commit /\ r.step = verdict
  BY DEF NoRun
<1> HIDE DEF r
<1> QED BY <1>1, <1>4, <1>5, <1>6

\* A new run in the lane.
LEMMA QueuedRuns ==
  ASSUME TypeOK, Len(main)' \in Nat, Len(main)' >= Len(main), NEW r \in RunType', run' = Queued(r)
  PROVE  /\ run' \in [1..MaxRuns -> RunType']
         /\ \A k \in 1..MaxRuns :
              \/ /\ run'[k].push = r.push /\ run'[k].commit = r.commit /\ run'[k].behind = r.behind
                 /\ run'[k].step = "queued" /\ k = Cardinality(Created) + 1
              \/ run[k].step # "queued" /\ run'[k] = run[k] /\ k # Cardinality(Created) + 1
              \/ /\ run'[k].push = run[k].push /\ run'[k].commit = run[k].commit
                 /\ run'[k].step = "superseded" /\ run[k].step = "queued"
<1>1. run \in [1..MaxRuns -> RunType] /\ DnsOwner \in Accounts /\ Len(main) \in Nat
  BY TypeParts DEF Accounts
<1>2. RunType \subseteq RunType'
  BY <1>1 DEF RunType
<1> DEFINE q == [r EXCEPT !.step = "queued"]
           n == Cardinality(Created) + 1
           old(k) == [run[k] EXCEPT !.step = "superseded", !.scope = {}]
<1>4. q \in RunType'
  BY DEF RunType, RunSteps
<1>5. ASSUME NEW k \in 1..MaxRuns
      PROVE  /\ old(k) \in RunType' /\ old(k).push = run[k].push /\ old(k).commit = run[k].commit
             /\ old(k).step = "superseded"
  <2>1. run[k] \in RunType'
    BY <1>1, <1>2
  <2> QED BY <2>1 DEF RunType, RunSteps
<1>6. run' = [k \in 1..MaxRuns |-> IF k = n THEN q ELSE IF run[k].step = "queued" THEN old(k) ELSE run[k]]
  BY DEF Queued
<1>7. q.push = r.push /\ q.commit = r.commit /\ q.behind = r.behind /\ q.step = "queued"
  BY DEF RunType
<1> HIDE DEF q, n, old
<1>8. run' \in [1..MaxRuns -> RunType']
  BY <1>1, <1>2, <1>4, <1>5, <1>6
<1>9. ASSUME NEW k \in 1..MaxRuns
      PROVE  \/ /\ run'[k].push = r.push /\ run'[k].commit = r.commit /\ run'[k].behind = r.behind
                /\ run'[k].step = "queued" /\ k = n
             \/ run[k].step # "queued" /\ run'[k] = run[k] /\ k # n
             \/ /\ run'[k].push = run[k].push /\ run'[k].commit = run[k].commit
                /\ run'[k].step = "superseded" /\ run[k].step = "queued"
  BY <1>5, <1>6, <1>7
<1> QED BY <1>8, <1>9 DEF n

-----------------------------------------------------------------------------
(***************************************************************************)
(* The lane.                                                               *)
(***************************************************************************)

\* No unit that CI deploys goes back.
NoneBack == \A u \in CiUnits : applied'[u] >= applied[u]

\* What every step does: a unit that CI deploys goes back by a run of an older ref only and
\* keeps its state, and a run that ends green has applied what it answers for.
Forward ==
  /\ \A u \in CiUnits : applied'[u] >= applied[u] \/ \E i \in 1..MaxRuns : TakesBack(i, u)
  /\ \A u \in CiUnits : applied[u] > 0 => applied'[u] > 0
  /\ \A i \in 1..MaxRuns : EndsGreen(i) => \A u \in Owes(i) : applied[u] >= run[i].commit

\* A run answers for its units only while it works.
LEMMA IdleIsCovered ==
  ASSUME NEW k \in 1..MaxRuns, run[k].step \notin InProgress
  PROVE  Covered(k)
  BY DEF Covered, InProgress

\* A diff never changes once it is on main.
LEMMA AddressedStays ==
  ASSUME TypeOK, NEW c \in 1..Len(main), main' = main \/ \E x : main' = Append(main, x)
  PROVE  Addressed(c)' = Addressed(c)
<1>1. main'[c] = main[c]
  BY DEF TypeOK
<1> QED BY <1>1 DEF Addressed

\* A run that is not touched stays covered.
LEMMA CoveredStays ==
  ASSUME TypeOK, HasCommit, NEW k \in 1..MaxRuns, Covered(k), NoneBack, applied' \in [Units -> Nat],
         main' = main \/ \E x : main' = Append(main, x), run'[k] = run[k]
  PROVE  Covered(k)'
<1> SUFFICES ASSUME run[k].push PROVE Covered(k)'
  BY DEF Covered
<1>1. run[k].commit \in 1..Len(main)
  BY DEF HasCommit
<1>2. Owes(k)' = Owes(k)
  BY <1>1, AddressedStays DEF Owes
<1>3. \A u \in Owes(k) : applied[u] \in Nat /\ applied'[u] \in Nat /\ applied'[u] >= applied[u]
  BY MainFacts DEF Owes, NoneBack, CiUnits, CiDeployable, TypeOK
<1>4. run[k].commit \in Nat
  BY <1>1, MainFacts
<1> QED BY <1>2, <1>3, <1>4 DEF Covered

\* One run moves on and nothing is applied.
LEMMA MoveKeeps ==
  ASSUME LaneInv, NEW i \in 1..MaxRuns, UNCHANGED <<main, applied>>, TypeOK',
         run[i].step # "none", run[i].step \in InProgress \cup {"queued"},
         run'[i].push = run[i].push, run'[i].commit = run[i].commit, run'[i].step # "queued",
         run'[i].step \in InProgress => run'[i].behind = run[i].behind,
         run[i].push /\ run'[i].step = "green" => \A u \in Owes(i) : applied[u] >= run[i].commit,
         run'[i].step \in InProgress /\ run[i].step = "queued" =>
           \A j \in 1..MaxRuns : run[j].step \notin InProgress,
         \A k \in 1..MaxRuns \ {i} : run'[k] = run[k],
         Covered(i)'
  PROVE  LaneInv' /\ Forward
<1> USE DEF LaneInv
<1>1. HasCommit'
  BY DEF HasCommit
<1>2. OneAtATime'
  <2> SUFFICES ASSUME NEW j \in 1..MaxRuns, NEW k \in 1..MaxRuns
               PROVE  /\ run'[j].step \in InProgress /\ run'[k].step \in InProgress => j = k
                      /\ run'[j].step = "queued" /\ run'[k].step = "queued" => j = k
                      /\ run'[j].step \in InProgress /\ run'[k].step = "queued" /\ ~run'[k].behind =>
                           run'[j].commit <= run'[k].commit
    BY DEF OneAtATime
  <2>1. CASE j # i /\ k # i
    BY <2>1 DEF OneAtATime
  <2>2. CASE j = i /\ k = i
    BY <2>2
  <2>3. CASE j = i /\ k # i
    BY <2>3 DEF OneAtATime
  <2>4. CASE j # i /\ k = i
    BY <2>4 DEF OneAtATime
  <2> QED BY <2>1, <2>2, <2>3, <2>4
<1>3. NotAhead'
  BY DEF NotAhead
<1>4. ASSUME NEW k \in 1..MaxRuns PROVE Covered(k)'
  <2>1. CASE k = i
    BY <2>1
  <2>2. CASE k # i
    <3>1. NoneBack /\ applied' \in [Units -> Nat]
      BY MainFacts DEF NoneBack, TypeOK, CiUnits, CiDeployable
    <3> QED BY <2>2, <3>1, CoveredStays
  <2> QED BY <2>1, <2>2
<1>5. Forward
  <2>1. \A u \in CiUnits : applied[u] \in Nat /\ applied'[u] = applied[u]
    BY MainFacts DEF TypeOK, CiUnits, CiDeployable
  <2>2. \A k \in 1..MaxRuns : EndsGreen(k) => k = i
    BY DEF EndsGreen
  <2> QED BY <2>1, <2>2 DEF Forward, EndsGreen
<1> QED BY <1>1, <1>2, <1>3, <1>4, <1>5

\* A run that ended: red owes nothing, green owes what it did before.
LEMMA EndKeeps ==
  ASSUME LaneInv, NEW i \in 1..MaxRuns, UNCHANGED <<main, applied, pr>>, locked' \subseteq Units,
         faults' \in 0..MaxFaults, run[i].step \in InProgress,
         NEW verdict \in {"green", "red"}, Ended(i, verdict),
         verdict = "green" /\ run[i].push => \A u \in Owes(i) : applied[u] >= run[i].commit
  PROVE  LaneInv' /\ Forward
<1>1. /\ run' \in [1..MaxRuns -> RunType']
      /\ run'[i].push = run[i].push /\ run'[i].commit = run[i].commit /\ run'[i].step = verdict
      /\ \A k \in 1..MaxRuns \ {i} : run'[k] = run[k]
  BY EndedRun DEF LaneInv
<1>2. TypeOK'
  BY <1>1, TypeParts DEF LaneInv, TypeOK, RunType, RunSteps
<1>3. Owes(i)' = Owes(i)
  BY <1>1 DEF Owes, Addressed
<1>4. Covered(i)'
  BY <1>1, <1>3 DEF Covered
<1>5. run[i].step # "none" /\ run'[i].step \notin InProgress /\ run'[i].step # "queued"
  BY <1>1 DEF InProgress
<1> QED BY <1>1, <1>2, <1>4, <1>5, MoveKeeps

\* One field of a run changes.
LEMMA StepType ==
  ASSUME TypeOK, NEW i \in 1..MaxRuns, NEW step \in RunSteps, run' = [run EXCEPT ![i].step = step],
         main' = main
  PROVE  /\ run' \in [1..MaxRuns -> RunType'] /\ run'[i].step = step
         /\ run'[i].push = run[i].push /\ run'[i].commit = run[i].commit
         /\ run'[i].todo = run[i].todo /\ run'[i].bad = run[i].bad /\ run'[i].behind = run[i].behind
         /\ \A k \in 1..MaxRuns \ {i} : run'[k] = run[k]
<1>1. run \in [1..MaxRuns -> RunType] /\ RunType' = RunType
  BY TypeParts DEF RunType
<1>2. run' \in [1..MaxRuns -> RunType]
  BY <1>1 DEF RunType
<1> QED BY <1>1, <1>2 DEF RunType

LEMMA StartKeeps ==
  ASSUME LaneInv, NEW i \in 1..MaxRuns, Start(i)
  PROVE  LaneInv' /\ Forward
<1>1. UNCHANGED <<main, applied, locked, pr, faults>> /\ run[i].step = "queued" /\ "gate" \in RunSteps
  BY DEF Start, RunSteps, InProgress
<1>2. /\ run' \in [1..MaxRuns -> RunType'] /\ run'[i].step = "gate"
      /\ run'[i].push = run[i].push /\ run'[i].commit = run[i].commit /\ run'[i].behind = run[i].behind
      /\ \A k \in 1..MaxRuns \ {i} : run'[k] = run[k]
  BY <1>1, StepType DEF LaneInv, Start
<1>3. TypeOK'
  BY <1>1, <1>2, TypeParts DEF LaneInv, TypeOK, RunType, RunSteps
<1>4. Covered(i)'
  BY <1>2 DEF Covered
<1>5. \A j \in 1..MaxRuns : run[j].step \notin InProgress
  BY DEF Start
<1> QED BY <1>1, <1>2, <1>3, <1>4, <1>5, MoveKeeps

LEMMA ApproveKeeps ==
  ASSUME LaneInv, NEW i \in 1..MaxRuns, Approve(i)
  PROVE  LaneInv' /\ Forward
<1> DEFINE scope == RunScope(i)
<1>1. UNCHANGED <<main, applied, locked, pr, faults>> /\ run[i].step = "gate"
  BY DEF Approve
<1>2. TypeOK /\ scope \in SUBSET Units /\ Primary(scope) \in Accounts /\ run[i].step \in InProgress
  BY <1>1, RunScopeType, AccountsOfUnits DEF LaneInv, InProgress
<1>3. run[i].push => Owes(i) \subseteq scope
  BY ScopeCovers
<1>4. locked' \subseteq Units /\ faults' \in 0..MaxFaults
  BY <1>1, <1>2 DEF TypeOK
<1>5. CASE scope = {} /\ Ended(i, "green")
  <2>1. run[i].push => Owes(i) = {}
    BY <1>3, <1>5
  <2> QED BY <1>1, <1>2, <1>4, <1>5, <2>1, EndKeeps
<1>6. CASE Ended(i, "red")
  BY <1>1, <1>2, <1>4, <1>6, EndKeeps
<1>7. CASE run' = [run EXCEPT ![i].step = "preflight", ![i].todo = scope, ![i].primary = Primary(scope)]
  <2>1. run \in [1..MaxRuns -> RunType] /\ RunType' = RunType /\ "preflight" \in RunSteps
    BY <1>1, <1>2, TypeParts DEF RunType, RunSteps, InProgress
  <2> HIDE DEF scope
  <2>2. run' \in [1..MaxRuns -> RunType]
    <3> DEFINE q == [run[i] EXCEPT !.step = "preflight", !.todo = scope, !.primary = Primary(scope)]
    <3>1. q \in RunType
      BY <1>2, <2>1 DEF RunType
    <3>2. run' = [run EXCEPT ![i] = q]
      BY <1>7
    <3> HIDE DEF q
    <3> QED BY <2>1, <3>1, <3>2
  <2>3. /\ run'[i].step = "preflight" /\ run'[i].push = run[i].push /\ run'[i].commit = run[i].commit
        /\ run'[i].todo = scope /\ run'[i].behind = run[i].behind
        /\ \A k \in 1..MaxRuns \ {i} : run'[k] = run[k]
    BY <1>7, <2>1 DEF RunType
  <2>4. TypeOK'
    BY <1>1, <1>2, <2>1, <2>2, TypeParts DEF TypeOK, RunType, RunSteps
  <2>5. Owes(i)' = Owes(i)
    BY <1>1, <2>3 DEF Owes, Addressed
  <2>6. Covered(i)'
    BY <1>3, <2>3, <2>5 DEF Covered
  <2> QED BY <1>1, <1>2, <2>3, <2>4, <2>6, MoveKeeps DEF InProgress
<1> QED BY <1>5, <1>6, <1>7 DEF Approve

LEMMA StepsKeep ==
  ASSUME LaneInv, NEW i \in 1..MaxRuns,
         Reject(i) \/ Preflight(i) \/ ApplyEnds(i) \/ Validate(i) \/ RunnerLost(i)
  PROVE  LaneInv' /\ Forward
<1>0. TypeOK /\ BoundsAssumption
  BY BoundsAssumption DEF LaneInv
<1>1. /\ UNCHANGED <<main, applied, pr>> /\ run[i].step \in InProgress
      /\ locked' \subseteq Units /\ faults' \in 0..MaxFaults
  <2>1. UNCHANGED <<main, applied, pr>> /\ run[i].step \in InProgress
    BY DEF Reject, Preflight, ApplyEnds, Validate, RunnerLost, InProgress
  <2>2. faults' \in 0..MaxFaults
    BY <1>0 DEF Reject, Preflight, ApplyEnds, Validate, RunnerLost, Fault, TypeOK
  <2>3. locked' \subseteq Units
    <3>1. Ready(i) \subseteq Units
      BY <1>0 DEF Ready, TypeOK
    <3> QED BY <1>0, <3>1 DEF Reject, Preflight, ApplyEnds, Validate, RunnerLost, TypeOK
  <2> QED BY <2>1, <2>2, <2>3
<1>2. CASE Ended(i, "red")
  BY <1>1, <1>2, EndKeeps
<1>3. CASE Ended(i, "green") /\ run[i].step = "validate"
  <2>1. run[i].push => \A u \in Owes(i) : applied[u] >= run[i].commit
    BY <1>3 DEF LaneInv, Covered
  <2> QED BY <1>1, <1>3, <2>1, EndKeeps
<1>4. ASSUME NEW step \in {"apply", "validate"}, run' = [run EXCEPT ![i].step = step],
             step = "apply" => run[i].step = "preflight",
             step = "validate" => run[i].step = "apply" /\ run[i].todo = {} /\ ~run[i].bad,
             UNCHANGED <<locked, faults>>
      PROVE  LaneInv' /\ Forward
  <2>1. step \in RunSteps
    BY DEF RunSteps, InProgress
  <2>2. /\ run' \in [1..MaxRuns -> RunType'] /\ run'[i].step = step
        /\ run'[i].push = run[i].push /\ run'[i].commit = run[i].commit
        /\ run'[i].todo = run[i].todo /\ run'[i].bad = run[i].bad /\ run'[i].behind = run[i].behind
        /\ \A k \in 1..MaxRuns \ {i} : run'[k] = run[k]
    BY <1>0, <1>1, <1>4, <2>1, StepType
  <2>3. TypeOK'
    BY <1>0, <1>1, <1>4, <2>2, TypeParts DEF TypeOK, RunType, RunSteps
  <2>4. Owes(i)' = Owes(i)
    BY <1>1, <2>2 DEF Owes, Addressed
  <2>5. Covered(i)'
    BY <1>1, <1>4, <2>2, <2>4 DEF Covered, LaneInv
  <2>6. run[i].step # "queued" /\ run[i].step # "none" /\ run'[i].step # "queued"
    BY <1>4, <2>2
  <2> QED BY <1>1, <2>2, <2>3, <2>5, <2>6, MoveKeeps
<1>5. CASE Preflight(i) /\ run' = [run EXCEPT ![i].step = "apply"]
  BY <1>4, <1>5 DEF Preflight
<1>6. CASE ApplyEnds(i) /\ run' = [run EXCEPT ![i].step = "validate"] /\ ~run[i].bad
  BY <1>4, <1>6 DEF ApplyEnds
<1> QED BY <1>2, <1>3, <1>5, <1>6 DEF Reject, Preflight, ApplyEnds, Validate, RunnerLost

LEMMA ApplyKeeps ==
  ASSUME LaneInv, NEW i \in 1..MaxRuns, NEW u \in Units, ApplyUnit(i, u)
  PROVE  LaneInv' /\ Forward
<1>0. TypeOK /\ run \in [1..MaxRuns -> RunType] /\ Len(main) \in Nat /\ Len(main) >= 1
  BY TypeParts, MainFacts DEF LaneInv, HasCommit
<1>1. UNCHANGED <<main, locked, pr>> /\ run[i].step = "apply" /\ run[i].step \in InProgress /\ RunType' = RunType
  BY DEF ApplyUnit, InProgress, RunType
<1>2. faults' \in 0..MaxFaults
  BY <1>0, BoundsAssumption DEF ApplyUnit, Fault, TypeOK
<1>3. CASE /\ applied' = [applied EXCEPT ![u] = IF u \in CiUnits THEN run[i].commit ELSE 1]
           /\ run' = [run EXCEPT ![i].todo = @ \ {u}]
  <2>1. run' \in [1..MaxRuns -> RunType]
    BY <1>0, <1>3 DEF RunType
  <2>2. /\ run'[i].step = "apply" /\ run'[i].push = run[i].push /\ run'[i].commit = run[i].commit
        /\ run'[i].todo = run[i].todo \ {u} /\ run'[i].bad = run[i].bad /\ run'[i].behind = run[i].behind
        /\ \A k \in 1..MaxRuns \ {i} : run'[k] = run[k]
    BY <1>0, <1>1, <1>3 DEF RunType
  <2>3. run[i].commit \in 1..Len(main) /\ u \in run[i].todo
    BY <1>1 DEF LaneInv, HasCommit, InProgress, ApplyUnit, Ready
  <2>4. applied' \in [Units -> 0..Len(main)]
    BY <1>0, <1>3, <2>3 DEF TypeOK
  <2>5. TypeOK'
    BY <1>0, <1>1, <1>2, <2>1, <2>4 DEF TypeOK, RunType, RunSteps
  <2>6. \A v \in CiUnits : v \in Units /\ applied[v] \in Nat /\ (~run[i].behind => applied[v] <= run[i].commit)
    BY <1>0, <1>1 DEF CiUnits, CiDeployable, TypeOK, LaneInv, NotAhead
  <2>7. \A v \in CiUnits : applied'[v] = applied[v] \/ (v = u /\ applied'[v] = run[i].commit)
    BY <1>0, <1>3, <2>6 DEF TypeOK
  <2>8. Forward
    <3>1. \A v \in CiUnits : applied'[v] >= applied[v] \/ TakesBack(i, v)
      BY <1>0, <1>1, <2>3, <2>6, <2>7 DEF TakesBack, RunType
    <3>2. \A v \in CiUnits : applied[v] > 0 => applied'[v] > 0
      BY <1>0, <2>3, <2>6, <2>7
    <3>3. \A k \in 1..MaxRuns : ~EndsGreen(k)
      BY <1>1, <2>2 DEF EndsGreen
    <3> QED BY <3>1, <3>2, <3>3 DEF Forward
  <2>9. HasCommit'
    BY <1>1, <2>2 DEF HasCommit, LaneInv
  <2>10. OneAtATime'
    <3>1. \A k \in 1..MaxRuns : /\ run'[k].step = run[k].step /\ run'[k].commit = run[k].commit
                               /\ run'[k].behind = run[k].behind
      BY <1>1, <2>2
    <3> QED BY <3>1 DEF OneAtATime, LaneInv
  <2>11. NotAhead'
    <3> SUFFICES ASSUME NEW k \in 1..MaxRuns, run'[k].step \in InProgress \cup {"queued"},
                        ~run'[k].behind, NEW v \in CiUnits
                 PROVE  applied'[v] <= run'[k].commit
      BY DEF NotAhead
    <3>1. /\ run'[k].step = run[k].step /\ run'[k].commit = run[k].commit /\ run[k].commit \in Nat
          /\ ~run[k].behind
      BY <1>0, <1>1, <2>2 DEF RunType
    <3>2. applied[v] <= run[k].commit
      BY <3>1 DEF LaneInv, NotAhead
    <3>3. run[i].commit <= run[k].commit
      BY <1>1, <2>3, <3>1 DEF LaneInv, OneAtATime
    <3> QED BY <2>7, <3>1, <3>2, <3>3
  <2>12. ASSUME NEW k \in 1..MaxRuns PROVE Covered(k)'
    <3>1. CASE k # i
      <4>1. run'[k] = run[k] /\ run'[k].step \notin InProgress
        BY <1>1, <2>2, <3>1 DEF LaneInv, OneAtATime
      <4> QED BY <4>1 DEF Covered, InProgress
    <3>2. CASE k = i
      <4>1. Owes(i)' = Owes(i) /\ Owes(i) \subseteq CiUnits
        BY <1>1, <2>2 DEF Owes, Addressed
      <4>2. Covered(i)
        BY DEF LaneInv
      <4>3. ASSUME run[i].push, ~run[i].bad, NEW v \in Owes(i)
            PROVE  v \in run'[i].todo \/ applied'[v] >= run[i].commit
        <5>1. v \in CiUnits /\ (v \in run[i].todo \/ applied[v] >= run[i].commit)
          BY <1>1, <4>1, <4>2, <4>3 DEF Covered
        <5>2. CASE v = u
          BY <1>0, <1>3, <2>3, <5>1, <5>2 DEF TypeOK
        <5>3. CASE v # u
          BY <2>2, <2>7, <5>1, <5>3
        <5> QED BY <5>2, <5>3
      <4> QED BY <2>2, <3>2, <4>1, <4>3 DEF Covered
    <3> QED BY <3>1, <3>2
  <2> QED BY <2>5, <2>8, <2>9, <2>10, <2>11, <2>12 DEF LaneInv
<1>4. CASE UNCHANGED applied /\ run' = [run EXCEPT ![i].todo = @ \ Skipped(u, @), ![i].bad = TRUE]
  <2>1. run' \in [1..MaxRuns -> RunType]
    BY <1>0, <1>4 DEF RunType
  <2>2. /\ run'[i].step = "apply" /\ run'[i].push = run[i].push /\ run'[i].commit = run[i].commit
        /\ run'[i].bad = TRUE /\ run'[i].behind = run[i].behind
        /\ \A k \in 1..MaxRuns \ {i} : run'[k] = run[k]
    BY <1>0, <1>1, <1>4 DEF RunType
  <2>3. TypeOK'
    BY <1>0, <1>1, <1>2, <1>4, <2>1 DEF TypeOK, RunType, RunSteps
  <2>4. Covered(i)'
    BY <2>2 DEF Covered
  <2> QED BY <1>1, <1>4, <2>2, <2>3, <2>4, MoveKeeps
<1> QED BY <1>3, <1>4 DEF ApplyUnit

\* Nothing of the lane changes: main and the runs stay.
LEMMA OutsideKeeps ==
  ASSUME LaneInv, UNCHANGED <<main, run>>, TypeOK', \A u \in CiUnits : applied'[u] = applied[u]
  PROVE  LaneInv' /\ Forward
<1>1. NoneBack /\ applied' \in [Units -> Nat]
  BY MainFacts DEF NoneBack, CiUnits, CiDeployable, TypeOK, LaneInv
<1>2. HasCommit' /\ OneAtATime' /\ NotAhead'
  BY DEF LaneInv, HasCommit, OneAtATime, NotAhead
<1>3. \A k \in 1..MaxRuns : Covered(k)'
  BY <1>1, CoveredStays DEF LaneInv
<1>4. Forward
  BY <1>1 DEF NoneBack, Forward, EndsGreen
<1> QED BY <1>2, <1>3, <1>4 DEF LaneInv

\* A run joins the lane, of the newest commit or of an older ref.
LEMMA QueueKeeps ==
  ASSUME LaneInv, NEW r \in RunType', run' = Queued(r), UNCHANGED applied, TypeOK',
         main' = main \/ \E x : main' = Append(main, x), Len(main)' >= Len(main),
         r.commit \in 1..Len(main)', r.behind \/ r.commit = Len(main)'
  PROVE  LaneInv' /\ Forward
<1>0. TypeOK /\ Len(main) \in Nat /\ Len(main)' \in Nat /\ run \in [1..MaxRuns -> RunType]
  BY MainFacts, TypeParts DEF LaneInv, TypeOK
<1> DEFINE New(k) == /\ run'[k].push = r.push /\ run'[k].commit = r.commit /\ run'[k].behind = r.behind
                     /\ run'[k].step = "queued" /\ k = Cardinality(Created) + 1
           Same(k) == run[k].step # "queued" /\ run'[k] = run[k] /\ k # Cardinality(Created) + 1
           Gone(k) == /\ run'[k].push = run[k].push /\ run'[k].commit = run[k].commit
                      /\ run'[k].step = "superseded" /\ run[k].step = "queued"
<1>1. \A k \in 1..MaxRuns : New(k) \/ Same(k) \/ Gone(k)
  BY <1>0, QueuedRuns
<1>2. \A k \in 1..MaxRuns : New(k) => \A l \in 1..MaxRuns : New(l) => k = l
  OBVIOUS
<1>3. "superseded" \notin InProgress \cup {"queued"} /\ "queued" \notin InProgress
  BY DEF InProgress
<1>4. NoneBack /\ applied' \in [Units -> Nat]
  BY <1>0 DEF NoneBack, CiUnits, CiDeployable, TypeOK
<1>5. HasCommit'
  BY <1>0, <1>1 DEF HasCommit, LaneInv
<1>6. \A k \in 1..MaxRuns : run[k].commit <= Len(main)' /\ run[k].commit \in Nat
  BY <1>0 DEF RunType
<1>7. OneAtATime'
  <2> SUFFICES ASSUME NEW j \in 1..MaxRuns, NEW k \in 1..MaxRuns
               PROVE  /\ run'[j].step \in InProgress /\ run'[k].step \in InProgress => j = k
                      /\ run'[j].step = "queued" /\ run'[k].step = "queued" => j = k
                      /\ run'[j].step \in InProgress /\ run'[k].step = "queued" /\ ~run'[k].behind =>
                           run'[j].commit <= run'[k].commit
    BY DEF OneAtATime
  <2>1. run'[j].step = "queued" => New(j)
    BY <1>1
  <2>2. run'[k].step = "queued" => New(k)
    BY <1>1
  <2>3. run'[j].step \in InProgress => run'[j] = run[j]
    BY <1>1, <1>3
  <2>4. run'[k].step \in InProgress => run'[k] = run[k]
    BY <1>1, <1>3
  <2>5. run'[j].step = "queued" /\ run'[k].step = "queued" => j = k
    BY <1>2, <2>1, <2>2
  <2>6. run'[j].step \in InProgress /\ run'[k].step \in InProgress => j = k
    BY <2>3, <2>4 DEF LaneInv, OneAtATime
  <2>7. run'[j].step \in InProgress /\ run'[k].step = "queued" /\ ~run'[k].behind =>
          run'[j].commit <= run'[k].commit
    BY <1>6, <2>2, <2>3
  <2> QED BY <2>5, <2>6, <2>7
<1>8. NotAhead'
  <2> SUFFICES ASSUME NEW k \in 1..MaxRuns, run'[k].step \in InProgress \cup {"queued"},
                      ~run'[k].behind, NEW u \in CiUnits
               PROVE  applied[u] <= run'[k].commit
    BY DEF NotAhead
  <2>1. CASE New(k)
    <3>1. applied[u] \in 0..Len(main)
      BY <1>0 DEF TypeOK, CiUnits, CiDeployable
    <3> QED BY <1>0, <2>1, <3>1
  <2>2. CASE Same(k)
    BY <2>2 DEF LaneInv, NotAhead
  <2> QED BY <1>1, <1>3, <2>1, <2>2
<1>9. ASSUME NEW k \in 1..MaxRuns PROVE Covered(k)'
  <2>1. CASE New(k)
    BY <2>1 DEF Covered
  <2>2. CASE Same(k)
    BY <1>0, <1>4, <2>2, CoveredStays DEF LaneInv
  <2>3. CASE Gone(k)
    BY <2>3 DEF Covered
  <2> QED BY <1>1, <2>1, <2>2, <2>3
<1>10. \A k \in 1..MaxRuns : ~EndsGreen(k)
  BY <1>1 DEF EndsGreen
<1> HIDE DEF New, Same, Gone
<1>11. Forward
  BY <1>4, <1>10 DEF NoneBack, Forward
<1> QED BY <1>5, <1>7, <1>8, <1>9, <1>11 DEF LaneInv

LEMMA LiveType ==
  ASSUME LaneInv
  PROVE  Live \in SUBSET Units
  BY MainFacts DEF LaneInv, HasCommit, Live, Commits

LEMMA MergeKeeps ==
  ASSUME LaneInv, Merge
  PROVE  LaneInv' /\ Forward /\ pr' = NoPr
<1>0. TypeOK /\ main \in Seq(Commits) /\ Len(main) \in Nat /\ pr \in PrType
  BY MainFacts, TypeParts DEF LaneInv
<1> DEFINE x == [changed |-> pr.changed, deleted |-> pr.deleted, live |-> TreeWith(pr)]
           r == [NoRun EXCEPT !.push = TRUE, !.commit = Len(main) + 1]
<1>1. /\ main' = Append(main, x) /\ run' = Queued(r) /\ pr' = NoPr
      /\ UNCHANGED <<applied, locked, faults>>
  BY DEF Merge
<1>2. TreeWith(pr) \in SUBSET Units
  BY LiveType DEF TreeWith
<1>3. pr.changed \in SUBSET (Units \cup Shared) /\ pr.deleted \in SUBSET Units
  BY <1>0 DEF PrType
<1>4. x \in Commits
  BY <1>2, <1>3 DEF Commits
<1> HIDE DEF x
<1>5. main' \in Seq(Commits) /\ Len(main)' = Len(main) + 1
  BY <1>0, <1>1, <1>4
<1>6. r \in RunType' /\ r.commit = Len(main)' /\ r.commit \in 1..Len(main)'
  <2>1. Len(main) + 1 \in 0..Len(main)' /\ NoRun \in RunType'
    BY <1>0, <1>5, NoRunType DEF RunType, RunSteps
  <2>2. r \in RunType'
    BY <2>1 DEF RunType
  <2>3. r.commit = Len(main) + 1
    BY DEF NoRun
  <2> QED BY <1>0, <1>5, <2>2, <2>3
<1> HIDE DEF r
<1>7. run' \in [1..MaxRuns -> RunType']
  BY <1>0, <1>1, <1>5, <1>6, QueuedRuns
<1>8. NoPr \in PrType
  BY DEF NoPr, PrType
<1>9. applied' \in [Units -> 0..Len(main)']
  BY <1>0, <1>1, <1>5 DEF TypeOK
<1>10. TypeOK'
  BY <1>0, <1>1, <1>5, <1>7, <1>8, <1>9, TypeParts DEF TypeOK, Commits, RunType, RunSteps, PrType
<1>11. LaneInv' /\ Forward
  BY <1>0, <1>1, <1>5, <1>6, <1>10, QueueKeeps
<1> QED BY <1>1, <1>11

LEMMA DispatchKeeps ==
  ASSUME LaneInv, NEW c \in 1..Len(main), NEW scope \in Dispatches, Dispatch(c, scope)
  PROVE  LaneInv' /\ Forward /\ pr' = pr
<1>0. TypeOK /\ Len(main) \in Nat /\ main[c].live \in SUBSET Units
  BY MainFacts DEF LaneInv, Commits
<1> DEFINE r == [NoRun EXCEPT !.commit = c, !.behind = c < Len(main), !.scope = scope]
<1>1. /\ UNCHANGED <<main, applied, locked, pr, faults>> /\ run' = Queued(r) /\ scope \in SUBSET Units
  BY <1>0 DEF Dispatch
<1>2. r \in RunType' /\ r.commit \in 1..Len(main)' /\ (r.behind \/ r.commit = Len(main)')
  <2>1. c \in 0..Len(main)' /\ (c < Len(main)) \in BOOLEAN /\ NoRun \in RunType'
    BY <1>0, <1>1, NoRunType DEF RunType, RunSteps
  <2>2. r \in RunType'
    BY <1>1, <2>1 DEF RunType
  <2>3. r.commit = c /\ (c < Len(main) => r.behind)
    BY DEF NoRun
  <2> QED BY <1>0, <1>1, <2>2, <2>3
<1> HIDE DEF r
<1>3. run' \in [1..MaxRuns -> RunType']
  BY <1>0, <1>1, <1>2, QueuedRuns
<1>4. TypeOK'
  BY <1>0, <1>1, <1>3 DEF TypeOK, RunType, RunSteps
<1> QED BY <1>0, <1>1, <1>2, <1>4, QueueKeeps

\* The plan lane touches nothing but the pull request.
PrStep ==
  \/ \E c \in Changes : PushToPr(c)
  \/ DetectAndPartition \/ PlanEnds
  \/ \E a \in Accounts : PlanRow(a) \/ PlanRowFails(a) \/ PreflightOfRowFails(a)

LEMMA PrStepKeeps ==
  ASSUME LaneInv, PrStep
  PROVE  LaneInv' /\ Forward /\ UNCHANGED <<main, applied, run>>
<1>0. TypeOK /\ pr \in PrType
  BY TypeParts DEF LaneInv
<1>1. UNCHANGED <<main, applied, locked, run>>
  BY DEF PrStep, PushToPr, DetectAndPartition, PlanEnds, PlanRow, PlanRowFails, PreflightOfRowFails
<1>2. faults' \in 0..MaxFaults
  <2>1. faults' = faults \/ Fault
    BY DEF PrStep, PushToPr, DetectAndPartition, PlanEnds, PlanRow, PlanRowFails, PreflightOfRowFails
  <2> QED BY <1>0, <2>1, BoundsAssumption DEF Fault, TypeOK
<1>3. pr' \in PrType
  <2>1. ASSUME NEW c \in Changes, PushToPr(c) PROVE pr' \in PrType
    <3>1. c.changed \in SUBSET (Units \cup Shared) /\ c.deleted \in SUBSET Units
      BY TreeAssumption
    <3> QED BY <2>1, <3>1 DEF PushToPr, NoPr, PrType
  <2>2. CASE DetectAndPartition
    <3> DEFINE scope == Detected(pr.changed, TreeWith(pr))
    <3>1. TreeWith(pr) \in SUBSET Units
      BY LiveType DEF TreeWith
    <3>2. scope \in SUBSET Units
      BY <3>1, DetectedType
    <3>3. AccountsOf(scope) \in SUBSET Accounts /\ HaveState(scope) \in SUBSET Units
      BY <3>2, AccountsOfUnits DEF HaveState
    <3>4. EmptyScopeFails(pr, scope) \in BOOLEAN
      BY DEF EmptyScopeFails
    <3>5. pr' = [pr EXCEPT !.scope = scope, !.rows = AccountsOf(scope),
                           !.step = IF scope = {} THEN "done" ELSE "rows",
                           !.bad = EmptyScopeFails(pr, scope), !.had = HaveState(scope)]
      BY <2>2 DEF DetectAndPartition
    <3> HIDE DEF scope
    <3> QED BY <1>0, <3>2, <3>3, <3>4, <3>5 DEF PrType
  <2>3. CASE PlanEnds
    BY <1>0, <2>3 DEF PlanEnds, PrType
  <2>4. ASSUME NEW a \in Accounts, PlanRow(a) \/ PlanRowFails(a) \/ PreflightOfRowFails(a)
        PROVE  pr' \in PrType
    <3>1. HaveState(Row(pr.scope, a)) \in SUBSET Units
      BY <1>0 DEF HaveState, Row, PrType
    <3>2. CASE PlanRow(a)
      BY <1>0, <3>1, <3>2 DEF PlanRow, PrType
    <3>3. CASE PlanRowFails(a) \/ PreflightOfRowFails(a)
      <4>1. pr' = [pr EXCEPT !.rows = @ \ {a}, !.bad = TRUE]
        BY <3>3 DEF PlanRowFails, PreflightOfRowFails
      <4> QED BY <1>0, <4>1 DEF PrType
    <3> QED BY <2>4, <3>2, <3>3
  <2> QED BY <2>1, <2>2, <2>3, <2>4 DEF PrStep
<1>4. TypeOK'
  BY <1>0, <1>1, <1>2, <1>3 DEF TypeOK, PrType
<1>5. \A u \in CiUnits : applied'[u] = applied[u]
  BY <1>1
<1> QED BY <1>1, <1>4, <1>5, OutsideKeeps

\* What is done by hand and by the perf test is not what CI deploys.
LEMMA HandsKeep ==
  ASSUME LaneInv, PerfIsOnDemand, NEW u \in Units,
         OperatorApplies(u) \/ ForceUnlock(u) \/ PerfStandsUp(u) \/ PerfTearsDown(u)
  PROVE  LaneInv' /\ Forward /\ pr' = pr
<1>0. TypeOK /\ Len(main) \in Nat /\ Len(main) >= 1
  BY MainFacts DEF LaneInv, HasCommit
<1>1. UNCHANGED <<main, run, pr, faults>>
  BY DEF OperatorApplies, ForceUnlock, PerfStandsUp, PerfTearsDown
<1>2. u \in PerfScope => u \notin CiUnits
  BY DEF PerfScope, SelectRow, Row, CiUnits, CiDeployable, IsAccountCiDeployable, AllowsCiApply, PerfIsOnDemand
<1>3. locked' \subseteq Units
  BY <1>0 DEF OperatorApplies, ForceUnlock, PerfStandsUp, PerfTearsDown, TypeOK
<1>4. applied' \in [Units -> 0..Len(main)]
  <2>1. 0 \in 0..Len(main) /\ 1 \in 0..Len(main) /\ applied \in [Units -> 0..Len(main)]
    BY <1>0 DEF TypeOK
  <2>2. \/ applied' = applied \/ \E n \in {0, 1} : applied' = [applied EXCEPT ![u] = n]
    BY DEF OperatorApplies, ForceUnlock, PerfStandsUp, PerfTearsDown
  <2> QED BY <2>1, <2>2
<1>5. TypeOK'
  BY <1>0, <1>1, <1>3, <1>4 DEF TypeOK
<1>6. \A v \in CiUnits : applied'[v] = applied[v]
  BY <1>0, <1>2 DEF OperatorApplies, ForceUnlock, PerfStandsUp, PerfTearsDown, TypeOK, CiUnits, CiDeployable
<1> QED BY <1>1, <1>5, <1>6, OutsideKeeps

LEMMA LaneStepKeeps ==
  ASSUME LaneInv, NEW i \in 1..MaxRuns, LaneStep(i) \/ RunnerLost(i)
  PROVE  LaneInv' /\ Forward /\ pr' = pr
<1>1. CASE \E u \in Units : ApplyUnit(i, u)
  BY <1>1, ApplyKeeps DEF ApplyUnit
<1>2. CASE Start(i) \/ Approve(i) \/ Reject(i) \/ Preflight(i) \/ ApplyEnds(i) \/ Validate(i) \/ RunnerLost(i)
  <2>1. pr' = pr
    BY <1>2 DEF Start, Approve, Reject, Preflight, ApplyEnds, Validate, RunnerLost
  <2> QED BY <1>2, <2>1, StartKeeps, ApproveKeeps, StepsKeep
<1> QED BY <1>1, <1>2 DEF LaneStep

\* Every step keeps the invariant and does what Forward says.
LEMMA NextKeeps ==
  ASSUME LaneInv, PerfIsOnDemand, [Next]_vars
  PROVE  LaneInv' /\ Forward
<1>1. CASE UNCHANGED vars
  <2>1. UNCHANGED <<main, applied, locked, run, pr, faults>>
    BY <1>1 DEF vars
  <2>2. TypeOK'
    BY <2>1 DEF LaneInv, TypeOK
  <2> QED BY <2>1, <2>2, OutsideKeeps
<1>2. CASE PrStep
  BY <1>2, PrStepKeeps
<1>3. CASE Merge
  BY <1>3, MergeKeeps
<1>4. CASE \E c \in 1..Len(main), scope \in Dispatches : Dispatch(c, scope)
  BY <1>4, DispatchKeeps
<1>5. CASE \E i \in 1..MaxRuns : LaneStep(i) \/ RunnerLost(i)
  BY <1>5, LaneStepKeeps
<1>6. CASE \E u \in Units : OperatorApplies(u) \/ ForceUnlock(u) \/ PerfStandsUp(u) \/ PerfTearsDown(u)
  BY <1>6, HandsKeep
<1> QED BY <1>1, <1>2, <1>3, <1>4, <1>5, <1>6 DEF Next, PrStep

LEMMA InitHolds == Init => LaneInv /\ PlanCovers
<1> SUFFICES ASSUME Init PROVE LaneInv /\ PlanCovers
  OBVIOUS
<1> DEFINE c == [changed |-> {}, deleted |-> {}, live |-> FirstLive]
<1>1. c \in Commits /\ main = <<c>>
  BY TreeAssumption DEF Init, Commits
<1> HIDE DEF c
<1>2. main \in Seq(Commits) /\ Len(main) = 1
  BY <1>1
<1>3. NoRun \in RunType
  BY <1>2, NoRunType DEF RunType, RunSteps, NoRun
<1>4. run \in [1..MaxRuns -> RunType] /\ \A i \in 1..MaxRuns : run[i].step = "none" /\ run[i].push = FALSE
  BY <1>3, NoRunType DEF Init
<1>5. NoPr \in PrType /\ pr = NoPr
  BY DEF Init, NoPr, PrType
<1>6. applied \in [Units -> 0..Len(main)] /\ locked \subseteq Units /\ faults \in 0..MaxFaults
  BY <1>2, BoundsAssumption DEF Init
<1>7. TypeOK
  BY <1>2, <1>4, <1>5, <1>6, TypeParts
<1>8. HasCommit /\ OneAtATime /\ NotAhead /\ \A i \in 1..MaxRuns : Covered(i)
  BY <1>2, <1>4 DEF HasCommit, OneAtATime, NotAhead, Covered, InProgress
<1>9. PlanCovers
  BY <1>5 DEF PlanCovers, GreenPlanCoversState, NoPr
<1> QED BY <1>7, <1>8, <1>9 DEF LaneInv

LEMMA LaneInvHolds == PerfIsOnDemand => (Spec => []LaneInv)
<1> SUFFICES ASSUME PerfIsOnDemand PROVE Spec => []LaneInv
  OBVIOUS
<1>1. Init => LaneInv
  BY InitHolds
<1>2. LaneInv /\ [Next]_vars => LaneInv'
  BY NextKeeps
<1> QED BY <1>1, <1>2, PTL DEF Spec

\* The plan of a pull request keeps covering, as no CI unit loses its state.
LEMMA PlanCoversKept ==
  ASSUME LaneInv, PlanCovers, PerfIsOnDemand, [Next]_vars
  PROVE  PlanCovers'
<1>0. /\ TypeOK /\ pr \in PrType /\ Forward /\ CiUnits \subseteq Units
      /\ \A u \in CiUnits : applied[u] \in Nat /\ applied'[u] \in Nat
  <2>1. LaneInv' /\ Forward
    BY NextKeeps
  <2>2. Len(main) \in Nat /\ Len(main)' \in Nat /\ CiUnits \subseteq Units
    BY <2>1, MainFacts DEF LaneInv, TypeOK, CiUnits, CiDeployable
  <2>3. \A u \in CiUnits : applied[u] \in Nat /\ applied'[u] \in Nat
    BY <2>1, <2>2 DEF LaneInv, TypeOK
  <2> QED BY <2>1, <2>2, <2>3, TypeParts DEF LaneInv
<1>1. CASE pr' = pr
  <2>1. \A u \in CiUnits : applied[u] > 0 => applied'[u] > 0
    BY <1>0 DEF Forward
  <2> QED BY <1>1, <2>1 DEF PlanCovers, GreenPlanCoversState
<1>2. CASE Merge
  BY <1>2, MergeKeeps DEF PlanCovers, GreenPlanCoversState, NoPr
<1>3. CASE PrStep
  <2>0. applied' = applied
    BY <1>3, PrStepKeeps
  <2>1. ASSUME NEW c \in Changes, PushToPr(c) PROVE PlanCovers'
    <3>1. pr'.step = "open"
      BY <2>1 DEF PushToPr, NoPr
    <3> QED BY <3>1 DEF PlanCovers, GreenPlanCoversState
  <2>2. CASE DetectAndPartition
    <3> DEFINE scope == Detected(pr.changed, TreeWith(pr))
    <3>1. /\ pr'.scope = scope /\ pr'.rows = AccountsOf(scope) /\ pr'.had = HaveState(scope)
          /\ pr'.step = IF scope = {} THEN "done" ELSE "rows"
      BY <1>0, <2>2 DEF DetectAndPartition, PrType
    <3>2. \A u \in pr'.had : u \in scope /\ applied[u] > 0 /\ ResolveAccountId(u) \in AccountsOf(scope)
      BY <3>1 DEF HaveState, StateExists, AccountsOf
    <3> HIDE DEF scope
    <3> QED BY <2>0, <3>1, <3>2 DEF PlanCovers, GreenPlanCoversState
  <2>3. CASE PlanEnds
    <3>1. /\ pr'.had = pr.had /\ pr'.planned = pr.planned /\ pr'.bad = pr.bad /\ pr'.step = "done"
          /\ pr.step = "rows" /\ pr.rows = {}
      BY <1>0, <2>3 DEF PlanEnds, PrType
    <3> QED BY <3>1 DEF PlanCovers, GreenPlanCoversState
  <2>4. ASSUME NEW a \in Accounts, PlanRow(a) PROVE PlanCovers'
    <3>1. /\ pr'.had = pr.had /\ pr'.scope = pr.scope /\ pr'.bad = pr.bad /\ pr'.step = "rows" /\ pr.step = "rows"
          /\ pr'.rows = pr.rows \ {a} /\ pr'.planned = pr.planned \cup HaveState(Row(pr.scope, a))
      BY <1>0, <2>4 DEF PlanRow, PrType
    <3>2. \A u \in pr.had \cap CiUnits : ResolveAccountId(u) = a => u \in HaveState(Row(pr.scope, a))
      BY <3>1 DEF PlanCovers, HaveState, StateExists, Row
    <3> QED BY <2>0, <3>1, <3>2 DEF PlanCovers, GreenPlanCoversState
  <2>5. ASSUME NEW a \in Accounts, PlanRowFails(a) \/ PreflightOfRowFails(a) PROVE PlanCovers'
    <3>1. /\ pr'.had = pr.had /\ pr'.scope = pr.scope /\ pr'.bad = TRUE /\ pr'.step = "rows" /\ pr.step = "rows"
      BY <1>0, <2>5 DEF PlanRowFails, PreflightOfRowFails, PrType
    <3> QED BY <2>0, <3>1 DEF PlanCovers, GreenPlanCoversState
  <2> QED BY <1>3, <2>1, <2>2, <2>3, <2>4, <2>5 DEF PrStep
<1> QED BY <1>1, <1>2, <1>3, DispatchKeeps, LaneStepKeeps, HandsKeep DEF Next, PrStep, vars

-----------------------------------------------------------------------------
\* main, the runs of the lane and the pull request keep their types; every unit is applied
\* from a commit that exists.
THEOREM TypeCorrect == PerfIsOnDemand => (Spec => []TypeOK)
<1> SUFFICES ASSUME PerfIsOnDemand PROVE Spec => []TypeOK
  OBVIOUS
<1>1. LaneInv => TypeOK
  BY DEF LaneInv
<1> QED BY <1>1, LaneInvHolds, PTL

\* Prod applies are serialized: whatever order merges, dispatches, approvals and failures
\* come in, only a run dispatched from an older ref takes a unit that CI deploys back.
THEOREM NeverRollsBack == PerfIsOnDemand => (Spec => NoRollback)
<1> SUFFICES ASSUME PerfIsOnDemand PROVE Spec => NoRollback
  OBVIOUS
<1>1. LaneInv /\ [Next]_vars =>
        [\A u \in CiUnits : applied'[u] >= applied[u] \/ \E i \in 1..MaxRuns : TakesBack(i, u)]_vars
  BY NextKeeps DEF Forward
<1> QED BY <1>1, LaneInvHolds, PTL DEF Spec, NoRollback

\* When the run of a push ends green, every CI unit its commit addresses is deployed from
\* that commit or a later one, however the scope was detected, whatever failed on the way
\* and whatever older refs were dispatched before.
THEOREM GreenMeansApplied == PerfIsOnDemand => (Spec => GreenRunApplied)
<1> SUFFICES ASSUME PerfIsOnDemand PROVE Spec => GreenRunApplied
  OBVIOUS
<1>1. LaneInv /\ [Next]_vars =>
        [\A i \in 1..MaxRuns : EndsGreen(i) =>
           \A u \in Addressed(run[i].commit) \cap CiUnits : applied[u] >= run[i].commit]_vars
  BY NextKeeps DEF Forward, Owes
<1> QED BY <1>1, LaneInvHolds, PTL DEF Spec, GreenRunApplied

\* A plan lane that ends green planned every CI unit of the change that had state when it
\* began, in all accounts, although applies go on meanwhile.
THEOREM GreenPlanIsComplete == PerfIsOnDemand => (Spec => []GreenPlanCoversState)
<1> SUFFICES ASSUME PerfIsOnDemand PROVE Spec => []GreenPlanCoversState
  OBVIOUS
<1>1. Init => PlanCovers
  BY InitHolds
<1>2. LaneInv /\ PlanCovers /\ [Next]_vars => PlanCovers'
  BY PlanCoversKept
<1>3. PlanCovers => GreenPlanCoversState
  BY DEF PlanCovers
<1> QED BY <1>1, <1>2, <1>3, LaneInvHolds, PTL DEF Spec
=============================================================================

----------------------------- MODULE ReleaseLane -----------------------------
(***************************************************************************)
(* The release pipeline of .github/workflows/main-validation.yml, the      *)
(* branch lock its release job takes (scripts/lock_branch.py), the git     *)
(* steps it runs (scripts/release_steps.py, scripts/check_staleness.py,    *)
(* scripts/ci_calculate_version.py) and the watchdog that runs beside it   *)
(* (.github/workflows/safety-net.yml, scripts/safety_net_unlock.py).       *)
(*                                                                         *)
(* main is the sequence of commits on the branch.  Every push of a commit  *)
(* starts one workflow run, so commit i and run i share the index i: it is *)
(* the run's github.sha and its github.run_id.  A ref is an index too.     *)
(*                                                                         *)
(* Each action is one remote call (or the local steps up to it) of one     *)
(* run; between any two of them other pushes, the watchdog, a failing step *)
(* or the loss of the whole run may come.                                  *)
(***************************************************************************)
EXTENDS Semver, Sequences, FiniteSets

CONSTANTS
  Modules,         \* module leaves, each with its own tag prefix
  MergeScopes,     \* the scopes of the pushes people make
  MergeBumps,      \* the bumps the titles of merged pull requests ask for
  MaxMerges,       \* bound: pushes by people
  MaxCommits,      \* bound: commits on main, release commits included
  LockMaxAge,      \* LOCK_MAX_AGE_MINUTES, in ticks of Tick
  CountAnswered    \* the watchdog's count of runs gets an answer, see WatchdogDecide

ASSUME ModulesAssumption == Modules \cap {"config", "terragrunt", "all"} = {}
ASSUME ScopesAssumption  == MergeScopes \subseteq Modules \cup {"config", "terragrunt", "all"}
ASSUME BumpsAssumption   == MergeBumps \subseteq Bumps
ASSUME BoundsAssumption  == MaxMerges \in Nat /\ MaxCommits \in Nat
ASSUME LockMaxAgeAssumption == LockMaxAge \in Nat
ASSUME CountAssumption      == CountAnswered \in BOOLEAN

VARIABLES
  main,            \* the commits of the branch
  running,         \* concurrency group release-pipeline: the run in progress, or 0
  pending,         \* ... and the one pending run GitHub keeps for it, or 0
  stage,           \* the step each run stands before, or how it ended
  head,            \* HEAD of each run's release-job checkout
  origin,          \* each run's origin/main, as of its git fetch
  next,            \* version-check's next_version output
  tags,            \* the tags of the repository
  ghReleases,      \* the tags with a GitHub release
  marker,          \* BRANCH_LOCK_RUN_ID_MAIN, run = 0 when absent, and its age
  protection,      \* lock_branch of main's branch protection rule
  wd               \* the watchdog run: its program counter and the age it read

laneVars == <<running, pending, stage>>
jobVars  == <<head, origin, next>>
gitVars  == <<main, tags, ghReleases>>
lockVars == <<marker, protection>>
vars     == <<main, running, pending, stage, head, origin, next, tags, ghReleases,
              marker, protection, wd>>

RunIds == 1..MaxCommits

\* What has a VERSION file and a tag prefix (build_tag_prefix).
Units == Modules \cup {"config"}

\* The scopes of a push: one unit, or one that releases nothing.
Scopes == Units \cup {"terragrunt", "all"}

\* via: who pushed.  People merge through the queue or, as org admins, past it;
\* release commits are pushed by a bot that the actor field names either
\* github-actions[bot] or the App.  pr: the API finds a pull request for it.
Commits == [via : {"queue", "admin", "actions_bot", "app_bot"}, scope : Scopes,
            bump : Bumps, squash : Bumps, pr : BOOLEAN]

Bots == {"actions_bot", "app_bot"}

Tags == [unit : Units, ver : Versions, at : RunIds, src : RunIds]

ValidationStages == {"skip_check", "validations", "version_check"}
ReleaseStages    == {"lock", "protect", "fetch", "staleness", "reset", "push", "publish"}
UnlockStages     == {"unlock", "delete", "disable"}
LiveStages       == ValidationStages \cup ReleaseStages \cup UnlockStages
EndStages        == {"superseded", "skipped", "failed", "done", "unlock_failed", "crashed"}
Stages           == {"none", "pending"} \cup LiveStages \cup EndStages

\* Runs the API reports with status=in_progress.
InProgress == {r \in RunIds : stage[r] \in LiveStages}

VersionsOf(u) == {t.ver : t \in {x \in tags : x.unit = u}}

TypeOK ==
  /\ main \in Seq(Commits) /\ Len(main) <= MaxCommits
  /\ running \in 0..MaxCommits
  /\ pending \in 0..MaxCommits
  /\ stage \in [RunIds -> Stages]
  /\ head \in [RunIds -> 0..MaxCommits]
  /\ origin \in [RunIds -> 0..MaxCommits]
  /\ next \in [RunIds -> Versions]
  /\ tags \subseteq Tags
  /\ ghReleases \subseteq Tags
  /\ marker \in [run : 0..MaxCommits, age : 0..LockMaxAge]
  /\ protection \in BOOLEAN
  /\ wd \in [pc : {"idle", "count", "delete"}, age : 0..LockMaxAge]

NoMarker == [run |-> 0, age |-> 0]

Init ==
  /\ main = <<>>
  /\ running = 0 /\ pending = 0
  /\ stage = [r \in RunIds |-> "none"]
  /\ head = [r \in RunIds |-> 0]
  /\ origin = [r \in RunIds |-> 0]
  /\ next = [r \in RunIds |-> <<0, 0, 0>>]
  /\ tags = {} /\ ghReleases = {}
  /\ marker = NoMarker
  /\ protection = FALSE
  /\ wd = [pc |-> "idle", age |-> 0]

-----------------------------------------------------------------------------
(***************************************************************************)
(* The lane: concurrency group release-pipeline, cancel-in-progress false. *)
(* One run in progress, one pending; a newer run supersedes the pending    *)
(* one.                                                                    *)
(***************************************************************************)

\* Mutant of Queued: a lane per module, so a new run starts at once.
QueuedStartsAtOnce(n) == [r \in RunIds |-> IF r = n THEN "skip_check" ELSE stage[r]]

\* The lane's stages after run n is created by a push.
Queued(n) ==
  [r \in RunIds |->
     IF r = n THEN IF running = 0 THEN "skip_check" ELSE "pending"
     ELSE IF running # 0 /\ r = pending THEN "superseded"
     ELSE stage[r]]

\* A push of commit c creates the run n that reads it.
CreateRun(n) ==
  /\ running' = IF running = 0 THEN n ELSE running
  /\ pending' = IF running = 0 THEN pending ELSE n

\* Mutant of EndRun: the lane forgets the pending run.
EndRunStrandsPending(r, how) ==
  /\ running' = 0
  /\ pending' = pending
  /\ stage' = [stage EXCEPT ![r] = how]

\* Run r is over and the pending run, if any, starts.
EndRun(r, how) ==
  /\ running' = pending
  /\ pending' = 0
  /\ stage' = [i \in RunIds |-> IF i = r THEN how
                                ELSE IF i = pending THEN "skip_check"
                                ELSE stage[i]]

\* Run r goes on to its next step.
Go(r, to) == stage' = [stage EXCEPT ![r] = to] /\ UNCHANGED <<running, pending>>

HumanCommits == {i \in 1..Len(main) : main[i].via \notin Bots}

\* Mutant of MergePullRequest: the queue merges into a locked branch.
MergePullRequestWhileLocked(scope, bump, squash) ==
  LET n == Len(main) + 1 IN
  /\ n <= MaxCommits /\ Cardinality(HumanCommits) < MaxMerges
  /\ main' = Append(main, [via |-> "queue", scope |-> scope, bump |-> bump,
                           squash |-> squash, pr |-> TRUE])
  /\ CreateRun(n) /\ stage' = Queued(n)
  /\ UNCHANGED <<jobVars, tags, ghReleases, lockVars, wd>>

\* The merge queue lands one pull request, squashed: lock_branch holds it off.
\* squash is the bump of the squash subject, which the merger may have edited.
MergePullRequest(scope, bump, squash) ==
  LET n == Len(main) + 1 IN
  /\ n <= MaxCommits /\ Cardinality(HumanCommits) < MaxMerges
  /\ ~protection
  /\ main' = Append(main, [via |-> "queue", scope |-> scope, bump |-> bump,
                           squash |-> squash, pr |-> TRUE])
  /\ CreateRun(n) /\ stage' = Queued(n)
  /\ UNCHANGED <<jobVars, tags, ghReleases, lockVars, wd>>

\* An org admin's direct push or merge: enforce-admins is off, so a locked
\* branch does not stop it.
AdminPush(scope, bump, pr) ==
  LET n == Len(main) + 1 IN
  /\ n <= MaxCommits /\ Cardinality(HumanCommits) < MaxMerges
  /\ main' = Append(main, [via |-> "admin", scope |-> scope, bump |-> bump,
                           squash |-> bump, pr |-> pr])
  /\ CreateRun(n) /\ stage' = Queued(n)
  /\ UNCHANGED <<jobVars, tags, ghReleases, lockVars, wd>>

-----------------------------------------------------------------------------
(***************************************************************************)
(* The jobs before the release job.                                        *)
(***************************************************************************)

\* skip-check and check_release_commit: only a bot's release commit is
\* skipped, and only when the actor is github-actions[bot].
SkipCheck(r) ==
  /\ stage[r] = "skip_check"
  /\ IF main[r].via = "actions_bot" THEN EndRun(r, "skipped") ELSE Go(r, "validations")
  /\ UNCHANGED <<gitVars, jobVars, lockVars, wd>>

\* scope-detection and validations pass; terragrunt and all release nothing.
Validations(r) ==
  /\ stage[r] = "validations"
  /\ IF main[r].scope \in Units THEN Go(r, "version_check") ELSE EndRun(r, "skipped")
  /\ UNCHANGED <<gitVars, jobVars, lockVars, wd>>

\* Mutant of VersionCheck: the bump is taken without a pull request (no D17).
VersionCheckNoPr(r) ==
  LET c  == main[r]
      nv == NextVersion(VersionsOf(c.scope), c.bump)
  IN
  /\ stage[r] = "version_check"
  /\ next' = [next EXCEPT ![r] = nv] /\ Go(r, "lock")
  /\ UNCHANGED <<gitVars, head, origin, lockVars, wd>>

\* Mutant of VersionCheck: the bump is applied to a version already bumped.
VersionCheckBumpsTwice(r) ==
  LET c  == main[r]
      nv == ApplyBump(NextVersion(VersionsOf(c.scope), c.bump), c.bump)
  IN
  /\ stage[r] = "version_check"
  /\ IF c.pr /\ c.bump = c.squash /\ nv \notin VersionsOf(c.scope)
     THEN next' = [next EXCEPT ![r] = nv] /\ Go(r, "lock")
     ELSE UNCHANGED next /\ EndRun(r, "failed")
  /\ UNCHANGED <<gitVars, head, origin, lockVars, wd>>

\* version-check: a commit without a pull request, a squash subject that
\* disagrees with the pull request's title (D17) and a tag that already exists
\* fail the job; otherwise the next version is fixed here, before the lock.
VersionCheck(r) ==
  LET c  == main[r]
      nv == NextVersion(VersionsOf(c.scope), c.bump)
  IN
  /\ stage[r] = "version_check"
  /\ IF c.pr /\ c.bump = c.squash /\ nv \notin VersionsOf(c.scope)
     THEN next' = [next EXCEPT ![r] = nv] /\ Go(r, "lock")
     ELSE UNCHANGED next /\ EndRun(r, "failed")
  /\ UNCHANGED <<gitVars, head, origin, lockVars, wd>>

-----------------------------------------------------------------------------
(***************************************************************************)
(* The release job.                                                        *)
(***************************************************************************)

\* Mutant of WriteLockMarker: a time stamp in the wrong unit.
WriteLockMarkerWrongUnit(r) ==
  /\ stage[r] = "lock"
  /\ head' = [head EXCEPT ![r] = r]
  /\ marker' = [run |-> r, age |-> LockMaxAge + 1]
  /\ Go(r, "protect")
  /\ UNCHANGED <<gitVars, origin, next, protection, wd>>

\* Checkout of github.sha, then write_lock_marker: PATCH, or POST when the
\* variable is absent, whoever's marker it replaces.
WriteLockMarker(r) ==
  /\ stage[r] = "lock"
  /\ head' = [head EXCEPT ![r] = r]
  /\ marker' = [run |-> r, age |-> 0]
  /\ Go(r, "protect")
  /\ UNCHANGED <<gitVars, origin, next, protection, wd>>

\* _enable_branch_protection: the rule is re-PUT with lock_branch = true.
EnableProtection(r) ==
  /\ stage[r] = "protect"
  /\ protection' = TRUE
  /\ Go(r, "fetch")
  /\ UNCHANGED <<gitVars, jobVars, marker, wd>>

\* git fetch origin main: moves origin/main, not HEAD.
GitFetch(r) ==
  /\ stage[r] = "fetch"
  /\ origin' = [origin EXCEPT ![r] = Len(main)]
  /\ Go(r, "staleness")
  /\ UNCHANGED <<gitVars, head, next, lockVars, wd>>

\* is_path_in_scope: a commit changes unit u.  The workflow passes no shared
\* paths; a config release is compared with the whole repository.
InScope(c, u) == c.scope = u \/ c.scope = "all" \/ u = "config"

\* git diff --name-only from..to touches u.
Changed(from, to, u) == \E i \in (from + 1)..to : InScope(main[i], u)

\* check_staleness compares the merge SHA with HEAD, which the checkout left
\* at that very SHA.
CheckStaleness(r) ==
  /\ stage[r] = "staleness"
  /\ Go(r, IF Changed(r, head[r], main[r].scope) THEN "unlock" ELSE "reset")
  /\ UNCHANGED <<gitVars, jobVars, lockVars, wd>>

\* git reset --hard origin/main.
GitReset(r) ==
  /\ stage[r] = "reset"
  /\ head' = [head EXCEPT ![r] = origin[r]]
  /\ Go(r, "push")
  /\ UNCHANGED <<gitVars, origin, next, lockVars, wd>>

\* The commit the release adds: its VERSION file belongs to the unit.
ReleaseCommit(r, bot) ==
  [via |-> bot, scope |-> main[r].scope, bump |-> "patch", squash |-> "patch", pr |-> FALSE]

TagTaken(u, v) == \E t \in tags : t.unit = u /\ t.ver = v

\* Mutant of Push: without --atomic a rejected branch still lands its tag.
PushNotAtomic(r, bot) ==
  LET u == main[r].scope
      n == Len(main) + 1
      t == [unit |-> u, ver |-> next[r], at |-> n, src |-> r]
  IN
  /\ stage[r] = "push" /\ n <= MaxCommits
  /\ tags' = tags \cup {t}
  /\ IF head[r] = Len(main)
     THEN /\ main' = Append(main, ReleaseCommit(r, bot))
          /\ CreateRun(n) /\ stage' = [Queued(n) EXCEPT ![r] = "publish"]
     ELSE UNCHANGED main /\ Go(r, "unlock")
  /\ UNCHANGED <<jobVars, ghReleases, lockVars, wd>>

\* update_version_files, the changelog, and the commit, tag and atomic push of
\* run_publish.  The server takes both refs, when main is where the reset left
\* it and the tag is new, or neither.
Push(r, bot) ==
  LET u == main[r].scope
      n == Len(main) + 1
      t == [unit |-> u, ver |-> next[r], at |-> n, src |-> r]
  IN
  /\ stage[r] = "push" /\ n <= MaxCommits
  /\ IF head[r] = Len(main) /\ ~TagTaken(u, next[r])
     THEN /\ main' = Append(main, ReleaseCommit(r, bot))
          /\ tags' = tags \cup {t}
          /\ CreateRun(n) /\ stage' = [Queued(n) EXCEPT ![r] = "publish"]
     ELSE UNCHANGED <<main, tags>> /\ Go(r, "unlock")
  /\ UNCHANGED <<jobVars, ghReleases, lockVars, wd>>

\* gh release create.
GhRelease(r) ==
  /\ stage[r] = "publish"
  /\ ghReleases' = ghReleases \cup {t \in tags : t.src = r}
  /\ Go(r, "unlock")
  /\ UNCHANGED <<main, tags, jobVars, lockVars, wd>>

-----------------------------------------------------------------------------
(***************************************************************************)
(* The unlock job: it runs whatever the release job's result was.          *)
(***************************************************************************)

\* _is_branch_locked finds the marker.
UnlockFindsMarker(r) ==
  /\ stage[r] = "unlock"
  /\ marker.run # 0
  /\ Go(r, "delete")
  /\ UNCHANGED <<gitVars, jobVars, lockVars, wd>>

\* No marker: the unlock is a no-op (D47), whatever the protection rule says.
UnlockNoOp(r) ==
  /\ stage[r] = "unlock"
  /\ marker.run = 0
  /\ EndRun(r, "done")
  /\ UNCHANGED <<gitVars, jobVars, lockVars, wd>>

\* _is_branch_locked takes every failure of its read for an absent marker.
UnlockReadFails(r) ==
  /\ stage[r] = "unlock"
  /\ marker.run # 0
  /\ EndRun(r, "done")
  /\ UNCHANGED <<gitVars, jobVars, lockVars, wd>>

\* _delete_lock_marker: a 404 counts as deleted, and the owner is not compared.
DeleteLockMarker(r) ==
  /\ stage[r] = "delete"
  /\ marker' = NoMarker
  /\ Go(r, "disable")
  /\ UNCHANGED <<gitVars, jobVars, protection, wd>>

\* _disable_branch_lock: the rule is re-PUT with lock_branch = false.
DisableBranchLock(r) ==
  /\ stage[r] = "disable"
  /\ protection' = FALSE
  /\ EndRun(r, "done")
  /\ UNCHANGED <<gitVars, jobVars, marker, wd>>

-----------------------------------------------------------------------------
(***************************************************************************)
(* Faults.  A step that fails, or whose answer is lost after it took       *)
(* effect, fails its job; what depends on the job is skipped, except the   *)
(* unlock job.  A forced cancellation or an outage ends the whole run.     *)
(***************************************************************************)
StepFails(r) ==
  /\ \/ stage[r] \in ValidationStages /\ EndRun(r, "failed")
     \/ stage[r] \in ReleaseStages /\ Go(r, "unlock")
     \/ stage[r] \in UnlockStages /\ EndRun(r, "unlock_failed")
  /\ UNCHANGED <<gitVars, jobVars, lockVars, wd>>

RunLost(r) ==
  /\ stage[r] \in LiveStages
  /\ EndRun(r, "crashed")
  /\ UNCHANGED <<gitVars, jobVars, lockVars, wd>>

-----------------------------------------------------------------------------
(***************************************************************************)
(* The safety-net watchdog: read the marker, count the runs in progress,   *)
(* decide, delete the marker.  Each is a call of its own.                  *)
(***************************************************************************)

\* read_lock_info; an absent marker ends the check at once.
WatchdogRead ==
  /\ wd.pc = "idle"
  /\ marker.run # 0
  /\ wd' = [pc |-> "count", age |-> marker.age]
  /\ UNCHANGED <<gitVars, laneVars, jobVars, lockVars>>

\* decide_unlock, for a marker that was found: DO_UNLOCK.
DecideUnlock(inProgressCount, age) ==
  /\ inProgressCount = 0
  /\ age >= LockMaxAge

\* check_in_progress_release_runs and decide_unlock.  The count is asked for by
\* "gh api .../runs --field ..." without --method GET: gh then sends a POST, which
\* that path does not have, and the check raises (WatchdogFails).  So the
\* repository's CountAnswered is FALSE; TRUE adds the steps of a watchdog that
\* gets its answer, and what is safe with them is safe without.
WatchdogDecide ==
  /\ CountAnswered
  /\ wd.pc = "count"
  /\ wd' = [wd EXCEPT !.pc = IF DecideUnlock(Cardinality(InProgress), wd.age)
                             THEN "delete" ELSE "idle"]
  /\ UNCHANGED <<gitVars, laneVars, jobVars, lockVars>>

\* Mutant of PerformUnlock: it clears lock_branch as well.
PerformUnlockWithProtection ==
  /\ wd.pc = "delete"
  /\ marker' = NoMarker
  /\ protection' = FALSE
  /\ wd' = [wd EXCEPT !.pc = "idle"]
  /\ UNCHANGED <<gitVars, laneVars, jobVars>>

\* perform_unlock: deletes whatever marker there is now, and nothing else.
PerformUnlock ==
  /\ wd.pc = "delete"
  /\ marker' = NoMarker
  /\ wd' = [wd EXCEPT !.pc = "idle"]
  /\ UNCHANGED <<gitVars, laneVars, jobVars, protection>>

\* A call of the watchdog fails, the count every time when it is never answered:
\* it exits 1 and the next tick starts over.
WatchdogFails ==
  /\ wd.pc # "idle"
  /\ wd' = [wd EXCEPT !.pc = "idle"]
  /\ UNCHANGED <<gitVars, laneVars, jobVars, lockVars>>

\* Time passes: the marker's age, up to the threshold it is compared with.
Tick ==
  /\ marker.run # 0 /\ marker.age < LockMaxAge
  /\ marker' = [marker EXCEPT !.age = @ + 1]
  /\ UNCHANGED <<gitVars, laneVars, jobVars, protection, wd>>

-----------------------------------------------------------------------------
People ==
  \/ \E s \in MergeScopes, b \in MergeBumps, q \in MergeBumps : MergePullRequest(s, b, q)
  \/ \E s \in MergeScopes, b \in MergeBumps, pr \in BOOLEAN : AdminPush(s, b, pr)

RunStep(r) ==
  \/ SkipCheck(r) \/ Validations(r) \/ VersionCheck(r)
  \/ WriteLockMarker(r) \/ EnableProtection(r)
  \/ GitFetch(r) \/ CheckStaleness(r) \/ GitReset(r)
  \/ \E bot \in Bots : Push(r, bot)
  \/ GhRelease(r)
  \/ UnlockFindsMarker(r) \/ UnlockNoOp(r) \/ DeleteLockMarker(r) \/ DisableBranchLock(r)

Faults(r) == StepFails(r) \/ RunLost(r) \/ UnlockReadFails(r)

Watchdog == WatchdogRead \/ WatchdogDecide \/ PerformUnlock \/ WatchdogFails

Next ==
  \/ People
  \/ \E r \in RunIds : RunStep(r) \/ Faults(r)
  \/ Watchdog
  \/ Tick

Spec == Init /\ [][Next]_vars

\* The run in progress advances, time passes, and the watchdog's schedule starts
\* it and sees it end.  No call of it is assumed to succeed.
Fairness ==
  /\ WF_vars(\E r \in RunIds : RunStep(r))
  /\ WF_vars(Tick)
  /\ WF_vars(Watchdog)

FairSpec == Spec /\ Fairness

-----------------------------------------------------------------------------
(***************************************************************************)
(* Properties.                                                             *)
(***************************************************************************)

\* From the moment lock_branch returned until its push, a release works under
\* a locked main: neither the watchdog nor another run's unlock takes the
\* protection away from under it (B15).
ReleaseUnderProtection ==
  \A r \in RunIds :
    stage[r] \in {"fetch", "staleness", "reset", "push", "publish"} => protection

\* What is on main beyond the base a run fetched under the lock was put there
\* by an admin: the merge queue and other releases cannot make its push fail.
LockedBaseMovedOnlyByAdmins ==
  \A r \in RunIds :
    stage[r] \in {"staleness", "reset", "push"} =>
      \A i \in (origin[r] + 1)..Len(main) : main[i].via = "admin"

\* Every tag points at a release commit that is on main and that belongs to
\* its unit, one commit per tag: run_publish never leaves a dangling tag.
NoDanglingTag ==
  /\ \A t \in tags : t.at \in 1..Len(main) /\ main[t.at].via \in Bots
                     /\ main[t.at].scope = t.unit
  /\ \A s, t \in tags : s.at = t.at => s = t

\* The versions of a unit increase along main.
VersionsFollowMain ==
  \A s, t \in tags : s.unit = t.unit /\ s.at < t.at => Less(s.ver, t.ver)

\* The version that version-check derived before the lock was taken is still
\* the next one of its unit when the release is pushed.
VersionStaysNext ==
  \A r \in RunIds :
    stage[r] \in ReleaseStages \ {"publish"} =>
      next[r] = NextVersion(VersionsOf(main[r].scope), main[r].bump)

\* A tag is the release of one pull request whose title and squash subject
\* agree on the bump (D17), and a pull request is released once: no release
\* commit is ever released in turn (B16).
OneReleasePerPullRequest ==
  /\ \A t \in tags : LET c == main[t.src] IN
       c.pr /\ c.bump = c.squash /\ c.via \notin Bots /\ c.scope = t.unit
  /\ \A s, t \in tags : s.src = t.src => s = t

\* The lane drains: whatever fails, once people stop pushing no run is left in
\* progress or pending.
LaneDrains == running # 0 \/ pending # 0 ~> running = 0 /\ pending = 0

\* The published versions form the ledger the pipeline promises.
Ledger == INSTANCE ReleaseLedger WITH
  released <- {[unit |-> t.unit, ver |-> t.ver] : t \in tags}

ImplementsLedger == Ledger!Spec

-----------------------------------------------------------------------------
(***************************************************************************)
(* What the documentation says and the code does not do.                   *)
(***************************************************************************)

\* check_staleness.py: "If any such files have changed, the base is stale and
\* the release must not proceed."
ReleasedBaseFresh ==
  \A t \in tags : ~ Changed(t.src, t.at - 1, t.unit)

\* release-pipeline.md: "A run is cancelled only when genuinely superseded (a
\* newer push to the same PR), never because another contributor merged at the
\* same time."  The run of a merged pull request is never dropped.
NoReleaseRunSuperseded ==
  \A r \in RunIds : stage[r] = "superseded" => main[r].via \in Bots

\* release-pipeline.md: the watchdog "recovers a lock orphaned by a crashed
\* release run".  Once no run is in progress, main does not stay locked.
OrphanedLockRecovered ==
  protection /\ InProgress = {} ~> ~protection
=============================================================================
